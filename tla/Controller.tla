------------------------------ MODULE Controller ------------------------------
(***************************************************************************)
(* What the three reconcilers of the operator share: the custom resources   *)
(* held by the Kubernetes API server, the manager's informer cache that      *)
(* trails it, the work queue, and the one worker of a controller with the    *)
(* copy of the object it reconciles.  OrganizationReconciler,                *)
(* BucketReconciler and TokenReconciler extend this module with the calls     *)
(* of their own ReconcileResources and FinalizeResources.                    *)
(*                                                                           *)
(* resourceVersion is not a number here.  versions[k] lists the versions of   *)
(* object k from the one the informer holds (the head) to the one the API     *)
(* server holds (the last), so a cached copy is out of date exactly when       *)
(* something follows it, and worker.stale says that the API server has         *)
(* accepted a write to the object since the version the worker copied.         *)
(***************************************************************************)
EXTENDS Naturals, Sequences

CONSTANTS
    Keys,       \* namespaced names of the custom resources of one kind
    NoKey,      \* the worker's key when it is idle
    MaxUid,     \* bound: how often the object of one name is created
    MaxLag,     \* bound: how many versions the informer may trail the API server
    MaxFaults,  \* bound: failed calls, restarts, edits, drift, taken together
    External,   \* the creator of what the operator did not create
    SameSecond  \* whether two LastTransitionTime stamps may coincide

ASSUME ControllerAssumption ==
    /\ NoKey \notin Keys
    /\ MaxUid \in Nat
    /\ MaxLag \in Nat \ {0}
    /\ MaxFaults \in Nat
    /\ External \notin Keys \X Nat
    /\ SameSecond \in BOOLEAN

VARIABLES
    versions,   \* versions[k]: object k as the informer has it ... as the API server has it
    queue,      \* keys waiting in the work queue, rate limited and delayed ones included
    worker,     \* the call the worker is about to issue, and the copy it works on
    faults      \* what is left of the fault budget

controllerVars == <<versions, queue, worker, faults>>

(***************************************************************************)
(* Objects.  phase is status.phase; conds is the set of the reasons found in *)
(* status.conditions (the code scans the list for a reason before it         *)
(* appends one).  A deleted object stays as a version that does not exist.    *)
(***************************************************************************)
phaseNone == "none"     \* status.phase is still empty

phasePending == "pending"

phaseReady == "ready"

phaseTerminating == "terminating"

Phases == {phaseNone, phasePending, phaseReady, phaseTerminating}

reasonFinalizerAdded == "finalizerAdded"

reasonCreated == "created"      \* createdOrganization, createdBucket, createdToken

reasonDeleted == "deleted"      \* deletedOrganization, deletedBucket, deletedToken

Reasons == {reasonFinalizerAdded, reasonCreated, reasonDeleted}

Object ==
    [uid : Nat, exists : BOOLEAN, deleting : BOOLEAN, finalizer : BOOLEAN,
     phase : Phases, conds : SUBSET Reasons]

NewObject(uid) ==
    [uid |-> uid, exists |-> TRUE, deleting |-> FALSE, finalizer |-> FALSE,
     phase |-> phaseNone, conds |-> {}]

Gone(obj) ==
    [uid |-> obj.uid, exists |-> FALSE, deleting |-> TRUE, finalizer |-> FALSE,
     phase |-> obj.phase, conds |-> obj.conds]

\* object.Status = ...: what the handlers assign before r.Status().Update.
WithStatus(obj, phase, conds) ==
    [uid |-> obj.uid, exists |-> obj.exists, deleting |-> obj.deleting,
     finalizer |-> obj.finalizer, phase |-> phase, conds |-> conds]

NoObject == Gone(NewObject(0))

Cached(k) == versions[k][1]

Latest(k) == versions[k][Len(versions[k])]

(***************************************************************************)
(* The worker.  A controller runs one reconcile at a time.                   *)
(***************************************************************************)
Idle == [pc |-> "idle", key |-> NoKey, obj |-> NoObject, stale |-> FALSE]

Workers(calls) ==
    [pc : calls \cup {"idle"}, key : Keys \cup {NoKey}, obj : Object, stale : BOOLEAN]

\* The resource the worker has in hand, as its identity (name and uid).
Me == <<worker.key, worker.obj.uid>>

At(call) == worker.pc = call

GoTo(call) == worker' = [worker EXCEPT !.pc = call]

(***************************************************************************)
(* The end of a reconcile.  An error and a RequeueAfter put the key back in   *)
(* the queue; ctrl.Result{} does not.                                        *)
(***************************************************************************)
Finish(requeue) ==
    /\ worker' = Idle
    /\ queue' = IF requeue THEN queue \cup {worker.key} ELSE queue

\* A fault to check against: errors are logged and not returned.
ErrorSwallowed == Finish(FALSE)

ReturnError == Finish(TRUE)

\* A fault to check against: the reconcile that changed nothing is not repeated.
RequeueForgotten == Finish(FALSE)

RequeueAfter == Finish(TRUE)

ReturnDone == Finish(FALSE)

(***************************************************************************)
(* API server and informer.                                                  *)
(***************************************************************************)
Fault == faults > 0 /\ faults' = faults - 1

Store(k, obj) ==
    /\ Len(versions[k]) <= MaxLag
    /\ versions' = [versions EXCEPT ![k] = Append(@, obj)]

Outdate(k) == worker' = IF worker.key = k THEN [worker EXCEPT !.stale = TRUE] ELSE worker

\* The informer applies the next watch event and its handler enqueues the key.
Deliver(k) ==
    /\ Len(versions[k]) > 1
    /\ versions' = [versions EXCEPT ![k] = Tail(@)]
    /\ queue' = queue \cup {k}
    /\ UNCHANGED <<worker, faults>>

UserCreate(k) ==
    /\ ~Latest(k).exists
    /\ Latest(k).uid < MaxUid
    /\ Store(k, NewObject(Latest(k).uid + 1))
    /\ Outdate(k)
    /\ UNCHANGED <<queue, faults>>

\* Deletion waits for the finalizer when there is one.
UserDelete(k) ==
    /\ Latest(k).exists
    /\ ~Latest(k).deleting
    /\ Store(k, IF Latest(k).finalizer THEN [Latest(k) EXCEPT !.deleting = TRUE]
                                       ELSE Gone(Latest(k)))
    /\ Outdate(k)
    /\ UNCHANGED <<queue, faults>>

\* A label or annotation changes: nothing modelled does, but resourceVersion does.
UserEdit(k) ==
    /\ Latest(k).exists
    /\ Store(k, Latest(k))
    /\ Outdate(k)
    /\ Fault
    /\ UNCHANGED queue

\* The manager restarts: the worker and the queue are lost, and the new informer
\* lists the objects and enqueues each of them.
RestartController ==
    /\ versions' = [k \in Keys |-> <<Latest(k)>>]
    /\ queue' = {k \in Keys : Latest(k).exists}
    /\ worker' = Idle

\* The call the worker is in fails without effect: the handler returns the error.
CallFails ==
    /\ ~At("idle")
    /\ Fault
    /\ ReturnError
    /\ UNCHANGED versions

\* A fault to check against: writes without a resourceVersion.
SaveBlindly(obj) ==
    /\ Store(worker.key, obj)
    /\ \/ ReturnDone /\ UNCHANGED faults
       \/ Fault /\ ReturnError

(***************************************************************************)
(* r.Update and r.Status().Update with the worker's copy.  The API server     *)
(* refuses the write with a conflict when the copy is stale.  A write it       *)
(* accepts ends the reconcile with ObjectUpdated, for which Reconcile returns  *)
(* no error and asks for no requeue; when the answer is lost the error is      *)
(* returned although the write happened.                                      *)
(***************************************************************************)
Save(obj) ==
    \/ /\ worker.stale
       /\ ReturnError
       /\ UNCHANGED <<versions, faults>>
    \/ /\ ~worker.stale
       /\ Store(worker.key, obj)
       /\ ReturnDone
       /\ UNCHANGED faults
    \/ /\ ~worker.stale
       /\ Fault
       /\ Store(worker.key, obj)
       /\ ReturnError

(***************************************************************************)
(* A status update whose only change is a LastTransitionTime.  Stamps have a   *)
(* resolution of one second: when the new one equals the old one the API       *)
(* server stores nothing and no watch event follows.                          *)
(***************************************************************************)
SaveSameSecond ==
    /\ SameSecond
    /\ ~worker.stale
    /\ Fault
    /\ ReturnDone
    /\ UNCHANGED versions

(***************************************************************************)
(* The handlers that are the same for the three kinds.  They touch the         *)
(* resource and nothing else.                                                 *)
(***************************************************************************)
MarkTerminating ==
    /\ At("FinalizeStatus")
    /\ Save(WithStatus(worker.obj, phaseTerminating, worker.obj.conds))

\* Without finalizers the API server drops a resource marked for deletion.
DropFinalizer ==
    /\ At("RemoveFinalizer")
    /\ Save(Gone(worker.obj))

PutFinalizer ==
    /\ At("AddFinalizer")
    /\ Save([worker.obj EXCEPT !.finalizer = TRUE])

MarkInitialized ==
    /\ At("InitializeStatus")
    /\ Save(WithStatus(worker.obj, phasePending, {reasonFinalizerAdded}))

\* A status update that adds a condition, or stamps the one that is there.
SaveCondition(reason, phase) ==
    \/ Save(WithStatus(worker.obj, phase, worker.obj.conds \cup {reason}))
    \/ reason \in worker.obj.conds /\ SaveSameSecond

MarkDeleted ==
    /\ At("DeletedStatus")
    /\ SaveCondition(reasonDeleted, worker.obj.phase)

\* The first time the phase becomes ready; later on only the stamp changes.
MarkCreated ==
    /\ At("CreatedStatus")
    /\ SaveCondition(reasonCreated,
                     IF reasonCreated \in worker.obj.conds THEN worker.obj.phase ELSE phaseReady)

(***************************************************************************)
(* Reconcile up to its first call to the API server: read the object from the *)
(* cache and find out which of the handlers has something to do.              *)
(***************************************************************************)
Live(obj) == obj.exists /\ ~obj.deleting

Dying(obj) == obj.exists /\ obj.deleting /\ obj.finalizer

Initialized(obj) == reasonFinalizerAdded \in obj.conds

\* A fault to check against: the finalizer and the status are looked after before the
\* deletion timestamp is.
FirstCallDeletionLast(obj) ==
    CASE obj.exists /\ ~obj.finalizer                             -> "AddFinalizer"
      [] obj.exists /\ obj.finalizer /\ ~Initialized(obj)         -> "InitializeStatus"
      [] Dying(obj) /\ Initialized(obj) /\ obj.phase # phaseTerminating -> "FinalizeStatus"
      [] Dying(obj) /\ Initialized(obj) /\ obj.phase = phaseTerminating -> "FinalizeResources"
      [] Live(obj) /\ obj.finalizer /\ Initialized(obj)           -> "ReconcileResources"
      [] OTHER                                                    -> "idle"

\* A fault to check against: the finalizer comes last, when there is something to guard.
FirstCallFinalizerLast(obj) ==
    CASE Dying(obj) /\ obj.phase # phaseTerminating            -> "FinalizeStatus"
      [] Dying(obj) /\ obj.phase = phaseTerminating            -> "FinalizeResources"
      [] Live(obj) /\ ~Initialized(obj)                        -> "InitializeStatus"
      [] Live(obj) /\ Initialized(obj) /\ obj.phase # phaseReady -> "ReconcileResources"
      [] Live(obj) /\ obj.phase = phaseReady /\ ~obj.finalizer  -> "AddFinalizer"
      [] Live(obj) /\ obj.phase = phaseReady /\ obj.finalizer   -> "ReconcileResources"
      [] OTHER                                                 -> "idle"

FirstCall(obj) ==
    CASE Dying(obj) /\ obj.phase # phaseTerminating          -> "FinalizeStatus"
      [] Dying(obj) /\ obj.phase = phaseTerminating          -> "FinalizeResources"
      [] Live(obj) /\ ~obj.finalizer                         -> "AddFinalizer"
      [] Live(obj) /\ obj.finalizer /\ ~Initialized(obj)     -> "InitializeStatus"
      [] Live(obj) /\ obj.finalizer /\ Initialized(obj)      -> "ReconcileResources"
      [] OTHER                                               -> "idle"

Dispatch(k) ==
    /\ At("idle")
    /\ k \in queue
    /\ queue' = queue \ {k}
    /\ worker' = IF FirstCall(Cached(k)) = "idle" THEN Idle
                 ELSE [pc |-> FirstCall(Cached(k)), key |-> k, obj |-> Cached(k),
                       stale |-> Len(versions[k]) > 1]
    /\ UNCHANGED <<versions, faults>>

ControllerInit ==
    /\ versions = [k \in Keys |-> <<NoObject>>]
    /\ queue = {}
    /\ worker = Idle
    /\ faults = MaxFaults

(***************************************************************************)
(* What every kind promises about its resources.                              *)
(***************************************************************************)
CommonCalls == {"FinalizeStatus", "FinalizeResources", "DeletedStatus", "RemoveFinalizer",
                "AddFinalizer", "InitializeStatus", "ReconcileResources", "CreatedStatus"}

ControllerTypeOK(calls) ==
    /\ versions \in [Keys -> Seq(Object) \ {<<>>}]
    /\ queue \subseteq Keys
    /\ worker \in Workers(calls)
    /\ (worker.key = NoKey) <=> At("idle")
    /\ faults \in 0 .. MaxFaults

\* The resource of identity me is still there and has its finalizer.
Held(me) ==
    LET obj == Latest(me[1]) IN obj.uid = me[2] /\ obj.exists /\ obj.finalizer

Alive(me) == Latest(me[1]).uid = me[2] /\ Live(Latest(me[1]))

(***************************************************************************)
(* The resources of a run and their state, in the terms of Lifecycle.         *)
(***************************************************************************)
Resources == Keys \X (1 .. MaxUid)

HeldResources == {me \in Resources : Held(me)}

PastResources ==
    {me \in Resources :
        LET obj == Latest(me[1])
        IN me[2] < obj.uid \/ (me[2] = obj.uid /\ ~obj.exists)}

\* "requeue to maintain the state": as long as a resource exists, its key is queued,
\* in the worker's hands, or about to be queued by a watch event.  Reconcile ends
\* with ctrl.Result{} after every write and relies on the event of that write.
NoLostWakeup ==
    \A k \in Keys :
        Latest(k).exists => k \in queue \/ worker.key = k \/ Len(versions[k]) > 1

PhaseRank == [p \in Phases |-> CASE p = phaseNone -> 0
                                 [] p = phasePending -> 1
                                 [] p = phaseReady -> 2
                                 [] p = phaseTerminating -> 3]

\* The phase of a resource only moves forward: a worker that copied it before the
\* user deleted it cannot turn "terminating" back into "ready" or "pending".
PhaseForward ==
    [][\A k \in Keys :
          Latest(k)'.uid = Latest(k).uid
              => PhaseRank[Latest(k).phase] <= PhaseRank[Latest(k)'.phase]]_versions

(***************************************************************************)
(* The order behind those promises.  An older version of an object, cached or  *)
(* copied, tells something about every newer one: uids do not go back, what is  *)
(* deleted stays deleted, and a copy that is live and has the finalizer can be   *)
(* trusted in one thing, that the object is still there, since only the worker   *)
(* removes the finalizer and it does so from a copy that says "deleting".        *)
(***************************************************************************)
Before(a, b) ==
    /\ a.uid <= b.uid
    /\ a.uid = b.uid => /\ b.exists => a.exists
                        /\ a.deleting => b.deleting
                        /\ b.exists /\ a.finalizer => b.finalizer
    /\ Live(a) /\ a.finalizer => a.uid = b.uid /\ b.exists

WellFormed(obj) ==
    /\ obj.exists /\ obj.deleting => obj.finalizer
    /\ ~obj.exists => obj.deleting /\ ~obj.finalizer
    /\ obj.phase = phaseTerminating => obj.deleting
    /\ obj.phase = phaseReady => Initialized(obj)

HistoryOK ==
    \A k \in Keys : \A j \in 1 .. Len(versions[k]) :
        /\ WellFormed(versions[k][j])
        /\ \A i \in 1 .. j : Before(versions[k][i], versions[k][j])

\* The copy in the worker's hands, when the calls of FinalizeResources are fin and
\* those of ReconcileResources are rec.
CopyOK(fin, rec) ==
    ~At("idle") =>
        /\ worker.pc \in fin \cup rec \cup {"FinalizeStatus", "AddFinalizer", "InitializeStatus"}
        /\ WellFormed(worker.obj)
        /\ \A i \in 1 .. Len(versions[worker.key]) :
              Before(worker.obj, versions[worker.key][i])
        /\ ~worker.stale => worker.obj = Latest(worker.key)
        /\ worker.pc \in fin \cup {"FinalizeStatus"} => Dying(worker.obj)
        /\ worker.pc \in rec \cup {"AddFinalizer", "InitializeStatus"} => Live(worker.obj)
        /\ worker.pc \in rec \cup {"InitializeStatus"} => worker.obj.finalizer
        /\ worker.pc \in rec => Initialized(worker.obj)
        /\ At("InitializeStatus") => ~Initialized(worker.obj)
===============================================================================
