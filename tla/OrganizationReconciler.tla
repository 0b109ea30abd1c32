------------------------ MODULE OrganizationReconciler ------------------------
(***************************************************************************)
(* The controller of Organization resources.  An Organization names an        *)
(* organization of an InfluxDB server; ReconcileResources creates it there,   *)
(* FinalizeResources deletes it there when the resource is deleted, and the    *)
(* finalizer keeps the resource until that is done.                           *)
(***************************************************************************)
EXTENDS Controller

CONSTANTS
    Names,      \* organization names on the InfluxDB server
    NameOf,     \* NameOf[k]: metadata.name of resource k (resources of two
                \* namespaces may share it)
    Ids,        \* organization ids the server may give out
    NoId

ASSUME OrganizationAssumption ==
    /\ NameOf \in [Keys -> Names]
    /\ NoId \notin Ids

VARIABLES
    orgs,       \* orgs[n]: the organization of name n on the server
    config,     \* config[k]: what the worker gets for the Config that k refers to
    target,     \* the organization id FinalizeResources has found
    lost,       \* auxiliary: names whose organization was deleted by someone else
    skipped     \* auxiliary: resources finalized without their Config

influxVars == <<orgs, config, target, lost, skipped>>

vars == <<controllerVars, influxVars>>

Org == [id : Ids \cup {NoId}, by : (Keys \X Nat) \cup {External}]

NoOrg == [id |-> NoId, by |-> External]

OrgExists(n) == orgs[n].id # NoId

\* The Config is missing, or the secret it names, or the organization it names.
Configs == {"ok", "noConfig", "noSecret", "noOrg"}

Calls == CommonCalls \cup {"FindOrganizationByName", "DeleteOrganizationWithID",
                           "FindConfigOrganization", "CreateOrganization"}

\* The organization of the administrator's token, which is there before any resource.
defaultOrgName == "influxdata"

\* The name the worker asks InfluxDB about.
MyName == NameOf[worker.key]

FreshId(id) == id # target /\ \A n \in Names : orgs[n].id # id

(***************************************************************************)
(* The handlers that only touch the resource itself.                          *)
(***************************************************************************)
Reconcile(k) == Dispatch(k) /\ UNCHANGED influxVars

FinalizeStatus == MarkTerminating /\ UNCHANGED influxVars

RemoveFinalizer == DropFinalizer /\ UNCHANGED influxVars

AddFinalizer == PutFinalizer /\ UNCHANGED influxVars

InitializeStatus == MarkInitialized /\ UNCHANGED influxVars

(***************************************************************************)
(* FinalizeResources: read the Config and its secret, find the organization   *)
(* by name, delete it by id, record that in the status.                       *)
(***************************************************************************)
\* A fault to check against: a missing token is taken for a missing Config.
FinalizeWithoutToken ==
    /\ At("FinalizeResources")
    /\ GoTo(IF config[worker.key] \in {"noConfig", "noSecret"}
            THEN "RemoveFinalizer" ELSE "FindOrganizationByName")
    /\ skipped' = IF config[worker.key] = "noConfig" THEN skipped \cup {Me} ELSE skipped
    /\ UNCHANGED <<versions, queue, faults, orgs, config, target, lost>>

FinalizeReadConfig ==
    /\ At("FinalizeResources")
    /\ \/ /\ config[worker.key] = "noConfig"
          /\ GoTo("RemoveFinalizer")
          /\ skipped' = skipped \cup {Me}
          /\ UNCHANGED queue
       \/ /\ config[worker.key] = "noSecret"
          /\ ReturnError
          /\ UNCHANGED skipped
       \/ /\ config[worker.key] \in {"ok", "noOrg"}
          /\ GoTo("FindOrganizationByName")
          /\ UNCHANGED <<skipped, queue>>
    /\ UNCHANGED <<versions, faults, orgs, config, target, lost>>

\* A fault to check against: the name is kept where the id is needed.
FindOrganizationKeepsName ==
    /\ At("FindOrganizationByName")
    /\ GoTo(IF OrgExists(MyName) THEN "DeleteOrganizationWithID" ELSE "RemoveFinalizer")
    /\ target' = MyName
    /\ UNCHANGED <<versions, queue, faults, orgs, config, lost, skipped>>

\* A fault to check against: 404 is an error like any other.
FindOrganizationStrictly ==
    /\ At("FindOrganizationByName")
    /\ target' = orgs[MyName].id
    /\ \/ OrgExists(MyName) /\ GoTo("DeleteOrganizationWithID") /\ UNCHANGED queue
       \/ ~OrgExists(MyName) /\ ReturnError
    /\ UNCHANGED <<versions, faults, orgs, config, lost, skipped>>

FindOrganizationByName ==
    /\ At("FindOrganizationByName")
    /\ GoTo(IF OrgExists(MyName) THEN "DeleteOrganizationWithID" ELSE "RemoveFinalizer")
    /\ target' = orgs[MyName].id
    /\ UNCHANGED <<versions, queue, faults, orgs, config, lost, skipped>>

\* Deletion is by id: an organization that was replaced meanwhile is not touched.
DeleteOrganizationWithID ==
    /\ At("DeleteOrganizationWithID")
    /\ \/ /\ orgs[MyName].id # target
          /\ ReturnError
          /\ UNCHANGED <<orgs, faults>>
       \/ /\ orgs[MyName].id = target
          /\ orgs' = [orgs EXCEPT ![MyName] = NoOrg]
          /\ GoTo("DeletedStatus")
          /\ UNCHANGED <<queue, faults>>
       \/ /\ orgs[MyName].id = target
          /\ orgs' = [orgs EXCEPT ![MyName] = NoOrg]
          /\ Fault
          /\ ReturnError
    /\ target' = NoId
    /\ UNCHANGED <<versions, config, lost, skipped>>

DeletedStatus == MarkDeleted /\ UNCHANGED influxVars

(***************************************************************************)
(* ReconcileResources: read the Config and its secret, find the organization  *)
(* the Config itself belongs to, create the resource's organization or learn   *)
(* that it exists, record that in the status once and each time it had to be    *)
(* created again.                                                             *)
(***************************************************************************)
ReconcileReadConfig ==
    /\ At("ReconcileResources")
    /\ \/ /\ config[worker.key] \in {"noConfig", "noSecret"}
          /\ ReturnError
       \/ /\ config[worker.key] \in {"ok", "noOrg"}
          /\ GoTo("FindConfigOrganization")
          /\ UNCHANGED queue
    /\ UNCHANGED <<versions, faults, influxVars>>

\* A fault to check against: the status is updated before the organization is created.
RecordBeforeCreation ==
    /\ At("FindConfigOrganization")
    /\ config[worker.key] # "noOrg"
    /\ GoTo(IF reasonCreated \in worker.obj.conds THEN "CreateOrganization" ELSE "CreatedStatus")
    /\ UNCHANGED <<versions, queue, faults, influxVars>>

FindConfigOrganization ==
    /\ At("FindConfigOrganization")
    /\ \/ /\ config[worker.key] = "noOrg"
          /\ ReturnError
       \/ /\ config[worker.key] # "noOrg"
          /\ GoTo("CreateOrganization")
          /\ UNCHANGED queue
    /\ UNCHANGED <<versions, faults, influxVars>>

\* A fault to check against: after a conflict the code runs on into the finalization.
ConflictFallsThrough ==
    /\ OrgExists(MyName)
    /\ GoTo(IF reasonCreated \in worker.obj.conds THEN "FinalizeResources" ELSE "CreatedStatus")
    /\ UNCHANGED <<queue, faults, orgs, lost>>

\* The server answers 422 when the name is taken.
OrganizationConflict ==
    /\ OrgExists(MyName)
    /\ IF reasonCreated \in worker.obj.conds
       THEN RequeueAfter
       ELSE GoTo("CreatedStatus") /\ UNCHANGED queue
    /\ UNCHANGED <<faults, orgs, lost>>

CreateOrganization ==
    /\ At("CreateOrganization")
    /\ \/ OrganizationConflict
       \/ /\ ~OrgExists(MyName)
          /\ \E id \in Ids :
                /\ FreshId(id)
                /\ orgs' = [orgs EXCEPT ![MyName] = [id |-> id, by |-> Me]]
          /\ lost' = lost \ {MyName}
          /\ \/ GoTo("CreatedStatus") /\ UNCHANGED <<queue, faults>>
             \/ Fault /\ ReturnError
    /\ UNCHANGED <<versions, config, target, skipped>>

CreatedStatus == MarkCreated /\ UNCHANGED influxVars

(***************************************************************************)
(* The world around the controller.                                          *)
(***************************************************************************)
Informer(k) == Deliver(k) /\ UNCHANGED influxVars

\* A fault to check against: the webhook that lets everything pass.
AcceptAnyName(k) == TRUE

\* The webhook: "cannot operate on influxdata".
ValidateCreate(k) == NameOf[k] # defaultOrgName

Create(k) == ValidateCreate(k) /\ UserCreate(k) /\ UNCHANGED influxVars

Delete(k) == UserDelete(k) /\ UNCHANGED influxVars

Edit(k) == UserEdit(k) /\ UNCHANGED influxVars

Fail ==
    /\ CallFails
    /\ target' = NoId
    /\ UNCHANGED <<orgs, config, lost, skipped>>

Restart ==
    /\ Fault
    /\ RestartController
    /\ target' = NoId
    /\ UNCHANGED <<orgs, config, lost, skipped>>

\* Somebody else deletes or creates the organization.
Drift(n) ==
    /\ Fault
    /\ IF OrgExists(n)
       THEN orgs' = [orgs EXCEPT ![n] = NoOrg] /\ lost' = lost \cup {n}
       ELSE /\ \E id \in Ids : FreshId(id) /\ orgs' = [orgs EXCEPT ![n] = [id |-> id, by |-> External]]
            /\ lost' = lost \ {n}
    /\ UNCHANGED <<versions, queue, worker, config, target, skipped>>

\* The Config, or what it points to, appears, disappears or is repaired.
ChangeConfig(k) ==
    /\ Fault
    /\ \E c \in Configs \ {config[k]} : config' = [config EXCEPT ![k] = c]
    /\ UNCHANGED <<versions, queue, worker, orgs, target, lost, skipped>>

Init ==
    /\ ControllerInit
    /\ \E id \in Ids :
          orgs = [n \in Names |-> IF n = defaultOrgName
                                 THEN [id |-> id, by |-> External] ELSE NoOrg]
    /\ config = [k \in Keys |-> "ok"]
    /\ target = NoId
    /\ lost = {}
    /\ skipped = {}

Work ==
    \/ FinalizeStatus
    \/ FinalizeReadConfig
    \/ FindOrganizationByName
    \/ DeleteOrganizationWithID
    \/ DeletedStatus
    \/ RemoveFinalizer
    \/ AddFinalizer
    \/ InitializeStatus
    \/ ReconcileReadConfig
    \/ FindConfigOrganization
    \/ CreateOrganization
    \/ CreatedStatus

Next ==
    \/ Work
    \/ Fail
    \/ Restart
    \/ \E k \in Keys : Reconcile(k) \/ Informer(k)
    \/ \E k \in Keys : Create(k) \/ Delete(k) \/ Edit(k) \/ ChangeConfig(k)
    \/ \E n \in Names : Drift(n)

(***************************************************************************)
(* The worker runs, the watch delivers, and the first-in first-out queue      *)
(* hands every key to the worker in the end.  The user owes nothing.          *)
(***************************************************************************)
Fairness ==
    /\ WF_vars(Work)
    /\ \A k \in Keys : WF_vars(Informer(k)) /\ SF_vars(Reconcile(k))

Spec == Init /\ [][Next]_vars

FairSpec == Spec /\ Fairness

(***************************************************************************)
(* Properties.                                                               *)
(***************************************************************************)
Life == INSTANCE Lifecycle WITH
            Identities <- Resources,
            held <- HeldResources,
            past <- PastResources,
            provided <- {orgs[n].by : n \in Names} \ {External},
            excused <- skipped

\* Seen without its caches, calls and failures, the controller keeps the promise of
\* Lifecycle: it creates only for resources its finalizer holds, and lets go of a
\* resource when nothing of it is left at InfluxDB or it has openly given up.
ImplementsLifecycle == Life!Spec

TypeOK ==
    /\ ControllerTypeOK(Calls)
    /\ orgs \in [Names -> Org]
    /\ config \in [Keys -> Configs]
    /\ target \in Ids \cup {NoId}
    /\ lost \subseteq Names
    /\ skipped \subseteq Keys \X Nat

\* An organization the operator created for a resource is never left behind: the
\* resource is still there with its finalizer, unless it was finalized while its
\* Config could not be found, where FinalizeResources gives up ("skipping deleting
\* resources").  Lost answers, conflicts, restarts and a lagging cache included.
NoOrphan ==
    \A n \in Names : orgs[n].by # External => Held(orgs[n].by) \/ orgs[n].by \in skipped

\* The organization that FinalizeResources is about to delete was not created for a
\* resource that is alive, however old the copy that says "deleting" is (a resource
\* deleted and created again under the same name has another uid).  Holds when no
\* two resources share a name.
SparesLive ==
    LET org == orgs[MyName] IN
    At("DeleteOrganizationWithID") /\ org.id = target /\ org.by # External
        => ~Alive(org.by)

\* status.phase "ready" is true: the organization exists, or somebody other than the
\* operator has deleted it.  Holds when no two resources share a name.
ReadyHasOrg ==
    \A k \in Keys :
        Latest(k).exists /\ Latest(k).phase = phaseReady
            => OrgExists(NameOf[k]) \/ NameOf[k] \in lost

\* The operator never deletes the organization of the administrator, although it takes
\* over and deletes with its resource every other organization it finds there: no
\* resource of that name is admitted, and a resource does not change its name.
DefaultOrgSpared ==
    [][\A n \in Names \cap {defaultOrgName} : UNCHANGED orgs[n] \/ Drift(n)]_vars

\* A deleted resource goes away: it is not stuck in deletion, provided its Config
\* does not point to a missing secret for ever.
DeletionCompletes ==
    \A k \in Keys :
        <>[](config[k] # "noSecret") => []<>~(Latest(k).exists /\ Latest(k).deleting)

\* A resource that stays becomes ready and its organization stays in existence, also
\* after others have deleted it (the reconciler repairs drift every minute).
Converges ==
    \A k \in Keys :
        <>[](config[k] = "ok" /\ Live(Latest(k)))
            => <>[](Latest(k).phase = phaseReady /\ OrgExists(NameOf[k]))

(***************************************************************************)
(* The inductive invariant behind NoOrphan and SparesLive.                    *)
(***************************************************************************)
FinalizeCalls == {"FinalizeResources", "FindOrganizationByName", "DeleteOrganizationWithID",
                  "DeletedStatus", "RemoveFinalizer"}

ReconcileCalls == {"ReconcileResources", "FindConfigOrganization", "CreateOrganization",
                   "CreatedStatus"}

\* An organization created for a resource has its name, is no newer than what the
\* informer and the worker know of it, and is still guarded by its finalizer.
OwnerOK(n) ==
    LET me == orgs[n].by IN
    me # External =>
        /\ orgs[n].id # NoId
        /\ NameOf[me[1]] = n
        /\ me[2] <= Cached(me[1]).uid
        /\ worker.key = me[1] => me[2] <= worker.obj.uid
        /\ Held(me) \/ me \in skipped
        /\ At("RemoveFinalizer") /\ me = Me => me \in skipped

\* What is known about the age of every copy and the owner of every organization in
\* every reachable state; each property of this module's safety run follows from it.
Inv ==
    /\ HistoryOK
    /\ CopyOK(FinalizeCalls, ReconcileCalls)
    /\ \A n \in Names : OwnerOK(n)
===============================================================================
