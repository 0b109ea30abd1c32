------------------------------ MODULE BucketProofs ------------------------------
(***************************************************************************)
(* Theorems about BucketReconciler, for every set of resources, namespaces,    *)
(* names, organizations and ids and every bound.  What needs complete lists of   *)
(* buckets says so.                                                          *)
(***************************************************************************)
EXTENDS BucketReconciler, ControllerProofs, FiniteSetTheorems

FinalizeCalls == {"FinalizeResources", "FinalizeFindOrganization", "FindBucketsByOrgID",
                  "DeleteBucketWithID", "DeletedStatus", "RemoveFinalizer"}

ReconcileCalls == {"ReconcileResources", "ReconcileFindOrganization", "CreateBucket",
                   "CreatedStatus"}

(***************************************************************************)
(* The inductive invariants.                                                 *)
(***************************************************************************)
MyNamespace == NamespaceOf[worker.key]

\* As long as the default Config of a namespace has not moved, what the worker finds
\* there is the first organization.
ConfigOK ==
    \A ns \in Namespaces : ns \notin moved => config[ns] \in {Home[ns], "noConfig", "noSecret"}

\* What the worker remembers, where it uses it.
LocalOK ==
    /\ worker.pc \in {"FinalizeFindOrganization", "ReconcileFindOrganization"} =>
          /\ local.orgName \in OrgNames
          /\ MyNamespace \notin moved => local.orgName = Home[MyNamespace]
    /\ worker.pc \in {"FindBucketsByOrgID", "CreateBucket"} =>
          /\ local.org \in OrgIds
          /\ MyNamespace \notin moved => local.org[1] = Home[MyNamespace]
    /\ At("DeleteBucketWithID") =>
          \A b \in buckets : b.id = local.bucket => b.name = MyName

\* No two buckets share an id, nor a name in an organization.
Unique ==
    \A a, b \in buckets : a.id = b.id \/ (a.org = b.org /\ a.name = b.name) => a = b

\* A bucket has the name of the resource it was made for, which is not newer than any
\* copy of it from now on.
MakerOK(b) ==
    /\ OrgExists(b.org)
    /\ b.by # External =>
          LET k == b.by[1]
              u == b.by[2]
          IN /\ NameOf[k] = b.name
             /\ u <= Cached(k).uid
             /\ worker.key = k => u <= worker.obj.uid

Inv ==
    /\ HistoryOK
    /\ CopyOK(FinalizeCalls, ReconcileCalls)
    /\ ConfigOK
    /\ LocalOK
    /\ Unique
    /\ \A b \in buckets : MakerOK(b)

\* A bucket is in the organization of its resource's Config and is guarded by the
\* resource's finalizer.  When the worker has read which organization to search, the
\* bucket is in that very one.
OwnerOK(b) ==
    b.by # External /\ NamespaceOf[b.by[1]] \notin moved =>
        /\ b.org[1] = Home[NamespaceOf[b.by[1]]]
        /\ Held(b.by) \/ b.by \in skipped
        /\ At("RemoveFinalizer") /\ b.by = Me => b.by \in skipped
        /\ At("FindBucketsByOrgID") /\ b.by = Me => b.org = local.org

Owned == \A b \in buckets : OwnerOK(b)

LEMMA CallsSplit ==
    /\ Calls = FinalizeCalls \cup ReconcileCalls \cup ResourceCalls
    /\ Classes(FinalizeCalls, ReconcileCalls)
BY DEF Calls, CommonCalls, FinalizeCalls, ReconcileCalls, ResourceCalls, Classes

LEMMA InvGood == TypeOK /\ Inv => Good(FinalizeCalls, ReconcileCalls)
BY CallsSplit DEF TypeOK, Inv, Good

(***************************************************************************)
(* Every action is, for the versions and the worker, one of the steps of       *)
(* Controller.                                                               *)
(***************************************************************************)
LEMMA WorkIsStep ==
    ASSUME ControllerAssumption, TypeOK, Inv,
           \/ FinalizeReadConfig \/ FinalizeFindOrganization \/ FindBucketsByOrgID
           \/ DeleteBucketWithID \/ ReconcileReadConfig \/ ReconcileFindOrganization
           \/ CreateBucket
    PROVE  StepOK(FinalizeCalls, ReconcileCalls)
<1> DEFINE ok == StepOK(FinalizeCalls, ReconcileCalls)
<1>1. Good(FinalizeCalls, ReconcileCalls) /\ Classes(FinalizeCalls, ReconcileCalls)
  BY InvGood, CallsSplit
<1>2. ~At("idle")
  BY DEF FinalizeReadConfig, FinalizeFindOrganization, FindBucketsByOrgID,
     DeleteBucketWithID, ReconcileReadConfig, ReconcileFindOrganization, CreateBucket, At
<1>3. ASSUME NEW call \in FinalizeCalls, worker.pc \in FinalizeCalls,
             GoTo(call), UNCHANGED <<versions, queue, faults>>
      PROVE  ok
  BY <1>1, <1>3, GoToStep
<1>4. ASSUME NEW call \in ReconcileCalls, worker.pc \in ReconcileCalls,
             GoTo(call), UNCHANGED <<versions, queue, faults>>
      PROVE  ok
  BY <1>1, <1>4, GoToStep
<1>5. ASSUME ReturnError, UNCHANGED versions, faults' = faults \/ Fault
      PROVE  ok
  BY <1>1, <1>2, <1>5, ReturnErrorStep
<1>6. CASE FinalizeReadConfig
  BY <1>3, <1>5, <1>6 DEF FinalizeReadConfig, GiveUp, FinalizeCalls, At
<1>7. CASE FinalizeFindOrganization
  BY <1>3, <1>5, <1>7 DEF FinalizeFindOrganization, FindOrganization, GiveUp, FinalizeCalls, At
<1>8. CASE FindBucketsByOrgID
  BY <1>3, <1>8 DEF FindBucketsByOrgID, FinalizeCalls, At
<1>9. CASE DeleteBucketWithID
  BY <1>3, <1>5, <1>9 DEF DeleteBucketWithID, FinalizeCalls, At
<1>10. CASE ReconcileReadConfig
  BY <1>4, <1>5, <1>10 DEF ReconcileReadConfig, GiveUp, ReconcileCalls, At
<1>11. CASE ReconcileFindOrganization
  BY <1>4, <1>5, <1>11 DEF ReconcileFindOrganization, FindOrganization, GiveUp, ReconcileCalls, At
<1>12. CASE CreateBucket
  BY <1>4, <1>5, <1>12
  DEF CreateBucket, BucketConflict, RequeueAfter, ReturnError, ReconcileCalls, At
<1> QED BY <1>6, <1>7, <1>8, <1>9, <1>10, <1>11, <1>12

LEMMA NextIsStep ==
    ASSUME ControllerAssumption, TypeOK, Inv, Next
    PROVE  StepOK(FinalizeCalls, ReconcileCalls)
<1> DEFINE ok == StepOK(FinalizeCalls, ReconcileCalls)
<1>1. Good(FinalizeCalls, ReconcileCalls) /\ Classes(FinalizeCalls, ReconcileCalls)
  BY InvGood, CallsSplit
<1>2. CASE FinalizeStatus \/ DeletedStatus \/ RemoveFinalizer \/ AddFinalizer
           \/ InitializeStatus \/ CreatedStatus
  BY <1>1, <1>2, MarkTerminatingStep, MarkDeletedStep, DropFinalizerStep,
     PutFinalizerStep, MarkInitializedStep, MarkCreatedStep
  DEF FinalizeStatus, DeletedStatus, RemoveFinalizer, AddFinalizer, InitializeStatus,
      CreatedStatus
<1>3. CASE Fail \/ Restart
  BY <1>1, <1>3, CallFailsStep, RestartStep DEF Fail, Restart
<1>4. ASSUME NEW k \in Keys,
             Reconcile(k) \/ Informer(k) \/ Create(k) \/ Delete(k) \/ Edit(k)
      PROVE  ok
  BY <1>1, <1>4, DispatchStep, DeliverStep, UserCreateStep, UserDeleteStep, UserEditStep
  DEF Reconcile, Informer, Create, Delete, Edit
<1>5. CASE Drift \/ (\E ns \in Namespaces : ChangeConfig(ns))
                 \/ (\E o \in OrgNames : ToggleOrganization(o))
  BY <1>1, <1>5, QuietStep DEF Drift, ChangeConfig, ToggleOrganization
<1> QED
  BY <1>2, <1>3, <1>4, <1>5, WorkIsStep DEF Next, Work

(***************************************************************************)
(* Types.                                                                    *)
(***************************************************************************)
LEMMA MeType ==
    ASSUME ControllerAssumption, BucketAssumption, TypeOK, ~At("idle")
    PROVE  /\ worker.key \in Keys
           /\ worker.obj \in Object
           /\ worker.obj.uid \in Nat
           /\ Me \in Keys \X Nat
           /\ Me = <<worker.key, worker.obj.uid>>
           /\ MyName \in Names
           /\ MyNamespace \in Namespaces
BY DEF TypeOK, ControllerTypeOK, Workers, Object, Me, At, MyName, MyNamespace, BucketAssumption

WorldTypeOK ==
    /\ orgs \in [OrgNames -> [up : BOOLEAN, gen : Nat]]
    /\ buckets \subseteq Bucket
    /\ config \in [Namespaces -> Configs]
    /\ local \in Locals
    /\ skipped \subseteq Keys \X Nat
    /\ moved \subseteq Namespaces

LEMMA TypeOKSplit == TypeOK <=> ControllerTypeOK(Calls) /\ WorldTypeOK
BY DEF TypeOK, WorldTypeOK

LEMMA NothingType == Nothing \in Locals
BY DEF Nothing, Locals

\* The answer of the organization that was asked for.
LEMMA FindOrganizationTypes ==
    ASSUME WorldTypeOK, NEW call, FindOrganization(call), local.orgName \in OrgNames
    PROVE  WorldTypeOK'
<1>1. OrgId(local.orgName) \in OrgIds
  BY DEF OrgId, OrgIds, WorldTypeOK
<1>2. local' \in Locals
  BY <1>1, NothingType DEF FindOrganization, GiveUp, Locals, WorldTypeOK
<1> QED BY <1>2 DEF FindOrganization, WorldTypeOK

\* A bucket of the worker or of somebody else.
LEMMA NewBucketTypes ==
    ASSUME WorldTypeOK, NEW id \in Ids, NEW org \in OrgIds, NEW n \in Names,
           NEW by \in (Keys \X Nat) \cup {External},
           buckets' = buckets \cup {[id |-> id, org |-> org, name |-> n, by |-> by]}
    PROVE  buckets' \subseteq Bucket
<1>1. [id |-> id, org |-> org, name |-> n, by |-> by] \in Bucket
  BY DEF Bucket
<1> QED BY <1>1 DEF WorldTypeOK

LEMMA WorldTypes ==
    ASSUME ControllerAssumption, BucketAssumption, TypeOK, Inv, Next
    PROVE  WorldTypeOK'
<1>1. WorldTypeOK /\ Nothing \in Locals
  BY NothingType, TypeOKSplit
<1>2. CASE UNCHANGED influxVars
  BY <1>1, <1>2 DEF influxVars, WorldTypeOK
<1>3. CASE FinalizeReadConfig
  <2>1. local' \in Locals
    BY <1>1, <1>3 DEF FinalizeReadConfig, GiveUp, Locals, WorldTypeOK
  <2>2. Me \in Keys \X Nat
    BY <1>3, MeType DEF FinalizeReadConfig, At
  <2> QED BY <1>1, <1>3, <2>1, <2>2 DEF FinalizeReadConfig, WorldTypeOK
<1>4. CASE FinalizeFindOrganization \/ ReconcileFindOrganization
  <2>1. local.orgName \in OrgNames
    BY <1>4 DEF FinalizeFindOrganization, ReconcileFindOrganization, Inv, LocalOK, At
  <2> QED
    BY <1>1, <1>4, <2>1, FindOrganizationTypes
    DEF FinalizeFindOrganization, ReconcileFindOrganization
<1>5. CASE FindBucketsByOrgID
  <2>1. ASSUME NEW page \in Pages(local.org), NEW b \in Named(page, MyName)
        PROVE  b.id \in Ids
    <3>1. b \in Bucket
      BY <1>1, <2>1 DEF Named, Pages, BucketsOf, WorldTypeOK
    <3> QED BY <3>1 DEF Bucket
  <2>2. local' \in Locals
    BY <1>1, <1>5, <2>1 DEF FindBucketsByOrgID, Locals, WorldTypeOK
  <2> QED BY <1>1, <1>5, <2>2 DEF FindBucketsByOrgID, WorldTypeOK
<1>6. CASE DeleteBucketWithID
  <2>1. buckets' \subseteq buckets
    BY <1>6 DEF DeleteBucketWithID
  <2> QED BY <1>1, <1>6, <2>1 DEF DeleteBucketWithID, WorldTypeOK
<1>7. CASE ReconcileReadConfig
  <2>1. local' \in Locals
    BY <1>1, <1>7 DEF ReconcileReadConfig, GiveUp, Locals, WorldTypeOK
  <2> QED BY <1>1, <1>7, <2>1 DEF ReconcileReadConfig, WorldTypeOK
<1>8. CASE CreateBucket
  <2>1. Me \in Keys \X Nat /\ MyName \in Names /\ local.org \in OrgIds
    BY <1>8, MeType DEF CreateBucket, At, Inv, LocalOK
  <2>2. UNCHANGED buckets \/ \E id \in Ids :
           buckets' = buckets \cup {[id |-> id, org |-> local.org, name |-> MyName, by |-> Me]}
    BY <1>8 DEF CreateBucket, BucketConflict
  <2>3. buckets' \subseteq Bucket
    BY <1>1, <2>1, <2>2, NewBucketTypes DEF WorldTypeOK
  <2> QED BY <1>1, <1>8, <2>3 DEF CreateBucket, WorldTypeOK
<1>9. CASE Fail \/ Restart
  BY <1>1, <1>9 DEF Fail, Restart, WorldTypeOK
<1>10. CASE Drift
  <2>1. CASE buckets' \subseteq buckets
    BY <1>1, <1>10, <2>1 DEF Drift, WorldTypeOK
  <2>2. ASSUME NEW id \in Ids, NEW o \in OrgNames, NEW n \in Names,
               buckets' = buckets \cup
                  {[id |-> id, org |-> OrgId(o), name |-> n, by |-> External]}
        PROVE  WorldTypeOK'
    <3>1. OrgId(o) \in OrgIds
      BY <1>1 DEF OrgId, OrgIds, WorldTypeOK
    <3>2. buckets' \subseteq Bucket
      BY <1>1, <2>2, <3>1, NewBucketTypes
    <3> QED BY <1>1, <1>10, <3>2 DEF Drift, WorldTypeOK
  <2> QED BY <1>10, <2>1, <2>2 DEF Drift
<1>11. ASSUME NEW o \in OrgNames, ToggleOrganization(o)
       PROVE  WorldTypeOK'
  <2>1. buckets' \subseteq buckets
    BY <1>11 DEF ToggleOrganization
  <2>2. orgs[o] \in [up : BOOLEAN, gen : Nat]
    BY <1>1 DEF WorldTypeOK
  <2>3. [orgs[o] EXCEPT !.up = FALSE] \in [up : BOOLEAN, gen : Nat]
    BY <2>2
  <2>4. [up |-> TRUE, gen |-> orgs[o].gen + 1] \in [up : BOOLEAN, gen : Nat]
    <3>1. orgs[o].gen + 1 \in Nat
      BY <2>2
    <3> QED BY <3>1
  <2>5. \/ orgs' = [orgs EXCEPT ![o] = [orgs[o] EXCEPT !.up = FALSE]]
        \/ orgs' = [orgs EXCEPT ![o] = [up |-> TRUE, gen |-> orgs[o].gen + 1]]
    BY <1>11 DEF ToggleOrganization
  <2>6. orgs' \in [OrgNames -> [up : BOOLEAN, gen : Nat]]
    BY <1>1, <2>3, <2>4, <2>5 DEF WorldTypeOK
  <2> QED BY <1>1, <1>11, <2>1, <2>6 DEF ToggleOrganization, WorldTypeOK
<1>12. ASSUME NEW ns \in Namespaces, ChangeConfig(ns)
       PROVE  WorldTypeOK'
  BY <1>1, <1>12 DEF ChangeConfig, WorldTypeOK
<1> QED
  BY <1>2, <1>3, <1>4, <1>5, <1>6, <1>7, <1>8, <1>9, <1>10, <1>11, <1>12
  DEF Next, Work, FinalizeStatus, DeletedStatus, RemoveFinalizer, AddFinalizer,
      InitializeStatus, CreatedStatus, Reconcile, Informer, Create, Delete, Edit

(***************************************************************************)
(* Where the worker is, and what it remembers there.                          *)
(***************************************************************************)
\* The calls of which the invariants say more than of the others.
Watched == {"RemoveFinalizer", "FinalizeFindOrganization", "FindBucketsByOrgID",
            "DeleteBucketWithID", "ReconcileFindOrganization", "CreateBucket"}

\* The worker does not come to one of them, or stays there with what it knows.
Settled ==
    \/ worker'.pc \notin Watched
    \/ /\ worker'.pc = worker.pc
       /\ worker'.key = worker.key
       /\ worker'.obj = worker.obj
       /\ local' = local

\* The calls of which the invariants say more are reached from the reads of the handlers
\* only.
LEMMA WayToWatched ==
    ASSUME TypeOK, Next
    PROVE  \/ FinalizeReadConfig \/ FinalizeFindOrganization \/ FindBucketsByOrgID
           \/ ReconcileReadConfig \/ ReconcileFindOrganization
           \/ Settled
<1>1. worker \in Workers(Calls)
  BY DEF TypeOK, ControllerTypeOK
<1>2. "idle" \notin Watched
  BY DEF Watched
<1>3. ASSUME NEW requeue, Finish(requeue)
      PROVE  Settled
  BY <1>2, <1>3, IdleFacts DEF Finish, Settled
<1>4. ASSUME NEW obj, Save(obj)
      PROVE  Settled
  BY <1>3, <1>4 DEF Save, ReturnError, ReturnDone
<1>5. ASSUME NEW reason, NEW phase, SaveCondition(reason, phase)
      PROVE  Settled
  BY <1>3, <1>4, <1>5 DEF SaveCondition, SaveSameSecond, ReturnDone
<1>6. ASSUME NEW call \in {"DeletedStatus", "CreatedStatus"}, GoTo(call)
      PROVE  Settled
  BY <1>1, <1>6 DEF GoTo, Settled, Watched, Workers
<1>7. ASSUME NEW k, Outdate(k) \/ UNCHANGED worker, UNCHANGED local
      PROVE  Settled
  BY <1>1, <1>7 DEF Outdate, Settled, Workers
<1>8. CASE FinalizeStatus \/ DeletedStatus \/ RemoveFinalizer \/ AddFinalizer
           \/ InitializeStatus \/ CreatedStatus
  BY <1>4, <1>5, <1>8 DEF FinalizeStatus, DeletedStatus, RemoveFinalizer, AddFinalizer,
     InitializeStatus, CreatedStatus, MarkTerminating, MarkDeleted, DropFinalizer,
     PutFinalizer, MarkInitialized, MarkCreated
<1>9. CASE DeleteBucketWithID
  BY <1>3, <1>6, <1>9 DEF DeleteBucketWithID, ReturnError
<1>10. CASE CreateBucket
  BY <1>3, <1>6, <1>10 DEF CreateBucket, BucketConflict, ReturnError, RequeueAfter
<1>11. CASE Fail \/ Restart
  BY <1>2, <1>3, <1>11, IdleFacts DEF Fail, CallFails, ReturnError, Restart,
     RestartController, Settled
<1>12. ASSUME NEW k \in Keys, Reconcile(k)
       PROVE  Settled
  <2>1. FirstCall(Cached(k)) \notin Watched
    BY DEF FirstCall, Watched
  <2> QED BY <1>2, <1>12, <2>1, IdleFacts DEF Reconcile, Dispatch, Settled
<1>13. ASSUME NEW k \in Keys, Informer(k) \/ Create(k) \/ Delete(k) \/ Edit(k)
       PROVE  Settled
  BY <1>7, <1>13 DEF Informer, Deliver, Create, UserCreate, Delete, UserDelete, Edit, UserEdit,
     influxVars
<1>14. CASE Drift \/ (\E ns \in Namespaces : ChangeConfig(ns))
                  \/ (\E o \in OrgNames : ToggleOrganization(o))
  BY <1>7, <1>14 DEF Drift, ChangeConfig, ToggleOrganization
<1> QED
  BY <1>8, <1>9, <1>10, <1>11, <1>12, <1>13, <1>14 DEF Next, Work

\* What a step may add to the buckets: the worker's, or somebody else's, with a new id,
\* where there is none of the name.
Added(b) ==
    /\ b.id # local.bucket
    /\ OrgExists(b.org)
    /\ \A a \in buckets : a.id # b.id /\ ~(a.org = b.org /\ a.name = b.name)
    /\ \/ b.by = External
       \/ CreateBucket /\ b.org = local.org /\ b.name = MyName /\ b.by = Me

\* What the steps do to the server: and no step forgets what the auxiliary variables
\* recorded.
LEMMA ServerSteps ==
    ASSUME TypeOK, Next
    PROVE  /\ skipped \subseteq skipped'
           /\ moved \subseteq moved'
           /\ buckets' \subseteq buckets \/ \E b : Added(b) /\ buckets' = buckets \cup {b}
           /\ UNCHANGED orgs \/ \E o \in OrgNames : ToggleOrganization(o)
           /\ UNCHANGED <<config, moved>> \/ \E ns \in Namespaces : ChangeConfig(ns)
<1> DEFINE goal == buckets' \subseteq buckets \/ \E b : Added(b) /\ buckets' = buckets \cup {b}
<1>1. CASE UNCHANGED influxVars
  BY <1>1 DEF influxVars
<1>2. CASE FinalizeReadConfig
  BY <1>2 DEF FinalizeReadConfig
<1>3. CASE FinalizeFindOrganization \/ ReconcileFindOrganization
  BY <1>3 DEF FinalizeFindOrganization, ReconcileFindOrganization, FindOrganization
<1>4. CASE FindBucketsByOrgID \/ ReconcileReadConfig \/ DeleteBucketWithID
  BY <1>4 DEF FindBucketsByOrgID, ReconcileReadConfig, DeleteBucketWithID
<1>5. CASE CreateBucket
  <2>1. UNCHANGED <<skipped, moved, orgs, config>>
    BY <1>5 DEF CreateBucket
  <2>2. ASSUME NEW id \in Ids, OrgExists(local.org), FreshId(id),
               Named(BucketsOf(local.org), MyName) = {},
               buckets' = buckets \cup
                  {[id |-> id, org |-> local.org, name |-> MyName, by |-> Me]}
        PROVE  \E b : Added(b) /\ buckets' = buckets \cup {b}
    <3> WITNESS [id |-> id, org |-> local.org, name |-> MyName, by |-> Me]
    <3> QED BY <1>5, <2>2 DEF Added, FreshId, Named, BucketsOf
  <2> QED BY <1>5, <2>1, <2>2 DEF CreateBucket, BucketConflict
<1>6. CASE Fail \/ Restart
  BY <1>6 DEF Fail, Restart
<1>7. CASE Drift
  <2>1. UNCHANGED <<skipped, moved, orgs, config>>
    BY <1>7 DEF Drift
  <2>2. ASSUME NEW id \in Ids, NEW o \in OrgNames, NEW n \in Names, orgs[o].up, FreshId(id),
               Named(BucketsOf(OrgId(o)), n) = {},
               buckets' = buckets \cup
                  {[id |-> id, org |-> OrgId(o), name |-> n, by |-> External]}
        PROVE  goal
    <3> DEFINE b == [id |-> id, org |-> OrgId(o), name |-> n, by |-> External]
    <3>1. OrgExists(b.org)
      BY <2>2 DEF OrgExists, OrgId
    <3>2. Added(b)
      BY <2>2, <3>1 DEF Added, FreshId, Named, BucketsOf
    <3> QED BY <2>2, <3>2
  <2> QED BY <1>7, <2>1, <2>2 DEF Drift
<1>8. ASSUME NEW ns \in Namespaces, ChangeConfig(ns)
      PROVE  moved \subseteq moved' /\ UNCHANGED <<skipped, buckets, orgs>>
  BY <1>8 DEF ChangeConfig
<1>9. ASSUME NEW o \in OrgNames, ToggleOrganization(o)
      PROVE  buckets' \subseteq buckets /\ UNCHANGED <<skipped, moved, config>>
  BY <1>9 DEF ToggleOrganization
<1> QED
  BY <1>1, <1>2, <1>3, <1>4, <1>5, <1>6, <1>7, <1>8, <1>9 DEF Next, Work,
     FinalizeStatus, DeletedStatus, RemoveFinalizer, AddFinalizer, InitializeStatus,
     CreatedStatus, Reconcile, Informer, Create, Delete, Edit

LEMMA ConfigStep ==
    ASSUME BucketAssumption, TypeOK, Inv, Next
    PROVE  ConfigOK'
<1>1. CASE UNCHANGED <<config, moved>>
  BY <1>1 DEF Inv, ConfigOK
<1>2. ASSUME NEW ns \in Namespaces, ChangeConfig(ns)
      PROVE  ConfigOK'
  <2>1. PICK c \in Configs :
           /\ config' = [config EXCEPT ![ns] = c]
           /\ moved' = IF c \in OrgNames \ {Home[ns]} THEN moved \cup {ns} ELSE moved
    BY <1>2 DEF ChangeConfig
  <2>2. config \in [Namespaces -> Configs]
    BY DEF TypeOK
  <2>3. ASSUME NEW m \in Namespaces, m \notin moved'
        PROVE  config'[m] \in {Home[m], "noConfig", "noSecret"}
    <3>1. m \notin moved
      BY <2>1, <2>3
    <3>2. CASE m = ns
      BY <2>1, <2>2, <2>3, <3>2 DEF Configs
    <3>3. CASE m # ns
      BY <2>1, <2>2, <3>1, <3>3 DEF Inv, ConfigOK
    <3> QED BY <3>2, <3>3
  <2> QED BY <2>3 DEF ConfigOK
<1> QED BY <1>1, <1>2, ServerSteps

LEMMA LocalStep ==
    ASSUME ControllerAssumption, BucketAssumption, TypeOK, Inv, Next
    PROVE  LocalOK'
<1>1. /\ worker \in Workers(Calls)
      /\ local \in Locals
      /\ \A o \in OrgNames : orgs[o].gen \in Nat
  BY DEF TypeOK, ControllerTypeOK
<1>2. "idle" \notin Watched
  BY DEF Watched
<1>3. LocalOK /\ ConfigOK /\ moved \subseteq moved'
  BY ServerSteps DEF Inv
<1>4. ASSUME worker'.pc \notin Watched
      PROVE  LocalOK'
  BY <1>4 DEF LocalOK, At, Watched
<1>5. ASSUME ReturnError
      PROVE  LocalOK'
  BY <1>2, <1>4, <1>5, IdleFacts DEF ReturnError, Finish
<1>6. ASSUME GoTo("RemoveFinalizer")
      PROVE  LocalOK'
  <2>1. worker'.pc = "RemoveFinalizer"
    BY <1>1, <1>6 DEF GoTo, Workers
  <2> QED BY <2>1 DEF LocalOK, At
<1>7. CASE Settled
  <2>1. CASE worker'.pc \notin Watched
    BY <1>4, <2>1
  <2>2. CASE /\ worker'.pc = worker.pc /\ worker'.key = worker.key
             /\ worker'.obj = worker.obj /\ local' = local
    <3>1. ASSUME At("DeleteBucketWithID")', NEW b \in buckets', b.id = local'.bucket
          PROVE  b.name = MyName'
      <4>1. At("DeleteBucketWithID") /\ b.id = local.bucket /\ MyName' = MyName
        BY <2>2, <3>1 DEF At, MyName
      <4>2. b \in buckets
        BY <3>1, <4>1, ServerSteps DEF Added
      <4> QED BY <1>3, <4>1, <4>2 DEF LocalOK
    <3> QED BY <1>3, <2>2, <3>1 DEF LocalOK, At, MyNamespace
  <2> QED BY <1>7, <2>1, <2>2 DEF Settled
<1>8. ASSUME NEW call \in {"FinalizeFindOrganization", "ReconcileFindOrganization"},
             GoTo(call), MyConfig \in OrgNames, ~At("idle"),
             local' = [local EXCEPT !.orgName = MyConfig]
      PROVE  LocalOK'
  <2>1. /\ worker'.pc = call /\ worker'.key = worker.key
        /\ MyNamespace \in Namespaces /\ MyNamespace' = MyNamespace
    BY <1>1, <1>8, MeType DEF GoTo, Workers, MyNamespace
  <2>2. MyNamespace \notin moved => MyConfig = Home[MyNamespace]
    BY <1>3, <1>8, <2>1 DEF ConfigOK, MyConfig, MyNamespace, BucketAssumption
  <2>3. local'.orgName = MyConfig
    BY <1>1, <1>8 DEF Locals
  <2> QED BY <1>3, <1>8, <2>1, <2>2, <2>3 DEF LocalOK, At
<1>9. ASSUME NEW call \in {"FindBucketsByOrgID", "CreateBucket"}, FindOrganization(call),
             At("FinalizeFindOrganization") \/ At("ReconcileFindOrganization")
      PROVE  LocalOK'
  <2>1. CASE ReturnError
    BY <1>5, <2>1
  <2>2. CASE GoTo(call) /\ local' = [local EXCEPT !.org = OrgId(local.orgName)]
    <3>1. worker'.pc = call /\ worker'.key = worker.key /\ MyNamespace' = MyNamespace
      BY <1>1, <2>2 DEF GoTo, Workers, MyNamespace
    <3>2. /\ local.orgName \in OrgNames
          /\ MyNamespace \notin moved => local.orgName = Home[MyNamespace]
      BY <1>3, <1>9 DEF LocalOK, At
    <3>3. local'.org = OrgId(local.orgName)
      BY <1>1, <2>2 DEF Locals
    <3>4. local'.org \in OrgIds /\ local'.org[1] = local.orgName
      BY <1>1, <3>2, <3>3 DEF OrgId, OrgIds
    <3> QED BY <1>3, <1>9, <3>1, <3>2, <3>4 DEF LocalOK, At
  <2> QED BY <1>9, <2>1, <2>2 DEF FindOrganization, GiveUp
<1>10. CASE FinalizeReadConfig
  BY <1>5, <1>6, <1>8, <1>10 DEF FinalizeReadConfig, GiveUp, At
<1>11. CASE FinalizeFindOrganization \/ ReconcileFindOrganization
  BY <1>9, <1>11 DEF FinalizeFindOrganization, ReconcileFindOrganization
<1>12. CASE ReconcileReadConfig
  BY <1>5, <1>8, <1>12 DEF ReconcileReadConfig, GiveUp, At
<1>13. CASE FindBucketsByOrgID
  <2>1. ASSUME NEW page \in Pages(local.org), NEW b \in Named(page, MyName),
               GoTo("DeleteBucketWithID"), local' = [local EXCEPT !.bucket = b.id]
        PROVE  LocalOK'
    <3>1. worker'.pc = "DeleteBucketWithID" /\ worker'.key = worker.key /\ MyName' = MyName
      BY <1>1, <2>1 DEF GoTo, Workers, MyName
    <3>2. b \in buckets /\ b.name = MyName
      BY <2>1 DEF Named, Pages, BucketsOf
    <3>3. local'.bucket = b.id /\ buckets' = buckets
      BY <1>1, <1>13, <2>1 DEF Locals, FindBucketsByOrgID
    <3>4. \A c \in buckets' : c.id = local'.bucket => c.name = MyName'
      BY <3>1, <3>2, <3>3 DEF Inv, Unique
    <3> QED BY <3>1, <3>4 DEF LocalOK, At
  <2> QED BY <1>6, <1>13, <2>1 DEF FindBucketsByOrgID
<1> QED BY <1>7, <1>10, <1>11, <1>12, <1>13, WayToWatched

LEMMA UniqueStep ==
    ASSUME TypeOK, Inv, Next
    PROVE  Unique'
<1>1. CASE buckets' \subseteq buckets
  BY <1>1 DEF Inv, Unique
<1>2. ASSUME NEW b, Added(b), buckets' = buckets \cup {b}
      PROVE  Unique'
  BY <1>2 DEF Inv, Unique, Added
<1> QED BY <1>1, <1>2, ServerSteps

(***************************************************************************)
(* Makers and owners.                                                        *)
(***************************************************************************)
\* The organization of a bucket that is left is there.
LEMMA OrgStays ==
    ASSUME TypeOK, Next, NEW b \in buckets, b \in buckets', OrgExists(b.org)
    PROVE  OrgExists(b.org)'
<1>1. b.org \in OrgIds /\ orgs \in [OrgNames -> [up : BOOLEAN, gen : Nat]]
  BY DEF TypeOK, Bucket
<1>2. CASE UNCHANGED orgs
  BY <1>2 DEF OrgExists
<1>3. ASSUME NEW o \in OrgNames, ToggleOrganization(o)
      PROVE  OrgExists(b.org)'
  <2>1. b.org[1] # o
    <3>1. CASE orgs[o].up /\ buckets' = buckets \ BucketsOf(OrgId(o))
      BY <1>1, <3>1 DEF OrgId, OrgIds, OrgExists, BucketsOf
    <3>2. CASE ~orgs[o].up
      BY <3>2 DEF OrgExists
    <3> QED BY <1>3, <3>1, <3>2 DEF ToggleOrganization
  <2>2. orgs'[b.org[1]] = orgs[b.org[1]]
    BY <1>1, <1>3, <2>1 DEF ToggleOrganization, OrgIds
  <2> QED BY <2>2 DEF OrgExists
<1> QED BY <1>2, <1>3, ServerSteps

LEMMA MakerKept ==
    ASSUME ControllerAssumption, TypeOK, Inv, TypeOK', Progress, NEW b \in buckets,
           OrgExists(b.org) => OrgExists(b.org)'
    PROVE  MakerOK(b)'
<1>1. MakerOK(b)
  BY DEF Inv
<1>2. OrgExists(b.org)'
  BY <1>1 DEF MakerOK
<1>3. CASE b.by = External
  BY <1>2, <1>3 DEF MakerOK
<1>4. CASE b.by # External
  <2>1. PICK k \in Keys, u \in Nat : b.by = <<k, u>>
    BY <1>4 DEF TypeOK, Bucket
  <2>2. /\ NameOf[k] = b.name
        /\ u <= Cached(k).uid
        /\ worker.key = k => u <= worker.obj.uid
    BY <1>1, <1>4, <2>1 DEF MakerOK
  <2>3. u <= Cached(k)'.uid
    <3>1. VersionsType /\ VersionsType'
      BY DEF TypeOK, ControllerTypeOK, VersionsType
    <3>2. Cached(k) \in Object /\ Cached(k)' \in Object
      BY <3>1, VersionFacts DEF VersionsType, Cached
    <3>3. Cached(k).uid \in Nat /\ Cached(k)'.uid \in Nat
      BY <3>2 DEF Object
    <3>4. Cached(k).uid <= Cached(k)'.uid
      BY DEF Progress
    <3> QED BY <2>2, <3>3, <3>4
  <2>4. worker'.key = k => u <= worker'.obj.uid
    <3>1. CASE worker' = Idle
      BY <3>1, IdleFacts DEF ControllerAssumption
    <3>2. CASE worker'.key = worker.key /\ worker'.obj = worker.obj
      BY <2>2, <3>2
    <3>3. CASE worker'.key \in Keys /\ worker'.obj = Cached(worker'.key)
      BY <2>2, <3>3
    <3> QED BY <3>1, <3>2, <3>3 DEF Progress, CopyKept
  <2> QED BY <1>2, <1>4, <2>1, <2>2, <2>3, <2>4 DEF MakerOK
<1> QED BY <1>3, <1>4

\* A resource whose copy is live and has the finalizer still exists, however old the copy.
LEMMA CopyHeld ==
    ASSUME ControllerAssumption, BucketAssumption, TypeOK, Inv, worker.pc \in ReconcileCalls
    PROVE  /\ Held(Me)
           /\ worker.obj.uid <= Cached(worker.key).uid
<1>1. /\ ~At("idle")
      /\ worker.key \in Keys
      /\ VersionsType
  BY MeType DEF ReconcileCalls, At, TypeOK, ControllerTypeOK, VersionsType
<1>2. /\ Live(worker.obj)
      /\ worker.obj.finalizer
      /\ \A i \in 1 .. Len(versions[worker.key]) : Before(worker.obj, versions[worker.key][i])
  BY <1>1 DEF Inv, CopyOK
<1>3. Before(worker.obj, Latest(worker.key)) /\ Before(worker.obj, Cached(worker.key))
  BY <1>1, <1>2, VersionFacts DEF Latest, Cached
<1> QED BY <1>1, <1>2, <1>3, MeType DEF Before, Held

\* What CreateBucket leaves as it was, and where it ends.
LEMMA CreateFacts ==
    ASSUME ControllerAssumption, BucketAssumption, TypeOK, CreateBucket
    PROVE  /\ UNCHANGED <<versions, orgs, moved>>
           /\ worker.pc \in ReconcileCalls
           /\ worker.key \in Keys /\ worker.obj.uid \in Nat
           /\ Me = <<worker.key, worker.obj.uid>>
           /\ ~At("RemoveFinalizer")' /\ ~At("FindBucketsByOrgID")'
           /\ worker'.key = worker.key => worker'.obj = worker.obj
<1>1. worker' = Idle \/ GoTo("CreatedStatus")
  BY DEF CreateBucket, BucketConflict, ReturnError, RequeueAfter, Finish
<1>2. worker \in Workers(Calls)
  BY DEF TypeOK, ControllerTypeOK
<1>3. worker.pc = "CreateBucket" /\ ~At("idle")
  BY DEF CreateBucket, At
<1>4. worker.key \in Keys /\ worker.obj.uid \in Nat /\ Me = <<worker.key, worker.obj.uid>>
  BY <1>3, MeType
<1>5. CASE worker' = Idle
  BY <1>3, <1>4, <1>5, IdleFacts DEF CreateBucket, ReconcileCalls, At, ControllerAssumption
<1>6. CASE GoTo("CreatedStatus")
  BY <1>2, <1>3, <1>4, <1>6 DEF CreateBucket, ReconcileCalls, At, GoTo, Workers
<1> QED BY <1>1, <1>5, <1>6

LEMMA MakersStep ==
    ASSUME ControllerAssumption, BucketAssumption, TypeOK, Inv, TypeOK', Progress, Next
    PROVE  \A b \in buckets' : MakerOK(b)'
<1> DEFINE left == \A b \in buckets : b \in buckets' => MakerOK(b)'
<1>1. left
  BY OrgStays, MakerKept
<1>2. CASE buckets' \subseteq buckets
  BY <1>1, <1>2
<1>3. ASSUME NEW b, Added(b), buckets' = buckets \cup {b}
      PROVE  MakerOK(b)'
  <2>1. b \notin buckets
    BY <1>3 DEF Added
  <2>2. OrgExists(b.org)'
    <3>1. UNCHANGED orgs
      BY <1>3, <2>1, ServerSteps DEF ToggleOrganization
    <3> QED BY <1>3, <3>1 DEF Added, OrgExists
  <2>3. CASE b.by = External
    BY <2>2, <2>3 DEF MakerOK
  <2>4. CASE CreateBucket /\ b.name = MyName /\ b.by = Me
    <3>1. PICK k \in Keys, u \in Nat : worker.key = k /\ worker.obj.uid = u /\ b.by = <<k, u>>
      BY <2>4, CreateFacts
    <3>2. u <= Cached(k)'.uid
      BY <2>4, <3>1, CreateFacts, CopyHeld DEF Cached
    <3>3. worker'.key = k => u <= worker'.obj.uid
      BY <2>4, <3>1, CreateFacts
    <3> QED BY <2>2, <2>4, <3>1, <3>2, <3>3 DEF MakerOK, MyName
  <2> QED BY <1>3, <2>3, <2>4 DEF Added
<1> QED BY <1>1, <1>2, <1>3, ServerSteps

(***************************************************************************)
(* The first invariant, and what follows from it.                             *)
(***************************************************************************)
Safe == TypeOK /\ Inv

LEMMA InitSafe ==
    ASSUME ControllerAssumption, BucketAssumption, Init
    PROVE  Safe /\ Owned /\ NoLostWakeup
<1>1. Good(FinalizeCalls, ReconcileCalls) /\ NoLostWakeup
  BY InitGood DEF Init
<1>2. WorldTypeOK
  <2>1. config \in [Namespaces -> Configs]
    BY DEF Init, Configs, BucketAssumption
  <2> QED BY <2>1, NothingType DEF Init, WorldTypeOK
<1>3. TypeOK
  BY <1>1, <1>2, CallsSplit, TypeOKSplit DEF Good
<1>4. worker.pc = "idle"
  BY IdleFacts DEF Init, ControllerInit
<1>5. ConfigOK /\ LocalOK /\ Unique /\ Owned /\ \A b \in buckets : MakerOK(b)
  BY <1>4 DEF Init, ConfigOK, LocalOK, Unique, Owned, At
<1> QED BY <1>1, <1>3, <1>5 DEF Safe, Inv, Good

LEMMA NextSafe ==
    ASSUME ControllerAssumption, BucketAssumption, Safe, Next
    PROVE  Safe'
<1>1. TypeOK /\ Inv
  BY DEF Safe
<1>2. StepOK(FinalizeCalls, ReconcileCalls)
  BY <1>1, NextIsStep
<1>3. TypeOK'
  BY <1>1, <1>2, WorldTypes, CallsSplit, TypeOKSplit DEF StepOK, Good, TypeOK, WorldTypeOK
<1>4. ConfigOK' /\ LocalOK' /\ Unique'
  BY <1>1, ConfigStep, LocalStep, UniqueStep
<1>5. \A b \in buckets' : MakerOK(b)'
  BY <1>1, <1>2, <1>3, MakersStep DEF StepOK
<1>6. HistoryOK' /\ CopyOK(FinalizeCalls, ReconcileCalls)'
  BY <1>2 DEF StepOK, Good
<1> QED BY <1>3, <1>4, <1>5, <1>6 DEF Safe, Inv

\* Nothing that is stated here of a state depends on more than the variables.
LEMMA StutterSafe ==
    ASSUME UNCHANGED vars
    PROVE  /\ Safe <=> Safe'
           /\ Owned <=> Owned'
           /\ NoLostWakeup <=> NoLostWakeup'
<1>1. UNCHANGED <<versions, queue, worker, faults, orgs, buckets, config, local, skipped, moved>>
  BY DEF vars, controllerVars, influxVars
<1>2. \A k : Latest(k)' = Latest(k) /\ Cached(k)' = Cached(k)
  BY <1>1 DEF Latest, Cached
<1>3. TypeOK <=> TypeOK'
  BY <1>1 DEF TypeOK, ControllerTypeOK, At
<1>4. HistoryOK <=> HistoryOK'
  BY <1>1 DEF HistoryOK
<1>5. CopyOK(FinalizeCalls, ReconcileCalls) <=> CopyOK(FinalizeCalls, ReconcileCalls)'
  BY <1>1, <1>2 DEF CopyOK, At
<1>6. (ConfigOK <=> ConfigOK') /\ (Unique <=> Unique')
  BY <1>1 DEF ConfigOK, Unique
<1>7. LocalOK <=> LocalOK'
  BY <1>1 DEF LocalOK, At, MyNamespace, MyName
<1>8. (\A b \in buckets : MakerOK(b)) <=> (\A b \in buckets : MakerOK(b))'
  BY <1>1, <1>2 DEF MakerOK, OrgExists
<1>9. Owned <=> Owned'
  BY <1>1, <1>2 DEF Owned, OwnerOK, Held, At, Me
<1>10. NoLostWakeup <=> NoLostWakeup'
  BY <1>1, <1>2 DEF NoLostWakeup
<1> QED BY <1>3, <1>4, <1>5, <1>6, <1>7, <1>8, <1>9, <1>10 DEF Safe, Inv

\* The types of the controller and of the InfluxDB side, and the first inductive
\* invariant, hold in every reachable state, whatever the lists of buckets look like.
THEOREM InvariantHolds == Spec => [](TypeOK /\ Inv)
<1>1. Init => Safe
  BY ControllerAssumption, BucketAssumption, InitSafe
<1>2. Safe /\ [Next]_vars => Safe'
  BY ControllerAssumption, BucketAssumption, NextSafe, StutterSafe
<1>3. Safe <=> TypeOK /\ Inv
  BY DEF Safe
<1> QED BY <1>1, <1>2, <1>3, PTL DEF Spec

\* Every variable keeps its type, whatever the lists of buckets look like.
THEOREM TypeCorrect == Spec => []TypeOK
BY InvariantHolds, PTL

\* When no two resources share a name, FinalizeResources never stands before the
\* deletion of a bucket that belongs to a resource that is alive: not after the Config
\* has been turned to another organization, and not with lists that are cut off.
THEOREM LiveSpared ==
    ASSUME \A j, k \in Keys : NameOf[j] = NameOf[k] => j = k
    PROVE  Spec => []SparesLive
<1>1. TypeOK /\ Inv => SparesLive
  <2> SUFFICES ASSUME TypeOK, Inv, At("DeleteBucketWithID"),
                      NEW b \in buckets, b.id = local.bucket, b.by # External
               PROVE  ~Alive(b.by)
    BY DEF SparesLive
  <2>1. /\ ~At("idle")
        /\ worker.key \in Keys
        /\ worker.obj.uid \in Nat
    BY ControllerAssumption, BucketAssumption, MeType DEF At
  <2>2. PICK k \in Keys, u \in Nat : b.by = <<k, u>>
    BY DEF TypeOK, Bucket
  <2>3. NameOf[k] = MyName /\ (worker.key = k => u <= worker.obj.uid)
    <3>1. MakerOK(b) /\ b.name = MyName
      BY DEF Inv, LocalOK
    <3> QED BY <2>2, <3>1 DEF MakerOK
  <2>4. k = worker.key
    BY <2>1, <2>3 DEF MyName
  <2>5. Latest(k) \in Object /\ Before(worker.obj, Latest(k))
    <3>1. VersionsType
      BY DEF TypeOK, ControllerTypeOK, VersionsType
    <3>2. \A i \in 1 .. Len(versions[k]) : Before(worker.obj, versions[k][i])
      BY <2>1, <2>4 DEF Inv, CopyOK
    <3> QED BY <3>1, <3>2, VersionFacts DEF Latest
  <2>6. worker.obj.deleting
    BY <2>1 DEF Inv, CopyOK, At, FinalizeCalls, Dying
  <2>7. CASE Latest(k).uid = u
    <3>1. worker.obj.uid = Latest(k).uid
      BY <2>1, <2>3, <2>4, <2>5, <2>7 DEF Before
    <3>2. Latest(k).deleting
      BY <2>5, <2>6, <3>1 DEF Before
    <3> QED BY <2>2, <3>2 DEF Alive, Live
  <2>8. CASE Latest(k).uid # u
    BY <2>2, <2>8 DEF Alive
  <2> QED BY <2>7, <2>8
<1> QED BY <1>1, InvariantHolds, PTL

\* status.phase never moves back, whatever copies the worker holds.
THEOREM PhaseMovesForward == Spec => PhaseForward
<1> DEFINE step == \A k \in Keys :
                      Latest(k)'.uid = Latest(k).uid
                          => PhaseRank[Latest(k).phase] <= PhaseRank[Latest(k)'.phase]
<1>1. TypeOK /\ Inv /\ [Next]_vars => [step]_versions
  <2>1. ASSUME TypeOK, Inv, Next
        PROVE  step
    BY <2>1, ControllerAssumption, NextIsStep DEF StepOK, Progress, Forward
  <2>2. UNCHANGED vars => UNCHANGED versions
    BY DEF vars, controllerVars
  <2> QED BY <2>1, <2>2
<1> QED BY <1>1, InvariantHolds, PTL DEF Spec, PhaseForward

\* When every status update changes the object, the controller never forgets an
\* existing Bucket.
THEOREM WakeupKept ==
    ASSUME ~SameSecond
    PROVE  Spec => []NoLostWakeup
<1>1. Init => NoLostWakeup
  BY ControllerAssumption, BucketAssumption, InitSafe
<1>2. TypeOK /\ Inv /\ NoLostWakeup /\ [Next]_vars => NoLostWakeup'
  BY ControllerAssumption, NextIsStep, StutterSafe DEF StepOK
<1> QED BY <1>1, <1>2, InvariantHolds, PTL DEF Spec

(***************************************************************************)
(* Lists that are complete.                                                  *)
(***************************************************************************)
\* A page has room for as many buckets as there are names.
PageHoldsAll == IsFiniteSet(Names) /\ Cardinality(Names) <= PageLimit

\* The names of an organization's buckets differ: there are at most as many buckets as
\* names, and a page that is not all of them would have to be longer.
LEMMA PagesComplete ==
    ASSUME BucketAssumption, TypeOK, Inv, PageHoldsAll, NEW org, NEW page \in Pages(org)
    PROVE  page = BucketsOf(org)
<1> DEFINE S == BucketsOf(org)
           f == [b \in S |-> b.name]
<1>1. \A b \in S : b.name \in Names
  BY DEF BucketsOf, TypeOK, Bucket
<1>2. \A a, b \in S : a.name = b.name => a = b
  BY DEF BucketsOf, Inv, Unique
<1>3. f \in Injection(S, Names)
  BY <1>1, <1>2 DEF Injection, IsInjective
<1>4. IsFiniteSet(S) /\ Cardinality(S) <= Cardinality(Names)
  BY <1>3, FS_Injection DEF PageHoldsAll
<1>5. page \in SUBSET S
  BY DEF Pages
<1>6. Cardinality(page) <= Cardinality(S) /\ (Cardinality(S) = Cardinality(page) => S = page)
  BY <1>4, <1>5, FS_Subset
<1>7. /\ Cardinality(page) \in Nat /\ Cardinality(S) \in Nat /\ Cardinality(Names) \in Nat
      /\ PageLimit \in Nat
  BY <1>4, <1>5, FS_Subset, FS_CardinalityType DEF PageHoldsAll, BucketAssumption
<1>8. page = S \/ Cardinality(page) = PageLimit
  BY DEF Pages
<1>9. CASE Cardinality(page) = PageLimit
  BY <1>4, <1>6, <1>7, <1>9 DEF PageHoldsAll
<1> QED BY <1>8, <1>9

\* The worker comes to RemoveFinalizer, and to the search of an organization, only as
\* OwnerOK allows.
LEMMA OwnerSeen ==
    ASSUME ControllerAssumption, BucketAssumption, TypeOK, Inv, PageHoldsAll, Owned, Progress,
           Next, NEW b \in buckets, b.by # External, NamespaceOf[b.by[1]] \notin moved,
           Me' = b.by, ~At("idle")'
    PROVE  /\ At("RemoveFinalizer")' => b.by \in skipped'
           /\ At("FindBucketsByOrgID")' => b.org = local'.org
<1> DEFINE goal == /\ At("RemoveFinalizer")' => b.by \in skipped'
                   /\ At("FindBucketsByOrgID")' => b.org = local'.org
<1>1. /\ worker \in Workers(Calls)
      /\ local \in Locals
      /\ b.org \in OrgIds
  BY DEF TypeOK, ControllerTypeOK, Bucket
<1>2. /\ OrgExists(b.org)
      /\ b.org[1] = Home[NamespaceOf[b.by[1]]]
      /\ NameOf[b.by[1]] = b.name
      /\ At("RemoveFinalizer") /\ b.by = Me => b.by \in skipped
      /\ At("FindBucketsByOrgID") /\ b.by = Me => b.org = local.org
  BY DEF Inv, Owned, OwnerOK, MakerOK
<1>3. skipped \subseteq skipped'
  BY ServerSteps
<1>4. ASSUME worker'.key = worker.key, worker'.obj = worker.obj
      PROVE  b.by = Me /\ b.by[1] = worker.key
  BY <1>4 DEF Me
<1>5. ASSUME ReturnError
      PROVE  goal
  BY <1>5, IdleFacts DEF ReturnError, Finish, At
<1>6. ASSUME NEW call, GoTo(call)
      PROVE  worker'.pc = call /\ b.by = Me /\ b.by[1] = worker.key
  BY <1>1, <1>4, <1>6 DEF GoTo, Workers
<1>7. ASSUME NEW call \in {"FinalizeFindOrganization", "DeleteBucketWithID",
                           "ReconcileFindOrganization", "CreateBucket"}, GoTo(call)
      PROVE  goal
  BY <1>6, <1>7 DEF At
<1>8. CASE Settled
  <2>1. CASE worker'.pc \notin Watched
    BY <2>1 DEF At, Watched
  <2>2. CASE worker'.pc = worker.pc /\ worker'.key = worker.key /\ worker'.obj = worker.obj
             /\ local' = local
    BY <1>2, <1>3, <1>4, <2>2 DEF At
  <2> QED BY <1>8, <2>1, <2>2 DEF Settled
<1>9. CASE FinalizeReadConfig
  <2>1. CASE GoTo("RemoveFinalizer") /\ skipped' = skipped \cup {Me}
    BY <1>6, <2>1 DEF At
  <2> QED BY <1>5, <1>7, <1>9, <2>1 DEF FinalizeReadConfig, GiveUp
<1>10. CASE FinalizeFindOrganization
  <2>1. CASE GoTo("FindBucketsByOrgID") /\ local' = [local EXCEPT !.org = OrgId(local.orgName)]
    <3>1. worker'.pc = "FindBucketsByOrgID" /\ b.by[1] = worker.key
      BY <1>6, <2>1
    <3>2. b.org[1] = local.orgName
      BY <1>2, <1>10, <3>1 DEF Inv, LocalOK, FinalizeFindOrganization, At, MyNamespace
    <3>3. b.org = OrgId(local.orgName)
      BY <1>1, <1>2, <3>2 DEF OrgExists, OrgId, OrgIds
    <3>4. local'.org = OrgId(local.orgName)
      BY <1>1, <2>1 DEF Locals
    <3> QED BY <3>1, <3>3, <3>4 DEF At
  <2> QED BY <1>5, <1>10, <2>1 DEF FinalizeFindOrganization, FindOrganization, GiveUp
<1>11. CASE FindBucketsByOrgID
  <2>1. CASE GoTo("RemoveFinalizer") /\ Named(BucketsOf(local.org), MyName) = {}
    <3>1. b.by = Me /\ b.by[1] = worker.key
      BY <1>6, <2>1
    <3>2. b.org = local.org /\ b.name = MyName
      BY <1>2, <1>11, <3>1 DEF FindBucketsByOrgID, MyName
    <3> QED BY <2>1, <3>2 DEF Named, BucketsOf
  <2> QED BY <1>7, <1>11, <2>1, PagesComplete DEF FindBucketsByOrgID
<1>12. CASE ReconcileReadConfig
  BY <1>5, <1>7, <1>12 DEF ReconcileReadConfig, GiveUp
<1>13. CASE ReconcileFindOrganization
  BY <1>5, <1>7, <1>13 DEF ReconcileFindOrganization, FindOrganization, GiveUp
<1> QED BY <1>8, <1>9, <1>10, <1>11, <1>12, <1>13, WayToWatched

LEMMA OwnerKept ==
    ASSUME ControllerAssumption, BucketAssumption, TypeOK, Inv, PageHoldsAll, Owned, Progress,
           Next, NEW b \in buckets
    PROVE  OwnerOK(b)'
<1>1. skipped \subseteq skipped' /\ moved \subseteq moved'
  BY ServerSteps
<1>2. CASE b.by = External \/ NamespaceOf[b.by[1]] \in moved'
  BY <1>2 DEF OwnerOK
<1>3. CASE b.by # External /\ NamespaceOf[b.by[1]] \notin moved'
  <2>1. /\ b.org[1] = Home[NamespaceOf[b.by[1]]]
        /\ Held(b.by) \/ b.by \in skipped
        /\ At("RemoveFinalizer") /\ b.by = Me => b.by \in skipped
    BY <1>1, <1>3 DEF Owned, OwnerOK
  <2>2. Held(b.by)' \/ b.by \in skipped'
    <3>1. PICK k \in Keys, u \in Nat : b.by = <<k, u>>
      BY <1>3 DEF TypeOK, Bucket
    <3>2. Held(<<k, u>>) => Held(<<k, u>>)' \/ (At("RemoveFinalizer") /\ Me = <<k, u>>)
      BY DEF Progress, HeldOn
    <3> QED BY <1>1, <2>1, <3>1, <3>2
  <2>3. /\ At("RemoveFinalizer")' /\ b.by = Me' => b.by \in skipped'
        /\ At("FindBucketsByOrgID")' /\ b.by = Me' => b.org = local'.org
    BY <1>1, <1>3, OwnerSeen DEF At
  <2> QED BY <2>1, <2>2, <2>3 DEF OwnerOK
<1> QED BY <1>2, <1>3

LEMMA OwnersStep ==
    ASSUME ControllerAssumption, BucketAssumption, TypeOK, Inv, PageHoldsAll, Owned, Progress,
           Next
    PROVE  Owned'
<1>1. CASE buckets' \subseteq buckets
  BY <1>1, OwnerKept DEF Owned
<1>2. ASSUME NEW b, Added(b), buckets' = buckets \cup {b}
      PROVE  OwnerOK(b)'
  <2>1. CASE b.by = External
    BY <2>1 DEF OwnerOK
  <2>2. CASE CreateBucket /\ b.org = local.org /\ b.by = Me
    <3>1. /\ UNCHANGED <<versions, moved>>
          /\ b.by[1] = worker.key
          /\ ~At("RemoveFinalizer")' /\ ~At("FindBucketsByOrgID")'
          /\ Held(b.by)
      BY <2>2, CreateFacts, CopyHeld
    <3>2. NamespaceOf[b.by[1]] \notin moved' => b.org[1] = Home[NamespaceOf[b.by[1]]]
      BY <2>2, <3>1 DEF Inv, LocalOK, CreateBucket, At, MyNamespace
    <3>3. Held(b.by)'
      BY <3>1 DEF Held, Latest
    <3> QED BY <3>1, <3>2, <3>3 DEF OwnerOK
  <2> QED BY <1>2, <2>1, <2>2 DEF Added
<1> QED BY <1>1, <1>2, OwnerKept, ServerSteps DEF Owned

(***************************************************************************)
(* In company.                                                               *)
(***************************************************************************)
\* What others do while the worker stands still or goes back to the queue: calls of theirs
\* fail, organizations go with their buckets and come back without, the Config becomes
\* unreadable and readable.
LEMMA OthersSafe ==
    ASSUME ControllerAssumption, BucketAssumption, Safe, Owned,
           StepOK(FinalizeCalls, ReconcileCalls),
           \/ UNCHANGED <<versions, worker, local>>
           \/ worker' = Idle /\ local' = Nothing,
           UNCHANGED <<skipped, moved>>,
           orgs' \in [OrgNames -> [up : BOOLEAN, gen : Nat]],
           config' \in [Namespaces -> Configs],
           ConfigOK',
           buckets' \subseteq buckets,
           \A b \in buckets' : OrgExists(b.org) => OrgExists(b.org)'
    PROVE  Safe' /\ Owned'
<1>1. TypeOK /\ Inv
  BY DEF Safe
<1>2. TypeOK'
  <2>1. WorldTypeOK'
    BY <1>1, NothingType DEF TypeOK, WorldTypeOK
  <2> QED BY <2>1, CallsSplit DEF StepOK, Good, TypeOK, WorldTypeOK
<1>3. LocalOK' /\ Unique'
  <2>1. CASE UNCHANGED <<versions, worker, local>>
    BY <1>1, <2>1 DEF Inv, LocalOK, Unique, At, MyNamespace, MyName
  <2>2. CASE worker' = Idle
    BY <1>1, <2>2, IdleFacts DEF Inv, LocalOK, Unique, At
  <2> QED BY <2>1, <2>2
<1>4. \A b \in buckets' : MakerOK(b)'
  BY <1>1, <1>2, MakerKept DEF StepOK
<1>5. ASSUME NEW b \in buckets
      PROVE  OwnerOK(b)'
  <2>1. CASE b.by = External \/ NamespaceOf[b.by[1]] \in moved
    BY <2>1 DEF OwnerOK
  <2>2. CASE b.by # External /\ NamespaceOf[b.by[1]] \notin moved
    <3>1. PICK k \in Keys, u \in Nat : b.by = <<k, u>>
      BY <1>1, <2>2 DEF TypeOK, Bucket
    <3>2. Held(<<k, u>>) => Held(<<k, u>>)' \/ (At("RemoveFinalizer") /\ Me = <<k, u>>)
      BY DEF StepOK, Progress, HeldOn
    <3>3. Held(b.by)' \/ b.by \in skipped'
      BY <2>2, <3>1, <3>2 DEF Owned, OwnerOK
    <3>4. CASE UNCHANGED <<versions, worker, local>>
      BY <2>2, <3>3, <3>4 DEF Owned, OwnerOK, At, Me
    <3>5. CASE worker' = Idle
      BY <2>2, <3>3, <3>5, IdleFacts DEF Owned, OwnerOK, At
    <3> QED BY <3>4, <3>5
  <2> QED BY <2>1, <2>2
<1> QED BY <1>2, <1>3, <1>4, <1>5 DEF Safe, Inv, StepOK, Good, Owned

\* When a page of the list has room for every name, a bucket the operator created is left
\* behind only by a resource finalized without its Config, or in an organization its
\* Config has left: although organizations and buckets come and go meanwhile.
THEOREM NothingOrphaned ==
    ASSUME IsFiniteSet(Names), Cardinality(Names) <= PageLimit
    PROVE  Spec => []NoOrphan
<1>1. PageHoldsAll
  BY DEF PageHoldsAll
<1>2. Init => Owned
  BY ControllerAssumption, BucketAssumption, InitSafe
<1>3. TypeOK /\ Inv /\ Owned /\ [Next]_vars => Owned'
  BY <1>1, ControllerAssumption, BucketAssumption, OwnersStep, NextIsStep, StutterSafe DEF StepOK
<1>4. Owned => NoOrphan
  BY DEF Owned, OwnerOK, NoOrphan
<1> QED BY <1>2, <1>3, <1>4, InvariantHolds, PTL DEF Spec

(***************************************************************************)
(* Refinement: BucketReconciler implements Lifecycle when a page of a list has   *)
(* room for every name, each step of it being a step of Lifecycle or nothing at   *)
(* all there.                                                                *)
(***************************************************************************)
\* The sets of Lifecycle that do not come from Controller.
Provided == {b.by : b \in buckets} \ {External}

Excused == skipped \cup {me \in Resources : NamespaceOf[me[1]] \in moved}

\* Everything that was created was created for a resource of the run.
MakersInRange == Provided \subseteq Resources

Mapped == Safe /\ UidsOK /\ MakersInRange

LEMMA MappedFacts ==
    ASSUME Mapped
    PROVE  /\ TypeOK /\ Inv
           /\ Good(FinalizeCalls, ReconcileCalls)
           /\ Classes(FinalizeCalls, ReconcileCalls)
           /\ VersionsType /\ VersionsInRange /\ InRange(worker.obj)
           /\ Provided \subseteq Resources
BY InvGood, CallsSplit DEF Mapped, Safe, UidsOK, MakersInRange, TypeOK, ControllerTypeOK,
   VersionsType

\* The worker's resource, whenever it is there, is one of the run.
LEMMA MeInRange ==
    ASSUME ControllerAssumption, BucketAssumption, Mapped, ~At("idle"), worker.obj.exists
    PROVE  Me \in Resources
<1>1. worker.key \in Keys /\ worker.obj.uid \in Nat /\ Me = <<worker.key, worker.obj.uid>>
  BY MappedFacts, MeType
<1>2. worker.obj.uid >= 1 /\ worker.obj.uid <= MaxUid
  BY MappedFacts DEF InRange
<1> QED BY <1>1, <1>2 DEF Resources, ControllerAssumption

(***************************************************************************)
(* Steps that leave the server alone.                                        *)
(***************************************************************************)
ServerVars == <<buckets, skipped, moved>>

LifeStep == Life!Next \/ UNCHANGED Life!vars

LEMMA ServerVarsFacts ==
    ASSUME Mapped, UNCHANGED ServerVars
    PROVE  Provided' = Provided /\ Excused' = Excused /\ MakersInRange'
BY MappedFacts DEF ServerVars, Provided, Excused, MakersInRange, Resources

LEMMA GuardStep ==
    ASSUME NEW me, Guarded(me), UNCHANGED <<Provided, Excused>>
    PROVE  LifeStep
<1>1. Life!Guard(me)
  BY DEF Guarded, Free, Provided, Excused, Life!Guard
<1> QED BY <1>1 DEF Guarded, Free, LifeStep, Life!Next

LEMMA DiscardStep ==
    ASSUME NEW me, Discarded(me), UNCHANGED <<Provided, Excused>>
    PROVE  LifeStep
<1>1. Life!Discard(me)
  BY DEF Discarded, Free, Provided, Excused, Life!Discard
<1> QED BY <1>1 DEF Discarded, Free, LifeStep, Life!Next

LEMMA ReleaseStep ==
    ASSUME NEW me, Released(me), me \in Provided => me \in Excused,
           UNCHANGED <<Provided, Excused>>
    PROVE  LifeStep
<1>1. Life!Release(me)
  BY DEF Released, Provided, Excused, Life!Release
<1> QED BY <1>1 DEF Released, LifeStep, Life!Next

(***************************************************************************)
(* Steps at the server.                                                      *)
(***************************************************************************)
LEMMA WithdrawStep ==
    ASSUME Steady, Excused' = Excused, Provided \subseteq Resources, Provided' \subseteq Provided
    PROVE  LifeStep
<1>1. PICK gone \in SUBSET Resources : Provided' = Provided \ gone
  OBVIOUS
<1>2. Life!Withdraw(gone)
  BY <1>1 DEF Steady, Provided, Excused, Life!Withdraw
<1> QED BY <1>2 DEF LifeStep, Life!Next

LEMMA ExcuseStep ==
    ASSUME Steady, Provided' = Provided, NEW some \in SUBSET Resources,
           Excused' = Excused \cup some
    PROVE  LifeStep
<1>1. Life!Excuse(some)
  BY DEF Steady, Provided, Excused, Life!Excuse
<1> QED BY <1>1 DEF LifeStep, Life!Next

LEMMA ProvideStep ==
    ASSUME Steady, Excused' = Excused, NEW me \in Resources, me \in HeldResources,
           Provided' = Provided \cup {me}
    PROVE  LifeStep
<1>1. Life!Provide(me)
  BY DEF Steady, Provided, Excused, Life!Provide
<1> QED BY <1>1 DEF LifeStep, Life!Next

\* Buckets come and go, the worker's and those of others.
LEMMA ServerStep ==
    ASSUME ControllerAssumption, BucketAssumption, Mapped, Next, Steady,
           UNCHANGED <<skipped, moved>>
    PROVE  LifeStep /\ MakersInRange'
<1>1. Excused' = Excused
  BY DEF Excused, Resources
<1>2. ASSUME Provided' \subseteq Provided
      PROVE  LifeStep /\ MakersInRange'
  BY <1>1, <1>2, WithdrawStep, MappedFacts DEF MakersInRange, Resources
<1>3. CASE buckets' \subseteq buckets
  BY <1>2, <1>3 DEF Provided
<1>4. ASSUME NEW b, Added(b), buckets' = buckets \cup {b}
      PROVE  LifeStep /\ MakersInRange'
  <2>1. CASE b.by = External
    BY <1>2, <1>4, <2>1 DEF Provided
  <2>2. CASE CreateBucket /\ b.by = Me
    <3>1. worker.pc \in ReconcileCalls /\ ~At("idle")
      BY <2>2 DEF CreateBucket, At, ReconcileCalls
    <3>2. Held(Me) /\ worker.obj.exists
      BY <3>1, MappedFacts, CopyHeld DEF Good, CopyOK, Live
    <3>3. Me \in Resources /\ Me \in HeldResources
      BY <3>1, <3>2, MeInRange DEF HeldResources
    <3>4. Me # External
      BY <3>1, MappedFacts, MeType DEF ControllerAssumption
    <3>5. Provided' = Provided \cup {Me}
      BY <1>4, <2>2, <3>4 DEF Provided
    <3>6. MakersInRange'
      BY <3>3, <3>5, MappedFacts DEF MakersInRange, Resources
    <3> QED BY <1>1, <3>3, <3>5, <3>6, ProvideStep
  <2> QED BY <1>4, <2>1, <2>2 DEF Added
<1> QED BY <1>3, <1>4, MappedFacts, ServerSteps

\* The controller gives up on a resource whose Config is missing.
LEMMA ReadConfigStep ==
    ASSUME ControllerAssumption, BucketAssumption, Mapped, FinalizeReadConfig, Steady
    PROVE  LifeStep /\ MakersInRange'
<1>1. Provided' = Provided /\ MakersInRange'
  BY MappedFacts DEF FinalizeReadConfig, MakersInRange, Provided, Resources
<1>2. CASE UNCHANGED skipped
  <2>1. Excused' = Excused
    BY <1>2 DEF FinalizeReadConfig, Excused, Resources
  <2> QED BY <1>1, <2>1, WithdrawStep, MappedFacts
<1>3. CASE skipped' = skipped \cup {Me}
  <2>1. ~At("idle") /\ worker.obj.exists
    BY MappedFacts DEF FinalizeReadConfig, At, Good, CopyOK, FinalizeCalls, Dying
  <2>2. Excused' = Excused \cup {Me}
    BY <1>3 DEF FinalizeReadConfig, Excused, Resources
  <2>3. {Me} \in SUBSET Resources
    BY <2>1, MeInRange
  <2> QED BY <1>1, <2>2, <2>3, ExcuseStep
<1> QED BY <1>1, <1>2, <1>3 DEF FinalizeReadConfig

\* A Config that moves leaves what was made behind.
LEMMA MoveStep ==
    ASSUME Mapped, NEW ns \in Namespaces, ChangeConfig(ns), Steady
    PROVE  LifeStep /\ MakersInRange'
<1>1. Provided' = Provided /\ MakersInRange'
  BY MappedFacts DEF ChangeConfig, MakersInRange, Provided, Resources
<1> DEFINE some == {me \in Resources : NamespaceOf[me[1]] \in moved'}
<1>2. moved \subseteq moved' /\ UNCHANGED skipped
  BY DEF ChangeConfig
<1>3. Excused' = Excused \cup some
  BY <1>2 DEF Excused, Resources
<1>4. some \in SUBSET Resources
  OBVIOUS
<1> HIDE DEF some
<1> QED BY <1>1, <1>3, <1>4, ExcuseStep

(***************************************************************************)
(* All steps, and the theorem.                                               *)
(***************************************************************************)
LEMMA StepMaps ==
    ASSUME ControllerAssumption, BucketAssumption, Mapped, Owned, Next
    PROVE  LifeStep /\ VersionsInRange' /\ MakersInRange'
<1> DEFINE goal == LifeStep /\ VersionsInRange' /\ MakersInRange'
<1>1. ASSUME VersionsInRange', Steady, UNCHANGED <<skipped, moved>>
      PROVE  goal
  BY <1>1, ServerStep
<1>2. CASE FinalizeReadConfig
  <2>1. VersionsInRange' /\ Steady
    BY <1>2, MappedFacts, UnwrittenHold DEF FinalizeReadConfig
  <2> QED BY <1>2, <2>1, ReadConfigStep
<1>3. ASSUME NEW ns \in Namespaces, ChangeConfig(ns)
      PROVE  goal
  <2>1. VersionsInRange' /\ Steady
    BY <1>3, MappedFacts, UnwrittenHold DEF ChangeConfig
  <2> QED BY <1>3, <2>1, MoveStep
<1>4. CASE UNCHANGED versions /\ UNCHANGED <<skipped, moved>>
  BY <1>1, <1>4, MappedFacts, UnwrittenHold
<1>5. CASE FinalizeStatus \/ InitializeStatus \/ DeletedStatus \/ CreatedStatus
  BY <1>1, <1>5, MappedFacts, MarkHold DEF FinalizeStatus, InitializeStatus, DeletedStatus,
     CreatedStatus, influxVars
<1>6. CASE AddFinalizer
  <2>1. VersionsInRange' /\ (Steady \/ Guarded(Me)) /\ UNCHANGED ServerVars
    BY <1>6, MappedFacts, PutFinalizerHold DEF AddFinalizer, influxVars, ServerVars
  <2> QED BY <1>1, <2>1, ServerVarsFacts, GuardStep DEF ServerVars
<1>7. CASE RemoveFinalizer
  <2>1. VersionsInRange' /\ (Steady \/ Released(Me)) /\ UNCHANGED ServerVars
    BY <1>7, MappedFacts, DropFinalizerHold DEF RemoveFinalizer, influxVars, ServerVars
  <2>2. Me \in Provided => Me \in Excused
    <3>1. ASSUME NEW b \in buckets, b.by = Me, Me # External
          PROVE  Me \in Excused
      <4>1. At("RemoveFinalizer")
        BY <1>7 DEF RemoveFinalizer, DropFinalizer
      <4>2. Me \in Resources
        BY <3>1, MappedFacts DEF Provided
      <4> QED BY <3>1, <4>1, <4>2 DEF Owned, OwnerOK, Excused
    <3> QED BY <3>1 DEF Provided
  <2> QED BY <1>1, <2>1, <2>2, ServerVarsFacts, ReleaseStep DEF ServerVars
<1>8. CASE Restart
  BY <1>1, <1>8, MappedFacts, RestartHold DEF Restart
<1>9. ASSUME NEW k \in Keys, Informer(k) \/ Create(k) \/ Edit(k)
      PROVE  goal
  BY <1>1, <1>9, MappedFacts, DeliverHold, UserCreateHold, UserEditHold
  DEF Informer, Create, Edit, influxVars
<1>10. ASSUME NEW k \in Keys, Delete(k)
       PROVE  goal
  <2>1. /\ VersionsInRange' /\ (Steady \/ Discarded(<<k, Latest(k).uid>>))
        /\ UNCHANGED ServerVars
    BY <1>10, MappedFacts, UserDeleteHold DEF Delete, influxVars, ServerVars
  <2> QED BY <1>1, <2>1, ServerVarsFacts, DiscardStep DEF ServerVars
<1> QED
  BY <1>2, <1>3, <1>4, <1>5, <1>6, <1>7, <1>8, <1>9, <1>10
  DEF Next, Work, influxVars, FinalizeFindOrganization, FindOrganization, FindBucketsByOrgID,
      DeleteBucketWithID, ReconcileReadConfig, ReconcileFindOrganization, CreateBucket, Fail,
      CallFails, Reconcile, Dispatch, Drift, ToggleOrganization

LEMMA InitMaps ==
    ASSUME ControllerAssumption, BucketAssumption, Init
    PROVE  Mapped /\ Owned /\ Life!Init
<1>1. Safe /\ Owned
  BY InitSafe
<1>2. \A k \in Keys : Latest(k) = NoObject /\ Len(versions[k]) = 1 /\ versions[k][1] = NoObject
  BY DEF Init, ControllerInit, Latest
<1>3. UidsOK
  BY <1>2, NoObjectInRange, IdleFacts DEF Init, ControllerInit, UidsOK, VersionsInRange
<1>4. Provided = {} /\ Excused = {}
  BY DEF Init, Provided, Excused
<1>5. HeldResources = {} /\ PastResources = {}
  BY <1>2 DEF HeldResources, PastResources, Resources, Held, NoObject, Gone, NewObject
<1> QED BY <1>1, <1>3, <1>4, <1>5 DEF Mapped, MakersInRange, Life!Init, Provided, Excused

LEMMA NextMapped ==
    ASSUME ControllerAssumption, BucketAssumption, PageHoldsAll, Mapped, Owned, Next
    PROVE  Mapped' /\ Owned'
<1>1. Safe'
  BY NextSafe DEF Mapped
<1>2. Progress
  BY MappedFacts, NextIsStep DEF StepOK
<1>3. InRange(worker'.obj)
  BY <1>2, MappedFacts, CopyInRange DEF Mapped, Progress
<1>4. VersionsInRange' /\ MakersInRange'
  BY StepMaps
<1>5. Owned'
  BY <1>2, MappedFacts, OwnersStep
<1> QED BY <1>1, <1>3, <1>4, <1>5 DEF Mapped, UidsOK, InRange

LEMMA StutterMaps ==
    ASSUME Mapped, UNCHANGED vars
    PROVE  Mapped' /\ UNCHANGED Life!vars
<1>1. UNCHANGED <<versions, worker, buckets, skipped, moved>>
  BY DEF vars, controllerVars, influxVars
<1>2. Steady /\ VersionsInRange'
  BY <1>1, MappedFacts, UnwrittenHold
<1>3. Safe'
  BY StutterSafe DEF Mapped
<1>4. Provided' = Provided /\ Excused' = Excused /\ MakersInRange'
  BY <1>1, ServerVarsFacts DEF ServerVars
<1>5. InRange(worker.obj)'
  BY <1>1, MappedFacts DEF InRange
<1> QED
  BY <1>2, <1>3, <1>4, <1>5 DEF Mapped, UidsOK, Steady, Life!vars, Provided, Excused

\* Seen without its caches, calls and failures, the Bucket controller keeps the promise
\* of Lifecycle, as long as a page of the list of buckets has room for every name: it
\* lets go of a resource only when no bucket of it is left, or it was finalized without
\* its Config, or the Config has named another organization.
THEOREM BucketImplements ==
    ASSUME IsFiniteSet(Names), Cardinality(Names) <= PageLimit
    PROVE  Spec => ImplementsLifecycle
<1>1. PageHoldsAll
  BY DEF PageHoldsAll
<1>2. Init => Mapped /\ Owned /\ Life!Init
  BY ControllerAssumption, BucketAssumption, InitMaps
<1>3. Mapped /\ Owned /\ [Next]_vars => Mapped' /\ Owned'
  BY <1>1, ControllerAssumption, BucketAssumption, NextMapped, StutterMaps, StutterSafe
<1>4. Mapped /\ Owned /\ [Next]_vars => [Life!Next]_(Life!vars)
  BY ControllerAssumption, BucketAssumption, StepMaps, StutterMaps DEF LifeStep
<1> QED BY <1>2, <1>3, <1>4, PTL DEF Spec, ImplementsLifecycle, Life!Spec
===============================================================================
