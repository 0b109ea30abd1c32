-------------------------- MODULE OrganizationProofs --------------------------
(***************************************************************************)
(* Theorems about OrganizationReconciler, for every set of resources and      *)
(* names and every bound.                                                     *)
(***************************************************************************)
EXTENDS OrganizationReconciler, ControllerProofs

LEMMA CallsSplit ==
    /\ Calls = FinalizeCalls \cup ReconcileCalls \cup ResourceCalls
    /\ Classes(FinalizeCalls, ReconcileCalls)
BY DEF Calls, CommonCalls, FinalizeCalls, ReconcileCalls, ResourceCalls, Classes

LEMMA InvGood == TypeOK /\ Inv => Good(FinalizeCalls, ReconcileCalls)
BY CallsSplit DEF TypeOK, Inv, Good

\* Every action is, for the versions and the worker, one of the steps of Controller.
LEMMA NextIsStep ==
    ASSUME ControllerAssumption, TypeOK, Inv, Next
    PROVE  StepOK(FinalizeCalls, ReconcileCalls)
<1> DEFINE fin == FinalizeCalls
           rec == ReconcileCalls
           ok == StepOK(fin, rec)
<1>1. Good(fin, rec) /\ Classes(fin, rec)
  BY InvGood, CallsSplit
<1>2. CASE FinalizeStatus
  BY <1>1, <1>2, MarkTerminatingStep DEF FinalizeStatus
<1>3. CASE FinalizeReadConfig
  <2>1. CASE ReturnError /\ UNCHANGED <<versions, faults>>
    <3>1. ~At("idle")
      BY <1>3 DEF FinalizeReadConfig, At
    <3> QED BY <1>1, <2>1, <3>1, ReturnErrorStep
  <2>2. ASSUME NEW call \in {"RemoveFinalizer", "FindOrganizationByName"},
               GoTo(call), UNCHANGED <<versions, queue, faults>>
        PROVE  ok
    <3>1. worker.pc \in fin /\ call \in fin
      BY <1>3 DEF FinalizeReadConfig, At, FinalizeCalls
    <3> QED BY <1>1, <2>2, <3>1, GoToStep
  <2> QED BY <1>3, <2>1, <2>2 DEF FinalizeReadConfig
<1>4. CASE FindOrganizationByName
  <2>1. PICK call \in {"RemoveFinalizer", "DeleteOrganizationWithID"} :
           GoTo(call) /\ UNCHANGED <<versions, queue, faults>>
    BY <1>4 DEF FindOrganizationByName
  <2>2. worker.pc \in fin /\ call \in fin
    BY <1>4 DEF FindOrganizationByName, At, FinalizeCalls
  <2> QED BY <1>1, <2>1, <2>2, GoToStep
<1>5. CASE DeleteOrganizationWithID
  <2>1. worker.pc \in fin /\ "DeletedStatus" \in fin /\ ~At("idle")
    BY <1>5 DEF DeleteOrganizationWithID, At, FinalizeCalls
  <2>2. CASE ReturnError /\ (faults' = faults \/ Fault)
    BY <1>1, <1>5, <2>1, <2>2, ReturnErrorStep DEF DeleteOrganizationWithID
  <2>3. CASE GoTo("DeletedStatus") /\ UNCHANGED <<queue, faults>>
    BY <1>1, <1>5, <2>1, <2>3, GoToStep DEF DeleteOrganizationWithID
  <2> QED BY <1>5, <2>2, <2>3 DEF DeleteOrganizationWithID
<1>6. CASE DeletedStatus
  BY <1>1, <1>6, MarkDeletedStep DEF DeletedStatus
<1>7. CASE RemoveFinalizer
  BY <1>1, <1>7, DropFinalizerStep DEF RemoveFinalizer
<1>8. CASE AddFinalizer
  BY <1>1, <1>8, PutFinalizerStep DEF AddFinalizer
<1>9. CASE InitializeStatus
  BY <1>1, <1>9, MarkInitializedStep DEF InitializeStatus
<1>10. CASE ReconcileReadConfig
  <2>1. worker.pc \in rec /\ "FindConfigOrganization" \in rec /\ ~At("idle")
    BY <1>10 DEF ReconcileReadConfig, At, ReconcileCalls
  <2>2. CASE ReturnError
    BY <1>1, <1>10, <2>1, <2>2, ReturnErrorStep DEF ReconcileReadConfig
  <2>3. CASE GoTo("FindConfigOrganization") /\ UNCHANGED queue
    BY <1>1, <1>10, <2>1, <2>3, GoToStep DEF ReconcileReadConfig
  <2> QED BY <1>10, <2>2, <2>3 DEF ReconcileReadConfig
<1>11. CASE FindConfigOrganization
  <2>1. worker.pc \in rec /\ "CreateOrganization" \in rec /\ ~At("idle")
    BY <1>11 DEF FindConfigOrganization, At, ReconcileCalls
  <2>2. CASE ReturnError
    BY <1>1, <1>11, <2>1, <2>2, ReturnErrorStep DEF FindConfigOrganization
  <2>3. CASE GoTo("CreateOrganization") /\ UNCHANGED queue
    BY <1>1, <1>11, <2>1, <2>3, GoToStep DEF FindConfigOrganization
  <2> QED BY <1>11, <2>2, <2>3 DEF FindConfigOrganization
<1>12. CASE CreateOrganization
  <2>1. worker.pc \in rec /\ "CreatedStatus" \in rec /\ ~At("idle")
    BY <1>12 DEF CreateOrganization, At, ReconcileCalls
  <2>2. CASE ReturnError /\ (faults' = faults \/ Fault)
    BY <1>1, <1>12, <2>1, <2>2, ReturnErrorStep DEF CreateOrganization
  <2>3. CASE GoTo("CreatedStatus") /\ UNCHANGED <<queue, faults>>
    BY <1>1, <1>12, <2>1, <2>3, GoToStep DEF CreateOrganization
  <2> QED
    BY <1>12, <2>2, <2>3 DEF CreateOrganization, OrganizationConflict, RequeueAfter, ReturnError
<1>13. CASE CreatedStatus
  BY <1>1, <1>13, MarkCreatedStep DEF CreatedStatus
<1>14. CASE Fail
  BY <1>1, <1>14, CallFailsStep DEF Fail
<1>15. CASE Restart
  BY <1>1, <1>15, RestartStep DEF Restart
<1>16. ASSUME NEW k \in Keys, Reconcile(k)
       PROVE  ok
  BY <1>1, <1>16, DispatchStep DEF Reconcile
<1>17. ASSUME NEW k \in Keys, Informer(k)
       PROVE  ok
  BY <1>1, <1>17, DeliverStep DEF Informer
<1>18. ASSUME NEW k \in Keys, Create(k)
       PROVE  ok
  BY <1>1, <1>18, UserCreateStep DEF Create
<1>19. ASSUME NEW k \in Keys, Delete(k)
       PROVE  ok
  BY <1>1, <1>19, UserDeleteStep DEF Delete
<1>20. ASSUME NEW k \in Keys, Edit(k)
       PROVE  ok
  BY <1>1, <1>20, UserEditStep DEF Edit
<1>21. ASSUME NEW k \in Keys, ChangeConfig(k)
       PROVE  ok
  BY <1>1, <1>21, QuietStep DEF ChangeConfig
<1>22. ASSUME NEW n \in Names, Drift(n)
       PROVE  ok
  BY <1>1, <1>22, QuietStep DEF Drift
<1> QED
  BY <1>2, <1>3, <1>4, <1>5, <1>6, <1>7, <1>8, <1>9, <1>10, <1>11, <1>12, <1>13, <1>14,
     <1>15, <1>16, <1>17, <1>18, <1>19, <1>20, <1>21, <1>22 DEF Next, Work

(***************************************************************************)
(* Types.                                                                    *)
(***************************************************************************)
LEMMA MeType ==
    ASSUME ControllerAssumption, TypeOK, ~At("idle")
    PROVE  /\ worker.key \in Keys
           /\ worker.obj \in Object
           /\ worker.obj.uid \in Nat
           /\ Me \in Keys \X Nat
           /\ Me[1] = worker.key
           /\ Me[2] = worker.obj.uid
BY DEF TypeOK, ControllerTypeOK, Workers, Object, Me, At

\* The variables of the InfluxDB side keep their types.
LEMMA InfluxTypes ==
    ASSUME ControllerAssumption, OrganizationAssumption, TypeOK, Next
    PROVE  /\ orgs' \in [Names -> Org]
           /\ config' \in [Keys -> Configs]
           /\ target' \in Ids \cup {NoId}
           /\ lost' \subseteq Names
           /\ skipped' \subseteq Keys \X Nat
<1> DEFINE types == /\ orgs' \in [Names -> Org]
                    /\ config' \in [Keys -> Configs]
                    /\ target' \in Ids \cup {NoId}
                    /\ lost' \subseteq Names
                    /\ skipped' \subseteq Keys \X Nat
<1>1. /\ orgs \in [Names -> Org]
      /\ config \in [Keys -> Configs]
      /\ target \in Ids \cup {NoId}
      /\ lost \subseteq Names
      /\ skipped \subseteq Keys \X Nat
  BY DEF TypeOK
<1>2. CASE UNCHANGED influxVars
  BY <1>1, <1>2 DEF influxVars
<1>3. NoOrg \in Org /\ NoId \in Ids \cup {NoId}
  BY DEF NoOrg, Org
<1>4. CASE FinalizeReadConfig
  <2>1. Me \in Keys \X Nat
    BY <1>4, MeType DEF FinalizeReadConfig, At
  <2> QED BY <1>1, <1>4, <2>1 DEF FinalizeReadConfig
<1>5. CASE FindOrganizationByName
  <2>1. MyName \in Names
    BY <1>5, MeType DEF FindOrganizationByName, At, MyName, OrganizationAssumption
  <2>2. orgs[MyName].id \in Ids \cup {NoId}
    BY <1>1, <2>1 DEF Org
  <2> QED BY <1>1, <1>5, <2>2 DEF FindOrganizationByName
<1>6. CASE DeleteOrganizationWithID
  BY <1>1, <1>3, <1>6 DEF DeleteOrganizationWithID
<1>7. CASE CreateOrganization
  <2>1. MyName \in Names /\ Me \in Keys \X Nat
    BY <1>7, MeType DEF CreateOrganization, At, MyName, OrganizationAssumption
  <2>2. \A id \in Ids : [id |-> id, by |-> Me] \in Org
    BY <2>1 DEF Org
  <2>3. CASE OrganizationConflict
    BY <1>1, <1>7, <2>3 DEF CreateOrganization, OrganizationConflict
  <2>4. CASE ~OrgExists(MyName)
    <3>1. PICK id \in Ids : orgs' = [orgs EXCEPT ![MyName] = [id |-> id, by |-> Me]]
      BY <1>7, <2>4 DEF CreateOrganization, OrganizationConflict
    <3>2. orgs' \in [Names -> Org]
      BY <1>1, <2>1, <2>2, <3>1
    <3>3. lost' \subseteq Names
      BY <1>1, <1>7, <2>4 DEF CreateOrganization, OrganizationConflict
    <3> QED BY <1>1, <1>7, <3>2, <3>3 DEF CreateOrganization
  <2> QED BY <1>7, <2>3, <2>4 DEF CreateOrganization
<1>8. CASE Fail \/ Restart
  BY <1>1, <1>3, <1>8 DEF Fail, Restart
<1>9. ASSUME NEW n \in Names, Drift(n)
      PROVE  types
  <2>1. \A id \in Ids : [id |-> id, by |-> External] \in Org
    BY DEF Org
  <2>2. orgs' \in [Names -> Org]
    <3>1. CASE OrgExists(n)
      BY <1>1, <1>3, <1>9, <3>1 DEF Drift
    <3>2. CASE ~OrgExists(n)
      <4>1. PICK id \in Ids : orgs' = [orgs EXCEPT ![n] = [id |-> id, by |-> External]]
        BY <1>9, <3>2 DEF Drift
      <4> QED BY <1>1, <2>1, <4>1
    <3> QED BY <3>1, <3>2
  <2>3. lost' \subseteq Names
    BY <1>1, <1>9 DEF Drift
  <2> QED BY <1>1, <1>9, <2>2, <2>3 DEF Drift
<1>10. ASSUME NEW k \in Keys, ChangeConfig(k)
       PROVE  types
  BY <1>1, <1>10 DEF ChangeConfig
<1> QED
  BY <1>2, <1>4, <1>5, <1>6, <1>7, <1>8, <1>9, <1>10 DEF Next, Work, FinalizeStatus,
     DeletedStatus, RemoveFinalizer, AddFinalizer, InitializeStatus, ReconcileReadConfig,
     FindConfigOrganization, CreatedStatus, Reconcile, Informer, Create, Delete, Edit

(***************************************************************************)
(* Owners.                                                                   *)
(***************************************************************************)
\* An organization nobody touches, or that External touches, keeps what OwnerOK says,
\* provided the worker does not come to RemoveFinalizer while one of its own is left.
LEMMA OwnerKept ==
    ASSUME ControllerAssumption, OrganizationAssumption, TypeOK, Inv, NEW n \in Names,
           TypeOK', Progress, skipped \subseteq skipped',
           orgs'[n] = orgs[n] \/ orgs'[n].by = External,
           At("RemoveFinalizer")' => \/ At("RemoveFinalizer")
                                     \/ Me \in skipped'
                                     \/ orgs[MyName].id = NoId
    PROVE  OwnerOK(n)'
<1>1. CASE orgs'[n].by = External
  BY <1>1 DEF OwnerOK
<1>2. CASE orgs'[n] = orgs[n] /\ orgs[n].by # External
  <2>1. PICK k \in Keys, u \in Nat : orgs[n].by = <<k, u>>
    BY <1>2 DEF TypeOK, Org
  <2>2. /\ orgs[n].id # NoId
        /\ NameOf[k] = n
        /\ u <= Cached(k).uid
        /\ worker.key = k => u <= worker.obj.uid
        /\ Held(<<k, u>>) \/ <<k, u>> \in skipped
        /\ At("RemoveFinalizer") /\ <<k, u>> = Me => <<k, u>> \in skipped
    BY <1>2, <2>1 DEF Inv, OwnerOK
  <2>3. u <= Cached(k)'.uid
    <3>1. VersionsType /\ VersionsType'
      BY DEF TypeOK, ControllerTypeOK, VersionsType
    <3>2. Cached(k) \in Object /\ Cached(k)' \in Object
      BY <3>1, VersionFacts DEF VersionsType, Cached
    <3>3. Cached(k).uid \in Nat /\ Cached(k)'.uid \in Nat
      BY <3>2 DEF Object
    <3>4. Cached(k).uid <= Cached(k)'.uid
      BY DEF Progress
    <3> QED BY <2>2, <3>3, <3>4
  <2>4. worker'.key = k => u <= worker'.obj.uid
    <3>1. CASE worker' = Idle
      BY <3>1, IdleFacts DEF ControllerAssumption
    <3>2. CASE worker'.key = worker.key /\ worker'.obj = worker.obj
      BY <2>2, <3>2
    <3>3. CASE worker'.key \in Keys /\ worker'.obj = Cached(worker'.key)
      BY <2>2, <3>3
    <3> QED BY <3>1, <3>2, <3>3 DEF Progress, CopyKept
  <2>5. Held(<<k, u>>)' \/ <<k, u>> \in skipped'
    <3>1. Held(<<k, u>>) => Held(<<k, u>>)' \/ (At("RemoveFinalizer") /\ Me = <<k, u>>)
      BY DEF Progress, HeldOn
    <3> QED BY <2>2, <3>1
  <2>6. At("RemoveFinalizer")' /\ <<k, u>> = Me' => <<k, u>> \in skipped'
    <3> SUFFICES ASSUME At("RemoveFinalizer")', <<k, u>> = Me'
                 PROVE  <<k, u>> \in skipped'
      OBVIOUS
    <3>1. worker'.key = worker.key /\ worker'.obj = worker.obj
      BY IdleFacts DEF Progress, CopyKept, At
    <3>2. <<k, u>> = Me
      BY <3>1 DEF Me
    <3>3. MyName = n
      BY <2>2, <3>2 DEF MyName, Me
    <3> QED BY <2>2, <3>2, <3>3
  <2>7. orgs'[n].by = <<k, u>> /\ orgs'[n].id # NoId
    BY <1>2, <2>1, <2>2
  <2> QED BY <2>2, <2>3, <2>4, <2>5, <2>6, <2>7 DEF OwnerOK
<1>3. CASE orgs'[n] = orgs[n] /\ orgs[n].by = External
  BY <1>3 DEF OwnerOK
<1> QED BY <1>1, <1>2, <1>3

\* A resource whose copy is live and has the finalizer still exists, however old the
\* copy: an organization created for it has an owner.
LEMMA CopyHeld ==
    ASSUME ControllerAssumption, TypeOK, Inv, worker.pc \in ReconcileCalls
    PROVE  /\ Held(Me)
           /\ worker.obj.uid <= Cached(worker.key).uid
<1>1. /\ ~At("idle")
      /\ worker.key \in Keys
      /\ VersionsType
  BY MeType DEF ReconcileCalls, At, TypeOK, ControllerTypeOK, VersionsType
<1>2. /\ Live(worker.obj)
      /\ worker.obj.finalizer
      /\ \A i \in 1 .. Len(versions[worker.key]) : Before(worker.obj, versions[worker.key][i])
  BY <1>1 DEF Inv, CopyOK
<1>3. Before(worker.obj, Latest(worker.key)) /\ Before(worker.obj, Cached(worker.key))
  BY <1>1, <1>2, VersionFacts DEF Latest, Cached
<1> QED BY <1>1, <1>2, <1>3, MeType DEF Before, Held

\* A new organization has an owner: the resource the worker has in hand.
LEMMA OwnerCreated ==
    ASSUME ControllerAssumption, OrganizationAssumption, TypeOK, Inv, NEW id \in Ids,
           worker.pc \in ReconcileCalls,
           UNCHANGED versions,
           worker' = Idle \/ GoTo("CreatedStatus"),
           orgs' = [orgs EXCEPT ![MyName] = [id |-> id, by |-> Me]],
           NEW n \in Names, n = MyName
    PROVE  OwnerOK(n)'
<1>1. /\ worker.key \in Keys
      /\ worker.obj.uid \in Nat
      /\ worker \in Workers(Calls)
      /\ orgs \in [Names -> Org]
  BY MeType DEF ReconcileCalls, At, TypeOK, ControllerTypeOK
<1>2. PICK k \in Keys, u \in Nat : worker.key = k /\ worker.obj.uid = u /\ Me = <<k, u>>
  BY <1>1 DEF Me
<1>3. NameOf[k] = n
  BY <1>2 DEF MyName
<1>4. orgs'[n].by = <<k, u>> /\ orgs'[n].id # NoId
  BY <1>1, <1>2, <1>3 DEF MyName, OrganizationAssumption
<1>5. Held(<<k, u>>)' /\ u <= Cached(k)'.uid
  BY <1>2, CopyHeld DEF Held, Latest, Cached
<1>6. CASE worker' = Idle
  <2>1. worker'.key # k /\ ~At("RemoveFinalizer")'
    BY <1>6, IdleFacts DEF At, ControllerAssumption
  <2> QED BY <1>3, <1>4, <1>5, <2>1 DEF OwnerOK
<1>7. CASE GoTo("CreatedStatus")
  <2>1. worker'.key = k /\ worker'.obj.uid = u /\ ~At("RemoveFinalizer")'
    BY <1>1, <1>2, <1>7 DEF GoTo, At, Workers
  <2> QED BY <1>3, <1>4, <1>5, <2>1 DEF OwnerOK
<1> QED BY <1>6, <1>7

\* Only FinalizeReadConfig and FindOrganizationByName lead to RemoveFinalizer.
LEMMA WayToRemoveFinalizer ==
    ASSUME TypeOK, Next
    PROVE  \/ FinalizeReadConfig
           \/ FindOrganizationByName
           \/ At("RemoveFinalizer")' => At("RemoveFinalizer")
<1>1. worker \in Workers(Calls)
  BY DEF TypeOK, ControllerTypeOK
<1>2. ASSUME NEW requeue, Finish(requeue)
      PROVE  ~At("RemoveFinalizer")'
  BY <1>2, IdleFacts DEF Finish, At
<1>3. ASSUME NEW obj, Save(obj)
      PROVE  ~At("RemoveFinalizer")'
  BY <1>2, <1>3 DEF Save, ReturnError, ReturnDone
<1>4. ASSUME NEW reason, NEW phase, SaveCondition(reason, phase)
      PROVE  ~At("RemoveFinalizer")'
  BY <1>2, <1>3, <1>4 DEF SaveCondition, SaveSameSecond, ReturnDone
<1>5. ASSUME NEW call \in {"DeletedStatus", "FindConfigOrganization", "CreateOrganization",
                           "CreatedStatus"}, GoTo(call)
      PROVE  ~At("RemoveFinalizer")'
  BY <1>1, <1>5 DEF GoTo, At, Workers
<1>6. ASSUME NEW k, Outdate(k) \/ UNCHANGED worker
      PROVE  At("RemoveFinalizer")' => At("RemoveFinalizer")
  BY <1>1, <1>6 DEF Outdate, At, Workers
<1>7. CASE FinalizeStatus \/ DeletedStatus \/ RemoveFinalizer \/ AddFinalizer
           \/ InitializeStatus \/ CreatedStatus
  BY <1>3, <1>4, <1>7 DEF FinalizeStatus, DeletedStatus, RemoveFinalizer, AddFinalizer,
     InitializeStatus, CreatedStatus, MarkTerminating, MarkDeleted, DropFinalizer,
     PutFinalizer, MarkInitialized, MarkCreated
<1>8. CASE DeleteOrganizationWithID
  BY <1>2, <1>5, <1>8 DEF DeleteOrganizationWithID, ReturnError
<1>9. CASE ReconcileReadConfig \/ FindConfigOrganization
  BY <1>2, <1>5, <1>9 DEF ReconcileReadConfig, FindConfigOrganization, ReturnError
<1>10. CASE CreateOrganization
  BY <1>2, <1>5, <1>10 DEF CreateOrganization, OrganizationConflict, ReturnError, RequeueAfter
<1>11. CASE Fail \/ Restart
  BY <1>2, <1>11, IdleFacts DEF Fail, CallFails, ReturnError, Restart, RestartController, At
<1>12. ASSUME NEW k \in Keys, Reconcile(k)
       PROVE  ~At("RemoveFinalizer")'
  <2>1. FirstCall(Cached(k)) # "RemoveFinalizer"
    BY DEF FirstCall
  <2> QED BY <1>12, <2>1, IdleFacts DEF Reconcile, Dispatch, At
<1>13. ASSUME NEW k \in Keys, Informer(k) \/ Create(k) \/ Delete(k) \/ Edit(k) \/ ChangeConfig(k)
       PROVE  At("RemoveFinalizer")' => At("RemoveFinalizer")
  BY <1>6, <1>13 DEF Informer, Deliver, Create, UserCreate, Delete, UserDelete, Edit, UserEdit,
     ChangeConfig
<1>14. ASSUME NEW n \in Names, Drift(n)
       PROVE  At("RemoveFinalizer")' => At("RemoveFinalizer")
  BY <1>6, <1>14 DEF Drift
<1> QED
  BY <1>7, <1>8, <1>9, <1>10, <1>11, <1>12, <1>13, <1>14 DEF Next, Work

LEMMA OwnersStep ==
    ASSUME ControllerAssumption, OrganizationAssumption, TypeOK, Inv, TypeOK', Progress, Next
    PROVE  \A n \in Names : OwnerOK(n)'
<1> DEFINE kept(n) == orgs'[n] = orgs[n] \/ orgs'[n].by = External
           entry == At("RemoveFinalizer")' => \/ At("RemoveFinalizer")
                                              \/ Me \in skipped'
                                              \/ orgs[MyName].id = NoId
           goal == \A n \in Names : OwnerOK(n)'
<1>1. /\ orgs \in [Names -> Org]
      /\ worker \in Workers(Calls)
  BY DEF TypeOK, ControllerTypeOK
<1>2. NoOrg.by = External
  BY DEF NoOrg
<1>3. entry
  <2>1. CASE FinalizeReadConfig
    BY <1>1, <2>1, IdleFacts DEF FinalizeReadConfig, At, GoTo, ReturnError, Finish, Workers
  <2>2. CASE FindOrganizationByName
    BY <1>1, <2>2 DEF FindOrganizationByName, At, GoTo, OrgExists, Workers
  <2> QED BY <2>1, <2>2, WayToRemoveFinalizer
<1>4. ASSUME skipped \subseteq skipped', \A n \in Names : kept(n)
      PROVE  goal
  BY <1>3, <1>4, OwnerKept
<1>5. CASE FinalizeReadConfig
  BY <1>4, <1>5 DEF FinalizeReadConfig
<1>6. CASE DeleteOrganizationWithID
  <2>1. MyName \in Names
    BY <1>6, MeType DEF DeleteOrganizationWithID, At, MyName, OrganizationAssumption
  <2>2. \A n \in Names : kept(n)
    BY <1>1, <1>2, <1>6, <2>1 DEF DeleteOrganizationWithID
  <2> QED BY <1>4, <1>6, <2>2 DEF DeleteOrganizationWithID
<1>7. CASE CreateOrganization
  <2>1. MyName \in Names /\ worker.pc \in ReconcileCalls /\ UNCHANGED <<versions, skipped>>
    BY <1>7, MeType DEF CreateOrganization, At, MyName, OrganizationAssumption, ReconcileCalls
  <2>2. CASE UNCHANGED orgs
    BY <1>4, <2>1, <2>2
  <2>3. ASSUME NEW id \in Ids, orgs' = [orgs EXCEPT ![MyName] = [id |-> id, by |-> Me]]
        PROVE  goal
    <3>1. \A n \in Names \ {MyName} : orgs'[n] = orgs[n]
      BY <1>1, <2>3
    <3>2. \A n \in Names \ {MyName} : OwnerOK(n)'
      BY <1>3, <2>1, <3>1, OwnerKept
    <3>3. worker' = Idle \/ GoTo("CreatedStatus")
      BY <1>7 DEF CreateOrganization, OrganizationConflict, ReturnError, RequeueAfter, Finish
    <3>4. \A n \in Names : n = MyName => OwnerOK(n)'
      BY <2>1, <2>3, <3>3, OwnerCreated
    <3> QED BY <3>2, <3>4
  <2> QED BY <1>7, <2>2, <2>3 DEF CreateOrganization, OrganizationConflict
<1>8. ASSUME NEW n \in Names, Drift(n)
      PROVE  goal
  <2>1. \A m \in Names : kept(m)
    BY <1>1, <1>2, <1>8 DEF Drift
  <2> QED BY <1>4, <1>8, <2>1 DEF Drift
<1>9. CASE UNCHANGED <<orgs, skipped>>
  BY <1>4, <1>9
<1> QED
  BY <1>5, <1>6, <1>7, <1>8, <1>9 DEF Next, Work, influxVars, FinalizeStatus, DeletedStatus,
     RemoveFinalizer, AddFinalizer, InitializeStatus, ReconcileReadConfig, FindOrganizationByName,
     FindConfigOrganization, CreatedStatus, Reconcile, Informer, Create, Delete, Edit, Fail,
     Restart, ChangeConfig

(***************************************************************************)
(* The inductive invariant.                                                  *)
(***************************************************************************)
Safe == TypeOK /\ Inv

LEMMA InitSafe ==
    ASSUME ControllerAssumption, OrganizationAssumption, Init
    PROVE  Safe /\ NoLostWakeup
<1>1. Good(FinalizeCalls, ReconcileCalls) /\ NoLostWakeup
  BY InitGood DEF Init
<1>2. TypeOK
  <2>1. NoOrg \in Org
    BY DEF NoOrg, Org
  <2> QED BY <1>1, <2>1, CallsSplit DEF Init, TypeOK, Good, Configs, Org, NoOrg
<1>3. \A n \in Names : OwnerOK(n)
  BY DEF Init, OwnerOK, NoOrg
<1> QED BY <1>1, <1>2, <1>3 DEF Safe, Inv, Good

LEMMA NextSafe ==
    ASSUME ControllerAssumption, OrganizationAssumption, Safe, Next
    PROVE  Safe'
<1>1. TypeOK /\ Inv
  BY DEF Safe
<1>2. StepOK(FinalizeCalls, ReconcileCalls)
  BY <1>1, NextIsStep
<1>3. TypeOK'
  BY <1>1, <1>2, InfluxTypes, CallsSplit DEF StepOK, Good, TypeOK
<1>4. \A n \in Names : OwnerOK(n)'
  BY <1>1, <1>2, <1>3, OwnersStep DEF StepOK
<1>5. HistoryOK' /\ CopyOK(FinalizeCalls, ReconcileCalls)'
  BY <1>2 DEF StepOK, Good
<1> QED BY <1>3, <1>4, <1>5 DEF Safe, Inv

\* What others do while the controller stands still: calls of theirs fail, and
\* organizations are taken away or pass to somebody else.
LEMMA OthersSafe ==
    ASSUME ControllerAssumption, OrganizationAssumption, Safe,
           UNCHANGED <<versions, queue, worker, config, target, lost, skipped>>,
           faults' \in 0 .. MaxFaults,
           orgs' \in [Names -> Org],
           \A n \in Names : orgs'[n] = orgs[n] \/ orgs'[n].by = External
    PROVE  Safe'
<1>1. TypeOK /\ Inv
  BY DEF Safe
<1>2. StepOK(FinalizeCalls, ReconcileCalls)
  BY <1>1, InvGood, StillStep
<1>3. TypeOK'
  BY <1>1, <1>2, CallsSplit DEF StepOK, Good, TypeOK
<1>4. \A n \in Names : OwnerOK(n)'
  BY <1>1, <1>2, <1>3, OwnerKept DEF StepOK, At
<1> QED BY <1>2, <1>3, <1>4 DEF Safe, Inv, StepOK, Good

\* Nothing that is stated here of a state depends on more than the variables.
LEMMA StutterSafe ==
    ASSUME UNCHANGED vars
    PROVE  /\ Safe <=> Safe'
           /\ NoLostWakeup <=> NoLostWakeup'
<1>1. UNCHANGED <<versions, queue, worker, faults, orgs, config, target, lost, skipped>>
  BY DEF vars, controllerVars, influxVars
<1>2. \A k : Latest(k)' = Latest(k) /\ Cached(k)' = Cached(k)
  BY <1>1 DEF Latest, Cached
<1>3. NoLostWakeup <=> NoLostWakeup'
  BY <1>1, <1>2 DEF NoLostWakeup
<1>4. TypeOK <=> TypeOK'
  BY <1>1 DEF TypeOK, ControllerTypeOK, At
<1>5. HistoryOK <=> HistoryOK'
  BY <1>1 DEF HistoryOK
<1>6. CopyOK(FinalizeCalls, ReconcileCalls) <=> CopyOK(FinalizeCalls, ReconcileCalls)'
  BY <1>1, <1>2 DEF CopyOK, At
<1>7. \A n \in Names : OwnerOK(n) <=> OwnerOK(n)'
  BY <1>1, <1>2 DEF OwnerOK, Held, At, Me
<1> QED BY <1>3, <1>4, <1>5, <1>6, <1>7 DEF Safe, Inv

\* The types of the controller and of the InfluxDB side, and the inductive invariant,
\* hold in every reachable state: for every set of resources, namespaces sharing names
\* or not, and every bound.
THEOREM InvariantHolds == Spec => [](TypeOK /\ Inv)
<1>1. Init => Safe
  BY ControllerAssumption, OrganizationAssumption, InitSafe
<1>2. Safe /\ [Next]_vars => Safe'
  BY ControllerAssumption, OrganizationAssumption, NextSafe, StutterSafe
<1>3. Safe <=> TypeOK /\ Inv
  BY DEF Safe
<1> QED BY <1>1, <1>2, <1>3, PTL DEF Spec

\* Every variable keeps its type, and the worker has a key exactly when it is busy.
THEOREM TypeCorrect == Spec => []TypeOK
BY InvariantHolds, PTL

\* An organization the operator created is left behind only by a resource that was
\* finalized without its Config: for any number of resources and of faults, and even
\* when resources of two namespaces share a name.
THEOREM NothingOrphaned == Spec => []NoOrphan
<1>1. TypeOK /\ Inv => NoOrphan
  BY DEF Inv, OwnerOK, NoOrphan
<1> QED BY <1>1, InvariantHolds, PTL

\* When no two resources share a name, FinalizeResources never stands before the
\* deletion of an organization that belongs to a resource that is alive.
THEOREM LiveSpared ==
    ASSUME \A j, k \in Keys : NameOf[j] = NameOf[k] => j = k
    PROVE  Spec => []SparesLive
<1>1. TypeOK /\ Inv => SparesLive
  <2> SUFFICES ASSUME TypeOK, Inv, At("DeleteOrganizationWithID"),
                      orgs[MyName].by # External
               PROVE  ~Alive(orgs[MyName].by)
    BY DEF SparesLive
  <2>1. /\ ~At("idle")
        /\ worker.key \in Keys
        /\ worker.obj.uid \in Nat
        /\ MyName \in Names
    BY ControllerAssumption, OrganizationAssumption, MeType
    DEF At, MyName, OrganizationAssumption
  <2>2. PICK k \in Keys, u \in Nat : orgs[MyName].by = <<k, u>>
    BY <2>1 DEF TypeOK, Org
  <2>3. NameOf[k] = MyName /\ (worker.key = k => u <= worker.obj.uid)
    <3>1. OwnerOK(MyName)
      BY <2>1 DEF Inv
    <3> QED BY <2>2, <3>1 DEF OwnerOK
  <2>4. k = worker.key
    BY <2>1, <2>3 DEF MyName
  <2>5. Latest(k) \in Object /\ Before(worker.obj, Latest(k))
    <3>1. VersionsType
      BY DEF TypeOK, ControllerTypeOK, VersionsType
    <3>2. \A i \in 1 .. Len(versions[k]) : Before(worker.obj, versions[k][i])
      BY <2>1, <2>4 DEF Inv, CopyOK
    <3> QED BY <3>1, <3>2, VersionFacts DEF Latest
  <2>6. worker.obj.deleting
    BY <2>1 DEF Inv, CopyOK, At, FinalizeCalls, Dying
  <2>7. CASE Latest(k).uid = u
    <3>1. worker.obj.uid = Latest(k).uid
      BY <2>1, <2>3, <2>4, <2>5, <2>7 DEF Before
    <3>2. Latest(k).deleting
      BY <2>5, <2>6, <3>1 DEF Before
    <3> QED BY <2>2, <3>2 DEF Alive, Live
  <2>8. CASE Latest(k).uid # u
    BY <2>2, <2>8 DEF Alive
  <2> QED BY <2>7, <2>8
<1> QED BY <1>1, InvariantHolds, PTL

\* status.phase never moves back, whatever copies the worker holds: optimistic
\* concurrency is enough to protect it.
THEOREM PhaseMovesForward == Spec => PhaseForward
<1> DEFINE step == \A k \in Keys :
                      Latest(k)'.uid = Latest(k).uid
                          => PhaseRank[Latest(k).phase] <= PhaseRank[Latest(k)'.phase]
<1>1. TypeOK /\ Inv /\ [Next]_vars => [step]_versions
  <2>1. ASSUME TypeOK, Inv, Next
        PROVE  step
    BY <2>1, ControllerAssumption, NextIsStep DEF StepOK, Progress, Forward
  <2>2. UNCHANGED vars => UNCHANGED versions
    BY DEF vars, controllerVars
  <2> QED BY <2>1, <2>2
<1> QED BY <1>1, InvariantHolds, PTL DEF Spec, PhaseForward

\* When every status update changes the object, the controller never forgets an
\* existing resource: every end of Reconcile without a requeue is followed by an event.
THEOREM WakeupKept ==
    ASSUME ~SameSecond
    PROVE  Spec => []NoLostWakeup
<1>1. Init => NoLostWakeup
  BY ControllerAssumption, OrganizationAssumption, InitSafe
<1>2. TypeOK /\ Inv /\ NoLostWakeup /\ [Next]_vars => NoLostWakeup'
  BY ControllerAssumption, OrganizationAssumption, NextIsStep, StutterSafe DEF StepOK
<1> QED BY <1>1, <1>2, InvariantHolds, PTL DEF Spec

(***************************************************************************)
(* The default organization.                                                 *)
(***************************************************************************)
\* No resource has its name, nor ever had, and the worker has none in hand.
DefaultUnused ==
    \A k \in Keys :
        NameOf[k] = defaultOrgName =>
            /\ worker.key # k
            /\ \A i \in 1 .. Len(versions[k]) : ~versions[k][i].exists

\* What the worker writes, it writes to the resource it has in hand.
LEMMA SaveElsewhere ==
    ASSUME VersionsType, NEW obj, Save(obj), NEW k \in Keys, worker.key # k
    PROVE  versions'[k] = versions[k] /\ worker' = Idle
BY DEF Save, Store, ReturnError, ReturnDone, Finish, VersionsType

\* The versions of an object whose name nobody may use.
LEMMA UnusedVersions ==
    ASSUME ControllerAssumption, OrganizationAssumption, TypeOK, DefaultUnused, Next,
           NEW k \in Keys, NameOf[k] = defaultOrgName
    PROVE  \A i \in 1 .. Len(versions'[k]) : ~versions'[k][i].exists
<1> DEFINE goal == \A i \in 1 .. Len(versions'[k]) : ~versions'[k][i].exists
<1>1. /\ VersionsType
      /\ Len(versions[k]) \in Nat \ {0}
      /\ \A i \in 1 .. Len(versions[k]) : ~versions[k][i].exists
      /\ ~Latest(k).exists
      /\ worker.key # k
  BY VersionFacts DEF TypeOK, ControllerTypeOK, VersionsType, DefaultUnused, Latest
<1>2. ASSUME versions'[k] = versions[k]
      PROVE  goal
  BY <1>1, <1>2
<1>3. ASSUME NEW obj, Save(obj)
      PROVE  goal
  BY <1>1, <1>2, <1>3, SaveElsewhere
<1>4. ASSUME NEW reason, NEW phase, SaveCondition(reason, phase)
      PROVE  goal
  BY <1>2, <1>3, <1>4 DEF SaveCondition, SaveSameSecond
<1>5. CASE FinalizeStatus \/ DeletedStatus \/ RemoveFinalizer \/ AddFinalizer
           \/ InitializeStatus \/ CreatedStatus
  BY <1>3, <1>4, <1>5 DEF FinalizeStatus, DeletedStatus, RemoveFinalizer, AddFinalizer,
     InitializeStatus, CreatedStatus, MarkTerminating, MarkDeleted, DropFinalizer,
     PutFinalizer, MarkInitialized, MarkCreated
<1>6. CASE Restart
  BY <1>1, <1>6 DEF Restart, RestartController
<1>7. ASSUME NEW j \in Keys, Informer(j)
      PROVE  goal
  <2>1. CASE j # k
    BY <1>1, <1>2, <1>7, <2>1, DeliverFacts DEF Informer
  <2>2. CASE j = k
    <3>1. \A i \in 1 .. Len(versions'[k]) : versions'[k][i] = versions[k][i + 1]
                                             /\ i + 1 \in 1 .. Len(versions[k])
      BY <1>1, <1>7, <2>2, DeliverFacts DEF Informer
    <3> QED BY <1>1, <3>1
  <2> QED BY <2>1, <2>2
<1>8. ASSUME NEW j \in Keys, Create(j) \/ Delete(j) \/ Edit(j)
      PROVE  goal
  <2>1. j # k
    BY <1>1, <1>8 DEF Create, ValidateCreate, Delete, UserDelete, Edit, UserEdit
  <2>2. versions'[k] = versions[k]
    BY <1>1, <1>8, <2>1 DEF Create, UserCreate, Delete, UserDelete, Edit, UserEdit, Store,
       VersionsType
  <2> QED BY <1>2, <2>2
<1>9. CASE UNCHANGED versions
  BY <1>2, <1>9
<1> QED
  BY <1>5, <1>6, <1>7, <1>8, <1>9 DEF Next, Work, FinalizeReadConfig, FindOrganizationByName,
     DeleteOrganizationWithID, ReconcileReadConfig, FindConfigOrganization, CreateOrganization,
     Fail, CallFails, Reconcile, Dispatch, ChangeConfig, Drift

LEMMA UnusedStep ==
    ASSUME ControllerAssumption, OrganizationAssumption, TypeOK, Inv, DefaultUnused, Next
    PROVE  DefaultUnused'
<1> SUFFICES ASSUME NEW k \in Keys, NameOf[k] = defaultOrgName
             PROVE  worker'.key # k
  BY UnusedVersions DEF DefaultUnused, defaultOrgName
<1>1. worker.key # k
  BY DEF DefaultUnused
<1>2. CASE worker' = Idle
  BY <1>2, IdleFacts DEF ControllerAssumption
<1>3. CASE worker'.key = worker.key
  BY <1>1, <1>3
<1>4. CASE worker'.key # worker.key /\ worker' # Idle
  <2>1. PICK j \in Keys : Dispatch(j)
    <3>1. ASSUME NEW call, GoTo(call)
          PROVE  worker'.key = worker.key
      BY <3>1 DEF GoTo, TypeOK, ControllerTypeOK, Workers
    <3>2. ASSUME NEW requeue, Finish(requeue)
          PROVE  worker' = Idle
      BY <3>2 DEF Finish
    <3>3. ASSUME NEW obj, Save(obj)
          PROVE  worker' = Idle
      BY <3>3 DEF Save, Finish, ReturnError, ReturnDone
    <3>4. ASSUME NEW reason, NEW phase, SaveCondition(reason, phase)
          PROVE  worker' = Idle
      BY <3>3, <3>4 DEF SaveCondition, SaveSameSecond, ReturnDone, Finish
    <3>5. ASSUME NEW j, Outdate(j)
          PROVE  worker'.key = worker.key
      BY <3>5 DEF Outdate, TypeOK, ControllerTypeOK, Workers
    <3>6. ~Work
      BY <1>4, <3>1, <3>2, <3>3, <3>4 DEF Work, FinalizeStatus, DeletedStatus, RemoveFinalizer,
         AddFinalizer, InitializeStatus, CreatedStatus, MarkTerminating, MarkDeleted,
         DropFinalizer, PutFinalizer, MarkInitialized, MarkCreated, FinalizeReadConfig,
         FindOrganizationByName, DeleteOrganizationWithID, ReconcileReadConfig,
         FindConfigOrganization, CreateOrganization, OrganizationConflict, ReturnError,
         RequeueAfter
    <3> QED
      BY <1>4, <3>2, <3>5, <3>6 DEF Next, Fail, CallFails, ReturnError, Restart,
         RestartController, Reconcile, Informer, Deliver, Create, UserCreate, Delete, UserDelete,
         Edit, UserEdit, ChangeConfig, Drift
  <2>2. FirstCall(Cached(j)) # "idle" /\ worker'.key = j
    BY <1>4, <2>1 DEF Dispatch
  <2>3. Cached(j).exists
    BY <2>2 DEF FirstCall, Dying, Live
  <2>4. j # k
    <3>1. Len(versions[k]) \in Nat \ {0}
      BY VersionFacts DEF TypeOK, ControllerTypeOK, VersionsType
    <3> QED BY <2>3, <3>1 DEF DefaultUnused, Cached
  <2> QED BY <2>2, <2>4
<1> QED BY <1>2, <1>3, <1>4

\* The operator never creates, replaces or deletes the default organization: whatever
\* happens to it is the doing of somebody else.
THEOREM DefaultSpared == Spec => DefaultOrgSpared
<1> DEFINE spared == \A n \in Names \cap {defaultOrgName} : UNCHANGED orgs[n] \/ Drift(n)
<1>1. Init => DefaultUnused
  BY ControllerAssumption, IdleFacts
  DEF Init, ControllerInit, DefaultUnused, NoObject, Gone
<1>2. TypeOK /\ Inv /\ DefaultUnused /\ [Next]_vars => DefaultUnused'
  <2>1. UNCHANGED vars /\ DefaultUnused => DefaultUnused'
    BY DEF vars, controllerVars, DefaultUnused
  <2> QED BY <2>1, ControllerAssumption, OrganizationAssumption, UnusedStep
<1>3. TypeOK /\ Inv /\ DefaultUnused /\ [Next]_vars => [spared]_vars
  <2> SUFFICES ASSUME TypeOK, DefaultUnused, Next
               PROVE  spared
    OBVIOUS
  <2>1. CASE DeleteOrganizationWithID \/ CreateOrganization
    <3>1. worker.key \in Keys /\ MyName # defaultOrgName
      BY <2>1, ControllerAssumption, MeType DEF DeleteOrganizationWithID, CreateOrganization, At,
         MyName, DefaultUnused
    <3>2. orgs \in [Names -> Org]
      BY DEF TypeOK
    <3>3. \A n \in Names \cap {defaultOrgName} : orgs'[n] = orgs[n]
      BY <2>1, <3>1, <3>2 DEF DeleteOrganizationWithID, CreateOrganization, OrganizationConflict
    <3> QED BY <3>3
  <2>2. ASSUME NEW n \in Names, Drift(n)
        PROVE  spared
    <3>1. CASE n = defaultOrgName
      BY <2>2, <3>1
    <3>2. CASE n # defaultOrgName
      BY <2>2, <3>2 DEF Drift, TypeOK
    <3> QED BY <3>1, <3>2
  <2>3. CASE UNCHANGED orgs
    BY <2>3
  <2> QED
    BY <2>1, <2>2, <2>3 DEF Next, Work, influxVars, FinalizeStatus, DeletedStatus,
       RemoveFinalizer, AddFinalizer, InitializeStatus, ReconcileReadConfig,
       FindOrganizationByName, FindConfigOrganization, CreatedStatus, FinalizeReadConfig,
       Reconcile, Informer, Create, Delete, Edit, Fail, Restart, ChangeConfig
<1> QED BY <1>1, <1>2, <1>3, InvariantHolds, PTL DEF Spec, DefaultOrgSpared

(***************************************************************************)
(* What "ready" says.                                                        *)
(***************************************************************************)
OrgSeen(n) == OrgExists(n) \/ n \in lost

\* The worker deletes an organization only from a copy that says "terminating", and of
\* a resource that is ready there is no such copy: not in its hands, nor where it might
\* take one.
ReadyOK ==
    /\ worker.pc \in FinalizeCalls => worker.obj.phase = phaseTerminating
    /\ At("CreatedStatus") => OrgSeen(MyName)
    /\ \A k \in Keys :
          Ready(k) => /\ OrgSeen(NameOf[k])
                      /\ Clear(k)
                      /\ worker.key = k => worker.obj.phase # phaseTerminating

\* Every step writes what a step of Controller writes.
LEMMA NextWrites ==
    ASSUME ControllerAssumption, TypeOK, Inv, Next
    PROVE  Writes
<1>1. Good(FinalizeCalls, ReconcileCalls) /\ Classes(FinalizeCalls, ReconcileCalls) /\ VersionsType
  BY InvGood, CallsSplit DEF TypeOK, ControllerTypeOK, VersionsType
<1>2. CASE FinalizeStatus \/ DeletedStatus \/ RemoveFinalizer \/ AddFinalizer
           \/ InitializeStatus \/ CreatedStatus
  BY <1>1, <1>2, HandlerWrites DEF FinalizeStatus, DeletedStatus, RemoveFinalizer, AddFinalizer,
     InitializeStatus, CreatedStatus
<1>3. ASSUME NEW k \in Keys, Create(k) \/ Delete(k) \/ Edit(k)
      PROVE  Writes
  BY <1>1, <1>3, UserWrites DEF Create, Delete, Edit
<1>4. CASE Restart \/ \E k \in Keys : Informer(k)
  BY <1>4 DEF Restart, Informer, Writes
<1>5. CASE UNCHANGED versions
  BY <1>5 DEF Writes
<1> QED
  BY <1>2, <1>3, <1>4, <1>5
  DEF Next, Work, FinalizeReadConfig, FindOrganizationByName, DeleteOrganizationWithID,
      ReconcileReadConfig, FindConfigOrganization, CreateOrganization, Fail, CallFails, Reconcile,
      Dispatch, ChangeConfig, Drift

\* What the worker does with its copy: it lets it go, goes on with it, or takes one.
LEMMA WorkerMoves ==
    ASSUME ControllerAssumption, TypeOK, Next
    PROVE  \/ worker' = Idle
           \/ /\ worker'.key = worker.key
              /\ worker'.obj = worker.obj
              /\ worker'.pc \in FinalizeCalls => worker.pc \in FinalizeCalls
              /\ worker'.pc = "CreatedStatus" => At("CreatedStatus") \/ CreateOrganization
           \/ \E j \in Keys : /\ worker'.key = j
                              /\ worker'.obj = Cached(j)
                              /\ worker'.pc = FirstCall(Cached(j))
<1> DEFINE on == /\ worker'.key = worker.key
                 /\ worker'.obj = worker.obj
                 /\ worker'.pc \in FinalizeCalls => worker.pc \in FinalizeCalls
                 /\ worker'.pc = "CreatedStatus" => At("CreatedStatus") \/ CreateOrganization
           goal == worker' = Idle \/ on
<1>1. worker \in Workers(Calls)
  BY DEF TypeOK, ControllerTypeOK
<1>2. ASSUME NEW call \in FinalizeCalls, GoTo(call), worker.pc \in FinalizeCalls
      PROVE  on
  BY <1>1, <1>2 DEF GoTo, Workers, FinalizeCalls
<1>3. ASSUME NEW call \in ReconcileCalls, GoTo(call),
             call = "CreatedStatus" => CreateOrganization
      PROVE  on
  BY <1>1, <1>3 DEF GoTo, Workers, FinalizeCalls, ReconcileCalls
<1>4. ASSUME NEW requeue, Finish(requeue)
      PROVE  worker' = Idle
  BY <1>4 DEF Finish
<1>5. ASSUME ReturnError \/ ReturnDone \/ RequeueAfter
      PROVE  worker' = Idle
  BY <1>4, <1>5 DEF ReturnError, ReturnDone, RequeueAfter
<1>6. ASSUME NEW obj, Save(obj)
      PROVE  worker' = Idle
  BY <1>5, <1>6 DEF Save
<1>7. ASSUME NEW reason, NEW phase, SaveCondition(reason, phase)
      PROVE  worker' = Idle
  BY <1>5, <1>6, <1>7 DEF SaveCondition, SaveSameSecond
<1>8. ASSUME NEW j, Outdate(j)
      PROVE  on
  BY <1>1, <1>8 DEF Outdate, Workers, At
<1>9. CASE FinalizeStatus \/ DeletedStatus \/ RemoveFinalizer \/ AddFinalizer
           \/ InitializeStatus \/ CreatedStatus
  BY <1>6, <1>7, <1>9 DEF FinalizeStatus, DeletedStatus, RemoveFinalizer, AddFinalizer,
     InitializeStatus, CreatedStatus, MarkTerminating, MarkDeleted, DropFinalizer,
     PutFinalizer, MarkInitialized, MarkCreated
<1>10. CASE FinalizeReadConfig \/ FindOrganizationByName \/ DeleteOrganizationWithID
  <2>1. worker.pc \in FinalizeCalls
    BY <1>10 DEF FinalizeReadConfig, FindOrganizationByName, DeleteOrganizationWithID, At,
       FinalizeCalls
  <2>2. \/ ReturnError
        \/ \E call \in {"RemoveFinalizer", "FindOrganizationByName", "DeleteOrganizationWithID",
                        "DeletedStatus"} : GoTo(call)
    BY <1>10 DEF FinalizeReadConfig, FindOrganizationByName, DeleteOrganizationWithID
  <2> QED BY <1>2, <1>5, <2>1, <2>2 DEF FinalizeCalls
<1>11. CASE ReconcileReadConfig \/ FindConfigOrganization \/ CreateOrganization
  <2>1. \/ ReturnError \/ RequeueAfter
        \/ GoTo("FindConfigOrganization") \/ GoTo("CreateOrganization")
        \/ GoTo("CreatedStatus") /\ CreateOrganization
    BY <1>11 DEF ReconcileReadConfig, FindConfigOrganization, CreateOrganization,
       OrganizationConflict
  <2> QED BY <1>3, <1>5, <2>1 DEF ReconcileCalls
<1>12. CASE Fail \/ Restart
  BY <1>5, <1>12 DEF Fail, CallFails, Restart, RestartController
<1>13. ASSUME NEW j \in Keys, Reconcile(j), worker' # Idle
       PROVE  worker'.key = j /\ worker'.obj = Cached(j) /\ worker'.pc = FirstCall(Cached(j))
  BY <1>13 DEF Reconcile, Dispatch
<1>14. ASSUME UNCHANGED worker
       PROVE  on
  BY <1>14 DEF At
<1>15. ASSUME NEW j \in Keys, Informer(j) \/ Create(j) \/ Delete(j) \/ Edit(j) \/ ChangeConfig(j)
       PROVE  on
  BY <1>8, <1>14, <1>15 DEF Informer, Deliver, Create, UserCreate, Delete, UserDelete, Edit,
     UserEdit, ChangeConfig
<1>16. ASSUME NEW n \in Names, Drift(n)
       PROVE  on
  BY <1>14, <1>16 DEF Drift
<1> QED
  BY <1>9, <1>10, <1>11, <1>12, <1>13, <1>15, <1>16 DEF Next, Work

\* An organization goes because somebody else deletes it, or by DeleteOrganizationWithID.
LEMMA SeenStep ==
    ASSUME ControllerAssumption, OrganizationAssumption, TypeOK, Next, NEW n \in Names, OrgSeen(n)
    PROVE  OrgSeen(n)' \/ (DeleteOrganizationWithID /\ n = MyName)
<1>1. orgs \in [Names -> Org]
  BY DEF TypeOK
<1>2. CASE DeleteOrganizationWithID /\ n # MyName
  <2>1. orgs'[n] = orgs[n] /\ UNCHANGED lost
    BY <1>1, <1>2 DEF DeleteOrganizationWithID
  <2> QED BY <2>1 DEF OrgSeen, OrgExists
<1>3. CASE UNCHANGED <<orgs, lost>>
  BY <1>3 DEF OrgSeen, OrgExists
<1>4. ASSUME NEW m \in Names, NEW id \in Ids, NEW by,
             orgs' = [orgs EXCEPT ![m] = [id |-> id, by |-> by]], lost' = lost \ {m}
      PROVE  OrgSeen(n)'
  <2>1. CASE n = m
    <3>1. orgs'[n].id = id /\ id # NoId
      BY <1>1, <1>4, <2>1 DEF OrganizationAssumption
    <3> QED BY <3>1 DEF OrgSeen, OrgExists
  <2>2. CASE n # m
    <3>1. orgs'[n] = orgs[n]
      BY <1>1, <1>4, <2>2
    <3> QED BY <1>4, <2>2, <3>1 DEF OrgSeen, OrgExists
  <2> QED BY <2>1, <2>2
<1>5. CASE CreateOrganization
  <2>1. MyName \in Names
    BY <1>5, MeType DEF CreateOrganization, At, MyName, OrganizationAssumption
  <2> QED BY <1>3, <1>4, <1>5, <2>1 DEF CreateOrganization, OrganizationConflict
<1>6. ASSUME NEW m \in Names, Drift(m)
      PROVE  OrgSeen(n)'
  <2>1. CASE orgs' = [orgs EXCEPT ![m] = NoOrg] /\ lost' = lost \cup {m}
    <3>1. n # m => orgs'[n] = orgs[n]
      BY <1>1, <2>1
    <3> QED BY <2>1, <3>1 DEF OrgSeen, OrgExists
  <2> QED BY <1>4, <1>6, <2>1 DEF Drift
<1> QED
  BY <1>2, <1>3, <1>5, <1>6 DEF Next, Work, influxVars, FinalizeStatus, DeletedStatus,
     RemoveFinalizer, AddFinalizer, InitializeStatus, ReconcileReadConfig, FindOrganizationByName,
     FindConfigOrganization, CreatedStatus, FinalizeReadConfig, Reconcile, Informer, Create,
     Delete, Edit, Fail, Restart, ChangeConfig

\* Every step keeps ReadyOK: the deletion of an organization because the copy it acts on
\* says "terminating".
LEMMA ReadyStep ==
    ASSUME ControllerAssumption, OrganizationAssumption, TypeOK, Inv, ReadyOK, Next,
           \A j, k \in Keys : NameOf[j] = NameOf[k] => j = k
    PROVE  ReadyOK'
<1>1. /\ worker \in Workers(Calls)
      /\ \A k \in Keys : NameOf[k] \in Names
      /\ VersionsType
  BY DEF TypeOK, ControllerTypeOK, OrganizationAssumption, VersionsType
<1>2. worker'.pc \in FinalizeCalls => worker'.obj.phase = phaseTerminating
  <2>1. ASSUME NEW j \in Keys, FirstCall(Cached(j)) \in FinalizeCalls
        PROVE  Cached(j).phase = phaseTerminating
    BY <2>1 DEF FirstCall, FinalizeCalls
  <2>2. Idle.pc \notin FinalizeCalls
    BY IdleFacts DEF FinalizeCalls
  <2> QED BY <2>1, <2>2, WorkerMoves DEF ReadyOK
<1>3. At("CreatedStatus")' => OrgSeen(MyName)'
  <2> SUFFICES ASSUME worker'.pc = "CreatedStatus"
               PROVE  OrgSeen(MyName)'
    BY DEF At
  <2>1. ASSUME NEW j \in Keys
        PROVE  FirstCall(Cached(j)) # "CreatedStatus"
    BY DEF FirstCall
  <2>2. worker'.key = worker.key /\ (At("CreatedStatus") \/ CreateOrganization)
    BY <2>1, WorkerMoves, IdleFacts
  <2>3. worker.key \in Keys /\ MyName \in Names
    BY <1>1, <2>2, MeType DEF CreateOrganization, At, MyName
  <2>4. ~DeleteOrganizationWithID
    BY <2>2 DEF DeleteOrganizationWithID, CreateOrganization, At
  <2>5. CASE OrgSeen(MyName)
    BY <2>2, <2>3, <2>4, <2>5, SeenStep DEF OrgSeen, OrgExists, MyName
  <2>6. ASSUME CreateOrganization, ~OrgExists(MyName)
        PROVE  OrgSeen(MyName)'
    <3>1. PICK id \in Ids : orgs' = [orgs EXCEPT ![MyName] = [id |-> id, by |-> Me]]
      BY <2>6 DEF CreateOrganization, OrganizationConflict
    <3>2. orgs'[MyName].id = id /\ id # NoId
      BY <2>3, <3>1 DEF TypeOK, OrganizationAssumption
    <3> QED BY <2>2, <3>2 DEF OrgSeen, OrgExists, MyName
  <2> QED BY <2>2, <2>5, <2>6 DEF ReadyOK, OrgSeen
<1>4. ASSUME NEW k \in Keys, Ready(k)'
      PROVE  /\ OrgSeen(NameOf[k])'
             /\ Clear(k)'
             /\ worker'.key = k => worker'.obj.phase # phaseTerminating
  <2>1. Clear(k) /\ Clear(k)' /\ (Ready(k) \/ (At("CreatedStatus") /\ worker.key = k))
    BY <1>4, InvGood, CallsSplit, NextWrites, ReadyVersions DEF ReadyOK, At, FinalizeCalls
  <2>2. OrgSeen(NameOf[k]) /\ (worker.key = k => worker.obj.phase # phaseTerminating)
    <3>1. CASE Ready(k)
      BY <3>1 DEF ReadyOK
    <3>2. CASE At("CreatedStatus") /\ worker.key = k
      <4>1. Live(worker.obj) /\ WellFormed(worker.obj)
        BY <3>2 DEF Inv, CopyOK, At, ReconcileCalls
      <4> QED BY <3>2, <4>1 DEF ReadyOK, MyName, Live, WellFormed
    <3> QED BY <2>1, <3>1, <3>2
  <2>3. ~(DeleteOrganizationWithID /\ NameOf[k] = MyName)
    <3> SUFFICES ASSUME DeleteOrganizationWithID, NameOf[k] = MyName
                 PROVE  FALSE
      OBVIOUS
    <3>1. worker.key \in Keys /\ worker.pc \in FinalizeCalls
      BY MeType DEF DeleteOrganizationWithID, At, FinalizeCalls
    <3>2. worker.key = k
      BY <3>1 DEF MyName
    <3> QED BY <2>2, <3>1, <3>2 DEF ReadyOK
  <2>4. OrgSeen(NameOf[k])'
    BY <1>1, <2>2, <2>3, SeenStep
  <2>5. Cached(k).phase # phaseTerminating
    <3>1. Len(versions[k]) \in Nat \ {0}
      BY <1>1, VersionFacts
    <3> QED BY <2>1, <3>1 DEF Clear, Cached
  <2>6. worker'.key = k => worker'.obj.phase # phaseTerminating
    BY <2>2, <2>5, WorkerMoves, IdleFacts DEF ControllerAssumption
  <2> QED BY <2>1, <2>4, <2>6
<1> QED BY <1>2, <1>3, <1>4 DEF ReadyOK

\* When no two resources share a name, a resource that says "ready" has its organization,
\* unless somebody other than the operator has deleted it since: the worker never deletes
\* from an old copy what a newer version of the resource relies on.
THEOREM ReadyIsTrue ==
    ASSUME \A j, k \in Keys : NameOf[j] = NameOf[k] => j = k
    PROVE  Spec => []ReadyHasOrg
<1>1. Init => ReadyOK
  BY IdleFacts DEF Init, ControllerInit, ReadyOK, Ready, Latest, NoObject, Gone, At, FinalizeCalls
<1>2. TypeOK /\ Inv /\ ReadyOK /\ [Next]_vars => ReadyOK'
  <2>1. ASSUME UNCHANGED vars, ReadyOK
        PROVE  ReadyOK'
    <3>1. UNCHANGED <<versions, worker, orgs, lost>>
      BY <2>1 DEF vars, controllerVars, influxVars
    <3>2. \A k \in Keys : (Ready(k)' <=> Ready(k)) /\ (Clear(k)' <=> Clear(k))
      BY <3>1 DEF Ready, Clear, Latest
    <3>3. \A n : OrgSeen(n)' <=> OrgSeen(n)
      BY <3>1 DEF OrgSeen, OrgExists
    <3> QED BY <2>1, <3>1, <3>2, <3>3 DEF ReadyOK, At, MyName
  <2> QED BY <2>1, ControllerAssumption, OrganizationAssumption, ReadyStep
<1>3. ReadyOK => ReadyHasOrg
  BY DEF ReadyOK, ReadyHasOrg, Ready, OrgSeen
<1> QED BY <1>1, <1>2, <1>3, InvariantHolds, PTL DEF Spec

(***************************************************************************)
(* Refinement: OrganizationReconciler implements Lifecycle, each step of it      *)
(* being a step of Lifecycle or nothing at all there.                            *)
(***************************************************************************)
\* The sets of Lifecycle that do not come from Controller.
Provided == {orgs[n].by : n \in Names} \ {External}

\* Everything that was created was created for a resource of the run.
OwnersInRange == Provided \subseteq Resources

Mapped == Safe /\ UidsOK /\ OwnersInRange

LEMMA MappedFacts ==
    ASSUME Mapped
    PROVE  /\ TypeOK /\ Inv
           /\ Good(FinalizeCalls, ReconcileCalls)
           /\ Classes(FinalizeCalls, ReconcileCalls)
           /\ VersionsType /\ VersionsInRange /\ InRange(worker.obj)
           /\ Provided \subseteq Resources
BY InvGood, CallsSplit DEF Mapped, Safe, UidsOK, OwnersInRange, TypeOK, ControllerTypeOK,
   VersionsType

\* The worker's resource, whenever it is there, is one of the run.
LEMMA MeInRange ==
    ASSUME ControllerAssumption, Mapped, ~At("idle"), worker.obj.exists
    PROVE  Me \in Resources
<1>1. worker.key \in Keys /\ worker.obj.uid \in Nat /\ Me = <<worker.key, worker.obj.uid>>
  BY MappedFacts, MeType DEF Me
<1>2. worker.obj.uid >= 1 /\ worker.obj.uid <= MaxUid
  BY MappedFacts DEF InRange
<1> QED BY <1>1, <1>2 DEF Resources, ControllerAssumption

(***************************************************************************)
(* Steps that leave the server alone.                                        *)
(***************************************************************************)
AtServer == <<orgs, skipped>>

LifeStep == Life!Next \/ UNCHANGED Life!vars

LEMMA SteadyStep ==
    ASSUME Steady, UNCHANGED AtServer
    PROVE  LifeStep
BY DEF Steady, AtServer, LifeStep, Life!vars

LEMMA GuardStep ==
    ASSUME NEW me, Guarded(me), UNCHANGED AtServer
    PROVE  LifeStep
<1>1. Life!Guard(me)
  BY DEF Guarded, Free, AtServer, Life!Guard
<1> QED BY <1>1 DEF Guarded, Free, LifeStep, Life!Next

LEMMA DiscardStep ==
    ASSUME NEW me, Discarded(me), UNCHANGED AtServer
    PROVE  LifeStep
<1>1. Life!Discard(me)
  BY DEF Discarded, Free, AtServer, Life!Discard
<1> QED BY <1>1 DEF Discarded, Free, LifeStep, Life!Next

LEMMA ReleaseStep ==
    ASSUME NEW me, Released(me), me \in Provided => me \in skipped, UNCHANGED AtServer
    PROVE  LifeStep
<1>1. Life!Release(me)
  BY DEF Released, AtServer, Provided, Life!Release
<1> QED BY <1>1 DEF Released, LifeStep, Life!Next

(***************************************************************************)
(* Steps at the server.                                                      *)
(***************************************************************************)
LEMMA WithdrawStep ==
    ASSUME Steady, UNCHANGED skipped, Provided \subseteq Resources, Provided' \subseteq Provided
    PROVE  LifeStep
<1>1. PICK gone \in SUBSET Resources : Provided' = Provided \ gone
  OBVIOUS
<1>2. Life!Withdraw(gone)
  BY <1>1 DEF Steady, Provided, Life!Withdraw
<1> QED BY <1>2 DEF LifeStep, Life!Next

LEMMA ExcuseStep ==
    ASSUME Steady, UNCHANGED orgs, NEW me \in Resources, skipped' = skipped \cup {me}
    PROVE  LifeStep
<1>1. Life!Excuse({me})
  BY DEF Steady, Life!Excuse
<1>2. {me} \in SUBSET Resources
  OBVIOUS
<1> QED BY <1>1, <1>2 DEF LifeStep, Life!Next

LEMMA ProvideStep ==
    ASSUME Steady, UNCHANGED skipped, NEW me \in Resources, me \in HeldResources,
           Provided' = Provided \cup {me}
    PROVE  LifeStep
<1>1. Life!Provide(me)
  BY DEF Steady, Provided, Life!Provide
<1> QED BY <1>1 DEF LifeStep, Life!Next

\* An organization that is not there was created by nobody.
LEMMA NobodysOwn ==
    ASSUME Mapped, NEW n \in Names, ~OrgExists(n)
    PROVE  orgs[n].by = External
BY MappedFacts DEF Inv, OwnerOK, OrgExists

LEMMA ReadConfigStep ==
    ASSUME ControllerAssumption, Mapped, FinalizeReadConfig
    PROVE  LifeStep /\ VersionsInRange' /\ OwnersInRange'
<1>1. VersionsInRange' /\ Steady /\ OwnersInRange'
  BY MappedFacts, UnwrittenHold DEF FinalizeReadConfig, OwnersInRange, Provided, Resources
<1>2. CASE UNCHANGED skipped
  BY <1>1, <1>2, SteadyStep DEF FinalizeReadConfig, AtServer
<1>3. CASE skipped' = skipped \cup {Me}
  <2>1. ~At("idle") /\ worker.obj.exists
    BY MappedFacts DEF FinalizeReadConfig, At, Good, CopyOK, FinalizeCalls, Dying
  <2> QED BY <1>1, <1>3, <2>1, MeInRange, ExcuseStep DEF FinalizeReadConfig
<1> QED BY <1>1, <1>2, <1>3 DEF FinalizeReadConfig

LEMMA DeleteStep ==
    ASSUME ControllerAssumption, OrganizationAssumption, Mapped, DeleteOrganizationWithID
    PROVE  LifeStep /\ VersionsInRange' /\ OwnersInRange'
<1>1. VersionsInRange' /\ Steady
  BY MappedFacts, UnwrittenHold DEF DeleteOrganizationWithID
<1>2. orgs' = orgs \/ orgs' = [orgs EXCEPT ![MyName] = NoOrg]
  BY DEF DeleteOrganizationWithID
<1>3. \A n \in Names : orgs'[n] = orgs[n] \/ orgs'[n].by = External
  BY <1>2, MappedFacts DEF TypeOK, NoOrg
<1>4. Provided' \subseteq Provided
  BY <1>3 DEF Provided
<1>5. OwnersInRange'
  BY <1>4, MappedFacts DEF OwnersInRange, Resources
<1> QED BY <1>1, <1>4, <1>5, MappedFacts, WithdrawStep DEF DeleteOrganizationWithID

LEMMA DriftStep ==
    ASSUME ControllerAssumption, OrganizationAssumption, Mapped, NEW n \in Names, Drift(n)
    PROVE  LifeStep /\ VersionsInRange' /\ OwnersInRange'
<1>1. VersionsInRange' /\ Steady
  BY MappedFacts, UnwrittenHold DEF Drift
<1>2. orgs' = [orgs EXCEPT ![n] = NoOrg]
      \/ \E id \in Ids : orgs' = [orgs EXCEPT ![n] = [id |-> id, by |-> External]]
  BY DEF Drift
<1>3. \A m \in Names : orgs'[m] = orgs[m] \/ orgs'[m].by = External
  BY <1>2, MappedFacts DEF TypeOK, NoOrg
<1>4. Provided' \subseteq Provided
  BY <1>3 DEF Provided
<1>5. OwnersInRange'
  BY <1>4, MappedFacts DEF OwnersInRange, Resources
<1> QED BY <1>1, <1>4, <1>5, MappedFacts, WithdrawStep DEF Drift

LEMMA CreateStep ==
    ASSUME ControllerAssumption, OrganizationAssumption, Mapped, CreateOrganization
    PROVE  LifeStep /\ VersionsInRange' /\ OwnersInRange'
<1>1. VersionsInRange' /\ Steady
  BY MappedFacts, UnwrittenHold DEF CreateOrganization
<1>2. CASE UNCHANGED orgs
  <2>1. OwnersInRange'
    BY <1>2, MappedFacts DEF OwnersInRange, Provided, Resources
  <2> QED BY <1>1, <1>2, <2>1, SteadyStep DEF CreateOrganization, AtServer
<1>3. CASE ~OrgExists(MyName) /\ \E id \in Ids :
                orgs' = [orgs EXCEPT ![MyName] = [id |-> id, by |-> Me]]
  <2>1. worker.pc \in ReconcileCalls /\ ~At("idle")
    BY DEF CreateOrganization, At, ReconcileCalls
  <2>2. Held(Me) /\ worker.obj.exists
    BY <2>1, MappedFacts, CopyHeld DEF Good, CopyOK, Live
  <2>3. Me \in Resources /\ Me \in HeldResources
    BY <2>1, <2>2, MeInRange DEF HeldResources
  <2>4. MyName \in Names /\ Me \in Keys \X Nat
    BY <2>1, MappedFacts, MeType DEF MyName, OrganizationAssumption
  <2>5. Me # External
    BY <2>4 DEF ControllerAssumption
  <2>6. orgs'[MyName].by = Me /\ \A n \in Names \ {MyName} : orgs'[n].by = orgs[n].by
    BY <1>3, <2>4, MappedFacts DEF TypeOK
  <2>7. orgs[MyName].by = External
    BY <1>3, <2>4, NobodysOwn
  <2>8. Provided' = Provided \cup {Me}
    BY <2>4, <2>5, <2>6, <2>7 DEF Provided
  <2>9. OwnersInRange'
    BY <2>3, <2>8, MappedFacts DEF OwnersInRange, Resources
  <2> QED BY <1>1, <2>3, <2>8, <2>9, ProvideStep DEF CreateOrganization
<1> QED BY <1>2, <1>3 DEF CreateOrganization, OrganizationConflict

(***************************************************************************)
(* All steps, and the theorem.                                               *)
(***************************************************************************)
LEMMA StepMaps ==
    ASSUME ControllerAssumption, OrganizationAssumption, Mapped, Next
    PROVE  LifeStep /\ VersionsInRange' /\ OwnersInRange'
<1> DEFINE goal == LifeStep /\ VersionsInRange' /\ OwnersInRange'
<1>1. ASSUME VersionsInRange', Steady, UNCHANGED AtServer
      PROVE  goal
  BY <1>1, SteadyStep, MappedFacts DEF AtServer, OwnersInRange, Provided, Resources
<1>2. ASSUME UNCHANGED AtServer
      PROVE  OwnersInRange'
  BY <1>2, MappedFacts DEF AtServer, OwnersInRange, Provided, Resources
<1>3. CASE FinalizeReadConfig
  BY <1>3, ReadConfigStep
<1>4. CASE DeleteOrganizationWithID
  BY <1>4, DeleteStep
<1>5. CASE CreateOrganization
  BY <1>5, CreateStep
<1>6. ASSUME NEW n \in Names, Drift(n)
      PROVE  goal
  BY <1>6, DriftStep
<1>7. CASE UNCHANGED versions /\ UNCHANGED AtServer
  BY <1>1, <1>7, MappedFacts, UnwrittenHold
<1>8. CASE FinalizeStatus \/ InitializeStatus \/ DeletedStatus \/ CreatedStatus
  BY <1>1, <1>8, MappedFacts, MarkHold DEF FinalizeStatus, InitializeStatus, DeletedStatus,
     CreatedStatus, influxVars, AtServer
<1>9. CASE AddFinalizer
  <2>1. VersionsInRange' /\ (Steady \/ Guarded(Me)) /\ UNCHANGED AtServer
    BY <1>9, MappedFacts, PutFinalizerHold DEF AddFinalizer, influxVars, AtServer
  <2> QED BY <1>1, <1>2, <2>1, GuardStep
<1>10. CASE RemoveFinalizer
  <2>1. VersionsInRange' /\ (Steady \/ Released(Me)) /\ UNCHANGED AtServer
    BY <1>10, MappedFacts, DropFinalizerHold DEF RemoveFinalizer, influxVars, AtServer
  <2>2. Me \in Provided => Me \in skipped
    BY <1>10, MappedFacts DEF RemoveFinalizer, DropFinalizer, Provided, Inv, OwnerOK
  <2> QED BY <1>1, <1>2, <2>1, <2>2, ReleaseStep
<1>11. CASE Restart
  BY <1>1, <1>11, MappedFacts, RestartHold DEF Restart, AtServer
<1>12. ASSUME NEW k \in Keys, Informer(k) \/ Create(k) \/ Edit(k)
       PROVE  goal
  BY <1>1, <1>12, MappedFacts, DeliverHold, UserCreateHold, UserEditHold
  DEF Informer, Create, Edit, influxVars, AtServer
<1>13. ASSUME NEW k \in Keys, Delete(k)
       PROVE  goal
  <2>1. /\ VersionsInRange' /\ (Steady \/ Discarded(<<k, Latest(k).uid>>))
        /\ UNCHANGED AtServer
    BY <1>13, MappedFacts, UserDeleteHold DEF Delete, influxVars, AtServer
  <2> QED BY <1>1, <1>2, <2>1, DiscardStep
<1> QED
  BY <1>3, <1>4, <1>5, <1>6, <1>7, <1>8, <1>9, <1>10, <1>11, <1>12, <1>13
  DEF Next, Work, AtServer, influxVars, FindOrganizationByName, ReconcileReadConfig,
      FindConfigOrganization, Fail, CallFails, Reconcile, Dispatch, ChangeConfig

LEMMA InitMaps ==
    ASSUME ControllerAssumption, OrganizationAssumption, Init
    PROVE  Mapped /\ Life!Init
<1>1. Safe
  BY InitSafe
<1>2. \A k \in Keys : Latest(k) = NoObject /\ Len(versions[k]) = 1 /\ versions[k][1] = NoObject
  BY DEF Init, ControllerInit, Latest
<1>3. UidsOK
  BY <1>2, NoObjectInRange, IdleFacts DEF Init, ControllerInit, UidsOK, VersionsInRange
<1>4. Provided = {}
  BY DEF Init, Provided, NoOrg
<1>5. HeldResources = {} /\ PastResources = {}
  BY <1>2 DEF HeldResources, PastResources, Resources, Held, NoObject, Gone, NewObject
<1>6. skipped = {}
  BY DEF Init
<1> QED BY <1>1, <1>3, <1>4, <1>5, <1>6 DEF Mapped, OwnersInRange, Life!Init, Provided

LEMMA NextMapped ==
    ASSUME ControllerAssumption, OrganizationAssumption, Mapped, Next
    PROVE  Mapped'
<1>1. Safe'
  BY NextSafe DEF Mapped
<1>2. CopyKept
  BY MappedFacts, NextIsStep DEF StepOK, Progress
<1>3. InRange(worker'.obj)
  BY <1>2, MappedFacts, CopyInRange DEF Mapped
<1>4. VersionsInRange' /\ OwnersInRange'
  BY StepMaps
<1> QED BY <1>1, <1>3, <1>4 DEF Mapped, UidsOK, InRange

LEMMA StutterMaps ==
    ASSUME Mapped, UNCHANGED vars
    PROVE  Mapped' /\ UNCHANGED Life!vars
<1>1. UNCHANGED <<versions, worker, orgs, skipped>>
  BY DEF vars, controllerVars, influxVars
<1>2. Steady /\ VersionsInRange'
  BY <1>1, MappedFacts, UnwrittenHold
<1>3. Safe'
  BY StutterSafe DEF Mapped
<1>4. OwnersInRange' /\ InRange(worker.obj)'
  BY <1>1, MappedFacts DEF OwnersInRange, Provided, Resources, InRange
<1> QED BY <1>1, <1>2, <1>3, <1>4 DEF Mapped, UidsOK, Steady, Life!vars

\* Seen without its caches, calls and failures, the Organization controller keeps the
\* promise of Lifecycle: it creates only for a resource that is held at that moment,
\* and lets go of it only when nothing of it is left, or it was finalized without its
\* Config.
THEOREM OrganizationImplements == Spec => ImplementsLifecycle
<1>1. Init => Mapped /\ Life!Init
  BY ControllerAssumption, OrganizationAssumption, InitMaps
<1>2. Mapped /\ [Next]_vars => Mapped'
  BY ControllerAssumption, OrganizationAssumption, NextMapped, StutterMaps
<1>3. Mapped /\ [Next]_vars => [Life!Next]_(Life!vars)
  BY ControllerAssumption, OrganizationAssumption, StepMaps, StutterMaps DEF LifeStep
<1> QED BY <1>1, <1>2, <1>3, PTL DEF Spec, ImplementsLifecycle, Life!Spec
===============================================================================
