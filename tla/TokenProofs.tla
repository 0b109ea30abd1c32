------------------------------ MODULE TokenProofs ------------------------------
(***************************************************************************)
(* Theorems about TokenReconciler, for every set of resources, Secrets,        *)
(* organizations and ids and every bound.                                     *)
(***************************************************************************)
EXTENDS TokenReconciler, ControllerProofs

FinalizeCalls == {"FinalizeResources", "FinalizeFindOrganization", "FinalizeFindAuthorizations",
                  "DeleteAuthorizationWithID", "DeletedStatus", "RemoveFinalizer"}

ReconcileCalls == {"ReconcileResources", "ReconcileFindOrganization",
                   "ReconcileFindAuthorizations", "CreateAuthorization", "CreateSecret",
                   "GetSecret", "UpdateSecret", "CreatedStatus"}

(***************************************************************************)
(* The inductive invariant behind NoOrphan and OneAuthorization.              *)
(***************************************************************************)
\* As long as the Config of a resource has not moved, what the worker finds for it is
\* the first organization.
ConfigOK == \A k \in Keys : k \notin moved => config[k] \in {Home[k], "noConfig", "noSecret"}

\* What the worker remembers, where it uses it.
LocalOK ==
    /\ worker.pc \in {"FinalizeFindOrganization", "ReconcileFindOrganization"} =>
          /\ local.orgName \in OrgNames
          /\ worker.key \notin moved => local.orgName = Home[worker.key]
    /\ worker.pc \in {"FinalizeFindAuthorizations", "ReconcileFindAuthorizations",
                      "CreateAuthorization"} =>
          /\ local.org \in OrgIds
          /\ local.org[2] <= orgs[local.org[1]].gen
          /\ worker.key \notin moved => local.org[1] = Home[worker.key]

\* What holds whoever creates authorizations.
Core ==
    /\ HistoryOK
    /\ CopyOK(FinalizeCalls, ReconcileCalls)
    /\ ConfigOK
    /\ LocalOK

\* The worker creates what it has not found.
SearchOK == At("CreateAuthorization") => Described(local.org, Me) = {}

\* An authorization is in the organization of the resource's Config and is guarded by the
\* resource's finalizer.  When the worker has read which organization to search, the
\* authorization is in that very one.
Guards(a) ==
    /\ a.org[1] = Home[a.by[1]]
    /\ Held(a.by) \/ a.by \in skipped
    /\ At("RemoveFinalizer") /\ a.by = Me => a.by \in skipped
    /\ At("FinalizeFindAuthorizations") /\ a.by = Me => a.org = local.org

OwnerOK(a) == OrgExists(a.org) /\ (a.by[1] \notin moved => Guards(a))

Inv ==
    /\ Core
    /\ SearchOK
    /\ OneAuthorization
    /\ \A a \in auths : OwnerOK(a)

LEMMA CallsSplit ==
    /\ Calls = FinalizeCalls \cup ReconcileCalls \cup ResourceCalls
    /\ Classes(FinalizeCalls, ReconcileCalls)
BY DEF Calls, CommonCalls, FinalizeCalls, ReconcileCalls, ResourceCalls, Classes

LEMMA CoreGood == TypeOK /\ Core => Good(FinalizeCalls, ReconcileCalls)
BY CallsSplit DEF TypeOK, Core, Good

(***************************************************************************)
(* Every action is, for the versions and the worker, one of the steps of       *)
(* Controller.                                                               *)
(***************************************************************************)
LEMMA FinalizeIsStep ==
    ASSUME ControllerAssumption, TypeOK, Core,
           FinalizeReadConfig \/ FinalizeFindOrganization \/ FinalizeFindAuthorizations
              \/ DeleteAuthorizationWithID
    PROVE  StepOK(FinalizeCalls, ReconcileCalls) /\ Wakes
<1>1. Good(FinalizeCalls, ReconcileCalls) /\ Classes(FinalizeCalls, ReconcileCalls)
  BY CoreGood, CallsSplit
<1>2. worker.pc \in FinalizeCalls /\ ~At("idle")
  BY DEF FinalizeReadConfig, FinalizeFindOrganization, FinalizeFindAuthorizations,
     DeleteAuthorizationWithID, At, FinalizeCalls
<1>3. ASSUME NEW call \in FinalizeCalls, GoTo(call), UNCHANGED <<versions, queue, faults>>
      PROVE  StepOK(FinalizeCalls, ReconcileCalls) /\ Wakes
  BY <1>1, <1>2, <1>3, GoToStep
<1>4. ASSUME ReturnError, UNCHANGED versions, faults' = faults \/ Fault
      PROVE  StepOK(FinalizeCalls, ReconcileCalls) /\ Wakes
  BY <1>1, <1>2, <1>4, ReturnErrorStep
<1>5. {"RemoveFinalizer", "FinalizeFindOrganization", "FinalizeFindAuthorizations",
       "DeleteAuthorizationWithID", "DeletedStatus"} \subseteq FinalizeCalls
  BY DEF FinalizeCalls
<1>6. CASE FinalizeReadConfig
  BY <1>3, <1>4, <1>5, <1>6 DEF FinalizeReadConfig, GiveUp
<1>7. CASE FinalizeFindOrganization
  BY <1>3, <1>5, <1>7 DEF FinalizeFindOrganization
<1>8. CASE FinalizeFindAuthorizations
  BY <1>3, <1>5, <1>8 DEF FinalizeFindAuthorizations
<1>9. CASE DeleteAuthorizationWithID
  BY <1>3, <1>4, <1>5, <1>9 DEF DeleteAuthorizationWithID
<1> QED BY <1>6, <1>7, <1>8, <1>9

LEMMA ReconcileIsStep ==
    ASSUME ControllerAssumption, TypeOK, Core,
           \/ ReconcileReadConfig \/ ReconcileFindOrganization \/ ReconcileFindAuthorizations
           \/ CreateAuthorization \/ CreateSecret \/ GetSecret \/ UpdateSecret
    PROVE  StepOK(FinalizeCalls, ReconcileCalls) /\ Wakes
<1>1. Good(FinalizeCalls, ReconcileCalls) /\ Classes(FinalizeCalls, ReconcileCalls)
  BY CoreGood, CallsSplit
<1>2. worker.pc \in ReconcileCalls /\ ~At("idle")
  BY DEF ReconcileReadConfig, ReconcileFindOrganization, ReconcileFindAuthorizations,
     CreateAuthorization, CreateSecret, GetSecret, UpdateSecret, At, ReconcileCalls
<1>3. ASSUME NEW call \in ReconcileCalls, GoTo(call), UNCHANGED <<versions, queue, faults>>
      PROVE  StepOK(FinalizeCalls, ReconcileCalls) /\ Wakes
  BY <1>1, <1>2, <1>3, GoToStep
<1>4. ASSUME ReturnError, UNCHANGED versions, faults' = faults \/ Fault
      PROVE  StepOK(FinalizeCalls, ReconcileCalls) /\ Wakes
  BY <1>1, <1>2, <1>4, ReturnErrorStep
<1>5. ReconcileCalls = {"ReconcileResources", "ReconcileFindOrganization",
          "ReconcileFindAuthorizations", "CreateAuthorization", "CreateSecret", "GetSecret",
          "UpdateSecret", "CreatedStatus"}
  BY DEF ReconcileCalls
<1>6. ASSUME RecordCreation, UNCHANGED <<versions, faults>>
      PROVE  StepOK(FinalizeCalls, ReconcileCalls) /\ Wakes
  BY <1>3, <1>4, <1>5, <1>6 DEF RecordCreation, RequeueAfter, ReturnError
<1>7. CASE ReconcileReadConfig
  BY <1>3, <1>4, <1>5, <1>7 DEF ReconcileReadConfig, GiveUp
<1>8. CASE ReconcileFindOrganization
  BY <1>3, <1>4, <1>5, <1>8 DEF ReconcileFindOrganization, GiveUp
<1>9. CASE ReconcileFindAuthorizations
  BY <1>3, <1>5, <1>9 DEF ReconcileFindAuthorizations
<1>10. CASE CreateAuthorization
  BY <1>3, <1>4, <1>5, <1>10 DEF CreateAuthorization, GiveUp
<1>11. CASE CreateSecret
  BY <1>3, <1>4, <1>5, <1>6, <1>11 DEF CreateSecret, GiveUp
<1>12. CASE GetSecret
  BY <1>3, <1>4, <1>5, <1>6, <1>12 DEF GetSecret, GiveUp
<1>13. CASE UpdateSecret
  BY <1>4, <1>6, <1>13 DEF UpdateSecret, GiveUp
<1> QED BY <1>7, <1>8, <1>9, <1>10, <1>11, <1>12, <1>13

\* The last status update of a Token writes more often than those of the other kinds,
\* and otherwise the same.
LEMMA CreatedIsMark == CreatedStatus => MarkCreated
BY DEF CreatedStatus, MarkCreated, SaveCondition

\* So it loses no wake-up: it always changes the object.
LEMMA CreatedWakes ==
    ASSUME Good(FinalizeCalls, ReconcileCalls), CreatedStatus
    PROVE  Wakes
<1> DEFINE phase == IF reasonCreated \in worker.obj.conds THEN worker.obj.phase ELSE phaseReady
           obj == WithStatus(worker.obj, phase, worker.obj.conds \cup {reasonCreated})
<1>1. Save(obj) /\ ~At("idle")
  BY DEF CreatedStatus, At
<1>2. worker.obj \in Object /\ {phaseReady, worker.obj.phase} \subseteq Phases
  BY BusyFacts DEF Object, Phases
<1>3. phase \in Phases /\ worker.obj.conds \cup {reasonCreated} \in SUBSET Reasons
  BY <1>2 DEF Object, Reasons
<1> HIDE DEF phase
<1>4. obj \in Object
  BY <1>2, <1>3 DEF WithStatus, Object
<1> HIDE DEF obj
<1> QED BY <1>1, <1>4, SaveWakes

LEMMA NextIsStep ==
    ASSUME ControllerAssumption, TypeOK, Core, Next
    PROVE  /\ StepOK(FinalizeCalls, ReconcileCalls)
           /\ Wakes \/ (DeletedStatus /\ reasonDeleted \in worker.obj.conds)
<1> DEFINE ok == StepOK(FinalizeCalls, ReconcileCalls) /\ Wakes
<1>1. Good(FinalizeCalls, ReconcileCalls) /\ Classes(FinalizeCalls, ReconcileCalls)
  BY CoreGood, CallsSplit
<1>2. CASE FinalizeStatus \/ RemoveFinalizer \/ AddFinalizer \/ InitializeStatus
  BY <1>1, <1>2, MarkTerminatingStep, DropFinalizerStep, PutFinalizerStep, MarkInitializedStep
  DEF FinalizeStatus, RemoveFinalizer, AddFinalizer, InitializeStatus
<1>10. CASE DeletedStatus
  BY <1>1, <1>10, MarkDeletedStep DEF DeletedStatus
<1>11. CASE CreatedStatus
  <2>1. StepOK(FinalizeCalls, ReconcileCalls)
    BY <1>1, <1>11, CreatedIsMark, MarkCreatedStep
  <2>2. Wakes
    BY <1>1, <1>11, CreatedWakes
  <2> QED BY <2>1, <2>2
<1>3. CASE Fail
  BY <1>1, <1>3, CallFailsStep DEF Fail
<1>4. CASE Restart
  BY <1>1, <1>4, RestartStep DEF Restart, RestartManager
<1>5. CASE CreateAuthorizationPanics
  BY <1>1, <1>5, RestartStep DEF CreateAuthorizationPanics, RestartManager
<1>6. ASSUME NEW k \in Keys,
             Reconcile(k) \/ Informer(k) \/ Create(k) \/ Delete(k) \/ Edit(k)
      PROVE  ok
  BY <1>1, <1>6, DispatchStep, DeliverStep, UserCreateStep, UserDeleteStep, UserEditStep
  DEF Reconcile, Informer, Create, Delete, Edit
<1>7. ASSUME UNCHANGED <<versions, queue, worker>>, faults' = faults \/ Fault
      PROVE  ok
  BY <1>1, <1>7, QuietStep
<1>8. CASE Drift \/ (\E k \in Keys : ChangeConfig(k)) \/ (\E o \in OrgNames : ToggleOrganization(o))
  BY <1>7, <1>8 DEF Drift, ChangeConfig, ToggleOrganization
<1>9. ASSUME NEW s \in SecretNames, SecretInformer(s) \/ CollectSecret(s) \/ EditSecret(s)
      PROVE  ok
  BY <1>7, <1>9 DEF SecretInformer, CollectSecret, EditSecret, OutsideWrite, controllerVars
<1> QED
  BY <1>2, <1>3, <1>4, <1>5, <1>6, <1>8, <1>9, <1>10, <1>11, FinalizeIsStep, ReconcileIsStep DEF Next, Work

(***************************************************************************)
(* Types.                                                                    *)
(***************************************************************************)
LEMMA MeType ==
    ASSUME ControllerAssumption, TypeOK, ~At("idle")
    PROVE  /\ worker.key \in Keys
           /\ worker.obj \in Object
           /\ worker.obj.uid \in Nat
           /\ Me \in Identities
           /\ Me[1] = worker.key
           /\ Me[2] = worker.obj.uid
           /\ Me = <<worker.key, worker.obj.uid>>
BY DEF TypeOK, ControllerTypeOK, Workers, Object, Me, At, Identities

LEMMA LocalTypes ==
    /\ NoSecret \in Secret
    /\ NoCopy \in Copies
    /\ Nothing \in Locals
BY DEF NoSecret, Secret, NoCopy, Copies, Nothing, Locals

WorldTypeOK ==
    /\ orgs \in [OrgNames -> [up : BOOLEAN, gen : Nat]]
    /\ auths \subseteq Authorization
    /\ secrets \in [SecretNames -> Secret]
    /\ cache \in [SecretNames -> Copies]
    /\ config \in [Keys -> Configs]
    /\ local \in Locals
    /\ skipped \subseteq Identities
    /\ moved \subseteq Keys

LEMMA TypeOKSplit == TypeOK <=> ControllerTypeOK(Calls) /\ WorldTypeOK
BY DEF TypeOK, WorldTypeOK

\* A write to a Secret that is well typed.
LEMMA StoreSecretTypes ==
    ASSUME WorldTypeOK, NEW s \in SecretNames, NEW secret \in Secret, StoreSecret(s, secret)
    PROVE  secrets' \in [SecretNames -> Secret] /\ cache' \in [SecretNames -> Copies]
<1>1. secrets' = [secrets EXCEPT ![s] = secret]
      /\ cache' = [cache EXCEPT ![s].current = FALSE]
  BY DEF StoreSecret
<1>2. [cache[s] EXCEPT !.current = FALSE] \in Copies
  BY DEF WorldTypeOK, Copies
<1> QED BY <1>1, <1>2 DEF WorldTypeOK

LEMMA RestartTypes ==
    ASSUME WorldTypeOK, RestartManager
    PROVE  local' \in Locals /\ cache' \in [SecretNames -> Copies]
<1>1. \A s \in SecretNames : [secret |-> secrets[s], current |-> TRUE] \in Copies
  BY DEF WorldTypeOK, Copies
<1> QED BY <1>1, LocalTypes DEF RestartManager

LEMMA FinalizeTypes ==
    ASSUME ControllerAssumption, TokenAssumption, TypeOK,
           FinalizeReadConfig \/ FinalizeFindOrganization \/ FinalizeFindAuthorizations
              \/ DeleteAuthorizationWithID,
           local.orgName \in OrgNames \/ ~At("FinalizeFindOrganization")
    PROVE  WorldTypeOK'
<1>1. WorldTypeOK /\ Nothing \in Locals
  BY LocalTypes, TypeOKSplit
<1>2. Me \in Identities
  BY MeType DEF FinalizeReadConfig, FinalizeFindOrganization, FinalizeFindAuthorizations,
     DeleteAuthorizationWithID, At
<1>3. CASE FinalizeReadConfig
  <2>1. local' \in Locals
    BY <1>1, <1>3 DEF FinalizeReadConfig, GiveUp, Locals, WorldTypeOK
  <2> QED BY <1>1, <1>2, <1>3, <2>1 DEF FinalizeReadConfig, WorldTypeOK, serverVars, secretVars
<1>4. CASE FinalizeFindOrganization
  <2>1. local.orgName \in OrgNames
    BY <1>4 DEF FinalizeFindOrganization
  <2>2. OrgId(local.orgName) \in OrgIds
    BY <1>1, <2>1 DEF OrgId, OrgIds, WorldTypeOK
  <2>3. local' \in Locals
    BY <1>1, <1>4, <2>2 DEF FinalizeFindOrganization, Locals, WorldTypeOK
  <2> QED
    BY <1>1, <1>4, <2>3 DEF FinalizeFindOrganization, WorldTypeOK, Elsewhere, serverVars, secretVars
<1>5. CASE FinalizeFindAuthorizations
  <2>1. \A a \in Described(local.org, Me) : a.id \in Ids
    BY <1>1 DEF Described, WorldTypeOK, Authorization
  <2>2. local' \in Locals
    BY <1>1, <1>5, <2>1 DEF FinalizeFindAuthorizations, Locals, WorldTypeOK
  <2> QED
    BY <1>1, <1>5, <2>2
    DEF FinalizeFindAuthorizations, WorldTypeOK, Elsewhere, serverVars, secretVars
<1>6. CASE DeleteAuthorizationWithID
  <2>1. auths' \subseteq auths
    BY <1>6 DEF DeleteAuthorizationWithID
  <2> QED BY <1>1, <1>6, <2>1 DEF DeleteAuthorizationWithID, WorldTypeOK, secretVars
<1> QED BY <1>3, <1>4, <1>5, <1>6

LEMMA ReconcileTypes ==
    ASSUME ControllerAssumption, TokenAssumption, TypeOK, Core,
           \/ ReconcileReadConfig \/ ReconcileFindOrganization \/ ReconcileFindAuthorizations
           \/ CreateAuthorization \/ CreateSecret \/ GetSecret \/ UpdateSecret
    PROVE  WorldTypeOK'
<1>1. WorldTypeOK /\ Nothing \in Locals
  BY LocalTypes, TypeOKSplit
<1>2. /\ ~At("idle")
      /\ Me \in Identities
      /\ MySecret \in SecretNames
  BY MeType DEF ReconcileReadConfig, ReconcileFindOrganization, ReconcileFindAuthorizations,
     CreateAuthorization, CreateSecret, GetSecret, UpdateSecret, At, MySecret, TokenAssumption
<1>3. RecordCreation => local' \in Locals
  BY <1>1 DEF RecordCreation
<1>4. GiveUp => local' \in Locals
  BY <1>1 DEF GiveUp
<1>5. CASE ReconcileReadConfig
  <2>1. local' \in Locals
    BY <1>1, <1>4, <1>5 DEF ReconcileReadConfig, Locals, WorldTypeOK
  <2> QED BY <1>1, <1>5, <2>1 DEF ReconcileReadConfig, WorldTypeOK, Elsewhere, serverVars, secretVars
<1>6. CASE ReconcileFindOrganization
  <2>1. local.orgName \in OrgNames
    BY <1>6 DEF ReconcileFindOrganization, Core, LocalOK, At
  <2>2. OrgId(local.orgName) \in OrgIds
    BY <1>1, <2>1 DEF OrgId, OrgIds, WorldTypeOK
  <2>3. local' \in Locals
    BY <1>1, <1>4, <1>6, <2>2 DEF ReconcileFindOrganization, Locals, WorldTypeOK
  <2> QED
    BY <1>1, <1>6, <2>3
    DEF ReconcileFindOrganization, WorldTypeOK, Elsewhere, serverVars, secretVars
<1>7. CASE ReconcileFindAuthorizations
  <2>1. \A a \in Described(local.org, Me) : a.id \in Ids
    BY <1>1 DEF Described, WorldTypeOK, Authorization
  <2>2. local' \in Locals
    BY <1>1, <1>7, <2>1 DEF ReconcileFindAuthorizations, Locals, WorldTypeOK
  <2> QED
    BY <1>1, <1>7, <2>2
    DEF ReconcileFindAuthorizations, WorldTypeOK, Elsewhere, serverVars, secretVars
<1>8. CASE CreateAuthorization
  <2>1. local.org \in OrgIds
    BY <1>8 DEF CreateAuthorization, Core, LocalOK, At
  <2>2. \A id \in Ids : [id |-> id, org |-> local.org, by |-> Me] \in Authorization
    BY <1>2, <2>1 DEF Authorization
  <2>3. auths' = auths \/ \E id \in Ids : auths' = auths \cup {[id |-> id, org |-> local.org, by |-> Me]}
    BY <1>8 DEF CreateAuthorization
  <2>5. auths' \subseteq Authorization
    <3> DEFINE new(id) == [id |-> id, org |-> local.org, by |-> Me]
    <3>1. \A id \in Ids : new(id) \in Authorization
      BY <2>2
    <3>2. auths' = auths \/ \E id \in Ids : auths' = auths \cup {new(id)}
      BY <2>3
    <3>3. auths \subseteq Authorization
      BY <1>1 DEF WorldTypeOK
    <3> HIDE DEF new
    <3> QED BY <3>1, <3>2, <3>3
  <2>4. local' \in Locals
    BY <1>1, <1>4, <1>8 DEF CreateAuthorization, Locals, WorldTypeOK
  <2> QED BY <1>1, <1>8, <2>5, <2>4 DEF CreateAuthorization, WorldTypeOK, secretVars
<1>9. CASE CreateSecret
  <2>1. [exists |-> TRUE, owner |-> Me, token |-> local.auth] \in Secret
    BY <1>1, <1>2 DEF Secret, WorldTypeOK, Locals
  <2>2. secrets' \in [SecretNames -> Secret] /\ cache' \in [SecretNames -> Copies]
    BY <1>1, <1>2, <1>9, <2>1, StoreSecretTypes DEF CreateSecret, secretVars, WorldTypeOK
  <2>3. local' \in Locals
    BY <1>1, <1>3, <1>4, <1>9 DEF CreateSecret, WorldTypeOK
  <2> QED BY <1>1, <1>9, <2>2, <2>3 DEF CreateSecret, WorldTypeOK, serverVars
<1>10. CASE GetSecret
  <2>1. cache[MySecret] \in Copies
    BY <1>1, <1>2 DEF WorldTypeOK
  <2>2. local' \in Locals
    BY <1>1, <1>3, <1>4, <1>10, <2>1 DEF GetSecret, Locals, WorldTypeOK
  <2> QED BY <1>1, <1>10, <2>2 DEF GetSecret, WorldTypeOK, Elsewhere, serverVars, secretVars
<1>11. CASE UpdateSecret
  <2>1. [local.copy.secret EXCEPT !.token = local.auth] \in Secret
    BY <1>1 DEF Secret, Copies, WorldTypeOK, Locals
  <2>2. secrets' \in [SecretNames -> Secret] /\ cache' \in [SecretNames -> Copies]
    BY <1>1, <1>2, <1>11, <2>1, StoreSecretTypes DEF UpdateSecret, secretVars, WorldTypeOK
  <2>3. local' \in Locals
    BY <1>3, <1>4, <1>11 DEF UpdateSecret
  <2> QED BY <1>1, <1>11, <2>2, <2>3 DEF UpdateSecret, WorldTypeOK, serverVars
<1> QED BY <1>5, <1>6, <1>7, <1>8, <1>9, <1>10, <1>11

\* Somebody other than the worker writes a Secret.
LEMMA OutsideTypes ==
    ASSUME WorldTypeOK, NEW s \in SecretNames, NEW secret \in Secret, OutsideWrite(s, secret)
    PROVE  WorldTypeOK'
<1>1. secrets' \in [SecretNames -> Secret] /\ cache' \in [SecretNames -> Copies]
  BY StoreSecretTypes DEF OutsideWrite
<1>2. [local.copy EXCEPT !.current = FALSE] \in Copies
  BY DEF WorldTypeOK, Locals, Copies
<1>3. [local EXCEPT !.copy.current = FALSE] \in Locals
  BY <1>2 DEF WorldTypeOK, Locals
<1>4. local' \in Locals
  BY <1>3 DEF OutsideWrite, WorldTypeOK
<1> QED BY <1>1, <1>4 DEF OutsideWrite, WorldTypeOK, serverVars

LEMMA WorldTypes ==
    ASSUME ControllerAssumption, TokenAssumption, TypeOK, Core, Next
    PROVE  WorldTypeOK'
<1>1. WorldTypeOK /\ Nothing \in Locals
  BY LocalTypes, TypeOKSplit
<1>2. CASE UNCHANGED <<orgs, auths, secrets, cache, config, skipped, moved>> /\ local' \in Locals
  BY <1>1, <1>2 DEF WorldTypeOK
<1>3. CASE UNCHANGED <<Elsewhere, local>>
  BY <1>1, <1>2, <1>3 DEF Elsewhere, serverVars, secretVars, WorldTypeOK
<1>4. CASE FinalizeReadConfig \/ FinalizeFindOrganization \/ FinalizeFindAuthorizations
              \/ DeleteAuthorizationWithID
  <2>1. local.orgName \in OrgNames \/ ~At("FinalizeFindOrganization")
    BY DEF Core, LocalOK, At
  <2> QED BY <1>4, <2>1, FinalizeTypes
<1>5. CASE Fail
  BY <1>1, <1>2, <1>5 DEF Fail, Elsewhere, serverVars, secretVars
<1>6. CASE Restart \/ CreateAuthorizationPanics
  BY <1>1, <1>6, RestartTypes DEF Restart, CreateAuthorizationPanics, WorldTypeOK, serverVars
<1>7. CASE Drift
  BY <1>1, <1>7 DEF Drift, WorldTypeOK, secretVars
<1>8. ASSUME NEW o \in OrgNames, ToggleOrganization(o)
      PROVE  WorldTypeOK'
  <2>1. auths' \subseteq auths
    BY <1>8 DEF ToggleOrganization
  <2>2. orgs[o] \in [up : BOOLEAN, gen : Nat]
    BY <1>1 DEF WorldTypeOK
  <2>3. /\ [orgs[o] EXCEPT !.up = FALSE] \in [up : BOOLEAN, gen : Nat]
        /\ [up |-> TRUE, gen |-> orgs[o].gen + 1] \in [up : BOOLEAN, gen : Nat]
    <3>1. [orgs[o] EXCEPT !.up = FALSE] \in [up : BOOLEAN, gen : Nat]
      BY <2>2
    <3>2. orgs[o].gen + 1 \in Nat
      BY <2>2
    <3> QED BY <3>1, <3>2
  <2>4. \/ orgs' = [orgs EXCEPT ![o] = [orgs[o] EXCEPT !.up = FALSE]]
        \/ orgs' = [orgs EXCEPT ![o] = [up |-> TRUE, gen |-> orgs[o].gen + 1]]
    BY <1>8 DEF ToggleOrganization
  <2>5. orgs' \in [OrgNames -> [up : BOOLEAN, gen : Nat]]
    BY <1>1, <2>3, <2>4 DEF WorldTypeOK
  <2> QED BY <1>1, <1>8, <2>1, <2>5 DEF ToggleOrganization, WorldTypeOK, secretVars
<1>9. ASSUME NEW k \in Keys, ChangeConfig(k)
      PROVE  WorldTypeOK'
  BY <1>1, <1>9 DEF ChangeConfig, WorldTypeOK, secretVars, serverVars
<1>10. ASSUME NEW s \in SecretNames, SecretInformer(s)
       PROVE  WorldTypeOK'
  <2>1. [secret |-> secrets[s], current |-> TRUE] \in Copies
    BY <1>1 DEF WorldTypeOK, Copies
  <2> QED BY <1>1, <1>10, <2>1 DEF SecretInformer, WorldTypeOK, serverVars
<1>11. ASSUME NEW s \in SecretNames, CollectSecret(s)
       PROVE  WorldTypeOK'
  BY <1>1, <1>11, OutsideTypes, LocalTypes DEF CollectSecret
<1>12. ASSUME NEW s \in SecretNames, EditSecret(s)
       PROVE  WorldTypeOK'
  <2>1. secrets[s] \in Secret
    BY <1>1 DEF WorldTypeOK
  <2>2. [secrets[s] EXCEPT !.exists = TRUE, !.token = NoId] \in Secret
    BY <2>1 DEF Secret
  <2> QED BY <1>1, <1>12, <2>2, OutsideTypes, LocalTypes DEF EditSecret
<1> QED
  BY <1>3, <1>4, <1>5, <1>6, <1>7, <1>8, <1>9, <1>10, <1>11, <1>12, ReconcileTypes
  DEF Next, Work, FinalizeStatus, DeletedStatus, RemoveFinalizer, AddFinalizer,
      InitializeStatus, CreatedStatus, Reconcile, Informer, Create, Delete, Edit

(***************************************************************************)
(* Where the worker is, and what it remembers there.                          *)
(***************************************************************************)
\* The calls of which the invariants say more than of the others.
Watched == {"RemoveFinalizer", "FinalizeFindOrganization", "FinalizeFindAuthorizations",
            "DeleteAuthorizationWithID", "DeletedStatus", "ReconcileFindOrganization",
            "ReconcileFindAuthorizations", "CreateAuthorization"}

\* The worker does not come to one of them, or stays there with what it knows.
Settled ==
    \/ worker'.pc \notin Watched
    \/ /\ worker'.pc = worker.pc
       /\ worker'.key = worker.key
       /\ worker'.obj = worker.obj
       /\ local'.orgName = local.orgName
       /\ local'.org = local.org
       /\ local'.auth = local.auth

\* They are reached from the reads of the handlers, and from one another, only.
LEMMA WayToWatched ==
    ASSUME TypeOK, Next
    PROVE  \/ FinalizeReadConfig \/ FinalizeFindOrganization \/ FinalizeFindAuthorizations
           \/ DeleteAuthorizationWithID
           \/ ReconcileReadConfig \/ ReconcileFindOrganization \/ ReconcileFindAuthorizations
           \/ Settled
<1>1. worker \in Workers(Calls) /\ local \in Locals
  BY DEF TypeOK, ControllerTypeOK
<1>2. "idle" \notin Watched
  BY DEF Watched
<1>3. ASSUME NEW requeue, Finish(requeue)
      PROVE  Settled
  BY <1>2, <1>3, IdleFacts DEF Finish, Settled
<1>4. ASSUME NEW obj, Save(obj)
      PROVE  Settled
  BY <1>3, <1>4 DEF Save, ReturnError, ReturnDone
<1>5. ASSUME NEW reason, NEW phase, SaveCondition(reason, phase)
      PROVE  Settled
  BY <1>3, <1>4, <1>5 DEF SaveCondition, SaveSameSecond, ReturnDone
<1>6. ASSUME NEW call \in {"CreateSecret", "GetSecret", "UpdateSecret", "CreatedStatus"},
             GoTo(call)
      PROVE  Settled
  BY <1>1, <1>6 DEF GoTo, Settled, Watched, Workers
<1>7. ASSUME RecordCreation \/ GiveUp
      PROVE  Settled
  BY <1>3, <1>6, <1>7 DEF RecordCreation, GiveUp, ReturnError, RequeueAfter
<1>8. ASSUME NEW k, Outdate(k) \/ UNCHANGED worker, UNCHANGED local
      PROVE  Settled
  BY <1>1, <1>8 DEF Outdate, Settled, Workers
<1>9. CASE FinalizeStatus \/ DeletedStatus \/ RemoveFinalizer \/ AddFinalizer
           \/ InitializeStatus \/ CreatedStatus
  BY <1>4, <1>5, <1>9 DEF FinalizeStatus, DeletedStatus, RemoveFinalizer, AddFinalizer,
     InitializeStatus, CreatedStatus, MarkTerminating, MarkDeleted, DropFinalizer,
     PutFinalizer, MarkInitialized
<1>11. CASE CreateAuthorization
  BY <1>6, <1>7, <1>11 DEF CreateAuthorization
<1>12. CASE CreateSecret
  BY <1>6, <1>7, <1>12 DEF CreateSecret
<1>13. CASE GetSecret
  BY <1>6, <1>7, <1>13 DEF GetSecret
<1>14. CASE UpdateSecret
  BY <1>7, <1>14 DEF UpdateSecret
<1>15. CASE Fail \/ Restart \/ CreateAuthorizationPanics
  BY <1>2, <1>3, <1>15, IdleFacts DEF Fail, CallFails, ReturnError, Restart,
     CreateAuthorizationPanics, RestartManager, RestartController, Settled
<1>16. ASSUME NEW k \in Keys, Reconcile(k)
       PROVE  Settled
  <2>1. FirstCall(Cached(k)) \notin Watched
    BY DEF FirstCall, Watched
  <2> QED BY <1>2, <1>16, <2>1, IdleFacts DEF Reconcile, Dispatch, Settled
<1>17. ASSUME NEW k \in Keys, Informer(k) \/ Create(k) \/ Delete(k) \/ Edit(k) \/ ChangeConfig(k)
       PROVE  Settled
  BY <1>8, <1>17 DEF Informer, Deliver, Create, UserCreate, Delete, UserDelete, Edit, UserEdit,
     ChangeConfig
<1>18. CASE Drift \/ (\E o \in OrgNames : ToggleOrganization(o))
  BY <1>8, <1>18 DEF Drift, ToggleOrganization
<1>19. ASSUME NEW s, NEW secret, OutsideWrite(s, secret)
       PROVE  Settled
  BY <1>1, <1>19 DEF OutsideWrite, Settled, Locals
<1>20. ASSUME NEW s \in SecretNames, SecretInformer(s) \/ CollectSecret(s) \/ EditSecret(s)
       PROVE  Settled
  BY <1>8, <1>19, <1>20 DEF SecretInformer, CollectSecret, EditSecret, controllerVars
<1> QED
  BY <1>9, <1>11, <1>12, <1>13, <1>14, <1>15, <1>16, <1>17, <1>18, <1>20 DEF Next, Work

\* What the other steps do to the server: no authorization is new unless the worker
\* creates it, and no step forgets what the auxiliary variables recorded.
LEMMA ServerSteps ==
    ASSUME Next
    PROVE  /\ skipped \subseteq skipped'
           /\ moved \subseteq moved'
           /\ CreateAuthorization \/ auths' \subseteq auths
           /\ UNCHANGED orgs \/ \E o \in OrgNames : ToggleOrganization(o)
           /\ UNCHANGED <<config, moved>> \/ \E k \in Keys : ChangeConfig(k)
<1>1. CASE FinalizeReadConfig
  BY <1>1 DEF FinalizeReadConfig, serverVars
<1>2. CASE DeleteAuthorizationWithID
  BY <1>2 DEF DeleteAuthorizationWithID
<1>3. CASE CreateAuthorization
  BY <1>3 DEF CreateAuthorization
<1>4. CASE CreateSecret \/ UpdateSecret
  BY <1>4 DEF CreateSecret, UpdateSecret, serverVars
<1>5. CASE Restart \/ CreateAuthorizationPanics
  BY <1>5 DEF Restart, CreateAuthorizationPanics, serverVars
<1>6. CASE Drift
  BY <1>6 DEF Drift
<1>7. ASSUME NEW k \in Keys, ChangeConfig(k)
      PROVE  moved \subseteq moved' /\ UNCHANGED <<skipped, auths, orgs>>
  BY <1>7 DEF ChangeConfig, serverVars
<1>8. ASSUME NEW o \in OrgNames, ToggleOrganization(o)
      PROVE  auths' \subseteq auths /\ UNCHANGED <<skipped, moved, config>>
  BY <1>8 DEF ToggleOrganization
<1>9. ASSUME NEW s \in SecretNames, SecretInformer(s) \/ CollectSecret(s) \/ EditSecret(s)
      PROVE  UNCHANGED <<skipped, moved, config, auths, orgs>>
  BY <1>9 DEF SecretInformer, CollectSecret, EditSecret, OutsideWrite, serverVars
<1>10. CASE UNCHANGED Elsewhere
  BY <1>10 DEF Elsewhere, serverVars
<1> QED
  BY <1>1, <1>2, <1>3, <1>4, <1>5, <1>6, <1>7, <1>8, <1>9, <1>10 DEF Next, Work,
     FinalizeStatus, FinalizeFindOrganization, FinalizeFindAuthorizations, DeletedStatus,
     RemoveFinalizer, AddFinalizer, InitializeStatus, ReconcileReadConfig,
     ReconcileFindOrganization, ReconcileFindAuthorizations, GetSecret, CreatedStatus,
     Reconcile, Informer, Create, Delete, Edit, Fail

LEMMA ConfigStep ==
    ASSUME TokenAssumption, TypeOK, Core, Next
    PROVE  ConfigOK'
<1>1. CASE UNCHANGED <<config, moved>>
  BY <1>1 DEF Core, ConfigOK
<1>2. ASSUME NEW k \in Keys, ChangeConfig(k)
      PROVE  ConfigOK'
  <2>1. PICK c \in Configs :
           /\ config' = [config EXCEPT ![k] = c]
           /\ moved' = IF c \in OrgNames \ {Home[k]} THEN moved \cup {k} ELSE moved
    BY <1>2 DEF ChangeConfig
  <2>2. config \in [Keys -> Configs]
    BY DEF TypeOK
  <2>3. ASSUME NEW l \in Keys, l \notin moved'
        PROVE  config'[l] \in {Home[l], "noConfig", "noSecret"}
    <3>1. l \notin moved
      BY <2>1, <2>3
    <3>2. CASE l = k
      BY <2>1, <2>2, <2>3, <3>2 DEF Configs
    <3>3. CASE l # k
      BY <2>1, <2>2, <3>1, <3>3 DEF Core, ConfigOK
    <3> QED BY <3>2, <3>3
  <2> QED BY <2>3 DEF ConfigOK
<1> QED BY <1>1, <1>2, ServerSteps

\* An organization that comes back is a later one.
LEMMA OrgsForward ==
    ASSUME TypeOK, Next, NEW o \in OrgNames
    PROVE  orgs[o].gen <= orgs'[o].gen /\ orgs'[o].gen \in Nat
<1>1. orgs \in [OrgNames -> [up : BOOLEAN, gen : Nat]] /\ orgs[o].gen \in Nat
  BY DEF TypeOK
<1>2. CASE UNCHANGED orgs
  BY <1>1, <1>2
<1>3. ASSUME NEW p \in OrgNames, ToggleOrganization(p)
      PROVE  orgs[o].gen <= orgs'[o].gen /\ orgs'[o].gen \in Nat
  <2>1. orgs'[o].gen \in {orgs[o].gen, orgs[o].gen + 1}
    BY <1>1, <1>3 DEF ToggleOrganization
  <2> QED BY <1>1, <2>1
<1> QED BY <1>2, <1>3, ServerSteps

\* What the worker remembers stays true: only ChangeConfig could make it false, and then
\* the resource counts as moved.
LEMMA LocalStep ==
    ASSUME ControllerAssumption, TokenAssumption, TypeOK, Core, Next
    PROVE  LocalOK'
<1>1. /\ worker \in Workers(Calls)
      /\ local \in Locals
      /\ \A o \in OrgNames : orgs[o].gen \in Nat
  BY DEF TypeOK, ControllerTypeOK
<1>2. "idle" \notin Watched
  BY DEF Watched
<1>3. LocalOK /\ ConfigOK /\ moved \subseteq moved'
  BY ServerSteps DEF Core
<1>16. \A o \in OrgNames : orgs[o].gen <= orgs'[o].gen /\ orgs'[o].gen \in Nat
  BY OrgsForward
<1>4. ASSUME worker'.pc \notin Watched
      PROVE  LocalOK'
  BY <1>4 DEF LocalOK, At, Watched
<1>5. ASSUME ReturnError
      PROVE  LocalOK'
  BY <1>2, <1>4, <1>5, IdleFacts DEF ReturnError, Finish
<1>6. ASSUME NEW call \in {"RemoveFinalizer", "DeleteAuthorizationWithID", "DeletedStatus",
                           "CreateSecret"}, GoTo(call)
      PROVE  LocalOK'
  <2>1. worker'.pc = call
    BY <1>1, <1>6 DEF GoTo, Workers
  <2> QED BY <2>1 DEF LocalOK, At
<1>7. CASE Settled
  <2>1. CASE worker'.pc \notin Watched
    BY <1>4, <2>1
  <2>2. CASE worker'.pc \in Watched
    <3>1. /\ worker'.pc = worker.pc
          /\ worker'.key = worker.key
          /\ worker'.obj = worker.obj
          /\ local'.orgName = local.orgName
          /\ local'.org = local.org
      BY <1>7, <2>2 DEF Settled
    <3>2. CASE worker.pc \in {"FinalizeFindAuthorizations", "ReconcileFindAuthorizations",
                             "CreateAuthorization"}
      <4>1. local.org \in OrgIds /\ local.org[2] <= orgs[local.org[1]].gen
        BY <1>3, <3>2 DEF LocalOK
      <4>2. local.org[2] <= orgs'[local.org[1]].gen
        BY <1>1, <1>16, <4>1 DEF OrgIds
      <4> QED BY <1>3, <3>1, <4>1, <4>2 DEF LocalOK
    <3> QED BY <1>3, <3>1, <3>2 DEF LocalOK
  <2> QED BY <2>1, <2>2
<1>8. ASSUME NEW call \in {"FinalizeFindOrganization", "ReconcileFindOrganization"},
             GoTo(call), MyConfig \in OrgNames, ~At("idle"),
             local' = [local EXCEPT !.orgName = MyConfig]
      PROVE  LocalOK'
  <2>1. worker'.pc = call /\ worker'.key = worker.key /\ worker.key \in Keys
    BY <1>1, <1>8, MeType DEF GoTo, Workers
  <2>2. worker.key \notin moved => MyConfig = Home[worker.key]
    BY <1>3, <1>8, <2>1 DEF ConfigOK, MyConfig, TokenAssumption
  <2>3. local'.orgName = MyConfig
    BY <1>1, <1>8 DEF Locals
  <2> QED BY <1>3, <1>8, <2>1, <2>2, <2>3 DEF LocalOK, At
<1>9. ASSUME NEW call \in {"FinalizeFindAuthorizations", "ReconcileFindAuthorizations"},
             GoTo(call), At("FinalizeFindOrganization") \/ At("ReconcileFindOrganization"),
             local' = [local EXCEPT !.org = OrgId(local.orgName)]
      PROVE  LocalOK'
  <2>1. worker'.pc = call /\ worker'.key = worker.key
    BY <1>1, <1>9 DEF GoTo, Workers
  <2>2. /\ local.orgName \in OrgNames
        /\ worker.key \notin moved => local.orgName = Home[worker.key]
    BY <1>3, <1>9 DEF LocalOK, At
  <2>3. local'.org = OrgId(local.orgName)
    BY <1>1, <1>9 DEF Locals
  <2>4. /\ local'.org \in OrgIds
        /\ local'.org[1] = local.orgName
        /\ local'.org[2] <= orgs'[local.orgName].gen
    BY <1>1, <1>16, <2>2, <2>3 DEF OrgId, OrgIds
  <2> QED BY <1>3, <1>9, <2>1, <2>2, <2>4 DEF LocalOK, At
<1>10. CASE FinalizeReadConfig
  BY <1>5, <1>6, <1>8, <1>10 DEF FinalizeReadConfig, GiveUp, At
<1>11. CASE FinalizeFindOrganization
  BY <1>6, <1>9, <1>11 DEF FinalizeFindOrganization
<1>12. CASE FinalizeFindAuthorizations
  BY <1>6, <1>12 DEF FinalizeFindAuthorizations
<1>13. CASE ReconcileReadConfig
  BY <1>5, <1>8, <1>13 DEF ReconcileReadConfig, GiveUp, At
<1>14. CASE ReconcileFindOrganization
  BY <1>5, <1>9, <1>14 DEF ReconcileFindOrganization, GiveUp
<1>15. CASE ReconcileFindAuthorizations
  <2>1. CASE GoTo("CreateAuthorization") /\ UNCHANGED local
    <3>1. worker'.pc = "CreateAuthorization" /\ worker'.key = worker.key
      BY <1>1, <2>1 DEF GoTo, Workers
    <3>2. UNCHANGED <<orgs, moved>>
      BY <1>15 DEF ReconcileFindAuthorizations, Elsewhere, serverVars
    <3>3. /\ local.org \in OrgIds
          /\ local.org[2] <= orgs[local.org[1]].gen
          /\ worker.key \notin moved => local.org[1] = Home[worker.key]
      BY <1>3, <1>15 DEF LocalOK, ReconcileFindAuthorizations, At
    <3> QED BY <2>1, <3>1, <3>2, <3>3 DEF LocalOK
  <2> QED BY <1>6, <1>15, <2>1 DEF ReconcileFindAuthorizations
<1>17. CASE DeleteAuthorizationWithID
  BY <1>5, <1>6, <1>17 DEF DeleteAuthorizationWithID
<1> QED BY <1>7, <1>10, <1>11, <1>12, <1>13, <1>14, <1>15, <1>17, WayToWatched

\* Only the worker creates, and it goes to create from the search that has found nothing.
LEMMA SearchStep ==
    ASSUME TypeOK, SearchOK, Next
    PROVE  SearchOK'
<1>1. worker \in Workers(Calls)
  BY DEF TypeOK, ControllerTypeOK
<1>2. "CreateAuthorization" \in Watched
  BY DEF Watched
<1> SUFFICES ASSUME At("CreateAuthorization")'
             PROVE  Described(local.org, Me)' = {}
  BY DEF SearchOK
<1>3. ASSUME ReturnError
      PROVE  FALSE
  BY <1>3, IdleFacts DEF ReturnError, Finish, At
<1>4. ASSUME NEW call, GoTo(call)
      PROVE  call = "CreateAuthorization" /\ worker'.key = worker.key /\ worker'.obj = worker.obj
  BY <1>1, <1>4 DEF GoTo, Workers, At
<1>5. CASE Settled
  <2>1. /\ At("CreateAuthorization")
        /\ Me' = Me
        /\ local'.org = local.org
    BY <1>2, <1>5 DEF Settled, At, Me
  <2>2. CASE CreateAuthorization
    <3>1. ReturnError \/ GoTo("CreateSecret")
      BY <2>2 DEF CreateAuthorization, GiveUp
    <3> QED BY <1>3, <1>4, <3>1
  <2>3. CASE auths' \subseteq auths
    BY <2>1, <2>3 DEF SearchOK, Described
  <2> QED BY <2>2, <2>3, ServerSteps
<1>6. CASE FinalizeReadConfig \/ FinalizeFindOrganization \/ FinalizeFindAuthorizations
           \/ DeleteAuthorizationWithID \/ ReconcileReadConfig \/ ReconcileFindOrganization
  BY <1>3, <1>4, <1>6 DEF FinalizeReadConfig, FinalizeFindOrganization, FinalizeFindAuthorizations,
     DeleteAuthorizationWithID, ReconcileReadConfig, ReconcileFindOrganization, GiveUp
<1>7. CASE ReconcileFindAuthorizations
  <2>1. /\ Described(local.org, Me) = {}
        /\ Me' = Me
        /\ UNCHANGED <<local, auths>>
    BY <1>4, <1>7 DEF ReconcileFindAuthorizations, Elsewhere, serverVars, Me
  <2> QED BY <2>1 DEF Described
<1> QED BY <1>5, <1>6, <1>7, WayToWatched

(***************************************************************************)
(* Owners.                                                                   *)
(***************************************************************************)
\* The organization of an authorization that is left is there: an organization that goes
\* takes its authorizations along.
LEMMA OrgStays ==
    ASSUME TypeOK, Next, NEW a \in auths, a \in auths', OrgExists(a.org)
    PROVE  OrgExists(a.org)'
<1>1. a.org \in OrgIds /\ orgs \in [OrgNames -> [up : BOOLEAN, gen : Nat]]
  BY DEF TypeOK, Authorization
<1>2. CASE UNCHANGED orgs
  BY <1>2 DEF OrgExists
<1>3. ASSUME NEW o \in OrgNames, ToggleOrganization(o)
      PROVE  OrgExists(a.org)'
  <2>1. a.org[1] # o
    <3>1. CASE orgs[o].up /\ auths' = {b \in auths : b.org # OrgId(o)}
      BY <1>1, <3>1 DEF OrgId, OrgIds, OrgExists
    <3>2. CASE ~orgs[o].up
      BY <3>2 DEF OrgExists
    <3> QED BY <1>3, <3>1, <3>2 DEF ToggleOrganization
  <2>2. orgs'[a.org[1]] = orgs[a.org[1]]
    BY <1>1, <1>3, <2>1 DEF ToggleOrganization, OrgIds
  <2> QED BY <2>2 DEF OrgExists
<1> QED BY <1>2, <1>3, ServerSteps

\* The worker comes to RemoveFinalizer, and to the search of an organization, only as
\* Guards allows.
LEMMA GuardsSeen ==
    ASSUME ControllerAssumption, TypeOK, Core, Next, NEW a \in auths,
           OrgExists(a.org), Guards(a), a.by[1] \notin moved, Me' = a.by, ~At("idle")'
    PROVE  /\ At("RemoveFinalizer")' => a.by \in skipped'
           /\ At("FinalizeFindAuthorizations")' => a.org = local'.org
<1> DEFINE goal == /\ At("RemoveFinalizer")' => a.by \in skipped'
                   /\ At("FinalizeFindAuthorizations")' => a.org = local'.org
<1>1. /\ worker \in Workers(Calls)
      /\ local \in Locals
      /\ a.org \in OrgIds
  BY DEF TypeOK, ControllerTypeOK, Authorization
<1>2. /\ OrgExists(a.org)
      /\ a.org[1] = Home[a.by[1]]
      /\ At("RemoveFinalizer") /\ a.by = Me => a.by \in skipped
      /\ At("FinalizeFindAuthorizations") /\ a.by = Me => a.org = local.org
  BY DEF Guards
<1>3. skipped \subseteq skipped'
  BY ServerSteps
<1>4. ASSUME worker'.key = worker.key, worker'.obj = worker.obj
      PROVE  a.by = Me /\ a.by[1] = worker.key
  BY <1>4 DEF Me
<1>5. ASSUME ReturnError
      PROVE  goal
  BY <1>5, IdleFacts DEF ReturnError, Finish, At
<1>6. ASSUME NEW call, GoTo(call)
      PROVE  worker'.pc = call /\ a.by = Me /\ a.by[1] = worker.key
  BY <1>1, <1>4, <1>6 DEF GoTo, Workers
<1>7. ASSUME NEW call \in {"FinalizeFindOrganization", "DeleteAuthorizationWithID",
                           "DeletedStatus", "ReconcileFindOrganization", "ReconcileFindAuthorizations",
                           "CreateAuthorization", "CreateSecret"}, GoTo(call)
      PROVE  goal
  BY <1>6, <1>7 DEF At
<1>8. ASSUME At("FinalizeFindOrganization"), a.by[1] = worker.key
      PROVE  a.org[1] = local.orgName /\ orgs[local.orgName].up
  BY <1>2, <1>8 DEF Core, LocalOK, OrgExists, At
<1>9. CASE Settled
  <2>1. CASE worker'.pc \notin Watched
    BY <2>1 DEF At, Watched
  <2>2. CASE worker'.pc = worker.pc /\ worker'.key = worker.key /\ worker'.obj = worker.obj
             /\ local'.org = local.org
    BY <1>2, <1>3, <1>4, <2>2 DEF At
  <2> QED BY <1>9, <2>1, <2>2 DEF Settled
<1>10. CASE FinalizeReadConfig
  <2>1. CASE GoTo("RemoveFinalizer") /\ skipped' = skipped \cup {Me}
    BY <1>6, <2>1 DEF At
  <2> QED BY <1>5, <1>7, <1>10, <2>1 DEF FinalizeReadConfig, GiveUp
<1>11. CASE FinalizeFindOrganization
  <2>1. At("FinalizeFindOrganization")
    BY <1>11 DEF FinalizeFindOrganization
  <2>2. CASE GoTo("RemoveFinalizer") /\ ~orgs[local.orgName].up
    BY <1>6, <1>8, <2>1, <2>2
  <2>3. CASE GoTo("FinalizeFindAuthorizations") /\ local' = [local EXCEPT !.org = OrgId(local.orgName)]
    <3>1. worker'.pc = "FinalizeFindAuthorizations" /\ a.org[1] = local.orgName
      BY <1>6, <1>8, <2>1, <2>3
    <3>2. a.org = OrgId(local.orgName)
      BY <1>1, <1>2, <3>1 DEF OrgExists, OrgId, OrgIds
    <3>3. local'.org = OrgId(local.orgName)
      BY <1>1, <2>3 DEF Locals
    <3> QED BY <3>1, <3>2, <3>3 DEF At
  <2> QED BY <1>11, <2>2, <2>3 DEF FinalizeFindOrganization
<1>12. CASE FinalizeFindAuthorizations
  <2>1. CASE GoTo("RemoveFinalizer") /\ Described(local.org, Me) = {}
    BY <1>2, <1>6, <1>12, <2>1 DEF Described, FinalizeFindAuthorizations
  <2> QED BY <1>7, <1>12, <2>1 DEF FinalizeFindAuthorizations
<1>13. CASE ReconcileReadConfig
  BY <1>5, <1>7, <1>13 DEF ReconcileReadConfig, GiveUp
<1>14. CASE ReconcileFindOrganization
  BY <1>5, <1>7, <1>14 DEF ReconcileFindOrganization, GiveUp
<1>15. CASE ReconcileFindAuthorizations
  BY <1>7, <1>15 DEF ReconcileFindAuthorizations
<1>16. CASE DeleteAuthorizationWithID
  BY <1>5, <1>7, <1>16 DEF DeleteAuthorizationWithID
<1> QED BY <1>9, <1>10, <1>11, <1>12, <1>13, <1>14, <1>15, <1>16, WayToWatched

\* An authorization that was there keeps what Guards says.
LEMMA GuardsKept ==
    ASSUME ControllerAssumption, TypeOK, Core, Progress, Next, NEW a \in auths,
           OrgExists(a.org), Guards(a), a.by[1] \notin moved'
    PROVE  Guards(a)'
<1>1. /\ a.by \in Identities
      /\ skipped \subseteq skipped'
      /\ a.by[1] \notin moved
  BY ServerSteps DEF TypeOK, Authorization
<1>2. Held(a.by)' \/ a.by \in skipped'
  <2>1. PICK k \in Keys, u \in Nat : a.by = <<k, u>>
    BY <1>1 DEF Identities
  <2>2. Held(<<k, u>>) => Held(<<k, u>>)' \/ (At("RemoveFinalizer") /\ Me = <<k, u>>)
    BY DEF Progress, HeldOn
  <2> QED BY <1>1, <2>1, <2>2 DEF Guards
<1>3. /\ At("RemoveFinalizer")' /\ a.by = Me' => a.by \in skipped'
      /\ At("FinalizeFindAuthorizations")' /\ a.by = Me' => a.org = local'.org
  BY <1>1, GuardsSeen DEF At
<1> QED BY <1>2, <1>3 DEF Guards

LEMMA OwnerKept ==
    ASSUME ControllerAssumption, TypeOK, Core, Progress, Next, NEW a \in auths, OwnerOK(a),
           a \in auths'
    PROVE  OwnerOK(a)'
<1>1. moved \subseteq moved'
  BY ServerSteps
<1> QED BY <1>1, OrgStays, GuardsKept DEF OwnerOK

\* A resource whose copy is live and has the finalizer still exists, however old the
\* copy: an authorization created for it has an owner.
LEMMA CopyHeld ==
    ASSUME ControllerAssumption, TypeOK, Core, worker.pc \in ReconcileCalls
    PROVE  Held(Me)
<1>1. /\ ~At("idle")
      /\ worker.key \in Keys
      /\ VersionsType
  BY MeType DEF ReconcileCalls, At, TypeOK, ControllerTypeOK, VersionsType
<1>2. /\ Live(worker.obj)
      /\ worker.obj.finalizer
      /\ \A i \in 1 .. Len(versions[worker.key]) : Before(worker.obj, versions[worker.key][i])
  BY <1>1 DEF Core, CopyOK
<1>3. Before(worker.obj, Latest(worker.key))
  BY <1>1, <1>2, VersionFacts DEF Latest
<1> QED BY <1>1, <1>2, <1>3, MeType DEF Before, Held

\* A new authorization is the worker's, for a resource that is there and is not being
\* deleted.
LEMMA NewIsMine ==
    ASSUME ControllerAssumption, TypeOK, Core, Next, NEW a \in auths', a \notin auths
    PROVE  /\ CreateAuthorization
           /\ worker.pc = "CreateAuthorization"
           /\ auths' = auths \cup {a}
           /\ a.org = local.org
           /\ a.by = Me
           /\ OrgExists(local.org)
           /\ Live(worker.obj)
           /\ Held(Me)
<1>1. CreateAuthorization
  BY ServerSteps
<1>2. worker.pc = "CreateAuthorization"
  BY <1>1 DEF CreateAuthorization, At
<1>3. PICK id : /\ auths' = auths \cup {[id |-> id, org |-> local.org, by |-> Me]}
                /\ OrgExists(local.org)
  BY <1>1 DEF CreateAuthorization
<1>4. a = [id |-> id, org |-> local.org, by |-> Me]
  BY <1>3
<1>5. a.org = local.org /\ a.by = Me
  BY <1>4
<1>6. Live(worker.obj) /\ Held(Me)
  BY <1>2, CopyHeld DEF Core, CopyOK, At, ReconcileCalls
<1> QED BY <1>1, <1>2, <1>3, <1>4, <1>5, <1>6

LEMMA NewOwner ==
    ASSUME ControllerAssumption, TokenAssumption, TypeOK, Core, Next,
           NEW a \in auths', a \notin auths
    PROVE  OwnerOK(a)'
<1>1. /\ CreateAuthorization
      /\ worker.pc = "CreateAuthorization"
      /\ a.org = local.org
      /\ a.by = Me
      /\ OrgExists(local.org)
      /\ Held(Me)
  BY NewIsMine
<1>2. UNCHANGED <<versions, orgs, moved>> /\ worker \in Workers(Calls)
  BY <1>1 DEF CreateAuthorization, TypeOK, ControllerTypeOK
<1>3. Me[1] = worker.key
  BY DEF Me
<1>4. a.by[1] \notin moved' => a.org[1] = Home[a.by[1]]
  BY <1>1, <1>2, <1>3 DEF Core, LocalOK
<1>5. OrgExists(a.org)' /\ Held(a.by)'
  BY <1>1, <1>2 DEF OrgExists, Held, Latest
<1>6. ~At("RemoveFinalizer")' /\ ~At("FinalizeFindAuthorizations")'
  <2>1. worker' = Idle \/ GoTo("CreateSecret")
    BY <1>1 DEF CreateAuthorization, GiveUp, ReturnError, Finish
  <2> QED BY <1>2, <2>1, IdleFacts DEF GoTo, Workers, At
<1> QED BY <1>4, <1>5, <1>6 DEF OwnerOK, Guards

\* It is the resource's only one in the organization.
LEMMA OneStep ==
    ASSUME ControllerAssumption, TypeOK, Core, SearchOK, OneAuthorization, Next
    PROVE  OneAuthorization'
<1>1. CASE auths' \subseteq auths
  BY <1>1 DEF OneAuthorization
<1>2. ASSUME NEW new \in auths', new \notin auths
      PROVE  OneAuthorization'
  <2>1. \A a \in auths : ~(a.org = new.org /\ a.by = new.by)
    BY <1>2, NewIsMine DEF SearchOK, Described, At
  <2> QED BY <1>2, <2>1, NewIsMine DEF OneAuthorization
<1> QED BY <1>1, <1>2

(***************************************************************************)
(* The inductive invariant.                                                  *)
(***************************************************************************)
Safe == TypeOK /\ Inv

LEMMA InitSafe ==
    ASSUME ControllerAssumption, TokenAssumption, Init
    PROVE  Safe
<1>1. Good(FinalizeCalls, ReconcileCalls)
  BY InitGood DEF Init
<1>2. WorldTypeOK
  <2>1. [secret |-> NoSecret, current |-> TRUE] \in Copies
    BY LocalTypes DEF Copies
  <2>2. orgs \in [OrgNames -> [up : BOOLEAN, gen : Nat]]
    BY DEF Init
  <2>3. cache \in [SecretNames -> Copies] /\ secrets \in [SecretNames -> Secret]
    BY <2>1, LocalTypes DEF Init
  <2>4. config \in [Keys -> Configs]
    BY DEF Init, Configs, TokenAssumption
  <2> QED BY <2>2, <2>3, <2>4, LocalTypes DEF Init, WorldTypeOK
<1>3. TypeOK
  BY <1>1, <1>2, CallsSplit, TypeOKSplit DEF Good
<1>4. worker.pc = "idle"
  BY IdleFacts DEF Init, ControllerInit
<1>5. ConfigOK /\ LocalOK /\ SearchOK /\ OneAuthorization /\ \A a \in auths : OwnerOK(a)
  BY <1>4 DEF Init, ConfigOK, LocalOK, SearchOK, OneAuthorization, At
<1> QED BY <1>1, <1>3, <1>5 DEF Safe, Inv, Core, Good

\* Types, copies, Configs and what the worker remembers.
LEMMA NextCore ==
    ASSUME ControllerAssumption, TokenAssumption, TypeOK, Core, Next
    PROVE  TypeOK' /\ Core' /\ Progress
<1>1. Good(FinalizeCalls, ReconcileCalls)' /\ Progress
  BY NextIsStep DEF StepOK
<1>2. TypeOK'
  BY <1>1, WorldTypes, CallsSplit, TypeOKSplit DEF Good, TypeOK, WorldTypeOK
<1> QED BY <1>1, <1>2, ConfigStep, LocalStep DEF Good, Core

LEMMA NextSafe ==
    ASSUME ControllerAssumption, TokenAssumption, Safe, Next
    PROVE  Safe'
<1>1. TypeOK /\ Core /\ SearchOK /\ Inv
  BY DEF Safe, Inv
<1>2. TypeOK' /\ Core' /\ Progress
  BY <1>1, NextCore
<1>3. SearchOK'
  BY <1>1, SearchStep
<1>4. OneAuthorization'
  BY <1>1, OneStep DEF Inv
<1>5. \A a \in auths' : OwnerOK(a)'
  BY <1>1, <1>2, NewOwner, OwnerKept DEF Inv
<1> QED BY <1>2, <1>3, <1>4, <1>5 DEF Safe, Inv

\* What others do while the controller stands still: calls of theirs fail, and
\* organizations go with their authorizations and come back without.
LEMMA OthersSafe ==
    ASSUME ControllerAssumption, TokenAssumption, Safe,
           UNCHANGED <<versions, queue, worker, secrets, cache, config, local, skipped, moved>>,
           faults' \in 0 .. MaxFaults,
           orgs' \in [OrgNames -> [up : BOOLEAN, gen : Nat]],
           \A o \in OrgNames : orgs[o].gen <= orgs'[o].gen,
           auths' \subseteq auths,
           \A a \in auths' : OrgExists(a.org) => OrgExists(a.org)'
    PROVE  Safe'
<1>1. TypeOK /\ Core /\ Inv
  BY DEF Safe, Inv
<1>2. StepOK(FinalizeCalls, ReconcileCalls)
  BY <1>1, CoreGood, StillStep
<1>3. TypeOK'
  <2>1. WorldTypeOK'
    BY <1>1 DEF TypeOK, WorldTypeOK
  <2> QED BY <1>2, <2>1, CallsSplit DEF StepOK, Good, TypeOK, WorldTypeOK
<1>4. LocalOK'
  <2>1. \A org \in OrgIds :
           org[2] <= orgs[org[1]].gen => org[2] <= orgs'[org[1]].gen
    BY <1>1 DEF TypeOK, OrgIds
  <2> QED BY <1>1, <2>1 DEF Core, LocalOK
<1>5. ConfigOK' /\ SearchOK' /\ OneAuthorization'
  BY <1>1 DEF Core, Inv, ConfigOK, SearchOK, OneAuthorization, Described, At, Me
<1>6. \A a \in auths' : OwnerOK(a)'
  <2>1. \A me : Held(me) <=> Held(me)'
    BY DEF Held, Latest
  <2> QED BY <1>1, <2>1 DEF Inv, OwnerOK, Guards, At, Me
<1> QED BY <1>2, <1>3, <1>4, <1>5, <1>6 DEF Safe, Inv, Core, StepOK, Good

\* Nothing that is stated here of a state depends on more than the variables.
LEMMA StutterSafe ==
    ASSUME UNCHANGED vars
    PROVE  Safe <=> Safe'
<1>1. UNCHANGED <<versions, queue, worker, faults, orgs, auths, secrets, cache, config, local,
                  skipped, moved>>
  BY DEF vars, controllerVars, serverVars, secretVars
<1>2. \A k : Latest(k)' = Latest(k)
  BY <1>1 DEF Latest
<1>3. TypeOK <=> TypeOK'
  BY <1>1 DEF TypeOK, ControllerTypeOK, At
<1>4. HistoryOK <=> HistoryOK'
  BY <1>1 DEF HistoryOK
<1>5. CopyOK(FinalizeCalls, ReconcileCalls) <=> CopyOK(FinalizeCalls, ReconcileCalls)'
  BY <1>1, <1>2 DEF CopyOK, At
<1>6. (ConfigOK <=> ConfigOK') /\ (OneAuthorization <=> OneAuthorization')
  BY <1>1 DEF ConfigOK, OneAuthorization
<1>7. (LocalOK <=> LocalOK') /\ (SearchOK <=> SearchOK')
  BY <1>1 DEF LocalOK, SearchOK, At, Described, Me
<1>8. (\A a \in auths : OwnerOK(a)) <=> (\A a \in auths : OwnerOK(a))'
  BY <1>1, <1>2 DEF OwnerOK, Guards, OrgExists, Held, At, Me
<1> QED BY <1>3, <1>4, <1>5, <1>6, <1>7, <1>8 DEF Safe, Inv, Core

\* The types of the controller and of the world around it, and the inductive invariant,
\* hold in every reachable state, however many resources share a Secret.
THEOREM InvariantHolds == Spec => [](TypeOK /\ Inv)
<1>1. Init => Safe
  BY ControllerAssumption, TokenAssumption, InitSafe
<1>2. Safe /\ [Next]_vars => Safe'
  BY ControllerAssumption, TokenAssumption, NextSafe, StutterSafe
<1>3. Safe <=> TypeOK /\ Inv
  BY DEF Safe
<1> QED BY <1>1, <1>2, <1>3, PTL DEF Spec

\* Every variable keeps its type, also after a restart in the middle of a handler.
THEOREM TypeCorrect == Spec => []TypeOK
BY InvariantHolds, PTL

\* An authorization of the operator belongs to a resource that is still there with its
\* finalizer, unless the Config was missing when the resource went or has named another
\* organization: for any number of resources, organizations, faults and panics, and
\* although organizations come and go under the worker's feet.
THEOREM NothingOrphaned == Spec => []NoOrphan
<1>1. TypeOK /\ Inv => NoOrphan
  BY DEF Inv, OwnerOK, Guards, NoOrphan
<1> QED BY <1>1, InvariantHolds, PTL

\* A resource has at most one authorization in an organization, although the answer to a
\* creation may be lost and the manager may stop on it.
THEOREM NoneTwice == Spec => []OneAuthorization
<1>1. TypeOK /\ Inv => OneAuthorization
  BY DEF Inv
<1> QED BY <1>1, InvariantHolds, PTL

\* status.phase never moves back, although the last status update of a Token is written
\* again whenever its authorization had to be created anew.
THEOREM PhaseMovesForward == Spec => PhaseForward
<1> DEFINE step == \A k \in Keys :
                      Latest(k)'.uid = Latest(k).uid
                          => PhaseRank[Latest(k).phase] <= PhaseRank[Latest(k)'.phase]
<1>1. TypeOK /\ Inv /\ [Next]_vars => [step]_versions
  <2>1. ASSUME TypeOK, Inv, Next
        PROVE  step
    BY <2>1, ControllerAssumption, NextIsStep DEF Inv, StepOK, Progress, Forward
  <2>2. UNCHANGED vars => UNCHANGED versions
    BY DEF vars, controllerVars
  <2> QED BY <2>1, <2>2
<1> QED BY <1>1, InvariantHolds, PTL DEF Spec, PhaseForward

(***************************************************************************)
(* Why the stamps do not matter: a Token that is marked as deleted has nothing  *)
(* left to delete, so that its deletion is recorded once.                      *)
(***************************************************************************)
LEMMA NextWrites ==
    ASSUME ControllerAssumption, TypeOK, Core, Next
    PROVE  Writes
<1>1. Good(FinalizeCalls, ReconcileCalls) /\ Classes(FinalizeCalls, ReconcileCalls) /\ VersionsType
  BY CoreGood, CallsSplit DEF TypeOK, ControllerTypeOK, VersionsType
<1>2. CASE FinalizeStatus \/ DeletedStatus \/ RemoveFinalizer \/ AddFinalizer
           \/ InitializeStatus \/ CreatedStatus
  BY <1>1, <1>2, CreatedIsMark, HandlerWrites DEF FinalizeStatus, DeletedStatus, RemoveFinalizer,
     AddFinalizer, InitializeStatus
<1>3. ASSUME NEW k \in Keys, Create(k) \/ Delete(k) \/ Edit(k)
      PROVE  Writes
  BY <1>1, <1>3, UserWrites DEF Create, Delete, Edit
<1>4. CASE Restart \/ CreateAuthorizationPanics \/ \E k \in Keys : Informer(k)
  BY <1>4 DEF Restart, CreateAuthorizationPanics, RestartManager, Informer, Writes
<1>5. CASE UNCHANGED versions
  BY <1>5 DEF Writes
<1> QED
  BY <1>2, <1>3, <1>4, <1>5
  DEF Next, Work, FinalizeReadConfig, FinalizeFindOrganization, FinalizeFindAuthorizations,
      DeleteAuthorizationWithID, ReconcileReadConfig, ReconcileFindOrganization,
      ReconcileFindAuthorizations, CreateAuthorization, CreateSecret, GetSecret, UpdateSecret,
      Fail, CallFails, Reconcile, Dispatch, ChangeConfig, Drift, ToggleOrganization,
      SecretInformer, CollectSecret, EditSecret, OutsideWrite, controllerVars

\* Whatever is known of a Token that is marked as deleted says that it is being deleted,
\* and no authorization of it is left.
MarkedOK ==
    \A k \in Keys : \A obj \in Known(k) :
        reasonDeleted \in obj.conds =>
            /\ \A other \in Known(k) : other.uid = obj.uid => other.deleting
            /\ k \notin moved => \A a \in auths : a.by # <<k, obj.uid>>

\* The worker deletes the only authorization there is, and has not marked the Token yet.
DeletionOK ==
    worker.key \notin moved =>
        /\ At("DeleteAuthorizationWithID") =>
              /\ reasonDeleted \notin worker.obj.conds
              /\ \A a \in auths : a.by = Me => a.id = local.auth
        /\ At("DeletedStatus") =>
              /\ reasonDeleted \notin worker.obj.conds
              /\ \A a \in auths : a.by # Me

\* Nothing is left of a Token that is marked, and nothing comes.
LEMMA MarkedStays ==
    ASSUME ControllerAssumption, TokenAssumption, TypeOK, Core, MarkedOK, Next,
           NEW k \in Keys, NEW obj \in Known(k), reasonDeleted \in obj.conds
    PROVE  /\ \A other \in Known(k)' : other.uid = obj.uid => other.deleting
           /\ k \notin moved' => \A a \in auths' : a.by # <<k, obj.uid>>
<1>1. TypeOK' /\ Core' /\ Progress /\ Writes /\ VersionsType
  BY NextCore, NextWrites DEF TypeOK, ControllerTypeOK, VersionsType
<1>2. Good(FinalizeCalls, ReconcileCalls)
  BY CoreGood
<1>3. ASSUME NEW other \in Known(k)', other.uid = obj.uid
      PROVE  other.deleting
  <2>1. CASE other \in Known(k)
    BY <1>3, <2>1 DEF MarkedOK
  <2>2. CASE other \in Object /\ Written(k, other) /\ other = Latest(k)'
    <3>1. obj \in Object /\ Latest(k) \in Object /\ obj.uid <= Latest(k).uid
          /\ Latest(k) \in Known(k)
      BY <1>1, <1>2, KnownFacts, VersionFacts DEF Before
    <3>2. Latest(k).exists /\ other.uid = Latest(k).uid
      BY <1>3, <2>2, <3>1 DEF Written, NewObject, Object
    <3>3. Latest(k).deleting
      BY <1>3, <3>1, <3>2 DEF MarkedOK
    <3>4. Before(Latest(k), other)
      BY <1>1, <2>2, LatestForward DEF Core
    <3> QED BY <3>2, <3>3, <3>4 DEF Before
  <2> QED BY <1>1, <1>3, <2>1, <2>2, KnownStep DEF Progress
<1>4. ASSUME k \notin moved', NEW a \in auths', a.by = <<k, obj.uid>>
      PROVE  FALSE
  <2>1. a \notin auths
    BY <1>4, ServerSteps DEF MarkedOK
  <2>2. a.by = Me /\ Live(worker.obj)
    BY <2>1, NewIsMine
  <2>3. worker.key = k /\ worker.obj.uid = obj.uid
    BY <1>4, <2>2 DEF Me
  <2>4. worker.obj \in Known(k)
    BY <2>3 DEF Known
  <2> QED BY <2>2, <2>3, <2>4 DEF MarkedOK, Live
<1> QED BY <1>3, <1>4

\* A Token is marked in DeletedStatus, from the newest version of it.
LEMMA NewlyMarked ==
    ASSUME ControllerAssumption, NEW k \in Keys, NEW obj \in Object, Written(k, obj),
           reasonDeleted \in obj.conds
    PROVE  /\ Latest(k).exists
           /\ obj.uid = Latest(k).uid
           /\ \/ reasonDeleted \in Latest(k).conds
              \/ At("DeletedStatus") /\ worker.key = k /\ worker.obj = Latest(k)
<1>1. obj # NewObject(Latest(k).uid + 1)
  BY DEF NewObject
<1>2. reasonDeleted \notin {reasonFinalizerAdded, reasonCreated}
  BY DEF reasonDeleted, reasonFinalizerAdded, reasonCreated
<1> QED BY <1>1, <1>2 DEF Written, Stated

LEMMA MarkedStep ==
    ASSUME ControllerAssumption, TokenAssumption, TypeOK, Core, MarkedOK, DeletionOK, Next
    PROVE  MarkedOK'
<1>1. TypeOK' /\ Core' /\ Progress /\ Writes /\ VersionsType
  BY NextCore, NextWrites DEF TypeOK, ControllerTypeOK, VersionsType
<1>2. Good(FinalizeCalls, ReconcileCalls)
  BY CoreGood
<1> SUFFICES ASSUME NEW k \in Keys, NEW obj \in Known(k)', reasonDeleted \in obj.conds
             PROVE  /\ \A other \in Known(k)' : other.uid = obj.uid => other.deleting
                    /\ k \notin moved' => \A a \in auths' : a.by # <<k, obj.uid>>
  BY DEF MarkedOK
<1>3. CASE obj \in Known(k)
  BY <1>3, MarkedStays
<1>4. CASE obj \in Object /\ Written(k, obj) /\ obj = Latest(k)'
  <2>1. Latest(k).exists /\ obj.uid = Latest(k).uid
    BY <1>4, NewlyMarked
  <2>2. Latest(k) \in Known(k)
    BY <1>2, KnownFacts
  <2>3. CASE reasonDeleted \in Latest(k).conds
    BY <2>1, <2>2, <2>3, MarkedStays
  <2>4. CASE At("DeletedStatus") /\ worker.key = k /\ worker.obj = Latest(k)
    <3>1. ~At("idle") /\ worker.obj.deleting
      BY <2>4 DEF Core, CopyOK, At, FinalizeCalls, Dying
    <3>2. ASSUME NEW other \in Known(k)', other.uid = obj.uid
          PROVE  other.deleting
      <4>1. CASE other \in Known(k)
        <5>1. CASE other = worker.obj
          BY <3>1, <5>1
        <5>2. ASSUME NEW i \in 1 .. Len(versions[k]), other = versions[k][i]
              PROVE  other.deleting
          <6>1. Before(worker.obj, other)
            BY <2>4, <3>1, <5>2 DEF Core, CopyOK
          <6> QED BY <2>1, <2>4, <3>1, <3>2, <6>1 DEF Before
        <5> QED BY <4>1, <5>1, <5>2 DEF Known
      <4>2. CASE other = Latest(k)'
        <5>1. Before(Latest(k), other)
          BY <1>1, <4>2, LatestForward DEF Core
        <5> QED BY <2>1, <2>4, <3>1, <3>2, <5>1 DEF Before
      <4> QED BY <1>1, <3>2, <4>1, <4>2, KnownStep DEF Progress
    <3>3. ASSUME k \notin moved', NEW a \in auths', a.by = <<k, obj.uid>>
          PROVE  FALSE
      <4>1. k \notin moved /\ Me = <<k, obj.uid>>
        BY <2>1, <2>4, <3>3, ServerSteps DEF Me
      <4>2. a \notin auths
        BY <2>4, <3>3, <4>1 DEF DeletionOK
      <4> QED BY <2>4, <3>3, <4>2, NewIsMine DEF At
    <3> QED BY <3>2, <3>3
  <2> QED BY <1>4, <2>3, <2>4, NewlyMarked
<1> QED BY <1>1, <1>3, <1>4, KnownStep DEF Progress

\* The worker finds the only authorization, since there is one for each organization and
\* all that are left are in the organization it searches.
LEMMA DeletionStep ==
    ASSUME ControllerAssumption, TypeOK, Inv, MarkedOK, DeletionOK, Next
    PROVE  DeletionOK'
<1>1. /\ worker \in Workers(Calls)
      /\ local \in Locals
      /\ auths \subseteq Authorization
      /\ Core
  BY DEF TypeOK, ControllerTypeOK, Inv
<1>2. SUFFICES ASSUME worker'.key \notin moved',
                      At("DeleteAuthorizationWithID")' \/ At("DeletedStatus")'
               PROVE  /\ At("DeleteAuthorizationWithID")' =>
                            /\ reasonDeleted \notin worker'.obj.conds
                            /\ \A a \in auths' : a.by = Me' => a.id = local'.auth
                      /\ At("DeletedStatus")' =>
                            /\ reasonDeleted \notin worker'.obj.conds
                            /\ \A a \in auths' : a.by # Me'
  BY DEF DeletionOK, At
<1> DEFINE goal == /\ At("DeleteAuthorizationWithID")' =>
                         /\ reasonDeleted \notin worker'.obj.conds
                         /\ \A a \in auths' : a.by = Me' => a.id = local'.auth
                   /\ At("DeletedStatus")' =>
                         /\ reasonDeleted \notin worker'.obj.conds
                         /\ \A a \in auths' : a.by # Me'
<1>3. moved \subseteq moved'
  BY ServerSteps
<1>4. ASSUME ReturnError
      PROVE  FALSE
  BY <1>2, <1>4, IdleFacts DEF ReturnError, Finish, At
<1>5. ASSUME NEW call, GoTo(call)
      PROVE  worker'.pc = call /\ worker'.key = worker.key /\ worker'.obj = worker.obj /\ Me' = Me
  BY <1>1, <1>5 DEF GoTo, Workers, Me
<1>6. CASE Settled
  <2>1. /\ worker'.pc = worker.pc
        /\ worker'.key = worker.key
        /\ worker'.obj = worker.obj
        /\ local'.auth = local.auth
    BY <1>2, <1>6 DEF Settled, Watched, At
  <2>2. Me' = Me /\ worker.key \notin moved
    BY <1>2, <1>3, <2>1 DEF Me
  <2>3. auths' \subseteq auths
    BY <1>1, <1>2, <2>1, NewIsMine DEF At
  <2> QED BY <2>1, <2>2, <2>3 DEF DeletionOK, At
<1>7. CASE FinalizeFindAuthorizations
  <2>1. PICK a \in Described(local.org, Me) :
           GoTo("DeleteAuthorizationWithID") /\ local' = [local EXCEPT !.auth = a.id]
    BY <1>2, <1>5, <1>7 DEF FinalizeFindAuthorizations, At
  <2>2. /\ worker'.pc = "DeleteAuthorizationWithID"
        /\ worker'.key = worker.key
        /\ worker'.obj = worker.obj
        /\ Me' = Me
        /\ UNCHANGED <<auths, moved>>
        /\ local'.auth = a.id
    BY <1>1, <1>5, <1>7, <2>1 DEF FinalizeFindAuthorizations, Elsewhere, serverVars, Locals
  <2>3. worker.key \in Keys /\ Me = <<worker.key, worker.obj.uid>> /\ worker.obj \in Known(worker.key)
    BY <1>7, MeType DEF FinalizeFindAuthorizations, At, Known
  <2>4. reasonDeleted \notin worker.obj.conds
    BY <1>2, <2>1, <2>2, <2>3 DEF MarkedOK, Described
  <2>5. ASSUME NEW b \in auths, b.by = Me
        PROVE  b = a
    <3>1. b.org = local.org
      BY <1>2, <1>7, <2>2, <2>3, <2>5 DEF Inv, OwnerOK, Guards, FinalizeFindAuthorizations
    <3> QED BY <2>1, <2>5, <3>1 DEF Inv, OneAuthorization, Described
  <2> QED BY <2>2, <2>4, <2>5 DEF At
<1>8. CASE DeleteAuthorizationWithID
  <2>1. GoTo("DeletedStatus") /\ auths' = {a \in auths : a.id # local.auth}
    BY <1>4, <1>8 DEF DeleteAuthorizationWithID
  <2>2. /\ worker'.pc = "DeletedStatus"
        /\ worker'.key = worker.key
        /\ worker'.obj = worker.obj
        /\ Me' = Me
    BY <1>5, <2>1
  <2>3. At("DeleteAuthorizationWithID") /\ worker.key \notin moved
    BY <1>2, <1>3, <1>8, <2>2 DEF DeleteAuthorizationWithID
  <2> QED BY <2>1, <2>2, <2>3 DEF DeletionOK, At
<1>9. CASE \/ FinalizeReadConfig \/ FinalizeFindOrganization
           \/ ReconcileReadConfig \/ ReconcileFindOrganization \/ ReconcileFindAuthorizations
  <2>1. ReturnError \/ \E call \in Calls \ {"DeleteAuthorizationWithID", "DeletedStatus"} : GoTo(call)
    BY <1>9 DEF FinalizeReadConfig, FinalizeFindOrganization, ReconcileReadConfig,
       ReconcileFindOrganization, ReconcileFindAuthorizations, GiveUp, Calls, CommonCalls
  <2> QED BY <1>2, <1>4, <1>5, <2>1 DEF At
<1> QED BY <1>6, <1>7, <1>8, <1>9, WayToWatched

\* The stamps of two status updates may coincide, but the update of a Token that is not
\* marked as deleted is no stamp alone, and that of a Token that is ready names its new
\* authorization: no resource is forgotten as long as no Config has moved.
THEOREM StampsHarmless == Spec => []StampsDoNotMatter
<1> DEFINE Marks == MarkedOK /\ DeletionOK /\ StampsDoNotMatter
<1>1. ASSUME Init
      PROVE  Marks
  <2>1. auths = {} /\ worker = Idle /\ \A k \in Keys : versions[k] = <<NoObject>>
    BY <1>1 DEF Init, ControllerInit
  <2>2. MarkedOK /\ DeletionOK
    <3>1. \A k \in Keys : \A obj \in Known(k) : obj = NoObject
      BY <2>1, IdleFacts DEF Known
    <3>2. reasonDeleted \notin NoObject.conds
      BY DEF NoObject, Gone, NewObject
    <3> QED BY <2>1, <3>1, <3>2, IdleFacts DEF MarkedOK, DeletionOK, At
  <2>3. NoLostWakeup
    BY <1>1, <2>1 DEF NoLostWakeup, Latest, NoObject, Gone
  <2> QED BY <2>2, <2>3 DEF StampsDoNotMatter
<1>2. ASSUME TypeOK, Inv, Marks, Next
      PROVE  Marks'
  <2>1. MarkedOK' /\ DeletionOK'
    BY <1>2, ControllerAssumption, TokenAssumption, MarkedStep, DeletionStep DEF Inv
  <2>2. ASSUME moved' = {}
        PROVE  NoLostWakeup'
    <3>1. moved = {} /\ NoLostWakeup
      BY <1>2, <2>2, ServerSteps DEF StampsDoNotMatter
    <3>2. Wakes
      BY <1>2, <3>1, ControllerAssumption, NextIsStep
      DEF Inv, DeletionOK, DeletedStatus, MarkDeleted
    <3> QED BY <3>1, <3>2 DEF Wakes
  <2> QED BY <2>1, <2>2 DEF StampsDoNotMatter
<1>3. ASSUME Marks, UNCHANGED vars
      PROVE  Marks'
  <2>1. UNCHANGED <<versions, queue, worker, auths, local, moved>>
    BY <1>3 DEF vars, controllerVars, serverVars
  <2>2. \A k : Known(k)' = Known(k) /\ Latest(k)' = Latest(k)
    BY <2>1 DEF Known, Latest
  <2>3. MarkedOK'
    BY <1>3, <2>1, <2>2 DEF MarkedOK
  <2>4. DeletionOK' /\ StampsDoNotMatter'
    BY <1>3, <2>1, <2>2 DEF DeletionOK, StampsDoNotMatter, NoLostWakeup, At, Me
  <2> QED BY <2>3, <2>4
<1>4. TypeOK /\ Inv /\ Marks /\ [Next]_vars => Marks'
  BY <1>2, <1>3
<1>5. Marks => StampsDoNotMatter
  OBVIOUS
<1> HIDE DEF Marks
<1> QED BY <1>1, <1>4, <1>5, InvariantHolds, PTL DEF Spec

(***************************************************************************)
(* Refinement: TokenReconciler implements Lifecycle, each step of it being a     *)
(* step of Lifecycle or nothing at all there, the panic on a lost answer         *)
(* included.                                                                 *)
(***************************************************************************)
\* The sets of Lifecycle that do not come from Controller.
Provided == {a.by : a \in auths}

Excused == skipped \cup {me \in Resources : me[1] \in moved}

\* Everything that was created was created for a resource of the run.
MakersInRange == Provided \subseteq Resources

Mapped == Safe /\ UidsOK /\ MakersInRange

LEMMA MappedFacts ==
    ASSUME Mapped
    PROVE  /\ TypeOK /\ Inv
           /\ Good(FinalizeCalls, ReconcileCalls)
           /\ Classes(FinalizeCalls, ReconcileCalls)
           /\ VersionsType /\ VersionsInRange /\ InRange(worker.obj)
           /\ Provided \subseteq Resources
BY CoreGood, CallsSplit DEF Mapped, Safe, Inv, UidsOK, MakersInRange, TypeOK, ControllerTypeOK,
   VersionsType

\* The worker's resource, whenever it is there, is one of the run.
LEMMA MeInRange ==
    ASSUME ControllerAssumption, Mapped, ~At("idle"), worker.obj.exists
    PROVE  Me \in Resources
<1>1. worker.key \in Keys /\ worker.obj.uid \in Nat /\ Me = <<worker.key, worker.obj.uid>>
  BY MappedFacts, MeType DEF Me, Workers, Object, TypeOK, ControllerTypeOK
<1>2. worker.obj.uid >= 1 /\ worker.obj.uid <= MaxUid
  BY MappedFacts DEF InRange
<1> QED BY <1>1, <1>2 DEF Resources, ControllerAssumption

(***************************************************************************)
(* Steps that leave the server alone.                                        *)
(***************************************************************************)
AtServer == <<auths, skipped, moved>>

LifeStep == Life!Next \/ UNCHANGED Life!vars

LEMMA AtServerFacts ==
    ASSUME Mapped, UNCHANGED AtServer
    PROVE  Provided' = Provided /\ Excused' = Excused /\ MakersInRange'
BY MappedFacts DEF AtServer, Provided, Excused, MakersInRange, Resources

LEMMA GuardStep ==
    ASSUME NEW me, Guarded(me), UNCHANGED <<Provided, Excused>>
    PROVE  LifeStep
<1>1. Life!Guard(me)
  BY DEF Guarded, Free, Provided, Excused, Life!Guard
<1> QED BY <1>1 DEF Guarded, Free, LifeStep, Life!Next

LEMMA DiscardStep ==
    ASSUME NEW me, Discarded(me), UNCHANGED <<Provided, Excused>>
    PROVE  LifeStep
<1>1. Life!Discard(me)
  BY DEF Discarded, Free, Provided, Excused, Life!Discard
<1> QED BY <1>1 DEF Discarded, Free, LifeStep, Life!Next

LEMMA ReleaseStep ==
    ASSUME NEW me, Released(me), me \in Provided => me \in Excused,
           UNCHANGED <<Provided, Excused>>
    PROVE  LifeStep
<1>1. Life!Release(me)
  BY DEF Released, Provided, Excused, Life!Release
<1> QED BY <1>1 DEF Released, LifeStep, Life!Next

(***************************************************************************)
(* Steps at the server.                                                      *)
(***************************************************************************)
LEMMA WithdrawStep ==
    ASSUME Steady, Excused' = Excused, Provided \subseteq Resources, Provided' \subseteq Provided
    PROVE  LifeStep
<1>1. PICK gone \in SUBSET Resources : Provided' = Provided \ gone
  OBVIOUS
<1>2. Life!Withdraw(gone)
  BY <1>1 DEF Steady, Provided, Excused, Life!Withdraw
<1> QED BY <1>2 DEF LifeStep, Life!Next

LEMMA ExcuseStep ==
    ASSUME Steady, Provided' = Provided, NEW some \in SUBSET Resources,
           Excused' = Excused \cup some
    PROVE  LifeStep
<1>1. Life!Excuse(some)
  BY DEF Steady, Provided, Excused, Life!Excuse
<1> QED BY <1>1 DEF LifeStep, Life!Next

LEMMA ProvideStep ==
    ASSUME Steady, Excused' = Excused, NEW me \in Resources, me \in HeldResources,
           Provided' = Provided \cup {me}
    PROVE  LifeStep
<1>1. Life!Provide(me)
  BY DEF Steady, Provided, Excused, Life!Provide
<1> QED BY <1>1 DEF LifeStep, Life!Next

\* Authorizations come and go; one that comes is the worker's.
LEMMA ServerStep ==
    ASSUME ControllerAssumption, Mapped, Next, Steady, UNCHANGED <<skipped, moved>>
    PROVE  LifeStep /\ MakersInRange'
<1>1. Excused' = Excused
  BY DEF Excused, Resources
<1>2. ASSUME Provided' \subseteq Provided
      PROVE  LifeStep /\ MakersInRange'
  BY <1>1, <1>2, WithdrawStep, MappedFacts DEF MakersInRange, Resources
<1>3. CASE auths' \subseteq auths
  BY <1>2, <1>3 DEF Provided
<1>4. CASE CreateAuthorization
  <2>1. CASE UNCHANGED auths
    BY <1>3, <2>1
  <2>2. ASSUME NEW a, a.by = Me, auths' = auths \cup {a}
        PROVE  LifeStep /\ MakersInRange'
    <3>1. worker.pc \in ReconcileCalls /\ ~At("idle")
      BY <1>4 DEF CreateAuthorization, At, ReconcileCalls
    <3>2. Held(Me) /\ worker.obj.exists
      BY <3>1, MappedFacts, CopyHeld DEF Inv, Good, CopyOK, Live
    <3>3. Me \in Resources /\ Me \in HeldResources
      BY <3>1, <3>2, MeInRange DEF HeldResources
    <3>4. Provided' = Provided \cup {Me}
      BY <2>2 DEF Provided
    <3>5. MakersInRange'
      BY <3>3, <3>4, MappedFacts DEF MakersInRange, Resources
    <3> QED BY <1>1, <3>3, <3>4, <3>5, ProvideStep
  <2>3. ASSUME NEW id, auths' = auths \cup {[id |-> id, org |-> local.org, by |-> Me]}
        PROVE  LifeStep /\ MakersInRange'
    BY <2>2, <2>3
  <2> QED BY <1>4, <2>1, <2>3 DEF CreateAuthorization
<1> QED BY <1>3, <1>4, ServerSteps

\* The controller gives up on a resource whose Config is missing.
LEMMA ReadConfigStep ==
    ASSUME ControllerAssumption, Mapped, FinalizeReadConfig, Steady
    PROVE  LifeStep /\ MakersInRange'
<1>1. Provided' = Provided /\ MakersInRange'
  BY MappedFacts DEF FinalizeReadConfig, serverVars, MakersInRange, Provided, Resources
<1>2. CASE UNCHANGED skipped
  <2>1. Excused' = Excused
    BY <1>2 DEF FinalizeReadConfig, Excused, Resources
  <2> QED BY <1>1, <2>1, WithdrawStep, MappedFacts
<1>3. CASE skipped' = skipped \cup {Me}
  <2>1. ~At("idle") /\ worker.obj.exists
    BY MappedFacts DEF FinalizeReadConfig, At, Good, CopyOK, FinalizeCalls, Dying
  <2>2. Excused' = Excused \cup {Me}
    BY <1>3 DEF FinalizeReadConfig, Excused, Resources
  <2>3. {Me} \in SUBSET Resources
    BY <2>1, MeInRange
  <2> QED BY <1>1, <2>2, <2>3, ExcuseStep
<1> QED BY <1>2, <1>3 DEF FinalizeReadConfig

\* A Config that moves leaves what was made behind.
LEMMA MoveStep ==
    ASSUME Mapped, NEW k \in Keys, ChangeConfig(k), Steady
    PROVE  LifeStep /\ MakersInRange'
<1>1. Provided' = Provided /\ MakersInRange'
  BY MappedFacts DEF ChangeConfig, serverVars, MakersInRange, Provided, Resources
<1> DEFINE some == {me \in Resources : me[1] \in moved'}
<1>2. moved \subseteq moved' /\ UNCHANGED skipped
  BY DEF ChangeConfig
<1>3. Excused' = Excused \cup some
  BY <1>2 DEF Excused, Resources
<1>4. some \in SUBSET Resources
  OBVIOUS
<1> HIDE DEF some
<1> QED BY <1>1, <1>3, <1>4, ExcuseStep

(***************************************************************************)
(* All steps, and the theorem.                                               *)
(***************************************************************************)
LEMMA StepMaps ==
    ASSUME ControllerAssumption, Mapped, Next
    PROVE  LifeStep /\ VersionsInRange' /\ MakersInRange'
<1> DEFINE goal == LifeStep /\ VersionsInRange' /\ MakersInRange'
<1>1. ASSUME VersionsInRange', Steady, UNCHANGED <<skipped, moved>>
      PROVE  goal
  BY <1>1, ServerStep
<1>2. CASE FinalizeReadConfig
  <2>1. VersionsInRange' /\ Steady
    BY <1>2, MappedFacts, UnwrittenHold DEF FinalizeReadConfig
  <2> QED BY <1>2, <2>1, ReadConfigStep
<1>3. ASSUME NEW k \in Keys, ChangeConfig(k)
      PROVE  goal
  <2>1. VersionsInRange' /\ Steady
    BY <1>3, MappedFacts, UnwrittenHold DEF ChangeConfig
  <2> QED BY <1>3, <2>1, MoveStep
<1>4. CASE UNCHANGED versions /\ UNCHANGED <<skipped, moved>>
  BY <1>1, <1>4, MappedFacts, UnwrittenHold
<1>5. CASE FinalizeStatus \/ InitializeStatus \/ DeletedStatus \/ CreatedStatus
  BY <1>1, <1>5, MappedFacts, MarkHold, CreatedIsMark DEF FinalizeStatus, InitializeStatus,
     DeletedStatus, CreatedStatus, Elsewhere
<1>6. CASE AddFinalizer
  <2>1. VersionsInRange' /\ (Steady \/ Guarded(Me)) /\ UNCHANGED AtServer
    BY <1>6, MappedFacts, PutFinalizerHold DEF AddFinalizer, Elsewhere, serverVars, AtServer
  <2> QED BY <1>1, <2>1, AtServerFacts, GuardStep DEF AtServer
<1>7. CASE RemoveFinalizer
  <2>1. VersionsInRange' /\ (Steady \/ Released(Me)) /\ UNCHANGED AtServer
    BY <1>7, MappedFacts, DropFinalizerHold DEF RemoveFinalizer, Elsewhere, serverVars, AtServer
  <2>2. ASSUME NEW a \in auths, a.by = Me
        PROVE  Me \in Excused
    <3>1. At("RemoveFinalizer") /\ OwnerOK(a)
      BY <1>7, MappedFacts DEF RemoveFinalizer, DropFinalizer, Inv
    <3>2. Me \in Resources
      BY <2>2, MappedFacts DEF Provided
    <3> QED BY <2>2, <3>1, <3>2 DEF OwnerOK, Guards, Excused
  <2>3. Me \in Provided => Me \in Excused
    BY <2>2 DEF Provided
  <2> QED BY <1>1, <2>1, <2>3, AtServerFacts, ReleaseStep DEF AtServer
<1>8. CASE Restart \/ CreateAuthorizationPanics
  BY <1>1, <1>8, MappedFacts, RestartHold DEF Restart, CreateAuthorizationPanics, RestartManager
<1>9. ASSUME NEW k \in Keys, Informer(k) \/ Create(k) \/ Edit(k)
      PROVE  goal
  BY <1>1, <1>9, MappedFacts, DeliverHold, UserCreateHold, UserEditHold
  DEF Informer, Create, Edit, Elsewhere
<1>10. ASSUME NEW k \in Keys, Delete(k)
       PROVE  goal
  <2>1. /\ VersionsInRange' /\ (Steady \/ Discarded(<<k, Latest(k).uid>>))
        /\ UNCHANGED AtServer
    BY <1>10, MappedFacts, UserDeleteHold DEF Delete, Elsewhere, serverVars, AtServer
  <2> QED BY <1>1, <2>1, AtServerFacts, DiscardStep DEF AtServer
<1>11. CASE FinalizeFindOrganization \/ FinalizeFindAuthorizations \/ DeleteAuthorizationWithID
            \/ ReconcileReadConfig \/ ReconcileFindOrganization \/ ReconcileFindAuthorizations
            \/ CreateAuthorization \/ CreateSecret \/ GetSecret \/ UpdateSecret
  BY <1>4, <1>11 DEF FinalizeFindOrganization, FinalizeFindAuthorizations,
     DeleteAuthorizationWithID, ReconcileReadConfig, ReconcileFindOrganization,
     ReconcileFindAuthorizations, CreateAuthorization, CreateSecret, GetSecret, UpdateSecret,
     Elsewhere
<1>12. CASE Fail \/ Drift \/ \E k \in Keys : Reconcile(k)
  BY <1>4, <1>12 DEF Fail, CallFails, Drift, Reconcile, Dispatch, Elsewhere
<1>13. ASSUME NEW o \in OrgNames, ToggleOrganization(o)
       PROVE  goal
  BY <1>4, <1>13 DEF ToggleOrganization
<1>14. ASSUME NEW s \in SecretNames, SecretInformer(s) \/ CollectSecret(s) \/ EditSecret(s)
       PROVE  goal
  BY <1>4, <1>14 DEF SecretInformer, CollectSecret, EditSecret, OutsideWrite, controllerVars
<1> QED
  BY <1>2, <1>3, <1>5, <1>6, <1>7, <1>8, <1>9, <1>10, <1>11, <1>12, <1>13, <1>14 DEF Next, Work

LEMMA InitMaps ==
    ASSUME ControllerAssumption, TokenAssumption, Init
    PROVE  Mapped /\ Life!Init
<1>1. Safe
  BY InitSafe
<1>2. \A k \in Keys : Latest(k) = NoObject /\ Len(versions[k]) = 1 /\ versions[k][1] = NoObject
  BY DEF Init, ControllerInit, Latest
<1>3. UidsOK
  BY <1>2, NoObjectInRange, IdleFacts DEF Init, ControllerInit, UidsOK, VersionsInRange
<1>4. Provided = {} /\ Excused = {}
  BY DEF Init, Provided, Excused
<1>5. HeldResources = {} /\ PastResources = {}
  BY <1>2 DEF HeldResources, PastResources, Resources, Held, NoObject, Gone, NewObject
<1> QED BY <1>1, <1>3, <1>4, <1>5 DEF Mapped, MakersInRange, Life!Init, Provided, Excused

LEMMA NextMapped ==
    ASSUME ControllerAssumption, TokenAssumption, Mapped, Next
    PROVE  Mapped'
<1>1. Safe'
  BY NextSafe DEF Mapped
<1>2. Progress
  BY MappedFacts, NextIsStep DEF Inv, StepOK
<1>3. InRange(worker'.obj)
  BY <1>2, MappedFacts, CopyInRange DEF Mapped, Progress
<1>4. VersionsInRange' /\ MakersInRange'
  BY StepMaps
<1> QED BY <1>1, <1>3, <1>4 DEF Mapped, UidsOK, InRange

LEMMA StutterMaps ==
    ASSUME Mapped, UNCHANGED vars
    PROVE  Mapped' /\ UNCHANGED Life!vars
<1>1. UNCHANGED <<versions, worker, auths, skipped, moved>>
  BY DEF vars, controllerVars, serverVars
<1>2. Steady /\ VersionsInRange'
  BY <1>1, MappedFacts, UnwrittenHold
<1>3. Safe'
  BY StutterSafe DEF Mapped
<1>4. Provided' = Provided /\ Excused' = Excused /\ MakersInRange'
  BY <1>1, AtServerFacts DEF AtServer
<1>5. InRange(worker.obj)'
  BY <1>1, MappedFacts DEF InRange
<1> QED
  BY <1>2, <1>3, <1>4, <1>5 DEF Mapped, UidsOK, Steady, Life!vars, Provided, Excused

\* Seen without its caches, Secrets, calls, failures and panics, the Token controller
\* keeps the promise of Lifecycle: it lets go of a resource only when no authorization of
\* it is left, or it was finalized without its Config, or the Config has named another
\* organization.
THEOREM TokenImplements == Spec => ImplementsLifecycle
<1>1. Init => Mapped /\ Life!Init
  BY ControllerAssumption, TokenAssumption, InitMaps
<1>2. Mapped /\ [Next]_vars => Mapped'
  BY ControllerAssumption, TokenAssumption, NextMapped, StutterMaps
<1>3. Mapped /\ [Next]_vars => [Life!Next]_(Life!vars)
  BY ControllerAssumption, StepMaps, StutterMaps DEF LifeStep
<1> QED BY <1>1, <1>2, <1>3, PTL DEF Spec, ImplementsLifecycle, Life!Spec
===============================================================================
