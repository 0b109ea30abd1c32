---------------------------- MODULE OperatorProofs ----------------------------
(***************************************************************************)
(* Theorems about Operator, for any ids and every bound: what the three        *)
(* controllers promise alone they promise together.  Each keeps the inductive   *)
(* invariant of its own module: through its own steps by the lemmas about that   *)
(* module, through the steps of the other two by its lemma OthersSafe.          *)
(***************************************************************************)
EXTENDS Operator, TLAPS

\* The lemmas about the controllers, with the constants and variables that Operator
\* gives to O, T and B.
OP == INSTANCE OrganizationProofs WITH
        Keys <- {OrgKey}, Names <- {OrgName}, NameOf <- [k \in {OrgKey} |-> OrgName], Ids <- IdsOfOrgs,
        versions <- orgVersions, queue <- orgQueue, worker <- orgWorker, target <- orgTarget,
        config <- [k \in {OrgKey} |-> "ok"], lost <- {}, skipped <- {}

TP == INSTANCE TokenProofs WITH
        Keys <- {TokenKey}, OrgNames <- {OrgName}, Home <- [k \in {TokenKey} |-> OrgName],
        SecretNames <- {SecretName}, SecretOf <- [k \in {TokenKey} |-> SecretName], Ids <- IdsOfTokens,
        versions <- tokenVersions, queue <- tokenQueue, worker <- tokenWorker,
        orgs <- Organizations, config <- [k \in {TokenKey} |-> OrgName], local <- tokenLocal,
        skipped <- {}, moved <- {}

BP == INSTANCE BucketProofs WITH
        Keys <- {BucketKey}, Namespaces <- {Namespace}, NamespaceOf <- [k \in {BucketKey} |-> Namespace],
        Names <- {BucketName}, NameOf <- [k \in {BucketKey} |-> BucketName], OrgNames <- {OrgName},
        Home <- [ns \in {Namespace} |-> OrgName], Ids <- IdsOfBuckets,
        versions <- bucketVersions, queue <- bucketQueue, worker <- bucketWorker,
        orgs <- Organizations, local <- bucketLocal, skipped <- {}, moved <- {},
        config <- [ns \in {Namespace} |-> IF Credentials.exists THEN OrgName ELSE "noSecret"]

(***************************************************************************)
(* O and OP, T and TP, B and BP define the same.                             *)
(***************************************************************************)
LEMMA SameOrganization ==
    /\ O!Work => OP!Work
    /\ O!Reconcile(OrgKey) => OP!Reconcile(OrgKey)
    /\ O!Informer(OrgKey) => OP!Informer(OrgKey)
    /\ O!Fail => OP!Fail
    /\ O!Delete(OrgKey) => OP!Delete(OrgKey)
    /\ O!RestartController => OP!RestartController
    /\ O!TypeOK <=> OP!TypeOK
    /\ O!NoOrphan <=> OP!NoOrphan
BY DEF
    O!Work, OP!Work, O!Reconcile, OP!Reconcile, O!Informer, OP!Informer, O!Fail, OP!Fail,
    O!Delete, OP!Delete, O!RestartController, OP!RestartController, O!Fault, OP!Fault, O!TypeOK,
    OP!TypeOK, O!NoOrphan, OP!NoOrphan, O!FinalizeStatus, OP!FinalizeStatus,
    O!FinalizeReadConfig, OP!FinalizeReadConfig, O!FindOrganizationByName,
    OP!FindOrganizationByName, O!DeleteOrganizationWithID, OP!DeleteOrganizationWithID,
    O!DeletedStatus, OP!DeletedStatus, O!RemoveFinalizer, OP!RemoveFinalizer, O!AddFinalizer,
    OP!AddFinalizer, O!InitializeStatus, OP!InitializeStatus, O!ReconcileReadConfig,
    OP!ReconcileReadConfig, O!FindConfigOrganization, OP!FindConfigOrganization,
    O!CreateOrganization, OP!CreateOrganization, O!CreatedStatus, OP!CreatedStatus, O!Dispatch,
    OP!Dispatch, O!influxVars, OP!influxVars, O!Deliver, OP!Deliver, O!CallFails, OP!CallFails,
    O!UserDelete, OP!UserDelete, O!Latest, OP!Latest, O!Idle, OP!Idle, O!ControllerTypeOK,
    OP!ControllerTypeOK, O!Calls, OP!Calls, O!Org, OP!Org, O!Configs, OP!Configs, O!Held,
    OP!Held, O!MarkTerminating, OP!MarkTerminating, O!At, OP!At, O!GoTo, OP!GoTo, O!Me, OP!Me,
    O!ReturnError, OP!ReturnError, O!OrgExists, OP!OrgExists, O!MyName, OP!MyName, O!NoOrg,
    OP!NoOrg, O!MarkDeleted, OP!MarkDeleted, O!DropFinalizer, OP!DropFinalizer, O!PutFinalizer,
    OP!PutFinalizer, O!MarkInitialized, OP!MarkInitialized, O!OrganizationConflict,
    OP!OrganizationConflict, O!FreshId, OP!FreshId, O!MarkCreated, OP!MarkCreated, O!FirstCall,
    OP!FirstCall, O!Cached, OP!Cached, O!Store, OP!Store, O!Gone, OP!Gone, O!Outdate,
    OP!Outdate, O!NoObject, OP!NoObject, O!Object, OP!Object, O!Workers, OP!Workers,
    O!CommonCalls, OP!CommonCalls, O!Save, OP!Save, O!WithStatus, OP!WithStatus,
    O!phaseTerminating, OP!phaseTerminating, O!Finish, OP!Finish, O!SaveCondition,
    OP!SaveCondition, O!reasonDeleted, OP!reasonDeleted, O!phasePending, OP!phasePending,
    O!reasonFinalizerAdded, OP!reasonFinalizerAdded, O!reasonCreated, OP!reasonCreated,
    O!RequeueAfter, OP!RequeueAfter, O!phaseReady, OP!phaseReady, O!Dying, OP!Dying, O!Live,
    OP!Live, O!Initialized, OP!Initialized, O!NewObject, OP!NewObject, O!Phases, OP!Phases,
    O!Reasons, OP!Reasons, O!ReturnDone, OP!ReturnDone, O!SaveSameSecond, OP!SaveSameSecond,
    O!phaseNone, OP!phaseNone

LEMMA SameToken ==
    /\ T!Work => TP!Work
    /\ T!Reconcile(TokenKey) => TP!Reconcile(TokenKey)
    /\ T!Informer(TokenKey) => TP!Informer(TokenKey)
    /\ T!Fail => TP!Fail
    /\ T!SecretInformer(SecretName) => TP!SecretInformer(SecretName)
    /\ T!CollectSecret(SecretName) => TP!CollectSecret(SecretName)
    /\ T!Delete(TokenKey) => TP!Delete(TokenKey)
    /\ T!RestartManager => TP!RestartManager
    /\ T!TypeOK <=> TP!TypeOK
    /\ T!NoOrphan <=> TP!NoOrphan
BY DEF
    T!Work, TP!Work, T!Reconcile, TP!Reconcile, T!Informer, TP!Informer, T!Fail, TP!Fail,
    T!Delete, TP!Delete, T!SecretInformer, TP!SecretInformer, T!CollectSecret, TP!CollectSecret,
    T!RestartManager, TP!RestartManager, T!TypeOK, TP!TypeOK, T!NoOrphan, TP!NoOrphan,
    T!FinalizeStatus, TP!FinalizeStatus, T!FinalizeReadConfig, TP!FinalizeReadConfig,
    T!FinalizeFindOrganization, TP!FinalizeFindOrganization, T!FinalizeFindAuthorizations,
    TP!FinalizeFindAuthorizations, T!DeleteAuthorizationWithID, TP!DeleteAuthorizationWithID,
    T!DeletedStatus, TP!DeletedStatus, T!RemoveFinalizer, TP!RemoveFinalizer, T!AddFinalizer,
    TP!AddFinalizer, T!InitializeStatus, TP!InitializeStatus, T!ReconcileReadConfig,
    TP!ReconcileReadConfig, T!ReconcileFindOrganization, TP!ReconcileFindOrganization,
    T!ReconcileFindAuthorizations, TP!ReconcileFindAuthorizations, T!CreateAuthorization,
    TP!CreateAuthorization, T!CreateSecret, TP!CreateSecret, T!GetSecret, TP!GetSecret,
    T!UpdateSecret, TP!UpdateSecret, T!CreatedStatus, TP!CreatedStatus, T!Dispatch, TP!Dispatch,
    T!Elsewhere, TP!Elsewhere, T!Deliver, TP!Deliver, T!CallFails, TP!CallFails, T!Nothing,
    TP!Nothing, T!UserDelete, TP!UserDelete, T!controllerVars, TP!controllerVars, T!serverVars,
    TP!serverVars, T!Latest, TP!Latest, T!OutsideWrite, TP!OutsideWrite, T!NoSecret,
    TP!NoSecret, T!RestartController, TP!RestartController, T!ControllerTypeOK,
    TP!ControllerTypeOK, T!Calls, TP!Calls, T!Authorization, TP!Authorization, T!Secret,
    TP!Secret, T!Copies, TP!Copies, T!Configs, TP!Configs, T!Locals, TP!Locals, T!Identities,
    TP!Identities, T!Held, TP!Held, T!MarkTerminating, TP!MarkTerminating, T!At, TP!At,
    T!MyConfig, TP!MyConfig, T!GoTo, TP!GoTo, T!Me, TP!Me, T!GiveUp, TP!GiveUp, T!secretVars,
    TP!secretVars, T!OrgId, TP!OrgId, T!Described, TP!Described, T!ReturnError, TP!ReturnError,
    T!Fault, TP!Fault, T!MarkDeleted, TP!MarkDeleted, T!DropFinalizer, TP!DropFinalizer,
    T!PutFinalizer, TP!PutFinalizer, T!MarkInitialized, TP!MarkInitialized, T!OrgExists,
    TP!OrgExists, T!FreshId, TP!FreshId, T!MySecret, TP!MySecret, T!StoreSecret, TP!StoreSecret,
    T!RecordCreation, TP!RecordCreation, T!Save, TP!Save, T!WithStatus, TP!WithStatus,
    T!reasonCreated, TP!reasonCreated, T!phaseReady, TP!phaseReady, T!FirstCall, TP!FirstCall,
    T!Cached, TP!Cached, T!Idle, TP!Idle, T!NoOrg, TP!NoOrg, T!NoCopy, TP!NoCopy, T!Store,
    TP!Store, T!Gone, TP!Gone, T!Outdate, TP!Outdate, T!Object, TP!Object, T!Workers,
    TP!Workers, T!CommonCalls, TP!CommonCalls, T!OrgIds, TP!OrgIds, T!phaseTerminating,
    TP!phaseTerminating, T!Finish, TP!Finish, T!SaveCondition, TP!SaveCondition,
    T!reasonDeleted, TP!reasonDeleted, T!phasePending, TP!phasePending, T!reasonFinalizerAdded,
    TP!reasonFinalizerAdded, T!RequeueAfter, TP!RequeueAfter, T!ReturnDone, TP!ReturnDone,
    T!Dying, TP!Dying, T!Live, TP!Live, T!Initialized, TP!Initialized, T!NoObject, TP!NoObject,
    T!Phases, TP!Phases, T!Reasons, TP!Reasons, T!SaveSameSecond, TP!SaveSameSecond,
    T!NewObject, TP!NewObject, T!phaseNone, TP!phaseNone

LEMMA SameBucket ==
    /\ B!Work => BP!Work
    /\ B!FinalizeReadConfig => BP!FinalizeReadConfig
    /\ B!ReconcileReadConfig => BP!ReconcileReadConfig
    /\ B!Reconcile(BucketKey) => BP!Reconcile(BucketKey)
    /\ B!Informer(BucketKey) => BP!Informer(BucketKey)
    /\ B!Fail => BP!Fail
    /\ B!GiveUp => BP!GiveUp
    /\ B!Delete(BucketKey) => BP!Delete(BucketKey)
    /\ B!RestartController => BP!RestartController
    /\ B!TypeOK <=> BP!TypeOK
    /\ B!NoOrphan <=> BP!NoOrphan
BY DEF
    B!Work, BP!Work, B!Reconcile, BP!Reconcile, B!Informer, BP!Informer, B!Fail, BP!Fail,
    B!Delete, BP!Delete, B!GiveUp, BP!GiveUp, B!RestartController, BP!RestartController,
    B!TypeOK, BP!TypeOK, B!NoOrphan, BP!NoOrphan, B!FinalizeStatus, BP!FinalizeStatus,
    B!FinalizeReadConfig, BP!FinalizeReadConfig, B!FinalizeFindOrganization,
    BP!FinalizeFindOrganization, B!FindBucketsByOrgID, BP!FindBucketsByOrgID,
    B!DeleteBucketWithID, BP!DeleteBucketWithID, B!DeletedStatus, BP!DeletedStatus,
    B!RemoveFinalizer, BP!RemoveFinalizer, B!AddFinalizer, BP!AddFinalizer, B!InitializeStatus,
    BP!InitializeStatus, B!ReconcileReadConfig, BP!ReconcileReadConfig,
    B!ReconcileFindOrganization, BP!ReconcileFindOrganization, B!CreateBucket, BP!CreateBucket,
    B!CreatedStatus, BP!CreatedStatus, B!Dispatch, BP!Dispatch, B!influxVars, BP!influxVars,
    B!Deliver, BP!Deliver, B!CallFails, BP!CallFails, B!Nothing, BP!Nothing, B!UserDelete,
    BP!UserDelete, B!ReturnError, BP!ReturnError, B!Latest, BP!Latest, B!Idle, BP!Idle,
    B!ControllerTypeOK, BP!ControllerTypeOK, B!Calls, BP!Calls, B!Bucket, BP!Bucket, B!Configs,
    BP!Configs, B!Locals, BP!Locals, B!Held, BP!Held, B!MarkTerminating, BP!MarkTerminating,
    B!At, BP!At, B!MyConfig, BP!MyConfig, B!GoTo, BP!GoTo, B!Me, BP!Me, B!FindOrganization,
    BP!FindOrganization, B!Pages, BP!Pages, B!Named, BP!Named, B!MyName, BP!MyName, B!Fault,
    BP!Fault, B!MarkDeleted, BP!MarkDeleted, B!DropFinalizer, BP!DropFinalizer, B!PutFinalizer,
    BP!PutFinalizer, B!MarkInitialized, BP!MarkInitialized, B!OrgExists, BP!OrgExists,
    B!BucketsOf, BP!BucketsOf, B!BucketConflict, BP!BucketConflict, B!FreshId, BP!FreshId,
    B!MarkCreated, BP!MarkCreated, B!FirstCall, BP!FirstCall, B!Cached, BP!Cached, B!NoOrg,
    BP!NoOrg, B!Store, BP!Store, B!Gone, BP!Gone, B!Outdate, BP!Outdate, B!Finish, BP!Finish,
    B!NoObject, BP!NoObject, B!Object, BP!Object, B!Workers, BP!Workers, B!CommonCalls,
    BP!CommonCalls, B!OrgIds, BP!OrgIds, B!Save, BP!Save, B!WithStatus, BP!WithStatus,
    B!phaseTerminating, BP!phaseTerminating, B!OrgId, BP!OrgId, B!SaveCondition,
    BP!SaveCondition, B!reasonDeleted, BP!reasonDeleted, B!phasePending, BP!phasePending,
    B!reasonFinalizerAdded, BP!reasonFinalizerAdded, B!reasonCreated, BP!reasonCreated,
    B!RequeueAfter, BP!RequeueAfter, B!phaseReady, BP!phaseReady, B!Dying, BP!Dying, B!Live,
    BP!Live, B!Initialized, BP!Initialized, B!NewObject, BP!NewObject, B!Phases, BP!Phases,
    B!Reasons, BP!Reasons, B!ReturnDone, BP!ReturnDone, B!SaveSameSecond, BP!SaveSameSecond,
    B!phaseNone, BP!phaseNone,
    B!Cardinality, BP!Cardinality

LEMMA Assumed ==
    /\ OP!ControllerAssumption /\ OP!OrganizationAssumption
    /\ TP!ControllerAssumption /\ TP!TokenAssumption
    /\ BP!ControllerAssumption /\ BP!BucketAssumption
BY OperatorAssumption DEF OperatorAssumption, OP!ControllerAssumption, OP!OrganizationAssumption,
   TP!ControllerAssumption, TP!TokenAssumption, BP!ControllerAssumption, BP!BucketAssumption

\* There is one bucket name, so one bucket in the organization, and every page shows it.
LEMMA PageHoldsBucket == BP!PageHoldsAll
BY OperatorAssumption, BP!FS_Singleton DEF BP!PageHoldsAll, OperatorAssumption

(***************************************************************************)
(* The inductive invariant.                                                  *)
(***************************************************************************)
Safe ==
    /\ OP!Safe
    /\ TP!Safe
    /\ BP!Safe /\ BP!Owned
    /\ incarnation \in Nat
    /\ users \in BOOLEAN
    /\ client \in IdsOfTokens \cup {NoId}

LEMMA SafeFacts ==
    ASSUME Safe
    PROVE  TypeOK /\ NothingLeftBehind
<1>1. OP!TypeOK /\ OP!NoOrphan
  BY DEF Safe, OP!Safe, OP!Inv, OP!OwnerOK, OP!NoOrphan
<1>2. TP!TypeOK /\ TP!NoOrphan
  BY DEF Safe, TP!Safe, TP!Inv, TP!OwnerOK, TP!Guards, TP!NoOrphan
<1>3. BP!TypeOK /\ BP!NoOrphan
  BY DEF Safe, BP!Safe, BP!Owned, BP!OwnerOK, BP!NoOrphan
<1> QED
  BY <1>1, <1>2, <1>3, SameOrganization, SameToken, SameBucket DEF Safe, TypeOK, NothingLeftBehind

(***************************************************************************)
(* What the controllers have in common.                                       *)
(***************************************************************************)
\* The fault budget as each of them sees it.
LEMMA FaultTypes ==
    /\ OP!TypeOK => faults \in 0 .. MaxFaults
    /\ TP!TypeOK => faults \in 0 .. MaxFaults
    /\ BP!TypeOK => faults \in 0 .. MaxFaults
BY DEF OP!TypeOK, OP!ControllerTypeOK, TP!TypeOK, TP!ControllerTypeOK, BP!TypeOK, BP!ControllerTypeOK

\* The other two see the organization under one name, and what they make is in it.
LEMMA OrganizationFacts ==
    ASSUME Safe
    PROVE  /\ Organizations \in [{OrgName} -> [up : BOOLEAN, gen : Nat]]
           /\ \A a \in auths : O!OrgExists(OrgName) /\ a.org = <<OrgName, incarnation>>
           /\ \A b \in buckets : O!OrgExists(OrgName) /\ b.org = <<OrgName, incarnation>>
<1>1. (Organizations[OrgName].up <=> O!OrgExists(OrgName)) /\ Organizations[OrgName].gen = incarnation
  BY DEF Organizations, O!OrgExists
<1>2. ASSUME NEW a \in auths
      PROVE  O!OrgExists(OrgName) /\ a.org = <<OrgName, incarnation>>
  <2>1. PICK gen \in Nat : a.org = <<OrgName, gen>>
    BY DEF Safe, TP!Safe, TP!TypeOK, TP!Authorization, TP!OrgIds
  <2>2. Organizations[OrgName].up /\ Organizations[OrgName].gen = gen
    BY <2>1 DEF Safe, TP!Safe, TP!Inv, TP!OwnerOK, TP!OrgExists
  <2> QED BY <1>1, <2>1, <2>2
<1>3. ASSUME NEW b \in buckets
      PROVE  O!OrgExists(OrgName) /\ b.org = <<OrgName, incarnation>>
  <2>1. PICK gen \in Nat : b.org = <<OrgName, gen>>
    BY DEF Safe, BP!Safe, BP!TypeOK, BP!Bucket, BP!OrgIds
  <2>2. Organizations[OrgName].up /\ Organizations[OrgName].gen = gen
    BY <2>1 DEF Safe, BP!Safe, BP!Inv, BP!MakerOK, BP!OrgExists
  <2> QED BY <1>1, <2>1, <2>2
<1>4. Organizations \in [{OrgName} -> [up : BOOLEAN, gen : Nat]]
  BY DEF Safe, Organizations
<1> QED BY <1>2, <1>3, <1>4

\* An organization goes with its contents, and comes back as another one.
LEMMA CascadeFacts ==
    ASSUME Safe, Cascade
    PROVE  /\ incarnation' \in Nat
           /\ Organizations' \in [{OrgName} -> [up : BOOLEAN, gen : Nat]]
           /\ \A o \in {OrgName} : Organizations[o].gen <= Organizations'[o].gen
           /\ auths' \subseteq auths
           /\ \A a \in auths' : TP!OrgExists(a.org)'
           /\ buckets' \subseteq buckets
           /\ \A b \in buckets' : BP!OrgExists(b.org)'
<1>1. incarnation \in Nat /\ incarnation' \in {incarnation, incarnation + 1}
  BY DEF Safe, Cascade
<1>2. incarnation' \in Nat /\ incarnation <= incarnation'
  BY <1>1
<1>3. /\ Organizations' = [o \in {OrgName} |-> [up |-> orgs'[o].id # NoId, gen |-> incarnation']]
      /\ Organizations = [o \in {OrgName} |-> [up |-> orgs[o].id # NoId, gen |-> incarnation]]
  BY DEF Organizations
<1>4. Organizations' \in [{OrgName} -> [up : BOOLEAN, gen : Nat]]
  BY <1>2, <1>3
<1>5. \A o \in {OrgName} : Organizations[o].gen <= Organizations'[o].gen
  BY <1>2, <1>3
<1>6. auths' \subseteq auths /\ buckets' \subseteq buckets
  BY DEF Cascade
<1>7. ASSUME O!OrgExists(OrgName), O!OrgExists(OrgName)'
      PROVE  /\ Organizations'[OrgName].up
             /\ Organizations'[OrgName].gen = incarnation
  BY <1>3, <1>7 DEF Cascade, O!OrgExists
<1>8. ASSUME NEW a \in auths'
      PROVE  TP!OrgExists(a.org)'
  <2>1. O!OrgExists(OrgName) /\ O!OrgExists(OrgName)' /\ a.org = <<OrgName, incarnation>>
    BY <1>6, <1>8, OrganizationFacts DEF Cascade
  <2> QED BY <1>7, <2>1 DEF TP!OrgExists
<1>9. ASSUME NEW b \in buckets'
      PROVE  BP!OrgExists(b.org)'
  <2>1. O!OrgExists(OrgName) /\ O!OrgExists(OrgName)' /\ b.org = <<OrgName, incarnation>>
    BY <1>6, <1>9, OrganizationFacts DEF Cascade
  <2> QED BY <1>7, <2>1 DEF BP!OrgExists
<1> QED BY <1>2, <1>4, <1>5, <1>6, <1>8, <1>9

\* The Config of the Bucket names the organization or lacks its Secret, whatever the cache
\* holds.
LEMMA ConfigFacts ==
    /\ [ns \in {Namespace} |-> IF Credentials.exists THEN OrgName ELSE "noSecret"]'
          \in [{Namespace} -> BP!Configs]
    /\ BP!ConfigOK'
BY DEF BP!Configs, BP!ConfigOK

\* The controllers that stand still.
LEMMA OrganizationStill ==
    ASSUME OP!Safe, UNCHANGED <<orgVars, orgs>>, faults' \in 0 .. MaxFaults
    PROVE  OP!Safe'
<1>1. /\ UNCHANGED <<orgVersions, orgQueue, orgWorker, orgs, orgTarget>>
      /\ orgs \in [{OrgName} -> OP!Org]
  BY DEF orgVars, OP!Safe, OP!TypeOK
<1> QED BY <1>1, Assumed, OP!OthersSafe

LEMMA TokenStill ==
    ASSUME Safe, UNCHANGED <<tokenVars, secretVars>>, faults' \in 0 .. MaxFaults,
           Cascade \/ UNCHANGED <<orgs, incarnation, auths>>
    PROVE  TP!Safe'
<1>1. UNCHANGED <<tokenVersions, tokenQueue, tokenWorker, secrets, cache, tokenLocal>>
  BY DEF tokenVars, secretVars
<1>2. /\ Organizations' \in [{OrgName} -> [up : BOOLEAN, gen : Nat]]
      /\ \A o \in {OrgName} : Organizations[o].gen <= Organizations'[o].gen
      /\ auths' \subseteq auths
      /\ \A a \in auths' : TP!OrgExists(a.org) => TP!OrgExists(a.org)'
  <2>1. CASE Cascade
    BY <2>1, CascadeFacts
  <2>2. CASE UNCHANGED <<orgs, incarnation, auths>>
    <3>1. Organizations' = Organizations
      BY <2>2 DEF Organizations
    <3>2. Organizations \in [{OrgName} -> [up : BOOLEAN, gen : Nat]]
      BY OrganizationFacts
    <3>3. \A o \in {OrgName} : Organizations[o].gen \in Nat
      BY <3>2
    <3> QED BY <2>2, <3>1, <3>2, <3>3 DEF TP!OrgExists
  <2> QED BY <2>1, <2>2
<1>3. TP!Safe
  BY DEF Safe
<1> QED BY <1>1, <1>2, <1>3, Assumed, TP!OthersSafe

LEMMA BucketStill ==
    ASSUME Safe, UNCHANGED <<bucketVersions, bucketQueue, bucketWorker, bucketLocal>>,
           faults' \in 0 .. MaxFaults,
           Cascade \/ UNCHANGED <<orgs, incarnation, buckets>>
    PROVE  BP!Safe' /\ BP!Owned'
<1>1. /\ Organizations' \in [{OrgName} -> [up : BOOLEAN, gen : Nat]]
      /\ buckets' \subseteq buckets
      /\ \A b \in buckets' : BP!OrgExists(b.org) => BP!OrgExists(b.org)'
  <2>1. CASE Cascade
    BY <2>1, CascadeFacts
  <2>2. CASE UNCHANGED <<orgs, incarnation, buckets>>
    <3>1. Organizations' = Organizations
      BY <2>2 DEF Organizations
    <3>2. Organizations \in [{OrgName} -> [up : BOOLEAN, gen : Nat]]
      BY OrganizationFacts
    <3> QED BY <2>2, <3>1, <3>2 DEF BP!OrgExists
  <2> QED BY <2>1, <2>2
<1>2. BP!Safe /\ BP!Owned
  BY DEF Safe
<1>3. BP!Good(BP!FinalizeCalls, BP!ReconcileCalls)
  BY <1>2, Assumed, BP!InvGood DEF BP!Safe
<1>4. BP!StepOK(BP!FinalizeCalls, BP!ReconcileCalls)
  BY <1>3, Assumed, BP!StillStep
<1> QED BY <1>1, <1>2, <1>4, Assumed, ConfigFacts, BP!OthersSafe

(***************************************************************************)
(* Steps of one controller, and what happens to its resource.                  *)
(***************************************************************************)
LEMMA OrganizationActs ==
    ASSUME Safe, UNCHANGED users,
           \/ OrganizationWork \/ OrganizationSteps \/ OrganizationLost
           \/ /\ O!Delete(OrgKey)
              /\ UNCHANGED <<tokenVars, bucketVars, incarnation, auths, buckets, secretVars>>
    PROVE  Safe'
<1>1. OP!Safe /\ OP!TypeOK
  BY DEF Safe, OP!Safe
<1>2. OP!Safe'
  <2>1. CASE OrganizationLost
    <3>1. faults' \in 0 .. MaxFaults
      BY <1>1, <2>1, OperatorAssumption, FaultTypes DEF OrganizationLost, O!Fault, OperatorAssumption
    <3>2. O!NoOrg \in OP!Org /\ O!NoOrg.by = External
      BY DEF O!NoOrg, OP!Org
    <3>3. /\ orgs' \in [{OrgName} -> OP!Org]
          /\ \A n \in {OrgName} : orgs'[n] = orgs[n] \/ orgs'[n].by = External
      BY <1>1, <2>1, <3>2 DEF OrganizationLost, OP!TypeOK
    <3>4. UNCHANGED <<orgVersions, orgQueue, orgWorker, orgTarget>>
      BY <2>1 DEF OrganizationLost, orgVars
    <3> QED BY <1>1, <3>1, <3>3, <3>4, Assumed, OP!OthersSafe
  <2>2. CASE OrganizationWork \/ OrganizationSteps \/ O!Delete(OrgKey)
    <3>1. OP!Next
      BY <2>2, SameOrganization DEF OP!Next, OrganizationWork, OrganizationSteps
    <3> QED BY <1>1, <3>1, Assumed, OP!NextSafe
  <2> QED BY <2>1, <2>2
<1>3. Cascade \/ UNCHANGED <<orgs, incarnation, auths, buckets>>
  BY DEF OrganizationWork, OrganizationSteps, OrganizationLost, O!Reconcile, O!Informer, O!Fail,
     O!Delete, O!influxVars
<1>4. /\ faults' \in 0 .. MaxFaults
      /\ UNCHANGED <<tokenVars, bucketVars, secretVars>>
  BY <1>2, FaultTypes DEF OP!Safe, OP!TypeOK, OP!ControllerTypeOK, OrganizationWork,
     OrganizationSteps, OrganizationLost
<1>5. TP!Safe'
  BY <1>3, <1>4, TokenStill
<1>6. BP!Safe' /\ BP!Owned'
  BY <1>3, <1>4, BucketStill DEF bucketVars
<1>7. incarnation' \in Nat /\ users' \in BOOLEAN /\ client' \in IdsOfTokens \cup {NoId}
  BY <1>3, <1>4, CascadeFacts DEF Safe, bucketVars
<1> QED BY <1>2, <1>5, <1>6, <1>7 DEF Safe

LEMMA TokenActs ==
    ASSUME Safe, UNCHANGED users, TokenWork \/ TokenSteps \/ (TokenFrame /\ T!Delete(TokenKey))
    PROVE  Safe'
<1>1. TP!Safe
  BY DEF Safe
<1>2. TP!Next
  BY SameToken DEF TP!Next, TokenWork, TokenSteps
<1>3. TP!Safe'
  BY <1>1, <1>2, Assumed, TP!NextSafe
<1>4. /\ faults' \in 0 .. MaxFaults
      /\ UNCHANGED <<orgVars, orgs, incarnation, bucketVars, buckets>>
  BY <1>3, FaultTypes DEF TP!Safe, TP!TypeOK, TP!ControllerTypeOK, TokenWork, TokenSteps, TokenFrame
<1>5. OP!Safe'
  BY <1>4, OrganizationStill DEF Safe
<1>6. BP!Safe' /\ BP!Owned'
  BY <1>4, BucketStill DEF bucketVars
<1>7. incarnation' \in Nat /\ users' \in BOOLEAN /\ client' \in IdsOfTokens \cup {NoId}
  BY <1>4 DEF Safe, bucketVars
<1> QED BY <1>3, <1>5, <1>6, <1>7 DEF Safe

\* Its own step, whatever the client is allowed to do.
LEMMA BucketMoves ==
    ASSUME BP!Safe, BP!Owned, BP!Next
    PROVE  BP!Safe' /\ BP!Owned'
<1>1. BP!TypeOK /\ BP!Inv
  BY DEF BP!Safe
<1>2. BP!StepOK(BP!FinalizeCalls, BP!ReconcileCalls)
  BY <1>1, Assumed, BP!NextIsStep
<1>3. BP!Progress
  BY <1>2 DEF BP!StepOK
<1>4. BP!Owned'
  BY <1>1, <1>3, Assumed, PageHoldsBucket, BP!OwnersStep
<1> QED BY <1>4, Assumed, BP!NextSafe

\* A call that the server refuses ends the reconcile.
LEMMA RefusedEnds ==
    ASSUME Safe, BucketFrame, BucketRefused
    PROVE  BP!Safe' /\ BP!Owned'
<1>1. BP!Safe /\ BP!Owned /\ BP!TypeOK /\ BP!Inv
  BY DEF Safe, BP!Safe
<1>2. BP!Good(BP!FinalizeCalls, BP!ReconcileCalls)
  BY <1>1, Assumed, BP!InvGood
<1>3. /\ BP!ReturnError /\ bucketLocal' = BP!Nothing
      /\ UNCHANGED <<bucketVersions, buckets, faults, orgs, incarnation>>
  BY SameBucket DEF BucketRefused, BucketFrame, BP!GiveUp
<1>4. ~BP!At("idle")
  BY DEF BucketRefused, ClientCalls, BP!At
<1>5. BP!StepOK(BP!FinalizeCalls, BP!ReconcileCalls)
  BY <1>2, <1>3, <1>4, Assumed, BP!ReturnErrorStep
<1>6. /\ Organizations' = Organizations
      /\ Organizations \in [{OrgName} -> [up : BOOLEAN, gen : Nat]]
  BY <1>3, OrganizationFacts DEF Organizations
<1>7. bucketWorker' = BP!Idle
  BY <1>3 DEF BP!ReturnError, BP!Finish
<1> QED BY <1>1, <1>3, <1>5, <1>6, <1>7, Assumed, ConfigFacts, BP!OthersSafe DEF BP!OrgExists

LEMMA BucketActs ==
    ASSUME Safe, UNCHANGED users,
           \/ BucketWork \/ BucketSteps
           \/ BucketFrame /\ B!Delete(BucketKey) /\ UNCHANGED client
    PROVE  Safe'
<1>1. UNCHANGED <<orgVars, orgs, incarnation, tokenVars, auths, secretVars>>
  BY DEF BucketWork, BucketSteps, BucketFrame
<1>2. BP!Safe' /\ BP!Owned'
  <2>1. BP!Safe /\ BP!Owned
    BY DEF Safe
  <2>2. CASE BucketFrame /\ BucketRefused
    BY <2>2, RefusedEnds
  <2>3. CASE BP!Next
    BY <2>1, <2>3, BucketMoves
  <2>4. BP!Next \/ (BucketFrame /\ BucketRefused)
    BY SameBucket DEF BP!Next, BP!Work, BucketWork, BucketSteps
  <2> QED BY <2>2, <2>3, <2>4
<1>3. faults' \in 0 .. MaxFaults
  BY <1>2, FaultTypes DEF BP!Safe, BP!TypeOK, BP!ControllerTypeOK
<1>4. OP!Safe'
  BY <1>1, <1>3, OrganizationStill DEF Safe
<1>5. TP!Safe'
  BY <1>1, <1>3, TokenStill
<1>6. incarnation' \in Nat /\ users' \in BOOLEAN
  BY <1>1 DEF Safe
<1>7. client' \in IdsOfTokens \cup {NoId}
  <2>1. Credentials.token \in IdsOfTokens \cup {NoId}
    BY DEF Credentials, Safe, TP!Safe, TP!TypeOK, TP!Copies, TP!Secret
  <2> QED BY <2>1 DEF BucketWork, BucketSteps, RememberClient, Safe
<1> QED BY <1>2, <1>4, <1>5, <1>6, <1>7 DEF Safe

(***************************************************************************)
(* The manager starts again, and with it all three.                           *)
(***************************************************************************)
LEMMA RestartActs ==
    ASSUME Safe, UNCHANGED users, Restart
    PROVE  Safe'
<1>1. OP!Fault /\ TP!Fault /\ BP!Fault
  BY DEF Restart, O!Fault, OP!Fault, TP!Fault, BP!Fault
<1>2. UNCHANGED <<orgs, incarnation, auths, buckets, secrets>> /\ Organizations' = Organizations
  BY DEF Restart, Organizations
<1>3. OP!Safe'
  <2>1. OP!Next
    BY <1>1, <1>2, SameOrganization DEF Restart, OP!Next, OP!Restart
  <2> QED BY <2>1, Assumed, OP!NextSafe DEF Safe
<1>4. TP!Safe'
  <2>1. TP!Next
    BY <1>1, <1>2, SameToken DEF Restart, TP!Next, TP!Restart, TP!serverVars
  <2> QED BY <2>1, Assumed, TP!NextSafe DEF Safe
<1>5. BP!Safe' /\ BP!Owned'
  <2>1. BP!Safe /\ BP!Owned /\ BP!TypeOK /\ BP!Inv
    BY DEF Safe, BP!Safe
  <2>2. BP!Good(BP!FinalizeCalls, BP!ReconcileCalls)
    BY <2>1, Assumed, BP!InvGood
  <2>3. BP!RestartController /\ bucketLocal' = B!Nothing
    BY SameBucket DEF Restart
  <2>4. BP!StepOK(BP!FinalizeCalls, BP!ReconcileCalls)
    BY <1>1, <2>2, <2>3, Assumed, BP!RestartStep
  <2>5. bucketWorker' = BP!Idle /\ bucketLocal' = BP!Nothing
    BY <2>3 DEF BP!RestartController, B!Nothing, BP!Nothing, B!NoOrg, BP!NoOrg
  <2>6. Organizations \in [{OrgName} -> [up : BOOLEAN, gen : Nat]]
    BY OrganizationFacts
  <2> QED
    BY <1>2, <2>1, <2>4, <2>5, <2>6, Assumed, ConfigFacts, BP!OthersSafe DEF BP!OrgExists
<1>6. incarnation' \in Nat /\ users' \in BOOLEAN /\ client' \in IdsOfTokens \cup {NoId}
  BY <1>2 DEF Safe, Restart
<1> QED BY <1>3, <1>4, <1>5, <1>6 DEF Safe

LEMMA NextSafe ==
    ASSUME Safe, Next
    PROVE  Safe'
<1>1. UNCHANGED users
  BY DEF Next
<1> QED BY <1>1, OrganizationActs, TokenActs, BucketActs, RestartActs DEF Next, Running, Users

(***************************************************************************)
(* Where we begin to look.                                                    *)
(***************************************************************************)
\* The resources the manifest has put there, and those that are ready, are well formed.
LEMMA StartedObjects ==
    ASSUME NEW obj \in {Pending, Ready}
    PROVE  /\ obj.uid = 1 /\ obj.exists /\ obj.finalizer /\ ~obj.deleting
           /\ obj \in OP!Object /\ OP!WellFormed(obj)
           /\ obj \in TP!Object /\ TP!WellFormed(obj)
           /\ obj \in BP!Object /\ BP!WellFormed(obj)
<1>1. PICK phase \in {"pending", "ready"}, conds \in SUBSET {"finalizerAdded", "created"} :
         /\ obj = [uid |-> 1, exists |-> TRUE, deleting |-> FALSE, finalizer |-> TRUE,
                   phase |-> phase, conds |-> conds]
         /\ "finalizerAdded" \in conds
  BY DEF Pending, Ready, O!NewObject, O!phasePending, O!phaseReady, O!reasonFinalizerAdded,
     O!reasonCreated
<1>2. obj \in OP!Object /\ OP!WellFormed(obj)
  <2>1. obj \in OP!Object
    BY <1>1 DEF OP!Object, OP!Phases, OP!phaseNone, OP!phasePending, OP!phaseReady,
       OP!phaseTerminating, OP!Reasons, OP!reasonFinalizerAdded, OP!reasonCreated, OP!reasonDeleted
  <2>2. OP!WellFormed(obj)
    BY <1>1 DEF OP!WellFormed, OP!phaseTerminating, OP!Initialized, OP!reasonFinalizerAdded
  <2> QED BY <2>1, <2>2
<1>3. obj \in TP!Object /\ TP!WellFormed(obj)
  <2>1. obj \in TP!Object
    BY <1>1 DEF TP!Object, TP!Phases, TP!phaseNone, TP!phasePending, TP!phaseReady,
       TP!phaseTerminating, TP!Reasons, TP!reasonFinalizerAdded, TP!reasonCreated, TP!reasonDeleted
  <2>2. TP!WellFormed(obj)
    BY <1>1 DEF TP!WellFormed, TP!phaseTerminating, TP!Initialized, TP!reasonFinalizerAdded
  <2> QED BY <2>1, <2>2
<1>4. obj \in BP!Object /\ BP!WellFormed(obj)
  <2>1. obj \in BP!Object
    BY <1>1 DEF BP!Object, BP!Phases, BP!phaseNone, BP!phasePending, BP!phaseReady,
       BP!phaseTerminating, BP!Reasons, BP!reasonFinalizerAdded, BP!reasonCreated, BP!reasonDeleted
  <2>2. BP!WellFormed(obj)
    BY <1>1 DEF BP!WellFormed, BP!phaseTerminating, BP!Initialized, BP!reasonFinalizerAdded
  <2> QED BY <2>1, <2>2
<1> QED BY <1>1, <1>2, <1>3, <1>4

LEMMA OrganizationStarts ==
    ASSUME NEW obj \in {Pending, Ready}, orgVersions = [k \in {OrgKey} |-> <<obj>>],
           orgQueue = {OrgKey}, orgWorker = O!Idle, orgTarget = NoId, faults \in 0 .. MaxFaults,
           \/ orgs = [o \in {OrgName} |-> O!NoOrg]
           \/ OrganizationMade
    PROVE  OP!Safe
<1>1. orgWorker = OP!Idle
  BY DEF O!Idle, OP!Idle, O!NoObject, OP!NoObject, O!Gone, OP!Gone, O!NewObject, OP!NewObject,
     O!phaseNone, OP!phaseNone
<1>2. OP!Good(OP!FinalizeCalls, OP!ReconcileCalls)
  BY <1>1, Assumed, StartedObjects, OP!StartGood
<1>3. orgs \in [{OrgName} -> OP!Org]
  <2>1. (CHOOSE o \in IdsOfOrgs : TRUE) \in IdsOfOrgs
    BY OperatorAssumption DEF OperatorAssumption
  <2> QED BY <2>1 DEF OP!Org, O!NoOrg, OrganizationMade
<1>4. OP!TypeOK
  BY <1>2, <1>3, Assumed, OP!CallsSplit DEF OP!TypeOK, OP!Good, OP!Configs
<1>5. ASSUME OrganizationMade
      PROVE  OP!OwnerOK(OrgName)
  <2>1. (CHOOSE o \in IdsOfOrgs : TRUE) # NoId
    BY OperatorAssumption DEF OperatorAssumption
  <2>2. orgs[OrgName].by = <<OrgKey, 1>> /\ orgs[OrgName].id # NoId
    BY <1>5, <2>1 DEF OrganizationMade
  <2>3. OP!Latest(OrgKey) = obj /\ OP!Cached(OrgKey) = obj
    BY DEF OP!Latest, OP!Cached
  <2>4. orgWorker.key # OrgKey /\ ~OP!At("RemoveFinalizer")
    BY <1>1, Assumed, OP!IdleFacts DEF OP!At, OP!ControllerAssumption
  <2> QED BY <2>2, <2>3, <2>4, StartedObjects DEF OP!OwnerOK, OP!Held
<1>6. \A n \in {OrgName} : OP!OwnerOK(n)
  BY <1>5 DEF OP!OwnerOK, O!NoOrg
<1> QED BY <1>2, <1>4, <1>6 DEF OP!Safe, OP!Inv, OP!Good

\* The organization that is there is the one the authorization and the bucket are in.
LEMMA OrganizationUp ==
    ASSUME OrganizationMade
    PROVE  TP!OrgExists(<<OrgName, 1>>) /\ BP!OrgExists(<<OrgName, 1>>)
<1>1. (CHOOSE o \in IdsOfOrgs : TRUE) # NoId
  BY OperatorAssumption DEF OperatorAssumption
<1>2. orgs[OrgName].id # NoId /\ incarnation = 1
  BY <1>1 DEF OrganizationMade
<1>3. (Organizations[OrgName].up <=> orgs[OrgName].id # NoId)
      /\ Organizations[OrgName].gen = incarnation
  BY DEF Organizations
<1>4. Organizations[OrgName].up /\ Organizations[OrgName].gen = 1
  BY <1>2, <1>3
<1> QED BY <1>4 DEF TP!OrgExists, BP!OrgExists

\* Nothing of it exists at the server yet.
NothingMade ==
    /\ auths = {}
    /\ secrets = [s \in {SecretName} |-> T!NoSecret]
    /\ cache = [s \in {SecretName} |-> [secret |-> T!NoSecret, current |-> TRUE]]

LEMMA TokenStarts ==
    ASSUME NEW obj \in {Pending, Ready}, tokenVersions = [k \in {TokenKey} |-> <<obj>>],
           tokenQueue = {TokenKey}, tokenWorker = T!Idle, tokenLocal = T!Nothing,
           faults \in 0 .. MaxFaults, incarnation \in Nat,
           NothingMade \/ (OrganizationMade /\ TokenMade)
    PROVE  TP!Safe
<1>1. tokenWorker = TP!Idle
  BY DEF T!Idle, TP!Idle, T!NoObject, TP!NoObject, T!Gone, TP!Gone, T!NewObject, TP!NewObject,
     T!phaseNone, TP!phaseNone
<1>2. TP!Good(TP!FinalizeCalls, TP!ReconcileCalls)
  BY <1>1, Assumed, StartedObjects, TP!StartGood
<1>3. ~TP!At("idle") <=> FALSE
  BY <1>1, Assumed, TP!IdleFacts DEF TP!At
<1> DEFINE token == CHOOSE t \in IdsOfTokens : TRUE
           secret == [exists |-> TRUE, owner |-> <<TokenKey, 1>>, token |-> token]
           auth == [id |-> token, org |-> <<OrgName, 1>>, by |-> <<TokenKey, 1>>]
<1>4. token \in IdsOfTokens
  BY OperatorAssumption DEF OperatorAssumption
<1>5. /\ auths \subseteq {auth}
      /\ auths # {} => OrganizationMade
      /\ \/ /\ secrets = [s \in {SecretName} |-> secret]
            /\ cache = [s \in {SecretName} |-> [secret |-> secret, current |-> TRUE]]
         \/ /\ secrets = [s \in {SecretName} |-> T!NoSecret]
            /\ cache = [s \in {SecretName} |-> [secret |-> T!NoSecret, current |-> TRUE]]
  BY DEF NothingMade, TokenMade
<1>6. TP!TypeOK
  <2>1. Organizations \in [{OrgName} -> [up : BOOLEAN, gen : Nat]]
    BY DEF Organizations
  <2>2. auth \in TP!Authorization
    BY <1>4 DEF TP!Authorization, TP!OrgIds, TP!Identities
  <2>3. secret \in TP!Secret /\ T!NoSecret \in TP!Secret
    BY <1>4 DEF TP!Secret, TP!Identities, T!NoSecret
  <2>4. secrets \in [{SecretName} -> TP!Secret] /\ cache \in [{SecretName} -> TP!Copies]
    <3>1. /\ [secret |-> secret, current |-> TRUE] \in TP!Copies
          /\ [secret |-> T!NoSecret, current |-> TRUE] \in TP!Copies
      BY <2>3 DEF TP!Copies
    <3>2. ASSUME NEW x \in {secret, T!NoSecret}, secrets = [s \in {SecretName} |-> x],
                 cache = [s \in {SecretName} |-> [secret |-> x, current |-> TRUE]]
          PROVE  secrets \in [{SecretName} -> TP!Secret] /\ cache \in [{SecretName} -> TP!Copies]
      <4> HIDE DEF secret
      <4> QED BY <2>3, <3>1, <3>2
    <3> HIDE DEF secret
    <3> QED BY <1>5, <3>2
  <2>5. tokenLocal \in TP!Locals
    <3>1. tokenLocal = TP!Nothing
      BY DEF T!Nothing, TP!Nothing, T!NoOrg, TP!NoOrg, T!NoCopy, TP!NoCopy, T!NoSecret, TP!NoSecret
    <3> QED BY <3>1, Assumed, TP!LocalTypes
  <2>6. [k \in {TokenKey} |-> OrgName] \in [{TokenKey} -> TP!Configs]
    BY DEF TP!Configs
  <2> QED BY <1>2, <1>5, <2>1, <2>2, <2>4, <2>5, <2>6, Assumed, TP!CallsSplit DEF TP!TypeOK, TP!Good
<1>7. TP!ConfigOK /\ TP!LocalOK /\ TP!SearchOK
  BY <1>3 DEF TP!ConfigOK, TP!LocalOK, TP!SearchOK, TP!At
<1>8. TP!OneAuthorization
  BY <1>5 DEF TP!OneAuthorization
<1>9. ASSUME NEW a \in auths
      PROVE  TP!OwnerOK(a)
  <2>1. a.org = <<OrgName, 1>> /\ a.by = <<TokenKey, 1>>
    BY <1>5
  <2>2. OrganizationMade
    BY <1>5
  <2>3. TP!OrgExists(a.org)
    BY <2>1, <2>2, OrganizationUp
  <2>4. TP!Latest(TokenKey) = obj
    BY DEF TP!Latest
  <2>5. TP!Held(a.by)
    BY <2>1, <2>4, StartedObjects DEF TP!Held
  <2>6. TP!Guards(a)
    BY <1>3, <2>1, <2>5 DEF TP!Guards, TP!At
  <2> QED BY <2>3, <2>6 DEF TP!OwnerOK
<1> QED BY <1>2, <1>6, <1>7, <1>8, <1>9 DEF TP!Safe, TP!Inv, TP!Core, TP!Good

LEMMA BucketStarts ==
    ASSUME NEW obj \in {Pending, Ready}, bucketVersions = [k \in {BucketKey} |-> <<obj>>],
           bucketQueue = {BucketKey}, bucketWorker = B!Idle, bucketLocal = B!Nothing,
           faults \in 0 .. MaxFaults, incarnation \in Nat,
           buckets = {} \/ (OrganizationMade /\ BucketMade)
    PROVE  BP!Safe /\ BP!Owned
<1>1. bucketWorker = BP!Idle
  BY DEF B!Idle, BP!Idle, B!NoObject, BP!NoObject, B!Gone, BP!Gone, B!NewObject, BP!NewObject,
     B!phaseNone, BP!phaseNone
<1>2. BP!Good(BP!FinalizeCalls, BP!ReconcileCalls)
  BY <1>1, Assumed, StartedObjects, BP!StartGood
<1>3. bucketWorker.pc = "idle" /\ bucketWorker.key # BucketKey
  BY <1>1, Assumed, BP!IdleFacts DEF BP!ControllerAssumption
<1> DEFINE bucket == [id |-> CHOOSE b \in IdsOfBuckets : TRUE, org |-> <<OrgName, 1>>,
                      name |-> BucketName, by |-> <<BucketKey, 1>>]
<1>4. buckets \subseteq {bucket} /\ (buckets # {} => OrganizationMade)
  BY DEF BucketMade
<1>5. BP!TypeOK
  <2>1. Organizations \in [{OrgName} -> [up : BOOLEAN, gen : Nat]]
    BY DEF Organizations
  <2>2. (CHOOSE b \in IdsOfBuckets : TRUE) \in IdsOfBuckets
    BY OperatorAssumption DEF OperatorAssumption
  <2>3. bucket \in BP!Bucket
    BY <2>2 DEF BP!Bucket, BP!OrgIds
  <2>4. bucketLocal \in BP!Locals
    BY DEF B!Nothing, B!NoOrg, BP!Locals, BP!NoOrg
  <2>5. [ns \in {Namespace} |-> IF Credentials.exists THEN OrgName ELSE "noSecret"]
            \in [{Namespace} -> BP!Configs]
    BY DEF BP!Configs
  <2> QED BY <1>2, <1>4, <2>1, <2>3, <2>4, <2>5, Assumed, BP!CallsSplit DEF BP!TypeOK, BP!Good
<1>6. BP!ConfigOK /\ BP!LocalOK /\ BP!Unique
  BY <1>3, <1>4 DEF BP!ConfigOK, BP!LocalOK, BP!Unique, BP!At
<1>7. ASSUME NEW b \in buckets
      PROVE  BP!MakerOK(b) /\ BP!OwnerOK(b)
  <2>1. b.org = <<OrgName, 1>> /\ b.by = <<BucketKey, 1>> /\ b.name = BucketName
    BY <1>4
  <2>2. OrganizationMade
    BY <1>4
  <2>3. BP!OrgExists(b.org)
    BY <2>1, <2>2, OrganizationUp
  <2>4. BP!Latest(BucketKey) = obj /\ BP!Cached(BucketKey) = obj
    BY DEF BP!Latest, BP!Cached
  <2>5. BP!Held(b.by)
    BY <2>1, <2>4, StartedObjects DEF BP!Held
  <2>6. BP!MakerOK(b)
    BY <1>3, <2>1, <2>3, <2>4, StartedObjects DEF BP!MakerOK
  <2>7. BP!OwnerOK(b)
    BY <1>3, <2>1, <2>5 DEF BP!OwnerOK, BP!At
  <2> QED BY <2>6, <2>7
<1> QED BY <1>2, <1>5, <1>6, <1>7 DEF BP!Safe, BP!Inv, BP!Good, BP!Owned

LEMMA InitSafe ==
    ASSUME Init
    PROVE  Safe
<1>1. PICK org \in {Pending, Ready}, token \in {Pending, Ready}, bucket \in {Pending, Ready} :
         Started(org, token, bucket)
  BY DEF Init, Applied, HalfWay, Done
<1>2. /\ faults \in 0 .. MaxFaults
      /\ incarnation \in Nat
      /\ users \in BOOLEAN
  <2>1. 0 \in 0 .. MaxFaults /\ MaxFaults \in 0 .. MaxFaults
    BY OperatorAssumption DEF OperatorAssumption
  <2>2. (faults = MaxFaults \/ faults = 0) /\ (incarnation = 0 \/ incarnation = 1)
    BY DEF Init, Applied, HalfWay, Done, OrganizationMade
  <2>3. users \in BOOLEAN
    <3>1. users = TRUE \/ users = FALSE
      BY Zenon DEF Init, Applied, HalfWay, Done
    <3> QED BY <3>1, Zenon
  <2>4. faults \in 0 .. MaxFaults /\ incarnation \in Nat
    BY <2>1, <2>2
  <2> QED BY <2>3, <2>4, Zenon
<1>3. OP!Safe
  <2>1. orgs = [o \in {OrgName} |-> O!NoOrg] \/ OrganizationMade
    BY DEF Init, Applied, HalfWay, Done
  <2> QED BY <1>1, <1>2, <2>1, OrganizationStarts DEF Started
<1>4. TP!Safe
  <2>1. NothingMade \/ (OrganizationMade /\ TokenMade)
    BY DEF Init, Applied, HalfWay, Done, NothingMade
  <2> QED BY <1>1, <1>2, <2>1, TokenStarts DEF Started
<1>5. BP!Safe /\ BP!Owned
  <2>1. buckets = {} \/ (OrganizationMade /\ BucketMade)
    BY DEF Init, Applied, HalfWay, Done
  <2> QED BY <1>1, <1>2, <2>1, BucketStarts DEF Started
<1> QED BY <1>1, <1>2, <1>3, <1>4, <1>5 DEF Safe, Started

\* Nothing that is stated here of a state depends on more than the variables.
LEMMA StutterSafe ==
    ASSUME Safe, UNCHANGED <<vars, users>>
    PROVE  Safe'
<1>1. /\ UNCHANGED <<orgVars, orgs, tokenVars, secretVars, incarnation, auths, buckets, client, users>>
      /\ UNCHANGED <<bucketVersions, bucketQueue, bucketWorker, bucketLocal>>
      /\ UNCHANGED faults
  BY DEF vars, bucketVars
<1>2. OP!Safe /\ faults' \in 0 .. MaxFaults
  BY <1>1, FaultTypes DEF Safe, OP!Safe
<1> QED BY <1>1, <1>2, OrganizationStill, TokenStill, BucketStill DEF Safe

(***************************************************************************)
(* The theorems.                                                              *)
(***************************************************************************)
\* The inductive invariants of the three controllers hold together, although each takes
\* away what the others stand on.
THEOREM InvariantHolds == Spec => []Safe
<1>1. Init => Safe
  BY InitSafe
<1>2. Safe /\ [Next]_<<vars, users>> => Safe'
  BY NextSafe, StutterSafe
<1> QED BY <1>1, <1>2, PTL DEF Spec

\* Every variable keeps its type, in each of the three controllers and at the server.
THEOREM TypeCorrect == Spec => []TypeOK
<1>1. Safe => TypeOK
  BY SafeFacts
<1> QED BY <1>1, InvariantHolds, PTL

\* Nothing the operator creates is left behind by any of the three, also when the
\* organization, the authorization or the Secret that one of them stands on is taken away
\* by another in the middle of a reconcile.
THEOREM NothingOrphaned == Spec => []NothingLeftBehind
<1>1. Safe => NothingLeftBehind
  BY SafeFacts
<1> QED BY <1>1, InvariantHolds, PTL
===============================================================================
