------------------------------ MODULE Operator ------------------------------
(***************************************************************************)
(* The manager with its three controllers, one InfluxDB server and the          *)
(* resources of the sample manifest: an Organization; a Token that works in      *)
(* that organization with the administrator's token; and a Bucket whose Config   *)
(* names the same organization and the Secret that the Token's controller        *)
(* writes.  Each controller is an instance of its own module.  They meet          *)
(*   - at the server, where an organization takes its authorizations and         *)
(*     buckets with it when it is deleted, and                                   *)
(*   - in the Secret: the Bucket controller reads it from the manager's cache,     *)
(*     and what it holds may be missing, or no authorization any more.           *)
(***************************************************************************)
EXTENDS Naturals, Sequences

CONSTANTS
    OrgKey, TokenKey, BucketKey,     \* the resources, each the only one of its kind
    OrgName, BucketName, SecretName, Namespace,
    IdsOfOrgs, IdsOfTokens, IdsOfBuckets,
    NoKey, NoId, External, MaxUid, MaxLag, MaxFaults, SameSecond, PageLimit

ASSUME OperatorAssumption ==
    /\ NoKey \notin {OrgKey, TokenKey, BucketKey}
    /\ External \notin {OrgKey, TokenKey, BucketKey} \X Nat
    /\ OrgName \notin {"noConfig", "noSecret"}
    /\ \A ids \in {IdsOfOrgs, IdsOfTokens, IdsOfBuckets} : ids # {} /\ NoId \notin ids
    /\ MaxUid \in Nat
    /\ MaxLag \in Nat \ {0}
    /\ MaxFaults \in Nat
    /\ SameSecond \in BOOLEAN
    /\ PageLimit \in Nat \ {0}

VARIABLES
    orgVersions, orgQueue, orgWorker,           \* of the Organization controller
    tokenVersions, tokenQueue, tokenWorker,     \* of the Token controller
    bucketVersions, bucketQueue, bucketWorker,  \* of the Bucket controller
    orgs,       \* the server: its organization,
    incarnation,\* how often that was created,
    auths,      \* its authorizations
    buckets,    \* and its buckets
    secrets, cache,                             \* the Secret and the manager's copy
    orgTarget, tokenLocal, bucketLocal,         \* what the workers remember
    client,     \* the token the Bucket controller read for the calls of this reconcile
    faults,     \* what is left of the fault budget
    users       \* auxiliary: whether users delete resources in this behaviour

orgVars == <<orgVersions, orgQueue, orgWorker, orgTarget>>

tokenVars == <<tokenVersions, tokenQueue, tokenWorker, tokenLocal>>

bucketVars == <<bucketVersions, bucketQueue, bucketWorker, bucketLocal, client>>

secretVars == <<secrets, cache>>

vars == <<orgVars, tokenVars, bucketVars, orgs, incarnation, auths, buckets, secretVars, faults>>

\* The Config of the Organization names the server's first organization and the
\* administrator's Secret, which stay.
O == INSTANCE OrganizationReconciler WITH
        Keys <- {OrgKey}, Names <- {OrgName}, NameOf <- [k \in {OrgKey} |-> OrgName], Ids <- IdsOfOrgs,
        versions <- orgVersions, queue <- orgQueue, worker <- orgWorker, target <- orgTarget,
        config <- [k \in {OrgKey} |-> "ok"], lost <- {}, skipped <- {}

\* The organization as the other two controllers see it.
Organizations == [o \in {OrgName} |-> [up |-> orgs[o].id # NoId, gen |-> incarnation]]

T == INSTANCE TokenReconciler WITH
        Keys <- {TokenKey}, OrgNames <- {OrgName}, Home <- [k \in {TokenKey} |-> OrgName],
        SecretNames <- {SecretName}, SecretOf <- [k \in {TokenKey} |-> SecretName], Ids <- IdsOfTokens,
        versions <- tokenVersions, queue <- tokenQueue, worker <- tokenWorker,
        orgs <- Organizations, config <- [k \in {TokenKey} |-> OrgName], local <- tokenLocal,
        skipped <- {}, moved <- {}

\* "Bucket CR ALWAYS works via default config", with the Secret of the Token.
Credentials == cache[SecretName].secret

B == INSTANCE BucketReconciler WITH
        Keys <- {BucketKey}, Namespaces <- {Namespace}, NamespaceOf <- [k \in {BucketKey} |-> Namespace],
        Names <- {BucketName}, NameOf <- [k \in {BucketKey} |-> BucketName], OrgNames <- {OrgName},
        Home <- [ns \in {Namespace} |-> OrgName], Ids <- IdsOfBuckets,
        versions <- bucketVersions, queue <- bucketQueue, worker <- bucketWorker,
        orgs <- Organizations, local <- bucketLocal, skipped <- {}, moved <- {},
        config <- [ns \in {Namespace} |-> IF Credentials.exists THEN OrgName ELSE "noSecret"]

(***************************************************************************)
(* The Organization controller, and what the server does to the contents of    *)
(* an organization that is deleted.                                           *)
(***************************************************************************)
Cascade ==
    /\ incarnation' = IF ~O!OrgExists(OrgName) /\ O!OrgExists(OrgName)'
                      THEN incarnation + 1 ELSE incarnation
    /\ auths' = IF O!OrgExists(OrgName)' THEN auths ELSE {}
    /\ buckets' = IF O!OrgExists(OrgName)' THEN buckets ELSE {}

OrganizationWork ==
    /\ O!Work
    /\ Cascade
    /\ UNCHANGED <<tokenVars, bucketVars, secretVars>>

OrganizationSteps ==
    /\ \/ O!Reconcile(OrgKey)
       \/ O!Informer(OrgKey)
       \/ O!Fail
    /\ UNCHANGED <<tokenVars, bucketVars, incarnation, auths, buckets, secretVars>>

\* Somebody else deletes the organization, with all there is in it.
OrganizationLost ==
    /\ O!Fault
    /\ O!OrgExists(OrgName)
    /\ orgs' = [orgs EXCEPT ![OrgName] = O!NoOrg]
    /\ Cascade
    /\ UNCHANGED <<orgVars, tokenVars, bucketVars, secretVars>>

(***************************************************************************)
(* The Token controller.                                                     *)
(***************************************************************************)
TokenFrame == UNCHANGED <<orgVars, orgs, incarnation, bucketVars, buckets>>

TokenWork == TokenFrame /\ T!Work

TokenSteps ==
    /\ TokenFrame
    /\ \/ T!Reconcile(TokenKey)
       \/ T!Informer(TokenKey)
       \/ T!Fail
       \/ T!SecretInformer(SecretName)
       \/ T!CollectSecret(SecretName)

(***************************************************************************)
(* The Bucket controller.  The client it makes when it has read the Config and  *)
(* the Secret uses that token for the calls that follow, and the server refuses  *)
(* them when the token is none of its authorizations.                         *)
(***************************************************************************)
BucketFrame == UNCHANGED <<orgVars, orgs, incarnation, tokenVars, auths, secretVars>>

ClientCalls ==
    {"FinalizeFindOrganization", "FindBucketsByOrgID", "DeleteBucketWithID",
     "ReconcileFindOrganization", "CreateBucket"}

Authorized == \E a \in auths : a.id = client

BucketRefused ==
    /\ bucketWorker.pc \in ClientCalls
    /\ ~Authorized
    /\ B!GiveUp
    /\ UNCHANGED <<bucketVersions, buckets, faults>>

\* The token is remembered as long as there are calls to make with it.
RememberClient(token) == client' = IF bucketWorker'.pc \in ClientCalls THEN token ELSE NoId

BucketWork ==
    /\ BucketFrame
    /\ \/ /\ B!FinalizeReadConfig \/ B!ReconcileReadConfig
          /\ RememberClient(Credentials.token)
       \/ /\ bucketWorker.pc \notin {"FinalizeResources", "ReconcileResources"}
          /\ bucketWorker.pc \in ClientCalls => Authorized
          /\ B!Work
          /\ RememberClient(client)
       \/ /\ BucketRefused
          /\ RememberClient(client)

BucketSteps ==
    /\ BucketFrame
    /\ \/ B!Reconcile(BucketKey)
       \/ B!Informer(BucketKey)
       \/ B!Fail
    /\ RememberClient(client)

\* The manager is one process: its controllers and caches start again together.
Restart ==
    /\ O!Fault
    /\ O!RestartController
    /\ orgTarget' = NoId
    /\ T!RestartManager
    /\ B!RestartController
    /\ bucketLocal' = B!Nothing
    /\ client' = NoId
    /\ UNCHANGED <<orgs, incarnation, auths, buckets, secrets>>

\* kubectl delete, for each of the three in any order.
Users ==
    /\ users
    /\ \/ /\ O!Delete(OrgKey)
          /\ UNCHANGED <<tokenVars, bucketVars, incarnation, auths, buckets, secretVars>>
       \/ TokenFrame /\ T!Delete(TokenKey)
       \/ BucketFrame /\ B!Delete(BucketKey) /\ UNCHANGED client

Running ==
    \/ OrganizationWork \/ OrganizationSteps \/ OrganizationLost
    \/ TokenWork \/ TokenSteps
    \/ BucketWork \/ BucketSteps
    \/ Restart

Next == (Running \/ Users) /\ UNCHANGED users

(***************************************************************************)
(* Each controller has a goroutine, a queue and a watch of its own, and none   *)
(* waits for another; the garbage collector and the watch of Secrets are those  *)
(* of the cluster and of the manager.  Nothing is asked of the users.          *)
(***************************************************************************)
Fairness ==
    /\ WF_vars(OrganizationWork)
    /\ WF_vars(OrganizationSteps /\ O!Informer(OrgKey))
    /\ WF_vars(OrganizationSteps /\ O!Reconcile(OrgKey))
    /\ WF_vars(TokenWork)
    /\ WF_vars(TokenSteps /\ T!Informer(TokenKey))
    /\ WF_vars(TokenSteps /\ T!Reconcile(TokenKey))
    /\ WF_vars(TokenSteps /\ T!SecretInformer(SecretName))
    /\ WF_vars(TokenSteps /\ T!CollectSecret(SecretName))
    /\ WF_vars(BucketWork)
    /\ WF_vars(BucketSteps /\ B!Informer(BucketKey))
    /\ WF_vars(BucketSteps /\ B!Reconcile(BucketKey))

(***************************************************************************)
(* Where the three stand when we begin to look.  The manifest has been applied   *)
(* and nothing of it exists at the server yet; it is left in place, and calls     *)
(* fail, the manager restarts, the organization is lost.  Or only the bucket is   *)
(* still to be made, or nothing; no call fails, and users delete what they like,   *)
(* also in the middle of a reconcile of another.                               *)
(***************************************************************************)
Pending ==
    [O!NewObject(1) EXCEPT !.finalizer = TRUE, !.phase = O!phasePending,
                           !.conds = {O!reasonFinalizerAdded}]

Ready ==
    [Pending EXCEPT !.phase = O!phaseReady, !.conds = @ \cup {O!reasonCreated}]

Started(org, token, bucket) ==
    /\ orgVersions = [k \in {OrgKey} |-> <<org>>]
    /\ tokenVersions = [k \in {TokenKey} |-> <<token>>]
    /\ bucketVersions = [k \in {BucketKey} |-> <<bucket>>]
    /\ orgQueue = {OrgKey} /\ tokenQueue = {TokenKey} /\ bucketQueue = {BucketKey}
    /\ orgWorker = O!Idle /\ tokenWorker = T!Idle /\ bucketWorker = B!Idle
    /\ orgTarget = NoId /\ tokenLocal = T!Nothing /\ bucketLocal = B!Nothing /\ client = NoId

OrganizationMade ==
    /\ incarnation = 1
    /\ orgs = [n \in {OrgName} |-> [id |-> CHOOSE o \in IdsOfOrgs : TRUE, by |-> <<OrgKey, 1>>]]

TokenMade ==
    LET token == CHOOSE t \in IdsOfTokens : TRUE
        secret == [exists |-> TRUE, owner |-> <<TokenKey, 1>>, token |-> token]
    IN /\ auths = {[id |-> token, org |-> <<OrgName, 1>>, by |-> <<TokenKey, 1>>]}
       /\ secrets = [s \in {SecretName} |-> secret]
       /\ cache = [s \in {SecretName} |-> [secret |-> secret, current |-> TRUE]]

BucketMade ==
    buckets = {[id |-> CHOOSE b \in IdsOfBuckets : TRUE, org |-> <<OrgName, 1>>,
                name |-> BucketName, by |-> <<BucketKey, 1>>]}

Applied ==
    /\ Started(Pending, Pending, Pending)
    /\ incarnation = 0
    /\ orgs = [o \in {OrgName} |-> O!NoOrg]
    /\ auths = {}
    /\ secrets = [s \in {SecretName} |-> T!NoSecret]
    /\ cache = [s \in {SecretName} |-> [secret |-> T!NoSecret, current |-> TRUE]]
    /\ buckets = {}
    /\ users = FALSE /\ faults = MaxFaults

HalfWay ==
    /\ Started(Ready, Ready, Pending)
    /\ OrganizationMade
    /\ TokenMade
    /\ buckets = {}
    /\ users = TRUE /\ faults = 0

Done ==
    /\ Started(Ready, Ready, Ready)
    /\ OrganizationMade
    /\ TokenMade
    /\ BucketMade
    /\ users = TRUE /\ faults = 0

Init == Applied \/ HalfWay \/ Done

Spec == Init /\ [][Next]_<<vars, users>> /\ Fairness

(***************************************************************************)
(* Properties.                                                               *)
(***************************************************************************)
TypeOK ==
    /\ O!TypeOK
    /\ T!TypeOK
    /\ B!TypeOK
    /\ incarnation \in Nat
    /\ users \in BOOLEAN
    /\ client \in IdsOfTokens \cup {NoId}

\* Nothing the operator creates is left behind by any of the three, also when what
\* one of them stands on is taken away by another in the middle of a reconcile.
NothingLeftBehind == O!NoOrphan /\ T!NoOrphan /\ B!NoOrphan

\* "The manifest shown above can be applied in a namespace resulting in creation of
\* following resources", and stay: whichever controller comes first, and also when the
\* organization is lost with all its contents, in the end there is the organization, a
\* Secret with the token of an authorization in it, and the bucket made with that token.
AllReady ==
    /\ O!Latest(OrgKey).phase = O!phaseReady
    /\ T!Latest(TokenKey).phase = T!phaseReady
    /\ B!Latest(BucketKey).phase = B!phaseReady

AllThere ==
    /\ O!OrgExists(OrgName)
    /\ secrets[SecretName].exists
    /\ \E a \in auths : a.id = secrets[SecretName].token
    /\ buckets # {}

InPlace ==
    O!Live(O!Latest(OrgKey)) /\ T!Live(T!Latest(TokenKey)) /\ B!Live(B!Latest(BucketKey))

ManifestApplied == <>[](InPlace => AllReady /\ AllThere)

\* Removing the resources ends.  The Token and the Organization go whatever their order
\* (the contents of the organization go with it, behind the back of their controllers);
\* the Bucket goes unless one of the other two, which its controller needs in order to
\* find and delete the bucket, has been deleted as well.
InDeletion(obj) == obj.exists /\ obj.deleting

TeardownEnds ==
    /\ []<>~InDeletion(O!Latest(OrgKey))
    /\ []<>~InDeletion(T!Latest(TokenKey))
    /\ []<>(InDeletion(B!Latest(BucketKey)) =>
                ~(O!Live(O!Latest(OrgKey)) /\ T!Live(T!Latest(TokenKey))))
===============================================================================
