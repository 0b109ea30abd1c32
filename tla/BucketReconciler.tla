-------------------------- MODULE BucketReconciler --------------------------
(***************************************************************************)
(* The controller of Bucket resources.  A Bucket works through the Config     *)
(* named "default" of its namespace, which names an InfluxDB organization;     *)
(* ReconcileResources creates a bucket of the resource's name in that          *)
(* organization and FinalizeResources deletes it there.                       *)
(*                                                                           *)
(* An organization is known by its name and its incarnation: one that was      *)
(* deleted and created again is another one, and its buckets went with it.      *)
(***************************************************************************)
EXTENDS Controller, FiniteSets

CONSTANTS
    Namespaces,
    NamespaceOf,    \* NamespaceOf[k]: metadata.namespace of resource k
    Names,          \* bucket names
    NameOf,         \* NameOf[k]: metadata.name of resource k
    OrgNames,       \* names of organizations on the InfluxDB server
    Home,           \* Home[ns]: the organization the default Config names at first
    Ids,            \* bucket ids the server may give out
    NoId,
    PageLimit       \* how many buckets the server lists when not asked for more

ASSUME BucketAssumption ==
    /\ NamespaceOf \in [Keys -> Namespaces]
    /\ NameOf \in [Keys -> Names]
    /\ Home \in [Namespaces -> OrgNames]
    /\ {"noConfig", "noSecret"} \cap OrgNames = {}
    /\ NoId \notin Ids
    /\ PageLimit \in Nat \ {0}

VARIABLES
    orgs,       \* orgs[o]: whether organization o exists, and its incarnation
    buckets,    \* the buckets on the server
    config,     \* config[ns]: the organization of the default Config, or what is missing
    local,      \* what the worker remembers between its calls to InfluxDB
    skipped,    \* auxiliary: resources finalized without their Config
    moved       \* auxiliary: namespaces whose Config has named another organization

influxVars == <<orgs, buckets, config, local, skipped, moved>>

vars == <<controllerVars, influxVars>>

OrgIds == OrgNames \X Nat

Bucket == [id : Ids, org : OrgIds, name : Names, by : (Keys \X Nat) \cup {External}]

Configs == OrgNames \cup {"noConfig", "noSecret"}

NoOrg == <<>>

Nothing == [orgName |-> NoId, org |-> NoOrg, bucket |-> NoId]

Locals ==
    [orgName : OrgNames \cup {NoId}, org : OrgIds \cup {NoOrg}, bucket : Ids \cup {NoId}]

Calls == CommonCalls \cup
         {"FinalizeFindOrganization", "FindBucketsByOrgID", "DeleteBucketWithID",
          "ReconcileFindOrganization", "CreateBucket"}

MyName == NameOf[worker.key]

MyConfig == config[NamespaceOf[worker.key]]

OrgId(o) == <<o, orgs[o].gen>>

OrgExists(org) == orgs[org[1]].up /\ orgs[org[1]].gen = org[2]

BucketsOf(org) == {b \in buckets : b.org = org}

\* An answer to a list request: every bucket of the organization, or one page of them.
Pages(org) ==
    {page \in SUBSET BucketsOf(org) :
        \/ page = BucketsOf(org) /\ Cardinality(page) <= PageLimit
        \/ Cardinality(page) = PageLimit}

Named(bs, n) == {b \in bs : b.name = n}

FreshId(id) == id # local.bucket /\ \A b \in buckets : b.id # id

(***************************************************************************)
(* The handlers that only touch the resource itself.                          *)
(***************************************************************************)
Reconcile(k) == Dispatch(k) /\ UNCHANGED influxVars

FinalizeStatus == MarkTerminating /\ UNCHANGED influxVars

RemoveFinalizer == DropFinalizer /\ UNCHANGED influxVars

AddFinalizer == PutFinalizer /\ UNCHANGED influxVars

InitializeStatus == MarkInitialized /\ UNCHANGED influxVars

DeletedStatus == MarkDeleted /\ UNCHANGED influxVars

CreatedStatus == MarkCreated /\ UNCHANGED influxVars

\* The handler returns an error from one of its calls to InfluxDB.
GiveUp == ReturnError /\ local' = Nothing

(***************************************************************************)
(* FinalizeResources: read the Config and its secret, find the organization   *)
(* (unlike the other two kinds an unknown one is an error), list its buckets,   *)
(* delete the one of the resource's name by id, record that in the status.     *)
(***************************************************************************)
\* A fault to check against: a missing token is taken for a missing Config.
FinalizeWithoutToken ==
    /\ At("FinalizeResources")
    /\ IF MyConfig \in {"noConfig", "noSecret"}
       THEN GoTo("RemoveFinalizer") /\ UNCHANGED local
       ELSE /\ GoTo("FinalizeFindOrganization")
            /\ local' = [local EXCEPT !.orgName = MyConfig]
    /\ skipped' = IF MyConfig = "noConfig" THEN skipped \cup {Me} ELSE skipped
    /\ UNCHANGED <<versions, queue, faults, orgs, buckets, config, moved>>

FinalizeReadConfig ==
    /\ At("FinalizeResources")
    /\ \/ /\ MyConfig = "noConfig"
          /\ GoTo("RemoveFinalizer")
          /\ skipped' = skipped \cup {Me}
          /\ UNCHANGED <<queue, local>>
       \/ /\ MyConfig = "noSecret"
          /\ GiveUp
          /\ UNCHANGED skipped
       \/ /\ MyConfig \in OrgNames
          /\ GoTo("FinalizeFindOrganization")
          /\ local' = [local EXCEPT !.orgName = MyConfig]
          /\ UNCHANGED <<queue, skipped>>
    /\ UNCHANGED <<versions, faults, orgs, buckets, config, moved>>

\* FindOrganizationByName, the answer being needed for the call that follows.
FindOrganization(next) ==
    /\ \/ /\ ~orgs[local.orgName].up
          /\ GiveUp
       \/ /\ orgs[local.orgName].up
          /\ GoTo(next)
          /\ local' = [local EXCEPT !.org = OrgId(local.orgName)]
          /\ UNCHANGED queue
    /\ UNCHANGED <<versions, faults, orgs, buckets, config, skipped, moved>>

FinalizeFindOrganization ==
    /\ At("FinalizeFindOrganization")
    /\ FindOrganization("FindBucketsByOrgID")

\* A fault to check against: the name is kept where the id is needed.
FindBucketsKeepsName ==
    /\ At("FindBucketsByOrgID")
    /\ \E page \in Pages(local.org) :
          \/ /\ Named(page, MyName) = {}
             /\ GoTo("RemoveFinalizer")
             /\ local' = Nothing
          \/ \E b \in Named(page, MyName) :
             /\ GoTo("DeleteBucketWithID")
             /\ local' = [local EXCEPT !.bucket = b.name]
    /\ UNCHANGED <<versions, queue, faults, orgs, buckets, config, skipped, moved>>

\* A fault to check against: a bucket that is not there any more is an error.
FindBucketsStrictly ==
    /\ At("FindBucketsByOrgID")
    /\ \E page \in Pages(local.org) :
          \/ /\ Named(page, MyName) = {}
             /\ GiveUp
          \/ \E b \in Named(page, MyName) :
             /\ GoTo("DeleteBucketWithID")
             /\ local' = [local EXCEPT !.bucket = b.id]
             /\ UNCHANGED queue
    /\ UNCHANGED <<versions, faults, orgs, buckets, config, skipped, moved>>

FindBucketsByOrgID ==
    /\ At("FindBucketsByOrgID")
    /\ \E page \in Pages(local.org) :
          \/ /\ Named(page, MyName) = {}
             /\ GoTo("RemoveFinalizer")
             /\ local' = Nothing
          \/ \E b \in Named(page, MyName) :
             /\ GoTo("DeleteBucketWithID")
             /\ local' = [local EXCEPT !.bucket = b.id]
    /\ UNCHANGED <<versions, queue, faults, orgs, buckets, config, skipped, moved>>

DeleteBucketWithID ==
    /\ At("DeleteBucketWithID")
    /\ \/ /\ \A b \in buckets : b.id # local.bucket
          /\ ReturnError
          /\ UNCHANGED <<buckets, faults>>
       \/ \E b \in buckets :
          /\ b.id = local.bucket
          /\ buckets' = buckets \ {b}
          /\ \/ GoTo("DeletedStatus") /\ UNCHANGED <<queue, faults>>
             \/ Fault /\ ReturnError
    /\ local' = Nothing
    /\ UNCHANGED <<versions, orgs, config, skipped, moved>>

(***************************************************************************)
(* ReconcileResources: read the Config and its secret, find the organization, *)
(* create the bucket or learn that it exists, record that in the status once   *)
(* and each time it had to be created again.                                  *)
(***************************************************************************)
ReconcileReadConfig ==
    /\ At("ReconcileResources")
    /\ \/ /\ MyConfig \in {"noConfig", "noSecret"}
          /\ GiveUp
       \/ /\ MyConfig \in OrgNames
          /\ GoTo("ReconcileFindOrganization")
          /\ local' = [local EXCEPT !.orgName = MyConfig]
          /\ UNCHANGED queue
    /\ UNCHANGED <<versions, faults, orgs, buckets, config, skipped, moved>>

ReconcileFindOrganization ==
    /\ At("ReconcileFindOrganization")
    /\ FindOrganization("CreateBucket")

\* A fault to check against: after a conflict the code runs on into the finalization.
ConflictFallsThrough ==
    /\ GoTo(IF reasonCreated \in worker.obj.conds THEN "FinalizeResources" ELSE "CreatedStatus")
    /\ UNCHANGED <<queue, faults, buckets>>

\* The server answers 422 when the name is taken in the organization.
BucketConflict ==
    /\ IF reasonCreated \in worker.obj.conds
       THEN RequeueAfter
       ELSE GoTo("CreatedStatus") /\ UNCHANGED queue
    /\ UNCHANGED <<faults, buckets>>

CreateBucket ==
    /\ At("CreateBucket")
    /\ \/ /\ ~OrgExists(local.org)
          /\ ReturnError
          /\ UNCHANGED <<faults, buckets>>
       \/ /\ OrgExists(local.org)
          /\ Named(BucketsOf(local.org), MyName) # {}
          /\ BucketConflict
       \/ /\ OrgExists(local.org)
          /\ Named(BucketsOf(local.org), MyName) = {}
          /\ \E id \in Ids :
                /\ FreshId(id)
                /\ buckets' = buckets \cup
                     {[id |-> id, org |-> local.org, name |-> MyName, by |-> Me]}
          /\ \/ GoTo("CreatedStatus") /\ UNCHANGED <<queue, faults>>
             \/ Fault /\ ReturnError
    /\ local' = Nothing
    /\ UNCHANGED <<versions, orgs, config, skipped, moved>>

(***************************************************************************)
(* The world around the controller.                                          *)
(***************************************************************************)
Informer(k) == Deliver(k) /\ UNCHANGED influxVars

Create(k) == UserCreate(k) /\ UNCHANGED influxVars

Delete(k) == UserDelete(k) /\ UNCHANGED influxVars

Edit(k) == UserEdit(k) /\ UNCHANGED influxVars

Fail ==
    /\ CallFails
    /\ local' = Nothing
    /\ UNCHANGED <<orgs, buckets, config, skipped, moved>>

Restart ==
    /\ Fault
    /\ RestartController
    /\ local' = Nothing
    /\ UNCHANGED <<orgs, buckets, config, skipped, moved>>

\* The Organization resource of the same name is finalized, or created (again):
\* InfluxDB deletes the buckets of an organization with it.
ToggleOrganization(o) ==
    /\ Fault
    /\ \/ /\ orgs[o].up
          /\ orgs' = [orgs EXCEPT ![o].up = FALSE]
          /\ buckets' = buckets \ BucketsOf(OrgId(o))
       \/ /\ ~orgs[o].up
          /\ orgs' = [orgs EXCEPT ![o] = [up |-> TRUE, gen |-> @.gen + 1]]
          /\ UNCHANGED buckets
    /\ UNCHANGED <<versions, queue, worker, config, local, skipped, moved>>

\* Somebody else deletes a bucket or creates one.
Drift ==
    /\ Fault
    /\ \/ \E b \in buckets : buckets' = buckets \ {b}
       \/ \E id \in Ids, o \in OrgNames, n \in Names :
             /\ orgs[o].up
             /\ FreshId(id)
             /\ Named(BucketsOf(OrgId(o)), n) = {}
             /\ buckets' = buckets \cup
                  {[id |-> id, org |-> OrgId(o), name |-> n, by |-> External]}
    /\ UNCHANGED <<versions, queue, worker, orgs, config, local, skipped, moved>>

\* The default Config or its secret disappears or comes back, or the Config is
\* edited to name another organization (its webhook accepts every update).
ChangeConfig(ns) ==
    /\ Fault
    /\ \E c \in Configs \ {config[ns]} :
          /\ config' = [config EXCEPT ![ns] = c]
          /\ moved' = IF c \in OrgNames \ {Home[ns]} THEN moved \cup {ns} ELSE moved
    /\ UNCHANGED <<versions, queue, worker, orgs, buckets, local, skipped>>

Init ==
    /\ ControllerInit
    /\ orgs = [o \in OrgNames |-> [up |-> TRUE, gen |-> 0]]
    /\ buckets = {}
    /\ config = Home
    /\ local = Nothing
    /\ skipped = {}
    /\ moved = {}

Work ==
    \/ FinalizeStatus
    \/ FinalizeReadConfig
    \/ FinalizeFindOrganization
    \/ FindBucketsByOrgID
    \/ DeleteBucketWithID
    \/ DeletedStatus
    \/ RemoveFinalizer
    \/ AddFinalizer
    \/ InitializeStatus
    \/ ReconcileReadConfig
    \/ ReconcileFindOrganization
    \/ CreateBucket
    \/ CreatedStatus

Next ==
    \/ Work
    \/ Fail
    \/ Restart
    \/ Drift
    \/ \E k \in Keys : Reconcile(k) \/ Informer(k)
    \/ \E k \in Keys : Create(k) \/ Delete(k) \/ Edit(k)
    \/ \E o \in OrgNames : ToggleOrganization(o)
    \/ \E ns \in Namespaces : ChangeConfig(ns)

(***************************************************************************)
(* As for organizations: the worker runs, the watch delivers, and the         *)
(* first-in first-out queue hands every key to the worker in the end.          *)
(***************************************************************************)
Fairness ==
    /\ WF_vars(Work)
    /\ \A k \in Keys : WF_vars(Informer(k)) /\ SF_vars(Reconcile(k))

Spec == Init /\ [][Next]_vars

FairSpec == Spec /\ Fairness

(***************************************************************************)
(* Properties.                                                               *)
(***************************************************************************)
Life == INSTANCE Lifecycle WITH
            Identities <- Resources,
            held <- HeldResources,
            past <- PastResources,
            provided <- {b.by : b \in buckets} \ {External},
            excused <- skipped \cup {me \in Resources : NamespaceOf[me[1]] \in moved}

\* Seen without its caches, calls and failures, the controller keeps the promise of
\* Lifecycle: it creates only for resources its finalizer holds, and lets go of a
\* resource when nothing of it is left at InfluxDB or it has openly given up.
ImplementsLifecycle == Life!Spec

TypeOK ==
    /\ ControllerTypeOK(Calls)
    /\ orgs \in [OrgNames -> [up : BOOLEAN, gen : Nat]]
    /\ buckets \subseteq Bucket
    /\ config \in [Namespaces -> Configs]
    /\ local \in Locals
    /\ skipped \subseteq Keys \X Nat
    /\ moved \subseteq Namespaces

\* A bucket the operator created for a resource is never left behind: the resource
\* is still there with its finalizer, unless it was finalized without its Config, or
\* the Config has meanwhile named another organization, where FinalizeResources then
\* looks for the bucket.  Holds as long as an organization's buckets fit in one page
\* of the list that FinalizeResources asks for.
NoOrphan ==
    \A b \in buckets :
        b.by # External =>
            Held(b.by) \/ b.by \in skipped \/ NamespaceOf[b.by[1]] \in moved

\* Buckets are found by name but belong to the organization of the Config: the one
\* FinalizeResources is about to delete was not created for a resource that is alive,
\* however old the copy that says "deleting" is, and wherever the Config has been
\* turned since.  Holds when no two resources ask for the same bucket.
SparesLive ==
    \A b \in buckets :
        At("DeleteBucketWithID") /\ b.id = local.bucket /\ b.by # External
            => ~Alive(b.by)

\* A deleted resource goes away, provided its Config in the end names an organization
\* that stays or is absent altogether.
DeletionCompletes ==
    \A k \in Keys :
        LET ns == NamespaceOf[k] IN
        \/ []<>(config[ns] = "noSecret")
        \/ []<>(config[ns] \in OrgNames /\ ~orgs[config[ns]].up)
        \/ []<>~(Latest(k).exists /\ Latest(k).deleting)

\* A deleted resource goes away once its Config is readable, also when its
\* organization was deleted before it, and its bucket with the organization.
DeletionOutlivesOrganization ==
    \A k \in Keys :
        \/ []<>(config[NamespaceOf[k]] = "noSecret")
        \/ []<>~(Latest(k).exists /\ Latest(k).deleting)

\* A resource that stays becomes ready and in the end has its bucket in the
\* organization its Config settles on: drift and moves are repaired.
Converges ==
    \A k \in Keys, o \in OrgNames :
        <>[](config[NamespaceOf[k]] = o /\ orgs[o].up /\ Live(Latest(k)))
            => <>[](/\ Latest(k).phase = phaseReady
                    /\ Named(BucketsOf(OrgId(o)), NameOf[k]) # {})
===============================================================================
