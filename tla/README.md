# TLA+ model of influxdb-operator

The operator manages organizations, buckets and tokens (authorizations) of an
InfluxDB server from Kubernetes custom resources.  Its code is sequential Go;
what makes it hard is everything around each line: the object a handler works
on is a copy from a cache, InfluxDB and Kubernetes change independently, a
call may take effect and still report an error, the process may stop between
any two calls, and most reconciles end with "no requeue" and rely on an event
that has yet to come.  These modules model the three controllers with that
environment, each alone and the three together, what the webhooks admit, and the
rate limiter the controllers share.

## The system

| Component | Code | State | Operations | Model |
|---|---|---|---|---|
| Reconcile loop, status and finalizer handlers | `controllers/*_controller.go`, `FinalizeStatus`, `RemoveFinalizer`, `AddFinalizer`, `InitializeStatus` of the three `*_controller_impl.go`, `error.go`, `const.go` | the custom resource (finalizer, `status.phase`, `status.conditions`), the informer cache, the work queue, the worker's copy | read from the cache, pick the handler, update under optimistic concurrency, requeue or not | `Controller` |
| Organization controller | `organization_controller*.go` | organizations on the server | find by name, delete by id, create, record in the status | `OrganizationReconciler` |
| Bucket controller | `bucket_controller*.go` | buckets in organizations | find organization, list buckets, delete by id, create, record | `BucketReconciler` |
| Token controller | `token_controller*.go` | authorizations, the Secret that holds the token | list, delete, create authorization; create, read, update the Secret; record | `TokenReconciler` |
| Operator (three controllers, one server) | `main.go`, `README.md` | all of the above | an organization deleted under its buckets and authorizations; the Bucket controller works with the token in the Secret that the Token controller writes | `Operator` |
| Config resource | `config_types.go`, `config_webhook.go` | organization name, address, reference to a Secret | only read by the controllers | `config` of the reconcilers |
| Admission webhooks | `api/v1beta1/*_webhook.go` | none | validation of what is created and changed; defaults | `ValidateCreate` and `ValidateUpdate` in `OrganizationReconciler`, `BucketAdmission`, `TokenAdmission`; no defaults |
| Log rate limiter | `controllers/limiter.go` | a mutex and a map from message to time | decides if a message is logged | `RateLimit` |
| Manager start-up | `main.go` | none | start, leader election | restart; what a manager leaves under way: `TokenInFlight` |
| Types, generated code, manifests, test suites | `*_types.go`, `zz_generated.deepcopy.go`, `config/`, `*_suite_test.go` | | | data |

How they interact.  The API server is the only thing the controllers and the
users share directly: users write specs and delete resources, controllers write
finalizers and status.  A controller never calls another one.  They meet at the
InfluxDB server (deleting an organization deletes its buckets and
authorizations) and in the Secrets: the Secret a Token controller writes may be
the one that the Config of a Bucket refers to, so that the removal of a Token
takes the credentials of other resources away.

What is hard, and where:

* **Old copies.** `r.Get` reads the informer's cache.  A reconcile may start
  from an object that is already marked for deletion, already gone, or gone and
  created again with a new uid.
* **Partial failure.** InfluxDB is changed first, the status afterwards.  The
  answer may be lost, the status update refused, the manager stopped between
  the two.
* **Wake-ups.** Every successful write returns `ObjectUpdated`, for which
  `Reconcile` returns `ctrl.Result{}, nil`.  The reconcile that has to follow is
  the one the watch event of the write starts.
* **Drift.** Others create and delete organizations, buckets, authorizations
  and Secrets, and edit Configs.
* **Two caches.** The Token controller reads a Secret through a cache too, just
  after it has been told that the Secret exists.

The property that makes each component correct:

* reconcile loop: an existing resource is never forgotten (`NoLostWakeup`), and
  its phase never moves back (`PhaseForward`);
* each controller: nothing it created at InfluxDB stays there with no resource
  (`NoOrphan`), finalization deletes nothing of a live resource (`SparesLive`),
  a deleted resource goes away (`DeletionCompletes`), a resource that stays ends
  up with what it asked for (`Converges`);
* Token controller: never two authorizations for one resource in one
  organization (`OneAuthorization`), and however many there are, none survives the
  resource (`NoneSurvives`); the Secret ends up with a token that works
  (`AdmittedIsGranted`, `SecretServes`);
* webhooks: what is admitted can be had, and what the controller never looks at
  again does not change (`ReadyHasBucket`, `RetentionAgrees`, `DefaultOrgSpared`);
* the operator: the sample manifest becomes ready whichever controller comes first
  (`ManifestApplied`), and can be removed (`TeardownEnds`, `NothingLeftBehind`);
* rate limiter: the map is not shared (`MapIsExclusive`), the interval is kept
  (`Spaced`), nobody waits for ever (`CallReturns`).

What all three reconcilers promise is stated once more, without anything of how they do
it, as a specification of its own (`Lifecycle`), which each of them implements.

## The modules

```
Lifecycle                    what each reconciler promises, abstractly
Controller                   API server, informer, queue, worker, common handlers
  OrganizationReconciler     + InfluxDB organizations      <- MCOrganization, Org*.cfg
  BucketReconciler           + organizations and buckets   <- MCBucket, Bucket{Live,OrgGone,Page}.cfg
    BucketAdmission            + specs and webhooks        <- MCBucketAdmission, BucketSafety.cfg
  TokenReconciler            + authorizations and Secrets  <- MCToken, TokenShared.cfg
    TokenAdmission             + specs and webhooks        <- MCTokenAdmission, TokenLive.cfg
    TokenInFlight              + requests that outlive their sender  <- MCTokenInFlight, TokenSafety.cfg
  Specs                      specs travelling with the versions (used by the Admission modules)
  ControllerProofs           lemmas on Controller, for any reconciler, also in the terms of Lifecycle
    OrganizationProofs       the theorems on OrganizationReconciler, and that it implements Lifecycle
    BucketProofs             the same for BucketReconciler
      BucketAdmissionProofs    and for the specs of BucketAdmission
    TokenProofs              the same for TokenReconciler
      TokenInFlightProofs      and for TokenInFlight
Operator                     the three reconcilers on one server, Operator.cfg
  OperatorProofs             the theorems on Operator, from those of the three kinds
RateLimit                    limiter.go, RateLimit.cfg
  RateLimitProofs            the theorems on RateLimit
```

### Controller

The state is

* `versions[k]`: the versions of object `k` from the one in the informer's cache
  (the head) to the one at the API server (the last).  `resourceVersion` is not a
  number: a cached version is out of date when another one follows it.  A deleted
  object remains as a version that does not exist, and one created again under the
  same name has a new `uid`;
* `queue`: the keys in the work queue, including those waiting for a backoff or a
  `RequeueAfter`;
* `worker`: the call the (single) worker is about to issue, the copy it
  has, and `stale`: whether the API server has accepted a write to the object
  since the version that was copied.  A write with a stale copy is refused;
* `faults`: the fault budget, see below.

An object is its `uid`, whether it exists, its deletion timestamp (set or not), the
finalizer (there or not), `status.phase`, and the set of reasons found in
`status.conditions`.  The handlers scan the conditions for a reason before they append,
so a set is enough; messages, stamps and owner names are left out.

`Dispatch` is `Reconcile` up to the first call that leaves the process: the Get from
the cache and the early returns of the handlers, summed up in `FirstCall`.  After that
each action is one call to the API server or to InfluxDB with everything the code does
up to the next one.  `Save` is `r.Update` or `r.Status().Update`: refused, done, or done
with the answer lost.

### The reconcilers

One action per remote call, named after the client function (`FindOrganizationByName`,
`DeleteBucketWithID`, `CreateAuthorization`, ...) or after the handler (`FinalizeReadConfig`
is the part of `FinalizeResources` that reads the Config and its Secret).  Each
action has one disjunct per outcome that the code tells apart.  `CallFails`/`Fail` is any of those calls
failing with no effect; a call that took effect and whose answer is lost is a disjunct
of that call.

The environment's actions are the user's (`Create`, `Delete`, `Edit`, `ChangeConfig`),
other users of InfluxDB (`Drift`, `ToggleOrganization`), the watch (`Informer`,
`SecretInformer`), the garbage collector (`CollectSecret`), and `Restart`.

Details that matter:

* **Organization.** Found by name, deleted by id, so an organization that was replaced between
  the two calls is not touched.  Two resources of different namespaces may
  share a name and hence an organization.
* **Bucket.** An organization has an incarnation, since the buckets of an
  organization deleted and created again are gone.  The list of buckets is one page
  of `PageLimit` buckets: any page of them is a possible answer.  An unknown
  organization is an error here, whereas the Token controller takes it as success.
* **Token.** The description of an authorization carries name, namespace and uid, and
  is modelled by that identity.  A Secret has a copy in the cache with a flag that
  says whether it is current; when the watch catches up it goes to the latest version.
  `status.data` (the authorization's id) is not kept, as nothing reads it, but it
  makes every status update after a creation a real change, so `CreatedStatus` does not
  have the case of `SaveSameSecond`.  After an answer of 422 the code reads the
  authorization it was not given; that panic is a restart in `CreateAuthorization`.

Auxiliary variables exist to state properties, and no action of the code reads them: `skipped` (resources whose
finalization was skipped because their Config was missing, which the code documents with
"skipping deleting resources"), `moved` (whose Config has named another
organization since), and `lost` (names whose organization was deleted by others).

The operators that begin with "A fault to check against" are plausible mistakes in the
code.  No action uses them; replacing the definition they vary with one of them makes
the property they are kept for fail.

### Lifecycle

The abstract promise: a resource is *held* by its finalizer, something is *provided* for it only
while it is held, and it is *released* only when nothing of it is left or it is *excused*
(its finalization was skipped without a Config, or its Config has moved).  Four sets, six
actions, nothing remote.  Each reconciler is an implementation under a refinement mapping:
`held` and `past` are read off the API server's versions (`HeldResources`, `PastResources` in
`Controller`), `provided` is who created what is on the server, `excused` comes from the
auxiliary variables.  `ImplementsLifecycle == Life!Spec` is checked as a property in the three live runs.
What it says beyond `NoOrphan` is about steps: nothing is created for a resource that is not held
*at that moment*, and a released identity is never held again.

### Specs and webhooks

`Controller` leaves specs out.  `Specs` adds them along the versions: `specs[k][i]` belongs to
`versions[k][i]`, `mySpec` to the worker's copy.  `BucketAdmission` and `TokenAdmission`
run the whole reconciler with them: a request is stored when `ValidateCreate` or
`ValidateUpdate` (the webhook of that kind) lets it pass, the worker creates with the spec of
its copy, and the server keeps what it was told (`rules`, `granted`) or refuses it
(a retention under an hour, a permission that does not exist).  This is where the code relies on
the webhooks: the Bucket handler takes *any* 422 for "exists", and writes the retention
once and never compares it again.  The Organization webhook refuses one name (`influxdata`), so it is a guard of
`Create` in `OrganizationReconciler` itself.

### Requests in flight

`TokenInFlight` adds a server that may carry out a request to create an authorization after its
sender has stopped waiting, because the call timed out or because the manager was replaced while
its lease ran out.  Authorizations have no unique name, so the next worker creates a second one.
Two requests under way may ask for the same: what was left of the fault budget when they were given up (`left`) tells them apart.  `tooLate` marks those that
arrive after finalization has looked for the last time, for which no code could do anything.

### Operator

The three reconcilers as instances of their modules, each with its own versions, queue and worker, over one
server and one Secret, as in the manifest of the repository's README: `Organizations`
(what the Bucket and Token controllers see) is computed from what the Organization controller
does; an organization that is deleted takes its contents along (`Cascade`); the Config of the Bucket is
readable when the Secret that the *Token* controller writes is in the manager's cache; and
each call of the Bucket controller is refused unless the token it read at the start of the reconcile (`client`) is still an authorization
of the server (`BucketRefused`).  A restart restarts all three.

### RateLimit

One action per statement of `rateLimit`, for any number of callers, with a clock that may tick
between any two.  `launched` is what was logged, for the properties.

## The runs

Model values stand for names and ids.  The ids the server gives out are interchangeable and the
safety runs use them as a symmetry set; runs with liveness properties do not use symmetry.

| Run | Configuration | Question |
|---|---|---|
| `org_safety` | two resources of one name and a third with the reserved name, 1 fault, stamps may coincide | is nothing left behind when what one resource deletes another created?  does any phase turn back?  is the default organization ever touched?  does the invariant of the proofs hold? |
| `org_live` | one name, created twice, 3 faults, fair | do old copies, lost answers, conflicts, restarts, drift and a Config that comes and goes delete an organization of a live resource?  is "ready" true?  is no resource forgotten, does deletion end, is drift repaired? |
| `bucket_safety` | one name, created twice with any spec that is admitted, two organizations that come and go, a Config that moves, 3 faults | as `org_live`, for safety; does a bucket agree with its resource although it is made once and from an old copy?  is a refused retention ever taken for a bucket that exists? |
| `bucket_live` | as above without specs, fair | is no Bucket forgotten, does deletion end, does the bucket get to the organization the Config settles on? |
| `token_safety` | one name, created twice, two organizations, requests carried out late, 2 faults | does any of the duplicates survive the resource?  when stamps differ, does finalization come back for the next one? |
| `token_live` | one name, created twice with permissions that are admitted or edited in, 2 faults, stamps may coincide, fair | is an authorization made twice?  do stamps and panics do lasting harm?  does deletion end, also when the organization went first?  does an admitted Token end with a Secret whose token has its permissions? |
| `token_shared` | two Tokens with one Secret, created and deleted, fair | does the Secret come to hold a token of one of them, also when its owner goes? |
| `operator` | one Organization, Token and Bucket, fair | does the manifest become ready in any order of work, and again after a fault?  does its removal end, in any order, and leave nothing behind? |
| `rate_limit` | two callers, two messages, fair | is the map exclusive, the interval kept, and every call answered? |
| `org_stamp` | stamps may coincide | **violated**: `NoLostWakeup` |
| `bucket_org_gone` | one organization, 1 fault, fair | **violated**: `DeletionOutlivesOrganization` |
| `bucket_page` | two Buckets, pages of one bucket, no fault | **violated**: `NoOrphan` |

### Bounds

* `Keys`: the actions of one resource do not read another resource, so one name shows
  the life of a resource; two are used where resources meet (a shared name,
  a page with somebody else's bucket).
* `MaxUid = 2`: a resource and its successor of the same name, the case in which an
  old copy speaks of another object.  A third would only repeat it.
* `MaxLag = 2`: the cache may be two versions behind, so that a reconcile can start from
  before a deletion that is already followed by a new creation.  When the limit is reached the
  API server accepts no write until the watch has moved on.  It is 1 in `token_safety`, `token_shared`
  and `operator`, whose questions are about the server and the Secrets, and whose copies are one version old; and
  `org_safety`, `token_shared` and `operator`, about resources that meet, have `MaxUid = 1`.
* `MaxFaults`: failed calls, lost answers, restarts, edits, drift and Config changes together.
  Two are needed for a lost answer followed by a conflict or a restart; three reach a
  Config that disappears, returns, and a crash in between.  A user's creations and deletions
  are free, as are lag and the order of everything.
* `Ids`: one more than can be in use at once, as an id being deleted is not reused.
* `PageLimit`: larger than the number of buckets in the passing runs, one in `bucket_page`.
* Requests: for Buckets one on each side of every bound of the webhook (negative, 0, 3599, 3600) and two descriptions; for
  Tokens one with known permissions and one with an unknown one.
* `token_shared` has no faults.  Its question is what two resources do to each other; one Token under faults is
  `token_live`.  The cycle of overwriting each other is in it, as is the collection of the Secret.
* `operator`: one resource of each kind, `MaxLag = 1`, and three initial situations, because the
  product of the three controllers from nothing with everything at once is out of reach.  `Applied`: the
  manifest is stored, with finalizers, and nothing else is there; one fault (a failed call, a lost answer, a restart, the loss of the
  organization) at any time.  `HalfWay` and `Done`: all but the bucket, or all, is made; users delete any of the three at any time,
  without faults.  A manifest that is removed before its organization exists is therefore not in this run; for each kind alone it is.
* `rate_limit`: time up to 6 with an interval of 2, so each message can be let through four times.

### Stamps

`LastTransitionTime` has a resolution of one second.  When the organization or the bucket had
to be created again, the only change to the status is that stamp; within the second of
the previous stamp the update is no change, the API server stores nothing, and no
event is sent.  `SameSecond` says whether that may happen.  The safety properties hold
with it (`NoneSurvives` by the theorem `DuplicatesGo`); `NoLostWakeup`, and the liveness of Organizations and Buckets, need it off, and `org_stamp` shows why.

### Fairness

* `WF_vars(Work)`: a worker that has a key goes on; every call returns (the client
  has timeouts, and a timeout is a failure).
* `WF_vars(Informer(k))`: the watch delivers.
* `SF_vars(Reconcile(k))`: strong, because the worker is busy with other keys again and
  again.  It is what the code's scheduling gives: the queue of controller-runtime is
  first-in first-out and a key added while delayed (one minute after a
  success, exponential backoff with a limit after an error) becomes ready in finite time.
* `SecretInformer` and `CollectSecret` are weakly fair: the watch and the garbage collector
  of Kubernetes do their work in the end.
* `TokenAdmission` has the same with the specs (`FairnessAdmission`).  `Operator` asks weak fairness of each
  controller's work, watch and reconcile, separately: they are goroutines with queues of their own, and with one
  key each nothing can come between, so that strong fairness is not needed.
* `RateLimit`: weak fairness for who is in the critical section, strong for `Lock`, since a Go mutex is handed to a
  goroutine that has waited more than a millisecond.  Nobody has to call.
* None for users, drift, faults and restarts.  The fault budget is finite, so "in the end
  the environment is quiet" is part of the bounds and not of the fairness.

`DeletionCompletes` and `Converges` are stated for resources whose names nobody shares: two resources that
share an organization delete and create it against each other for as long as both
work at the same pace, which an untimed model can always choose.

### What the violated runs show

* `org_stamp`: `Reconcile` says "requeue to maintain the state"
  (`organization_controller.go:117`).  After the organization was created again within a second of
  the previous stamp, the handler returns `ObjectUpdated` after an update that
  changed nothing, `Reconcile` asks for no requeue, and the resource waits for the next resync
  of the informer (ten hours by default).  Drift is not repaired meanwhile.
  `token_safety` has the same gap in the finalization of a Token that has duplicates: each reconcile deletes one and records it, and the second
  record within one second has no event (`token_controller_impl.go:176-182`, 202-208).  The Token is left with its finalizer
  and out of the queue.  The run has `SameSecond = FALSE` for that reason; set to `TRUE` in `TokenSafety.cfg`, TLC finds
  `NoLostWakeup` violated.  Without duplicates a Token is safe from it (`StampsDoNotMatter`).
* `bucket_org_gone`: the organization of a deleted Bucket was deleted first, and the
  bucket with it.  `FinalizeResources` returns the 404 as an error
  (`bucket_controller_impl.go:116`) and the Bucket keeps its finalizer for ever.  The
  Token controller has the case (`token_controller_impl.go:124`).
* `bucket_page`: `FindBucketsByOrgID` is called without paging options
  (`bucket_controller_impl.go:139`) and answers one page (20 buckets by default).  A bucket that
  is not on it counts as not found, the finalizer is removed, and the bucket stays.

## What is proved

For every value of the constants that satisfies the assumptions of the modules
(`ControllerAssumption` and the one of the kind: keys, names, organizations and ids are any sets, the bounds any
natural numbers, the lag at least one; `AdmissionAssumption`: a spec has the two fields of `BucketSpec` that
count, the retention an integer; `OperatorAssumption`: the sets of ids are not empty, and the names are not the words
the models use for "missing"), and hence without the bounds of the runs:

| Module | Theorem | Statement |
|---|---|---|
| `OrganizationProofs` | `InvariantHolds` | `Spec => [](TypeOK /\ Inv)` |
| | `TypeCorrect` | `Spec => []TypeOK` |
| | `NothingOrphaned` | `Spec => []NoOrphan`, also when resources share a name |
| | `LiveSpared` | `Spec => []SparesLive`, when no two resources share a name |
| | `PhaseMovesForward` | `Spec => PhaseForward` |
| | `WakeupKept` | `Spec => []NoLostWakeup`, when stamps do not coincide (`~SameSecond`) |
| | `DefaultSpared` | `Spec => DefaultOrgSpared` |
| | `ReadyIsTrue` | `Spec => []ReadyHasOrg`, when no two resources share a name |
| | `OrganizationImplements` | `Spec => ImplementsLifecycle` |
| `BucketProofs` | `InvariantHolds`, `TypeCorrect`, `LiveSpared`, `PhaseMovesForward`, `WakeupKept` | as above |
| | `NothingOrphaned` | `Spec => []NoOrphan`, when a page has room for every name |
| | `BucketImplements` | `Spec => ImplementsLifecycle`, when a page has room for every name |
| `BucketAdmissionProofs` | `AdmittedIsTaken` | `SpecAdmission => Spec`: the server takes what the webhook admits |
| | `AdmittedKeepsPromises` | `SpecAdmission => []NoOrphan /\ []SparesLive /\ PhaseForward`, under both conditions above |
| | `RetentionIsKept` | `SpecAdmission => []RetentionAgrees` |
| | `ReadyIsTrue` | `SpecAdmission => []ReadyHasBucket`, when no two resources share a name |
| `TokenProofs` | `InvariantHolds`, `TypeCorrect`, `NothingOrphaned`, `PhaseMovesForward` | as above, with no assumption on names or Secrets |
| | `NoneTwice` | `Spec => []OneAuthorization` |
| | `StampsHarmless` | `Spec => []StampsDoNotMatter`, for either value of `SameSecond` |
| | `TokenImplements` | `Spec => ImplementsLifecycle` |
| `TokenInFlightProofs` | `InFlightHolds` | `SpecInFlight => []InFlightSafe`, its inductive invariant |
| | `DuplicatesGo` | `SpecInFlight => []NoneSurvives`, however many requests are under way |
| | `PhaseForwardInFlight` | `SpecInFlight => PhaseForward` |
| | `WakeupKeptInFlight` | `SpecInFlight => []NoLostWakeup`, when stamps do not coincide |
| `OperatorProofs` | `InvariantHolds` | `Spec => []Safe`, the three inductive invariants together |
| | `TypeCorrect` | `Spec => []TypeOK` |
| | `NothingOrphaned` | `Spec => []NothingLeftBehind` |
| `RateLimitProofs` | `LimiterInvariant` | `Spec => [](TypeOK /\ Inv)` |
| | `TypeCorrect` | `Spec => []TypeOK` |
| | `MapNotShared` | `Spec => []MapIsExclusive` |
| | `MessagesSpaced` | `Spec => Spaced` |

The assumptions of a theorem are where the code needs them, and the violated runs show it for two:
`bucket_page` for the page, `org_stamp` for the stamps.  Two Organizations of one name do delete each
other's organization, so `LiveSpared` and `ReadyIsTrue` speak of names nobody shares.

**Why an invariant is needed.**  `NoOrphan` is not inductive: it says nothing of the
worker, so a worker about to remove the finalizer, or about to create an organization from a copy of
a resource that is gone, is allowed by it and breaks it in one step.  The invariants of all three kinds begin
with what is known of copies:

* `HistoryOK`: each version of an object is `Before` every later one: uids do not go back,
  what is deleted stays deleted, and a version that is live and has the finalizer
  guarantees that the object *still exists with that uid*.  The last part is the key: the
  finalizer is only removed by a write of the worker, from a copy that says "deleting".
* `CopyOK`: the worker's copy is `Before` every version in `versions`, equals the last one when not stale, and has
  the shape (`Live`, `Dying`, `Initialized`) the call at hand presupposes.

So a worker in `ReconcileResources` creates only for a resource that is still held (`CopyHeld`).
What follows differs with the kind:

* **Organization.**  `OwnerOK`: an organization created for a resource bears its name, the resource is `Held`
  (or was skipped), neither the cache nor the worker know less than the uid it was created for, and
  the worker is not about to drop the finalizer that guards it.  `LiveSpared` rests on it: since a controller has one
  worker, no organization of a successor can exist while the worker still holds a copy of its predecessor, so
  what a copy that says "deleting" leads to is either its own or an earlier one.  `ReadyIsTrue` adds `ReadyOK`: finalization works from a copy
  whose phase is "terminating", and of a resource that is ready neither the worker nor the cache has such a copy any more.
* **Bucket.**  The worker looks through a list in an organization it has found one call earlier.
  `Inv` says that organizations that are gone took their buckets along, that ids and names are unique, and that what the worker
  remembers is of the resource's own Config; that is enough for `LiveSpared`.  `NoOrphan` needs `Owned` on top: a bucket is in
  the organization of its resource's Config, and *the very incarnation of it* that the worker is searching.  Only the step
  that leaves `FindBucketsByOrgID` empty-handed needs the page: an organization has at most one bucket of a name, so when
  `Cardinality(Names) <= PageLimit` a page holds them all (`PageHoldsAll`).
* **Token.**  As for buckets with the description for the name, and `OneAuthorization` is itself a part of the invariant:
  between `FindAuthorizations` and `CreateAuthorization` only the worker could add an authorization of that description, and
  it is elsewhere (`LocalOK`).  The panic on an answer of 422 is one more restart.
  `Core` is what of it does not rest on `OneAuthorization`.

Three theorems need more than that:

* **Stamps of Tokens** (`StampsHarmless`).  The only status update without a new phase, a new condition or a new
  authorization is `DeletedStatus` of a resource on which the deletion was recorded before.  `MarkedOK` says that
  such a resource has no authorization left, in whichever copy the record is seen; `DeletionOK` that the worker
  which deletes an authorization does not hold such a copy and deletes the only one.  So no deletion is recorded twice, each
  update has its event, and nothing is lost even when two stamps coincide.  Both need the Config to stay with
  one organization, as the property does.
* **Requests in flight** (`DuplicatesGo`).  `OneAuthorization` does not hold there, so the invariant is `Core`
  with `SurvivorOK` (an authorization that did not come too late is guarded by its resource's finalizer, or by a worker that is still
  looking) and `RequestOK` (a request under way is for an incarnation that exists or has existed, and when the worker searches an
  organization no request is for a later incarnation of it).  Finalization deletes one authorization and ends the reconcile;
  the finalizer goes only from a search that found none, and that search is the last look of `tooLate`.
* **Specs of Buckets.**  `Pairs(k)` is everything known of a resource with the spec that belongs to it: its versions
  and the worker's copy.  `SpecsOK`: pairs of one uid have one spec, and what exists was admitted (`ValidateUpdate` lets nothing
  change, and the specs stay aligned with the versions: `SpecsMove`).  Hence the server never refuses the retention, which gives
  `AdmittedIsTaken`, and every theorem of `BucketProofs` for `SpecAdmission`.  `RulesOK` says that a bucket has the rules of all pairs of its
  maker.  `ReadyOK` is, as for organizations, about copies that say "terminating", and adds that `CreatedStatus` is
  reached only with a bucket of the name in sight.

**The operator.**  `Safe` of `OperatorProofs` is the conjunction of the three inductive invariants under the substitutions of
`Operator` (a run with it as an invariant found no error before the proof was begun).  Each controller's own steps keep its own invariant by the
lemmas of its module, cited through `INSTANCE`; what `O`, `T` and `B` define is shown to be what the instances of the proof modules
define (`SameOrganization`, `SameToken`, `SameBucket`).  The steps of the other two are covered by a lemma `OthersSafe` in each module: a controller that stands still keeps its invariant
when the server forgets some of what it holds, but keeps what is in organizations that stay, and incarnations do not decrease.
`CascadeFacts` shows that the deletion of an organization is such a step for the other two, also in the middle of their reconciles.
A call refused for want of a valid token is an error of that call (`RefusedEnds`), even when the fault budget is used up.  The
bounds of the `operator` run except "one resource of each kind" are not needed: `MaxUid`, `MaxLag` and the faults are any numbers.

**Refinement.**  `ControllerProofs` states once what a write to a resource is in the terms of `Lifecycle`: the stored
versions change nothing there (`Steady`), or a resource becomes held (`Guarded`), goes before it was ever held (`Discarded`),
or is released (`Released`).  The proof modules of the kinds map the steps at the server: what comes is a `Provide` for a held resource,
what goes is a `Withdraw`, a skipped or moved resource an `Excuse`, and `RemoveFinalizer` is a `Release` because of `OwnerOK`.

**How the proofs are laid out.**  `ControllerProofs` describes each action of `Controller` by
what it does to a sequence of versions (`StoreFacts`, `DeliverFacts`), shows that `Before` survives
each (`StoreHistory`, `DeliverHistory`), and sums that up per kind of step (`GoToStep`, `QuietStep`, ...)
for any set of finalizing and reconciling calls.  The module of a kind classifies the actions of its `Next` (`NextIsStep`),
proves the types of its own variables (`WorldTypes`), and follows what is on the server through each action
(`OwnersStep`, `OwnerKept`).

**Only model-checked.**  All liveness (the prover has no rules for fairness and `ENABLED`):
`DeletionCompletes`, `Converges`, `AdmittedIsGranted`, `SecretServes`, `ManifestApplied`, `TeardownEnds`, `CallReturns`.
Every invariant and every action property of the passing runs is proved for the specification of the reconciler
or of the extension it is stated for, with one gap: the run `token_live` checks `NoOrphan`, `OneAuthorization`, `StampsDoNotMatter` and
`ImplementsLifecycle` of `TokenReconciler` on `TokenAdmission`.  There the server may refuse a permission edited in after
creation, at any time and without using up the fault budget, so that `FairSpecAdmission => Spec` does not hold as it does for Buckets and what
the run shows is not derived from the theorems.

## What is not modelled

* Defaults the webhooks fill in (the names of Config, Secret and organization, the address): constants that
  are set once and that no property tells apart.  The Config webhook refuses nothing.
* `spec.permissions` edited after the authorization was made: the code does nothing about it until the authorization has to be made
  again.  `TokenAdmission` has such edits; `AdmittedIsGranted` speaks of Tokens that were not edited.
* `status.data`, messages and owner names in conditions, logging, metrics, probes, flags.
* The protocol of leader election.  What it can leave under way, a request that takes effect after its sender was
  replaced, is in `TokenInFlight`; for organizations, buckets and the API server a late repetition
  meets a unique name or an old `resourceVersion`, and is refused.
* The map of the rate limiter grows with every uid and message it has seen.  Nothing in the repository promises otherwise, so there is
  no property of its size.
* The periodic resync of the informers: it only adds reconciles, after hours; leaving it
  out keeps `NoLostWakeup` and liveness from hiding behind it.
* An InfluxDB answer that is neither an error nor what was asked for, which its client library does not give.  Most of the code treats
  an organization or an authorization without an id as an error.  In two places it returns the `nil` error it has got and so takes the answer for
  success: a list of buckets that is `nil` would let the finalizer go (`bucket_controller_impl.go:140-143`), and an organization
  without an id would end `ReconcileResources` of an Organization before anything is created (`organization_controller_impl.go:304-307`).
* `spec.secretName` of a Token edited after its creation, which the webhook lets pass (`token_webhook.go:84`): the Secret of a Token is a constant.
  The code would write the Secret of the new name at its next reconcile and leave the other to the garbage collector, until the Token is gone.
* Time: the minute of `RequeueAfter` and the backoff are "some time later".
* Generated code, manifests and test scaffolding.

## Plan

Done: the three reconcilers with their environment, the abstract lifecycle and its three implementations, checked and
proved; specs and webhooks; requests that outlive their sender; the three controllers on one server; the rate limiter; and
proofs of the safety of each of them.

Left, in this order:

1. `TokenAdmission`: its refusal is a step of `TokenReconciler` but for the fault budget, so the step lemmas of `TokenProofs`
   should give its safety properties.
2. The refinement for what runs on top of the reconcilers: `Operator` implements `Lifecycle` once for each kind, and `TokenInFlight`
   with the requests that come too late excused.
3. `NoLostWakeup` for `BucketAdmission` and for the controllers of `Operator`.
