---------------------------- MODULE BucketAdmission ----------------------------
(***************************************************************************)
(* BucketReconciler with the specs of the resources: what the webhooks admit,  *)
(* what of it the worker's copy tells the server, and what the server keeps.     *)
(* A spec is a record of secondsTtl and description.                           *)
(***************************************************************************)
EXTENDS Integers, BucketReconciler, Specs

\* What users write has these two fields and no other.
ASSUME AdmissionAssumption ==
    \A spec \in Requests :
        /\ spec.secondsTtl \in Int
        /\ spec = [secondsTtl |-> spec.secondsTtl, description |-> spec.description]

VARIABLES
    rules,      \* rules[id]: the retention and the description of bucket id
    unasked     \* auxiliary: resources whose bucket somebody else has deleted or made

allVars == <<vars, specVars, rules, unasked>>

(***************************************************************************)
(* The webhooks of the kind.  Default adds nothing.                          *)
(***************************************************************************)
\* Faults to check against: webhooks that let everything pass.
AcceptAny(spec) == TRUE

AcceptChange(spec, old) == TRUE

ValidateCreate(spec) == ~(spec.secondsTtl # 0 /\ spec.secondsTtl < 3600)

ValidateUpdate(spec, old) ==
    spec.secondsTtl = old.secondsTtl /\ spec.description = old.description

\* The server keeps data for at least an hour, or for ever.
Acceptable(spec) == spec.secondsTtl = 0 \/ spec.secondsTtl >= 3600

(***************************************************************************)
(* The steps of BucketReconciler with the specs.                              *)
(***************************************************************************)
\* A bucket of the worker is made as its copy says, one of somebody else as they like.
KeepRules ==
    rules' = [id \in Ids |->
                IF \E b \in buckets' \ buckets : b.id = id /\ b.by # External THEN mySpec
                ELSE IF \E b \in buckets \cap buckets' : b.id = id THEN rules[id]
                ELSE NoSpec]

\* The server answers 422 also when it refuses the retention, and the handler takes
\* that for a bucket that exists; or it answers some other error.
RefuseRules ==
    /\ \/ BucketConflict
       \/ ReturnError /\ UNCHANGED <<faults, buckets>>
    /\ local' = Nothing
    /\ UNCHANGED <<versions, orgs, config, skipped, moved>>

WorkWithSpec ==
    /\ IF At("CreateBucket") /\ ~Acceptable(mySpec) THEN RefuseRules ELSE Work
    /\ SpecsFollow
    /\ KeepRules
    /\ UNCHANGED unasked

ReconcileCopy(k) == Reconcile(k) /\ CopySpec(k) /\ UNCHANGED <<rules, unasked>>

\* kubectl create: stored when the webhook admits it.
Apply(k, spec) ==
    /\ ValidateCreate(spec)
    /\ Create(k)
    /\ StoreSpec(k, spec)
    /\ UNCHANGED <<rules, unasked>>

\* kubectl apply or edit of an object that is there.
Change(k, spec) ==
    /\ Latest(k).exists
    /\ ValidateUpdate(spec, LatestSpec(k))
    /\ Edit(k)
    /\ StoreSpec(k, spec)
    /\ UNCHANGED <<rules, unasked>>

Around ==
    /\ \/ Fail
       \/ Restart
       \/ \E k \in Keys : Informer(k) \/ Delete(k)
       \/ \E ns \in Namespaces : ChangeConfig(ns)
    /\ SpecsFollow
    /\ UNCHANGED <<rules, unasked>>

\* Buckets come and go, and organizations with theirs, behind the worker's back.
AtServer ==
    /\ Drift \/ (\E o \in OrgNames : ToggleOrganization(o))
    /\ KeepRules
    /\ unasked' = unasked \cup
          {k \in Keys : \E b \in (buckets \ buckets') \cup (buckets' \ buckets) :
                           b.name = NameOf[k]}
    /\ UNCHANGED specVars

InitAdmission ==
    /\ Init
    /\ InitSpecs
    /\ rules = [id \in Ids |-> NoSpec]
    /\ unasked = {}

NextAdmission ==
    \/ WorkWithSpec
    \/ Around
    \/ AtServer
    \/ \E k \in Keys : ReconcileCopy(k)
    \/ \E k \in Keys, spec \in Requests : Apply(k, spec) \/ Change(k, spec)

SpecAdmission == InitAdmission /\ [][NextAdmission]_allVars

(***************************************************************************)
(* Properties.                                                               *)
(***************************************************************************)
\* "BucketSpec defines the desired state": the bucket made for a resource has the
\* retention and the description the resource has, as long as both are there, although
\* the controller makes it from an old copy and never looks at it again.
RetentionAgrees ==
    \A b \in buckets :
        LET me == b.by IN
        me # External /\ Latest(me[1]).exists /\ Latest(me[1]).uid = me[2]
            => rules[b.id] = LatestSpec(me[1])

\* status.phase "ready" is true: what the server answered was not that it refuses the
\* bucket, which the handler would not tell from a bucket that exists.  Unless others
\* have had a hand in the bucket since.
ReadyHasBucket ==
    \A k \in Keys :
        Latest(k).exists /\ Latest(k).phase = phaseReady
            => k \in unasked \/ \E b \in buckets : b.name = NameOf[k]
===============================================================================
