------------------------- MODULE BucketAdmissionProofs -------------------------
(***************************************************************************)
(* Theorems about BucketAdmission: what the webhooks let in the server takes,   *)
(* so that BucketReconciler keeps its promises with the specs in place; a        *)
(* bucket has the retention its resource asks for; and "ready" is true.          *)
(***************************************************************************)
EXTENDS BucketAdmission, BucketProofs, SequenceTheorems

(***************************************************************************)
(* The inductive invariants.                                                 *)
(***************************************************************************)
\* What is known of a resource, each time with the spec that belongs to it.
Pairs(k) ==
    {<<versions[k][i], specs[k][i]>> : i \in 1 .. Len(versions[k])}
        \cup {p \in {<<worker.obj, mySpec>>} : worker.key = k}

SpecsType ==
    /\ specs \in [Keys -> Seq(KnownSpecs)]
    /\ \A k \in Keys : Len(specs[k]) = Len(versions[k])

\* What is there has been admitted, and is what it was when it was created.
SpecsOK ==
    \A k \in Keys : \A p \in Pairs(k) :
        /\ p[1].exists => p[2] \in Requests /\ Acceptable(p[2])
        /\ \A q \in Pairs(k) : p[1].uid = q[1].uid => p[2] = q[2]

\* A bucket has the rules that everything known of its resource asks for.
Rules(k, u, rule) == \A p \in Pairs(k) : p[1].uid = u => p[2] = rule

RulesOK == \A b \in buckets : b.by # External => Rules(b.by[1], b.by[2], rules[b.id])

\* The bucket of a resource is there, or others have had a hand in it.
BucketSeen(k) == k \in unasked \/ \E b \in buckets : b.name = NameOf[k]

\* The worker deletes a bucket only from a copy that says "terminating", and of a
\* resource that is ready there is no such copy: not in its hands, nor where it might
\* take one.
ReadyOK ==
    /\ worker.pc \in FinalizeCalls => worker.obj.phase = phaseTerminating
    /\ At("CreatedStatus") => BucketSeen(worker.key)
    /\ \A k \in Keys :
          Ready(k) => /\ BucketSeen(k)
                      /\ Clear(k)
                      /\ worker.key = k => worker.obj.phase # phaseTerminating

(***************************************************************************)
(* Sequences of specs.                                                       *)
(***************************************************************************)
LEMMA SpecFacts ==
    ASSUME VersionsType, SpecsType, NEW k \in Keys
    PROVE  /\ Len(specs[k]) \in Nat \ {0}
           /\ Len(specs[k]) = Len(versions[k])
           /\ specs[k] \in Seq(KnownSpecs)
           /\ LatestSpec(k) \in KnownSpecs
           /\ <<Latest(k), LatestSpec(k)>> \in Pairs(k)
           /\ <<Cached(k), specs[k][1]>> \in Pairs(k)
<1>1. Len(specs[k]) = Len(versions[k]) /\ specs[k] \in Seq(KnownSpecs)
  BY DEF SpecsType
<1>2. Len(versions[k]) \in Nat \ {0}
  BY VersionFacts
<1>3. 1 \in 1 .. Len(versions[k]) /\ Len(versions[k]) \in 1 .. Len(versions[k])
  BY <1>2
<1> QED BY <1>1, <1>2, <1>3 DEF Pairs, Latest, LatestSpec, Cached

\* A step moves the specs along with the versions, and a new one is that of the object or
\* was admitted with it.
Admitted(k, obj, spec) ==
    \/ Latest(k).exists /\ obj.uid = Latest(k).uid /\ spec = LatestSpec(k)
    \/ obj.uid = Latest(k).uid + 1 /\ spec \in Requests /\ Acceptable(spec)

SpecsMove ==
    \/ UNCHANGED <<versions, specs>>
    \/ RestartController /\ specs' = [k \in Keys |-> <<LatestSpec(k)>>]
    \/ \E k \in Keys : Deliver(k) /\ specs' = [specs EXCEPT ![k] = Tail(@)]
    \/ \E k \in Keys, obj \in Object, spec \in KnownSpecs :
          /\ Store(k, obj)
          /\ Admitted(k, obj, spec)
          /\ specs' = [specs EXCEPT ![k] = Append(@, spec)]

\* What SpecsFollow comes to for each kind of step.
LEMMA FollowMoves ==
    ASSUME VersionsType, SpecsType, SpecsFollow,
           \/ Rewrites
           \/ RestartController
           \/ \E k \in Keys : Deliver(k)
    PROVE  SpecsMove
<1> DEFINE new(k) == IF Len(versions'[k]) > Len(versions[k]) THEN Append(specs[k], LatestSpec(k))
                     ELSE SubSeq(specs[k], Len(specs[k]) - Len(versions'[k]) + 1, Len(specs[k]))
<1>1. /\ specs \in [Keys -> Seq(KnownSpecs)]
      /\ specs' = [k \in Keys |-> new(k)]
  BY DEF SpecsFollow, SpecsType
<1>2. ASSUME NEW k \in Keys, versions'[k] = versions[k]
      PROVE  new(k) = specs[k]
  <2>1. Len(specs[k]) \in Nat /\ Len(specs[k]) = Len(versions[k]) /\ specs[k] \in Seq(KnownSpecs)
    BY SpecFacts
  <2>2. /\ ~(Len(versions'[k]) > Len(versions[k]))
        /\ Len(specs[k]) - Len(versions'[k]) + 1 = 1
    BY <1>2, <2>1
  <2>3. new(k) = SubSeq(specs[k], 1, Len(specs[k]))
    BY <2>2
  <2> HIDE DEF new
  <2> QED BY <2>1, <2>3, SubSeqFull
<1>3. CASE UNCHANGED versions
  <2>1. \A k \in Keys : new(k) = specs[k]
    BY <1>2, <1>3
  <2>2. specs' = specs
    BY <1>1, <2>1
  <2> QED BY <1>3, <2>2 DEF SpecsMove
<1>4. CASE RestartController
  <2>1. ASSUME NEW k \in Keys
        PROVE  new(k) = <<LatestSpec(k)>>
    <3> DEFINE n == Len(specs[k])
    <3>1. n \in Nat \ {0} /\ n = Len(versions[k]) /\ specs[k] \in Seq(KnownSpecs)
      BY SpecFacts
    <3>2. Len(versions'[k]) = 1
      BY <1>4 DEF RestartController
    <3>3. new(k) = SubSeq(specs[k], n, n)
      BY <3>1, <3>2
    <3>4. /\ SubSeq(specs[k], n, n) \in Seq(KnownSpecs)
          /\ Len(SubSeq(specs[k], n, n)) = 1
          /\ SubSeq(specs[k], n, n)[1] = specs[k][n]
      BY <3>1, SubSeqProperties
    <3> DEFINE a == SubSeq(specs[k], n, n)
               b == <<specs[k][n]>>
    <3>5. b \in Seq(KnownSpecs) /\ Len(b) = 1 /\ b[1] = specs[k][n]
      BY <3>1
    <3>6. a \in Seq(KnownSpecs) /\ Len(a) = 1 /\ a[1] = specs[k][n]
      BY <3>4
    <3> HIDE DEF a, b
    <3>7. \A i \in 1 .. Len(a) : a[i] = b[i]
      BY <3>5, <3>6
    <3>8. a = b
      BY <3>5, <3>6, <3>7, SeqEqual
    <3> QED BY <3>3, <3>8 DEF a, b, LatestSpec
  <2>2. specs' = [k \in Keys |-> <<LatestSpec(k)>>]
    BY <1>1, <2>1
  <2> QED BY <1>4, <2>2 DEF SpecsMove
<1>5. ASSUME NEW k \in Keys, Deliver(k)
      PROVE  SpecsMove
  <2>1. /\ Len(versions'[k]) = Len(versions[k]) - 1
        /\ \A j \in Keys \ {k} : versions'[j] = versions[j]
    BY <1>5, DeliverFacts
  <2>2. Len(specs[k]) \in Nat /\ Len(specs[k]) = Len(versions[k]) /\ Len(specs[k]) > 1
        /\ specs[k] \in Seq(KnownSpecs)
    BY <1>5, SpecFacts DEF Deliver
  <2>3. new(k) = SubSeq(specs[k], 2, Len(specs[k]))
    BY <2>1, <2>2
  <2>4. specs[k] # <<>>
    BY <2>2
  <2>5. new(k) = Tail(specs[k])
    BY <2>2, <2>3, <2>4, TailIsSubSeq
  <2>6. \A j \in Keys \ {k} : new(j) = specs[j]
    BY <1>2, <2>1
  <2> HIDE DEF new
  <2>7. specs' = [specs EXCEPT ![k] = Tail(specs[k])]
    BY <1>1, <2>5, <2>6
  <2> QED BY <1>5, <2>7 DEF SpecsMove
<1>6. ASSUME NEW k \in Keys, NEW obj \in Object, Store(k, obj), Latest(k).exists,
             obj.uid = Latest(k).uid
      PROVE  SpecsMove
  <2>1. /\ Len(versions'[k]) = Len(versions[k]) + 1
        /\ \A j \in Keys \ {k} : versions'[j] = versions[j]
    BY <1>6, StoreFacts
  <2>2. Len(versions[k]) \in Nat /\ LatestSpec(k) \in KnownSpecs
    BY SpecFacts
  <2>3. new(k) = Append(specs[k], LatestSpec(k))
    <3>1. Len(versions'[k]) > Len(versions[k])
      BY <2>1, <2>2
    <3> QED BY <3>1
  <2>4. \A j \in Keys \ {k} : new(j) = specs[j]
    BY <1>2, <2>1
  <2> HIDE DEF new
  <2>5. specs' = [specs EXCEPT ![k] = Append(specs[k], LatestSpec(k))]
    BY <1>1, <2>3, <2>4
  <2> QED BY <1>6, <2>2, <2>5 DEF SpecsMove, Admitted
<1> QED BY <1>3, <1>4, <1>5, <1>6 DEF Rewrites

\* What an append does to a sequence of specs, and what the loss of its head does.
LEMMA AppendSpec ==
    ASSUME SpecsType, NEW k \in Keys, NEW spec \in KnownSpecs,
           specs' = [specs EXCEPT ![k] = Append(@, spec)]
    PROVE  /\ specs' \in [Keys -> Seq(KnownSpecs)]
           /\ \A j \in Keys \ {k} : specs'[j] = specs[j]
           /\ Len(specs'[k]) = Len(specs[k]) + 1
           /\ \A i \in 1 .. Len(specs[k]) : specs'[k][i] = specs[k][i]
           /\ specs'[k][Len(specs[k]) + 1] = spec
<1> DEFINE s == specs[k]
<1>1. specs \in [Keys -> Seq(KnownSpecs)] /\ s \in Seq(KnownSpecs)
  BY DEF SpecsType
<1>2. /\ Append(s, spec) \in Seq(KnownSpecs)
      /\ Len(Append(s, spec)) = Len(s) + 1
      /\ \A i \in 1 .. Len(s) : Append(s, spec)[i] = s[i]
      /\ Append(s, spec)[Len(s) + 1] = spec
  BY <1>1
<1> QED BY <1>1, <1>2

LEMMA TailSpec ==
    ASSUME SpecsType, NEW k \in Keys, Len(specs[k]) > 1,
           specs' = [specs EXCEPT ![k] = Tail(@)]
    PROVE  /\ specs' \in [Keys -> Seq(KnownSpecs)]
           /\ \A j \in Keys \ {k} : specs'[j] = specs[j]
           /\ Len(specs'[k]) = Len(specs[k]) - 1
           /\ \A i \in 1 .. Len(specs'[k]) : specs'[k][i] = specs[k][i + 1]
<1> DEFINE s == specs[k]
<1>1. specs \in [Keys -> Seq(KnownSpecs)] /\ s \in Seq(KnownSpecs) /\ Len(s) > 1
  BY DEF SpecsType
<1>2. /\ Tail(s) \in Seq(KnownSpecs)
      /\ Len(Tail(s)) = Len(s) - 1
      /\ \A i \in 1 .. Len(s) - 1 : Tail(s)[i] = s[i + 1]
  BY <1>1
<1> QED BY <1>1, <1>2

\* Every version has its spec: what a step makes known of a resource is known already, or
\* is its newest version with the spec that was admitted.
New(k, p) == p = <<Latest(k)', LatestSpec(k)'>> /\ Admitted(k, p[1], p[2])

LEMMA VersionPairs ==
    ASSUME VersionsType, SpecsType, SpecsMove, NEW k \in Keys, NEW i \in 1 .. Len(versions'[k])
    PROVE  LET p == <<versions'[k][i], specs'[k][i]>> IN p \in Pairs(k) \/ New(k, p)
<1> DEFINE p == <<versions'[k][i], specs'[k][i]>>
           goal == p \in Pairs(k) \/ New(k, p)
<1>1. /\ Len(versions[k]) \in Nat \ {0}
      /\ Len(specs[k]) = Len(versions[k])
      /\ <<Latest(k), LatestSpec(k)>> \in Pairs(k)
  BY SpecFacts
<1>2. ASSUME NEW j \in 1 .. Len(versions[k])
      PROVE  <<versions[k][j], specs[k][j]>> \in Pairs(k)
  BY DEF Pairs
<1>3. CASE versions'[k] = versions[k] /\ specs'[k] = specs[k]
  BY <1>2, <1>3
<1>4. CASE RestartController /\ specs' = [j \in Keys |-> <<LatestSpec(j)>>]
  <2>1. versions'[k] = <<Latest(k)>> /\ specs'[k] = <<LatestSpec(k)>>
    BY <1>4 DEF RestartController
  <2>2. i = 1
    BY <2>1
  <2> QED BY <1>1, <2>1, <2>2
<1>5. ASSUME NEW j \in Keys, Deliver(j), specs' = [specs EXCEPT ![j] = Tail(@)]
      PROVE  goal
  <2>1. Len(specs[j]) > 1
    BY <1>5, SpecFacts DEF Deliver
  <2>2. CASE j # k
    BY <1>3, <1>5, <2>1, <2>2, DeliverFacts, TailSpec
  <2>3. CASE j = k
    <3>1. /\ Len(versions'[k]) = Len(versions[k]) - 1
          /\ Len(specs'[k]) = Len(specs[k]) - 1
          /\ versions'[k][i] = versions[k][i + 1]
      BY <1>5, <2>1, <2>3, DeliverFacts, TailSpec
    <3>2. i \in 1 .. Len(specs'[k]) /\ i + 1 \in 1 .. Len(versions[k])
      BY <1>1, <3>1
    <3>3. specs'[k][i] = specs[k][i + 1]
      BY <1>5, <2>1, <2>3, <3>2, TailSpec
    <3> QED BY <1>2, <3>1, <3>2, <3>3
  <2> QED BY <2>2, <2>3
<1>6. ASSUME NEW j \in Keys, NEW obj \in Object, NEW spec \in KnownSpecs, Store(j, obj),
             Admitted(j, obj, spec), specs' = [specs EXCEPT ![j] = Append(@, spec)]
      PROVE  goal
  <2>1. CASE j # k
    BY <1>3, <1>6, <2>1, StoreFacts, AppendSpec
  <2>2. CASE j = k
    <3>1. /\ Len(versions'[k]) = Len(versions[k]) + 1
          /\ \A l \in 1 .. Len(versions[k]) : versions'[k][l] = versions[k][l]
          /\ versions'[k][Len(versions[k]) + 1] = obj
          /\ Latest(k)' = obj
      BY <1>6, <2>2, StoreFacts
    <3>2. /\ Len(specs'[k]) = Len(specs[k]) + 1
          /\ \A l \in 1 .. Len(specs[k]) : specs'[k][l] = specs[k][l]
          /\ specs'[k][Len(specs[k]) + 1] = spec
      BY <1>6, <2>2, AppendSpec
    <3>3. CASE i \in 1 .. Len(versions[k])
      BY <1>1, <1>2, <3>1, <3>2, <3>3
    <3>4. CASE i = Len(versions[k]) + 1
      <4>1. p = <<obj, spec>> /\ LatestSpec(k)' = spec
        BY <1>1, <3>1, <3>2, <3>4 DEF LatestSpec
      <4> QED BY <1>6, <2>2, <3>1, <4>1 DEF New
    <3> QED BY <1>1, <3>1, <3>3, <3>4
  <2> QED BY <2>1, <2>2
<1> QED BY <1>3, <1>4, <1>5, <1>6 DEF SpecsMove

LEMMA SpecsTypeStep ==
    ASSUME VersionsType, SpecsType, SpecsMove
    PROVE  SpecsType'
<1>1. ASSUME NEW k \in Keys
      PROVE  Len(versions[k]) \in Nat \ {0} /\ Len(specs[k]) = Len(versions[k])
             /\ LatestSpec(k) \in KnownSpecs
  BY SpecFacts
<1>2. CASE UNCHANGED <<versions, specs>>
  BY <1>2 DEF SpecsType
<1>3. CASE RestartController /\ specs' = [k \in Keys |-> <<LatestSpec(k)>>]
  BY <1>1, <1>3 DEF SpecsType, RestartController
<1>4. ASSUME NEW k \in Keys, Deliver(k), specs' = [specs EXCEPT ![k] = Tail(@)]
      PROVE  SpecsType'
  <2>1. Len(specs[k]) > 1
    BY <1>1, <1>4 DEF Deliver
  <2> QED BY <1>1, <1>4, <2>1, DeliverFacts, TailSpec DEF SpecsType
<1>5. ASSUME NEW k \in Keys, NEW obj \in Object, NEW spec \in KnownSpecs, Store(k, obj),
             specs' = [specs EXCEPT ![k] = Append(@, spec)]
      PROVE  SpecsType'
  BY <1>1, <1>5, StoreFacts, AppendSpec DEF SpecsType
<1> QED BY <1>2, <1>3, <1>4, <1>5 DEF SpecsMove

(***************************************************************************)
(* Steps.  The server accepts what was admitted, so each of them is a step of    *)
(* BucketReconciler.                                                         *)
(***************************************************************************)
\* What the worker does with its copy: it lets it go, or goes on with it; and it comes to
\* the calls of FinalizeResources and to CreatedStatus in one way only.
Moves ==
    \/ worker' = Idle
    \/ /\ worker'.key = worker.key
       /\ worker'.obj = worker.obj
       /\ worker'.pc \in FinalizeCalls => worker.pc \in FinalizeCalls
       /\ worker'.pc = "CreatedStatus" => At("CreatedStatus") \/ CreateBucket

LEMMA WorkMoves ==
    ASSUME ControllerAssumption, TypeOK, Inv, Work
    PROVE  Rewrites /\ Moves
<1>1. worker \in Workers(Calls)
  BY DEF TypeOK, ControllerTypeOK
<1>2. ASSUME NEW call \in FinalizeCalls, GoTo(call), worker.pc \in FinalizeCalls
      PROVE  Moves
  BY <1>1, <1>2 DEF GoTo, Workers, FinalizeCalls, Moves
<1>3. ASSUME NEW call \in ReconcileCalls, GoTo(call), call = "CreatedStatus" => CreateBucket
      PROVE  Moves
  BY <1>1, <1>3 DEF GoTo, Workers, FinalizeCalls, ReconcileCalls, Moves
<1>4. ASSUME ReturnError \/ ReturnDone \/ RequeueAfter
      PROVE  Moves
  BY <1>4 DEF ReturnError, ReturnDone, RequeueAfter, Finish, Moves
<1>5. ASSUME NEW obj, Save(obj)
      PROVE  Moves
  BY <1>4, <1>5 DEF Save
<1>6. ASSUME NEW reason, NEW phase, SaveCondition(reason, phase)
      PROVE  Moves
  BY <1>4, <1>5, <1>6 DEF SaveCondition, SaveSameSecond
<1>7. CASE FinalizeStatus \/ DeletedStatus \/ RemoveFinalizer \/ AddFinalizer
           \/ InitializeStatus \/ CreatedStatus
  <2>1. Rewrites
    BY <1>7, InvGood, CallsSplit, HandlerWrites DEF FinalizeStatus, DeletedStatus,
       RemoveFinalizer, AddFinalizer, InitializeStatus, CreatedStatus
  <2> QED BY <1>5, <1>6, <1>7, <2>1 DEF FinalizeStatus, DeletedStatus, RemoveFinalizer,
      AddFinalizer, InitializeStatus, CreatedStatus, MarkTerminating, MarkDeleted,
      DropFinalizer, PutFinalizer, MarkInitialized, MarkCreated
<1>8. CASE FinalizeReadConfig \/ FinalizeFindOrganization \/ FindBucketsByOrgID
           \/ DeleteBucketWithID
  <2>1. UNCHANGED versions /\ worker.pc \in FinalizeCalls
    BY <1>8 DEF FinalizeReadConfig, FinalizeFindOrganization, FindOrganization,
       FindBucketsByOrgID, DeleteBucketWithID, At, FinalizeCalls
  <2>2. \/ ReturnError
        \/ \E call \in {"RemoveFinalizer", "FinalizeFindOrganization", "FindBucketsByOrgID",
                        "DeleteBucketWithID", "DeletedStatus"} : GoTo(call)
    BY <1>8 DEF FinalizeReadConfig, FinalizeFindOrganization, FindOrganization, GiveUp,
       FindBucketsByOrgID, DeleteBucketWithID
  <2> QED BY <1>2, <1>4, <2>1, <2>2 DEF FinalizeCalls, Rewrites
<1>9. CASE ReconcileReadConfig \/ ReconcileFindOrganization \/ CreateBucket
  <2>1. UNCHANGED versions
    BY <1>9 DEF ReconcileReadConfig, ReconcileFindOrganization, FindOrganization, CreateBucket
  <2>2. \/ ReturnError \/ RequeueAfter
        \/ GoTo("ReconcileFindOrganization") \/ GoTo("CreateBucket")
        \/ GoTo("CreatedStatus") /\ CreateBucket
    BY <1>9 DEF ReconcileReadConfig, ReconcileFindOrganization, FindOrganization, GiveUp,
       CreateBucket, BucketConflict
  <2> QED BY <1>3, <1>4, <2>1, <2>2 DEF ReconcileCalls, Rewrites
<1> QED BY <1>7, <1>8, <1>9 DEF Work

LEMMA OthersMove ==
    ASSUME TypeOK,
           \/ Fail \/ Restart \/ Drift
           \/ \E k \in Keys : Informer(k) \/ Create(k) \/ Delete(k) \/ Edit(k)
           \/ \E ns \in Namespaces : ChangeConfig(ns)
           \/ \E o \in OrgNames : ToggleOrganization(o)
    PROVE  Moves
<1>1. worker \in Workers(Calls)
  BY DEF TypeOK, ControllerTypeOK
<1>2. ASSUME NEW k, Outdate(k) \/ UNCHANGED worker
      PROVE  Moves
  BY <1>1, <1>2 DEF Outdate, Workers, At, Moves
<1>3. CASE Fail \/ Restart
  BY <1>3 DEF Fail, CallFails, ReturnError, Finish, Restart, RestartController, Moves
<1>4. ASSUME NEW k \in Keys, Informer(k) \/ Create(k) \/ Delete(k) \/ Edit(k)
      PROVE  Moves
  BY <1>2, <1>4 DEF Informer, Deliver, Create, UserCreate, Delete, UserDelete, Edit, UserEdit
<1>5. CASE \/ Drift
           \/ \E ns \in Namespaces : ChangeConfig(ns)
           \/ \E o \in OrgNames : ToggleOrganization(o)
  BY <1>2, <1>5 DEF Drift, ChangeConfig, ToggleOrganization
<1> QED BY <1>3, <1>4, <1>5

\* The worker takes a copy and its spec.
Takes(k) ==
    \/ worker' = Idle
    \/ /\ worker'.key = k
       /\ worker'.obj = Cached(k)
       /\ worker'.pc = FirstCall(Cached(k))
       /\ mySpec' = specs[k][1]

\* The worker asks for nothing the server refuses.
LEMMA MineAcceptable ==
    ASSUME ControllerAssumption, BucketAssumption, TypeOK, Inv, SpecsOK, At("CreateBucket")
    PROVE  Acceptable(mySpec)
<1>1. worker.key \in Keys
  BY MeType DEF At
<1>2. worker.obj.exists
  BY DEF Inv, CopyOK, At, ReconcileCalls, Live
<1>3. <<worker.obj, mySpec>> \in Pairs(worker.key)
  BY DEF Pairs
<1> DEFINE p == <<worker.obj, mySpec>>
<1>4. p[1].exists => Acceptable(p[2])
  BY <1>1, <1>3 DEF SpecsOK
<1> QED BY <1>2, <1>4

\* The webhooks keep the specs as they were.
LEMMA ChangeKeeps ==
    ASSUME AdmissionAssumption, VersionsType, SpecsType, SpecsOK, NEW k \in Keys,
           NEW spec \in Requests, Latest(k).exists, ValidateUpdate(spec, LatestSpec(k))
    PROVE  spec = LatestSpec(k)
<1> DEFINE p == <<Latest(k), LatestSpec(k)>>
<1>1. p \in Pairs(k)
  BY SpecFacts
<1>2. p[1].exists => p[2] \in Requests
  BY <1>1 DEF SpecsOK
<1>3. LatestSpec(k) \in Requests
  BY <1>2
<1> QED BY <1>3 DEF ValidateUpdate, AdmissionAssumption

LEMMA CreateAccepts ==
    ASSUME AdmissionAssumption, NEW spec \in Requests, ValidateCreate(spec)
    PROVE  Acceptable(spec)
BY DEF AdmissionAssumption, ValidateCreate, Acceptable

\* The facts about a step that the proofs use.
StepFacts ==
    /\ Next
    /\ SpecsMove
    /\ (UNCHANGED mySpec /\ Moves) \/ \E k \in Keys : Takes(k)
    /\ UNCHANGED <<buckets, rules>> \/ KeepRules

LEMMA AdmittedStep ==
    ASSUME ControllerAssumption, BucketAssumption, AdmissionAssumption, TypeOK, Inv,
           SpecsType, SpecsOK, NextAdmission
    PROVE  StepFacts
<1>1. VersionsType
  BY DEF TypeOK, ControllerTypeOK, VersionsType
<1>2. CASE WorkWithSpec
  <2>1. Work
    BY <1>2, MineAcceptable DEF WorkWithSpec
  <2> QED
    BY <1>1, <1>2, <2>1, WorkMoves, FollowMoves DEF WorkWithSpec, SpecsFollow, StepFacts, Next
<1>3. CASE Around
  <2>1. \/ Fail \/ Restart
        \/ \E k \in Keys : Informer(k) \/ Delete(k)
        \/ \E ns \in Namespaces : ChangeConfig(ns)
    BY <1>3 DEF Around
  <2>2. Moves
    BY <2>1, OthersMove
  <2>3. Rewrites \/ RestartController \/ \E k \in Keys : Deliver(k)
    <3>1. CASE Fail \/ \E ns \in Namespaces : ChangeConfig(ns)
      BY <3>1 DEF Fail, CallFails, ChangeConfig, Rewrites
    <3>2. ASSUME NEW k \in Keys, Delete(k)
          PROVE  Rewrites
      <4>1. ~UserCreate(k)
        BY <3>2 DEF Delete, UserDelete, UserCreate
      <4> QED BY <1>1, <3>2, <4>1, UserWrites DEF Delete
    <3> QED BY <2>1, <3>1, <3>2 DEF Restart, Informer
  <2>4. UNCHANGED buckets
    BY <2>1 DEF Fail, Restart, Informer, Delete, ChangeConfig, influxVars
  <2> QED
    BY <1>1, <1>3, <2>1, <2>2, <2>3, <2>4, FollowMoves DEF Around, SpecsFollow, StepFacts, Next
<1>4. CASE AtServer
  <2>1. Drift \/ \E o \in OrgNames : ToggleOrganization(o)
    BY <1>4 DEF AtServer
  <2>2. UNCHANGED versions
    BY <2>1 DEF Drift, ToggleOrganization
  <2> QED
    BY <1>4, <2>1, <2>2, OthersMove DEF AtServer, specVars, SpecsMove, StepFacts, Next
<1>5. ASSUME NEW k \in Keys, ReconcileCopy(k)
      PROVE  StepFacts
  BY <1>5 DEF ReconcileCopy, Reconcile, Dispatch, CopySpec, influxVars, SpecsMove, Takes,
     StepFacts, Next
<1>6. ASSUME NEW k \in Keys, NEW spec \in Requests, Apply(k, spec)
      PROVE  StepFacts
  <2> DEFINE obj == NewObject(Latest(k).uid + 1)
  <2>1. Create(k) /\ Store(k, obj) /\ specs' = [specs EXCEPT ![k] = Append(@, spec)]
        /\ UNCHANGED <<mySpec, buckets, rules>>
    BY <1>6 DEF Apply, Create, UserCreate, StoreSpec, influxVars
  <2>2. obj \in Object /\ obj.uid = Latest(k).uid + 1
    <3>1. Latest(k).uid + 1 \in Nat
      BY <1>1, VersionFacts DEF Object
    <3> QED BY <3>1, ObjectFacts DEF NewObject
  <2>3. Admitted(k, obj, spec) /\ spec \in KnownSpecs
    BY <1>6, <2>2, CreateAccepts DEF Apply, Admitted, KnownSpecs
  <2>4. Moves
    BY <2>1, OthersMove
  <2> HIDE DEF obj
  <2> QED BY <2>1, <2>2, <2>3, <2>4 DEF SpecsMove, StepFacts, Next
<1>7. ASSUME NEW k \in Keys, NEW spec \in Requests, Change(k, spec)
      PROVE  StepFacts
  <2>1. /\ Edit(k) /\ Store(k, Latest(k)) /\ Latest(k).exists
        /\ specs' = [specs EXCEPT ![k] = Append(@, spec)]
        /\ UNCHANGED <<mySpec, buckets, rules>>
    BY <1>7 DEF Change, Edit, UserEdit, StoreSpec, influxVars
  <2>2. spec = LatestSpec(k) /\ spec \in KnownSpecs /\ Latest(k) \in Object
    BY <1>1, <1>7, ChangeKeeps, VersionFacts DEF Change, KnownSpecs
  <2>3. Admitted(k, Latest(k), spec)
    BY <2>1, <2>2 DEF Admitted
  <2>4. Moves
    BY <2>1, OthersMove
  <2> QED BY <2>1, <2>2, <2>3, <2>4 DEF SpecsMove, StepFacts, Next
<1> QED BY <1>2, <1>3, <1>4, <1>5, <1>6, <1>7 DEF NextAdmission

(***************************************************************************)
(* The specs.                                                                *)
(***************************************************************************)
\* What a step makes known of a resource is known already, or admitted now.
LEMMA PairsStep ==
    ASSUME ControllerAssumption, VersionsType, SpecsType, StepFacts, NEW k \in Keys,
           NEW p \in Pairs(k)'
    PROVE  p \in Pairs(k) \/ New(k, p)
<1>1. CASE \E i \in 1 .. Len(versions'[k]) : p = <<versions'[k][i], specs'[k][i]>>
  BY <1>1, VersionPairs DEF StepFacts
<1>2. CASE p = <<worker'.obj, mySpec'>> /\ worker'.key = k
  <2>1. worker' # Idle
    BY <1>2, IdleFacts DEF ControllerAssumption
  <2>2. CASE UNCHANGED mySpec /\ Moves
    BY <1>2, <2>1, <2>2 DEF Moves, Pairs
  <2>3. ASSUME NEW j \in Keys, Takes(j)
        PROVE  p \in Pairs(k)
    BY <1>2, <2>1, <2>3, SpecFacts DEF Takes
  <2> QED BY <2>2, <2>3 DEF StepFacts
<1> QED BY <1>1, <1>2 DEF Pairs

\* Nothing that is known is newer than the newest version.
LEMMA PairsBefore ==
    ASSUME ControllerAssumption, TypeOK, Inv, NEW k \in Keys, NEW p \in Pairs(k)
    PROVE  /\ p[1].uid \in Nat /\ Latest(k).uid \in Nat
           /\ p[1].uid <= Latest(k).uid
<1>1. p[1] \in Known(k)
  BY DEF Pairs, Known
<1>2. p[1] \in Object /\ Before(p[1], Latest(k)) /\ Latest(k) \in Object
  BY <1>1, InvGood, KnownFacts
<1> QED BY <1>2 DEF Before, Object

LEMMA SpecsStep ==
    ASSUME ControllerAssumption, BucketAssumption, TypeOK, Inv, SpecsType, SpecsOK, StepFacts
    PROVE  SpecsOK'
<1>1. VersionsType
  BY DEF TypeOK, ControllerTypeOK, VersionsType
<1> SUFFICES ASSUME NEW k \in Keys, NEW p \in Pairs(k)', NEW q \in Pairs(k)'
             PROVE  /\ p[1].exists => p[2] \in Requests /\ Acceptable(p[2])
                    /\ p[1].uid = q[1].uid => p[2] = q[2]
  BY DEF SpecsOK, Acceptable
<1> DEFINE latest == <<Latest(k), LatestSpec(k)>>
<1>2. latest \in Pairs(k)
  BY <1>1, SpecFacts
<1>3. (p \in Pairs(k) \/ New(k, p)) /\ (q \in Pairs(k) \/ New(k, q))
  BY <1>1, PairsStep
<1>4. \A a \in Pairs(k) : /\ a[1].exists => a[2] \in Requests /\ Acceptable(a[2])
                          /\ \A b \in Pairs(k) : a[1].uid = b[1].uid => a[2] = b[2]
  BY DEF SpecsOK
<1>5. latest[1] = Latest(k) /\ latest[2] = LatestSpec(k)
  OBVIOUS
<1> HIDE DEF latest
<1>6. ASSUME New(k, p)
      PROVE  p[1].exists => p[2] \in Requests /\ Acceptable(p[2])
  BY <1>2, <1>4, <1>5, <1>6 DEF New, Admitted
<1>7. ASSUME NEW a \in Pairs(k), NEW b, New(k, b), a[1].uid = b[1].uid
      PROVE  a[2] = b[2]
  <2>1. a[1].uid \in Nat /\ Latest(k).uid \in Nat /\ a[1].uid <= Latest(k).uid
    BY PairsBefore
  <2>2. b[1].uid = Latest(k).uid /\ b[2] = LatestSpec(k)
    BY <1>7, <2>1 DEF New, Admitted
  <2> QED BY <1>2, <1>4, <1>5, <1>7, <2>2
<1>8. New(k, p) /\ New(k, q) => p = q
  BY DEF New
<1> QED BY <1>3, <1>4, <1>6, <1>7, <1>8

(***************************************************************************)
(* The rules of the buckets.                                                 *)
(***************************************************************************)
\* What holds of everything that is known goes on to hold.
LEMMA RulesStay ==
    ASSUME ControllerAssumption, TypeOK, Inv, SpecsType, StepFacts,
           NEW k \in Keys, NEW u \in Nat, NEW rule, Rules(k, u, rule), u <= Latest(k).uid
    PROVE  \A p \in Pairs(k)' : p[1].uid = u => p[2] = rule
<1>1. VersionsType
  BY DEF TypeOK, ControllerTypeOK, VersionsType
<1>2. Latest(k).uid \in Nat
  BY <1>1, VersionFacts DEF Object
<1> SUFFICES ASSUME NEW p \in Pairs(k)', p[1].uid = u
             PROVE  p[2] = rule
  OBVIOUS
<1>3. CASE p \in Pairs(k)
  BY <1>3 DEF Rules
<1>4. CASE New(k, p)
  <2> DEFINE latest == <<Latest(k), LatestSpec(k)>>
  <2>1. latest \in Pairs(k)
    BY <1>1, SpecFacts
  <2>2. Latest(k).uid = u /\ p[2] = LatestSpec(k)
    BY <1>2, <1>4 DEF New, Admitted
  <2>3. latest[1].uid = u => latest[2] = rule
    BY <2>1 DEF Rules
  <2> QED BY <2>2, <2>3
<1> QED BY <1>1, <1>3, <1>4, PairsStep

\* The server's rules for a bucket that is left stay, and those of a new one are the
\* worker's.
LEMMA KeptRules ==
    ASSUME TypeOK, Unique', StepFacts, NEW b \in buckets, b \in buckets'
    PROVE  rules'[b.id] = rules[b.id]
<1>1. b.id \in Ids
  BY DEF TypeOK, Bucket
<1>2. CASE KeepRules
  <2>1. ~\E c \in buckets' \ buckets : c.id = b.id /\ c.by # External
    BY DEF Unique
  <2> QED BY <1>1, <1>2, <2>1 DEF KeepRules
<1> QED BY <1>2 DEF StepFacts

LEMMA MadeRules ==
    ASSUME ControllerAssumption, BucketAssumption, TypeOK, TypeOK', Inv, SpecsOK, StepFacts,
           NEW b \in buckets', b \notin buckets, b.by # External
    PROVE  /\ b.by = Me
           /\ worker.key \in Keys /\ worker.obj.uid \in Nat
           /\ Me = <<worker.key, worker.obj.uid>>
           /\ worker.obj.uid <= Latest(worker.key).uid
           /\ Rules(worker.key, worker.obj.uid, rules'[b.id])
<1>1. CreateBucket /\ b.by = Me
  BY ServerSteps DEF StepFacts, Added
<1>2. /\ worker.key \in Keys /\ worker.obj.uid \in Nat
      /\ Me = <<worker.key, worker.obj.uid>>
  BY <1>1, CreateFacts
<1> DEFINE p == <<worker.obj, mySpec>>
<1>3. p \in Pairs(worker.key)
  BY DEF Pairs
<1>4. p[1].uid <= Latest(worker.key).uid
  BY <1>2, <1>3, PairsBefore
<1>5. rules'[b.id] = mySpec
  <2>1. b.id \in Ids
    BY DEF TypeOK, Bucket
  <2> QED BY <2>1 DEF StepFacts, KeepRules
<1>6. Rules(worker.key, worker.obj.uid, mySpec)
  <2>1. \A q \in Pairs(worker.key) : q[1].uid = p[1].uid => q[2] = p[2]
    BY <1>2, <1>3 DEF SpecsOK
  <2> QED BY <2>1 DEF Rules
<1> QED BY <1>1, <1>2, <1>4, <1>5, <1>6

LEMMA RulesStep ==
    ASSUME ControllerAssumption, BucketAssumption, TypeOK, Inv, TypeOK', Inv',
           SpecsType, SpecsOK, RulesOK, StepFacts
    PROVE  RulesOK'
<1>1. VersionsType
  BY DEF TypeOK, ControllerTypeOK, VersionsType
<1> SUFFICES ASSUME NEW b \in buckets', b.by # External
             PROVE  \A p \in Pairs(b.by[1])' : p[1].uid = b.by[2] => p[2] = rules'[b.id]
  BY DEF RulesOK, Rules
<1>2. CASE b \in buckets
  <2>1. PICK k \in Keys, u \in Nat : b.by = <<k, u>>
    BY <1>2 DEF TypeOK, Bucket
  <2>2. u <= Latest(k).uid
    <3>1. u <= Cached(k).uid
      <4>1. MakerOK(b) /\ b.by[1] = k /\ b.by[2] = u
        BY <1>2, <2>1 DEF Inv
      <4> QED BY <4>1 DEF MakerOK
    <3>2. Cached(k) \in Object /\ Latest(k) \in Object /\ Before(Cached(k), Latest(k))
      BY <1>1, VersionFacts, LatestFacts DEF Inv
    <3> QED BY <3>1, <3>2 DEF Before, Object
  <2>3. b.by[1] = k /\ b.by[2] = u
    BY <2>1
  <2>4. rules'[b.id] = rules[b.id]
    BY <1>2, KeptRules DEF Inv
  <2>5. Rules(k, u, rules'[b.id])
    BY <1>2, <2>3, <2>4 DEF RulesOK
  <2> QED BY <2>2, <2>3, <2>5, RulesStay
<1>3. CASE b \notin buckets
  BY <1>3, MadeRules, RulesStay
<1> QED BY <1>2, <1>3

(***************************************************************************)
(* All of it, and the theorems.                                              *)
(***************************************************************************)
AdmissionSafe == Safe /\ SpecsType /\ SpecsOK /\ RulesOK

LEMMA InitAdmissionSafe ==
    ASSUME ControllerAssumption, BucketAssumption, InitAdmission
    PROVE  AdmissionSafe
<1>1. Safe
  BY InitSafe DEF InitAdmission
<1>2. SpecsType
  BY DEF InitAdmission, Init, ControllerInit, InitSpecs, SpecsType, KnownSpecs
<1>3. ASSUME NEW k \in Keys, NEW p \in Pairs(k)
      PROVE  p = <<NoObject, NoSpec>>
  BY <1>3, IdleFacts DEF InitAdmission, Init, ControllerInit, InitSpecs, Pairs
<1>4. ~NoObject.exists
  BY DEF NoObject, Gone
<1>5. SpecsOK
  BY <1>3, <1>4 DEF SpecsOK
<1>6. RulesOK
  BY DEF InitAdmission, Init, RulesOK
<1> QED BY <1>1, <1>2, <1>5, <1>6 DEF AdmissionSafe

LEMMA NextAdmissionSafe ==
    ASSUME ControllerAssumption, BucketAssumption, AdmissionAssumption, AdmissionSafe,
           NextAdmission
    PROVE  AdmissionSafe' /\ StepFacts
<1>1. TypeOK /\ Inv /\ SpecsType /\ SpecsOK /\ RulesOK
  BY DEF AdmissionSafe, Safe
<1>2. StepFacts
  BY <1>1, AdmittedStep
<1>3. Safe' /\ TypeOK' /\ Inv'
  BY <1>2, NextSafe DEF AdmissionSafe, StepFacts, Safe
<1>4. SpecsType' /\ SpecsOK'
  BY <1>1, <1>2, SpecsTypeStep, SpecsStep DEF StepFacts, TypeOK, ControllerTypeOK, VersionsType
<1>5. RulesOK'
  BY <1>1, <1>2, <1>3, RulesStep
<1> QED BY <1>2, <1>3, <1>4, <1>5 DEF AdmissionSafe

LEMMA StutterAdmissionSafe ==
    ASSUME AdmissionSafe, UNCHANGED allVars
    PROVE  AdmissionSafe'
<1>1. UNCHANGED <<versions, worker, specs, mySpec, buckets, rules>> /\ UNCHANGED vars
  BY DEF allVars, vars, controllerVars, influxVars, specVars
<1>2. Safe'
  BY <1>1, StutterSafe DEF AdmissionSafe
<1>3. \A k : Pairs(k)' = Pairs(k)
  BY <1>1 DEF Pairs
<1> QED BY <1>1, <1>2, <1>3 DEF AdmissionSafe, SpecsType, SpecsOK, Acceptable, RulesOK, Rules

\* What the webhook admits, the server takes: with the specs in place the controller does
\* what BucketReconciler says, and CreateBucket never mistakes a refusal for a bucket that
\* exists.
THEOREM AdmittedIsTaken == SpecAdmission => Spec
<1>1. InitAdmission => Init /\ AdmissionSafe
  BY ControllerAssumption, BucketAssumption, InitAdmissionSafe DEF InitAdmission
<1>2. AdmissionSafe /\ [NextAdmission]_allVars => AdmissionSafe' /\ [Next]_vars
  <2>1. UNCHANGED allVars => UNCHANGED vars
    BY DEF allVars
  <2> QED BY <2>1, ControllerAssumption, BucketAssumption, AdmissionAssumption,
             NextAdmissionSafe, StutterAdmissionSafe DEF StepFacts
<1> QED BY <1>1, <1>2, PTL DEF SpecAdmission, Spec

\* The bucket of a resource has the retention and the description of its spec as long as
\* both are there, from whatever copy the controller made it.
THEOREM RetentionIsKept == SpecAdmission => []RetentionAgrees
<1>1. InitAdmission => AdmissionSafe
  BY ControllerAssumption, BucketAssumption, InitAdmissionSafe
<1>2. AdmissionSafe /\ [NextAdmission]_allVars => AdmissionSafe'
  BY ControllerAssumption, BucketAssumption, AdmissionAssumption,
     NextAdmissionSafe, StutterAdmissionSafe
<1>3. AdmissionSafe => RetentionAgrees
  <2> SUFFICES ASSUME AdmissionSafe, NEW b \in buckets, b.by # External,
                      Latest(b.by[1]).uid = b.by[2]
               PROVE  rules[b.id] = LatestSpec(b.by[1])
    BY DEF RetentionAgrees
  <2>1. b.by[1] \in Keys
    BY DEF AdmissionSafe, Safe, TypeOK, Bucket
  <2> DEFINE latest == <<Latest(b.by[1]), LatestSpec(b.by[1])>>
  <2>2. latest \in Pairs(b.by[1])
    BY <2>1, SpecFacts DEF AdmissionSafe, Safe, TypeOK, ControllerTypeOK, VersionsType
  <2>3. latest[1].uid = b.by[2] => latest[2] = rules[b.id]
    BY <2>2 DEF AdmissionSafe, RulesOK, Rules
  <2> QED BY <2>3
<1> QED BY <1>1, <1>2, <1>3, PTL DEF SpecAdmission

\* What was proved of BucketReconciler holds with the specs.
THEOREM AdmittedKeepsPromises ==
    ASSUME IsFiniteSet(Names), Cardinality(Names) <= PageLimit,
           \A j, k \in Keys : NameOf[j] = NameOf[k] => j = k
    PROVE  SpecAdmission => []NoOrphan /\ []SparesLive /\ PhaseForward
BY AdmittedIsTaken, NothingOrphaned, LiveSpared, PhaseMovesForward, PTL

(***************************************************************************)
(* What "ready" says.                                                        *)
(***************************************************************************)
\* Every step of the controller writes what a step of Controller writes.
LEMMA NextWrites ==
    ASSUME ControllerAssumption, TypeOK, Inv, Next
    PROVE  Writes
<1>1. VersionsType
  BY DEF TypeOK, ControllerTypeOK, VersionsType
<1>2. CASE Work
  BY <1>2, WorkMoves DEF Rewrites, Writes
<1>3. ASSUME NEW k \in Keys, Create(k) \/ Delete(k) \/ Edit(k)
      PROVE  Writes
  BY <1>1, <1>3, UserWrites DEF Create, Delete, Edit
<1>4. CASE Restart \/ \E k \in Keys : Informer(k)
  BY <1>4 DEF Restart, Informer, Writes
<1>5. CASE UNCHANGED versions
  BY <1>5 DEF Writes
<1> QED
  BY <1>2, <1>3, <1>4, <1>5
  DEF Next, Fail, CallFails, Reconcile, Dispatch, ChangeConfig, Drift, ToggleOrganization

\* A bucket goes because somebody else deletes it or its organization, or by
\* DeleteBucketWithID.
LEMMA SeenStep ==
    ASSUME TypeOK, Inv, StepFacts, NextAdmission, NEW k \in Keys, BucketSeen(k)
    PROVE  BucketSeen(k)' \/ (DeleteBucketWithID /\ NameOf[k] = MyName)
<1>1. CASE DeleteBucketWithID /\ NameOf[k] # MyName
  <2>1. ASSUME NEW b \in buckets, b.name = NameOf[k]
        PROVE  b \in buckets'
    BY <1>1, <2>1 DEF DeleteBucketWithID, Inv, LocalOK
  <2>2. unasked \subseteq unasked'
    BY DEF NextAdmission, WorkWithSpec, Around, AtServer, ReconcileCopy, Apply, Change
  <2> QED BY <2>1, <2>2 DEF BucketSeen
<1>2. CASE buckets \subseteq buckets' /\ unasked \subseteq unasked'
  BY <1>2 DEF BucketSeen
<1>3. CASE AtServer
  <2>1. ASSUME NEW b \in buckets, b.name = NameOf[k]
        PROVE  b \in buckets' \/ k \in unasked'
    BY <1>3, <2>1 DEF AtServer
  <2> QED BY <1>3, <2>1 DEF AtServer, BucketSeen
<1>4. CASE WorkWithSpec
  <2>1. UNCHANGED unasked
    BY <1>4 DEF WorkWithSpec
  <2>2. ~DeleteBucketWithID => buckets \subseteq buckets'
    BY <1>4 DEF WorkWithSpec, RefuseRules, BucketConflict, Work, influxVars, FinalizeStatus,
       DeletedStatus, RemoveFinalizer, AddFinalizer, InitializeStatus, CreatedStatus,
       FinalizeReadConfig, FinalizeFindOrganization, FindOrganization, FindBucketsByOrgID,
       ReconcileReadConfig, ReconcileFindOrganization, CreateBucket
  <2> QED BY <1>1, <1>2, <2>1, <2>2
<1> QED
  BY <1>2, <1>3, <1>4 DEF NextAdmission, Around, Fail, Restart, Informer, Delete, ChangeConfig,
     ReconcileCopy, Reconcile, Apply, Create, Change, Edit, influxVars

\* CreateBucket goes on to CreatedStatus when there is a bucket of the name.
LEMMA CreateSeen ==
    ASSUME TypeOK, CreateBucket, worker'.pc = "CreatedStatus"
    PROVE  \E b \in buckets' : b.name = MyName
<1>1. ~ReturnError /\ ~RequeueAfter
  BY IdleFacts DEF ReturnError, RequeueAfter, Finish
<1>2. CASE BucketConflict /\ Named(BucketsOf(local.org), MyName) # {}
  BY <1>2 DEF BucketConflict, Named, BucketsOf
<1>3. ASSUME NEW id \in Ids,
             buckets' = buckets \cup
                {[id |-> id, org |-> local.org, name |-> MyName, by |-> Me]}
      PROVE  \E b \in buckets' : b.name = MyName
  <2> DEFINE b == [id |-> id, org |-> local.org, name |-> MyName, by |-> Me]
  <2>1. b \in buckets' /\ b.name = MyName
    BY <1>3
  <2> QED BY <2>1
<1> QED BY <1>1, <1>2, <1>3 DEF CreateBucket

\* Every step keeps ReadyOK: the deletion of a bucket because the copy it acts on says
\* "terminating".
LEMMA ReadyStep ==
    ASSUME ControllerAssumption, BucketAssumption, TypeOK, Inv, ReadyOK, StepFacts,
           NextAdmission, \A j, k \in Keys : NameOf[j] = NameOf[k] => j = k
    PROVE  ReadyOK'
<1>1. /\ worker \in Workers(Calls)
      /\ VersionsType
      /\ Next
  BY DEF TypeOK, ControllerTypeOK, VersionsType, StepFacts
<1>2. worker'.pc \in FinalizeCalls => worker'.obj.phase = phaseTerminating
  <2>1. ASSUME NEW j \in Keys, FirstCall(Cached(j)) \in FinalizeCalls
        PROVE  Cached(j).phase = phaseTerminating
    BY <2>1 DEF FirstCall, FinalizeCalls
  <2>2. Idle.pc \notin FinalizeCalls
    BY IdleFacts DEF FinalizeCalls
  <2> QED BY <2>1, <2>2 DEF StepFacts, Moves, Takes, ReadyOK
<1>3. At("CreatedStatus")' => BucketSeen(worker.key)' /\ worker'.key = worker.key
  <2> SUFFICES ASSUME worker'.pc = "CreatedStatus"
               PROVE  BucketSeen(worker.key)' /\ worker'.key = worker.key
    BY DEF At
  <2>1. ASSUME NEW j \in Keys
        PROVE  FirstCall(Cached(j)) # "CreatedStatus"
    BY DEF FirstCall
  <2>2. worker'.key = worker.key /\ (At("CreatedStatus") \/ CreateBucket)
    BY <2>1, IdleFacts DEF StepFacts, Moves, Takes
  <2>3. worker.key \in Keys
    BY <2>2, MeType DEF CreateBucket, At
  <2>4. CASE At("CreatedStatus")
    <3>1. ~DeleteBucketWithID
      BY <2>4 DEF DeleteBucketWithID, At
    <3> QED BY <2>2, <2>3, <2>4, <3>1, SeenStep DEF ReadyOK
  <2>5. CASE CreateBucket
    BY <2>2, <2>5, CreateSeen DEF BucketSeen, MyName
  <2> QED BY <2>2, <2>4, <2>5
<1>4. ASSUME NEW k \in Keys, Ready(k)'
      PROVE  /\ BucketSeen(k)'
             /\ Clear(k)'
             /\ worker'.key = k => worker'.obj.phase # phaseTerminating
  <2>1. Clear(k) /\ Clear(k)' /\ (Ready(k) \/ (At("CreatedStatus") /\ worker.key = k))
    BY <1>1, <1>4, InvGood, CallsSplit, NextWrites, ReadyVersions DEF ReadyOK, At, FinalizeCalls
  <2>2. BucketSeen(k) /\ (worker.key = k => worker.obj.phase # phaseTerminating)
    <3>1. CASE Ready(k)
      BY <3>1 DEF ReadyOK
    <3>2. CASE At("CreatedStatus") /\ worker.key = k
      <4>1. Live(worker.obj) /\ WellFormed(worker.obj)
        BY <3>2 DEF Inv, CopyOK, At, ReconcileCalls
      <4> QED BY <3>2, <4>1 DEF ReadyOK, Live, WellFormed
    <3> QED BY <2>1, <3>1, <3>2
  <2>3. ~(DeleteBucketWithID /\ NameOf[k] = MyName)
    <3> SUFFICES ASSUME DeleteBucketWithID, NameOf[k] = MyName
                 PROVE  FALSE
      OBVIOUS
    <3>1. worker.key \in Keys /\ worker.pc \in FinalizeCalls
      BY MeType DEF DeleteBucketWithID, At, FinalizeCalls
    <3>2. worker.key = k
      BY <3>1 DEF MyName
    <3> QED BY <2>2, <3>1, <3>2 DEF ReadyOK
  <2>4. BucketSeen(k)'
    BY <2>2, <2>3, SeenStep
  <2>5. Cached(k).phase # phaseTerminating
    <3>1. Len(versions[k]) \in Nat \ {0}
      BY <1>1, VersionFacts
    <3> QED BY <2>1, <3>1 DEF Clear, Cached
  <2>6. worker'.key = k => worker'.obj.phase # phaseTerminating
    BY <2>2, <2>5, IdleFacts DEF StepFacts, Moves, Takes, ControllerAssumption
  <2> QED BY <2>1, <2>4, <2>6
<1> QED BY <1>2, <1>3, <1>4 DEF ReadyOK, BucketSeen, At

\* When no two resources share a name, a resource that says "ready" has a bucket of its
\* name, unless others have deleted or made one: CreatedStatus is never reached on a
\* refusal, and the worker never deletes from an old copy what a newer version of the
\* resource relies on.
THEOREM ReadyIsTrue ==
    ASSUME \A j, k \in Keys : NameOf[j] = NameOf[k] => j = k
    PROVE  SpecAdmission => []ReadyHasBucket
<1>1. InitAdmission => AdmissionSafe /\ ReadyOK
  <2>1. InitAdmission => ReadyOK
    BY IdleFacts DEF InitAdmission, Init, ControllerInit, ReadyOK, Ready, Latest, NoObject, Gone,
       At, FinalizeCalls
  <2> QED BY <2>1, ControllerAssumption, BucketAssumption, InitAdmissionSafe
<1>2. AdmissionSafe /\ ReadyOK /\ [NextAdmission]_allVars => AdmissionSafe' /\ ReadyOK'
  <2>1. ASSUME AdmissionSafe, ReadyOK, NextAdmission
        PROVE  AdmissionSafe' /\ ReadyOK'
    BY <2>1, ControllerAssumption, BucketAssumption, AdmissionAssumption, NextAdmissionSafe,
       ReadyStep DEF AdmissionSafe, Safe
  <2>2. ASSUME UNCHANGED allVars, ReadyOK
        PROVE  ReadyOK'
    <3>1. UNCHANGED <<versions, worker, buckets, unasked>>
      BY <2>2 DEF allVars, vars, controllerVars, influxVars
    <3>2. \A k \in Keys : (Ready(k)' <=> Ready(k)) /\ (Clear(k)' <=> Clear(k))
      BY <3>1 DEF Ready, Clear, Latest
    <3>3. \A k : BucketSeen(k)' <=> BucketSeen(k)
      BY <3>1 DEF BucketSeen
    <3> QED BY <2>2, <3>1, <3>2, <3>3 DEF ReadyOK, At
  <2> QED BY <2>1, <2>2, StutterAdmissionSafe
<1>3. ReadyOK => ReadyHasBucket
  BY DEF ReadyOK, ReadyHasBucket, Ready, BucketSeen
<1> QED BY <1>1, <1>2, <1>3, PTL DEF SpecAdmission
===============================================================================
