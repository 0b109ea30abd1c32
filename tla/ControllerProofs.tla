--------------------------- MODULE ControllerProofs ---------------------------
(***************************************************************************)
(* Lemmas about the steps of Controller, for the proofs of the three kinds.   *)
(* Each says that a step keeps the types and the order of versions, whatever   *)
(* the calls of the kind are.                                                 *)
(***************************************************************************)
EXTENDS Controller, TLAPS

VersionsType == versions \in [Keys -> Seq(Object) \ {<<>>}]

(***************************************************************************)
(* Objects.                                                                  *)
(***************************************************************************)
LEMMA ObjectFacts ==
    /\ \A uid \in Nat : NewObject(uid) \in Object
    /\ \A obj \in Object : Gone(obj) \in Object
    /\ NoObject \in Object
    /\ \A uid \in Nat : WellFormed(NewObject(uid))
    /\ WellFormed(NoObject)
BY DEF NewObject, Gone, NoObject, Object, Phases, Reasons, WellFormed, Initialized,
       phaseNone, phasePending, phaseReady, phaseTerminating, reasonFinalizerAdded

LEMMA SingletonSeq ==
    ASSUME NEW S, NEW x \in S
    PROVE  <<x>> \in Seq(S) \ {<<>>}
OBVIOUS

\* Every version is an object, and there is at least one.
LEMMA VersionFacts ==
    ASSUME VersionsType, NEW k \in Keys
    PROVE  /\ Len(versions[k]) \in Nat \ {0}
           /\ \A i \in 1 .. Len(versions[k]) : versions[k][i] \in Object
           /\ Latest(k) \in Object
           /\ Cached(k) \in Object
BY DEF VersionsType, Latest, Cached

\* A write appends one version to one object and leaves the older ones alone.
LEMMA StoreFacts ==
    ASSUME VersionsType, NEW k \in Keys, NEW obj \in Object, Store(k, obj)
    PROVE  /\ VersionsType'
           /\ \A j \in Keys \ {k} : versions'[j] = versions[j]
           /\ Len(versions'[k]) = Len(versions[k]) + 1
           /\ \A i \in 1 .. Len(versions[k]) : versions'[k][i] = versions[k][i]
           /\ versions'[k][Len(versions[k]) + 1] = obj
           /\ Latest(k)' = obj
           /\ Cached(k)' = Cached(k)
           /\ \A j \in Keys \ {k} : Latest(j)' = Latest(j) /\ Cached(j)' = Cached(j)
<1> DEFINE s == versions[k]
<1>1. s \in Seq(Object) /\ s # <<>> /\ Len(s) \in Nat \ {0}
  BY DEF VersionsType
<1>2. versions' = [versions EXCEPT ![k] = Append(s, obj)]
  BY DEF Store
<1>3. versions'[k] = Append(s, obj) /\ \A j \in Keys \ {k} : versions'[j] = versions[j]
  BY <1>2 DEF VersionsType
<1>4. Append(s, obj) \in Seq(Object) \ {<<>>}
  BY <1>1
<1>5. VersionsType'
  BY <1>2, <1>4 DEF VersionsType
<1>6. /\ Len(Append(s, obj)) = Len(s) + 1
      /\ \A i \in 1 .. Len(s) : Append(s, obj)[i] = s[i]
      /\ Append(s, obj)[Len(s) + 1] = obj
  BY <1>1
<1> QED
  BY <1>1, <1>3, <1>5, <1>6 DEF Latest, Cached

\* The informer drops the oldest version.
LEMMA DeliverFacts ==
    ASSUME VersionsType, NEW k \in Keys, Deliver(k)
    PROVE  /\ VersionsType'
           /\ \A j \in Keys \ {k} : versions'[j] = versions[j]
           /\ Len(versions'[k]) = Len(versions[k]) - 1
           /\ \A i \in 1 .. Len(versions'[k]) : versions'[k][i] = versions[k][i + 1]
           /\ Latest(k)' = Latest(k)
           /\ Cached(k)' = versions[k][2]
           /\ \A j \in Keys \ {k} : Latest(j)' = Latest(j) /\ Cached(j)' = Cached(j)
<1> DEFINE s == versions[k]
<1>1. s \in Seq(Object) /\ s # <<>> /\ Len(s) \in Nat /\ Len(s) > 1
  BY DEF VersionsType, Deliver
<1>2. versions' = [versions EXCEPT ![k] = Tail(s)]
  BY DEF Deliver
<1>3. versions'[k] = Tail(s) /\ \A j \in Keys \ {k} : versions'[j] = versions[j]
  BY <1>2 DEF VersionsType
<1>4. /\ Tail(s) \in Seq(Object)
      /\ Len(Tail(s)) = Len(s) - 1
      /\ \A i \in 1 .. Len(s) - 1 : Tail(s)[i] = s[i + 1]
  BY <1>1
<1>5. Tail(s) # <<>>
  BY <1>1, <1>4
<1>6. VersionsType'
  BY <1>2, <1>4, <1>5 DEF VersionsType
<1> QED
  BY <1>1, <1>3, <1>4, <1>6 DEF Latest, Cached

(***************************************************************************)
(* The order of versions.                                                    *)
(***************************************************************************)
LEMMA BeforeReflexive == \A a \in Object : Before(a, a)
BY DEF Before, Object, Live

\* c has the identity and the existence of b, and lost neither its deletion mark nor
\* its finalizer.
Keeps(b, c) ==
    /\ c.uid = b.uid
    /\ c.exists = b.exists
    /\ b.deleting => c.deleting
    /\ b.finalizer => c.finalizer

LEMMA KeepsBefore ==
    ASSUME NEW a \in Object, NEW b \in Object, NEW c \in Object, Before(a, b), Keeps(b, c)
    PROVE  Before(a, c)
BY DEF Before, Keeps, Object, Live

\* An object whose finalizer is gone may disappear.
LEMMA GoneBefore ==
    ASSUME NEW a \in Object, NEW b \in Object, Before(a, b),
           ~(Live(a) /\ a.finalizer), b.exists
    PROVE  Before(a, Gone(b))
BY DEF Before, Gone, Object, Live

LEMMA NewBefore ==
    ASSUME NEW a \in Object, NEW b \in Object, Before(a, b), ~b.exists
    PROVE  Before(a, NewObject(b.uid + 1))
BY DEF Before, NewObject, Object, Live

LEMMA LatestFacts ==
    ASSUME VersionsType, HistoryOK, NEW k \in Keys
    PROVE  /\ WellFormed(Latest(k))
           /\ Before(Cached(k), Latest(k))
           /\ \A i \in 1 .. Len(versions[k]) :
                 /\ WellFormed(versions[k][i])
                 /\ Before(versions[k][i], Latest(k))
                 /\ Before(Cached(k), versions[k][i])
BY VersionFacts DEF HistoryOK, Latest, Cached

\* A new version that every older one precedes keeps the history in order.
LEMMA StoreHistory ==
    ASSUME VersionsType, HistoryOK, NEW k \in Keys, NEW obj \in Object, Store(k, obj),
           WellFormed(obj),
           \A i \in 1 .. Len(versions[k]) : Before(versions[k][i], obj)
    PROVE  HistoryOK'
<1> SUFFICES ASSUME NEW l \in Keys, NEW j \in 1 .. Len(versions'[l])
             PROVE  /\ WellFormed(versions'[l][j])
                    /\ \A i \in 1 .. j : Before(versions'[l][i], versions'[l][j])
  BY DEF HistoryOK, WellFormed, Before, Live, Initialized
<1>1. CASE l # k
  BY <1>1, StoreFacts DEF HistoryOK
<1>2. CASE l = k /\ j <= Len(versions[k])
  <2>1. /\ WellFormed(versions[k][j])
        /\ \A i \in 1 .. j : Before(versions[k][i], versions[k][j])
    BY <1>2, VersionFacts DEF HistoryOK
  <2>2. \A i \in 1 .. j : versions'[k][i] = versions[k][i]
    BY <1>2, StoreFacts, VersionFacts
  <2> QED BY <1>2, <2>1, <2>2
<1>3. CASE l = k /\ j = Len(versions[k]) + 1
  <2>1. versions'[k][j] = obj
    BY <1>3, StoreFacts
  <2>2. \A i \in 1 .. Len(versions[k]) : versions'[k][i] = versions[k][i]
    BY StoreFacts
  <2>3. \A i \in 1 .. j : i = j \/ i \in 1 .. Len(versions[k])
    BY <1>3, VersionFacts
  <2> QED BY <1>3, <2>1, <2>2, <2>3, BeforeReflexive
<1> QED
  BY <1>1, <1>2, <1>3, StoreFacts, VersionFacts

LEMMA DeliverHistory ==
    ASSUME VersionsType, HistoryOK, NEW k \in Keys, Deliver(k)
    PROVE  HistoryOK'
<1> SUFFICES ASSUME NEW l \in Keys, NEW j \in 1 .. Len(versions'[l])
             PROVE  /\ WellFormed(versions'[l][j])
                    /\ \A i \in 1 .. j : Before(versions'[l][i], versions'[l][j])
  BY DEF HistoryOK, WellFormed, Before, Live, Initialized
<1>1. CASE l # k
  BY <1>1, DeliverFacts DEF HistoryOK
<1>2. CASE l = k
  <2>1. j + 1 \in 1 .. Len(versions[k])
    BY <1>2, DeliverFacts, VersionFacts
  <2>2. /\ WellFormed(versions[k][j + 1])
        /\ \A i \in 1 .. j + 1 : Before(versions[k][i], versions[k][j + 1])
    BY <2>1 DEF HistoryOK
  <2>3. \A i \in 1 .. j : versions'[k][i] = versions[k][i + 1]
    BY <1>2, <2>1, DeliverFacts, VersionFacts
  <2>4. \A i \in 1 .. j : i + 1 \in 1 .. j + 1
    OBVIOUS
  <2> QED BY <1>2, <2>2, <2>3, <2>4
<1> QED BY <1>1, <1>2

(***************************************************************************)
(* Steps.  fin and rec are the calls of FinalizeResources and                *)
(* ReconcileResources of a kind.                                             *)
(***************************************************************************)
ResourceCalls == {"FinalizeStatus", "AddFinalizer", "InitializeStatus"}

Classes(fin, rec) ==
    /\ fin \cap rec = {}
    /\ (fin \cup rec) \cap (ResourceCalls \cup {"idle"}) = {}
    /\ {"FinalizeResources", "DeletedStatus", "RemoveFinalizer"} \subseteq fin
    /\ {"ReconcileResources", "CreatedStatus"} \subseteq rec

Good(fin, rec) ==
    /\ ControllerTypeOK(fin \cup rec \cup ResourceCalls)
    /\ HistoryOK
    /\ CopyOK(fin, rec)

\* What a step may not do to the versions and to the worker.
Forward ==
    \A k \in Keys :
        Latest(k)'.uid = Latest(k).uid
            => PhaseRank[Latest(k).phase] <= PhaseRank[Latest(k)'.phase]

HeldOn ==
    \A k \in Keys, u \in Nat :
        Held(<<k, u>>) => Held(<<k, u>>)' \/ (At("RemoveFinalizer") /\ Me = <<k, u>>)

CopyKept ==
    \/ worker' = Idle
    \/ worker'.key = worker.key /\ worker'.obj = worker.obj
    \/ worker'.key \in Keys /\ worker'.obj = Cached(worker'.key) /\ worker'.pc # "RemoveFinalizer"

Progress ==
    /\ \A k \in Keys : Cached(k).uid <= Cached(k)'.uid
    /\ Forward
    /\ HeldOn
    /\ CopyKept

StepOK(fin, rec) ==
    /\ Good(fin, rec)'
    /\ Progress
    /\ ~SameSecond /\ NoLostWakeup => NoLostWakeup'

\* The step loses no wake-up, whatever the stamps are.
Wakes == NoLostWakeup => NoLostWakeup'

LEMMA IdleFacts == Idle.pc = "idle" /\ Idle.key = NoKey /\ Idle.obj = NoObject
BY DEF Idle

\* What Good says of a busy worker.
LEMMA BusyFacts ==
    ASSUME NEW fin, NEW rec, Good(fin, rec)
    PROVE  /\ VersionsType
           /\ worker.obj \in Object
           /\ ~At("idle") => worker.key \in Keys
           /\ At("idle") => worker.key = NoKey
BY DEF Good, ControllerTypeOK, Workers, VersionsType, At

\* Nothing is written.
LEMMA UnwrittenProgress ==
    ASSUME VersionsType, HistoryOK, UNCHANGED versions
    PROVE  HistoryOK' /\ Forward /\ HeldOn /\ \A k \in Keys : Cached(k).uid <= Cached(k)'.uid
<1>1. HistoryOK'
  BY DEF HistoryOK, WellFormed, Before, Live, Initialized
<1>2. \A k \in Keys : Latest(k)' = Latest(k) /\ Cached(k)' = Cached(k)
  BY DEF Latest, Cached
<1>3. \A k \in Keys : Latest(k) \in Object /\ Cached(k) \in Object
  BY VersionFacts
<1>4. \A p \in Phases : PhaseRank[p] \in Nat
  BY DEF PhaseRank, Phases, phaseNone, phasePending, phaseReady, phaseTerminating
<1>5. Forward
  BY <1>2, <1>3, <1>4 DEF Forward, Object
<1>6. HeldOn
  BY <1>2 DEF HeldOn, Held
<1>7. \A k \in Keys : Cached(k).uid <= Cached(k)'.uid
  BY <1>2, <1>3 DEF Object
<1> QED BY <1>1, <1>5, <1>6, <1>7

\* The world outside moves, and others use up the fault budget.
LEMMA StillStep ==
    ASSUME NEW fin, NEW rec, Good(fin, rec), UNCHANGED <<versions, queue, worker>>,
           faults' \in 0 .. MaxFaults
    PROVE  StepOK(fin, rec) /\ Wakes
<1>1. ControllerTypeOK(fin \cup rec \cup ResourceCalls)'
  BY DEF Good, ControllerTypeOK, At
<1>2. CopyOK(fin, rec)'
  BY DEF Good, CopyOK, At, Latest, WellFormed, Before, Live, Dying, Initialized
<1>3. HistoryOK' /\ Progress
  BY UnwrittenProgress, BusyFacts DEF Good, Progress, CopyKept
<1>4. NoLostWakeup => NoLostWakeup'
  BY DEF NoLostWakeup, Latest
<1> QED BY <1>1, <1>2, <1>3, <1>4 DEF StepOK, Wakes, Good

LEMMA QuietStep ==
    ASSUME NEW fin, NEW rec, ControllerAssumption, Good(fin, rec),
           UNCHANGED <<versions, queue, worker>>, faults' = faults \/ Fault
    PROVE  StepOK(fin, rec) /\ Wakes
<1>1. faults' \in 0 .. MaxFaults
  BY DEF Good, ControllerTypeOK, Fault, ControllerAssumption
<1> QED BY <1>1, StillStep

\* The worker goes on to another call of the same handler.
LEMMA GoToStep ==
    ASSUME NEW fin, NEW rec, NEW call, ControllerAssumption, Classes(fin, rec),
           Good(fin, rec), GoTo(call), UNCHANGED <<versions, queue>>,
           faults' = faults,
           (worker.pc \in fin /\ call \in fin) \/ (worker.pc \in rec /\ call \in rec)
    PROVE  StepOK(fin, rec) /\ Wakes
<1>1. /\ worker'.pc = call
      /\ worker'.key = worker.key
      /\ worker'.obj = worker.obj
      /\ worker'.stale = worker.stale
      /\ worker' \in Workers(fin \cup rec \cup ResourceCalls)
  BY DEF GoTo, Good, ControllerTypeOK, Workers
<1>2. ~At("idle") /\ ~At("idle")' /\ ~At("InitializeStatus")'
  BY <1>1 DEF At, Classes, ResourceCalls
<1>3. ControllerTypeOK(fin \cup rec \cup ResourceCalls)'
  BY <1>1, <1>2 DEF Good, ControllerTypeOK, At
<1>4. CopyOK(fin, rec)'
  BY <1>1, <1>2 DEF Good, CopyOK, At, Latest, WellFormed, Before, Live, Dying,
     Initialized, Classes, ResourceCalls
<1>5. HistoryOK' /\ Progress
  BY <1>1, UnwrittenProgress, BusyFacts DEF Good, Progress, CopyKept
<1>6. NoLostWakeup => NoLostWakeup'
  BY <1>1 DEF NoLostWakeup, Latest
<1> QED BY <1>3, <1>4, <1>5, <1>6 DEF StepOK, Wakes, Good

\* The worker gives up and its key goes back to the queue.
LEMMA ReturnErrorStep ==
    ASSUME NEW fin, NEW rec, ControllerAssumption, Good(fin, rec), ~At("idle"),
           ReturnError, UNCHANGED versions, faults' = faults \/ Fault
    PROVE  StepOK(fin, rec) /\ Wakes
<1>1. worker' = Idle /\ queue' = queue \cup {worker.key}
  BY DEF ReturnError, Finish
<1>2. worker' \in Workers(fin \cup rec \cup ResourceCalls)
  BY <1>1, ObjectFacts DEF Idle, Workers
<1>3. At("idle")' /\ worker'.key = NoKey
  BY <1>1 DEF At, Idle
<1>4. faults' \in 0 .. MaxFaults
  BY DEF Good, ControllerTypeOK, Fault, ControllerAssumption
<1>5. ControllerTypeOK(fin \cup rec \cup ResourceCalls)'
  BY <1>1, <1>2, <1>3, <1>4, BusyFacts DEF Good, ControllerTypeOK
<1>6. CopyOK(fin, rec)'
  BY <1>3 DEF CopyOK
<1>7. HistoryOK' /\ Progress
  BY <1>1, UnwrittenProgress, BusyFacts DEF Good, Progress, CopyKept
<1>8. NoLostWakeup => NoLostWakeup'
  BY <1>1 DEF NoLostWakeup, Latest
<1> QED BY <1>5, <1>6, <1>7, <1>8 DEF StepOK, Wakes, Good

\* One new version of one object: what has to hold of it.
LEMMA WrittenProgress ==
    ASSUME VersionsType, HistoryOK, NEW k \in Keys, NEW obj \in Object, Store(k, obj),
           WellFormed(obj),
           \A i \in 1 .. Len(versions[k]) : Before(versions[k][i], obj),
           Latest(k).uid = obj.uid => PhaseRank[Latest(k).phase] <= PhaseRank[obj.phase],
           \/ Latest(k).exists /\ Latest(k).finalizer
                 => obj.uid = Latest(k).uid /\ obj.exists /\ obj.finalizer
           \/ At("RemoveFinalizer") /\ Me = <<k, Latest(k).uid>>
    PROVE  /\ VersionsType'
           /\ HistoryOK'
           /\ Forward
           /\ HeldOn
           /\ \A j \in Keys : Cached(j).uid <= Cached(j)'.uid
<1>1. VersionsType' /\ HistoryOK'
  BY StoreFacts, StoreHistory
<1>2. Latest(k)' = obj /\ \A j \in Keys \ {k} : Latest(j)' = Latest(j)
  BY StoreFacts
<1>3. \A j \in Keys : Cached(j)' = Cached(j)
  BY StoreFacts
<1>4. \A j \in Keys : Latest(j) \in Object /\ Cached(j) \in Object
  BY VersionFacts
<1>5. \A p \in Phases : PhaseRank[p] \in Nat
  BY DEF PhaseRank, Phases, phaseNone, phasePending, phaseReady, phaseTerminating
<1>6. Forward
  <2> SUFFICES ASSUME NEW j \in Keys, Latest(j)'.uid = Latest(j).uid
               PROVE  PhaseRank[Latest(j).phase] <= PhaseRank[Latest(j)'.phase]
    BY DEF Forward
  <2>1. CASE j = k
    BY <1>2, <2>1
  <2>2. CASE j # k
    <3>1. Latest(j)' = Latest(j) /\ Latest(j).phase \in Phases
      BY <1>2, <1>4, <2>2 DEF Object
    <3>2. PhaseRank[Latest(j).phase] \in Nat
      BY <1>5, <3>1
    <3> QED BY <3>1, <3>2
  <2> QED BY <2>1, <2>2
<1>7. HeldOn
  <2> SUFFICES ASSUME NEW j \in Keys, NEW u \in Nat, Held(<<j, u>>)
               PROVE  Held(<<j, u>>)' \/ (At("RemoveFinalizer") /\ Me = <<j, u>>)
    BY DEF HeldOn
  <2>1. CASE j = k
    BY <1>2, <2>1 DEF Held
  <2>2. CASE j # k
    BY <1>2, <2>2 DEF Held
  <2> QED BY <2>1, <2>2
<1>8. \A j \in Keys : Cached(j).uid <= Cached(j)'.uid
  BY <1>3, <1>4 DEF Object
<1> QED BY <1>1, <1>6, <1>7, <1>8

\* A write of the worker that the API server accepts, with or without an answer.
LEMMA CommitStep ==
    ASSUME NEW fin, NEW rec, NEW obj \in Object, NEW requeue \in BOOLEAN,
           ControllerAssumption, Good(fin, rec), ~At("idle"), ~worker.stale,
           WellFormed(obj),
           \A i \in 1 .. Len(versions[worker.key]) : Before(versions[worker.key][i], obj),
           obj.uid = worker.obj.uid => PhaseRank[worker.obj.phase] <= PhaseRank[obj.phase],
           \/ worker.obj.exists /\ worker.obj.finalizer
                 => obj.uid = worker.obj.uid /\ obj.exists /\ obj.finalizer
           \/ At("RemoveFinalizer"),
           Store(worker.key, obj), Finish(requeue), faults' = faults \/ Fault
    PROVE  StepOK(fin, rec) /\ Wakes
<1> DEFINE k == worker.key
<1>1. k \in Keys /\ VersionsType /\ HistoryOK
  BY BusyFacts DEF Good
<1>2. Latest(k) = worker.obj
  BY DEF Good, CopyOK
<1>3. /\ VersionsType'
      /\ HistoryOK'
      /\ Forward
      /\ HeldOn
      /\ \A j \in Keys : Cached(j).uid <= Cached(j)'.uid
  <2>1. Latest(k).uid = obj.uid => PhaseRank[Latest(k).phase] <= PhaseRank[obj.phase]
    BY <1>2
  <2>2. \/ Latest(k).exists /\ Latest(k).finalizer
              => obj.uid = Latest(k).uid /\ obj.exists /\ obj.finalizer
        \/ At("RemoveFinalizer") /\ Me = <<k, Latest(k).uid>>
    BY <1>2 DEF Me
  <2> QED BY <1>1, <2>1, <2>2, WrittenProgress
<1>4. /\ worker' = Idle
      /\ queue' \subseteq Keys
      /\ queue \subseteq queue'
      /\ faults' \in 0 .. MaxFaults
  BY <1>1 DEF Finish, Fault, Good, ControllerTypeOK, ControllerAssumption
<1>5. worker' \in Workers(fin \cup rec \cup ResourceCalls)
  BY <1>4, ObjectFacts DEF Idle, Workers
<1>6. At("idle")' /\ worker'.key = NoKey
  BY <1>4 DEF At, Idle
<1>7. ControllerTypeOK(fin \cup rec \cup ResourceCalls)' /\ CopyOK(fin, rec)'
  BY <1>3, <1>4, <1>5, <1>6 DEF ControllerTypeOK, VersionsType, CopyOK
<1>8. NoLostWakeup => NoLostWakeup'
  <2> SUFFICES ASSUME NoLostWakeup, NEW j \in Keys, Latest(j)'.exists
               PROVE  j \in queue' \/ Len(versions'[j]) > 1
    BY DEF NoLostWakeup
  <2>1. CASE j = k
    BY <1>1, <2>1, StoreFacts, VersionFacts
  <2>2. CASE j # k
    BY <1>1, <1>4, <2>2, StoreFacts DEF NoLostWakeup
  <2> QED BY <2>1, <2>2
<1> QED BY <1>3, <1>4, <1>7, <1>8 DEF StepOK, Wakes, Good, Progress, CopyKept

\* Save, when the object it writes keeps what the copy had.
LEMMA SaveStep ==
    ASSUME NEW fin, NEW rec, NEW obj \in Object,
           ControllerAssumption, Good(fin, rec), ~At("idle"),
           WellFormed(obj), Keeps(worker.obj, obj),
           PhaseRank[worker.obj.phase] <= PhaseRank[obj.phase],
           Save(obj)
    PROVE  StepOK(fin, rec) /\ Wakes
<1>1. CASE ReturnError /\ UNCHANGED <<versions, faults>>
  BY <1>1, ReturnErrorStep
<1>2. CASE ~worker.stale
  <2>1. /\ worker.key \in Keys
        /\ VersionsType
        /\ HistoryOK
        /\ Latest(worker.key) = worker.obj
        /\ worker.obj \in Object
    BY <1>2, BusyFacts DEF Good, CopyOK
  <2>2. \A i \in 1 .. Len(versions[worker.key]) : Before(versions[worker.key][i], obj)
    BY <2>1, LatestFacts, VersionFacts, KeepsBefore
  <2>3. worker.obj.exists /\ worker.obj.finalizer
          => obj.uid = worker.obj.uid /\ obj.exists /\ obj.finalizer
    BY DEF Keeps
  <2>4. CASE Store(worker.key, obj) /\ ReturnDone /\ faults' = faults
    BY <1>2, <2>2, <2>3, <2>4, CommitStep DEF ReturnDone
  <2>5. CASE Store(worker.key, obj) /\ ReturnError /\ Fault
    BY <1>2, <2>2, <2>3, <2>5, CommitStep DEF ReturnError
  <2> QED BY <1>1, <1>2, <2>4, <2>5 DEF Save
<1> QED BY <1>1, <1>2 DEF Save

\* A write that the API server accepts has an event to follow, and one that it refuses is
\* an error.
LEMMA SaveWakes ==
    ASSUME NEW fin, NEW rec, NEW obj \in Object, Good(fin, rec), ~At("idle"), Save(obj)
    PROVE  Wakes
<1>1. worker.key \in Keys /\ VersionsType
  BY BusyFacts
<1>2. CASE ReturnError /\ UNCHANGED versions
  BY <1>2 DEF ReturnError, Finish, Wakes, NoLostWakeup, Latest
<1>3. CASE Store(worker.key, obj) /\ (ReturnDone \/ ReturnError)
  <2>1. queue \subseteq queue'
    BY <1>3 DEF ReturnDone, ReturnError, Finish
  <2> SUFFICES ASSUME NoLostWakeup, NEW j \in Keys, Latest(j)'.exists
               PROVE  j \in queue' \/ Len(versions'[j]) > 1
    BY DEF Wakes, NoLostWakeup
  <2>2. CASE j = worker.key
    BY <1>1, <1>3, <2>2, StoreFacts, VersionFacts
  <2>3. CASE j # worker.key
    BY <1>1, <1>3, <2>1, <2>3, StoreFacts DEF NoLostWakeup
  <2> QED BY <2>2, <2>3
<1> QED BY <1>2, <1>3 DEF Save

(***************************************************************************)
(* The handlers the three kinds share.                                       *)
(***************************************************************************)
LEMMA Ranks ==
    /\ \A p \in Phases : PhaseRank[p] <= PhaseRank[p]
    /\ \A p \in Phases : PhaseRank[p] <= PhaseRank[phaseTerminating]
    /\ \A p \in {phaseNone, phasePending} : PhaseRank[p] <= PhaseRank[phasePending]
    /\ \A p \in {phaseNone, phasePending, phaseReady} : PhaseRank[p] <= PhaseRank[phaseReady]
BY DEF PhaseRank, Phases, phaseNone, phasePending, phaseReady, phaseTerminating

\* A stamp that changes nothing ends the reconcile without an event to follow.
LEMMA SameSecondStep ==
    ASSUME NEW fin, NEW rec, ControllerAssumption, Good(fin, rec), ~At("idle"),
           SaveSameSecond
    PROVE  StepOK(fin, rec)
<1>1. worker' = Idle /\ queue' = queue /\ UNCHANGED versions /\ SameSecond
  BY DEF SaveSameSecond, ReturnDone, Finish
<1>2. worker' \in Workers(fin \cup rec \cup ResourceCalls)
  BY <1>1, ObjectFacts DEF Idle, Workers
<1>3. At("idle")' /\ worker'.key = NoKey
  BY <1>1 DEF At, Idle
<1>4. faults' \in 0 .. MaxFaults
  BY DEF Good, ControllerTypeOK, SaveSameSecond, Fault, ControllerAssumption
<1>5. ControllerTypeOK(fin \cup rec \cup ResourceCalls)' /\ CopyOK(fin, rec)'
  BY <1>1, <1>2, <1>3, <1>4 DEF Good, ControllerTypeOK, CopyOK
<1>6. HistoryOK' /\ Progress
  BY <1>1, UnwrittenProgress, BusyFacts DEF Good, Progress, CopyKept
<1> QED BY <1>1, <1>5, <1>6 DEF StepOK, Good

\* A new status that does not set the phase back is a sound thing to write.
LEMMA StatusStep ==
    ASSUME NEW fin, NEW rec, ControllerAssumption, Good(fin, rec), ~At("idle"),
           worker.obj.exists, NEW phase \in Phases, NEW conds \in SUBSET Reasons,
           phase = phaseTerminating => worker.obj.deleting,
           phase = phaseReady => reasonFinalizerAdded \in conds,
           PhaseRank[worker.obj.phase] <= PhaseRank[phase],
           Save(WithStatus(worker.obj, phase, conds))
    PROVE  StepOK(fin, rec) /\ Wakes
<1> DEFINE obj == WithStatus(worker.obj, phase, conds)
<1>1. worker.obj \in Object /\ WellFormed(worker.obj)
  BY BusyFacts DEF Good, CopyOK
<1>2. /\ obj.uid = worker.obj.uid
      /\ obj.exists = worker.obj.exists
      /\ obj.deleting = worker.obj.deleting
      /\ obj.finalizer = worker.obj.finalizer
      /\ obj.phase = phase
      /\ obj.conds = conds
  BY DEF WithStatus
<1>3. obj \in Object
  BY <1>1 DEF WithStatus, Object
<1>4. WellFormed(obj) /\ Keeps(worker.obj, obj)
  BY <1>1, <1>2 DEF WellFormed, Initialized, Keeps
<1> QED BY <1>2, <1>3, <1>4, SaveStep

LEMMA MarkTerminatingStep ==
    ASSUME NEW fin, NEW rec, ControllerAssumption, Good(fin, rec), MarkTerminating
    PROVE  StepOK(fin, rec) /\ Wakes
<1>1. ~At("idle") /\ worker.obj \in Object /\ Dying(worker.obj)
  BY BusyFacts DEF MarkTerminating, At, Good, CopyOK
<1>2. /\ worker.obj.phase \in Phases
      /\ worker.obj.conds \in SUBSET Reasons
      /\ phaseTerminating \in Phases
      /\ phaseTerminating # phaseReady
  BY <1>1 DEF Object, Phases, phaseTerminating, phaseReady
<1>3. PhaseRank[worker.obj.phase] <= PhaseRank[phaseTerminating]
  BY <1>2, Ranks
<1> QED BY <1>1, <1>2, <1>3, StatusStep DEF MarkTerminating, Dying

LEMMA MarkInitializedStep ==
    ASSUME NEW fin, NEW rec, ControllerAssumption, Good(fin, rec), MarkInitialized
    PROVE  StepOK(fin, rec) /\ Wakes
<1>1. /\ ~At("idle")
      /\ worker.obj \in Object
      /\ WellFormed(worker.obj)
      /\ Live(worker.obj)
      /\ ~Initialized(worker.obj)
  BY BusyFacts DEF MarkInitialized, At, Good, CopyOK
<1>2. /\ {reasonFinalizerAdded} \in SUBSET Reasons
      /\ phasePending \in Phases
      /\ phasePending # phaseReady
      /\ phasePending # phaseTerminating
  BY DEF Phases, Reasons, phasePending, phaseReady, phaseTerminating
<1>3. worker.obj.phase \in {phaseNone, phasePending}
  BY <1>1 DEF WellFormed, Live, Object, Phases
<1>4. PhaseRank[worker.obj.phase] <= PhaseRank[phasePending]
  BY <1>3, Ranks
<1> QED BY <1>1, <1>2, <1>4, StatusStep DEF MarkInitialized, Live

LEMMA MarkDeletedStep ==
    ASSUME NEW fin, NEW rec, ControllerAssumption, Classes(fin, rec), Good(fin, rec),
           MarkDeleted
    PROVE  /\ StepOK(fin, rec)
           /\ reasonDeleted \notin worker.obj.conds => Wakes
<1>1. /\ ~At("idle")
      /\ worker.obj \in Object
      /\ WellFormed(worker.obj)
      /\ Dying(worker.obj)
  BY BusyFacts DEF MarkDeleted, At, Good, CopyOK, Classes
<1>2. CASE reasonDeleted \in worker.obj.conds /\ SaveSameSecond
  BY <1>1, <1>2, SameSecondStep
<1>3. CASE Save(WithStatus(worker.obj, worker.obj.phase, worker.obj.conds \cup {reasonDeleted}))
  <2>1. /\ worker.obj.phase \in Phases
        /\ worker.obj.conds \cup {reasonDeleted} \in SUBSET Reasons
    BY <1>1 DEF Object, Reasons
  <2>2. PhaseRank[worker.obj.phase] <= PhaseRank[worker.obj.phase]
    BY <2>1, Ranks
  <2> QED BY <1>1, <1>3, <2>1, <2>2, StatusStep DEF WellFormed, Dying, Initialized
<1> QED BY <1>2, <1>3 DEF MarkDeleted, SaveCondition

LEMMA MarkCreatedStep ==
    ASSUME NEW fin, NEW rec, ControllerAssumption, Classes(fin, rec), Good(fin, rec),
           MarkCreated
    PROVE  StepOK(fin, rec)
<1> DEFINE phase == IF reasonCreated \in worker.obj.conds THEN worker.obj.phase ELSE phaseReady
<1>1. /\ ~At("idle")
      /\ worker.obj \in Object
      /\ WellFormed(worker.obj)
      /\ Live(worker.obj)
      /\ Initialized(worker.obj)
  BY BusyFacts DEF MarkCreated, At, Good, CopyOK, Classes
<1>2. CASE reasonCreated \in worker.obj.conds /\ SaveSameSecond
  BY <1>1, <1>2, SameSecondStep
<1>3. CASE Save(WithStatus(worker.obj, phase, worker.obj.conds \cup {reasonCreated}))
  <2>1. /\ worker.obj.phase \in {phaseNone, phasePending, phaseReady}
        /\ worker.obj.conds \cup {reasonCreated} \in SUBSET Reasons
    BY <1>1 DEF Object, Reasons, Phases, WellFormed, Live
  <2>2. phase \in {worker.obj.phase, phaseReady}
    OBVIOUS
  <2>3. PhaseRank[worker.obj.phase] <= PhaseRank[phase]
    <3>1. CASE phase = phaseReady
      BY <2>1, <3>1, Ranks
    <3>2. CASE phase = worker.obj.phase
      BY <1>1, <3>2, Ranks DEF Object
    <3> QED BY <2>2, <3>1, <3>2
  <2>4. phase \in Phases /\ phase # phaseTerminating
    BY <2>1, <2>2 DEF Phases, phaseNone, phasePending, phaseReady, phaseTerminating
  <2> QED BY <1>1, <1>3, <2>1, <2>3, <2>4, StatusStep DEF Live, Initialized
<1> QED BY <1>2, <1>3 DEF MarkCreated, SaveCondition

LEMMA PutFinalizerStep ==
    ASSUME NEW fin, NEW rec, ControllerAssumption, Good(fin, rec), PutFinalizer
    PROVE  StepOK(fin, rec) /\ Wakes
<1> DEFINE obj == [worker.obj EXCEPT !.finalizer = TRUE]
<1>1. ~At("idle") /\ worker.obj \in Object /\ WellFormed(worker.obj) /\ Live(worker.obj)
  BY BusyFacts DEF PutFinalizer, At, Good, CopyOK
<1>2. obj \in Object /\ WellFormed(obj) /\ Keeps(worker.obj, obj)
  BY <1>1 DEF Object, WellFormed, Initialized, Keeps, Live
<1>3. obj.phase = worker.obj.phase /\ worker.obj.phase \in Phases
  BY <1>1 DEF Object
<1>4. PhaseRank[worker.obj.phase] <= PhaseRank[obj.phase]
  BY <1>3, Ranks
<1> QED BY <1>1, <1>2, <1>4, SaveStep DEF PutFinalizer

\* The finalizer is removed from a copy that says "deleting", so that every version
\* that is still in the cache says so too.
LEMMA DropFinalizerStep ==
    ASSUME NEW fin, NEW rec, ControllerAssumption, Classes(fin, rec), Good(fin, rec),
           DropFinalizer
    PROVE  StepOK(fin, rec) /\ Wakes
<1> DEFINE obj == Gone(worker.obj)
           k == worker.key
<1>1. /\ ~At("idle")
      /\ At("RemoveFinalizer")
      /\ worker.obj \in Object
      /\ WellFormed(worker.obj)
      /\ Dying(worker.obj)
      /\ k \in Keys
      /\ VersionsType
      /\ HistoryOK
  BY BusyFacts DEF DropFinalizer, At, Good, CopyOK, Classes
<1>2. CASE ReturnError /\ UNCHANGED <<versions, faults>>
  BY <1>1, <1>2, ReturnErrorStep
<1>3. CASE ~worker.stale
  <2>1. obj \in Object /\ obj.phase = worker.obj.phase /\ WellFormed(obj)
    <3>1. obj \in Object
      BY <1>1, ObjectFacts
    <3> QED BY <1>1, <3>1 DEF Gone, WellFormed, Dying, Initialized
  <2>2. \A i \in 1 .. Len(versions[k]) : Before(versions[k][i], obj)
    <3> SUFFICES ASSUME NEW i \in 1 .. Len(versions[k])
                 PROVE  Before(versions[k][i], obj)
      OBVIOUS
    <3> DEFINE a == versions[k][i]
    <3>1. a \in Object
      BY <1>1, VersionFacts
    <3>2. Before(a, worker.obj)
      BY <1>1, <1>3, LatestFacts DEF Good, CopyOK
    <3>3. Before(worker.obj, a)
      BY <1>1 DEF Good, CopyOK
    <3>4. ~(Live(a) /\ a.finalizer)
      BY <1>1, <3>2, <3>3 DEF Before, Dying, Live
    <3> QED BY <1>1, <3>1, <3>2, <3>4, GoneBefore DEF Dying
  <2>3. PhaseRank[worker.obj.phase] <= PhaseRank[obj.phase]
    <3>1. worker.obj.phase \in Phases
      BY <1>1 DEF Object
    <3> QED BY <2>1, <3>1, Ranks
  <2>4. CASE Store(k, obj) /\ ReturnDone /\ faults' = faults
    BY <1>1, <1>3, <2>1, <2>2, <2>3, <2>4, CommitStep DEF ReturnDone
  <2>5. CASE Store(k, obj) /\ ReturnError /\ Fault
    BY <1>1, <1>3, <2>1, <2>2, <2>3, <2>5, CommitStep DEF ReturnError
  <2> QED BY <1>2, <1>3, <2>4, <2>5 DEF Save, DropFinalizer
<1> QED BY <1>2, <1>3 DEF Save, DropFinalizer

(***************************************************************************)
(* The queue, the informer and the users.                                    *)
(***************************************************************************)
LEMMA FirstCallFacts ==
    ASSUME NEW obj \in Object, WellFormed(obj)
    PROVE  LET call == FirstCall(obj) IN
           /\ call \in {"idle", "FinalizeResources", "ReconcileResources"} \cup ResourceCalls
           /\ call \in {"FinalizeStatus", "FinalizeResources"} => Dying(obj)
           /\ call \in {"AddFinalizer", "InitializeStatus", "ReconcileResources"} => Live(obj)
           /\ call \in {"InitializeStatus", "ReconcileResources"} => obj.finalizer
           /\ call = "ReconcileResources" => Initialized(obj)
           /\ call = "InitializeStatus" => ~Initialized(obj)
           /\ call = "idle" => ~obj.exists
BY DEF FirstCall, ResourceCalls, Dying, Live, WellFormed, Object

LEMMA DispatchStep ==
    ASSUME NEW fin, NEW rec, ControllerAssumption, Classes(fin, rec), Good(fin, rec),
           NEW k \in Keys, Dispatch(k)
    PROVE  StepOK(fin, rec) /\ Wakes
<1> DEFINE obj == Cached(k)
           call == FirstCall(obj)
<1>1. /\ VersionsType
      /\ HistoryOK
      /\ obj \in Object
      /\ WellFormed(obj)
      /\ Len(versions[k]) \in Nat \ {0}
  <2>1. VersionsType /\ HistoryOK
    BY BusyFacts DEF Good
  <2>2. Len(versions[k]) \in Nat \ {0} /\ obj \in Object
    BY <2>1, VersionFacts
  <2> QED BY <2>1, <2>2, LatestFacts DEF Cached
<1>2. UNCHANGED versions /\ faults' = faults /\ queue' = queue \ {k}
  BY DEF Dispatch
<1>3. HistoryOK' /\ Forward /\ HeldOn /\ \A j \in Keys : Cached(j).uid <= Cached(j)'.uid
  BY <1>1, <1>2, UnwrittenProgress
<1>4. CASE call = "idle"
  <2>1. worker' = Idle
    BY <1>4 DEF Dispatch
  <2>2. worker' \in Workers(fin \cup rec \cup ResourceCalls) /\ At("idle")' /\ worker'.key = NoKey
    BY <2>1, ObjectFacts DEF Idle, Workers, At
  <2>3. ControllerTypeOK(fin \cup rec \cup ResourceCalls)' /\ CopyOK(fin, rec)'
    BY <1>2, <2>2 DEF Good, ControllerTypeOK, CopyOK
  <2>4. ~obj.exists
    BY <1>1, <1>4, FirstCallFacts
  <2>5. NoLostWakeup => NoLostWakeup'
    <3> SUFFICES ASSUME NoLostWakeup, NEW j \in Keys, Latest(j).exists
                 PROVE  j \in queue' \/ Len(versions[j]) > 1
      BY <1>2 DEF NoLostWakeup, Latest
    <3>1. worker.key # j
      BY BusyFacts DEF Dispatch, ControllerAssumption
    <3>2. CASE j = k
      <4>1. Latest(k) # obj
        BY <2>4, <3>2
      <4>2. Len(versions[k]) # 1
        BY <4>1 DEF Latest, Cached
      <4>3. \A n \in Nat \ {0} : n # 1 => n > 1
        OBVIOUS
      <4>4. Len(versions[k]) > 1
        BY <1>1, <4>2, <4>3
      <4> QED BY <3>2, <4>4
    <3>3. CASE j # k
      BY <1>2, <3>1, <3>3 DEF NoLostWakeup
    <3> QED BY <3>2, <3>3
  <2> QED BY <1>3, <2>1, <2>3, <2>5 DEF StepOK, Wakes, Good, Progress, CopyKept
<1>5. CASE call # "idle"
  <2>1. worker' = [pc |-> call, key |-> k, obj |-> obj, stale |-> Len(versions[k]) > 1]
    BY <1>5 DEF Dispatch
  <2>2. /\ worker'.pc = call
        /\ worker'.key = k
        /\ worker'.obj = obj
        /\ worker'.stale = (Len(versions[k]) > 1)
    BY <2>1
  <2>3. call \in {"FinalizeResources", "ReconcileResources"} \cup ResourceCalls
    BY <1>1, <1>5, FirstCallFacts
  <2>4. worker' \in Workers(fin \cup rec \cup ResourceCalls) /\ ~At("idle")' /\ k # NoKey
    BY <1>1, <1>5, <2>1, <2>3 DEF Workers, At, Classes, ControllerAssumption
  <2>5. ControllerTypeOK(fin \cup rec \cup ResourceCalls)'
    BY <1>2, <2>2, <2>4 DEF Good, ControllerTypeOK
  <2>6. \A i \in 1 .. Len(versions[k]) : Before(obj, versions[k][i])
    BY <1>1, LatestFacts
  <2>7. ~(Len(versions[k]) > 1) => obj = Latest(k)
    BY <1>1 DEF Latest, Cached
  <2>8. /\ call \in fin \cup {"FinalizeStatus"} => Dying(obj)
        /\ call \in rec \cup {"AddFinalizer", "InitializeStatus"} => Live(obj)
        /\ call \in rec \cup {"InitializeStatus"} => obj.finalizer
        /\ call \in rec => Initialized(obj)
        /\ call = "InitializeStatus" => ~Initialized(obj)
    BY <1>1, <2>3, FirstCallFacts DEF Classes, ResourceCalls
  <2>9. CopyOK(fin, rec)'
    BY <1>1, <1>2, <2>2, <2>3, <2>6, <2>7, <2>8 DEF CopyOK, Classes, ResourceCalls, At,
       Latest, WellFormed, Before, Live, Dying, Initialized
  <2>10. CopyKept
    BY <2>2, <2>3 DEF CopyKept, ResourceCalls
  <2>11. NoLostWakeup => NoLostWakeup'
    <3>1. \A j \in Keys : worker.key # j
      BY BusyFacts DEF Dispatch, ControllerAssumption
    <3> QED BY <1>2, <2>2, <3>1 DEF NoLostWakeup, Latest
  <2> QED BY <1>3, <2>5, <2>9, <2>10, <2>11 DEF StepOK, Wakes, Good, Progress
<1> QED BY <1>4, <1>5

LEMMA DeliverStep ==
    ASSUME NEW fin, NEW rec, ControllerAssumption, Good(fin, rec), NEW k \in Keys, Deliver(k)
    PROVE  StepOK(fin, rec) /\ Wakes
<1>1. VersionsType /\ HistoryOK /\ Len(versions[k]) \in Nat \ {0}
  BY BusyFacts, VersionFacts DEF Good
<1>2. UNCHANGED <<worker, faults>> /\ queue' = queue \cup {k}
  BY DEF Deliver
<1>3. VersionsType' /\ HistoryOK'
  BY <1>1, DeliverFacts, DeliverHistory
<1>4. \A j \in Keys : Latest(j)' = Latest(j)
  BY <1>1, DeliverFacts
<1>5. \A j \in Keys : Cached(j).uid <= Cached(j)'.uid
  <2> SUFFICES ASSUME NEW j \in Keys
               PROVE  Cached(j).uid <= Cached(j)'.uid
    OBVIOUS
  <2>1. CASE j = k
    <3>1. 2 \in 1 .. Len(versions[k])
      BY <1>1 DEF Deliver
    <3> QED BY <1>1, <2>1, <3>1, DeliverFacts, LatestFacts DEF Before
  <2>2. CASE j # k
    BY <1>1, <2>2, DeliverFacts, VersionFacts DEF Object
  <2> QED BY <2>1, <2>2
<1>6. Forward /\ HeldOn /\ CopyKept
  <2>1. Forward
    BY <1>1, <1>4, VersionFacts, Ranks DEF Forward, Object
  <2>2. HeldOn
    BY <1>4 DEF HeldOn, Held
  <2> QED BY <1>2, <2>1, <2>2 DEF CopyKept
<1>7. ControllerTypeOK(fin \cup rec \cup ResourceCalls)'
  BY <1>2, <1>3 DEF Good, ControllerTypeOK, VersionsType, At
<1>8. CopyOK(fin, rec)'
  <2>1. ASSUME ~At("idle"), NEW i \in 1 .. Len(versions'[worker.key])
        PROVE  Before(worker.obj, versions'[worker.key][i])
    <3>1. \A j \in 1 .. Len(versions[worker.key]) : Before(worker.obj, versions[worker.key][j])
      BY <2>1 DEF Good, CopyOK
    <3>2. CASE worker.key = k
      <4>1. i + 1 \in 1 .. Len(versions[k]) /\ versions'[k][i] = versions[k][i + 1]
        BY <1>1, <3>2, DeliverFacts
      <4> QED BY <3>1, <3>2, <4>1
    <3>3. CASE worker.key # k
      <4>1. versions'[worker.key] = versions[worker.key]
        BY <1>1, <2>1, <3>3, DeliverFacts, BusyFacts
      <4> QED BY <3>1, <4>1
    <3> QED BY <3>2, <3>3
  <2>2. ~At("idle") => Latest(worker.key)' = Latest(worker.key)
    BY <1>4, BusyFacts, <1>2
  <2> QED BY <1>2, <2>1, <2>2 DEF Good, CopyOK, At, WellFormed, Before, Live, Dying, Initialized
<1>9. NoLostWakeup => NoLostWakeup'
  <2> SUFFICES ASSUME NoLostWakeup, NEW j \in Keys, Latest(j)'.exists
               PROVE  j \in queue' \/ worker'.key = j \/ Len(versions'[j]) > 1
    BY DEF NoLostWakeup
  <2> QED BY <1>1, <1>2, <1>4, DeliverFacts DEF NoLostWakeup
<1> QED BY <1>3, <1>5, <1>6, <1>7, <1>8, <1>9 DEF StepOK, Wakes, Good, Progress

\* A user changes the object: whatever precedes its latest version precedes the new
\* one, the worker's copy included, which is now stale.
LEMMA UserStep ==
    ASSUME NEW fin, NEW rec, NEW k \in Keys, NEW obj \in Object,
           ControllerAssumption, Good(fin, rec), WellFormed(obj),
           \A a \in Object : Before(a, Latest(k)) => Before(a, obj),
           Latest(k).uid = obj.uid => PhaseRank[Latest(k).phase] <= PhaseRank[obj.phase],
           Latest(k).exists /\ Latest(k).finalizer
               => obj.uid = Latest(k).uid /\ obj.exists /\ obj.finalizer,
           Store(k, obj), Outdate(k), queue' = queue, faults' = faults \/ Fault
    PROVE  StepOK(fin, rec) /\ Wakes
<1>1. /\ VersionsType
      /\ HistoryOK
      /\ Len(versions[k]) \in Nat \ {0}
      /\ worker.obj \in Object
      /\ \A i \in 1 .. Len(versions[k]) : versions[k][i] \in Object
  BY BusyFacts, VersionFacts DEF Good
<1>2. \A i \in 1 .. Len(versions[k]) : Before(versions[k][i], obj)
  BY <1>1, LatestFacts
<1>3. /\ VersionsType'
      /\ HistoryOK'
      /\ Forward
      /\ HeldOn
      /\ \A j \in Keys : Cached(j).uid <= Cached(j)'.uid
  BY <1>1, <1>2, WrittenProgress
<1>4. /\ worker'.pc = worker.pc
      /\ worker'.key = worker.key
      /\ worker'.obj = worker.obj
      /\ worker' \in Workers(fin \cup rec \cup ResourceCalls)
      /\ worker'.key = k => worker'.stale
      /\ worker'.key # k => worker'.stale = worker.stale
  BY DEF Outdate, Good, ControllerTypeOK, Workers
<1>5. faults' \in 0 .. MaxFaults
  BY DEF Good, ControllerTypeOK, Fault, ControllerAssumption
<1>6. ControllerTypeOK(fin \cup rec \cup ResourceCalls)'
  BY <1>3, <1>4, <1>5 DEF Good, ControllerTypeOK, VersionsType, At
<1>7. ASSUME ~At("idle")
      PROVE  CopyOK(fin, rec)'
  <2>1. worker.key \in Keys
    BY <1>7, BusyFacts
  <2>2. Before(worker.obj, Latest(worker.key))
    BY <1>7, <2>1, <1>1, VersionFacts DEF Good, CopyOK, Latest
  <2>3. ASSUME NEW i \in 1 .. Len(versions'[worker.key])
        PROVE  Before(worker.obj, versions'[worker.key][i])
    <3>1. \A j \in 1 .. Len(versions[worker.key]) : Before(worker.obj, versions[worker.key][j])
      BY <1>7 DEF Good, CopyOK
    <3>2. CASE worker.key # k
      <4>1. versions'[worker.key] = versions[worker.key]
        BY <1>1, <2>1, <3>2, StoreFacts
      <4> QED BY <3>1, <4>1
    <3>3. CASE worker.key = k /\ i \in 1 .. Len(versions[k])
      <4>1. versions'[k][i] = versions[k][i]
        BY <1>1, <3>3, StoreFacts
      <4> QED BY <3>1, <3>3, <4>1
    <3>4. CASE worker.key = k /\ i = Len(versions[k]) + 1
      <4>1. versions'[k][i] = obj
        BY <1>1, <3>4, StoreFacts
      <4> QED BY <1>1, <2>2, <3>4, <4>1
    <3>5. worker.key = k => i \in 1 .. Len(versions[k]) \/ i = Len(versions[k]) + 1
      BY <1>1, StoreFacts
    <3> QED BY <3>2, <3>3, <3>4, <3>5
  <2>4. worker.key # k => versions'[worker.key] = versions[worker.key]
    BY <1>1, <2>1, StoreFacts
  <2> QED
    BY <1>4, <1>7, <2>3, <2>4 DEF Good, CopyOK, At, Latest, WellFormed, Before, Live,
       Dying, Initialized
<1>8. CopyOK(fin, rec)'
  BY <1>4, <1>7 DEF CopyOK, At
<1>9. NoLostWakeup => NoLostWakeup'
  <2> SUFFICES ASSUME NoLostWakeup, NEW j \in Keys, Latest(j)'.exists
               PROVE  j \in queue' \/ worker'.key = j \/ Len(versions'[j]) > 1
    BY DEF NoLostWakeup
  <2>1. CASE j = k
    BY <1>1, <2>1, StoreFacts
  <2>2. CASE j # k
    BY <1>1, <1>4, <2>2, StoreFacts DEF NoLostWakeup
  <2> QED BY <2>1, <2>2
<1> QED BY <1>3, <1>4, <1>6, <1>8, <1>9 DEF StepOK, Wakes, Good, Progress, CopyKept

LEMMA UserCreateStep ==
    ASSUME NEW fin, NEW rec, ControllerAssumption, Good(fin, rec),
           NEW k \in Keys, UserCreate(k)
    PROVE  StepOK(fin, rec) /\ Wakes
<1> DEFINE old == Latest(k)
           obj == NewObject(old.uid + 1)
<1>1. old \in Object /\ old.uid \in Nat
  BY BusyFacts, VersionFacts DEF Object
<1>2. obj \in Object /\ WellFormed(obj) /\ obj.uid = old.uid + 1
  <2>1. old.uid + 1 \in Nat
    BY <1>1
  <2> QED BY <2>1, ObjectFacts DEF NewObject
<1>3. \A a \in Object : Before(a, old) => Before(a, obj)
  BY <1>1, NewBefore DEF UserCreate
<1>4. old.uid # obj.uid
  BY <1>1, <1>2
<1> QED BY <1>1, <1>2, <1>3, <1>4, UserStep DEF UserCreate

LEMMA UserDeleteStep ==
    ASSUME NEW fin, NEW rec, ControllerAssumption, Good(fin, rec),
           NEW k \in Keys, UserDelete(k)
    PROVE  StepOK(fin, rec) /\ Wakes
<1> DEFINE old == Latest(k)
           obj == IF old.finalizer THEN [old EXCEPT !.deleting = TRUE] ELSE Gone(old)
<1>1. old \in Object /\ WellFormed(old) /\ old.exists
  BY BusyFacts, VersionFacts, LatestFacts DEF Good, UserDelete
<1>2. /\ obj \in Object
      /\ obj.uid = old.uid
      /\ obj.phase = old.phase
      /\ WellFormed(obj)
      /\ old.finalizer => obj.exists /\ obj.finalizer
  BY <1>1, ObjectFacts DEF Object, Gone, WellFormed, Initialized
<1>3. \A a \in Object : Before(a, old) => Before(a, obj)
  <2> SUFFICES ASSUME NEW a \in Object, Before(a, old)
               PROVE  Before(a, obj)
    OBVIOUS
  <2>1. CASE old.finalizer
    BY <1>1, <1>2, <2>1, KeepsBefore DEF Keeps, Object
  <2>2. CASE ~old.finalizer
    <3>1. ~(Live(a) /\ a.finalizer)
      BY <1>1, <2>2 DEF Before
    <3> QED BY <1>1, <2>2, <3>1, GoneBefore
  <2> QED BY <2>1, <2>2
<1>4. PhaseRank[old.phase] <= PhaseRank[obj.phase]
  BY <1>1, <1>2, Ranks DEF Object
<1>5. Store(k, obj) /\ Outdate(k) /\ queue' = queue /\ faults' = faults
  BY DEF UserDelete
<1> QED BY <1>1, <1>2, <1>3, <1>4, <1>5, UserStep

LEMMA UserEditStep ==
    ASSUME NEW fin, NEW rec, ControllerAssumption, Good(fin, rec),
           NEW k \in Keys, UserEdit(k)
    PROVE  StepOK(fin, rec) /\ Wakes
<1>1. Latest(k) \in Object /\ WellFormed(Latest(k))
  BY BusyFacts, VersionFacts, LatestFacts DEF Good
<1>2. PhaseRank[Latest(k).phase] <= PhaseRank[Latest(k).phase]
  BY <1>1, Ranks DEF Object
<1> QED BY <1>1, <1>2, UserStep DEF UserEdit

LEMMA CallFailsStep ==
    ASSUME NEW fin, NEW rec, ControllerAssumption, Good(fin, rec), CallFails
    PROVE  StepOK(fin, rec) /\ Wakes
BY ReturnErrorStep DEF CallFails

LEMMA RestartStep ==
    ASSUME NEW fin, NEW rec, ControllerAssumption, Good(fin, rec), RestartController, Fault
    PROVE  StepOK(fin, rec) /\ Wakes
<1>1. VersionsType /\ HistoryOK
  BY BusyFacts DEF Good
<1>2. /\ versions' = [k \in Keys |-> <<Latest(k)>>]
      /\ queue' = {k \in Keys : Latest(k).exists}
      /\ worker' = Idle
  BY DEF RestartController
<1>3. \A k \in Keys :
         /\ Latest(k) \in Object
         /\ WellFormed(Latest(k))
         /\ Before(Cached(k), Latest(k))
  BY <1>1, VersionFacts, LatestFacts
<1>4. \A k \in Keys :
         /\ versions'[k] = <<Latest(k)>>
         /\ Len(versions'[k]) = 1
         /\ versions'[k][1] = Latest(k)
         /\ Latest(k)' = Latest(k)
         /\ Cached(k)' = Latest(k)
  BY <1>2 DEF Latest, Cached
<1>5. VersionsType'
  <2>1. \A k \in Keys : <<Latest(k)>> \in Seq(Object) \ {<<>>}
    BY <1>3, SingletonSeq
  <2> QED BY <1>2, <2>1 DEF VersionsType
<1>6. HistoryOK'
  <2> SUFFICES ASSUME NEW k \in Keys, NEW j \in 1 .. Len(versions'[k])
               PROVE  /\ WellFormed(versions'[k][j])
                      /\ \A i \in 1 .. j : Before(versions'[k][i], versions'[k][j])
    BY DEF HistoryOK, WellFormed, Before, Live, Initialized
  <2>1. j \in 1 .. 1
    BY <1>4
  <2>2. j = 1
    BY <2>1
  <2> QED BY <1>3, <1>4, <2>2, BeforeReflexive
<1>7. worker' \in Workers(fin \cup rec \cup ResourceCalls) /\ At("idle")' /\ worker'.key = NoKey
  BY <1>2, ObjectFacts DEF Idle, Workers, At
<1>8. faults' \in 0 .. MaxFaults
  BY DEF Good, ControllerTypeOK, Fault, ControllerAssumption
<1>9. ControllerTypeOK(fin \cup rec \cup ResourceCalls)' /\ CopyOK(fin, rec)'
  BY <1>2, <1>5, <1>7, <1>8 DEF ControllerTypeOK, VersionsType, CopyOK
<1>10. Progress
  <2>1. Forward
    BY <1>3, <1>4, Ranks DEF Forward, Object
  <2>2. HeldOn
    BY <1>4 DEF HeldOn, Held
  <2>3. \A k \in Keys : Cached(k).uid <= Cached(k)'.uid
    BY <1>3, <1>4 DEF Before
  <2> QED BY <1>2, <2>1, <2>2, <2>3 DEF Progress, CopyKept
<1>11. NoLostWakeup'
  BY <1>2, <1>4 DEF NoLostWakeup
<1> QED BY <1>6, <1>9, <1>10, <1>11 DEF StepOK, Wakes, Good

\* One version of every object, and a worker that has not begun.
LEMMA StartGood ==
    ASSUME NEW fin, NEW rec, NEW obj \in Object, WellFormed(obj),
           versions = [k \in Keys |-> <<obj>>], queue \subseteq Keys, worker = Idle,
           faults \in 0 .. MaxFaults
    PROVE  Good(fin, rec)
<1>1. \A k \in Keys : versions[k] = <<obj>> /\ Len(versions[k]) = 1 /\ versions[k][1] = obj
  OBVIOUS
<1>2. HistoryOK
  <2> SUFFICES ASSUME NEW k \in Keys, NEW j \in 1 .. Len(versions[k])
               PROVE  /\ WellFormed(versions[k][j])
                      /\ \A i \in 1 .. j : Before(versions[k][i], versions[k][j])
    BY DEF HistoryOK
  <2>1. j \in 1 .. 1
    BY <1>1
  <2>2. j = 1
    BY <2>1
  <2> QED BY <1>1, <2>2, BeforeReflexive
<1>3. worker \in Workers(fin \cup rec \cup ResourceCalls) /\ At("idle") /\ worker.key = NoKey
  BY ObjectFacts DEF Idle, Workers, At
<1>4. versions \in [Keys -> Seq(Object) \ {<<>>}]
  <2>1. <<obj>> \in Seq(Object) \ {<<>>}
    BY SingletonSeq
  <2> QED BY <2>1
<1>5. ControllerTypeOK(fin \cup rec \cup ResourceCalls) /\ CopyOK(fin, rec)
  BY <1>3, <1>4 DEF ControllerTypeOK, CopyOK
<1> QED BY <1>2, <1>5 DEF Good

LEMMA InitGood ==
    ASSUME NEW fin, NEW rec, ControllerAssumption, ControllerInit
    PROVE  Good(fin, rec) /\ NoLostWakeup
<1>1. NoObject \in Object /\ WellFormed(NoObject) /\ ~NoObject.exists
  BY ObjectFacts DEF NoObject, Gone
<1>2. Good(fin, rec)
  BY <1>1, StartGood DEF ControllerInit, ControllerAssumption
<1>3. \A k \in Keys : Latest(k) = NoObject
  BY DEF ControllerInit, Latest
<1> QED BY <1>1, <1>2, <1>3 DEF NoLostWakeup

(***************************************************************************)
(* What a step writes.                                                       *)
(***************************************************************************)
\* A write of the worker that is accepted replaces the version it has copied.
LEMMA SaveFacts ==
    ASSUME NEW fin, NEW rec, Good(fin, rec), ~At("idle"), NEW obj, Save(obj)
    PROVE  \/ UNCHANGED versions
           \/ Store(worker.key, obj) /\ worker.obj = Latest(worker.key)
BY DEF Save, Good, CopyOK

\* The status of a new version: users leave it alone, and a handler of the worker knows
\* what it replaces.
Stated(k, obj) ==
    \/ obj.phase = Latest(k).phase /\ obj.conds = Latest(k).conds
    \/ /\ worker.key = k
       /\ worker.obj = Latest(k)
       /\ \/ At("FinalizeStatus") /\ obj.phase = phaseTerminating /\ obj.conds = Latest(k).conds
          \/ At("InitializeStatus") /\ obj.phase = phasePending /\ obj.conds = {reasonFinalizerAdded}
          \/ /\ At("DeletedStatus")
             /\ obj.phase = Latest(k).phase
             /\ obj.conds = Latest(k).conds \cup {reasonDeleted}
          \/ /\ At("CreatedStatus")
             /\ obj.phase \in {Latest(k).phase, phaseReady}
             /\ obj.conds = Latest(k).conds \cup {reasonCreated}

Written(k, obj) ==
    \/ ~Latest(k).exists /\ obj = NewObject(Latest(k).uid + 1)
    \/ Latest(k).exists /\ obj.uid = Latest(k).uid /\ Stated(k, obj)

\* The versions change by one of these and in no other way.
Writes ==
    \/ UNCHANGED versions
    \/ RestartController
    \/ \E k \in Keys : Deliver(k)
    \/ \E k \in Keys, obj \in Object : Store(k, obj) /\ Written(k, obj)

\* What is left of that for the worker: it creates nothing.
Rewrites ==
    \/ UNCHANGED versions
    \/ \E k \in Keys, obj \in Object :
          Store(k, obj) /\ Latest(k).exists /\ obj.uid = Latest(k).uid /\ Written(k, obj)

LEMMA UserWrites ==
    ASSUME VersionsType, NEW k \in Keys, UserCreate(k) \/ UserDelete(k) \/ UserEdit(k)
    PROVE  Writes /\ (Rewrites \/ UserCreate(k))
<1>0. Rewrites => Writes
  BY DEF Rewrites, Writes
<1>1. Latest(k) \in Object /\ Latest(k).uid + 1 \in Nat
  BY VersionFacts DEF Object
<1>2. CASE UserCreate(k)
  <2>1. NewObject(Latest(k).uid + 1) \in Object
    BY <1>1, ObjectFacts
  <2> QED BY <1>2, <2>1 DEF UserCreate, Writes, Written
<1>3. CASE UserDelete(k)
  <2>1. PICK obj : Store(k, obj) /\ obj \in {[Latest(k) EXCEPT !.deleting = TRUE], Gone(Latest(k))}
    BY <1>3 DEF UserDelete
  <2>2. obj \in Object /\ obj.uid = Latest(k).uid /\ obj.phase = Latest(k).phase
        /\ obj.conds = Latest(k).conds
    <3>1. CASE obj = [Latest(k) EXCEPT !.deleting = TRUE]
      BY <1>1, <3>1 DEF Object
    <3>2. CASE obj = Gone(Latest(k))
      BY <1>1, <3>2, ObjectFacts DEF Gone
    <3> QED BY <2>1, <3>1, <3>2
  <2>3. Written(k, obj)
    BY <1>3, <2>2 DEF UserDelete, Written, Stated
  <2> QED BY <1>0, <1>3, <2>1, <2>2, <2>3 DEF UserDelete, Rewrites
<1>4. CASE UserEdit(k)
  BY <1>0, <1>1, <1>4 DEF UserEdit, Rewrites, Written, Stated
<1> QED BY <1>2, <1>3, <1>4

LEMMA SaveWrites ==
    ASSUME NEW fin, NEW rec, Good(fin, rec), ~At("idle"), NEW obj \in Object, Save(obj),
           worker.obj.exists, obj.uid = worker.obj.uid,
           worker.obj = Latest(worker.key) => Stated(worker.key, obj)
    PROVE  Rewrites
<1>1. worker.key \in Keys
  BY BusyFacts
<1> QED BY <1>1, SaveFacts DEF Rewrites, Written

LEMMA HandlerWrites ==
    ASSUME NEW fin, NEW rec, Classes(fin, rec), Good(fin, rec),
           \/ MarkTerminating \/ MarkInitialized \/ MarkDeleted \/ MarkCreated
           \/ PutFinalizer \/ DropFinalizer
    PROVE  Writes /\ Rewrites
<1>0. Rewrites => Writes
  BY DEF Rewrites, Writes
<1>1. /\ ~At("idle")
      /\ worker.obj \in Object
      /\ worker.obj.exists
  BY BusyFacts DEF MarkTerminating, MarkInitialized, MarkDeleted, MarkCreated, PutFinalizer,
     DropFinalizer, At, Good, CopyOK, Classes, Dying, Live
<1>2. /\ {phasePending, phaseReady, phaseTerminating, worker.obj.phase} \subseteq Phases
      /\ {reasonFinalizerAdded, reasonCreated, reasonDeleted} = Reasons
      /\ worker.obj.conds \in SUBSET Reasons
  BY <1>1 DEF Phases, Reasons, Object
<1>3. ASSUME NEW phase \in Phases, NEW conds \in SUBSET Reasons
      PROVE  /\ WithStatus(worker.obj, phase, conds) \in Object
             /\ WithStatus(worker.obj, phase, conds).uid = worker.obj.uid
             /\ WithStatus(worker.obj, phase, conds).phase = phase
             /\ WithStatus(worker.obj, phase, conds).conds = conds
  BY <1>1 DEF WithStatus, Object
<1>4. SaveSameSecond => Rewrites
  BY DEF SaveSameSecond, Rewrites
<1>5. CASE MarkTerminating
  <2> DEFINE obj == WithStatus(worker.obj, phaseTerminating, worker.obj.conds)
  <2>1. At("FinalizeStatus") /\ Save(obj)
    BY <1>5 DEF MarkTerminating
  <2>2. obj \in Object /\ obj.uid = worker.obj.uid /\ obj.phase = phaseTerminating
        /\ obj.conds = worker.obj.conds
    BY <1>2, <1>3
  <2> HIDE DEF obj
  <2> QED BY <1>0, <1>1, <2>1, <2>2, SaveWrites DEF Stated
<1>6. CASE MarkInitialized
  <2> DEFINE obj == WithStatus(worker.obj, phasePending, {reasonFinalizerAdded})
  <2>1. At("InitializeStatus") /\ Save(obj)
    BY <1>6 DEF MarkInitialized
  <2>2. obj \in Object /\ obj.uid = worker.obj.uid /\ obj.phase = phasePending
        /\ obj.conds = {reasonFinalizerAdded}
    BY <1>2, <1>3
  <2> HIDE DEF obj
  <2> QED BY <1>0, <1>1, <2>1, <2>2, SaveWrites DEF Stated
<1>7. CASE MarkDeleted
  <2> DEFINE obj == WithStatus(worker.obj, worker.obj.phase, worker.obj.conds \cup {reasonDeleted})
  <2>1. At("DeletedStatus") /\ (Save(obj) \/ SaveSameSecond)
    BY <1>7 DEF MarkDeleted, SaveCondition
  <2>2. obj \in Object /\ obj.uid = worker.obj.uid /\ obj.phase = worker.obj.phase
        /\ obj.conds = worker.obj.conds \cup {reasonDeleted}
    BY <1>2, <1>3
  <2> HIDE DEF obj
  <2> QED BY <1>0, <1>1, <1>4, <2>1, <2>2, SaveWrites DEF Stated
<1>8. CASE MarkCreated
  <2> DEFINE phase == IF reasonCreated \in worker.obj.conds THEN worker.obj.phase ELSE phaseReady
             obj == WithStatus(worker.obj, phase, worker.obj.conds \cup {reasonCreated})
  <2>1. At("CreatedStatus") /\ (Save(obj) \/ SaveSameSecond)
    BY <1>8 DEF MarkCreated, SaveCondition
  <2>2. phase \in {worker.obj.phase, phaseReady}
    OBVIOUS
  <2> HIDE DEF phase
  <2>3. obj \in Object /\ obj.uid = worker.obj.uid /\ obj.phase = phase
        /\ obj.conds = worker.obj.conds \cup {reasonCreated}
    BY <1>2, <1>3, <2>2
  <2> HIDE DEF obj
  <2> QED BY <1>0, <1>1, <1>4, <2>1, <2>2, <2>3, SaveWrites DEF Stated
<1>9. CASE PutFinalizer
  <2> DEFINE obj == [worker.obj EXCEPT !.finalizer = TRUE]
  <2>1. Save(obj)
    BY <1>9 DEF PutFinalizer
  <2>2. obj \in Object /\ obj.uid = worker.obj.uid /\ obj.phase = worker.obj.phase
        /\ obj.conds = worker.obj.conds
    BY <1>1 DEF Object
  <2> HIDE DEF obj
  <2> QED BY <1>0, <1>1, <2>1, <2>2, SaveWrites DEF Stated
<1>10. CASE DropFinalizer
  <2> DEFINE obj == Gone(worker.obj)
  <2>1. Save(obj)
    BY <1>10 DEF DropFinalizer
  <2>2. obj \in Object /\ obj.uid = worker.obj.uid /\ obj.phase = worker.obj.phase
        /\ obj.conds = worker.obj.conds
    <3>1. obj \in Object
      BY <1>1, ObjectFacts
    <3> QED BY <3>1 DEF Gone
  <2> HIDE DEF obj
  <2> QED BY <1>0, <1>1, <2>1, <2>2, SaveWrites DEF Stated
<1> QED BY <1>5, <1>6, <1>7, <1>8, <1>9, <1>10

(***************************************************************************)
(* What "ready" says of the versions.                                        *)
(***************************************************************************)
Ready(k) == Latest(k).exists /\ Latest(k).phase = phaseReady

\* No version of the resource that is still known says that it is being finalized.
Clear(k) == \A i \in 1 .. Len(versions[k]) : versions[k][i].phase # phaseTerminating

\* A write keeps old versions, so it disturbs a ready resource only by what it adds.
LEMMA StoreReady ==
    ASSUME VersionsType, NEW k \in Keys, NEW obj \in Object, Store(k, obj),
           obj.exists /\ obj.phase = phaseReady => Clear(k),
           NEW j \in Keys, Ready(j) => Clear(j), Ready(j)'
    PROVE  Clear(j) /\ Clear(j)' /\ (j # k => Ready(j))
<1>1. CASE j # k
  BY <1>1, StoreFacts DEF Ready, Clear
<1>2. CASE j = k
  <2>1. Len(versions[k]) \in Nat /\ Len(versions'[k]) = Len(versions[k]) + 1
    BY StoreFacts, VersionFacts
  <2>2. /\ obj.exists /\ obj.phase = phaseReady
        /\ \A i \in 1 .. Len(versions[k]) : versions'[k][i] = versions[k][i]
        /\ versions'[k][Len(versions[k]) + 1] = obj
    BY <1>2, StoreFacts DEF Ready
  <2>3. Clear(k)
    BY <2>2
  <2>4. ASSUME NEW i \in 1 .. Len(versions'[k])
        PROVE  versions'[k][i].phase # phaseTerminating
    <3>1. CASE i \in 1 .. Len(versions[k])
      BY <2>2, <2>3, <3>1 DEF Clear
    <3>2. CASE i = Len(versions[k]) + 1
      BY <2>2, <3>2 DEF phaseReady, phaseTerminating
    <3> QED BY <2>1, <3>1, <3>2
  <2> QED BY <1>2, <2>3, <2>4 DEF Clear
<1> QED BY <1>1, <1>2

\* A copy that is live and up to date leaves no room for a version that is being finalized.
LEMMA CopyClear ==
    ASSUME NEW fin, NEW rec, Classes(fin, rec), Good(fin, rec), At("CreatedStatus"),
           worker.obj = Latest(worker.key)
    PROVE  worker.key \in Keys /\ Clear(worker.key)
<1> DEFINE k == worker.key
<1>1. /\ ~At("idle")
      /\ k \in Keys
      /\ VersionsType
      /\ worker.obj \in Object
  BY BusyFacts DEF At
<1>2. Live(worker.obj) /\ \A i \in 1 .. Len(versions[k]) : Before(worker.obj, versions[k][i])
  BY <1>1 DEF Good, CopyOK, Classes, At
<1>3. SUFFICES ASSUME NEW i \in 1 .. Len(versions[k])
               PROVE  versions[k][i].phase # phaseTerminating
  BY <1>1 DEF Clear
<1>4. Len(versions[k]) \in Nat \ {0} /\ versions[k][i] \in Object
  BY <1>1, VersionFacts
<1>5. WellFormed(versions[k][i]) /\ Before(versions[k][i], worker.obj)
  BY <1>1, <1>4 DEF Good, HistoryOK, Latest
<1>6. versions[k][i].uid = worker.obj.uid
  BY <1>1, <1>2, <1>4, <1>5 DEF Before, Object
<1>7. ~versions[k][i].deleting
  BY <1>2, <1>5, <1>6 DEF Before, Live
<1> QED BY <1>5, <1>7 DEF WellFormed

\* A resource becomes ready in CreatedStatus, and is ready only while nothing that is
\* known of it says that it is being finalized.
LEMMA ReadyVersions ==
    ASSUME NEW fin, NEW rec, Classes(fin, rec), Good(fin, rec), Writes,
           At("DeletedStatus") => worker.obj.phase = phaseTerminating,
           \A j \in Keys : Ready(j) => Clear(j),
           NEW k \in Keys, Ready(k)'
    PROVE  /\ Clear(k) /\ Clear(k)'
           /\ Ready(k) \/ (At("CreatedStatus") /\ worker.key = k)
<1>1. VersionsType
  BY BusyFacts
<1>2. CASE UNCHANGED versions
  BY <1>2 DEF Ready, Clear, Latest
<1>3. CASE RestartController
  <2>1. \A j \in Keys : versions'[j] = <<Latest(j)>>
    BY <1>3 DEF RestartController
  <2>2. \A j \in Keys : Latest(j)' = Latest(j)
    BY <2>1 DEF Latest
  <2>3. Ready(k) /\ Clear(k)
    BY <2>2 DEF Ready
  <2>4. \A i \in 1 .. Len(versions'[k]) : versions'[k][i] = Latest(k)
    BY <2>1
  <2>5. Clear(k)'
    BY <2>3, <2>4 DEF Clear, Ready, phaseReady, phaseTerminating
  <2> QED BY <2>3, <2>5
<1>4. ASSUME NEW j \in Keys, Deliver(j)
      PROVE  Clear(k) /\ Clear(k)' /\ Ready(k)
  <2>1. CASE j # k
    BY <1>1, <1>4, <2>1, DeliverFacts DEF Ready, Clear
  <2>2. CASE j = k
    <3>1. /\ Len(versions[k]) \in Nat \ {0}
          /\ Len(versions'[k]) = Len(versions[k]) - 1
          /\ \A i \in 1 .. Len(versions'[k]) : versions'[k][i] = versions[k][i + 1]
          /\ Latest(k)' = Latest(k)
      BY <1>1, <1>4, <2>2, VersionFacts, DeliverFacts
    <3>2. Ready(k) /\ Clear(k)
      BY <3>1 DEF Ready
    <3>3. \A i \in 1 .. Len(versions'[k]) : i + 1 \in 1 .. Len(versions[k])
      BY <3>1
    <3> QED BY <3>1, <3>2, <3>3 DEF Clear
  <2> QED BY <2>1, <2>2
<1>5. ASSUME NEW j \in Keys, NEW obj \in Object, Store(j, obj), Written(j, obj)
      PROVE  /\ Clear(k) /\ Clear(k)'
             /\ Ready(k) \/ (At("CreatedStatus") /\ worker.key = k)
  <2>1. CASE obj.phase # phaseReady
    <3>1. Clear(k) /\ Clear(k)' /\ (k # j => Ready(k))
      BY <1>1, <1>5, <2>1, StoreReady
    <3>2. k # j
      BY <1>1, <1>5, <2>1, StoreFacts DEF Ready
    <3> QED BY <3>1, <3>2
  <2>2. CASE obj.phase = phaseReady
    <3>1. Latest(j).exists /\ Stated(j, obj)
      BY <1>5, <2>2 DEF Written, NewObject, phaseNone, phaseReady
    <3>2. Ready(j) \/ (At("CreatedStatus") /\ worker.key = j /\ worker.obj = Latest(j))
      BY <2>2, <3>1 DEF Stated, Ready, phasePending, phaseReady, phaseTerminating
    <3>3. Clear(j)
      BY <3>2, CopyClear
    <3>4. Clear(k) /\ Clear(k)' /\ (k # j => Ready(k))
      BY <1>1, <1>5, <3>3, StoreReady
    <3> QED BY <3>2, <3>4
  <2> QED BY <2>1, <2>2
<1> QED BY <1>2, <1>3, <1>4, <1>5 DEF Writes

(***************************************************************************)
(* What is known of a resource: its versions from the cached one on, and the   *)
(* worker's copy.                                                            *)
(***************************************************************************)
Known(k) ==
    {versions[k][i] : i \in 1 .. Len(versions[k])} \cup {obj \in {worker.obj} : worker.key = k}

LEMMA KnownFacts ==
    ASSUME ControllerAssumption, NEW fin, NEW rec, Good(fin, rec), NEW k \in Keys
    PROVE  /\ Latest(k) \in Known(k)
           /\ Cached(k) \in Known(k)
           /\ \A obj \in Known(k) : obj \in Object /\ Before(obj, Latest(k))
<1>1. VersionsType /\ worker.obj \in Object /\ (At("idle") => worker.key = NoKey)
  BY BusyFacts
<1>2. Len(versions[k]) \in Nat \ {0} /\ \A i \in 1 .. Len(versions[k]) : versions[k][i] \in Object
  BY <1>1, VersionFacts
<1>3. \A i \in 1 .. Len(versions[k]) : Before(versions[k][i], Latest(k))
  BY <1>1, LatestFacts DEF Good
<1>4. ASSUME worker.key = k
      PROVE  Before(worker.obj, Latest(k))
  <2>1. ~At("idle")
    BY <1>1, <1>4 DEF ControllerAssumption
  <2> QED BY <1>2, <1>4, <2>1 DEF Good, CopyOK, Latest
<1> QED BY <1>1, <1>2, <1>3, <1>4 DEF Known, Latest, Cached

\* What is said of versions in HistoryOK, for the newest one before and after a step.
LEMMA LatestForward ==
    ASSUME VersionsType, Writes, HistoryOK', NEW k \in Keys
    PROVE  Before(Latest(k), Latest(k)')
<1>1. Latest(k) \in Object /\ Len(versions[k]) \in Nat \ {0}
  BY VersionFacts
<1>2. CASE Latest(k)' = Latest(k)
  BY <1>1, <1>2, BeforeReflexive
<1>3. CASE UNCHANGED versions
  BY <1>2, <1>3 DEF Latest
<1>4. CASE RestartController
  <2>1. versions'[k] = <<Latest(k)>>
    BY <1>4 DEF RestartController
  <2> QED BY <1>2, <2>1 DEF Latest
<1>5. ASSUME NEW j \in Keys, Deliver(j)
      PROVE  Latest(k)' = Latest(k)
  BY <1>5, DeliverFacts
<1>6. ASSUME NEW j \in Keys, NEW obj \in Object, Store(j, obj)
      PROVE  Before(Latest(k), Latest(k)')
  <2>1. CASE j # k
    BY <1>2, <1>6, <2>1, StoreFacts
  <2>2. CASE j = k
    <3>1. /\ Len(versions'[k]) = Len(versions[k]) + 1
          /\ versions'[k][Len(versions[k])] = Latest(k)
          /\ versions'[k][Len(versions[k]) + 1] = Latest(k)'
      BY <1>1, <1>6, <2>2, StoreFacts DEF Latest
    <3>2. Len(versions[k]) + 1 \in 1 .. Len(versions'[k])
          /\ Len(versions[k]) \in 1 .. Len(versions[k]) + 1
      BY <1>1, <3>1
    <3> QED BY <3>1, <3>2 DEF HistoryOK
  <2> QED BY <2>1, <2>2
<1> QED BY <1>2, <1>3, <1>4, <1>5, <1>6 DEF Writes

\* A step makes known only what it writes, and of that only the newest version of a
\* resource.
LEMMA KnownStep ==
    ASSUME VersionsType, Writes, CopyKept, ControllerAssumption,
           NEW k \in Keys, NEW obj \in Known(k)'
    PROVE  \/ obj \in Known(k)
           \/ /\ obj \in Object
              /\ Written(k, obj)
              /\ obj = Latest(k)'
<1> DEFINE written == obj \in Object /\ Written(k, obj) /\ obj = Latest(k)'
<1>1. Len(versions[k]) \in Nat \ {0}
  BY VersionFacts
<1>2. Latest(k) \in Known(k) /\ Cached(k) \in Known(k)
  BY <1>1 DEF Known, Latest, Cached
<1>3. ASSUME worker'.key = k, obj = worker'.obj
      PROVE  obj \in Known(k)
  BY <1>2, <1>3, IdleFacts DEF CopyKept, Known, ControllerAssumption
<1>4. ASSUME NEW i \in 1 .. Len(versions'[k]), obj = versions'[k][i]
      PROVE  obj \in Known(k) \/ written
  <2>1. CASE UNCHANGED versions
    BY <1>4, <2>1 DEF Known
  <2>2. CASE RestartController
    <3>1. versions'[k] = <<Latest(k)>>
      BY <2>2 DEF RestartController
    <3>2. i = 1 /\ obj = Latest(k)
      BY <1>4, <3>1
    <3> QED BY <1>2, <3>2
  <2>3. ASSUME NEW j \in Keys, Deliver(j)
        PROVE  obj \in Known(k)
    <3>1. CASE j # k
      BY <1>4, <2>3, <3>1, DeliverFacts DEF Known
    <3>2. CASE j = k
      <4>1. /\ Len(versions'[k]) = Len(versions[k]) - 1
            /\ versions'[k][i] = versions[k][i + 1]
        BY <1>4, <2>3, <3>2, DeliverFacts
      <4>2. i + 1 \in 1 .. Len(versions[k])
        BY <1>1, <4>1
      <4> QED BY <1>4, <4>1, <4>2 DEF Known
    <3> QED BY <3>1, <3>2
  <2>4. ASSUME NEW j \in Keys, NEW new \in Object, Store(j, new), Written(j, new)
        PROVE  obj \in Known(k) \/ written
    <3>1. CASE j # k
      BY <1>4, <2>4, <3>1, StoreFacts DEF Known
    <3>2. CASE j = k
      <4>1. /\ Len(versions'[k]) = Len(versions[k]) + 1
            /\ \A l \in 1 .. Len(versions[k]) : versions'[k][l] = versions[k][l]
            /\ versions'[k][Len(versions[k]) + 1] = new
            /\ Latest(k)' = new
        BY <2>4, <3>2, StoreFacts
      <4>2. CASE i \in 1 .. Len(versions[k])
        BY <1>4, <4>1, <4>2 DEF Known
      <4>3. CASE i = Len(versions[k]) + 1
        BY <1>4, <2>4, <3>2, <4>1, <4>3
      <4> QED BY <1>1, <4>1, <4>2, <4>3
    <3> QED BY <3>1, <3>2
  <2> QED BY <2>1, <2>2, <2>3, <2>4 DEF Writes
<1> QED BY <1>3, <1>4 DEF Known

(***************************************************************************)
(* The rest of this module says the same in the terms of Lifecycle, for the    *)
(* proofs that the kinds implement it: which resources a step adds to, or       *)
(* takes from, those that are held and those that are past.                    *)
(***************************************************************************)

(***************************************************************************)
(* The uids of a run.                                                        *)
(***************************************************************************)
InRange(obj) ==
    /\ obj.uid <= MaxUid
    /\ obj.exists => obj.uid >= 1

VersionsInRange == \A k \in Keys : \A i \in 1 .. Len(versions[k]) : InRange(versions[k][i])

UidsOK == VersionsInRange /\ InRange(worker.obj)

LEMMA NoObjectInRange == ASSUME ControllerAssumption PROVE InRange(NoObject)
BY DEF ControllerAssumption, InRange, NoObject, Gone, NewObject

LEMMA LatestInRange ==
    ASSUME VersionsType, VersionsInRange, NEW k \in Keys
    PROVE  InRange(Latest(k)) /\ InRange(Cached(k))
BY VersionFacts DEF VersionsInRange, Latest, Cached

LEMMA StoreInRange ==
    ASSUME VersionsType, VersionsInRange, NEW k \in Keys, NEW obj \in Object,
           Store(k, obj), InRange(obj)
    PROVE  VersionsInRange'
<1> SUFFICES ASSUME NEW j \in Keys, NEW i \in 1 .. Len(versions'[j])
             PROVE  InRange(versions'[j][i])
  BY DEF VersionsInRange, InRange
<1>1. CASE j # k
  BY <1>1, StoreFacts DEF VersionsInRange
<1>2. CASE j = k /\ i = Len(versions[k]) + 1
  BY <1>2, StoreFacts
<1>3. CASE j = k /\ i # Len(versions[k]) + 1
  <2>1. Len(versions[k]) \in Nat /\ Len(versions'[k]) = Len(versions[k]) + 1
    BY VersionFacts, StoreFacts
  <2>2. i \in 1 .. Len(versions[k])
    BY <1>3, <2>1
  <2> QED BY <1>3, <2>2, StoreFacts DEF VersionsInRange
<1> QED BY <1>1, <1>2, <1>3

\* The worker's copy is one of the versions there were.
LEMMA CopyInRange ==
    ASSUME ControllerAssumption, VersionsType, UidsOK, CopyKept
    PROVE  InRange(worker'.obj)
BY NoObjectInRange, LatestInRange, IdleFacts DEF UidsOK, CopyKept

(***************************************************************************)
(* What a step does to the resources that are held and those that are past.    *)
(***************************************************************************)
Steady == UNCHANGED <<HeldResources, PastResources>>

Free(me) == me \in Resources /\ me \notin HeldResources \cup PastResources

Guarded(me) ==
    /\ Free(me)
    /\ HeldResources' = HeldResources \cup {me}
    /\ UNCHANGED PastResources

Discarded(me) ==
    /\ Free(me)
    /\ PastResources' = PastResources \cup {me}
    /\ UNCHANGED HeldResources

Released(me) ==
    /\ me \in Resources
    /\ me \in HeldResources
    /\ HeldResources' = HeldResources \ {me}
    /\ PastResources' = PastResources \cup {me}

\* Both sets are read off the versions at the API server.
LEMMA SteadyIfLatestKept ==
    ASSUME \A k \in Keys : Latest(k)' = Latest(k)
    PROVE  Steady
<1>1. \A me \in Resources : me[1] \in Keys
  BY DEF Resources
<1> QED BY <1>1 DEF Steady, HeldResources, PastResources, Held, Resources

\* A write that keeps uid, existence and finalizer is nothing to the lifecycle.
LEMMA StoreSteady ==
    ASSUME VersionsType, NEW k \in Keys, NEW obj \in Object, Store(k, obj),
           obj.uid = Latest(k).uid, obj.exists = Latest(k).exists,
           obj.finalizer = Latest(k).finalizer
    PROVE  Steady
<1>1. \A j \in Keys : /\ Latest(j)'.uid = Latest(j).uid
                      /\ Latest(j)'.exists = Latest(j).exists
                      /\ Latest(j)'.finalizer = Latest(j).finalizer
  BY StoreFacts
<1>2. \A me \in Resources : me[1] \in Keys
  BY DEF Resources
<1> QED BY <1>1, <1>2 DEF Steady, HeldResources, PastResources, Held, Resources

\* Nor is a creation: the new resource is not held yet.
LEMMA StoreNew ==
    ASSUME VersionsType, NEW k \in Keys, ~Latest(k).exists,
           Store(k, NewObject(Latest(k).uid + 1))
    PROVE  Steady
<1> DEFINE old == Latest(k)
           obj == NewObject(old.uid + 1)
<1>1. old.uid \in Nat /\ obj \in Object /\ ~old.exists
  BY VersionFacts, ObjectFacts DEF Object
<1>2. obj.uid = old.uid + 1 /\ obj.exists /\ ~obj.finalizer
  BY DEF NewObject
<1>3. Latest(k)' = obj /\ \A j \in Keys \ {k} : Latest(j)' = Latest(j)
  BY <1>1, StoreFacts
<1> HIDE DEF obj
<1> SUFFICES ASSUME NEW j \in Keys, NEW u \in 1 .. MaxUid
             PROVE  /\ Held(<<j, u>>)' <=> Held(<<j, u>>)
                    /\ u < Latest(j)'.uid \/ (u = Latest(j)'.uid /\ ~Latest(j)'.exists)
                          <=> u < Latest(j).uid \/ (u = Latest(j).uid /\ ~Latest(j).exists)
  BY DEF Steady, HeldResources, PastResources, Resources
<1>4. CASE j # k
  BY <1>3, <1>4 DEF Held
<1>5. CASE j = k
  BY <1>1, <1>2, <1>3, <1>5 DEF Held
<1> QED BY <1>4, <1>5

\* A resource deleted before it got the finalizer.
LEMMA StoreDiscard ==
    ASSUME VersionsType, VersionsInRange, NEW k \in Keys,
           Latest(k).exists, ~Latest(k).finalizer, Store(k, Gone(Latest(k)))
    PROVE  Discarded(<<k, Latest(k).uid>>)
<1> DEFINE old == Latest(k)
           obj == Gone(old)
           me == <<k, old.uid>>
<1>1. /\ old.uid \in Nat
      /\ old.uid <= MaxUid /\ old.uid >= 1
      /\ old.exists /\ ~old.finalizer
      /\ obj \in Object
  BY VersionFacts, LatestInRange, ObjectFacts DEF Object, InRange
<1>2. obj.uid = old.uid /\ ~obj.exists
  BY DEF Gone
<1>3. Latest(k)' = obj /\ \A j \in Keys \ {k} : Latest(j)' = Latest(j)
  BY <1>1, StoreFacts
<1> HIDE DEF obj
<1>4. me \in Resources
  BY <1>1 DEF Resources
<1>5. Free(me)
  BY <1>1, <1>4 DEF Free, HeldResources, PastResources, Held
<1>6. ASSUME NEW j \in Keys, NEW u \in 1 .. MaxUid
      PROVE  /\ Held(<<j, u>>)' <=> Held(<<j, u>>)
             /\ u < Latest(j)'.uid \/ (u = Latest(j)'.uid /\ ~Latest(j)'.exists)
                   <=> \/ u < Latest(j).uid \/ (u = Latest(j).uid /\ ~Latest(j).exists)
                       \/ <<j, u>> = me
  <2>1. CASE j # k
    BY <1>3, <2>1 DEF Held
  <2>2. CASE j = k
    BY <1>1, <1>2, <1>3, <2>2 DEF Held
  <2> QED BY <2>1, <2>2
<1>7. HeldResources' = HeldResources /\ PastResources' = PastResources \cup {me}
  BY <1>4, <1>6 DEF HeldResources, PastResources, Resources
<1> QED BY <1>5, <1>7 DEF Discarded

\* The finalizer is put on a resource that exists and has none.
LEMMA StoreGuard ==
    ASSUME VersionsType, VersionsInRange, NEW k \in Keys, NEW obj \in Object, Store(k, obj),
           Latest(k).exists, ~Latest(k).finalizer,
           obj.uid = Latest(k).uid, obj.exists, obj.finalizer
    PROVE  Guarded(<<k, Latest(k).uid>>)
<1> DEFINE old == Latest(k)
           me == <<k, old.uid>>
<1>1. /\ old.uid \in Nat
      /\ old.uid <= MaxUid /\ old.uid >= 1
      /\ old.exists /\ ~old.finalizer
  BY VersionFacts, LatestInRange DEF Object, InRange
<1>2. Latest(k)' = obj /\ \A j \in Keys \ {k} : Latest(j)' = Latest(j)
  BY StoreFacts
<1>3. me \in Resources
  BY <1>1 DEF Resources
<1>4. Free(me)
  BY <1>1, <1>3 DEF Free, HeldResources, PastResources, Held
<1>5. ASSUME NEW j \in Keys, NEW u \in 1 .. MaxUid
      PROVE  /\ Held(<<j, u>>)' <=> Held(<<j, u>>) \/ <<j, u>> = me
             /\ u < Latest(j)'.uid \/ (u = Latest(j)'.uid /\ ~Latest(j)'.exists)
                   <=> u < Latest(j).uid \/ (u = Latest(j).uid /\ ~Latest(j).exists)
  <2>1. CASE j # k
    BY <1>2, <2>1 DEF Held
  <2>2. CASE j = k
    BY <1>1, <1>2, <2>2 DEF Held
  <2> QED BY <2>1, <2>2
<1>6. HeldResources' = HeldResources \cup {me} /\ PastResources' = PastResources
  BY <1>3, <1>5 DEF HeldResources, PastResources, Resources
<1> QED BY <1>4, <1>6 DEF Guarded

\* The finalizer is taken off, and the resource is gone.
LEMMA StoreRelease ==
    ASSUME VersionsType, VersionsInRange, NEW k \in Keys,
           Latest(k).exists, Latest(k).finalizer, Store(k, Gone(Latest(k)))
    PROVE  Released(<<k, Latest(k).uid>>)
<1> DEFINE old == Latest(k)
           obj == Gone(old)
           me == <<k, old.uid>>
<1>1. /\ old.uid \in Nat
      /\ old.uid <= MaxUid /\ old.uid >= 1
      /\ old.exists /\ old.finalizer
      /\ obj \in Object
  BY VersionFacts, LatestInRange, ObjectFacts DEF Object, InRange
<1>2. obj.uid = old.uid /\ ~obj.exists
  BY DEF Gone
<1>3. Latest(k)' = obj /\ \A j \in Keys \ {k} : Latest(j)' = Latest(j)
  BY <1>1, StoreFacts
<1> HIDE DEF obj
<1>4. me \in Resources
  BY <1>1 DEF Resources
<1>5. me \in HeldResources
  BY <1>1, <1>4 DEF HeldResources, Held
<1>6. ASSUME NEW j \in Keys, NEW u \in 1 .. MaxUid
      PROVE  /\ Held(<<j, u>>)' <=> Held(<<j, u>>) /\ <<j, u>> # me
             /\ u < Latest(j)'.uid \/ (u = Latest(j)'.uid /\ ~Latest(j)'.exists)
                   <=> \/ u < Latest(j).uid \/ (u = Latest(j).uid /\ ~Latest(j).exists)
                       \/ <<j, u>> = me
  <2>1. CASE j # k
    BY <1>3, <2>1 DEF Held
  <2>2. CASE j = k
    BY <1>1, <1>2, <1>3, <2>2 DEF Held
  <2> QED BY <2>1, <2>2
<1>7. HeldResources' = HeldResources \ {me} /\ PastResources' = PastResources \cup {me}
  BY <1>4, <1>6 DEF HeldResources, PastResources, Resources
<1> QED BY <1>4, <1>5, <1>7 DEF Released

(***************************************************************************)
(* The steps of Controller.  Each keeps the uids in range and is, for the       *)
(* lifecycle, nothing or one of the three above.                              *)
(***************************************************************************)
LEMMA UnwrittenHold ==
    ASSUME VersionsInRange, UNCHANGED versions
    PROVE  VersionsInRange' /\ Steady
BY SteadyIfLatestKept DEF VersionsInRange, InRange, Latest

LEMMA DeliverHold ==
    ASSUME VersionsType, VersionsInRange, NEW k \in Keys, Deliver(k)
    PROVE  VersionsInRange' /\ Steady
<1>1. Steady
  BY DeliverFacts, SteadyIfLatestKept
<1>2. ASSUME NEW j \in Keys, NEW i \in 1 .. Len(versions'[j])
      PROVE  InRange(versions'[j][i])
  <2>1. CASE j # k
    BY <1>2, <2>1, DeliverFacts DEF VersionsInRange
  <2>2. CASE j = k
    <3>1. Len(versions[k]) \in Nat /\ i + 1 \in 1 .. Len(versions[k])
      BY <1>2, <2>2, VersionFacts, DeliverFacts
    <3> QED BY <2>2, <3>1, DeliverFacts DEF VersionsInRange
  <2> QED BY <2>1, <2>2
<1> QED BY <1>1, <1>2 DEF VersionsInRange, InRange

LEMMA RestartHold ==
    ASSUME VersionsType, VersionsInRange, RestartController
    PROVE  VersionsInRange' /\ Steady
<1>1. \A k \in Keys : versions'[k] = <<Latest(k)>>
  BY DEF RestartController
<1>2. \A k \in Keys : Latest(k)' = Latest(k)
  BY <1>1 DEF Latest
<1>3. \A k \in Keys : \A i \in 1 .. Len(versions'[k]) : versions'[k][i] = Latest(k)
  BY <1>1
<1>4. VersionsInRange'
  BY <1>3, LatestInRange DEF VersionsInRange, InRange
<1> QED BY <1>2, <1>4, SteadyIfLatestKept

LEMMA UserCreateHold ==
    ASSUME ControllerAssumption, VersionsType, VersionsInRange, NEW k \in Keys, UserCreate(k)
    PROVE  VersionsInRange' /\ Steady
<1> DEFINE obj == NewObject(Latest(k).uid + 1)
<1>1. Latest(k).uid \in Nat /\ Latest(k).uid < MaxUid /\ Store(k, obj) /\ ~Latest(k).exists
  BY VersionFacts DEF UserCreate, Object
<1>2. obj \in Object /\ InRange(obj)
  BY <1>1, ObjectFacts DEF NewObject, InRange, ControllerAssumption
<1> QED BY <1>1, <1>2, StoreInRange, StoreNew

LEMMA UserDeleteHold ==
    ASSUME VersionsType, VersionsInRange, NEW k \in Keys, UserDelete(k)
    PROVE  VersionsInRange' /\ (Steady \/ Discarded(<<k, Latest(k).uid>>))
<1>1. Latest(k) \in Object /\ InRange(Latest(k)) /\ Latest(k).exists
  BY VersionFacts, LatestInRange DEF UserDelete
<1>2. CASE Latest(k).finalizer
  <2> DEFINE obj == [Latest(k) EXCEPT !.deleting = TRUE]
  <2>1. /\ obj \in Object /\ Store(k, obj)
        /\ obj.uid = Latest(k).uid /\ obj.exists = Latest(k).exists
        /\ obj.finalizer = Latest(k).finalizer
    BY <1>1, <1>2 DEF UserDelete, Object
  <2>2. InRange(obj)
    BY <1>1, <2>1 DEF InRange
  <2> HIDE DEF obj
  <2> QED BY <2>1, <2>2, StoreInRange, StoreSteady
<1>3. CASE ~Latest(k).finalizer
  <2>1. Store(k, Gone(Latest(k)))
    BY <1>3 DEF UserDelete
  <2>2. Gone(Latest(k)) \in Object /\ InRange(Gone(Latest(k)))
    BY <1>1, ObjectFacts DEF Gone, InRange
  <2> QED BY <1>1, <1>3, <2>1, <2>2, StoreInRange, StoreDiscard
<1> QED BY <1>2, <1>3

LEMMA UserEditHold ==
    ASSUME VersionsType, VersionsInRange, NEW k \in Keys, UserEdit(k)
    PROVE  VersionsInRange' /\ Steady
BY VersionFacts, LatestInRange, StoreInRange, StoreSteady DEF UserEdit

LEMMA StatusHold ==
    ASSUME NEW fin, NEW rec, Good(fin, rec), ~At("idle"), VersionsInRange,
           NEW phase \in Phases, NEW conds \in SUBSET Reasons,
           Save(WithStatus(worker.obj, phase, conds))
    PROVE  VersionsInRange' /\ Steady
<1> DEFINE obj == WithStatus(worker.obj, phase, conds)
<1>1. /\ VersionsType /\ worker.key \in Keys /\ worker.obj \in Object
      /\ obj \in Object
      /\ obj.uid = worker.obj.uid /\ obj.exists = worker.obj.exists
      /\ obj.finalizer = worker.obj.finalizer
  BY BusyFacts DEF WithStatus, Object
<1>2. CASE UNCHANGED versions
  BY <1>2, UnwrittenHold
<1>3. CASE Store(worker.key, obj) /\ worker.obj = Latest(worker.key)
  <2>1. InRange(obj)
    BY <1>1, <1>3, LatestInRange DEF InRange
  <2> HIDE DEF obj
  <2> QED BY <1>1, <1>3, <2>1, StoreInRange, StoreSteady
<1> QED BY <1>2, <1>3, SaveFacts

LEMMA ConditionHold ==
    ASSUME NEW fin, NEW rec, Good(fin, rec), ~At("idle"), VersionsInRange,
           NEW reason \in Reasons, NEW phase \in Phases, SaveCondition(reason, phase)
    PROVE  VersionsInRange' /\ Steady
<1>1. worker.obj.conds \cup {reason} \in SUBSET Reasons
  BY BusyFacts DEF Object
<1>2. CASE Save(WithStatus(worker.obj, phase, worker.obj.conds \cup {reason}))
  BY <1>1, <1>2, StatusHold
<1>3. CASE SaveSameSecond
  BY <1>3, UnwrittenHold DEF SaveSameSecond
<1> QED BY <1>2, <1>3 DEF SaveCondition

LEMMA MarkHold ==
    ASSUME NEW fin, NEW rec, Good(fin, rec), VersionsInRange,
           MarkTerminating \/ MarkInitialized \/ MarkDeleted \/ MarkCreated
    PROVE  VersionsInRange' /\ Steady
<1>1. ~At("idle") /\ worker.obj \in Object
  BY BusyFacts DEF MarkTerminating, MarkInitialized, MarkDeleted, MarkCreated, At
<1>2. /\ {phasePending, phaseReady, phaseTerminating, worker.obj.phase} \subseteq Phases
      /\ {reasonFinalizerAdded, reasonCreated, reasonDeleted} = Reasons
      /\ worker.obj.conds \in SUBSET Reasons
  BY <1>1 DEF Phases, Reasons, Object
<1>3. CASE MarkTerminating
  BY <1>1, <1>2, <1>3, StatusHold DEF MarkTerminating
<1>4. CASE MarkInitialized
  BY <1>1, <1>2, <1>4, StatusHold DEF MarkInitialized
<1>5. CASE MarkDeleted
  BY <1>1, <1>2, <1>5, ConditionHold DEF MarkDeleted
<1>6. CASE MarkCreated
  BY <1>1, <1>2, <1>6, ConditionHold DEF MarkCreated
<1> QED BY <1>3, <1>4, <1>5, <1>6

LEMMA PutFinalizerHold ==
    ASSUME NEW fin, NEW rec, Classes(fin, rec), Good(fin, rec), VersionsInRange, PutFinalizer
    PROVE  VersionsInRange' /\ (Steady \/ Guarded(Me))
<1> DEFINE obj == [worker.obj EXCEPT !.finalizer = TRUE]
<1>1. /\ ~At("idle") /\ Save(obj) /\ worker.obj.exists
      /\ VersionsType /\ worker.key \in Keys /\ worker.obj \in Object
  BY BusyFacts DEF PutFinalizer, At, Good, CopyOK, Live
<1>2. /\ obj \in Object
      /\ obj.uid = worker.obj.uid /\ obj.exists = worker.obj.exists /\ obj.finalizer
  BY <1>1 DEF Object
<1> HIDE DEF obj
<1>3. CASE UNCHANGED versions
  BY <1>3, UnwrittenHold
<1>4. CASE Store(worker.key, obj) /\ worker.obj = Latest(worker.key)
  <2>1. InRange(obj)
    BY <1>1, <1>2, <1>4, LatestInRange DEF InRange
  <2>2. CASE worker.obj.finalizer
    BY <1>1, <1>2, <1>4, <2>1, <2>2, StoreInRange, StoreSteady DEF Object
  <2>3. CASE ~worker.obj.finalizer
    BY <1>1, <1>2, <1>4, <2>1, <2>3, StoreInRange, StoreGuard DEF Me
  <2> QED BY <2>2, <2>3
<1> QED BY <1>1, <1>3, <1>4, SaveFacts

LEMMA DropFinalizerHold ==
    ASSUME NEW fin, NEW rec, Classes(fin, rec), Good(fin, rec), VersionsInRange, DropFinalizer
    PROVE  VersionsInRange' /\ (Steady \/ Released(Me))
<1>1. /\ ~At("idle") /\ Save(Gone(worker.obj))
      /\ VersionsType /\ worker.key \in Keys /\ worker.obj \in Object
  BY BusyFacts DEF DropFinalizer, At
<1>2. worker.obj.exists /\ worker.obj.finalizer
  BY <1>1 DEF DropFinalizer, At, Good, CopyOK, Classes, Dying
<1>3. CASE UNCHANGED versions
  BY <1>3, UnwrittenHold
<1>4. CASE Store(worker.key, Gone(worker.obj)) /\ worker.obj = Latest(worker.key)
  <2>1. Gone(worker.obj) \in Object /\ InRange(Gone(worker.obj))
    BY <1>1, <1>4, ObjectFacts, LatestInRange DEF InRange, Gone
  <2> QED BY <1>1, <1>2, <1>4, <2>1, StoreInRange, StoreRelease DEF Me
<1> QED BY <1>1, <1>3, <1>4, SaveFacts
===============================================================================
