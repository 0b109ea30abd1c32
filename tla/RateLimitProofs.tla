---------------------------- MODULE RateLimitProofs ----------------------------
(***************************************************************************)
(* Proofs about RateLimit, for any number of goroutines and messages and any    *)
(* interval.                                                                 *)
(***************************************************************************)
EXTENDS RateLimit, TLAPS

Safe == TypeOK /\ Inv

LEMMA InitSafe ==
    ASSUME RateLimitAssumption, Init
    PROVE  Safe
BY DEF RateLimitAssumption, Init, Safe, TypeOK, Inv, Never, Times, Statements

\* What a caller in the critical section knows of the others.
LEMMA Alone ==
    ASSUME RateLimitAssumption, Safe, NEW c \in Callers, pc[c] \notin {"idle", "lock"}
    PROVE  /\ mu = c
           /\ \A d \in Callers \ {c} : pc[d] \in {"idle", "lock"}
BY DEF Safe, Inv

LEMMA StepTypeOK ==
    ASSUME RateLimitAssumption, Safe, [Next]_vars
    PROVE  TypeOK'
<1> USE DEF RateLimitAssumption, Safe, TypeOK, Never, Times, Statements, GoOn
<1>1. ASSUME NEW c \in Callers, NEW n \in Names, Call(c, n) PROVE TypeOK'
  BY <1>1 DEF Call
<1>2. ASSUME NEW c \in Callers, Lock(c) PROVE TypeOK'
  BY <1>2 DEF Lock
<1>3. ASSUME NEW c \in Callers, Check(c) PROVE TypeOK'
  BY <1>3 DEF Check
<1>4. ASSUME NEW c \in Callers, Launch(c) PROVE TypeOK'
  BY <1>4 DEF Launch
<1>5. ASSUME NEW c \in Callers, Stamp(c) PROVE TypeOK'
  BY <1>5 DEF Stamp
<1>6. ASSUME NEW c \in Callers, Unlock(c) PROVE TypeOK'
  BY <1>6 DEF Unlock
<1>7. ASSUME Tick PROVE TypeOK'
  BY <1>7 DEF Tick
<1>8. CASE UNCHANGED vars
  BY <1>8 DEF vars
<1> QED BY <1>1, <1>2, <1>3, <1>4, <1>5, <1>6, <1>7, <1>8 DEF Next, Inside

LEMMA StepInv ==
    ASSUME RateLimitAssumption, Safe, [Next]_vars
    PROVE  Inv'
<1>0. TypeOK /\ Inv /\ TypeOK'
  BY StepTypeOK DEF Safe
<1> USE DEF RateLimitAssumption, Never, Times, Statements, GoOn
<1>1. ASSUME NEW c \in Callers, NEW n \in Names, Call(c, n) PROVE Inv'
  BY <1>0, <1>1 DEF Call, TypeOK, Inv
<1>2. ASSUME NEW c \in Callers, Lock(c) PROVE Inv'
  BY <1>0, <1>2 DEF Lock, TypeOK, Inv
<1>3. ASSUME NEW c \in Callers, Check(c) PROVE Inv'
  <2>1. /\ mu = c
        /\ \A d \in Callers \ {c} : pc[d] \in {"idle", "lock"}
    BY <1>3, Alone DEF Check
  <2>2. \A d \in Callers : pc'[d] \notin {"idle", "lock"} <=> mu' = d
    BY <1>0, <1>3, <2>1 DEF Check, TypeOK, Inv
  <2>3. ASSUME pc'[c] = "launch", launched[name[c]].count > 0
        PROVE  now - launched[name[c]].at >= Every
    <3>1. launched[name[c]].at <= cache[name[c]] /\ cache[name[c]] # Never
      BY <1>0, <1>3, <2>1, <2>3 DEF Check, TypeOK, Inv
    <3>2. now - cache[name[c]] >= Every
      BY <1>0, <1>3, <2>3, <3>1 DEF Check, TypeOK
    <3> QED BY <1>0, <3>1, <3>2 DEF TypeOK
  <2> QED BY <1>0, <1>3, <2>1, <2>2, <2>3 DEF Check, TypeOK, Inv
<1>4. ASSUME NEW c \in Callers, Launch(c) PROVE Inv'
  <2>1. /\ mu = c
        /\ \A d \in Callers \ {c} : pc[d] \in {"idle", "lock"}
    BY <1>4, Alone DEF Launch
  <2> QED BY <1>0, <1>4, <2>1 DEF Launch, TypeOK, Inv
<1>5. ASSUME NEW c \in Callers, Stamp(c) PROVE Inv'
  <2>1. /\ mu = c
        /\ \A d \in Callers \ {c} : pc[d] \in {"idle", "lock"}
    BY <1>5, Alone DEF Stamp
  <2> QED BY <1>0, <1>5, <2>1 DEF Stamp, TypeOK, Inv
<1>6. ASSUME NEW c \in Callers, Unlock(c) PROVE Inv'
  BY <1>0, <1>6 DEF Unlock, TypeOK, Inv
<1>7. ASSUME Tick PROVE Inv'
  BY <1>0, <1>7 DEF Tick, TypeOK, Inv
<1>8. CASE UNCHANGED vars
  BY <1>0, <1>8 DEF vars, Inv
<1> QED BY <1>1, <1>2, <1>3, <1>4, <1>5, <1>6, <1>7, <1>8 DEF Next, Inside

\* Whoever is past the lock holds the mutex, and what was launched is stamped or about
\* to be: in every reachable state, with the types of the state.
THEOREM LimiterInvariant == RateLimitAssumption => (Spec => [](TypeOK /\ Inv))
<1> SUFFICES ASSUME RateLimitAssumption PROVE Spec => [](TypeOK /\ Inv)
  OBVIOUS
<1>1. Init => Safe
  BY InitSafe
<1>2. Safe /\ [Next]_vars => Safe'
  BY StepTypeOK, StepInv DEF Safe
<1> QED BY <1>1, <1>2, PTL DEF Spec, Safe

\* Every variable keeps its type: no statement leaves a caller nowhere or stamps a message
\* with something that is not a time.
THEOREM TypeCorrect == RateLimitAssumption => (Spec => []TypeOK)
<1> SUFFICES ASSUME RateLimitAssumption PROVE Spec => []TypeOK
  OBVIOUS
<1> QED BY LimiterInvariant, PTL

\* The map is never written while another caller uses it.
THEOREM MapNotShared == RateLimitAssumption => (Spec => []MapIsExclusive)
<1> SUFFICES ASSUME RateLimitAssumption PROVE Spec => []MapIsExclusive
  OBVIOUS
<1>1. TypeOK /\ Inv => MapIsExclusive
  BY DEF Inv, MapIsExclusive, UsesMap
<1> QED BY <1>1, LimiterInvariant, PTL

\* No message is logged twice within the interval.
THEOREM MessagesSpaced == RateLimitAssumption => (Spec => Spaced)
<1> SUFFICES ASSUME RateLimitAssumption PROVE Spec => Spaced
  OBVIOUS
<1> DEFINE Spacing ==
      \A n \in Names :
          launched[n].count > 0 /\ launched'[n] # launched[n]
              => now - launched[n].at >= Every
<1>1. ASSUME TypeOK /\ Inv, [Next]_vars PROVE [Spacing]_vars
  <2>1. CASE \E c \in Callers : Launch(c)
    BY <1>1, <2>1 DEF Launch, TypeOK, Inv
  <2>2. CASE ~\E c \in Callers : Launch(c)
    BY <1>1, <2>2 DEF Next, Inside, Call, Lock, Check, Stamp, Unlock, Tick, vars
  <2> QED BY <2>1, <2>2
<1> QED BY <1>1, LimiterInvariant, PTL DEF Spec, Spaced
===============================================================================
