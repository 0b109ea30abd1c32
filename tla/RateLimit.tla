------------------------------- MODULE RateLimit -------------------------------
(***************************************************************************)
(* rateLimit, which the workers of the three controllers call for messages     *)
(* they would otherwise log every minute: one map, from the name of a message    *)
(* to the time it was last let through, guarded by one mutex.  Time is that of   *)
(* the process, which does not go back, and it may pass between any two          *)
(* statements.                                                               *)
(***************************************************************************)
EXTENDS Integers, FiniteSets

CONSTANTS
    Callers,    \* goroutines
    Names,      \* names of messages
    Every,      \* how long a message is held back (24 hours in every call)
    NoCaller,
    MaxTime     \* bound: where time ends

ASSUME RateLimitAssumption ==
    /\ NoCaller \notin Callers
    /\ Every \in Nat
    /\ MaxTime \in Nat

VARIABLES
    mu,         \* the holder of the mutex
    cache,      \* cache[n]: when n was stamped, or Never
    pc,         \* pc[c]: the next statement of caller c
    name,       \* name[c]: what c asks for
    now,
    launched    \* launched[n]: how many times f was started for n, and when at last

vars == <<mu, cache, pc, name, now, launched>>

Never == -1

Times == Nat \cup {Never}

Statements == {"idle", "lock", "check", "launch", "stamp", "unlock"}

GoOn(c, next) == pc' = [pc EXCEPT ![c] = next]

Call(c, n) ==
    /\ pc[c] = "idle"
    /\ GoOn(c, "lock")
    /\ name' = [name EXCEPT ![c] = n]
    /\ UNCHANGED <<mu, cache, now, launched>>

\* A fault to check against: no mutex.
EnterAnyhow(c) ==
    /\ pc[c] = "lock"
    /\ mu' = c
    /\ GoOn(c, "check")
    /\ UNCHANGED <<cache, name, now, launched>>

Lock(c) ==
    /\ pc[c] = "lock"
    /\ mu = NoCaller
    /\ mu' = c
    /\ GoOn(c, "check")
    /\ UNCHANGED <<cache, name, now, launched>>

\* A fault to check against: the mutex is not released on the way out that logs nothing.
CheckAndLeave(c) ==
    /\ pc[c] = "check"
    /\ LET last == cache[name[c]]
       IN GoOn(c, IF last = Never \/ now - last >= Every THEN "launch" ELSE "idle")
    /\ UNCHANGED <<mu, cache, name, now, launched>>

\* !ok || time.Since(last) >= every
Check(c) ==
    /\ pc[c] = "check"
    /\ LET last == cache[name[c]]
       IN GoOn(c, IF last = Never \/ now - last >= Every THEN "launch" ELSE "unlock")
    /\ UNCHANGED <<mu, cache, name, now, launched>>

\* go f()
Launch(c) ==
    /\ pc[c] = "launch"
    /\ launched' = [launched EXCEPT ![name[c]] = [count |-> @.count + 1, at |-> now]]
    /\ GoOn(c, "stamp")
    /\ UNCHANGED <<mu, cache, name, now>>

\* A fault to check against: the stamp is the time the interval began.
StampBegin(c) ==
    /\ pc[c] = "stamp"
    /\ cache' = [cache EXCEPT ![name[c]] = now - Every]
    /\ GoOn(c, "unlock")
    /\ UNCHANGED <<mu, name, now, launched>>

Stamp(c) ==
    /\ pc[c] = "stamp"
    /\ cache' = [cache EXCEPT ![name[c]] = now]
    /\ GoOn(c, "unlock")
    /\ UNCHANGED <<mu, name, now, launched>>

Unlock(c) ==
    /\ pc[c] = "unlock"
    /\ mu' = NoCaller
    /\ GoOn(c, "idle")
    /\ UNCHANGED <<cache, name, now, launched>>

Tick ==
    /\ now < MaxTime
    /\ now' = now + 1
    /\ UNCHANGED <<mu, cache, pc, name, launched>>

Init ==
    /\ mu = NoCaller
    /\ cache = [n \in Names |-> Never]
    /\ pc = [c \in Callers |-> "idle"]
    /\ name \in [Callers -> Names]
    /\ now = 0
    /\ launched = [n \in Names |-> [count |-> 0, at |-> Never]]

Inside(c) == Check(c) \/ Launch(c) \/ Stamp(c) \/ Unlock(c)

Next ==
    \/ \E c \in Callers : Lock(c) \/ Inside(c)
    \/ \E c \in Callers, n \in Names : Call(c, n)
    \/ Tick

Spec == Init /\ [][Next]_vars

(***************************************************************************)
(* A goroutine that can run does, and sync.Mutex hands itself to one that has  *)
(* waited too long.  Nobody has to call.                                      *)
(***************************************************************************)
Fairness == \A c \in Callers : WF_vars(Inside(c)) /\ SF_vars(Lock(c))

FairSpec == Spec /\ Fairness

(***************************************************************************)
(* Properties.                                                               *)
(***************************************************************************)
TypeOK ==
    /\ mu \in Callers \cup {NoCaller}
    /\ cache \in [Names -> Times]
    /\ pc \in [Callers -> Statements]
    /\ name \in [Callers -> Names]
    /\ now \in Nat
    /\ launched \in [Names -> [count : Nat, at : Times]]

\* However many callers ask for a message at once, and however long they take from one
\* statement to the next, it is not logged twice within the interval.
Spaced ==
    [][\A n \in Names :
          launched[n].count > 0 /\ launched'[n] # launched[n]
              => now - launched[n].at >= Every]_vars

\* A Go map must not be written while anybody else uses it.
UsesMap(c) == pc[c] \in {"check", "stamp"}

MapIsExclusive == \A c, d \in Callers : UsesMap(c) /\ pc[d] = "stamp" => c = d

\* Nobody waits for the mutex for ever: a reconcile is not held up by what others log.
CallReturns == \A c \in Callers : pc[c] = "lock" ~> pc[c] = "idle"

(***************************************************************************)
(* The invariant behind Spaced: who is past the lock holds the mutex, and what  *)
(* was launched is stamped, with a later time, unless its caller is about to.    *)
(***************************************************************************)
Inv ==
    /\ \A c \in Callers : pc[c] \notin {"idle", "lock"} <=> mu = c
    /\ \A n \in Names :
          /\ cache[n] <= now
          /\ launched[n].at <= now
          /\ launched[n].count > 0 =>
                \/ launched[n].at <= cache[n] /\ cache[n] # Never
                \/ \E c \in Callers : pc[c] = "stamp" /\ name[c] = n
    /\ \A c \in Callers :
          pc[c] = "launch" =>
              LET n == name[c]
              IN launched[n].count > 0 => now - launched[n].at >= Every
===============================================================================
