------------------------------ MODULE Lifecycle ------------------------------
(***************************************************************************)
(* What every controller of the operator promises about what it creates at    *)
(* InfluxDB, with no caches, queues, calls or failures: something is created   *)
(* for a resource only while the finalizer holds the resource, and the          *)
(* finalizer is let go only when nothing of it is left, or when the controller  *)
(* has openly given up on it.  The reconcilers implement this specification.   *)
(***************************************************************************)
CONSTANT Identities     \* the resources there will ever be: a name and a uid

VARIABLES
    held,       \* resources that exist and have the finalizer
    past,       \* resources that are gone for good
    provided,   \* resources for which the operator has created something that is there
    excused     \* resources whose creation may stay behind

vars == <<held, past, provided, excused>>

Init ==
    /\ held = {}
    /\ past = {}
    /\ provided = {}
    /\ excused = {}

Guard(me) ==
    /\ me \notin held \cup past
    /\ held' = held \cup {me}
    /\ UNCHANGED <<past, provided, excused>>

\* A resource deleted before it got the finalizer.
Discard(me) ==
    /\ me \notin held \cup past
    /\ past' = past \cup {me}
    /\ UNCHANGED <<held, provided, excused>>

Provide(me) ==
    /\ me \in held
    /\ provided' = provided \cup {me}
    /\ UNCHANGED <<held, past, excused>>

\* The controller, or anybody else, deletes what had been created.
Withdraw(gone) ==
    /\ provided' = provided \ gone
    /\ UNCHANGED <<held, past, excused>>

Excuse(some) ==
    /\ excused' = excused \cup some
    /\ UNCHANGED <<held, past, provided>>

Release(me) ==
    /\ me \in held
    /\ me \in provided => me \in excused
    /\ held' = held \ {me}
    /\ past' = past \cup {me}
    /\ UNCHANGED <<provided, excused>>

Next ==
    \/ \E me \in Identities : Guard(me) \/ Discard(me) \/ Provide(me) \/ Release(me)
    \/ \E some \in SUBSET Identities : Withdraw(some) \/ Excuse(some)

Spec == Init /\ [][Next]_vars

(***************************************************************************)
(* What follows for a reader of the promise.                                  *)
(***************************************************************************)
\* Nothing is left behind, and who is gone does not come back.
Kept ==
    /\ provided \subseteq held \cup excused
    /\ held \cap past = {}
===============================================================================
