----------------------------- MODULE TokenInFlight -----------------------------
(***************************************************************************)
(* TokenReconciler with a server that may carry out a request to create an     *)
(* authorization after the worker that sent it has stopped waiting: the call     *)
(* timed out, or the manager was replaced (a lease of leader election that runs   *)
(* out does not call a request back).  The next worker finds no authorization     *)
(* and creates one, and then there are two with the same description.           *)
(***************************************************************************)
EXTENDS TokenReconciler

VARIABLES
    late,       \* requests whose sender does not wait for the answer
    tooLate     \* auxiliary: authorizations that came after the last look for them

allVars == <<vars, late, tooLate>>

\* What was left of the fault budget tells apart two that ask for the same.
Requests == [org : OrgIds, by : Identities, left : 0 .. MaxFaults]

\* tooLate speaks of authorizations that are there.
StillThere(some) == {id \in some : \E a \in auths' : a.id = id}

Usual == Next /\ UNCHANGED late /\ tooLate' = StillThere(tooLate)

Abandon ==
    /\ At("CreateAuthorization")
    /\ Fail \/ Restart
    /\ late' = late \cup {[org |-> local.org, by |-> Me, left |-> faults']}
    /\ UNCHANGED tooLate

\* Finalization of the resource has looked for the last time.
LookedFor(me) == ~Held(me) \/ (At("RemoveFinalizer") /\ Me = me)

\* The description need not be unique: the server does as it is told.
Arrive ==
    \E request \in late :
        /\ late' = late \ {request}
        /\ \/ /\ ~OrgExists(request.org)
              /\ UNCHANGED <<auths, tooLate>>
           \/ /\ OrgExists(request.org)
              /\ \E id \in Ids :
                    /\ FreshId(id)
                    /\ auths' = auths \cup {[id |-> id, org |-> request.org, by |-> request.by]}
                    /\ tooLate' = IF LookedFor(request.by) THEN tooLate \cup {id} ELSE tooLate
        /\ UNCHANGED <<controllerVars, orgs, secretVars, config, local, skipped, moved>>

InitInFlight ==
    /\ Init
    /\ late = {}
    /\ tooLate = {}

NextInFlight == Usual \/ Abandon \/ Arrive

SpecInFlight == InitInFlight /\ [][NextInFlight]_allVars

(***************************************************************************)
(* Properties.                                                               *)
(***************************************************************************)
\* Finalization deletes one authorization at a time and looks again: of those with the
\* resource's description none is left behind, however many requests were carried out
\* twice, unless it came after the last look.
NoneSurvives ==
    \A a \in auths :
        Held(a.by) \/ a.id \in tooLate \/ a.by \in skipped \/ a.by[1] \in moved
===============================================================================
