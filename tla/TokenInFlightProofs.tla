-------------------------- MODULE TokenInFlightProofs --------------------------
(***************************************************************************)
(* Theorems about TokenInFlight, for every set of resources, organizations and *)
(* ids, and however many requests are under way at a time.                     *)
(*                                                                           *)
(* Two authorizations may have one description here, so nothing that rests on   *)
(* OneAuthorization is left; what TokenProofs calls Core does not.             *)
(***************************************************************************)
EXTENDS TokenInFlight, TokenProofs

(***************************************************************************)
(* The inductive invariant behind NoneSurvives.                               *)
(***************************************************************************)
InFlightTypeOK == TypeOK /\ late \subseteq Requests /\ tooLate \subseteq Ids

\* An authorization that did not come too late is guarded like any other: duplicates are
\* deleted one after the other before the finalizer goes.
SurvivorOK(a) ==
    OrgExists(a.org) /\ (a.by[1] \notin moved => a.id \in tooLate \/ Guards(a))

\* A request that is under way is for an organization there was, that of the resource's
\* Config.  When the worker searches an organization for what is to be deleted, a request
\* that can still be carried out is for that very one.
RequestOK(request) ==
    /\ request.org[2] <= orgs[request.org[1]].gen
    /\ request.by[1] \notin moved =>
          /\ request.org[1] = Home[request.by[1]]
          /\ At("FinalizeFindAuthorizations") /\ request.by = Me => request.org[2] <= local.org[2]

InFlightInv ==
    /\ Core
    /\ \A a \in auths : SurvivorOK(a)
    /\ \A request \in late : RequestOK(request)

InFlightSafe == InFlightTypeOK /\ InFlightInv

LEMMA LateTypes ==
    ASSUME InFlightTypeOK, NEW request \in late
    PROVE  /\ request.org \in OrgIds
           /\ request.org[1] \in OrgNames
           /\ request.org[2] \in Nat
           /\ orgs[request.org[1]].gen \in Nat
           /\ request.by \in Identities
           /\ request.by[1] \in Keys
BY DEF InFlightTypeOK, TypeOK, Requests, OrgIds, Identities

(***************************************************************************)
(* The steps of TokenReconciler.                                             *)
(***************************************************************************)
\* A sender that gives up takes no other step than it could take before.
LEMMA AbandonIsNext ==
    ASSUME Abandon
    PROVE  Next /\ UNCHANGED <<auths, orgs, moved, tooLate>> /\ worker' = Idle
BY DEF Abandon, Next, Fail, Restart, Elsewhere, serverVars, CallFails, ReturnError, Finish,
   RestartManager, RestartController

\* The worker comes to the search of an organization with the one that is there now.
LEMMA RequestKept ==
    ASSUME TokenAssumption, InFlightTypeOK, Core, Next, NEW request \in late, RequestOK(request)
    PROVE  RequestOK(request)'
<1>1. /\ request.org[1] \in OrgNames
      /\ request.org[2] \in Nat
      /\ request.by[1] \in Keys
      /\ moved \subseteq moved'
      /\ TypeOK
  BY LateTypes, ServerSteps DEF InFlightTypeOK
<1>2. /\ orgs[request.org[1]].gen <= orgs'[request.org[1]].gen
      /\ orgs[request.org[1]].gen \in Nat
      /\ orgs'[request.org[1]].gen \in Nat
  BY <1>1, LateTypes, OrgsForward
<1>3. request.org[2] <= orgs'[request.org[1]].gen
  BY <1>1, <1>2 DEF RequestOK
<1>4. ASSUME request.by[1] \notin moved', At("FinalizeFindAuthorizations")', request.by = Me'
      PROVE  request.org[2] <= local'.org[2]
  <2>1. worker \in Workers(Calls) /\ local \in Locals
    BY <1>1 DEF TypeOK, ControllerTypeOK
  <2>2. request.by[1] \notin moved /\ request.org[1] = Home[request.by[1]]
    BY <1>1, <1>4 DEF RequestOK
  <2>3. ASSUME ReturnError
        PROVE  FALSE
    BY <1>4, <2>3, IdleFacts DEF ReturnError, Finish, At
  <2>4. ASSUME NEW call, GoTo(call)
        PROVE  call = "FinalizeFindAuthorizations" /\ Me' = Me
    BY <1>4, <2>1, <2>4 DEF GoTo, Workers, Me, At
  <2>5. CASE Settled
    <3>1. At("FinalizeFindAuthorizations") /\ Me' = Me /\ local'.org = local.org
      BY <1>4, <2>5 DEF Settled, Watched, At, Me
    <3> QED BY <1>4, <2>2, <3>1 DEF RequestOK
  <2>6. CASE FinalizeFindOrganization
    <3>1. GoTo("FinalizeFindAuthorizations") /\ local' = [local EXCEPT !.org = OrgId(local.orgName)]
      BY <2>4, <2>6 DEF FinalizeFindOrganization
    <3>2. local.orgName \in OrgNames /\ (worker.key \notin moved => local.orgName = Home[worker.key])
      BY <2>6 DEF FinalizeFindOrganization, At, Core, LocalOK
    <3>3. request.by[1] = worker.key
      BY <1>4, <2>4, <3>1 DEF Me
    <3>4. request.org[1] = local.orgName
      BY <2>2, <3>2, <3>3
    <3>5. local'.org = <<local.orgName, orgs[local.orgName].gen>>
      BY <2>1, <3>1 DEF Locals, OrgId
    <3> QED BY <3>4, <3>5 DEF RequestOK
  <2>7. CASE \/ FinalizeReadConfig \/ FinalizeFindAuthorizations \/ DeleteAuthorizationWithID
             \/ ReconcileReadConfig \/ ReconcileFindOrganization \/ ReconcileFindAuthorizations
    <3>1. ReturnError \/ \E call \in Calls \ {"FinalizeFindAuthorizations"} : GoTo(call)
      BY <2>7 DEF FinalizeReadConfig, FinalizeFindAuthorizations, DeleteAuthorizationWithID,
         ReconcileReadConfig, ReconcileFindOrganization, ReconcileFindAuthorizations, GiveUp,
         Calls, CommonCalls
    <3> QED BY <2>3, <2>4, <3>1
  <2> QED BY <1>1, <2>5, <2>6, <2>7, WayToWatched
<1> QED BY <1>1, <1>3, <1>4 DEF RequestOK

\* What was too late before is too late still, as long as it is there.
LEMMA SurvivorsStep ==
    ASSUME ControllerAssumption, TokenAssumption, InFlightSafe, Next,
           \A a \in auths' : a.id \in tooLate => a.id \in tooLate',
           NEW a \in auths'
    PROVE  SurvivorOK(a)'
<1>1. TypeOK /\ Core /\ Progress /\ moved \subseteq moved'
  BY NextCore, ServerSteps DEF InFlightSafe, InFlightTypeOK, InFlightInv
<1>2. CASE a \in auths
  <2>1. SurvivorOK(a)
    BY <1>2 DEF InFlightSafe, InFlightInv
  <2>2. OrgExists(a.org)'
    BY <1>1, <1>2, <2>1, OrgStays DEF SurvivorOK
  <2>3. ASSUME a.by[1] \notin moved', a.id \notin tooLate'
        PROVE  Guards(a)'
    BY <1>1, <1>2, <2>1, <2>3, GuardsKept DEF SurvivorOK
  <2> QED BY <2>2, <2>3 DEF SurvivorOK
<1>3. CASE a \notin auths
  BY <1>1, <1>3, NewOwner DEF OwnerOK, SurvivorOK
<1> QED BY <1>2, <1>3

LEMMA UsualSafe ==
    ASSUME ControllerAssumption, TokenAssumption, InFlightSafe, Usual
    PROVE  InFlightSafe'
<1>1. /\ Next /\ UNCHANGED late /\ tooLate' = StillThere(tooLate)
      /\ InFlightTypeOK /\ InFlightInv /\ TypeOK /\ Core
  BY DEF Usual, InFlightSafe, InFlightTypeOK, InFlightInv
<1>2. TypeOK' /\ Core'
  BY <1>1, NextCore
<1>3. InFlightTypeOK'
  BY <1>1, <1>2 DEF InFlightTypeOK, StillThere, Requests
<1>4. \A a \in auths' : SurvivorOK(a)'
  BY <1>1, SurvivorsStep DEF StillThere
<1>5. \A request \in late' : RequestOK(request)'
  BY <1>1, RequestKept DEF InFlightInv
<1> QED BY <1>2, <1>3, <1>4, <1>5 DEF InFlightSafe, InFlightInv

LEMMA AbandonSafe ==
    ASSUME ControllerAssumption, TokenAssumption, InFlightSafe, Abandon
    PROVE  InFlightSafe'
<1>1. /\ Next /\ UNCHANGED <<auths, orgs, moved, tooLate>> /\ worker' = Idle
      /\ InFlightTypeOK /\ InFlightInv /\ TypeOK /\ Core
  BY AbandonIsNext DEF InFlightSafe, InFlightTypeOK, InFlightInv
<1>2. TypeOK' /\ Core'
  BY <1>1, NextCore
<1>3. worker.pc = "CreateAuthorization"
  BY DEF Abandon, At
<1>4. PICK new : new.org = local.org /\ new.by = Me /\ new \in Requests /\ late' = late \cup {new}
  <2> DEFINE request == [org |-> local.org, by |-> Me, left |-> faults']
  <2>1. local.org \in OrgIds /\ Me \in Identities
    BY <1>1, <1>3, MeType DEF Core, LocalOK, At
  <2>2. faults' \in 0 .. MaxFaults
    BY <1>2 DEF TypeOK, ControllerTypeOK
  <2>3. request \in Requests
    BY <2>1, <2>2 DEF Requests
  <2> WITNESS request
  <2> QED BY <2>3 DEF Abandon
<1>5. InFlightTypeOK'
  BY <1>1, <1>2, <1>4 DEF InFlightTypeOK, Requests
<1>6. \A a \in auths' : SurvivorOK(a)'
  BY <1>1, SurvivorsStep
<1>7. ASSUME NEW request \in late
      PROVE  RequestOK(request)'
  BY <1>1, RequestKept DEF InFlightInv
<1>8. RequestOK(new)'
  <2>1. /\ local.org[2] <= orgs[local.org[1]].gen
        /\ worker.key \notin moved => local.org[1] = Home[worker.key]
    BY <1>1, <1>3 DEF Core, LocalOK
  <2>2. new.by[1] = worker.key
    BY <1>4 DEF Me
  <2>3. ~At("FinalizeFindAuthorizations")'
    BY <1>1, IdleFacts DEF At
  <2> QED BY <1>1, <1>4, <2>1, <2>2, <2>3 DEF RequestOK
<1> QED BY <1>2, <1>4, <1>5, <1>6, <1>7, <1>8 DEF InFlightSafe, InFlightInv

(***************************************************************************)
(* A request that is carried out late.                                       *)
(***************************************************************************)
LEMMA ArriveKeeps ==
    ASSUME Arrive
    PROVE  UNCHANGED <<versions, queue, worker, faults, orgs, secrets, cache, config, local,
                       skipped, moved>>
BY DEF Arrive, controllerVars, secretVars

\* It has its place: either the worker looks for it once more, or it came too late.
LEMMA ArrivalOK ==
    ASSUME InFlightSafe, NEW request \in late, OrgExists(request.org),
           UNCHANGED <<versions, worker, orgs, local, skipped, moved>>,
           NEW a, a.org = request.org, a.by = request.by,
           LookedFor(request.by) => a.id \in tooLate'
    PROVE  SurvivorOK(a)'
<1>1. InFlightTypeOK /\ Core /\ RequestOK(request)
  BY DEF InFlightSafe, InFlightInv
<1>2. /\ request.org \in OrgIds
      /\ request.org[1] \in OrgNames
      /\ request.org[2] \in Nat
      /\ request.org[2] = orgs[request.org[1]].gen
  BY <1>1, LateTypes DEF OrgExists
<1>3. OrgExists(a.org)'
  BY DEF OrgExists
<1>4. ASSUME a.by[1] \notin moved', a.id \notin tooLate'
      PROVE  Guards(a)'
  <2>1. /\ Held(a.by)'
        /\ ~(At("RemoveFinalizer")' /\ a.by = Me')
    BY <1>4 DEF LookedFor, Held, Latest, At, Me
  <2>2. a.org[1] = Home[a.by[1]]
    BY <1>1, <1>4 DEF RequestOK
  <2>3. ASSUME At("FinalizeFindAuthorizations"), a.by = Me
        PROVE  a.org = local.org
    <3>1. /\ local.org \in OrgIds
          /\ local.org[2] <= orgs[local.org[1]].gen
          /\ worker.key \notin moved => local.org[1] = Home[worker.key]
      BY <1>1, <2>3 DEF Core, LocalOK, At
    <3>2. a.by[1] = worker.key
      BY <2>3 DEF Me
    <3>3. local.org[1] = a.org[1]
      BY <1>4, <2>2, <3>1, <3>2
    <3>4. a.org[2] <= local.org[2]
      BY <1>1, <1>4, <2>3 DEF RequestOK
    <3>5. a.org[2] = local.org[2]
      BY <1>2, <3>1, <3>3, <3>4 DEF OrgIds
    <3> QED BY <1>2, <3>1, <3>3, <3>5 DEF OrgIds
  <2> QED BY <2>1, <2>2, <2>3 DEF Guards, At, Me
<1> QED BY <1>3, <1>4 DEF SurvivorOK

LEMMA ArriveSafe ==
    ASSUME ControllerAssumption, InFlightSafe, Arrive
    PROVE  InFlightSafe'
<1>1. UNCHANGED <<versions, queue, worker, faults, orgs, secrets, cache, config, local, skipped, moved>>
  BY ArriveKeeps
<1>2. InFlightTypeOK /\ InFlightInv /\ TypeOK /\ Core
  BY DEF InFlightSafe, InFlightTypeOK, InFlightInv
<1>3. PICK request \in late :
         /\ late' = late \ {request}
         /\ \/ UNCHANGED <<auths, tooLate>>
            \/ /\ OrgExists(request.org)
               /\ \E id \in Ids :
                     /\ auths' = auths \cup {[id |-> id, org |-> request.org, by |-> request.by]}
                     /\ tooLate' = IF LookedFor(request.by) THEN tooLate \cup {id} ELSE tooLate
  BY DEF Arrive
<1>4. Core'
  <2>1. \A k \in Keys : Latest(k)' = Latest(k)
    BY <1>1 DEF Latest
  <2>2. HistoryOK' /\ ConfigOK' /\ LocalOK'
    BY <1>1, <1>2 DEF Core, HistoryOK, ConfigOK, LocalOK
  <2>3. CopyOK(FinalizeCalls, ReconcileCalls)'
    BY <1>1, <1>2, <2>1 DEF Core, CopyOK, At, Latest
  <2> QED BY <2>2, <2>3 DEF Core
<1>5. \A other \in late' : RequestOK(other)'
  BY <1>1, <1>2, <1>3 DEF InFlightInv, RequestOK, At, Me
<1>6. ASSUME NEW a \in auths, tooLate \subseteq tooLate'
      PROVE  SurvivorOK(a)'
  <2>1. (OrgExists(a.org)' <=> OrgExists(a.org)) /\ (Guards(a)' <=> Guards(a))
    BY <1>1 DEF OrgExists, Guards, Held, Latest, At, Me
  <2> QED BY <1>1, <1>2, <1>6, <2>1 DEF InFlightInv, SurvivorOK
<1>7. TypeOK' <=> auths' \subseteq Authorization
  BY <1>1, <1>2 DEF TypeOK, ControllerTypeOK, At
<1>8. late' \subseteq Requests
  BY <1>2, <1>3 DEF InFlightTypeOK, Requests
<1>9. CASE UNCHANGED <<auths, tooLate>>
  <2>1. auths' \subseteq Authorization /\ tooLate' \subseteq Ids
    BY <1>2, <1>9 DEF InFlightTypeOK, TypeOK
  <2> QED
    BY <1>4, <1>5, <1>6, <1>7, <1>8, <1>9, <2>1 DEF InFlightSafe, InFlightInv, InFlightTypeOK, Requests
<1>10. ASSUME NEW id \in Ids, OrgExists(request.org),
              auths' = auths \cup {[id |-> id, org |-> request.org, by |-> request.by]},
              tooLate' = IF LookedFor(request.by) THEN tooLate \cup {id} ELSE tooLate
       PROVE  InFlightSafe'
  <2>1. PICK new : /\ new.id = id
                   /\ new.org = request.org
                   /\ new.by = request.by
                   /\ new \in Authorization
                   /\ auths' = auths \cup {new}
    <3>1. [id |-> id, org |-> request.org, by |-> request.by] \in Authorization
      BY <1>2, LateTypes DEF Authorization
    <3> WITNESS [id |-> id, org |-> request.org, by |-> request.by]
    <3> QED BY <1>10, <3>1
  <2>2. tooLate \subseteq tooLate' /\ tooLate' \subseteq Ids /\ (LookedFor(new.by) => new.id \in tooLate')
    BY <1>2, <1>10, <2>1 DEF InFlightTypeOK
  <2>3. SurvivorOK(new)'
    BY <1>1, <1>10, <2>1, <2>2, ArrivalOK
  <2>4. \A a \in auths' : SurvivorOK(a)'
    BY <1>6, <2>1, <2>2, <2>3
  <2>5. TypeOK'
    BY <1>2, <1>7, <2>1 DEF TypeOK
  <2> QED
    BY <1>4, <1>5, <1>8, <2>2, <2>4, <2>5 DEF InFlightSafe, InFlightInv, InFlightTypeOK, Requests
<1> QED BY <1>3, <1>9, <1>10

(***************************************************************************)
(* The theorems.                                                             *)
(***************************************************************************)
LEMMA InFlightInit ==
    ASSUME ControllerAssumption, TokenAssumption, InitInFlight
    PROVE  InFlightSafe
<1>1. Safe /\ auths = {} /\ late = {} /\ tooLate = {}
  BY InitSafe DEF InitInFlight, Init
<1> QED BY <1>1 DEF Safe, Inv, InFlightSafe, InFlightTypeOK, InFlightInv

LEMMA InFlightStutter ==
    ASSUME InFlightSafe, UNCHANGED allVars
    PROVE  InFlightSafe'
<1>1. UNCHANGED <<vars, late, tooLate>>
  BY DEF allVars
<1>2. UNCHANGED <<versions, queue, worker, faults, orgs, auths, secrets, cache, config, local,
                  skipped, moved>>
  BY <1>1 DEF vars, controllerVars, serverVars, secretVars
<1>3. TypeOK' /\ Core'
  <2>1. \A k \in Keys : Latest(k)' = Latest(k)
    BY <1>2 DEF Latest
  <2>2. TypeOK'
    BY <1>2 DEF InFlightSafe, InFlightTypeOK, TypeOK, ControllerTypeOK, At
  <2>3. HistoryOK' /\ ConfigOK' /\ LocalOK'
    BY <1>2 DEF InFlightSafe, InFlightInv, Core, HistoryOK, ConfigOK, LocalOK
  <2>4. CopyOK(FinalizeCalls, ReconcileCalls)'
    BY <1>2, <2>1 DEF InFlightSafe, InFlightInv, Core, CopyOK, At, Latest
  <2> QED BY <2>2, <2>3, <2>4 DEF Core
<1>4. \A a \in auths' : SurvivorOK(a)'
  BY <1>1, <1>2 DEF InFlightSafe, InFlightInv, SurvivorOK, OrgExists, Guards, Held, Latest, At, Me
<1>5. \A request \in late' : RequestOK(request)'
  BY <1>1, <1>2 DEF InFlightSafe, InFlightInv, RequestOK, At, Me
<1> QED BY <1>1, <1>3, <1>4, <1>5 DEF InFlightSafe, InFlightInv, InFlightTypeOK, Requests

\* The types and the inductive invariant hold whenever requests arrive late.
THEOREM InFlightHolds == SpecInFlight => []InFlightSafe
<1>1. InitInFlight => InFlightSafe
  BY ControllerAssumption, TokenAssumption, InFlightInit
<1>2. InFlightSafe /\ [NextInFlight]_allVars => InFlightSafe'
  BY ControllerAssumption, TokenAssumption, UsualSafe, AbandonSafe, ArriveSafe, InFlightStutter
  DEF NextInFlight
<1> QED BY <1>1, <1>2, PTL DEF SpecInFlight

\* However many requests are carried out after their sender has stopped waiting, and
\* however many authorizations of one description that leaves, none of them survives the
\* resource unless it came after finalization had looked for the last time: whether the
\* calls time out, the manager is replaced, or the organization goes and comes back.
THEOREM DuplicatesGo == SpecInFlight => []NoneSurvives
<1>1. InFlightSafe => NoneSurvives
  BY DEF InFlightSafe, InFlightInv, SurvivorOK, Guards, NoneSurvives
<1> QED BY <1>1, InFlightHolds, PTL

\* Nor does a request that arrives late, or a sender that gives up, take a status.phase back.
THEOREM PhaseForwardInFlight == SpecInFlight => PhaseForward
<1> DEFINE step == \A k \in Keys :
                      Latest(k)'.uid = Latest(k).uid
                          => PhaseRank[Latest(k).phase] <= PhaseRank[Latest(k)'.phase]
<1>1. InFlightSafe /\ [NextInFlight]_allVars => [step]_versions
  <2>1. ASSUME InFlightSafe, Next
        PROVE  step
    BY <2>1, ControllerAssumption, NextIsStep
    DEF InFlightSafe, InFlightTypeOK, InFlightInv, StepOK, Progress, Forward
  <2>2. Arrive => UNCHANGED versions
    BY ArriveKeeps
  <2>3. UNCHANGED allVars => UNCHANGED versions
    BY DEF allVars, vars, controllerVars
  <2> QED BY <2>1, <2>2, <2>3, AbandonIsNext DEF NextInFlight, Usual
<1> QED BY <1>1, InFlightHolds, PTL DEF SpecInFlight, PhaseForward

\* When every status update changes the object, a deleted Token comes back to its
\* finalizer after each of the duplicates it has deleted, and is never forgotten.
THEOREM WakeupKeptInFlight ==
    ASSUME ~SameSecond
    PROVE  SpecInFlight => []NoLostWakeup
<1>1. InitInFlight => NoLostWakeup
  BY DEF InitInFlight, Init, ControllerInit, NoLostWakeup, Latest, NoObject, Gone
<1>2. InFlightSafe /\ NoLostWakeup /\ [NextInFlight]_allVars => NoLostWakeup'
  <2>1. ASSUME InFlightSafe, NoLostWakeup, Next
        PROVE  NoLostWakeup'
    BY <2>1, ControllerAssumption, NextIsStep DEF InFlightSafe, InFlightTypeOK, InFlightInv, StepOK
  <2>2. ASSUME NoLostWakeup, UNCHANGED <<versions, queue, worker>>
        PROVE  NoLostWakeup'
    BY <2>2 DEF NoLostWakeup, Latest
  <2>3. Arrive \/ UNCHANGED allVars => UNCHANGED <<versions, queue, worker>>
    BY DEF Arrive, allVars, vars, controllerVars
  <2> QED BY <2>1, <2>2, <2>3, AbandonIsNext DEF NextInFlight, Usual
<1> QED BY <1>1, <1>2, InFlightHolds, PTL DEF SpecInFlight
===============================================================================
