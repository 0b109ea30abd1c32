---------------------------- MODULE TokenReconciler ----------------------------
(***************************************************************************)
(* The controller of Token resources.  ReconcileResources creates an InfluxDB *)
(* authorization in the organization of the resource's Config, described by    *)
(* the resource's name, namespace and uid, and keeps its token in a Kubernetes  *)
(* Secret; FinalizeResources deletes the authorization.  The Secret has the      *)
(* resource as its owner and is left to the garbage collector of Kubernetes.    *)
(*                                                                           *)
(* The description names the resource and its uid, so an authorization's        *)
(* description is modelled by the identity it was created for.                 *)
(***************************************************************************)
EXTENDS Controller

CONSTANTS
    OrgNames,       \* names of organizations on the InfluxDB server
    Home,           \* Home[k]: the organization the Config of resource k names at first
    SecretNames,    \* namespaced names of the Secrets
    SecretOf,       \* SecretOf[k]: spec.secretName of resource k
    Ids,            \* authorization ids the server may give out; each stands for its token
    NoId

ASSUME TokenAssumption ==
    /\ Home \in [Keys -> OrgNames]
    /\ SecretOf \in [Keys -> SecretNames]
    /\ {"noConfig", "noSecret"} \cap OrgNames = {}
    /\ NoId \notin Ids

VARIABLES
    orgs,       \* orgs[o]: whether organization o exists, and its incarnation
    auths,      \* the authorizations on the server that the operator created
    secrets,    \* secrets[s]: Secret s at the API server
    cache,      \* cache[s]: Secret s as the informer has it, and whether that is current
    config,     \* config[k]: the organization of k's Config, or what is missing
    local,      \* what the worker remembers between its calls
    skipped,    \* auxiliary: resources finalized without their Config
    moved       \* auxiliary: resources whose Config has named another organization

serverVars == <<orgs, auths>>

secretVars == <<secrets, cache>>

vars == <<controllerVars, serverVars, secretVars, config, local, skipped, moved>>

Identities == Keys \X Nat

OrgIds == OrgNames \X Nat

Authorization == [id : Ids, org : OrgIds, by : Identities]

Configs == OrgNames \cup {"noConfig", "noSecret"}

\* token is NoId when the Secret holds something else than a token of the operator.
Secret == [exists : BOOLEAN, owner : Identities \cup {External}, token : Ids \cup {NoId}]

NoSecret == [exists |-> FALSE, owner |-> External, token |-> NoId]

Copies == [secret : Secret, current : BOOLEAN]

NoCopy == [secret |-> NoSecret, current |-> FALSE]

NoOrg == <<>>

Nothing == [orgName |-> NoId, org |-> NoOrg, auth |-> NoId, created |-> FALSE, copy |-> NoCopy]

Locals ==
    [orgName : OrgNames \cup {NoId}, org : OrgIds \cup {NoOrg}, auth : Ids \cup {NoId},
     created : BOOLEAN, copy : Copies]

Calls == CommonCalls \cup
         {"FinalizeFindOrganization", "FinalizeFindAuthorizations", "DeleteAuthorizationWithID",
          "ReconcileFindOrganization", "ReconcileFindAuthorizations", "CreateAuthorization",
          "CreateSecret", "GetSecret", "UpdateSecret"}

MyConfig == config[worker.key]

MySecret == SecretOf[worker.key]

OrgId(o) == <<o, orgs[o].gen>>

OrgExists(org) == orgs[org[1]].up /\ orgs[org[1]].gen = org[2]

\* The authorizations of an organization that carry the resource's description.
Described(org, me) == {a \in auths : a.org = org /\ a.by = me}

FreshId(id) ==
    /\ id # local.auth
    /\ \A a \in auths : a.id # id
    /\ \A s \in SecretNames : id \notin {secrets[s].token, cache[s].secret.token}

(***************************************************************************)
(* The handlers that only touch the resource itself.                          *)
(***************************************************************************)
Elsewhere == <<serverVars, secretVars, config, skipped, moved>>

Reconcile(k) == Dispatch(k) /\ UNCHANGED <<Elsewhere, local>>

FinalizeStatus == MarkTerminating /\ UNCHANGED <<Elsewhere, local>>

RemoveFinalizer == DropFinalizer /\ UNCHANGED <<Elsewhere, local>>

AddFinalizer == PutFinalizer /\ UNCHANGED <<Elsewhere, local>>

InitializeStatus == MarkInitialized /\ UNCHANGED <<Elsewhere, local>>

DeletedStatus == MarkDeleted /\ UNCHANGED <<Elsewhere, local>>

\* A fault to check against: status.data is forgotten, and the stamp alone is new.
CreatedStatusStampOnly == MarkCreated /\ UNCHANGED <<Elsewhere, local>>

\* The first time the phase becomes ready; later on status.data names the new
\* authorization, so the update changes the object even when the stamp does not.
CreatedStatus ==
    /\ At("CreatedStatus")
    /\ Save(WithStatus(worker.obj,
                       IF reasonCreated \in worker.obj.conds THEN worker.obj.phase ELSE phaseReady,
                       worker.obj.conds \cup {reasonCreated}))
    /\ UNCHANGED <<Elsewhere, local>>

GiveUp == ReturnError /\ local' = Nothing

(***************************************************************************)
(* FinalizeResources: read the Config and its secret, find the organization   *)
(* and its authorizations (an organization that is gone took them along), and   *)
(* delete the one with the resource's description.                            *)
(***************************************************************************)
\* A fault to check against: a missing token is taken for a missing Config.
FinalizeWithoutToken ==
    /\ At("FinalizeResources")
    /\ IF MyConfig \in {"noConfig", "noSecret"}
       THEN GoTo("RemoveFinalizer") /\ UNCHANGED local
       ELSE /\ GoTo("FinalizeFindOrganization")
            /\ local' = [local EXCEPT !.orgName = MyConfig]
    /\ skipped' = IF MyConfig = "noConfig" THEN skipped \cup {Me} ELSE skipped
    /\ UNCHANGED <<versions, queue, faults, serverVars, secretVars, config, moved>>

FinalizeReadConfig ==
    /\ At("FinalizeResources")
    /\ \/ /\ MyConfig = "noConfig"
          /\ GoTo("RemoveFinalizer")
          /\ skipped' = skipped \cup {Me}
          /\ UNCHANGED <<queue, local>>
       \/ /\ MyConfig = "noSecret"
          /\ GiveUp
          /\ UNCHANGED skipped
       \/ /\ MyConfig \in OrgNames
          /\ GoTo("FinalizeFindOrganization")
          /\ local' = [local EXCEPT !.orgName = MyConfig]
          /\ UNCHANGED <<queue, skipped>>
    /\ UNCHANGED <<versions, faults, serverVars, secretVars, config, moved>>

\* A fault to check against: an organization that is gone is an error.
FinalizeFindOrganizationStrictly ==
    /\ At("FinalizeFindOrganization")
    /\ \/ /\ ~orgs[local.orgName].up
          /\ GiveUp
       \/ /\ orgs[local.orgName].up
          /\ GoTo("FinalizeFindAuthorizations")
          /\ local' = [local EXCEPT !.org = OrgId(local.orgName)]
          /\ UNCHANGED queue
    /\ UNCHANGED <<versions, faults, Elsewhere>>

FinalizeFindOrganization ==
    /\ At("FinalizeFindOrganization")
    /\ \/ /\ ~orgs[local.orgName].up
          /\ GoTo("RemoveFinalizer")
          /\ local' = Nothing
       \/ /\ orgs[local.orgName].up
          /\ GoTo("FinalizeFindAuthorizations")
          /\ local' = [local EXCEPT !.org = OrgId(local.orgName)]
    /\ UNCHANGED <<versions, queue, faults, Elsewhere>>

FinalizeFindAuthorizations ==
    /\ At("FinalizeFindAuthorizations")
    /\ \/ /\ Described(local.org, Me) = {}
          /\ GoTo("RemoveFinalizer")
          /\ local' = Nothing
       \/ \E a \in Described(local.org, Me) :
          /\ GoTo("DeleteAuthorizationWithID")
          /\ local' = [local EXCEPT !.auth = a.id]
    /\ UNCHANGED <<versions, queue, faults, Elsewhere>>

\* A fault to check against: once an authorization is deleted that is taken to be all.
DeleteAuthorizationOnce ==
    /\ At("DeleteAuthorizationWithID")
    /\ \/ /\ \A a \in auths : a.id # local.auth
          /\ ReturnError
          /\ UNCHANGED <<auths, faults>>
       \/ /\ \E a \in auths : a.id = local.auth
          /\ auths' = {a \in auths : a.id # local.auth}
          /\ \/ GoTo("RemoveFinalizer") /\ UNCHANGED <<queue, faults>>
             \/ Fault /\ ReturnError
    /\ local' = Nothing
    /\ UNCHANGED <<versions, orgs, secretVars, config, skipped, moved>>

DeleteAuthorizationWithID ==
    /\ At("DeleteAuthorizationWithID")
    /\ \/ /\ \A a \in auths : a.id # local.auth
          /\ ReturnError
          /\ UNCHANGED <<auths, faults>>
       \/ /\ \E a \in auths : a.id = local.auth
          /\ auths' = {a \in auths : a.id # local.auth}
          /\ \/ GoTo("DeletedStatus") /\ UNCHANGED <<queue, faults>>
             \/ Fault /\ ReturnError
    /\ local' = Nothing
    /\ UNCHANGED <<versions, orgs, secretVars, config, skipped, moved>>

(***************************************************************************)
(* ReconcileResources: read the Config and its secret, find the organization  *)
(* and the authorization with the resource's description, create it when there  *)
(* is none, put its token in the Secret, record that in the status once and      *)
(* each time the authorization had to be created again.                       *)
(***************************************************************************)
ReconcileReadConfig ==
    /\ At("ReconcileResources")
    /\ \/ /\ MyConfig \in {"noConfig", "noSecret"}
          /\ GiveUp
       \/ /\ MyConfig \in OrgNames
          /\ GoTo("ReconcileFindOrganization")
          /\ local' = [local EXCEPT !.orgName = MyConfig]
          /\ UNCHANGED queue
    /\ UNCHANGED <<versions, faults, Elsewhere>>

\* A fault to check against: the name is kept where the id is needed.
FindOrganizationKeepsName ==
    /\ At("ReconcileFindOrganization")
    /\ \/ ~orgs[local.orgName].up /\ GiveUp
       \/ /\ orgs[local.orgName].up
          /\ GoTo("ReconcileFindAuthorizations")
          /\ local' = [local EXCEPT !.org = local.orgName]
          /\ UNCHANGED queue
    /\ UNCHANGED <<versions, faults, Elsewhere>>

ReconcileFindOrganization ==
    /\ At("ReconcileFindOrganization")
    /\ \/ /\ ~orgs[local.orgName].up
          /\ GiveUp
       \/ /\ orgs[local.orgName].up
          /\ GoTo("ReconcileFindAuthorizations")
          /\ local' = [local EXCEPT !.org = OrgId(local.orgName)]
          /\ UNCHANGED queue
    /\ UNCHANGED <<versions, faults, Elsewhere>>

\* A fault to check against: the status is believed where it says nothing was created.
FindAuthorizationsOnce ==
    /\ At("ReconcileFindAuthorizations")
    /\ \/ /\ Described(local.org, Me) = {} \/ reasonCreated \notin worker.obj.conds
          /\ GoTo("CreateAuthorization")
          /\ UNCHANGED local
       \/ /\ reasonCreated \in worker.obj.conds
          /\ \E a \in Described(local.org, Me) : local' = [local EXCEPT !.auth = a.id]
          /\ GoTo("CreateSecret")
    /\ UNCHANGED <<versions, queue, faults, Elsewhere>>

ReconcileFindAuthorizations ==
    /\ At("ReconcileFindAuthorizations")
    /\ \/ /\ Described(local.org, Me) = {}
          /\ GoTo("CreateAuthorization")
          /\ UNCHANGED local
       \/ \E a \in Described(local.org, Me) :
          /\ GoTo("CreateSecret")
          /\ local' = [local EXCEPT !.auth = a.id]
    /\ UNCHANGED <<versions, queue, faults, Elsewhere>>

\* A new manager starts with new copies of the Secrets, too.
RestartManager ==
    /\ RestartController
    /\ local' = Nothing
    /\ cache' = [s \in SecretNames |-> [secret |-> secrets[s], current |-> TRUE]]

\* An organization that is gone meanwhile is an error.
CreateAuthorization ==
    /\ At("CreateAuthorization")
    /\ \/ /\ ~OrgExists(local.org)
          /\ GiveUp
          /\ UNCHANGED <<faults, auths>>
       \/ /\ OrgExists(local.org)
          /\ \E id \in Ids :
                /\ FreshId(id)
                /\ auths' = auths \cup {[id |-> id, org |-> local.org, by |-> Me]}
                /\ \/ /\ GoTo("CreateSecret")
                      /\ local' = [local EXCEPT !.auth = id, !.created = TRUE]
                      /\ UNCHANGED <<queue, faults>>
                   \/ Fault /\ GiveUp
    /\ UNCHANGED <<versions, orgs, secretVars, config, skipped, moved>>

\* On an answer of 422 the handler reads the authorization it was not given, and the
\* manager stops with that panic.
CreateAuthorizationPanics ==
    /\ At("CreateAuthorization")
    /\ OrgExists(local.org)
    /\ Fault
    /\ RestartManager
    /\ UNCHANGED <<serverVars, secrets, config, skipped, moved>>

\* What the API server stores under s; every copy taken before is out of date.
StoreSecret(s, secret) ==
    /\ secrets' = [secrets EXCEPT ![s] = secret]
    /\ cache' = [cache EXCEPT ![s].current = FALSE]

\* The end of ReconcileResources: nothing to record when the authorization was there.
RecordCreation ==
    /\ local' = Nothing
    /\ IF reasonCreated \in worker.obj.conds /\ ~local.created
       THEN RequeueAfter
       ELSE GoTo("CreatedStatus") /\ UNCHANGED queue

CreateSecret ==
    /\ At("CreateSecret")
    /\ \/ /\ secrets[MySecret].exists
          /\ GoTo("GetSecret")
          /\ UNCHANGED <<queue, faults, local, secretVars>>
       \/ /\ ~secrets[MySecret].exists
          /\ StoreSecret(MySecret, [exists |-> TRUE, owner |-> Me, token |-> local.auth])
          /\ \/ RecordCreation /\ UNCHANGED faults
             \/ Fault /\ GiveUp
    /\ UNCHANGED <<versions, serverVars, config, skipped, moved>>

\* A fault to check against: a Secret that exists is taken for the resource's own.
GetSecretUnread ==
    /\ At("GetSecret")
    /\ \/ ~cache[MySecret].secret.exists /\ GiveUp
       \/ cache[MySecret].secret.exists /\ RecordCreation
    /\ UNCHANGED <<versions, faults, Elsewhere>>

\* r.Get answers from the informer's cache, which may not have the Secret yet.
GetSecret ==
    /\ At("GetSecret")
    /\ \/ /\ ~cache[MySecret].secret.exists
          /\ GiveUp
       \/ /\ cache[MySecret].secret.exists
          /\ cache[MySecret].secret.token = local.auth
          /\ RecordCreation
       \/ /\ cache[MySecret].secret.exists
          /\ cache[MySecret].secret.token # local.auth
          /\ GoTo("UpdateSecret")
          /\ local' = [local EXCEPT !.copy = cache[MySecret]]
          /\ UNCHANGED queue
    /\ UNCHANGED <<versions, faults, Elsewhere>>

\* Refused when the copy is out of date; the owner stays who it was.
UpdateSecret ==
    /\ At("UpdateSecret")
    /\ \/ /\ ~local.copy.current
          /\ GiveUp
          /\ UNCHANGED <<faults, secretVars>>
       \/ /\ local.copy.current
          /\ StoreSecret(MySecret, [local.copy.secret EXCEPT !.token = local.auth])
          /\ \/ RecordCreation /\ UNCHANGED faults
             \/ Fault /\ GiveUp
    /\ UNCHANGED <<versions, serverVars, config, skipped, moved>>

(***************************************************************************)
(* The world around the controller.                                          *)
(***************************************************************************)
Informer(k) == Deliver(k) /\ UNCHANGED <<Elsewhere, local>>

SecretInformer(s) ==
    /\ ~cache[s].current
    /\ cache' = [cache EXCEPT ![s] = [secret |-> secrets[s], current |-> TRUE]]
    /\ UNCHANGED <<controllerVars, serverVars, secrets, config, local, skipped, moved>>

Create(k) == UserCreate(k) /\ UNCHANGED <<Elsewhere, local>>

Delete(k) == UserDelete(k) /\ UNCHANGED <<Elsewhere, local>>

Edit(k) == UserEdit(k) /\ UNCHANGED <<Elsewhere, local>>

Fail ==
    /\ CallFails
    /\ local' = Nothing
    /\ UNCHANGED Elsewhere

Restart ==
    /\ Fault
    /\ RestartManager
    /\ UNCHANGED <<serverVars, secrets, config, skipped, moved>>

\* Somebody other than the worker writes Secret s.
OutsideWrite(s, secret) ==
    /\ StoreSecret(s, secret)
    /\ local' = IF worker.key \in Keys /\ MySecret = s
                THEN [local EXCEPT !.copy.current = FALSE] ELSE local
    /\ UNCHANGED <<versions, queue, worker, serverVars, config, skipped, moved>>

\* Kubernetes deletes a Secret when the resource that owns it is gone.
CollectSecret(s) ==
    /\ secrets[s].exists
    /\ secrets[s].owner # External
    /\ LET obj == Latest(secrets[s].owner[1])
       IN ~(obj.exists /\ obj.uid = secrets[s].owner[2])
    /\ OutsideWrite(s, NoSecret)
    /\ UNCHANGED faults

\* A user deletes, creates or overwrites the Secret.
EditSecret(s) ==
    /\ Fault
    /\ \/ secrets[s].exists /\ OutsideWrite(s, NoSecret)
       \/ OutsideWrite(s, [secrets[s] EXCEPT !.exists = TRUE, !.token = NoId])

\* An organization is deleted, and its authorizations with it, or created (again).
ToggleOrganization(o) ==
    /\ Fault
    /\ \/ /\ orgs[o].up
          /\ orgs' = [orgs EXCEPT ![o].up = FALSE]
          /\ auths' = {a \in auths : a.org # OrgId(o)}
       \/ /\ ~orgs[o].up
          /\ orgs' = [orgs EXCEPT ![o] = [up |-> TRUE, gen |-> @.gen + 1]]
          /\ UNCHANGED auths
    /\ UNCHANGED <<versions, queue, worker, secretVars, config, local, skipped, moved>>

\* Somebody else revokes an authorization.
Drift ==
    /\ Fault
    /\ \E a \in auths : auths' = auths \ {a}
    /\ UNCHANGED <<versions, queue, worker, orgs, secretVars, config, local, skipped, moved>>

\* The Config or its secret disappears or comes back, or names another organization.
ChangeConfig(k) ==
    /\ Fault
    /\ \E c \in Configs \ {config[k]} :
          /\ config' = [config EXCEPT ![k] = c]
          /\ moved' = IF c \in OrgNames \ {Home[k]} THEN moved \cup {k} ELSE moved
    /\ UNCHANGED <<versions, queue, worker, serverVars, secretVars, local, skipped>>

Init ==
    /\ ControllerInit
    /\ orgs = [o \in OrgNames |-> [up |-> TRUE, gen |-> 0]]
    /\ auths = {}
    /\ secrets = [s \in SecretNames |-> NoSecret]
    /\ cache = [s \in SecretNames |-> [secret |-> NoSecret, current |-> TRUE]]
    /\ config = Home
    /\ local = Nothing
    /\ skipped = {}
    /\ moved = {}

Work ==
    \/ FinalizeStatus
    \/ FinalizeReadConfig
    \/ FinalizeFindOrganization
    \/ FinalizeFindAuthorizations
    \/ DeleteAuthorizationWithID
    \/ DeletedStatus
    \/ RemoveFinalizer
    \/ AddFinalizer
    \/ InitializeStatus
    \/ ReconcileReadConfig
    \/ ReconcileFindOrganization
    \/ ReconcileFindAuthorizations
    \/ CreateAuthorization
    \/ CreateSecret
    \/ GetSecret
    \/ UpdateSecret
    \/ CreatedStatus

Next ==
    \/ Work
    \/ Fail
    \/ Restart
    \/ CreateAuthorizationPanics
    \/ Drift
    \/ \E k \in Keys : Reconcile(k) \/ Informer(k)
    \/ \E k \in Keys : Create(k) \/ Delete(k) \/ Edit(k) \/ ChangeConfig(k)
    \/ \E o \in OrgNames : ToggleOrganization(o)
    \/ \E s \in SecretNames : SecretInformer(s) \/ CollectSecret(s) \/ EditSecret(s)

(***************************************************************************)
(* As for the other kinds; and the garbage collector and the watch of Secrets *)
(* do their work in the end.                                                  *)
(***************************************************************************)
Fairness ==
    /\ WF_vars(Work)
    /\ \A k \in Keys : WF_vars(Informer(k)) /\ SF_vars(Reconcile(k))
    /\ \A s \in SecretNames : WF_vars(SecretInformer(s)) /\ WF_vars(CollectSecret(s))

Spec == Init /\ [][Next]_vars

(***************************************************************************)
(* Properties.                                                               *)
(***************************************************************************)
Life == INSTANCE Lifecycle WITH
            Identities <- Resources,
            held <- HeldResources,
            past <- PastResources,
            provided <- {a.by : a \in auths},
            excused <- skipped \cup {me \in Resources : me[1] \in moved}

\* Seen without its caches, calls and failures, the controller keeps the promise of
\* Lifecycle: it creates only for resources its finalizer holds, and lets go of a
\* resource when nothing of it is left at InfluxDB or it has openly given up.
ImplementsLifecycle == Life!Spec

TypeOK ==
    /\ ControllerTypeOK(Calls)
    /\ orgs \in [OrgNames -> [up : BOOLEAN, gen : Nat]]
    /\ auths \subseteq Authorization
    /\ secrets \in [SecretNames -> Secret]
    /\ cache \in [SecretNames -> Copies]
    /\ config \in [Keys -> Configs]
    /\ local \in Locals
    /\ skipped \subseteq Identities
    /\ moved \subseteq Keys

\* An authorization is never left behind: the resource it was created for is still
\* there with its finalizer, unless it was finalized without its Config, or the
\* Config has meanwhile named another organization.
NoOrphan ==
    \A a \in auths : Held(a.by) \/ a.by \in skipped \/ a.by[1] \in moved

\* A resource has at most one authorization in an organization: after lost answers,
\* conflicts and restarts the worker finds the one it has made by its description.
OneAuthorization ==
    \A a, b \in auths : a.org = b.org /\ a.by = b.by => a = b

\* Status updates change more than a stamp here: a resource is not forgotten even
\* when two stamps coincide, as long as its Config stays with one organization.
StampsDoNotMatter ==
    moved = {} => NoLostWakeup

\* A deleted resource goes away, also when its organization was deleted before it,
\* provided its Config does not point to a missing secret for ever.
DeletionCompletes ==
    \A k \in Keys :
        <>[](config[k] # "noSecret") => []<>~(Latest(k).exists /\ Latest(k).deleting)

\* Two resources may name the same Secret.  They overwrite each other's token every
\* minute, and the garbage collector takes the Secret from both when the one that made
\* it goes; but as long as one of them stays the Secret ends up with a token that
\* works, its own or the other's.
SecretServes ==
    \A k \in Keys, o \in OrgNames :
        <>[](config[k] = o /\ orgs[o].up /\ Live(Latest(k)))
            => <>[](/\ secrets[SecretOf[k]].exists
                    /\ \E a \in auths :
                          /\ a.id = secrets[SecretOf[k]].token
                          /\ SecretOf[a.by[1]] = SecretOf[k])
===============================================================================
