----------------------------- MODULE TokenAdmission -----------------------------
(***************************************************************************)
(* TokenReconciler with the permissions of the resources, a spec being the set  *)
(* of its permissions: which of them the webhooks admit, and which the server    *)
(* grants.  Only creation is validated, and the permissions count only when an   *)
(* authorization is created.                                                  *)
(***************************************************************************)
EXTENDS TokenReconciler, Specs

CONSTANT Known      \* the permissions with a type and a resource type that there is

VARIABLES
    granted,    \* granted[id]: the permissions of authorization id
    edited      \* auxiliary: resources whose permissions have been changed

allVars == <<vars, specVars, granted, edited>>

(***************************************************************************)
(* The webhooks of the kind.                                                 *)
(***************************************************************************)
\* A fault to check against: a webhook that lets everything pass.
AcceptAny(spec) == TRUE

ValidateCreate(spec) == spec \subseteq Known

ValidateUpdate(spec, old) == TRUE

(***************************************************************************)
(* The steps of TokenReconciler with the permissions.                         *)
(***************************************************************************)
Grant ==
    granted' = [id \in Ids |->
                  IF \E a \in auths' \ auths : a.id = id THEN mySpec
                  ELSE IF \E a \in auths \cap auths' : a.id = id THEN granted[id]
                  ELSE NoSpec]

\* The server knows no other permissions: it answers with an error, and when that is
\* 422 the handler panics.
RefuseGrant ==
    /\ \/ GiveUp /\ UNCHANGED <<versions, cache>>
       \/ RestartManager
    /\ UNCHANGED <<faults, serverVars, secrets, config, skipped, moved>>

WorkWithSpec ==
    /\ IF At("CreateAuthorization") /\ ~(mySpec \subseteq Known) THEN RefuseGrant ELSE Work
    /\ SpecsFollow
    /\ Grant
    /\ UNCHANGED edited

ReconcileCopy(k) == Reconcile(k) /\ CopySpec(k) /\ UNCHANGED <<granted, edited>>

InformerCopy(k) == Informer(k) /\ SpecsFollow /\ UNCHANGED <<granted, edited>>

\* kubectl create: stored when the webhook admits it.
Apply(k, spec) ==
    /\ ValidateCreate(spec)
    /\ Create(k)
    /\ StoreSpec(k, spec)
    /\ UNCHANGED <<granted, edited>>

\* kubectl apply or edit of an object that is there.
Change(k, spec) ==
    /\ Latest(k).exists
    /\ spec # LatestSpec(k)
    /\ ValidateUpdate(spec, LatestSpec(k))
    /\ Edit(k)
    /\ StoreSpec(k, spec)
    /\ edited' = edited \cup {k}
    /\ UNCHANGED granted

Around ==
    /\ \/ Fail
       \/ Restart
       \/ CreateAuthorizationPanics
       \/ \E k \in Keys : Delete(k) \/ ChangeConfig(k)
       \/ Drift
       \/ \E o \in OrgNames : ToggleOrganization(o)
    /\ SpecsFollow
    /\ Grant
    /\ UNCHANGED edited

SecretStep(s) ==
    /\ SecretInformer(s) \/ CollectSecret(s) \/ EditSecret(s)
    /\ UNCHANGED <<specVars, granted, edited>>

InitAdmission ==
    /\ Init
    /\ InitSpecs
    /\ granted = [id \in Ids |-> NoSpec]
    /\ edited = {}

NextAdmission ==
    \/ WorkWithSpec
    \/ Around
    \/ \E k \in Keys : ReconcileCopy(k) \/ InformerCopy(k)
    \/ \E k \in Keys, spec \in Requests : Apply(k, spec) \/ Change(k, spec)
    \/ \E s \in SecretNames : SecretStep(s)

\* As for TokenReconciler.
FairnessAdmission ==
    /\ WF_allVars(WorkWithSpec)
    /\ \A k \in Keys : WF_allVars(InformerCopy(k)) /\ SF_allVars(ReconcileCopy(k))
    /\ \A s \in SecretNames :
          WF_allVars(SecretInformer(s) /\ SecretStep(s)) /\ WF_allVars(CollectSecret(s) /\ SecretStep(s))

FairSpecAdmission == InitAdmission /\ [][NextAdmission]_allVars /\ FairnessAdmission

(***************************************************************************)
(* Properties.                                                               *)
(***************************************************************************)
\* What the webhook admits can be had: a resource that stays as it was created becomes
\* ready, and in the end its Secret has the token of an authorization with the
\* permissions it asks for.
Stays(k, o) == config[k] = o /\ orgs[o].up /\ Live(Latest(k))

HasWhatItAsks(k, o) ==
    /\ Latest(k).phase = phaseReady
    /\ secrets[SecretOf[k]].exists
    /\ \E a \in Described(OrgId(o), <<k, Latest(k).uid>>) :
          a.id = secrets[SecretOf[k]].token /\ granted[a.id] = LatestSpec(k)

AdmittedIsGranted ==
    \A k \in Keys, o \in OrgNames :
        <>[](Stays(k, o) /\ k \notin edited) => <>[]HasWhatItAsks(k, o)
===============================================================================
