-------------------------------- MODULE MCToken --------------------------------
(* TokenReconciler for TLC: two Token resources of one namespace that name the same
   Secret, in one organization.  Users create and delete them; no call fails and
   nobody else disturbs what is there. *)
EXTENDS TokenReconciler, TLC

CONSTANTS k1, k2, s1, o1

HomeO1 == [k \in Keys |-> o1]

SameSecret == [k \in Keys |-> s1]

NextUndisturbed ==
    \/ Work
    \/ \E k \in Keys : Reconcile(k) \/ Informer(k) \/ Create(k) \/ Delete(k)
    \/ \E s \in SecretNames : SecretInformer(s) \/ CollectSecret(s)

SpecUndisturbed == Init /\ [][NextUndisturbed]_vars /\ Fairness
===============================================================================
