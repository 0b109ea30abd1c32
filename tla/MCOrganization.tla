---------------------------- MODULE MCOrganization ----------------------------
(* Instances of OrganizationReconciler for TLC: a resource with a name of its own, or
   two, in two namespaces, with the same name and a third named like the default
   organization. *)
EXTENDS OrganizationReconciler, TLC

CONSTANTS k1, k2, k3, n1

OneName == k1 :> n1

SharedNames == (k1 :> n1) @@ (k2 :> n1) @@ (k3 :> defaultOrgName)

\* The server's ids are interchangeable.
IdSymmetry == Permutations(Ids)
===============================================================================
