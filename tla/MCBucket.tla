------------------------------- MODULE MCBucket -------------------------------
(* Instances of BucketReconciler for TLC: one namespace with one or two Bucket
   resources, and one or two organizations its default Config may name. *)
EXTENDS BucketReconciler, TLC

CONSTANTS k1, k2, ns1, n1, n2, o1, o2

InNamespace == [k \in Keys |-> ns1]

DistinctNames == [k \in Keys |-> IF k = k1 THEN n1 ELSE n2]

HomeO1 == ns1 :> o1
===============================================================================
