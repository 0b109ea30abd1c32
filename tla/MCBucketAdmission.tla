--------------------------- MODULE MCBucketAdmission ---------------------------
(* BucketAdmission for TLC: one Bucket, two organizations its default Config may
   name, and requests on both sides of every bound of the webhook. *)
EXTENDS BucketAdmission, TLC

CONSTANTS k1, ns1, n1, o1, o2, d1, d2

InNamespace == [k \in Keys |-> ns1]

OneName == [k \in Keys |-> n1]

HomeO1 == ns1 :> o1

SomeRequests ==
    {[secondsTtl |-> ttl, description |-> d1] : ttl \in {-3600, 0, 3599, 3600}}
        \cup {[secondsTtl |-> 3600, description |-> d2]}

\* The server's ids are interchangeable.
IdSymmetry == Permutations(Ids)
===============================================================================
