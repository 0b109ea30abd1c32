--------------------------------- MODULE Specs ---------------------------------
(***************************************************************************)
(* The specs of the resources of Controller, which it leaves out.  They travel  *)
(* with the versions of the objects: specs[k][i] belongs to versions[k][i], and   *)
(* mySpec to the copy in the worker's hands.                                   *)
(***************************************************************************)
EXTENDS Controller

CONSTANTS
    Requests,   \* the specs users ask for
    NoSpec      \* the spec of an object that was never there

VARIABLES specs, mySpec

specVars == <<specs, mySpec>>

KnownSpecs == Requests \cup {NoSpec}

LatestSpec(k) == specs[k][Len(specs[k])]

InitSpecs ==
    /\ specs = [k \in Keys |-> <<NoSpec>>]
    /\ mySpec = NoSpec

\* Any step of the controller that is no request of a user.  The worker writes back the
\* spec it has copied, which is the latest one whenever the write is accepted; a status
\* update does not touch it.
SpecsFollow ==
    /\ specs' = [k \in Keys |->
                   IF Len(versions'[k]) > Len(versions[k]) THEN Append(specs[k], LatestSpec(k))
                   ELSE SubSeq(specs[k], Len(specs[k]) - Len(versions'[k]) + 1, Len(specs[k]))]
    /\ UNCHANGED mySpec

\* Reconcile reads the object from the cache.
CopySpec(k) == mySpec' = specs[k][1] /\ UNCHANGED specs

\* A request that stores an object of k stores this spec with it.
StoreSpec(k, spec) == specs' = [specs EXCEPT ![k] = Append(@, spec)] /\ UNCHANGED mySpec
================================================================================
