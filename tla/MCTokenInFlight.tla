---------------------------- MODULE MCTokenInFlight ----------------------------
(* TokenInFlight for TLC: one Token with its Secret, and two organizations its
   Config may name. *)
EXTENDS TokenInFlight, TLC

CONSTANTS k1, s1, o1, o2

HomeO1 == [k \in Keys |-> o1]

OwnSecret == [k \in Keys |-> s1]

\* The server's ids are interchangeable.
IdSymmetry == Permutations(Ids)
===============================================================================
