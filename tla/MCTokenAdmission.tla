---------------------------- MODULE MCTokenAdmission ----------------------------
(* TokenAdmission for TLC: one Token in one organization, and the permissions it may
   ask for, one of which there is not. *)
EXTENDS TokenAdmission, TLC

CONSTANTS k1, s1, o1, read, write, typo

HomeO1 == [k \in Keys |-> o1]

OwnSecret == [k \in Keys |-> s1]

SomeRequests == {{read, write}, {typo}}
===============================================================================
