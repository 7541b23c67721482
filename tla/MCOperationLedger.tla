------------------------- MODULE MCOperationLedger -------------------------
(***************************************************************************)
(* Instances of OperationLedger for TLC.                                   *)
(***************************************************************************)
EXTENDS OperationLedger, TLC

CONSTANTS o1, o2, s1

OneStory == [o \in Ops |-> s1]

Claiming == {"start", "resume"}
Committing == {"mutate", "closure"}
Mixed == {"start", "mutate"}

Symmetric == Permutations(Requests) \cup Permutations(Ops)
============================================================================
