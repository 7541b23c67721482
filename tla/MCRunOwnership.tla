--------------------------- MODULE MCRunOwnership ---------------------------
(***************************************************************************)
(* Instances of RunOwnership for TLC.                                      *)
(***************************************************************************)
EXTENDS RunOwnership, TLC

CONSTANTS r1, r2, r3, s1, s2

OneStory == [r \in Runs |-> s1]
TwoStories == [r \in Runs |-> IF r = r3 THEN s2 ELSE s1]

Symmetric == Permutations(Threads)

(* A bound: a second takeover is only looked at while no work, closure,      *)
(* freeze, denial, reconciliation or reissue is in its way.                  *)
SecondTakeoverAlone ==
  \A k \in Takeovers : k > 1 /\ tk[k] # NoTakeover =>
    /\ \A s \in Stories : freeze[s] = {}
    /\ \A t \in Threads : th[t].call \in {None, "start"} /\ th[t].pc # "reconcile"
    /\ \A j \in Takeovers : tk[j].chal # "denied" /\ tk[j].issue <= 1
    /\ closed = {}

=============================================================================
