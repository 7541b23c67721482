--------------------------- MODULE MCPushBarrier ---------------------------
(* Instance of PushBarrier for TLC: model values for sessions, repos and   *)
(* callers.                                                                *)
EXTENDS PushBarrier, TLC

CONSTANTS s1, s2, r1, q1, q2

TwoSessions == {s1, s2}
OneRepo == {r1}
OneCaller == {q1}
TwoCallers == {q1, q2}

\* The callers of the barrier are alike (only the runs without fairness use it).
Symmetric == Permutations(Requesters)

=============================================================================
