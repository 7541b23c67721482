--------------------------- MODULE MCWriterLease ---------------------------
(* Instance of WriterLease for TLC: two processes for one database and     *)
(* op_ids of the three kinds.                                              *)
EXTENDS WriterLease

CONSTANTS p1, p2, r1, r2, o1, o2, o3

OneOfEach == [o \in Ops |-> IF o = o1 THEN "atomic" ELSE IF o = o2 THEN "plain" ELSE "selftest"]

=============================================================================
