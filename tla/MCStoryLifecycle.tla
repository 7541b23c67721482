-------------------------- MODULE MCStoryLifecycle --------------------------
(* StoryLifecycle for TLC: threads and op_ids are interchangeable.         *)
EXTENDS StoryLifecycle, TLC

Symmetry == Permutations(Threads) \union Permutations(Ops) \union Permutations(Stories)

=============================================================================
