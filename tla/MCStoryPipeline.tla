-------------------------- MODULE MCStoryPipeline --------------------------
(* Instance of StoryPipeline for TLC.                                      *)
EXTENDS StoryPipeline

=============================================================================
