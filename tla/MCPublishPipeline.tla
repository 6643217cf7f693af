-------------------------- MODULE MCPublishPipeline --------------------------
(* Instances of PublishPipeline for TLC. *)
EXTENDS PublishPipeline, TLC

CONSTANTS w1, w2, b1, b2, b3

MCBuild == {b1, b2, b3}
MCWheel == {w1, w2}

\* Builds and wheels are interchangeable.
Interchangeable == Permutations(MCBuild) \cup Permutations(MCWheel)
=============================================================================
