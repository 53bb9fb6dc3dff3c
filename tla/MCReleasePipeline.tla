-------------------------- MODULE MCReleasePipeline --------------------------
(* Instances of ReleasePipeline for TLC. *)
EXTENDS ReleasePipeline

\* The second commit keeps packageRevision.
MCRevision == <<1, 1>>
=============================================================================
