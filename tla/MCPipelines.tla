---------------------------- MODULE MCPipelines -----------------------------
(* Finite instances of Pipelines for TLC. *)
EXTENDS Pipelines

CONSTANTS t1, t2, audit, job

TwoTopics == {t1, t2}
=============================================================================
