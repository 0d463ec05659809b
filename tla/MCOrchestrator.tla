---------------------------- MODULE MCOrchestrator ----------------------------
(* Small manifests for TLC.                                                *)
EXTENDS Orchestrator
=============================================================================
