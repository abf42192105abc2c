---------------------------- MODULE MCDlPipeline ----------------------------
(* Small instances of DlPipeline for TLC. *)
EXTENDS DlPipeline, TLC

CONSTANTS h1, h2

MCBackends == <<h1, h2>>
=============================================================================
