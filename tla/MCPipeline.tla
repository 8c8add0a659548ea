----------------------------- MODULE MCPipeline -----------------------------
(***************************************************************************)
(* Pipeline with two workers.                                              *)
(***************************************************************************)
EXTENDS Pipeline

CONSTANTS w1, w2
=============================================================================
