----------------------------- MODULE MCRunStream -----------------------------
(* Small instance of RunStream: a run of a few events, watched in the process *)
(* that executes it or in another one.                                       *)
EXTENDS RunStream
=============================================================================
