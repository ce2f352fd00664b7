---------------------------- MODULE MCMixPipeline ----------------------------
(* MixPipeline on a small ring; the constants are in the .cfg files.       *)
EXTENDS MixPipeline
=============================================================================
