----------------------------- MODULE MCLifecycle -----------------------------
(* Lifecycle on every platform; the constants are in the .cfg file.        *)
EXTENDS Lifecycle
=============================================================================
