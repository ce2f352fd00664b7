----------------------------- MODULE MCUISession -----------------------------
(* UISession with few sessions; the constants are in the .cfg file.        *)
EXTENDS UISession
=============================================================================
