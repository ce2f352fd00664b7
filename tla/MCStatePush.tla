----------------------------- MODULE MCStatePush -----------------------------
(* StatePush on small instances; the constants are in the .cfg files.      *)
EXTENDS StatePush
=============================================================================
