--------------------------- MODULE MCAudioExchange ---------------------------
(* AudioExchange on small instances; the constants are in the .cfg files.  *)
EXTENDS AudioExchange
=============================================================================
