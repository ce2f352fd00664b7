--------------------------- MODULE MCParameterSync ---------------------------
(* ParameterSync with a few parameters; the constants are in the .cfg      *)
(* files.                                                                  *)
EXTENDS ParameterSync
=============================================================================
