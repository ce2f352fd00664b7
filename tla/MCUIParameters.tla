--------------------------- MODULE MCUIParameters ----------------------------
(* UIParameters with a region of two; the constants are in the .cfg file.    *)
EXTENDS UIParameters
=============================================================================
