----------------------------- MODULE MCRingBuffer ----------------------------
(* RingBuffer on a small ring; the constants are in the .cfg file.         *)
EXTENDS RingBuffer
=============================================================================
