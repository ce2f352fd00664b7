------------------------------ MODULE RoundTrip ------------------------------
(***************************************************************************)
(* What GodotDistrhoPluginClient::run promises the audio host about time.  *)
(*                                                                         *)
(* A run hands one block of frames to the plugin.  It either delivers a    *)
(* block of the same size in return, or it is missed: it returns without   *)
(* reading anything.  "latency" counts the frames the host handed over and *)
(* has not yet had an answer for.  A missed run is never made up for: its  *)
(* block stays in the round trip for ever.                                 *)
(***************************************************************************)
EXTENDS Integers

CONSTANT BlockSizes     \* the block sizes a host may use

VARIABLES
    running,            \* a run is between handing over and returning
    block,              \* the size of the latest block handed over
    latency,            \* frames handed over and not answered
    missed              \* frames of the runs that were missed

vars == <<running, block, latency, missed>>

Init ==
    /\ running = FALSE
    /\ block = 0
    /\ latency = 0
    /\ missed = 0

HandOver(n) ==
    /\ ~running
    /\ running' = TRUE
    /\ block' = n
    /\ latency' = latency + n
    /\ UNCHANGED missed

Deliver ==
    /\ running
    /\ running' = FALSE
    /\ latency' = latency - block
    /\ UNCHANGED <<block, missed>>

Miss ==
    /\ running
    /\ running' = FALSE
    /\ missed' = missed + block
    /\ UNCHANGED <<block, latency>>

Next ==
    \/ \E n \in BlockSizes : HandOver(n)
    \/ Deliver
    \/ Miss

Spec == Init /\ [][Next]_vars

=============================================================================
