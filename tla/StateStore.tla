------------------------------ MODULE StateStore -----------------------------
(***************************************************************************)
(* What the host can count on when one thread at a time calls              *)
(* load_program, get_state_value, set_state_value and shutdown on          *)
(* GodotDistrhoPluginClient: a call takes effect at most once.  One that   *)
(* returns true has taken effect while it was in progress, and a value it  *)
(* brings is the one in the plugin at that very moment.  One that returns  *)
(* false may still take effect later, but not after the next call.         *)
(***************************************************************************)
CONSTANTS Requests,     \* what may be asked
          Fits(_),      \* whether the channel can carry a request
          NoValue       \* the value of a state that was never set

VARIABLES
    store,              \* the value of the state in the plugin
    calling,            \* the call in progress, or none
    open,               \* the request that may still take effect, if any
    served,             \* the call in progress has taken effect
    result              \* what the latest call returned

vars == <<store, calling, open, served, result>>

None == [kind |-> "none", value |-> NoValue]
Failure == [ok |-> FALSE, value |-> NoValue]

Init ==
    /\ store = NoValue
    /\ calling = None
    /\ open = None
    /\ served = FALSE
    /\ result = Failure

(* A request that does not fit is not sent, and the one before it is gone. *)
Request(r) ==
    /\ calling = None
    /\ calling' = r
    /\ open' = IF Fits(r) THEN r ELSE None
    /\ served' = FALSE
    /\ UNCHANGED <<store, result>>

TakeEffect ==
    /\ open # None
    /\ store' = IF open.kind = "SetStateValue" THEN open.value ELSE store
    /\ served' = TRUE
    /\ open' = None
    /\ UNCHANGED <<calling, result>>

Return ==
    /\ calling # None
    /\ served
    /\ result' = [ok |-> TRUE,
                  value |-> IF calling.kind = "GetStateValue" THEN store
                                                              ELSE NoValue]
    /\ calling' = None
    /\ UNCHANGED <<store, open, served>>

GiveUp ==
    /\ calling # None
    /\ result' = Failure
    /\ calling' = None
    /\ UNCHANGED <<store, open, served>>

Next ==
    \/ \E r \in Requests : Request(r)
    \/ TakeEffect
    \/ Return
    \/ GiveUp

Spec == Init /\ [][Next]_vars

=============================================================================
