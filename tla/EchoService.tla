----------------------------- MODULE EchoService -----------------------------
(***************************************************************************)
(* What the RPMsg transport promises a client on Linux: while the          *)
(* transport is attached, every message for one of the firmware's services *)
(* is answered once, and the answers come in the order of the messages.    *)
(* Taking the transport down loses what is on its way.                     *)
(***************************************************************************)
EXTENDS Sequences

CONSTANT Messages

VARIABLES attached,   \* the transport is up
          inflight    \* messages whose answer has not been delivered

vars == <<attached, inflight>>

Init == attached = FALSE /\ inflight = <<>>

Attach == ~attached /\ attached' = TRUE /\ UNCHANGED inflight

Send(m) == attached /\ inflight' = Append(inflight, m) /\ UNCHANGED attached

Deliver == inflight # <<>> /\ inflight' = Tail(inflight) /\ UNCHANGED attached

Detach == attached' = FALSE /\ inflight' = <<>>

Next == Attach \/ (\E m \in Messages : Send(m)) \/ Deliver \/ Detach

Spec == Init /\ [][Next]_vars
=============================================================================
