---------------------------- MODULE SlotHandoff ----------------------------
(***************************************************************************)
(* What the framebuffer handoff promises.  Each slot belongs either to     *)
(* Linux or to the C906L.  Linux writes the pixels of a slot only while it *)
(* owns it and the panel is drawn only from a slot the C906L owns; Linux   *)
(* gives a slot away, and only the C906L gives it back.                    *)
(***************************************************************************)
CONSTANTS Slots, CellNames, HalfNames, Undefined

VARIABLES owner, cells, gram

vars == <<owner, cells, gram>>

Fill(s) ==
    /\ owner[s] = "linux"
    /\ \A t \in Slots \ {s} : cells'[t] = cells[t]
    /\ UNCHANGED <<owner, gram>>

HandOver(s) ==
    /\ \A t \in Slots : owner[t] = "linux"
    /\ owner' = [owner EXCEPT ![s] = "c906l"]
    /\ UNCHANGED <<cells, gram>>

Draw(s) ==
    /\ owner[s] = "c906l"
    /\ \E h \in HalfNames, c \in CellNames : gram' = [gram EXCEPT ![h] = cells[s][c]]
    /\ UNCHANGED <<owner, cells>>

GiveBack(s) ==
    /\ owner[s] = "c906l"
    /\ owner' = [owner EXCEPT ![s] = "linux"]
    /\ UNCHANGED <<cells, gram>>

(* A reset takes the slots back and leaves the panel undefined.            *)
Restart ==
    /\ owner' = [s \in Slots |-> "linux"]
    /\ gram' = [h \in HalfNames |-> Undefined]

Init ==
    /\ owner = [s \in Slots |-> "linux"]
    /\ gram = [h \in HalfNames |-> Undefined]

Next ==
    \/ \E s \in Slots : Fill(s) \/ HandOver(s) \/ Draw(s) \/ GiveBack(s)
    \/ Restart

Spec == Init /\ [][Next]_vars
=============================================================================
