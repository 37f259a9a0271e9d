---------------------------- MODULE MCLcdEngine ----------------------------
(***************************************************************************)
(* Small instances of LcdEngine: a 3 by 2 glass, three initialisation      *)
(* commands with the shortest, the longest and no parameters of the real   *)
(* table, and delays in the proportions of the real ones.                  *)
(***************************************************************************)
EXTENDS LcdEngine

SmallTable == <<1, 14, 0>>

SmallTicks == [d \in Delays |-> IF d \in {"ResetLow", "ResetHigh", "Ready"} THEN 2 ELSE 3]

(* The whole glass, parts of it, and the rejected empty, overhanging and   *)
(* foreign ones.                                                           *)
SmallJobs ==
    [source : {"solid", "slot0"}, x : {0, 1}, y : {0, 1}, width : {0, 2, 3}, height : {1, 2}]
        \cup [source : {"demo", "slot1", "slot2"}, x : {0}, y : {0}, width : {3}, height : {2}]

=============================================================================
