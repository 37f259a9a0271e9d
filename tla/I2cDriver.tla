----------------------------- MODULE I2cDriver -----------------------------
(***************************************************************************)
(* The polled I2C master of the peripheral access crate                    *)
(* (firmware/sg2002-c906l/pac/src/i2c.rs) and the controller it drives.    *)
(*                                                                         *)
(* The controller (external) executes the commands of its FIFO one by one, *)
(* holds the bus while it waits for the next one, gives up when the slave  *)
(* does not acknowledge, and takes its time to follow the enable bit.  A   *)
(* stuck bus is a controller that takes no step.  The command at position  *)
(* i of a transaction stands for its byte.                                 *)
(***************************************************************************)
EXTENDS Naturals, Sequences, FiniteSets, SequencesExt

CONSTANTS Depth,      \* entries of the command FIFO
          Limit,      \* 256, the bytes a call may ask for in each direction
          Addresses,  \* the slaves the callers talk to
          PollLimits, \* the polls a caller allows
          MaxCalls    \* bound on the calls after each other

VARIABLES configured, \* Driver::configured
          chip,       \* the controller
          call,       \* the call in progress, or the last one
          bus         \* history: what this call put on the bus

vars == <<configured, chip, call, bus>>

Idle == call.pc = "idle"

Init ==
    /\ configured = FALSE
    /\ chip = [on |-> FALSE, enabled |-> FALSE, target |-> CHOOSE a \in Addresses : TRUE,
               fifo |-> <<>>, current |-> <<>>, owned |-> FALSE, rx |-> <<>>, flags |-> {}]
    /\ call = [pc |-> "idle", op |-> "none", address |-> CHOOSE a \in Addresses : TRUE,
               writes |-> 0, reads |-> 0, polls |-> 0, budget |-> 0, next |-> 1, want |-> "room",
               stopped |-> FALSE, received |-> <<>>, result |-> "none", number |-> 0]
    /\ bus = <<>>

-----------------------------------------------------------------------------
(* The registers (impl Io for Mmio).  Status: ACTIVITY, TFNF, TFE, RFNE.   *)

Activity == chip.current # <<>> \/ chip.owned
TxNotFull == Len(chip.fifo) < Depth
TxEmpty == chip.fifo = <<>>
RxNotEmpty == chip.rx # <<>>

Clear(c) == [c EXCEPT !.flags = {}]

(* The data register.  After an abort the FIFO is held empty.              *)
PutCommand(c, command) ==
    IF "abort" \in c.flags THEN c
    ELSE IF Len(c.fifo) < Depth THEN [c EXCEPT !.fifo = Append(@, command)]
    ELSE [c EXCEPT !.flags = @ \cup {"over"}]

(* The i-th command of a transaction of w writes and r reads.              *)
Command(i, w, r) ==
    [read |-> i > w, item |-> i, restart |-> i = w + 1 /\ w > 0, stop |-> i = w + r]

-----------------------------------------------------------------------------
(* The driver.                                                             *)

Begun(op, limit) ==
    [call EXCEPT !.op = op, !.polls = limit, !.budget = limit, !.number = @ + 1]

Returns(c, result) == [c EXCEPT !.pc = "idle", !.result = result]

(* Driver::configure up to its disable.                                    *)
Configure(limit) ==
    /\ Idle /\ call.number < MaxCalls
    /\ configured' = FALSE
    /\ IF limit = 0
       THEN /\ call' = Returns(Begun("configure", 0), "Timeout")
            /\ UNCHANGED chip
       ELSE /\ call' = [Begun("configure", limit) EXCEPT !.pc = "disable"]
            /\ chip' = [chip EXCEPT !.on = FALSE]
    /\ UNCHANGED bus

(* Driver::transfer up to its exchange.                                    *)
Transfer(address, w, r, limit) ==
    LET refusal == IF ~configured THEN "Unconfigured"
                   ELSE IF w > Limit \/ r > Limit THEN "TooLong"
                   ELSE IF w + r = 0 THEN "ok"
                   ELSE IF limit = 0 THEN "Timeout"
                   ELSE IF chip.enabled \/ Activity \/ RxNotEmpty THEN "NotIdle"
                   ELSE "none"
    IN  /\ Idle /\ call.number < MaxCalls
        /\ configured' = (configured /\ refusal # "NotIdle")
        /\ IF refusal # "none"
           THEN /\ call' = Returns(Begun("refused", 0), refusal)
                /\ UNCHANGED <<chip, bus>>
           ELSE /\ call' = [Begun("transfer", limit) EXCEPT
                              !.pc = "enable", !.address = address, !.writes = w, !.reads = r,
                              !.next = 1, !.want = "room", !.received = <<>>]
                /\ chip' = [Clear(chip) EXCEPT !.target = address, !.on = TRUE]
                /\ bus' = <<>>

(* The end of exchange is the start of disable.                            *)
Cleanup(c, result) == [c EXCEPT !.pc = "disable", !.budget = c.polls, !.result = result]

Step(c) == call' = c /\ chip' = [chip EXCEPT !.on = @ /\ c.pc # "disable"]

(* Driver::exchange waits for the controller.                              *)
WaitEnabled ==
    /\ call.pc = "enable"
    /\ Step(IF call.budget = 0 THEN Cleanup(call, "Timeout")
            ELSE [call EXCEPT !.budget = @ - 1, !.pc = IF chip.enabled THEN "sample" ELSE "enable"])
    /\ UNCHANGED <<configured, bus>>

(* Driver::sample: the interrupt status first.                             *)
Sample ==
    /\ call.pc = "sample"
    /\ Step(IF call.budget = 0 THEN Cleanup(call, "Timeout")
            ELSE IF "abort" \in chip.flags THEN Cleanup(call, "Abort")
            ELSE IF "over" \in chip.flags THEN Cleanup(call, "Fifo")
            ELSE [call EXCEPT !.budget = @ - 1, !.pc = "status", !.stopped = "stop" \in chip.flags])
    /\ UNCHANGED <<configured, bus>>

(* What the driver waits for after the i-th command.                       *)
Wanted(i) ==
    IF i > call.writes THEN "data" ELSE IF i < call.writes + call.reads THEN "room" ELSE "end"

(* Variant: an idle controller is taken for the end.                       *)
CompleteWhenIdle == TxEmpty /\ ~Activity

Complete == call.stopped /\ TxEmpty /\ ~Activity

(* Then the status, and what it was waited for (wait_status): room for a   *)
(* command, the byte of a read, or the end of the transaction.             *)
Status ==
    /\ call.pc = "status"
    /\ \/ /\ call.want = "room" /\ TxNotFull
          /\ chip' = PutCommand(chip, Command(call.next, call.writes, call.reads))
          /\ call' = [call EXCEPT !.pc = "sample", !.next = @ + 1, !.want = Wanted(call.next)]
       \/ /\ call.want = "data" /\ RxNotEmpty
          /\ chip' = [chip EXCEPT !.rx = Tail(@)]
          /\ call' = [call EXCEPT !.pc = "sample", !.received = Append(@, Head(chip.rx)),
                                  !.want = IF call.next <= call.writes + call.reads
                                           THEN "room" ELSE "end"]
       \/ /\ call.want = "end" /\ Complete
          /\ Step(Cleanup(call, "ok"))
       \/ /\ ~ \/ call.want = "room" /\ TxNotFull
               \/ call.want = "data" /\ RxNotEmpty
               \/ call.want = "end" /\ Complete
          /\ call' = [call EXCEPT !.pc = "sample"]
          /\ UNCHANGED chip
    /\ UNCHANGED <<configured, bus>>

(* A failed exchange or cleanup takes the configuration away.              *)
StaysConfigured(clean) == configured /\ call.result = "ok" /\ clean

(* Driver::disable, and what its callers do with the result.               *)
Disable ==
    /\ call.pc = "disable"
    /\ IF chip.enabled
       THEN /\ call' = IF call.budget = 1 THEN Returns(call, "DisableTimeout")
                       ELSE [call EXCEPT !.budget = @ - 1]
            /\ configured' = IF call.budget = 1 THEN StaysConfigured(FALSE) ELSE configured
            /\ UNCHANGED chip
       ELSE IF call.op = "configure" /\ Activity
       THEN call' = Returns(call, "NotIdle") /\ UNCHANGED <<configured, chip>>
       ELSE /\ call' = IF call.op = "configure" THEN Returns(call, "ok") ELSE [call EXCEPT !.pc = "idle"]
            /\ configured' = (call.op = "configure" \/ StaysConfigured(TRUE))
            /\ chip' = Clear(chip)
    /\ UNCHANGED bus

-----------------------------------------------------------------------------
(* External: the controller.                                               *)

TurnOn ==
    /\ chip.on /\ ~chip.enabled
    /\ chip' = [chip EXCEPT !.enabled = TRUE]
    /\ UNCHANGED <<configured, call, bus>>

(* A controller that is switched off ends the byte and frees the bus.      *)
TurnOff ==
    /\ ~chip.on /\ chip.enabled /\ chip.current = <<>>
    /\ chip' = [chip EXCEPT !.enabled = FALSE, !.owned = FALSE, !.fifo = <<>>, !.rx = <<>>]
    /\ bus' = IF chip.owned THEN Append(bus, "stop") ELSE bus
    /\ UNCHANGED <<configured, call>>

Begin ==
    /\ chip.on /\ chip.enabled /\ chip.current = <<>> /\ ~TxEmpty
    /\ chip' = [chip EXCEPT !.current = <<Head(chip.fifo)>>, !.fifo = Tail(@), !.owned = TRUE]
    /\ bus' = IF ~chip.owned THEN Append(bus, "start")
              ELSE IF Head(chip.fifo).restart THEN Append(bus, "restart")
              ELSE bus
    /\ UNCHANGED <<configured, call>>

Byte(command) == <<command.read, command.item, chip.target>>

Finish ==
    /\ chip.current # <<>>
    /\ LET command == Head(chip.current)
       IN  /\ chip' = [chip EXCEPT
                         !.current = <<>>,
                         !.owned = ~command.stop,
                         !.rx = IF command.read THEN Append(@, command.item) ELSE @,
                         !.flags = IF command.stop THEN @ \cup {"stop"} ELSE @]
           /\ bus' = bus \o <<Byte(command)>> \o (IF command.stop THEN <<"stop">> ELSE <<>>)
    /\ UNCHANGED <<configured, call>>

(* The slave does not acknowledge: the controller flushes and stops.       *)
Nack ==
    /\ chip.current # <<>>
    /\ chip' = [chip EXCEPT !.current = <<>>, !.fifo = <<>>, !.owned = FALSE,
                            !.flags = @ \cup {"abort", "stop"}]
    /\ bus' = Append(bus, "stop")
    /\ UNCHANGED <<configured, call>>

Next ==
    \/ \E limit \in PollLimits : Configure(limit)
    \/ \E address \in Addresses, w, r \in 0 .. Limit + 1, limit \in PollLimits :
          Transfer(address, w, r, limit)
    \/ WaitEnabled \/ Sample \/ Status \/ Disable
    \/ TurnOn \/ TurnOff \/ Begin \/ Finish \/ Nack

Spec == Init /\ [][Next]_vars

-----------------------------------------------------------------------------
(* The events of a transaction of w writes and r reads at an address.      *)
Transaction(address, w, r) ==
    <<"start">>
    \o [i \in 1 .. w |-> <<FALSE, i, address>>]
    \o (IF w > 0 /\ r > 0 THEN <<"restart">> ELSE <<>>)
    \o [i \in 1 .. r |-> <<TRUE, w + i, address>>]
    \o <<"stop">>

(* I2c::write_read reports what was on the bus.  Success means the whole   *)
(* transaction, with the addressed slave, once, in order and ended by its  *)
(* STOP, and the read bytes in order.  A failure has put a prefix on the   *)
(* bus, perhaps cut short by a STOP.  At most one read is outstanding, so  *)
(* that no depth of the receive FIFO is assumed.                           *)
Truthful ==
    LET whole == Transaction(call.address, call.writes, call.reads)
        cut == IF bus # <<>> /\ Last(bus) = "stop" THEN Front(bus) ELSE bus
    IN  /\ IsPrefix(cut, whole)
        /\ Len(chip.rx) + Len(SelectSeq(chip.fifo \o chip.current, LAMBDA c : c.read)) <= 1
        /\ Idle /\ call.op = "transfer" /\ call.result = "ok" =>
              /\ bus = whole
              /\ call.received = [i \in 1 .. call.reads |-> call.writes + i]

(* "DisableTimeout means quiescence is unproved": between calls a driver   *)
(* that would accept a transfer has a controller that is off, has nothing  *)
(* queued and holds no bus, whatever failed before.                        *)
Quiescent ==
    Idle /\ configured =>
        /\ ~chip.on /\ ~chip.enabled /\ ~Activity
        /\ TxEmpty /\ ~RxNotEmpty

=============================================================================
