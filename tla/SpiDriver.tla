----------------------------- MODULE SpiDriver -----------------------------
(***************************************************************************)
(* The polled SPI driver of the peripheral access crate                    *)
(* (firmware/sg2002-c906l/pac/src/spi.rs) and the controller it drives.    *)
(*                                                                         *)
(* The controller (external) shifts items out of the transmit FIFO while   *)
(* it is enabled and a slave is selected, and drops the chip select when   *)
(* the FIFO runs empty.  It goes on between any two register accesses of   *)
(* the driver.  An item is its position in the caller's data.              *)
(***************************************************************************)
EXTENDS Naturals, Sequences, SequencesExt

CONSTANTS Depth,      \* FIFO_DEPTH, entries of each FIFO and bytes of a transfer
          MaxItems,   \* bound on the items of a call
          PollLimits, \* the polls a caller allows
          Dividers,   \* the clock dividers a caller asks for
          MaxCalls    \* bound on the calls after each other

VARIABLES driver,     \* Driver: configured and mode_bits
          chip,       \* the controller's registers, FIFOs and shift register
          call,       \* the call in progress, or the last one
          line        \* history: what this call put on the bus

vars == <<driver, chip, call, line>>

Modes == {0, 3}
ByteDuplex == "byte"       \* CONTROL_8BIT_DUPLEX
WordTxOnly == "word"       \* CONTROL_16BIT_TX_ONLY

Idle == call.pc = "idle"
Quiet == [items |-> <<>>, selections |-> 0]

Init ==
    /\ driver = [configured |-> FALSE, mode |-> 0]
    /\ chip = [enabled |-> FALSE, selected |-> FALSE, frame |-> ByteDuplex, mode |-> 0,
               tx |-> <<>>, shift |-> <<>>, rx |-> <<>>, errors |-> {}]
    /\ call = [pc |-> "idle", op |-> "none", items |-> 0, next |-> 1, received |-> <<>>,
               room |-> 0, polls |-> 0, waited |-> 0, result |-> "none", number |-> 0]
    /\ line = Quiet

-----------------------------------------------------------------------------
(* The registers (impl Io for Mmio).                                       *)

(* SPIENR: clearing it stops the clock and empties both FIFOs.             *)
Enable(c, on) ==
    IF on THEN [c EXCEPT !.enabled = TRUE]
    ELSE [c EXCEPT !.enabled = FALSE, !.tx = <<>>, !.shift = <<>>, !.rx = <<>>]

Control(c, frame) == [c EXCEPT !.frame = frame, !.mode = driver.mode]

Clear(c) == [c EXCEPT !.errors = {}]

(* The data register: an entry beyond the depth is lost and flagged.       *)
WriteData(c, item) ==
    IF Len(c.tx) < Depth THEN [c EXCEPT !.tx = Append(@, item)]
                         ELSE [c EXCEPT !.errors = @ \cup {"txover"}]

(* Status bits: BUSY, TFNF, TFE and RFNE.                                  *)
Busy == chip.shift # <<>>
TxNotFull == Len(chip.tx) < Depth
TxEmpty == chip.tx = <<>>
RxNotEmpty == chip.rx # <<>>

(* Variant: the shift register is not looked at.                           *)
DrainedFifo == TxEmpty

Drained == TxEmpty /\ ~Busy

-----------------------------------------------------------------------------
(* The driver.                                                             *)

ValidDivider(value) == value >= 2 /\ value % 2 = 0

(* Driver::configure, on a quiescent bus.                                  *)
Configure(divider, mode) ==
    /\ Idle
    /\ ValidDivider(divider)
    /\ driver' = [configured |-> TRUE, mode |-> mode]
    /\ chip' = [Clear(Enable(chip, FALSE)) EXCEPT !.selected = FALSE, !.frame = ByteDuplex,
                                                  !.mode = mode]
    /\ UNCHANGED <<call, line>>

Called(op, n, limit) ==
    [call EXCEPT !.op = op, !.items = n, !.next = 1, !.received = <<>>, !.room = 0,
                 !.polls = limit, !.waited = 0, !.number = @ + 1]

Returns(c, result) == [c EXCEPT !.pc = "idle", !.result = result]

(* The early returns touch no register.                                    *)
Refusal(op, n, limit) ==
    IF ~driver.configured THEN "Unconfigured"
    ELSE IF op = "transfer" /\ n > Depth THEN "TooLong"
    ELSE IF op = "transfer" /\ n = 0 THEN "ok"
    ELSE IF limit = 0 THEN "Timeout"
    ELSE "none"

(* Driver::transfer and Driver::stream up to enable(1).                    *)
Call(op, n, limit) ==
    /\ Idle /\ call.number < MaxCalls
    /\ line' = Quiet
    /\ IF Refusal(op, n, limit) # "none"
       THEN /\ call' = Returns(Called(op, n, limit), Refusal(op, n, limit))
            /\ UNCHANGED chip
       ELSE /\ call' = [Called(op, n, limit) EXCEPT !.pc = IF op = "transfer" THEN "empty" ELSE "room"]
            /\ chip' = IF op = "transfer" THEN Enable(chip, TRUE)
                       ELSE Enable(Clear(Control(chip, WordTxOnly)), TRUE)
    /\ UNCHANGED driver

Goto(pc) == [call EXCEPT !.pc = pc]
Fail(result) == [call EXCEPT !.pc = "halt", !.result = result]

(* Driver::exchange: the FIFOs are empty.                                  *)
CheckEmpty ==
    /\ call.pc = "empty"
    /\ call' = IF Drained /\ ~RxNotEmpty THEN Goto("load") ELSE Fail("FifoNotEmpty")
    /\ UNCHANGED <<driver, chip, line>>

(* All bytes are in the FIFO before the slave is selected.                 *)
Load ==
    /\ call.pc = "load"
    /\ IF call.next > call.items
       THEN /\ call' = Goto("errors")
            /\ chip' = [chip EXCEPT !.selected = TRUE]
       ELSE IF TxNotFull
       THEN /\ call' = [call EXCEPT !.next = @ + 1]
            /\ chip' = WriteData(chip, call.next)
       ELSE /\ call' = Fail("FifoFull")
            /\ UNCHANGED chip
    /\ UNCHANGED <<driver, line>>

(* Driver::pump: the room is what TXFLR leaves.                            *)
Room == Depth - Len(chip.tx)

WaitRoom ==
    /\ call.pc = "room"
    /\ call' = IF Room # 0 THEN [Goto("burst") EXCEPT !.room = Room, !.waited = 0]
               ELSE IF call.waited + 1 = call.polls THEN Fail("Timeout")
               ELSE [call EXCEPT !.waited = @ + 1]
    /\ UNCHANGED <<driver, chip, line>>

(* The burst ends when the room is used or the words are; the slave is     *)
(* selected after the first one.                                           *)
Burst ==
    /\ call.pc = "burst"
    /\ IF call.room # 0 /\ call.next <= call.items
       THEN /\ call' = [call EXCEPT !.next = @ + 1, !.room = @ - 1]
            /\ chip' = WriteData(chip, call.next)
       ELSE /\ call' = Goto(IF call.room = 0 THEN "room" ELSE "errors")
            /\ chip' = [chip EXCEPT !.selected = TRUE]
    /\ UNCHANGED <<driver, line>>

(* The completion loops of pump and exchange: one round reads the errors,  *)
(* then the status.                                                        *)
PollErrors ==
    /\ call.pc = "errors"
    /\ call' = IF call.waited = call.polls THEN Fail("Timeout")
               ELSE IF chip.errors # {} THEN Fail("Hardware")
               ELSE Goto("status")
    /\ UNCHANGED <<driver, chip, line>>

PollStatus ==
    LET take == call.op = "transfer" /\ Len(call.received) < call.items /\ RxNotEmpty
        received == IF take THEN Append(call.received, Head(chip.rx)) ELSE call.received
        all == call.op = "transfer" => Len(received) = call.items
    IN  /\ call.pc = "status"
        /\ chip' = IF take THEN [chip EXCEPT !.rx = Tail(@)] ELSE chip
        /\ call' = [call EXCEPT !.received = received,
                                !.waited = @ + 1,
                                !.pc = IF all /\ Drained THEN "halt" ELSE "errors",
                                !.result = IF all /\ Drained THEN "ok" ELSE @]
        /\ UNCHANGED <<driver, line>>

(* Whatever the result: disabled, deselected, back to bytes.               *)
Halt ==
    /\ call.pc = "halt"
    /\ LET stopped == [Enable(chip, FALSE) EXCEPT !.selected = FALSE]
       IN chip' = Clear(IF call.op = "stream" THEN Control(stopped, ByteDuplex) ELSE stopped)
    /\ call' = Goto("idle")
    /\ UNCHANGED <<driver, line>>

-----------------------------------------------------------------------------
(* External: the controller.                                               *)

Running == chip.enabled /\ chip.selected

(* The first item, or the next one after the FIFO had run empty.           *)
Begin ==
    /\ Running /\ chip.shift = <<>> /\ chip.tx # <<>>
    /\ chip' = [chip EXCEPT !.shift = <<Head(chip.tx)>>, !.tx = Tail(@)]
    /\ line' = [line EXCEPT !.selections = @ + 1]
    /\ UNCHANGED <<driver, call>>

(* An item is out; in duplex mode the answer to it is in.                  *)
Shifted ==
    /\ Running /\ chip.shift # <<>>
    /\ line' = [line EXCEPT !.items = Append(@, Head(chip.shift))]
    /\ chip' = [chip EXCEPT
                  !.shift = IF chip.tx = <<>> THEN <<>> ELSE <<Head(chip.tx)>>,
                  !.tx = IF @ = <<>> THEN @ ELSE Tail(@),
                  !.rx = IF chip.frame = ByteDuplex /\ Len(@) < Depth
                         THEN Append(@, Head(chip.shift)) ELSE @,
                  !.errors = IF chip.frame = ByteDuplex /\ Len(chip.rx) = Depth
                             THEN @ \cup {"rxover"} ELSE @]
    /\ UNCHANGED <<driver, call>>

(* Another master contends for the bus.                                    *)
Contention ==
    /\ Running /\ chip.errors = {}
    /\ chip' = [chip EXCEPT !.errors = {"master"}]
    /\ UNCHANGED <<driver, call, line>>

Next ==
    \/ \E divider \in Dividers, mode \in Modes : Configure(divider, mode)
    \/ \E op \in {"transfer", "stream"}, n \in 0 .. MaxItems, limit \in PollLimits :
          Call(op, n, limit)
    \/ CheckEmpty \/ Load \/ WaitRoom \/ Burst \/ PollErrors \/ PollStatus \/ Halt
    \/ Begin \/ Shifted \/ Contention

Spec == Init /\ [][Next]_vars

-----------------------------------------------------------------------------
(* What Spi::transfer_in_place and Spi::stream_words report is what was on *)
(* the bus.  Success means all items went out once and in order; those of  *)
(* a transfer under one chip select, with their answers.  A failure has    *)
(* sent a prefix.  The FIFOs never overrun, every item goes out in the     *)
(* frame and mode that were asked for, and the controller is left disabled *)
(* and in byte mode.                                                       *)
Truthful ==
    LET data == [i \in 1 .. call.items |-> i]
    IN  /\ IsPrefix(line.items, data)
        /\ chip.errors \subseteq {"master"}
        /\ Running => /\ chip.mode = driver.mode
                      /\ chip.frame = IF call.op = "stream" THEN WordTxOnly ELSE ByteDuplex
        /\ Idle => ~chip.enabled /\ ~chip.selected /\ chip.frame = ByteDuplex
        /\ Idle /\ call.result = "ok" =>
              /\ line.items = data
              /\ call.op = "transfer" => call.received = data /\ line.selections <= 1

=============================================================================
