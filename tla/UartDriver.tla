----------------------------- MODULE UartDriver -----------------------------
(***************************************************************************)
(* The polled UART driver of the peripheral access crate                   *)
(* (firmware/sg2002-c906l/pac/src/uart.rs) and the controller it drives.   *)
(*                                                                         *)
(* The data and interrupt registers are aliases of the divisor while DLAB  *)
(* is set, and the controller (external) ignores a write of the line       *)
(* register while it is busy.  A byte is its position in its direction;    *)
(* the far end sends whenever it likes, also during a configuration.       *)
(***************************************************************************)
EXTENDS Naturals, Sequences

CONSTANTS Depth,       \* entries of each FIFO
          Divisors,    \* the divisors callers ask for
          PollLimits,  \* the polls a caller allows
          MaxArrivals, \* bound on the bytes the far end sends
          MaxCalls     \* bound on the calls after each other

VARIABLES configured,  \* Driver::configured
          chip,        \* the controller
          call,        \* the call in progress, or the last one
          sent,        \* history: bytes accepted and bytes on the wire since configured
          lost         \* history: bytes missing from the reads with no error reported since

vars == <<configured, chip, call, sent, lost>>

Data == "8n1"          \* LCR = 3
Dlab == "dlab"         \* LCR = 0x83
Idle == call.pc = "idle"
NoByte == 0

Init ==
    /\ configured = FALSE
    /\ \E line \in {Data, Dlab} :
          chip = [line |-> line, ier |-> 1, high |-> 0, low |-> 0, tx |-> <<>>, out |-> <<>>,
                  rx |-> <<>>, in |-> NoByte, arrived |-> 0, overrun |-> FALSE]
    /\ call = [pc |-> "idle", op |-> "none", try |-> FALSE, divisor |-> 0, left |-> 0,
               result |-> "none", byte |-> NoByte,
               status |-> [ready |-> FALSE, error |-> FALSE], number |-> 0]
    /\ sent = [accepted |-> <<>>, wire |-> <<>>]
    /\ lost = {}

-----------------------------------------------------------------------------
(* The registers (impl Io for Mmio).                                       *)

Busy == chip.tx # <<>> \/ chip.out # <<>> \/ chip.in # NoByte
TxNotFull == Len(chip.tx) < Depth

Flushed == chip.tx = <<>> /\ ~Busy

SetLine(c, value) == [c EXCEPT !.line = IF Busy THEN @ ELSE value]

SetDataDivisor(c, value) ==
    IF c.line = Dlab THEN [c EXCEPT !.low = value] ELSE [c EXCEPT !.tx = Append(@, value)]

SetInterruptDivisor(c, value) ==
    IF c.line = Dlab THEN [c EXCEPT !.high = value] ELSE [c EXCEPT !.ier = value]

(* FCR = 7: both FIFOs are emptied.                                        *)
ClearFifos(c) == [c EXCEPT !.tx = <<>>, !.rx = <<>>, !.overrun = FALSE]

-----------------------------------------------------------------------------
(* The driver.                                                             *)

Begun(op, try, limit) ==
    [call EXCEPT !.op = op, !.try = try, !.left = limit, !.number = @ + 1,
                 !.result = "none", !.byte = NoByte]

Returns(c, result) == [c EXCEPT !.pc = "idle", !.result = result]

Configure(divisor, limit) ==
    /\ Idle /\ call.number < MaxCalls
    /\ configured' = FALSE
    /\ call' = [Begun("configure", FALSE, limit) EXCEPT !.pc = "idle?", !.divisor = divisor]
    /\ UNCHANGED <<chip, sent, lost>>

WaitIdle ==
    /\ call.pc = "idle?"
    /\ call' = IF call.left = 0 THEN Returns(call, "Timeout")
               ELSE IF Busy THEN [call EXCEPT !.left = @ - 1]
               ELSE [call EXCEPT !.pc = "disable interrupts"]
    /\ UNCHANGED <<configured, chip, sent, lost>>

(* A write of the line register, its readback, and the writes behind it:   *)
(* only the driver changes what they depend on.                            *)
SwitchLine(value, done, after) ==
    IF SetLine(chip, value).line = value
    THEN chip' = done /\ call' = after
    ELSE UNCHANGED chip /\ call' = Returns(call, "ConfigurationRejected")

DisableInterrupts ==
    /\ call.pc = "disable interrupts"
    /\ SwitchLine(Data, SetInterruptDivisor(SetLine(chip, Data), 0),
                  [call EXCEPT !.pc = "divisor"])
    /\ UNCHANGED <<configured, sent, lost>>

SetDivisor ==
    /\ call.pc = "divisor"
    /\ SwitchLine(Dlab,
                  SetInterruptDivisor(SetDataDivisor(SetLine(chip, Dlab), call.divisor % 256),
                                      call.divisor \div 256),
                  [call EXCEPT !.pc = "finish"])
    /\ UNCHANGED <<configured, sent, lost>>

Finish ==
    /\ call.pc = "finish"
    /\ SwitchLine(Data, ClearFifos(SetLine(chip, Data)), Returns(call, "ok"))
    /\ configured' = (call'.result = "ok")
    /\ sent' = [accepted |-> <<>>, wire |-> <<>>]
    /\ lost' = {}

(* try_write, write, try_read, read and flush: Unconfigured, or the loop.  *)
Call(op, try, limit) ==
    /\ Idle /\ call.number < MaxCalls
    /\ try => op # "flush" /\ limit = 1
    /\ call' = IF configured THEN [Begun(op, try, limit) EXCEPT !.pc = op]
               ELSE Returns(Begun(op, try, limit), "Unconfigured")
    /\ UNCHANGED <<configured, chip, sent, lost>>

(* The loop is over, or a try found nothing.                               *)
GiveUp ==
    /\ call.pc \in {"write", "read", "flush"} /\ call.left = 0
    /\ call' = Returns(call, IF call.try THEN "pending" ELSE "Timeout")
    /\ UNCHANGED <<configured, chip, sent, lost>>

Again == call' = [call EXCEPT !.left = @ - 1]

Write ==
    LET byte == Len(sent.accepted) + 1
    IN  /\ call.pc = "write" /\ call.left > 0
        /\ IF TxNotFull
           THEN /\ chip' = SetDataDivisor(chip, byte)
                /\ call' = Returns(call, "ok")
                /\ sent' = [sent EXCEPT !.accepted = Append(@, byte)]
           ELSE Again /\ UNCHANGED <<chip, sent>>
        /\ UNCHANGED <<configured, lost>>

(* Reading the line status clears its error bits.                          *)
ReadLineStatus(c) ==
    [c EXCEPT !.overrun = FALSE,
              !.rx = IF @ = <<>> THEN @ ELSE <<[Head(@) EXCEPT !.bad = FALSE]>> \o Tail(@)]

(* One line status, then the head of the FIFO if there is one.             *)
Read ==
    LET ready == chip.rx # <<>>
    IN  /\ call.pc = "read" /\ call.left > 0
        /\ chip' = ReadLineStatus(chip)
        /\ call' = [call EXCEPT !.pc = "data", !.status =
                      [ready |-> ready, error |-> chip.overrun \/ (ready /\ Head(chip.rx).bad)]]
        /\ UNCHANGED <<configured, sent, lost>>

Queued(c) == {c.rx[i].item : i \in DOMAIN c.rx}

ReadData ==
    LET byte == IF call.status.ready THEN Head(chip.rx).item ELSE NoByte
    IN  /\ call.pc = "data"
        /\ chip' = IF call.status.ready THEN [chip EXCEPT !.rx = Tail(@)] ELSE chip
        /\ \/ /\ call.status.error
              /\ call' = Returns(call, "Receive")
              /\ lost' = lost \cap Queued(chip')
           \/ /\ ~call.status.error /\ call.status.ready
              /\ call' = [Returns(call, "ok") EXCEPT !.byte = byte]
              /\ UNCHANGED lost
           \/ /\ ~call.status.error /\ ~call.status.ready
              /\ call' = [call EXCEPT !.pc = "read", !.left = @ - 1]
              /\ UNCHANGED lost
        /\ UNCHANGED <<configured, sent>>

(* Variant: the line status tells that the transmitter is empty.           *)
FlushLineStatus ==
    /\ call.pc = "flush" /\ call.left > 0
    /\ IF Flushed THEN call' = Returns(call, "ok") ELSE Again
    /\ chip' = ReadLineStatus(chip)
    /\ UNCHANGED <<configured, sent, lost>>

Flush ==
    /\ call.pc = "flush" /\ call.left > 0
    /\ IF Flushed THEN call' = Returns(call, "ok") ELSE Again
    /\ UNCHANGED <<configured, chip, sent, lost>>

-----------------------------------------------------------------------------
(* External: the two shift registers and the far end.                      *)

ShiftOut ==
    /\ chip.out = <<>> /\ chip.tx # <<>>
    /\ chip' = [chip EXCEPT !.out = <<Head(chip.tx)>>, !.tx = Tail(@)]
    /\ UNCHANGED <<configured, call, sent, lost>>

Transmitted ==
    /\ chip.out # <<>>
    /\ chip' = [chip EXCEPT !.out = <<>>]
    /\ sent' = [sent EXCEPT !.wire = Append(@, Head(chip.out))]
    /\ UNCHANGED <<configured, call, lost>>

StartBit ==
    /\ chip.in = NoByte /\ chip.arrived < MaxArrivals
    /\ chip' = [chip EXCEPT !.in = chip.arrived + 1, !.arrived = @ + 1]
    /\ UNCHANGED <<configured, call, sent, lost>>

(* A byte is in, damaged or not; a full FIFO loses it.                     *)
Received(bad) ==
    LET full == Len(chip.rx) = Depth
    IN  /\ chip.in # NoByte
        /\ chip' = [chip EXCEPT !.in = NoByte,
                                !.overrun = @ \/ full,
                                !.rx = IF full THEN @ ELSE Append(@, [item |-> chip.in, bad |-> bad])]
        /\ lost' = IF full \/ bad THEN lost \cup {chip.in} ELSE lost
        /\ UNCHANGED <<configured, call, sent>>

Next ==
    \/ \E divisor \in Divisors, limit \in PollLimits : Configure(divisor, limit)
    \/ WaitIdle \/ DisableInterrupts \/ SetDivisor \/ Finish
    \/ \E op \in {"write", "read", "flush"}, try \in BOOLEAN, limit \in PollLimits :
          Call(op, try, limit)
    \/ GiveUp \/ Write \/ Read \/ ReadData \/ Flush
    \/ ShiftOut \/ Transmitted \/ StartBit
    \/ \E bad \in BOOLEAN : Received(bad)

Spec == Init /\ [][Next]_vars

-----------------------------------------------------------------------------
(* Driver::configure with its readbacks: whenever data operations are      *)
(* allowed the divisor is the one asked for, the data register is the data *)
(* register and no interrupt is enabled, even when the far end sends in    *)
(* the middle of the configuration.                                        *)
ConfiguredAsAsked ==
    configured => /\ chip.line = Data /\ chip.ier = 0
                  /\ 256 * chip.high + chip.low = call.divisor

(* The bytes Uart::write accepted go out in order, all of them by the time *)
(* Uart::flush succeeds.                                                   *)
FlushedMeansSent ==
    configured =>
        /\ sent.wire \o chip.out \o chip.tx = sent.accepted
        /\ Idle /\ call.op = "flush" /\ call.result = "ok" =>
              sent.wire = sent.accepted

(* Uart::read never delivers a damaged byte, nor a byte behind a missing   *)
(* one, unless an error has been reported since ("receive-error status is  *)
(* never consumed here", of flush).                                        *)
NoSilentLoss ==
    configured /\ Idle /\ call.op = "read" /\ call.result = "ok" =>
        \A i \in lost : i > call.byte

=============================================================================
