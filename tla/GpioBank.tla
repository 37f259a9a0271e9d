------------------------------ MODULE GpioBank ------------------------------
(***************************************************************************)
(* The GPIO bank driver of the peripheral access crate                     *)
(* (firmware/sg2002-c906l/pac/src/gpio.rs) and the bank it drives.         *)
(*                                                                         *)
(* A register is the set of the pins whose bit is one.  The owner of the   *)
(* bank has it for itself, so a read, modify and write of one register is  *)
(* one step, but the pins change between any two of them.  A call is the   *)
(* sequence of its register writes.                                        *)
(***************************************************************************)
EXTENDS Naturals, Sequences

CONSTANTS Pins,     \* the pins of the bank
          MaxCalls  \* bound on the calls after each other

VARIABLES regs,     \* the registers of the bank
          levels,   \* the pins that are high at the outside
          latched,  \* the edges the bank has latched
          handle,   \* Bank, Input, Output or OutputGroup, and its pins
          call,     \* the register writes left, their pins and their values
          edges     \* history: wanted edges since asked for, and since reported

vars == <<regs, levels, latched, handle, call, edges>>

Idle == call.todo = <<>>
Bank == [kind |-> "bank", pins |-> Pins]

Init ==
    /\ regs \in [data : SUBSET Pins, direction : {{}}, enable : {{}}, mask : {{}}, edge : {{}},
                 polarity : {{}}]
    /\ levels \in SUBSET Pins
    /\ latched = {}
    /\ handle = Bank
    /\ call = [todo |-> <<>>, pins |-> {}, values |-> {}, trigger |-> "Low", number |-> 0]
    /\ edges = [since |-> {}, due |-> {}]

-----------------------------------------------------------------------------
(* The register writes of each operation.                                  *)

OutputSteps == <<"disable", "data", "direction">>

(* Variant: the stale edge is acknowledged first.                          *)
InterruptStepsEarlyEoi == <<"mask", "eoi", "edge", "polarity", "debounce", "enable",
                            "unmask">>

(* Input::enable_interrupt.                                                *)
InterruptSteps == <<"mask", "edge", "polarity", "debounce", "eoi", "enable", "unmask">>

(* The write of one register: (old & !pins) | (values & pins).             *)
Merge(old, pins, values) == (old \ pins) \cup (values \cap pins)

IsEdge(trigger) == trigger \in {"Rising", "Falling"}
IsHigh(trigger) == trigger \in {"High", "Rising"}
If(condition, pins) == IF condition THEN pins ELSE {}

Written(step) ==
    LET p == call.pins
    IN CASE step = "disable" -> [regs EXCEPT !.enable = @ \ p]
         [] step = "data" -> [regs EXCEPT !.data = Merge(@, p, call.values)]
         [] step = "direction" -> [regs EXCEPT !.direction = @ \cup p]
         [] step = "input" -> [regs EXCEPT !.direction = @ \ p]
         [] step = "mask" -> [regs EXCEPT !.mask = @ \cup p]
         [] step = "edge" -> [regs EXCEPT !.edge = Merge(@, p, If(IsEdge(call.trigger), p))]
         [] step = "polarity" -> [regs EXCEPT !.polarity = Merge(@, p, If(IsHigh(call.trigger), p))]
         [] step = "enable" -> [regs EXCEPT !.enable = @ \cup p]
         [] step = "unmask" -> [regs EXCEPT !.mask = @ \ p]
         [] step \in {"debounce", "eoi"} -> regs   \* the debounce filter is left out

Begin(todo, pins, values, owner) ==
    /\ Idle /\ call.number < MaxCalls
    /\ call' = [call EXCEPT !.todo = todo, !.pins = pins, !.values = values, !.number = @ + 1]
    /\ handle' = owner
    /\ edges' = [edges EXCEPT !.due = @ \ (IF todo = <<"data">> THEN {} ELSE pins)]
    /\ UNCHANGED <<regs, levels, latched>>

(* A handle of one pin borrows the bank and gives it back.                 *)
Borrowed == handle.kind \in {"bank", "input", "output"}

Outputs(pins, initial) ==
    Borrowed /\ Begin(OutputSteps, pins, initial, [kind |-> "group", pins |-> pins])

Output(pin, values) ==
    Borrowed /\ Begin(OutputSteps, {pin}, values, [kind |-> "output", pins |-> {pin}])

Input(pin) == Borrowed /\ Begin(<<"input">>, {pin}, {}, [kind |-> "input", pins |-> {pin}])

MaskInterrupts == Borrowed /\ Begin(<<"mask", "disable">>, Pins, {}, Bank)

Acknowledge(pins) == Borrowed /\ Begin(<<"eoi">>, pins, {}, Bank)

(* Output::set_low, set_high and OutputGroup::set, which rejects lines     *)
(* outside its group.                                                      *)
Set(pins, values) ==
    /\ handle.kind \in {"output", "group"} /\ pins \subseteq handle.pins
    /\ Begin(<<"data">>, pins, values, handle)

EnableInterrupt(trigger) ==
    /\ handle.kind = "input" /\ Idle /\ call.number < MaxCalls
    /\ call' = [call EXCEPT !.todo = InterruptSteps, !.pins = handle.pins, !.trigger = trigger,
                            !.number = @ + 1]
    /\ edges' = [edges EXCEPT !.due = @ \ handle.pins]
    /\ UNCHANGED <<regs, levels, latched, handle>>

DisableInterrupt == handle.kind = "input" /\ Begin(<<"disable">>, handle.pins, {}, handle)

-----------------------------------------------------------------------------
(* The next register write.  External: an enabled pin whose trigger is     *)
(* changed may latch an edge that never was.                               *)
Step ==
    /\ ~Idle
    /\ LET step == Head(call.todo)
       IN  /\ regs' = Written(step)
           /\ IF step \in {"edge", "polarity"}
              THEN \E glitch \in SUBSET (call.pins \cap regs.enable) : latched' = latched \cup glitch
              ELSE latched' = IF step = "eoi" THEN latched \ call.pins ELSE latched
           /\ edges' = [edges EXCEPT !.since = @ \ If(step \in {"mask", "eoi"}, call.pins)]
    /\ call' = [call EXCEPT !.todo = Tail(@)]
    /\ UNCHANGED <<levels, handle>>

(* External: an undriven pin changes.                                      *)
Change(pin) ==
    LET new == IF pin \in levels THEN levels \ {pin} ELSE levels \cup {pin}
        matches == pin \in regs.edge /\ (pin \in new <=> pin \in regs.polarity)
        seen == If(matches /\ pin \in regs.enable, {pin})
    IN  /\ pin \notin regs.direction
        /\ levels' = new
        /\ latched' = latched \cup seen
        /\ edges' = [since |-> edges.since \cup seen,
                     due |-> edges.due \cup If(pin \notin regs.mask /\ (Idle \/ pin \notin call.pins),
                                               seen)]
        /\ UNCHANGED <<regs, handle, call>>

(* Bank::pending.                                                          *)
Pending ==
    {p \in regs.enable \ regs.mask :
        IF p \in regs.edge THEN p \in latched ELSE p \in levels <=> p \in regs.polarity}

Next ==
    \/ \E pins \in SUBSET Pins, values \in SUBSET Pins : Outputs(pins, values)
    \/ \E pin \in Pins, values \in SUBSET Pins : Output(pin, values)
    \/ \E pin \in Pins : Input(pin)
    \/ MaskInterrupts
    \/ \E pins \in SUBSET Pins : Acknowledge(pins)
    \/ \E pins \in SUBSET Pins, values \in SUBSET Pins : Set(pins, values)
    \/ \E trigger \in {"Low", "High", "Falling", "Rising"} : EnableInterrupt(trigger)
    \/ DisableInterrupt
    \/ Step
    \/ \E pin \in Pins : Change(pin)

Spec == Init /\ [][Next]_vars

-----------------------------------------------------------------------------
(* Bank::output and Bank::outputs preload the latch: a pin that starts to  *)
(* drive shows the level that was asked for from the first moment.  And a  *)
(* driven pin only changes for a call that names it.                       *)
DrivenAsAsked ==
    \A p \in regs'.direction :
        /\ p \notin regs.direction => (p \in regs'.data <=> p \in call.values)
        /\ p \notin call.pins => /\ p \in regs.direction
                                 /\ p \in regs'.data <=> p \in regs.data

(* Input::enable_interrupt acknowledges the stale edge while masked: an    *)
(* edge that is reported came after the interrupt was asked for, and one   *)
(* that came after it was enabled is reported until it is acknowledged,    *)
(* whatever the pin did and whatever it was configured for before.         *)
FreshEdges ==
    /\ Pending \cap regs.edge \subseteq edges.since
    /\ edges.due \subseteq Pending

=============================================================================
