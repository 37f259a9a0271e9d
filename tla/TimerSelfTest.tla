--------------------------- MODULE TimerSelfTest ---------------------------
(***************************************************************************)
(* The bounded self-tests that activate the leased timer channels          *)
(* (firmware/sg2002-c906l/src/dw_apb_timer.rs, started by                  *)
(* activate_selected_timers of activation.rs).                             *)
(*                                                                         *)
(* One task tests the channels in order.  It programs a channel, waits for *)
(* its interrupt with a deadline and a poll budget, and tears it down.     *)
(* Every register access masks local interrupts, so the interrupt handler  *)
(* runs between two accesses and never inside one; the task does not run   *)
(* while the handler does.  The timer (periodic, with a level interrupt),  *)
(* the interrupt controller (PLIC) and the tick are external.              *)
(***************************************************************************)
EXTENDS Naturals, FiniteSets

CONSTANTS Channels,        \* the selected timers, 1 .. n, in activation order
          Timeout,         \* timeout_rtos_ticks
          TickLimit        \* the tick counter is taken modulo this, 2^32 in the code

ASSUME TimerSelfTestAssumption ==
    /\ Channels # {} /\ IsFiniteSet(Channels)
    /\ Channels = 1 .. Cardinality(Channels)
    /\ Timeout \in Nat \ {0}
    /\ TickLimit \in Nat /\ TickLimit > 2 * Timeout

VARIABLES pc,         \* the next access of the task
          channel,    \* the channel under test
          unmet,      \* the channels whose clocks, resets or source are wrong
          result,     \* what each self-test returned
          timer,      \* the channels' registers
          plic,       \* the interrupt controller: enabled inputs, pending requests
          isr,        \* what the handler does next, and for which channel
          fired,      \* TIMERS_FIRED
          taken,      \* history: how often each channel's interrupt was taken
          clock, ticking, deadline, remaining

vars == <<pc, channel, unmet, result, timer, plic, isr, fired, taken,
          clock, ticking, deadline, remaining>>
hardware == <<timer, plic, isr, taken>>
waiting == <<deadline, remaining>>
time == <<clock, ticking>>

Quiet == [handler |-> "idle", channel |-> 0]
Results == {"none", "ok", "precondition", "registration", "timeout"}
Steps == {"validate", "reset_fired", "prepare_stop", "prepare_eoi", "prepare_load",
          "install", "arm", "deadline", "fired", "ticks", "sleep", "wake",
          "stop", "eoi", "disable", "install_stop", "install_eoi", "ended"}

Init ==
    /\ pc = "validate"
    /\ channel = 1
    /\ unmet \in SUBSET Channels
    /\ result = [c \in Channels |-> "none"]
    /\ timer = [c \in Channels |-> [running |-> FALSE, masked |-> FALSE, raised |-> FALSE]]
    /\ plic = [enabled |-> {}, pending |-> {}]
    /\ isr = Quiet
    /\ fired = {}
    /\ taken = [c \in Channels |-> 0]
    /\ clock \in 0 .. TickLimit - 1
    /\ ticking = TRUE
    /\ deadline = 0
    /\ remaining = 0

-----------------------------------------------------------------------------
(* Register accesses.                                                      *)

Stopped(c) == [timer EXCEPT ![c].running = FALSE, ![c].masked = TRUE]
Acknowledged(c) == [timer EXCEPT ![c].raised = FALSE]
Running(c) == [timer EXCEPT ![c].running = TRUE, ![c].masked = FALSE]

(* The task moves from one access to the next unless the handler runs.     *)
Task(from, to) ==
    /\ isr = Quiet
    /\ pc = from
    /\ pc' = to

(* deadline_reached: the signed difference of two wrapping tick counts.    *)
DeadlineReached == (clock + TickLimit - deadline) % TickLimit < TickLimit \div 2

(* activate_selected_timers: the next channel, or the end at a failure.    *)
Return(what) ==
    /\ isr = Quiet
    /\ result' = [result EXCEPT ![channel] = what]
    /\ IF what = "ok" /\ channel + 1 \in Channels
         THEN channel' = channel + 1 /\ pc' = "validate"
         ELSE channel' = channel /\ pc' = "ended"

-----------------------------------------------------------------------------
(* self_test_with.                                                         *)

Validate ==
    \/ /\ channel \notin unmet
       /\ Task("validate", "reset_fired")
       /\ UNCHANGED <<channel, unmet, result, hardware, fired, waiting, time>>
    \/ /\ channel \in unmet
       /\ pc = "validate"
       /\ Return("precondition")
       /\ UNCHANGED <<unmet, hardware, fired, waiting, time>>

ResetFired ==
    /\ Task("reset_fired", "prepare_stop")
    /\ fired' = fired \ {channel}
    /\ UNCHANGED <<channel, unmet, result, hardware, waiting, time>>

(* prepare, stop_and_clear: the accesses that stop and acknowledge.        *)
Prepare ==
    /\ \/ Task("prepare_stop", "prepare_eoi") /\ timer' = Stopped(channel)
       \/ Task("prepare_eoi", "prepare_load") /\ timer' = Acknowledged(channel)
       \/ Task("prepare_load", "install") /\ timer' = timer
    /\ UNCHANGED <<channel, unmet, result, plic, isr, taken, fired, waiting, time>>

Install ==
    /\ \/ /\ Task("install", "arm")
          /\ plic' = [plic EXCEPT !.enabled = @ \cup {channel}]
       \/ Task("install", "install_stop") /\ plic' = plic
    /\ UNCHANGED <<channel, unmet, result, timer, isr, taken, fired, waiting, time>>

InstallFailed ==
    /\ \/ /\ Task("install_stop", "install_eoi")
          /\ timer' = Stopped(channel)
          /\ UNCHANGED <<channel, result>>
       \/ /\ pc = "install_eoi"
          /\ Return("registration")
          /\ timer' = Acknowledged(channel)
    /\ UNCHANGED <<unmet, plic, isr, taken, fired, waiting, time>>

Arm ==
    /\ Task("arm", "deadline")
    /\ timer' = Running(channel)
    /\ UNCHANGED <<channel, unmet, result, plic, isr, taken, fired, waiting, time>>

SetDeadline ==
    /\ Task("deadline", "fired")
    /\ deadline' = (clock + Timeout) % TickLimit
    /\ remaining' = Timeout + 1
    /\ UNCHANGED <<channel, unmet, result, hardware, fired, time>>

Fired == channel \in fired

CheckFired ==
    /\ \/ Fired /\ Task("fired", "stop") /\ result' = [result EXCEPT ![channel] = "ok"]
       \/ ~Fired /\ Task("fired", "ticks") /\ result' = result
    /\ UNCHANGED <<channel, unmet, hardware, fired, waiting, time>>

GiveUp == DeadlineReached \/ remaining = 0

CheckTicks ==
    /\ \/ GiveUp /\ Task("ticks", "stop") /\ result' = [result EXCEPT ![channel] = "timeout"]
       \/ ~GiveUp /\ Task("ticks", "sleep") /\ result' = result
    /\ UNCHANGED <<channel, unmet, hardware, fired, waiting, time>>

(* Variant: every poll starts the wait anew.                               *)
WakeRestarts ==
    /\ Task("wake", "deadline")
    /\ remaining' = remaining - 1
    /\ UNCHANGED <<channel, unmet, result, hardware, fired, deadline, time>>

(* vTaskDelay(1) ends at a tick: see Tick.                                 *)
Wake ==
    /\ Task("wake", "fired")
    /\ remaining' = remaining - 1
    /\ UNCHANGED <<channel, unmet, result, hardware, fired, deadline, time>>

(* Variant: the interrupt is acknowledged before the channel is stopped.   *)
StopAndClearSwapped ==
    \/ Task("stop", "eoi") /\ timer' = Acknowledged(channel)
    \/ Task("eoi", "disable") /\ timer' = Stopped(channel)

StopAndClear ==
    \/ Task("stop", "eoi") /\ timer' = Stopped(channel)
    \/ Task("eoi", "disable") /\ timer' = Acknowledged(channel)

TearDown ==
    /\ StopAndClear
    /\ UNCHANGED <<channel, unmet, result, plic, isr, taken, fired, waiting, time>>

Disable ==
    /\ pc = "disable"
    /\ Return(result[channel])
    /\ plic' = [plic EXCEPT !.enabled = @ \ {channel}]
    /\ UNCHANGED <<unmet, timer, isr, taken, fired, waiting, time>>

-----------------------------------------------------------------------------
(* The timer, the interrupt controller, the handler and the tick.          *)

(* A running channel reloads and raises its interrupt each period.         *)
Expire(c) ==
    /\ timer[c].running
    /\ timer' = [timer EXCEPT ![c].raised = TRUE]
    /\ UNCHANGED <<pc, channel, unmet, result, plic, isr, fired, taken, waiting, time>>

(* A request is kept until it is claimed, even if its source is cleared.   *)
Latch(c) ==
    /\ timer[c].raised /\ ~timer[c].masked
    /\ isr.channel # c
    /\ plic' = [plic EXCEPT !.pending = @ \cup {c}]
    /\ UNCHANGED <<pc, channel, unmet, result, timer, isr, fired, taken, waiting, time>>

Claim(c) ==
    /\ c \in plic.pending \cap plic.enabled
    /\ isr = Quiet
    /\ plic' = [plic EXCEPT !.pending = @ \ {c}]
    /\ isr' = [handler |-> "eoi", channel |-> c]
    /\ taken' = [taken EXCEPT ![c] = IF @ = 2 THEN 2 ELSE @ + 1]
    /\ UNCHANGED <<pc, channel, unmet, result, timer, fired, waiting, time>>

HandlerStop(c) == Stopped(c)

(* c906l_timer_interrupt; the controller's claim ends when it returns.     *)
Handle ==
    /\ \/ /\ isr.handler = "eoi"
          /\ timer' = Acknowledged(isr.channel)
          /\ isr' = [isr EXCEPT !.handler = "stop"]
          /\ UNCHANGED fired
       \/ /\ isr.handler = "stop"
          /\ timer' = HandlerStop(isr.channel)
          /\ isr' = [isr EXCEPT !.handler = "fired"]
          /\ UNCHANGED fired
       \/ /\ isr.handler = "fired"
          /\ fired' = fired \cup {isr.channel}
          /\ isr' = Quiet
          /\ UNCHANGED timer
    /\ UNCHANGED <<pc, channel, unmet, result, plic, taken, waiting, time>>

Tick ==
    /\ ticking
    /\ pc # "ended"
    /\ clock' = (clock + 1) % TickLimit
    /\ pc' = IF pc = "sleep" THEN "wake" ELSE pc
    /\ UNCHANGED <<channel, unmet, result, hardware, fired, waiting, ticking>>

TickStops ==
    /\ ticking
    /\ ticking' = FALSE
    /\ UNCHANGED <<pc, channel, unmet, result, hardware, fired, waiting, clock>>

SelfTest ==
    \/ Validate \/ ResetFired \/ Prepare \/ Install \/ InstallFailed \/ Arm
    \/ SetDeadline \/ CheckFired \/ CheckTicks \/ Wake \/ TearDown \/ Disable

Ended == pc = "ended" /\ isr = Quiet /\ UNCHANGED vars

Next ==
    \/ SelfTest \/ Handle \/ Tick \/ TickStops \/ Ended
    \/ \E c \in Channels : Expire(c) \/ Latch(c) \/ Claim(c)

(* The task runs when nothing preempts it, a handler finishes, and the     *)
(* tick goes on unless it stops for good.  No channel has to expire.       *)
Spec == Init /\ [][Next]_vars /\ WF_vars(SelfTest) /\ WF_vars(Handle) /\ WF_vars(Tick)

-----------------------------------------------------------------------------
(* Types.                                                                  *)
TypeOK ==
    /\ pc \in Steps
    /\ channel \in Channels
    /\ unmet \subseteq Channels
    /\ result \in [Channels -> Results]
    /\ timer \in [Channels -> [running : BOOLEAN, masked : BOOLEAN, raised : BOOLEAN]]
    /\ plic \in [enabled : SUBSET Channels, pending : SUBSET Channels]
    /\ isr \in [handler : {"eoi", "stop", "fired"}, channel : Channels] \cup {Quiet}
    /\ fired \subseteq Channels
    /\ taken \in [Channels -> 0 .. 2]
    /\ clock \in 0 .. TickLimit - 1
    /\ ticking \in BOOLEAN
    /\ deadline \in 0 .. TickLimit - 1
    /\ remaining \in 0 .. Timeout + 1

(* A channel whose self-test has returned, however it ended, is stopped,   *)
(* has nothing raised, and cannot interrupt: "Every successful self-test   *)
(* stops its channel and disables its PLIC input before the next lease is  *)
(* touched" (activation.rs:114), although the timer is periodic and the    *)
(* handler may run between any two accesses of the teardown.               *)
Returned(c) == c < channel \/ (pc = "ended" /\ c = channel)

QuietAfter ==
    \A c \in Channels : Returned(c) =>
        ~timer[c].running /\ ~timer[c].raised /\ c \notin plic.enabled /\ isr.channel # c

(* The interrupt of a channel is taken at most once in its self-test:      *)
(* acknowledging and stopping it in the handler makes the periodic timer a *)
(* one-shot, also when the period passes again inside the handler; and a   *)
(* self-test that passes saw its own channel's interrupt, not that of a    *)
(* channel tested before (self_test_with, PlatformRuntime::fired).         *)
OneShot == \A c \in Channels : taken[c] <= 1 /\ (result[c] = "ok" => taken[c] = 1)

(* The activation comes to an end while ticks come: no interrupt has to    *)
(* come, and a task that is late by more than half the range of the tick   *)
(* counter still runs out of polls (self_test_with's deadline and          *)
(* remaining_polls).  Without ticks the task stays in its delay.           *)
Returns == <>(pc = "ended" \/ ~ticking)
============================================================================
