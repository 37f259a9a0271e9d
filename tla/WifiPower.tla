------------------------------ MODULE WifiPower ------------------------------
(***************************************************************************)
(* The acknowledged Wi-Fi power command of the PicoClaw board.             *)
(*                                                                         *)
(* A Linux regulator driver (pkgs/sg2002/c906l-wifi-power) writes a        *)
(* 64-byte request record in shared DDR.  The LCD task of the C906L        *)
(* firmware (firmware/sg2002-c906l/src/wifi_power.rs, called from          *)
(* lcd_service.rs) polls it, drives GPIOA26 and answers in a completion    *)
(* record.  There is no lock and no coherent cache between the two: the    *)
(* request is copied word by word and committed last, the firmware reads   *)
(* it twice, and Linux reads the completion twice, word by word.           *)
(*                                                                         *)
(* A record is a function from the words the copy moves one at a time:     *)
(* the magic and generation, the sequence and enable value, the commit     *)
(* word (with the tail of the reserved bytes).  Generation 0 stands for a  *)
(* record without the magic.                                               *)
(***************************************************************************)
EXTENDS Naturals, Sequences, FiniteSets, SequencesExt

CONSTANTS MaxGeneration,   \* bound on the boots that keep the DDR contents
          MaxSequence,     \* stands for U32_MAX, the sequence limit
          Retained,        \* the DDR contents can survive a board reset
          MayPanic         \* the firmware can reach its panic handler

ASSUME WifiPowerAssumption ==
    /\ MaxGeneration \in Nat \ {0}
    /\ MaxSequence \in Nat \ {0}
    /\ Retained \in BOOLEAN
    /\ MayPanic \in BOOLEAN

Off == 0
On == 1
Failed == 2                \* the u32::MAX enable value of a failed apply

Words == {"identity", "command", "commit"}

Sequences32 == 0 .. MaxSequence

Command == [sequence : Sequences32, enabled : {Off, On, Failed}]

Record == [identity : 0 .. MaxGeneration, command : Command, commit : Sequences32]

Blank == [identity |-> 0, command |-> [sequence |-> 0, enabled |-> Off], commit |-> 0]

(* The error codes the driver can latch; "none" is power->fault == 0.      *)
Faults == {"none", "EOVERFLOW", "EAGAIN", "ESTALE", "EIO", "ETIMEDOUT"}

VARIABLES
    \* shared DDR
    req,          \* request cacheline, written by Linux
    rsp,          \* completion cacheline, written by the firmware
    status,       \* generation and health of the firmware status cacheline
    \* firmware
    generation,   \* the boot generation, also the manifest's
    service,      \* where the LCD task is in Service::step
    first,        \* its first snapshot of the request
    completed,    \* Service.wifi_completed
    answer,       \* the response process() built
    latch,        \* the GPIOA26 output latch
    \* Linux regulator driver
    lpc,          \* where the caller holding power->lock is
    bound,        \* the probe succeeded: the provider is exposed to MMC
    sequence,     \* power->sequence
    enabled,      \* power->enabled
    fault,        \* power->fault
    todo,         \* the commands the current call still has to issue
    words,        \* words the memcpy in progress has yet to move
    snaps,        \* the two completion snapshots being read
    expired,      \* the command's 2 s deadline has passed
    \* history of this boot
    published,    \* the commands committed, in order
    applied,      \* the commands the firmware carried out, in order
    rested        \* the line has been low for a whole power-off interval

memory == <<req, rsp, status>>
firmware == <<generation, service, first, completed, answer, latch>>
driver == <<lpc, bound, sequence, enabled, fault, todo, words, snaps, expired>>
history == <<published, applied, rested>>
vars == <<memory, firmware, driver, history>>

MemoryType ==
    /\ req \in Record
    /\ rsp \in Record
    /\ status \in [generation : 0 .. MaxGeneration,
                   health : {"dormant", "active", "flagged", "panicked"}]

FirmwareType ==
    /\ generation \in 1 .. MaxGeneration
    /\ service \in {"unauthorized", "construct", "poll", "second", "respond",
                    "commit", "panel", "faulted", "halted"}
    /\ first \in Record
    /\ completed \in Sequences32
    /\ answer \in Record
    /\ latch \in {"undriven", "off", "on"}

DriverType ==
    /\ lpc \in {"unbound", "idle", "enter", "check", "retry", "copy", "commit",
                "wait", "first", "second", "deadline", "off time", "register"}
    /\ sequence \in Sequences32
    /\ fault \in Faults
    /\ todo \in {<<>>, <<Off>>, <<On>>, <<Off, On>>}
    /\ words \in SUBSET Words
    /\ snaps \in [{"first", "second"} -> Record]

FlagType == bound \in BOOLEAN /\ enabled \in BOOLEAN /\ expired \in BOOLEAN /\ rested \in BOOLEAN

HistoryType == published \in Seq(Command) /\ applied \in Seq(Command)

TypeOK == MemoryType /\ FirmwareType /\ DriverType /\ FlagType /\ HistoryType

-----------------------------------------------------------------------------
(* Firmware.                                                               *)

Level(e) == IF e = On THEN "on" ELSE "off"

(* Activation authorises the LCD service and publishes ACTIVE.             *)
Authorize ==
    /\ service = "unauthorized"
    /\ service' = "construct"
    /\ status' = [status EXCEPT !.health = IF @ = "dormant" THEN "active" ELSE @]
    /\ UNCHANGED <<req, rsp, generation, first, completed, answer, latch,
                   driver, history>>

(* Panel::new drives the Wi-Fi line low before anything else; when it      *)
(* fails the service stays faulted.                                        *)
Construct ==
    /\ service = "construct"
    /\ \/ service' = "poll" /\ latch' = "off"
       \/ service' = "faulted" /\ UNCHANGED latch
    /\ UNCHANGED <<memory, generation, first, completed, answer, driver,
                   history>>

(* wifi_power::step, first snapshot.                                       *)
FirstSnapshot ==
    /\ service = "poll"
    /\ first' = req
    /\ service' = "second"
    /\ UNCHANGED <<memory, generation, completed, answer, latch, driver,
                   history>>

(* Variant: the commit word is not compared.                               *)
AcceptableUncommitted(r) ==
    /\ r.identity = generation
    /\ r.command.sequence > completed
    /\ r.command.enabled \in {Off, On}

(* The conditions of process().                                            *)
Acceptable(r) ==
    /\ r.identity = generation
    /\ r.command.sequence > completed
    /\ r.commit = r.command.sequence
    /\ r.command.enabled \in {Off, On}

(* Second snapshot, then process(): an acceptable stable record is applied *)
(* once, and a failed latch readback is answered with Failed, not retried. *)
Process ==
    /\ service = "second"
    /\ first' = Blank
    /\ UNCHANGED <<memory, generation, driver, published>>
    /\ IF first = req /\ Acceptable(req)
       THEN /\ \E ok \in BOOLEAN :
                 /\ latch' \in IF ok THEN {Level(req.command.enabled)}
                                     ELSE {latch, Level(req.command.enabled)}
                 /\ answer' = [identity |-> generation,
                               command |-> [req.command EXCEPT
                                              !.enabled = IF ok THEN @ ELSE Failed],
                               commit |-> 0]
            /\ completed' = req.command.sequence
            /\ applied' = Append(applied, req.command)
            /\ rested' = FALSE
            /\ service' = "respond"
       ELSE /\ service' = "panel"
            /\ UNCHANGED <<completed, answer, latch, applied, rested>>

(* The completion body is cleaned to DDR with a zero commit, then the      *)
(* commit word.                                                            *)
Respond ==
    /\ service = "respond"
    /\ rsp' = answer
    /\ service' = "commit"
    /\ UNCHANGED <<req, status, generation, first, completed, answer, latch,
                   driver, history>>

CommitResponse ==
    /\ service = "commit"
    /\ rsp' = [rsp EXCEPT !.commit = answer.command.sequence]
    /\ service' = "panel"
    /\ UNCHANGED <<req, status, generation, first, completed, answer, latch,
                   driver, history>>

(* The rest of Service::step: the panel advances or faults for good.  A    *)
(* faulted service no longer polls the request.                            *)
PanelStep ==
    /\ service = "panel"
    /\ service' \in {"poll", "faulted"}
    /\ UNCHANGED <<memory, generation, first, completed, answer, latch,
                   driver, history>>

(* The control task publishes a diagnostic flag (a dropped request, a lock *)
(* failure, a response timeout or the LCD fault); flags are sticky.        *)
PublishFlag ==
    /\ status.health \in {"dormant", "active"}
    /\ service # "halted"
    /\ status' = [status EXCEPT !.health = "flagged"]
    /\ UNCHANGED <<req, rsp, firmware, driver, history>>

(* The panic handler publishes a status with generation 0 and spins.       *)
Panic ==
    /\ MayPanic
    /\ service # "halted"
    /\ service' = "halted"
    /\ status' = [generation |-> 0, health |-> "panicked"]
    /\ UNCHANGED <<req, rsp, generation, first, completed, answer, latch,
                   driver, history>>

-----------------------------------------------------------------------------
(* Linux regulator driver.  One caller at a time holds power->lock.        *)

(* The values generation_valid() can return: two snapshots of the status   *)
(* differ whenever the firmware publishes a heartbeat between them.        *)
GenerationValid ==
    {"EAGAIN",
     IF status.generation # generation THEN "ESTALE"
     ELSE IF status.health # "active" THEN "EIO" ELSE "none"}

(* Variant: a request left by an earlier bind is not looked for.           *)
NoEarlierRequest == FALSE

(* The request record already belongs to this generation.                  *)
EarlierRequest == req.identity = generation /\ req.command.sequence # 0

(* power_probe: defer until the firmware is active, and refuse a second    *)
(* bind in a generation that already holds a request.                      *)
Probe ==
    /\ lpc = "unbound"
    /\ "none" \in GenerationValid
    /\ ~EarlierRequest
    /\ sequence' = 0
    /\ enabled' = FALSE
    /\ fault' = "none"
    /\ todo' = <<Off>>
    /\ lpc' = "enter"
    /\ UNCHANGED <<memory, firmware, bound, words, snaps, expired, history>>

(* Variant: power is switched on without cycling it.                       *)
EnableAtOnce == <<On>>

(* power_enable power-cycles the module: off, the off time, on.            *)
EnableCommands == <<Off, On>>

PowerEnable ==
    /\ lpc = "idle"
    /\ todo' = EnableCommands
    /\ lpc' = "enter"
    /\ UNCHANGED <<memory, firmware, bound, sequence, enabled, fault, words,
                   snaps, expired, history>>

PowerDisable ==
    /\ lpc = "idle"
    /\ todo' = <<Off>>
    /\ lpc' = "enter"
    /\ UNCHANGED <<memory, firmware, bound, sequence, enabled, fault, words,
                   snaps, expired, history>>

Return == IF bound THEN "idle" ELSE "unbound"

(* The fault label of set_power_locked.                                    *)
Fail(e) ==
    /\ fault' = e
    /\ lpc' = Return
    /\ todo' = <<>>

(* Variant: the sequence limit is not looked at.                           *)
NeverExhausted == FALSE

Exhausted == sequence = MaxSequence

(* set_power_locked: a latched fault is returned and nothing is written.   *)
Enter ==
    /\ lpc = "enter"
    /\ \/ /\ fault # "none"
          /\ Fail(fault)
          /\ UNCHANGED expired
       \/ /\ fault = "none"
          /\ Exhausted
          /\ Fail("EOVERFLOW")
          /\ UNCHANGED expired
       \/ /\ fault = "none"
          /\ ~Exhausted
          /\ lpc' = "check"
          /\ expired' = FALSE
          /\ UNCHANGED <<fault, todo>>
    /\ UNCHANGED <<memory, firmware, bound, sequence, enabled, words, snaps,
                   history>>

(* The two-second deadline of the command passes.                          *)
Expire ==
    /\ lpc \in {"check", "retry", "copy", "commit", "wait", "first", "second", "deadline"}
    /\ ~expired
    /\ expired' = TRUE
    /\ UNCHANGED <<memory, firmware, lpc, bound, sequence, enabled, fault,
                   todo, words, snaps, history>>

(* Variant: the deadline is never noticed.                                 *)
NeverTimedOut == FALSE

(* time_after_eq(jiffies, deadline).                                       *)
TimedOut == expired

(* Wait for a stable status of an active firmware before publishing.       *)
CheckBeforePublish ==
    /\ lpc = "check"
    /\ \E v \in GenerationValid :
          \/ /\ v = "none"
             /\ sequence' = sequence + 1
             /\ words' = Words
             /\ lpc' = "copy"
             /\ UNCHANGED <<fault, todo>>
          \/ /\ v = "EAGAIN"
             /\ lpc' = "retry"
             /\ UNCHANGED <<sequence, words, fault, todo>>
          \/ /\ v \notin {"none", "EAGAIN"}
             /\ Fail(v)
             /\ UNCHANGED <<sequence, words>>
    /\ UNCHANGED <<memory, firmware, bound, enabled, snaps, expired, history>>

RetryBeforePublish ==
    /\ lpc = "retry"
    /\ IF TimedOut
       THEN Fail("EAGAIN")
       ELSE lpc' = "check" /\ UNCHANGED <<fault, todo>>
    /\ UNCHANGED <<memory, firmware, bound, sequence, enabled, words, snaps,
                   expired, history>>

Request ==
    [identity |-> generation,
     command |-> [sequence |-> sequence, enabled |-> Head(todo)],
     commit |-> 0]

(* memcpy_toio moves the record one word at a time, in no fixed order      *)
(* before the barrier.                                                     *)
CopyRequestWord ==
    /\ lpc = "copy"
    /\ \E w \in words :
          /\ req' = [req EXCEPT ![w] = Request[w]]
          /\ words' = words \ {w}
          /\ lpc' = IF words = {w} THEN "commit" ELSE "copy"
    /\ UNCHANGED <<rsp, status, firmware, bound, sequence, enabled, fault,
                   todo, snaps, expired, history>>

CommitRequest ==
    /\ lpc = "commit"
    /\ req' = [req EXCEPT !.commit = sequence]
    /\ published' = Append(published, Request.command)
    /\ lpc' = "wait"
    /\ UNCHANGED <<rsp, status, firmware, bound, sequence, enabled, fault,
                   todo, words, snaps, expired, applied, rested>>

(* One turn of the acknowledgement loop: status first.                     *)
WaitCheck ==
    /\ lpc = "wait"
    /\ \E v \in GenerationValid :
          \/ /\ v = "none"
             /\ words' = Words
             /\ lpc' = "first"
             /\ UNCHANGED <<fault, todo>>
          \/ /\ v = "EAGAIN"
             /\ lpc' = "deadline"
             /\ UNCHANGED <<words, fault, todo>>
          \/ /\ v \notin {"none", "EAGAIN"}
             /\ Fail(v)
             /\ UNCHANGED words
    /\ UNCHANGED <<memory, firmware, bound, sequence, enabled, snaps, expired,
                   history>>

(* The first and then the second memcpy_fromio of the completion.          *)
ReadWord(n) ==
    \E w \in words :
       /\ snaps' = [snaps EXCEPT ![n][w] = rsp[w]]
       /\ words' = words \ {w}

ReadFirst ==
    /\ lpc = "first"
    /\ IF words = {}
       THEN lpc' = "second" /\ words' = Words /\ UNCHANGED snaps
       ELSE ReadWord("first") /\ UNCHANGED lpc
    /\ UNCHANGED <<memory, firmware, bound, sequence, enabled, fault, todo,
                   expired, history>>

ReadSecond ==
    /\ lpc = "second"
    /\ words # {}
    /\ ReadWord("second")
    /\ UNCHANGED <<memory, firmware, lpc, bound, sequence, enabled, fault, todo,
                   expired, history>>

(* Variant: a completion of any boot is taken.                             *)
AcknowledgedAny ==
    /\ snaps["first"] = snaps["second"]
    /\ snaps["first"].command.sequence = sequence
    /\ snaps["first"].commit = sequence

(* acknowledged(): a stable completion of exactly this command.            *)
Acknowledged ==
    /\ snaps["first"] = snaps["second"]
    /\ snaps["first"].identity = generation
    /\ snaps["first"].command.sequence = sequence
    /\ snaps["first"].commit = sequence

(* Variant: the value in the completion is not compared.                   *)
HonouredAnyway == TRUE

(* The completion says that the line was read back as commanded.           *)
Honoured == snaps["first"].command.enabled = Head(todo)

Evaluate ==
    /\ lpc = "second"
    /\ words = {}
    /\ \/ /\ ~Acknowledged
          /\ lpc' = "deadline"
          /\ UNCHANGED <<fault, todo, enabled>>
       \/ /\ Acknowledged
          /\ ~Honoured
          /\ Fail("EIO")
          /\ UNCHANGED enabled
       \/ /\ Acknowledged
          /\ Honoured
          /\ enabled' = (Head(todo) = On)
          /\ todo' = Tail(todo)
          /\ lpc' = IF Tail(todo) # <<>> THEN "off time"
                    ELSE IF bound THEN "idle" ELSE "register"
          /\ UNCHANGED fault
    /\ snaps' = [n \in {"first", "second"} |-> Blank]
    /\ UNCHANGED <<memory, firmware, bound, sequence, words, expired, history>>

(* The end of a turn: give up at the deadline, or sleep and try again.     *)
DeadlineCheck ==
    /\ lpc = "deadline"
    /\ IF TimedOut
       THEN Fail("ETIMEDOUT")
       ELSE lpc' = "wait" /\ UNCHANGED <<fault, todo>>
    /\ UNCHANGED <<memory, firmware, bound, sequence, enabled, words, snaps,
                   expired, history>>

(* power_enable sleeps between the acknowledged off and the on command.    *)
OffTime ==
    /\ lpc = "off time"
    /\ rested' = TRUE
    /\ lpc' = "enter"
    /\ UNCHANGED <<memory, firmware, bound, sequence, enabled, fault, todo,
                   words, snaps, expired, published, applied>>

(* The end of power_probe: registration and the attribute can fail.        *)
Register ==
    /\ lpc = "register"
    /\ bound' \in BOOLEAN
    /\ lpc' = IF bound' THEN "idle" ELSE "unbound"
    /\ UNCHANGED <<memory, firmware, sequence, enabled, fault, todo, words,
                   snaps, expired, history>>

-----------------------------------------------------------------------------
(* Both processors restart.  When the DDR contents survive, the generation *)
(* follows the surviving status; otherwise it starts at 1.                 *)
Restart(g) ==
    /\ generation' = g
    /\ status' = [generation |-> g, health |-> "dormant"]
    /\ service' = "unauthorized"
    /\ first' = Blank
    /\ completed' = 0
    /\ answer' = Blank
    /\ latch' = "undriven"
    /\ lpc' = "unbound"
    /\ bound' = FALSE
    /\ sequence' = 0
    /\ enabled' = FALSE
    /\ fault' = "none"
    /\ todo' = <<>>
    /\ words' = {}
    /\ snaps' = [n \in {"first", "second"} |-> Blank]
    /\ expired' = FALSE
    /\ published' = <<>>
    /\ applied' = <<>>
    /\ rested' = FALSE

WarmReset ==
    /\ Retained
    /\ status.generation < MaxGeneration
    /\ Restart(status.generation + 1)
    /\ UNCHANGED <<req, rsp>>

ColdReset ==
    /\ Restart(1)
    /\ req' = Blank
    /\ rsp' = Blank

Init ==
    /\ req = Blank
    /\ rsp = Blank
    /\ status = [generation |-> 1, health |-> "dormant"]
    /\ generation = 1
    /\ service = "unauthorized"
    /\ first = Blank
    /\ completed = 0
    /\ answer = Blank
    /\ latch = "undriven"
    /\ lpc = "unbound"
    /\ bound = FALSE
    /\ sequence = 0
    /\ enabled = FALSE
    /\ fault = "none"
    /\ todo = <<>>
    /\ words = {}
    /\ snaps = [n \in {"first", "second"} |-> Blank]
    /\ expired = FALSE
    /\ published = <<>>
    /\ applied = <<>>
    /\ rested = FALSE

FirmwareStep ==
    \/ Authorize \/ Construct \/ FirstSnapshot \/ Process \/ Respond
    \/ CommitResponse \/ PanelStep \/ PublishFlag \/ Panic

(* The steps of a call in progress.                                        *)
CallStep ==
    \/ Enter \/ CheckBeforePublish \/ RetryBeforePublish \/ CopyRequestWord
    \/ CommitRequest \/ WaitCheck \/ ReadFirst \/ ReadSecond \/ Evaluate
    \/ DeadlineCheck \/ OffTime \/ Register

DriverStep == Probe \/ PowerEnable \/ PowerDisable \/ CallStep

Next == FirmwareStep \/ DriverStep \/ Expire \/ WarmReset \/ ColdReset

(* The kernel keeps running the caller, and time passes.  Nothing is       *)
(* assumed of the firmware.                                                *)
Fairness == WF_vars(CallStep) /\ WF_vars(Expire)

Spec == Init /\ [][Next]_vars /\ Fairness

-----------------------------------------------------------------------------
(* Commands take effect exactly in the order in which this boot's driver   *)
(* committed them, each at most once and none skipped: a torn, stale or    *)
(* uncommitted request never drives GPIOA26 (wifi_power::process).         *)
AppliedAsPublished == IsPrefix(applied, published)

(* Whenever the provider is between commands and has latched no fault, the *)
(* value it reports is the level of the output latch: an acknowledgement   *)
(* is never believed for another command (acknowledged, set_power_locked). *)
ReportedIsDriven ==
    (lpc \in {"idle", "off time", "register"} /\ fault = "none")
        => latch = IF enabled THEN "on" ELSE "off"

(* The line only goes high after a whole power-off interval spent low      *)
(* (power_enable's acknowledged off, sleep, on).                           *)
PowerCycled == [][latch' = "on" /\ latch # "on" => rested]_vars

(* A request is only overwritten once the firmware has executed it: after  *)
(* a timeout or any other fault no later call, and no later bind, touches  *)
(* a command whose execution is unknown; only a board reset ends that      *)
(* (set_power_locked, power_probe).                                        *)
RequestRetained ==
    [][req' # req /\ published' # <<>> => Len(applied) >= Len(published)]_vars

(* Every call into the provider returns, even if the firmware is dead or   *)
(* its status never reads stable: the deadline ends both loops.            *)
CallReturns == lpc \notin {"idle", "unbound"} ~> lpc \in {"idle", "unbound"}
=============================================================================
