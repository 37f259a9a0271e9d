----------------------------- MODULE LcdEngine -----------------------------
(***************************************************************************)
(* The ST7789 panel engine of the C906L firmware                           *)
(* (firmware/sg2002-c906l/src/lcd.rs, Engine).                             *)
(*                                                                         *)
(* One task submits jobs and steps the engine.  A step reads the tick      *)
(* counter once and then makes up to MaxChunks transfers, during which the *)
(* ticks go on.  The panel is external: it sees the reset line, commands   *)
(* (D/C low) and parameters or pixels (D/C high).  A transfer that fails   *)
(* may have sent a prefix, after which nothing is known of the panel.      *)
(*                                                                         *)
(* A pixel is its source and its position in the job, which decide its     *)
(* colour.  The initialisation table is the lengths of its parameters.     *)
(***************************************************************************)
EXTENDS Naturals, Sequences, FiniteSets

CONSTANTS Width, Height,   \* of the glass
          YOffset,         \* the first row of the glass in panel memory
          InitTable,       \* parameter bytes of each initialisation command
          Ticks,           \* the length of each delay
          TickLimit,       \* the tick counter is taken modulo this, 2^32 in the code
          MaxLag,          \* most ticks from one reading of the counter to the next
          MaxChunks,       \* transfers in one step
          Jobs,            \* the jobs that are submitted
          MaxSequence      \* bound on job sequences

Delays == {"ResetLow", "ResetHigh", "SleepOut", "Init", "Ready"}

ASSUME LcdEngineAssumption ==
    /\ {Width, Height, MaxChunks, MaxLag, MaxSequence} \subseteq Nat \ {0}
    /\ YOffset \in Nat
    /\ InitTable \in Seq(Nat)
    /\ Ticks \in [Delays -> Nat \ {0}]
    /\ TickLimit \in Nat
    /\ \A d \in Delays : Ticks[d] < TickLimit \div 2 /\ MaxLag < TickLimit \div 2
    /\ Jobs \subseteq [source : {"solid", "demo", "slot0", "slot1", "slot2"},
                       x : Nat, y : Nat, width : Nat, height : Nat]

TransferBytes == 8         \* entries of the SPI FIFO
TransferPixels == 4

VARIABLES clock, lag, now, \* the tick counter, ticks since it was read, its reading
          chunks,          \* transfers left in this step, 0 between steps
          phase,           \* Engine::phase
          state, accepted, completed,   \* Engine::status
          last_job,
          panel,           \* what the panel has been told
          since            \* history: ticks since the current delay was asked for

vars == <<clock, lag, now, chunks, phase, state, accepted, completed, last_job,
          panel, since>>
status == <<state, accepted, completed, last_job>>
time == <<clock, lag, now>>

NoJob == [source |-> "none", x |-> 0, y |-> 0, width |-> 0, height |-> 0]
ReadyPhase == [name |-> "Ready"]
FaultPhase == [name |-> "Fault"]
Command(name, index) == <<name, index>>
Torn == Command("torn", 0)

(* Variant: the deadline is set at once from the reading of this step.     *)
DelayArmed(next) ==
    [name |-> "Delay", armed |-> TRUE, deadline |-> (now + Ticks[next]) % TickLimit,
     next |-> next]

Delay(next) == [name |-> "Delay", armed |-> FALSE, deadline |-> 0, next |-> next]

(* Engine::new, after Panel::new left the reset line inactive.             *)
Init ==
    /\ clock \in 0 .. TickLimit - 1
    /\ lag = 0
    /\ now = clock
    /\ chunks = 0
    /\ phase = [name |-> "Delay", armed |-> FALSE, deadline |-> 0, next |-> "ResetLow"]
    /\ state = "Initializing"
    /\ accepted = 0
    /\ completed = 0
    /\ last_job = NoJob
    /\ panel = [reset |-> FALSE, command |-> Command("none", 0), bytes |-> 0,
                columns |-> <<0, 0>>, rows |-> <<0, 0>>, pixels |-> <<>>]
    /\ since = 0

-----------------------------------------------------------------------------
(* Jobs.                                                                   *)

(* Render::new: a slot that exists and a rectangle on the glass.           *)
Renderable(job) ==
    /\ job.source # "slot2"
    /\ job.width > 0 /\ job.height > 0
    /\ job.x + job.width <= Width
    /\ job.y + job.height <= Height

(* Variant: the last sequence is admitted again.                           *)
FreshAny(sequence) == sequence # 0

Fresh(sequence) == sequence # 0 /\ sequence # accepted

(* Engine::submit, when it admits the job; otherwise it changes nothing.   *)
Submit(sequence, job) ==
    /\ chunks = 0
    /\ state = "Ready"
    /\ Fresh(sequence)
    /\ Renderable(job)
    /\ last_job' = job
    /\ phase' = [name |-> "Draw", job |-> job, stage |-> 0, pixel |-> 0]
    /\ state' = "Busy"
    /\ accepted' = sequence
    /\ UNCHANGED <<time, chunks, completed, panel, since>>

-----------------------------------------------------------------------------
(* The panel.                                                              *)

Sent(command) == [panel EXCEPT !.command = command, !.bytes = 0,
                               !.pixels = IF command[1] = "ramwr" THEN <<>> ELSE @]

Parameters(count) == [panel EXCEPT !.bytes = @ + count]

(* The parameter bytes a command takes; for the RAM write, the pixels of   *)
(* the window.                                                             *)
Area(job) == job.width * job.height
Takes(command) ==
    CASE command[1] = "init" -> InitTable[command[2]]
      [] command[1] \in {"caset", "raset"} -> 4
      [] command[1] = "ramwr" ->
           2 * (panel.columns[2] - panel.columns[1] + 1) * (panel.rows[2] - panel.rows[1] + 1)
      [] OTHER -> 0

-----------------------------------------------------------------------------
(* Engine::step and Engine::advance.                                       *)

(* The task reads the tick counter and calls step.                         *)
Step ==
    /\ chunks = 0
    /\ chunks' = MaxChunks
    /\ now' = clock
    /\ lag' = 0
    /\ UNCHANGED <<clock, phase, status, panel, since>>

Continue == chunks' = chunks - 1
Leave == chunks' = 0

Idle ==
    /\ chunks > 0
    /\ phase \in {ReadyPhase, FaultPhase}
    /\ Leave
    /\ UNCHANGED <<time, phase, status, panel, since>>

ArmDelay ==
    /\ chunks > 0
    /\ phase.name = "Delay" /\ ~phase.armed
    /\ phase' = [phase EXCEPT !.armed = TRUE,
                              !.deadline = (now + Ticks[phase.next]) % TickLimit]
    /\ Leave
    /\ UNCHANGED <<time, status, panel, since>>

(* Variant: the counts are compared without regard to wrapping.            *)
ReachedUnwrapped(deadline) == now >= deadline

Reached(deadline) == (now + TickLimit - deadline) % TickLimit < TickLimit \div 2

DelayGoesOn ==
    /\ chunks > 0
    /\ phase.name = "Delay" /\ phase.armed
    /\ ~Reached(phase.deadline)
    /\ Leave
    /\ UNCHANGED <<time, phase, status, panel, since>>

(* What a delay was for, and the next one.  The tick counter is of no use  *)
(* once the engine is ready, and is reset to keep the state space small.   *)
AfterDelay ==
    /\ chunks > 0
    /\ phase.name = "Delay" /\ phase.armed
    /\ Reached(phase.deadline)
    /\ CASE phase.next = "ResetLow" ->
              /\ panel' = [panel EXCEPT !.reset = TRUE]
              /\ phase' = Delay("ResetHigh")
         [] phase.next = "ResetHigh" ->
              /\ panel' = [panel EXCEPT !.reset = FALSE]
              /\ phase' = Delay("SleepOut")
         [] phase.next = "SleepOut" ->
              /\ panel' = Sent(Command("slpout", 0))
              /\ phase' = Delay("Init")
         [] phase.next = "Init" ->
              /\ panel' = panel
              /\ phase' = [name |-> "Init", index |-> 1, offset |-> 0]
         [] phase.next = "Ready" ->
              /\ panel' = panel
              /\ phase' = ReadyPhase
    /\ state' = IF phase.next = "Ready" THEN "Ready" ELSE state
    /\ since' = 0
    /\ Leave
    /\ IF phase.next = "Ready" THEN clock' = 0 /\ lag' = 0 /\ now' = 0 ELSE UNCHANGED time
    /\ UNCHANGED <<accepted, completed, last_job>>

(* The next entry of the table, or the rest of this one.                   *)
Entry(index, offset) == [name |-> "Init", index |-> index, offset |-> offset]

InitCommand ==
    /\ chunks > 0
    /\ phase.name = "Init"
    /\ phase.index <= Len(InitTable)
    /\ phase.offset = 0
    /\ panel' = Sent(Command("init", phase.index))
    /\ phase' = IF InitTable[phase.index] = 0 THEN Entry(phase.index + 1, 0)
                                              ELSE Entry(phase.index, 1)
    /\ Continue
    /\ UNCHANGED <<time, status, since>>

RestOffset(end) == end + 1

InitData ==
    LET length == InitTable[phase.index]
        begin == phase.offset - 1
        end == IF begin + TransferBytes < length THEN begin + TransferBytes ELSE length
    IN  /\ chunks > 0
        /\ phase.name = "Init"
        /\ phase.index <= Len(InitTable)
        /\ phase.offset > 0
        /\ panel' = Parameters(end - begin)
        /\ phase' = IF end = length THEN Entry(phase.index + 1, 0)
                                    ELSE Entry(phase.index, RestOffset(end))
        /\ Continue
        /\ UNCHANGED <<time, status, since>>

InitDone ==
    /\ chunks > 0
    /\ phase.name = "Init"
    /\ phase.index = Len(InitTable) + 1
    /\ phase' = Delay("Ready")
    /\ since' = 0
    /\ Leave
    /\ UNCHANGED <<time, status, panel>>

(* Setting the window and starting the RAM write.                          *)
DrawWindow ==
    /\ chunks > 0
    /\ phase.name = "Draw"
    /\ phase.stage < 5
    /\ LET job == phase.job
       IN panel' = CASE phase.stage = 0 -> Sent(Command("caset", 0))
                     [] phase.stage = 1 ->
                          [Parameters(4) EXCEPT !.columns = <<job.x, job.x + job.width - 1>>]
                     [] phase.stage = 2 -> Sent(Command("raset", 0))
                     [] phase.stage = 3 ->
                          [Parameters(4) EXCEPT !.rows =
                               <<job.y + YOffset, job.y + YOffset + job.height - 1>>]
                     [] phase.stage = 4 -> Sent(Command("ramwr", 0))
    /\ phase' = [phase EXCEPT !.stage = @ + 1]
    /\ Continue
    /\ UNCHANGED <<time, status, since>>

(* A frame is one burst, other jobs go four pixels at a time.              *)
Burst(job, remaining) ==
    IF job.source \in {"slot0", "slot1"} \/ remaining < TransferPixels
        THEN remaining ELSE TransferPixels

LastTransfer(count, remaining) == count = remaining

DrawPixels ==
    LET job == phase.job
        remaining == Area(job) - phase.pixel
        count == Burst(job, remaining)
    IN  /\ chunks > 0
        /\ phase.name = "Draw"
        /\ phase.stage = 5
        /\ panel' = [Parameters(2 * count) EXCEPT !.pixels =
                        @ \o [i \in 1 .. count |-> <<job.source, phase.pixel + i - 1>>]]
        /\ IF LastTransfer(count, remaining)
             THEN /\ phase' = ReadyPhase
                  /\ state' = "Ready"
                  /\ completed' = accepted
                  /\ Leave
             ELSE /\ phase' = [phase EXCEPT !.pixel = @ + count]
                  /\ UNCHANGED <<state, completed>>
                  /\ Continue
        /\ UNCHANGED <<time, accepted, last_job, since>>

FailedPhase == FaultPhase

(* A transfer fails: the engine stops for good.                            *)
TransferFails ==
    /\ chunks > 0
    /\ \/ phase.name = "Delay" /\ phase.armed /\ Reached(phase.deadline)
             /\ phase.next = "SleepOut"
       \/ phase.name = "Init" /\ phase.index <= Len(InitTable)
       \/ phase.name = "Draw"
    /\ panel' = [panel EXCEPT !.command = Torn]
    /\ phase' = FailedPhase
    /\ state' = "Fault"
    /\ Leave
    /\ UNCHANGED <<time, accepted, completed, last_job, since>>

(* External: the tick interrupt.  The task runs often enough that the      *)
(* counter is read again within MaxLag ticks.                              *)
Tick ==
    /\ state = "Initializing"
    /\ lag < MaxLag
    /\ clock' = (clock + 1) % TickLimit
    /\ lag' = lag + 1
    /\ since' = IF since = TickLimit THEN since ELSE since + 1
    /\ UNCHANGED <<now, chunks, phase, status, panel>>

Advance ==
    \/ Idle \/ ArmDelay \/ DelayGoesOn \/ AfterDelay \/ InitCommand \/ InitData
    \/ InitDone \/ DrawWindow \/ DrawPixels \/ TransferFails

Next ==
    \/ Step \/ Advance \/ Tick
    \/ \E sequence \in 0 .. MaxSequence, job \in Jobs : Submit(sequence, job)

(* The LCD task keeps stepping while the panel is not settled, and time    *)
(* goes on.                                                                *)
Spec == Init /\ [][Next]_vars /\ WF_vars(Step) /\ WF_vars(Advance) /\ WF_vars(Tick)

-----------------------------------------------------------------------------
(* Types; the window is always on the glass.                               *)
TypeOK ==
    /\ {clock, now} \subseteq 0 .. TickLimit - 1
    /\ lag \in 0 .. MaxLag
    /\ chunks \in 0 .. MaxChunks
    /\ phase \in {ReadyPhase, FaultPhase}
          \cup [name : {"Delay"}, armed : BOOLEAN, deadline : 0 .. TickLimit - 1, next : Delays]
          \cup [name : {"Init"}, index : 1 .. Len(InitTable) + 1,
                offset : Nat]
          \cup [name : {"Draw"}, job : Jobs, stage : 0 .. 5, pixel : 0 .. Width * Height]
    /\ state \in {"Initializing", "Ready", "Busy", "Fault"}
    /\ {accepted, completed} \subseteq 0 .. MaxSequence
    /\ last_job \in Jobs \cup {NoJob}
    /\ panel.columns \in (0 .. Width - 1) \X (0 .. Width - 1)
    /\ panel.rows \in (0 .. YOffset + Height - 1) \X (0 .. YOffset + Height - 1)
    /\ since \in 0 .. TickLimit

(* The panel gets what it needs: between asking for a delay and acting on  *)
(* its end the full number of ticks passed, although the counter wraps and *)
(* goes on while a step transfers ("so a stale `now` cannot shorten a      *)
(* required panel delay", lcd.rs:358), and no command comes before the     *)
(* last one has all its parameters or pixels, however a job or the         *)
(* initialisation is cut into transfers and steps (Engine::advance).       *)
PanelProtocol ==
    /\ [][phase.name = "Delay" /\ (phase'.name # "Delay" \/ phase'.next # phase.next)
             => phase'.name = "Fault" \/ since >= Ticks[phase.next]]_vars
    /\ [][panel'.command # panel.command /\ panel'.command # Torn
             => panel.bytes = Takes(panel.command)]_vars

(* A completed sequence means that the whole job, and only it, is on the   *)
(* panel: lcd_service.rs releases the slot when completed_sequence is the  *)
(* sequence it submitted.                                                  *)
CompletionMeansDrawn ==
    completed = accepted /\ accepted # 0 =>
        /\ panel.columns = <<last_job.x, last_job.x + last_job.width - 1>>
        /\ panel.rows = <<last_job.y + YOffset, last_job.y + YOffset + last_job.height - 1>>
        /\ panel.pixels = [i \in 1 .. Area(last_job) |-> <<last_job.source, i - 1>>]

(* The initialisation and each job come to an end.                         *)
Settles == state \in {"Initializing", "Busy"} ~> state \in {"Ready", "Fault"}

=============================================================================
