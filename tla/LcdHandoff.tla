----------------------------- MODULE LcdHandoff -----------------------------
(***************************************************************************)
(* Frames handed from the Linux DRM driver to the C906L LCD service.       *)
(*                                                                         *)
(* The driver (pkgs/sg2002/c906l-framebuffer) copies the damaged part of a *)
(* framebuffer into one of two slots in shared DDR, commits a request      *)
(* record last and waits for the completion record.  The LCD task          *)
(* (firmware/sg2002-c906l/src/lcd_service.rs) reads a committed request    *)
(* twice, streams the slot to the panel and completes it.                  *)
(*                                                                         *)
(* The panel is two halves.  A slot holds the damaged halves packed from   *)
(* its start, so it has two cells; the value of a half stands for its      *)
(* pixels.  A record is a function from the parts Linux moves one at a     *)
(* time: the magic and generation (0 stands for a record without the       *)
(* magic), the sequence, byte count and rectangle, and the commit word.    *)
(* The Wi-Fi command, which the same task serves, is module WifiPower.     *)
(***************************************************************************)
EXTENDS Naturals, Sequences

CONSTANTS Values,          \* what a half of a framebuffer can show
          Black,           \* the value memset_io writes when blanking
          Noise,           \* what the panel shows before it is first drawn
          Frames,          \* the framebuffer contents clients commit
          MaxGeneration,   \* bound on the boots that keep the DDR contents
          MaxSequence,     \* stands for U32_MAX, after which a slot's sequence is 1
          Retained,        \* the DDR contents can survive a board reset
          MayPanic         \* the firmware can reach its panic handler

ASSUME LcdHandoffAssumption ==
    /\ Black \in Values
    /\ Noise \notin Values
    /\ Frames \subseteq [{"top", "bottom"} -> Values]
    /\ MaxGeneration \in Nat \ {0}
    /\ MaxSequence \in Nat \ {0, 1}
    /\ Retained \in BOOLEAN
    /\ MayPanic \in BOOLEAN

Slots == {0, 1}
Other(s) == 1 - s
Halves == <<"top", "bottom">>
Cells == <<"lo", "hi">>
Rects == {<<"top">>, <<"bottom">>, Halves}
Generations == 0 .. MaxGeneration
Sequences32 == 0 .. MaxSequence

RecordWords == {"identity", "body", "commit"}

Blank == [identity |-> 0, body |-> [number |-> 0, result |-> 0, rect |-> <<>>],
          commit |-> 0]

Record == [identity : Generations,
           body : [number : Sequences32, result : 0 .. 2, rect : Rects \cup {<<>>}],
           commit : Sequences32]

Contents == [{"top", "bottom"} -> Values]
BlackFrame == [h \in {"top", "bottom"} |-> Black]

(* An atomic commit: whether the CRTC is active, what its framebuffer      *)
(* shows, the rectangle DRM reports as damaged and the old CRTC state.     *)
Commits == [active : BOOLEAN, content : Contents, rect : Rects, wasActive : BOOLEAN]
None == [active |-> FALSE]

VARIABLES
    \* shared DDR
    reqs, rsps,   \* request and completion record of each slot
    cells,        \* pixels of each slot
    status,       \* generation and health of the firmware status cacheline
    \* firmware
    generation,   \* the boot generation, also the manifest's
    service,      \* where the LCD task is in Service::step
    panel,        \* State of the panel engine
    gram,         \* what the panel shows
    active,       \* Service.active with the rectangle of its job
    drawn,        \* cells of the job streamed so far
    completed,    \* Service.completed
    next,         \* Service.next_slot
    look,         \* the slot the scan for requests looks at
    snap,         \* first snapshot of the request being looked at
    \* Linux DRM driver
    lpc,          \* where the commit tail is
    current,      \* the commit whose tail runs
    plane,        \* content and activity of the last swapped state
    sequence,     \* fb->sequence
    acked,        \* fb->completed
    nextSlot,     \* fb->next_slot
    goal,         \* which wait_slot call of lcd_scanout runs
    words,        \* words the memcpy in progress has yet to move
    snaps,        \* the two completion snapshots being read
    expired,      \* the commit's 20 s deadline has passed
    fault,        \* fb->fault
    backlight     \* the backlight is lit

memory == <<reqs, rsps, cells, status>>
firmware == <<generation, service, panel, gram, active, drawn, completed, next, look, snap>>
driver == <<lpc, current, plane, sequence, acked, nextSlot, goal,
            words, snaps, expired, fault, backlight>>
vars == <<memory, firmware, driver>>

Idle == [slot |-> 0, number |-> 0, rect |-> <<>>]
Jobs == [slot : Slots, number : Sequences32, rect : Rects \cup {<<>>}]
Working == active # Idle

TypeOK ==
    /\ reqs \in [Slots -> Record]
    /\ rsps \in [Slots -> Record]
    /\ cells \in [Slots -> [{"lo", "hi"} -> Values]]
    /\ status \in [generation : Generations,
                   health : {"dormant", "active", "flagged", "panicked"}]
    /\ generation \in Generations \ {0}
    /\ service \in {"unauthorized", "construct", "panel", "respond", "commit",
                    "first", "second", "faulted", "halted"}
    /\ panel \in {"Initializing", "Ready", "Busy", "Fault"}
    /\ gram \in [{"top", "bottom"} -> Values \cup {Noise}]
    /\ active \in Jobs
    /\ drawn \in 0 .. 2
    /\ completed \in [Slots -> Sequences32]
    /\ next \in Slots
    /\ look \in Slots
    /\ snap \in Record
    /\ lpc \in {"unbound", "idle", "wait", "read", "again", "sleep", "access",
                "write", "commit", "failed", "done"}
    /\ current \in Commits \cup {None}
    /\ plane \in [active : BOOLEAN, content : Contents]
    /\ sequence \in [Slots -> Sequences32]
    /\ acked \in [Slots -> Sequences32]
    /\ nextSlot \in Slots
    /\ goal \in {"reuse", "ack"}
    /\ words \in SUBSET (RecordWords \cup {"lo", "hi"})
    /\ snaps \in [{"read", "again"} -> Record]
    /\ expired \in BOOLEAN
    /\ fault \in {"none", "ETIMEDOUT", "ESTALE", "EIO"}
    /\ backlight \in BOOLEAN

-----------------------------------------------------------------------------
(* Firmware.                                                               *)

(* Activation authorises the LCD service and publishes ACTIVE.             *)
Authorize ==
    /\ service = "unauthorized"
    /\ service' = "construct"
    /\ status' = [status EXCEPT !.health = IF @ = "dormant" THEN "active" ELSE @]
    /\ UNCHANGED <<reqs, rsps, cells, generation, panel, gram, active, drawn,
                   completed, next, look, snap, driver>>

(* Panel::new, once; a failure is terminal.                                *)
Construct ==
    /\ service = "construct"
    /\ service' \in {"panel", "faulted"}
    /\ UNCHANGED <<memory, generation, panel, gram, active, drawn, completed,
                   next, look, snap, driver>>

(* What follows panel.step in Service::step: complete a finished job, stop *)
(* for good on a panel fault, look for requests when the panel is ready.   *)
AfterPanel(state, done) ==
    IF Working /\ (state = "Fault" \/ done) THEN "respond"
    ELSE IF state = "Fault" THEN "faulted"
    ELSE IF Working \/ state # "Ready" THEN "panel" ELSE "first"

(* panel.step with no frame to draw: initialisation proceeds or fails.     *)
PanelStep ==
    /\ service = "panel"
    /\ panel # "Busy"
    /\ panel' \in IF panel = "Initializing" THEN {"Initializing", "Ready", "Fault"}
                                            ELSE {panel}
    /\ service' = AfterPanel(panel', FALSE)
    /\ UNCHANGED <<memory, generation, gram, active, drawn, completed, next,
                   look, snap, driver>>

(* panel.step of a frame: the cells of the rectangle are streamed from the *)
(* slot, and the transfer can fail at any point.                           *)
StreamCell ==
    /\ service = "panel"
    /\ panel = "Busy"
    /\ \/ /\ gram' = [gram EXCEPT ![active.rect[drawn + 1]] =
                                     cells[active.slot][Cells[drawn + 1]]]
          /\ drawn' = drawn + 1
          /\ panel' = IF drawn' = Len(active.rect) THEN "Ready" ELSE "Busy"
          /\ service' = IF panel' = "Ready" THEN AfterPanel("Ready", TRUE) ELSE "panel"
       \/ /\ panel' = "Fault"
          /\ service' = AfterPanel("Fault", FALSE)
          /\ UNCHANGED <<gram, drawn>>
    /\ UNCHANGED <<memory, generation, active, completed, next, look, snap, driver>>

(* Variant: a transfer that failed is reported as complete.                *)
CompletionHidesFault(commit) ==
    [identity |-> generation,
     body |-> [number |-> active.number, result |-> 0, rect |-> <<>>],
     commit |-> commit]

Completion(commit) ==
    [identity |-> generation,
     body |-> [number |-> active.number, result |-> IF panel = "Fault" THEN 1 ELSE 0,
               rect |-> <<>>],
     commit |-> commit]

(* complete(): the body with a zero commit, cleaned, then the commit word. *)
Respond ==
    /\ service = "respond"
    /\ rsps' = [rsps EXCEPT ![active.slot] = Completion(0)]
    /\ service' = "commit"
    /\ UNCHANGED <<reqs, cells, status, generation, panel, gram, active, drawn,
                   completed, next, look, snap, driver>>

CommitResponse ==
    /\ service = "commit"
    /\ rsps' = [rsps EXCEPT ![active.slot] = Completion(active.number)]
    /\ completed' = [completed EXCEPT ![active.slot] = active.number]
    /\ active' = Idle
    /\ drawn' = 0
    /\ next' = Other(active.slot)
    /\ look' = Other(active.slot)
    /\ service' = IF panel = "Fault" THEN "faulted" ELSE "first"
    /\ UNCHANGED <<reqs, cells, status, generation, panel, gram, snap, driver>>

(* request(): first snapshot of the slot the scan looks at.                *)
ScanFirst ==
    /\ service = "first"
    /\ snap' = reqs[look]
    /\ service' = "second"
    /\ UNCHANGED <<memory, generation, panel, gram, active, drawn, completed,
                   next, look, driver>>

(* Variant: the commit word is not compared.                               *)
ValidRequestUncommitted(r) ==
    /\ r.identity = generation
    /\ r.body.number # 0
    /\ r.body.number # completed[look]
    /\ r.body.rect # <<>>
    /\ r.body.result = Len(r.body.rect)

ValidRequest(r) ==
    /\ r.identity = generation
    /\ r.body.number # 0
    /\ r.body.number # completed[look]
    /\ r.commit = r.body.number
    /\ r.body.rect # <<>>
    /\ r.body.result = Len(r.body.rect)

(* Second snapshot: a stable valid request becomes the panel's job; else   *)
(* the scan goes on to the other slot, and ends after it.                  *)
ScanSecond ==
    /\ service = "second"
    /\ snap' = Blank
    /\ IF snap = reqs[look] /\ ValidRequest(snap)
       THEN /\ active' = [slot |-> look, number |-> snap.body.number,
                          rect |-> snap.body.rect]
            /\ panel' = "Busy"
            /\ service' = "panel"
            /\ look' = next
       ELSE /\ service' = IF look = next THEN "first" ELSE "panel"
            /\ look' = Other(look)
            /\ UNCHANGED <<active, panel>>
    /\ UNCHANGED <<memory, generation, gram, drawn, completed, next, driver>>

(* The control task publishes a diagnostic flag; flags are sticky.         *)
PublishFlag ==
    /\ status.health \in {"dormant", "active"}
    /\ service # "halted"
    /\ status' = [status EXCEPT !.health = "flagged"]
    /\ UNCHANGED <<reqs, rsps, cells, firmware, driver>>

(* The panic handler publishes a status with generation 0 and spins.       *)
Panic ==
    /\ MayPanic
    /\ service # "halted"
    /\ service' = "halted"
    /\ status' = [generation |-> 0, health |-> "panicked"]
    /\ UNCHANGED <<reqs, rsps, cells, generation, panel, gram, active, drawn,
                   completed, next, look, snap, driver>>

-----------------------------------------------------------------------------
(* Linux DRM driver.                                                       *)

(* The values check_generation() can return: two snapshots of the status   *)
(* differ whenever the firmware publishes a heartbeat between them.        *)
CheckGeneration ==
    {"EAGAIN",
     IF status.generation # generation THEN "ESTALE"
     ELSE IF status.health # "active" THEN "EIO" ELSE "none"}

(* lcd_probe: an active firmware, and no request of this generation.       *)
Probe ==
    /\ lpc = "unbound"
    /\ "none" \in CheckGeneration
    /\ \A s \in Slots : ~(reqs[s].identity = generation /\ reqs[s].body.number # 0)
    /\ lpc' = "idle"
    /\ UNCHANGED <<memory, firmware, current, plane, sequence, acked,
                   nextSlot, goal, words, snaps, expired, fault, backlight>>

(* The damage DRM merges for a new state: everything on a modeset or when  *)
(* no change is reported, else at least what changed.                      *)
Damage(on, content) ==
    IF ~on \/ ~plane.active \/ content = plane.content THEN {Halves}
    ELSE {r \in Rects : \A h \in {"top", "bottom"} :
                            content[h] # plane.content[h] => \E i \in DOMAIN r : r[i] = h}

(* The tail fails at once after a fault, and draws only when the CRTC is   *)
(* or was active.                                                          *)
TailEntry(on) ==
    IF fault # "none" THEN "failed" ELSE IF on \/ plane.active THEN "wait" ELSE "done"

(* lcd_atomic_check, the swap and lcd_commit_tail up to lcd_scanout, whose *)
(* mutex is free: tails follow one another.  Once a fault is latched the   *)
(* check refuses a commit; one that passed it before fails in its tail.    *)
AtomicCommit ==
    /\ lpc = "idle"
    /\ \E on \in BOOLEAN : \E content \in IF on THEN Frames ELSE {BlackFrame} :
         /\ \E rect \in Damage(on, content) :
               current' = [active |-> on, content |-> content, rect |-> rect,
                           wasActive |-> plane.active]
         /\ plane' = [active |-> on, content |-> content]
         /\ lpc' = TailEntry(on)
    /\ goal' = "reuse"
    /\ expired' = FALSE
    /\ UNCHANGED <<memory, firmware, sequence, acked, nextSlot, words, snaps,
                   fault, backlight>>

(* The deadline of the scanout passes.  The clock is read at two places of *)
(* wait_slot, so only there does it matter.                                *)
Expire ==
    /\ lpc \in {"wait", "sleep"}
    /\ ~expired
    /\ expired' = TRUE
    /\ UNCHANGED <<memory, firmware, lpc, current, plane, sequence,
                   acked, nextSlot, goal, words, snaps, fault, backlight>>

(* The slot lcd_scanout works on: next_slot moves on at the commit.        *)
Slot == IF goal = "ack" THEN Other(nextSlot) ELSE nextSlot

Fail(e) ==
    /\ fault' = e
    /\ lpc' = "failed"

(* Variant: the deadline is never noticed.                                 *)
NeverPassed == FALSE

(* time_after_eq(jiffies, deadline).                                       *)
DeadlinePassed == expired

Acquired == IF goal = "reuse" THEN "access" ELSE "done"

(* wait_slot, top of a turn: deadline, status, then the cheap test of      *)
(* frame_completed.                                                        *)
WaitTurn ==
    /\ lpc = "wait"
    /\ \/ /\ DeadlinePassed
          /\ Fail("ETIMEDOUT")
          /\ UNCHANGED words
       \/ /\ ~DeadlinePassed
          /\ \E v \in CheckGeneration :
               \/ /\ v = "EAGAIN"
                  /\ lpc' = "sleep"
                  /\ UNCHANGED <<fault, words>>
               \/ /\ v \notin {"none", "EAGAIN"}
                  /\ Fail(v)
                  /\ UNCHANGED words
               \/ /\ v = "none"
                  /\ sequence[Slot] \in {0, acked[Slot]}
                  /\ lpc' = Acquired
                  /\ UNCHANGED <<fault, words>>
               \/ /\ v = "none"
                  /\ sequence[Slot] \notin {0, acked[Slot]}
                  /\ lpc' = "read"
                  /\ words' = RecordWords
                  /\ UNCHANGED fault
    /\ UNCHANGED <<memory, firmware, current, plane, sequence,
                   acked, nextSlot, goal, snaps, expired, backlight>>

(* The two read_record calls, word by word in the order of the record.     *)
ReadWord ==
    /\ lpc \in {"read", "again"}
    /\ words # {}
    /\ \E w \in words :
         /\ w = "commit" => words = {"commit"}
         /\ w = "body" => "identity" \notin words
         /\ snaps' = [snaps EXCEPT ![lpc][w] = rsps[Slot][w]]
         /\ words' = IF lpc = "read" /\ words = {w} THEN RecordWords ELSE words \ {w}
         /\ lpc' = IF lpc = "read" /\ words = {w} THEN "again" ELSE lpc
    /\ UNCHANGED <<memory, firmware, current, plane, sequence,
                   acked, nextSlot, goal, expired, fault, backlight>>

(* Variant: any completion of this generation is taken for the frame's.    *)
FrameCompletedAny ==
    /\ snaps["read"] = snaps["again"]
    /\ snaps["read"].identity = generation

FrameCompleted ==
    /\ snaps["read"] = snaps["again"]
    /\ snaps["read"].identity = generation
    /\ snaps["read"].body.number = sequence[Slot]
    /\ snaps["read"].commit = sequence[Slot]

Evaluate ==
    /\ lpc = "again"
    /\ words = {}
    /\ \/ /\ ~FrameCompleted
          /\ lpc' = "sleep"
          /\ UNCHANGED <<fault, acked>>
       \/ /\ FrameCompleted
          /\ snaps["read"].body.result # 0
          /\ Fail("EIO")
          /\ UNCHANGED acked
       \/ /\ FrameCompleted
          /\ snaps["read"].body.result = 0
          /\ acked' = [acked EXCEPT ![Slot] = sequence[Slot]]
          /\ lpc' = Acquired
          /\ UNCHANGED fault
    /\ snaps' = [n \in {"read", "again"} |-> Blank]
    /\ UNCHANGED <<memory, firmware, current, plane, sequence,
                   nextSlot, goal, words, expired, backlight>>

Sleep ==
    /\ lpc = "sleep"
    /\ IF DeadlinePassed THEN Fail("ETIMEDOUT") ELSE lpc' = "wait" /\ UNCHANGED fault
    /\ UNCHANGED <<memory, firmware, current, plane, sequence,
                   acked, nextSlot, goal, words, snaps, expired, backlight>>

(* What lcd_scanout copies: the damaged halves of the framebuffer, or a    *)
(* whole black frame when the CRTC goes off.                               *)
Source == IF current.active THEN current.rect ELSE Halves
Pixel(cell) ==
    LET half == IF cell = "lo" THEN Source[1] ELSE Source[2]
    IN  IF current.active THEN current.content[half] ELSE Black

NextSequence(n) == IF n = MaxSequence THEN 1 ELSE n + 1

Request ==
    [identity |-> generation,
     body |-> [number |-> NextSequence(sequence[Slot]), result |-> Len(Source),
               rect |-> Source],
     commit |-> 0]

(* Variant: the old commit stays in place.                                 *)
CommitKept == reqs[Slot].commit

RevokedCommit == 0

(* CPU access to the framebuffer can fail; else the old commit is revoked  *)
(* before any pixel or record word is written.                             *)
Revoke ==
    /\ lpc = "access"
    /\ \/ /\ current.active
          /\ Fail("EIO")
          /\ UNCHANGED <<reqs, words>>
       \/ /\ reqs' = [reqs EXCEPT ![Slot].commit = RevokedCommit]
          /\ words' = RecordWords \cup {Cells[i] : i \in DOMAIN Source}
          /\ lpc' = "write"
          /\ UNCHANGED fault
    /\ UNCHANGED <<rsps, cells, status, firmware, current, plane,
                   sequence, acked, nextSlot, goal, snaps, expired, backlight>>

(* Pixels and record reach DDR in no fixed order before the next barrier.  *)
WriteWord ==
    /\ lpc = "write"
    /\ \E w \in words :
         /\ words' = words \ {w}
         /\ lpc' = IF words = {w} THEN "commit" ELSE "write"
         /\ IF w \in RecordWords
            THEN reqs' = [reqs EXCEPT ![Slot][w] = Request[w]] /\ UNCHANGED cells
            ELSE cells' = [cells EXCEPT ![Slot][w] = Pixel(w)] /\ UNCHANGED reqs
    /\ UNCHANGED <<rsps, status, firmware, current, plane,
                   sequence, acked, nextSlot, goal, snaps, expired, fault, backlight>>

CommitRequest ==
    /\ lpc = "commit"
    /\ reqs' = [reqs EXCEPT ![Slot].commit = Request.body.number]
    /\ sequence' = [sequence EXCEPT ![Slot] = Request.body.number]
    /\ nextSlot' = Other(nextSlot)
    /\ goal' = "ack"
    /\ lpc' = "wait"
    /\ UNCHANGED <<rsps, cells, status, firmware, current, plane,
                   acked, words, snaps, expired, fault, backlight>>

(* The rest of lcd_commit_tail.  A failed commit turns the backlight off   *)
(* and cancels its event; a good one follows the CRTC and flips.           *)
TailFailed ==
    /\ lpc = "failed"
    /\ backlight' = FALSE
    /\ current' = None
    /\ lpc' = "idle"
    /\ UNCHANGED <<memory, firmware, plane, sequence, acked,
                   nextSlot, goal, words, snaps, expired, fault>>

TailDone ==
    /\ lpc = "done"
    /\ backlight' = IF current.active # current.wasActive THEN current.active
                                                          ELSE backlight
    /\ current' = None
    /\ lpc' = "idle"
    /\ UNCHANGED <<memory, firmware, plane, sequence, acked,
                   nextSlot, goal, words, snaps, expired, fault>>

-----------------------------------------------------------------------------
(* Both processors restart, and the panel shows noise.                     *)
Restart(g) ==
    /\ generation' = g
    /\ status' = [generation |-> g, health |-> "dormant"]
    /\ service' = "unauthorized"
    /\ panel' = "Initializing"
    /\ gram' = [h \in {"top", "bottom"} |-> Noise]
    /\ active' = Idle
    /\ drawn' = 0
    /\ completed' = [s \in Slots |-> 0]
    /\ next' = 0
    /\ look' = 0
    /\ snap' = Blank
    /\ lpc' = "unbound"
    /\ current' = None
    /\ plane' = [active |-> FALSE, content |-> BlackFrame]
    /\ sequence' = [s \in Slots |-> 0]
    /\ acked' = [s \in Slots |-> 0]
    /\ nextSlot' = 0
    /\ goal' = "reuse"
    /\ words' = {}
    /\ snaps' = [n \in {"read", "again"} |-> Blank]
    /\ expired' = FALSE
    /\ fault' = "none"
    /\ backlight' = FALSE

WarmReset ==
    /\ Retained
    /\ status.generation < MaxGeneration
    /\ Restart(status.generation + 1)
    /\ UNCHANGED <<reqs, rsps, cells>>

ColdReset ==
    /\ Restart(1)
    /\ reqs' = [s \in Slots |-> Blank]
    /\ rsps' = [s \in Slots |-> Blank]
    /\ cells' = [s \in Slots |-> [c \in {"lo", "hi"} |-> Black]]

Init ==
    /\ reqs = [s \in Slots |-> Blank]
    /\ rsps = [s \in Slots |-> Blank]
    /\ cells = [s \in Slots |-> [c \in {"lo", "hi"} |-> Black]]
    /\ status = [generation |-> 1, health |-> "dormant"]
    /\ generation = 1
    /\ service = "unauthorized"
    /\ panel = "Initializing"
    /\ gram = [h \in {"top", "bottom"} |-> Noise]
    /\ active = Idle
    /\ drawn = 0
    /\ completed = [s \in Slots |-> 0]
    /\ next = 0
    /\ look = 0
    /\ snap = Blank
    /\ lpc = "unbound"
    /\ current = None
    /\ plane = [active |-> FALSE, content |-> BlackFrame]
    /\ sequence = [s \in Slots |-> 0]
    /\ acked = [s \in Slots |-> 0]
    /\ nextSlot = 0
    /\ goal = "reuse"
    /\ words = {}
    /\ snaps = [n \in {"read", "again"} |-> Blank]
    /\ expired = FALSE
    /\ fault = "none"
    /\ backlight = FALSE

FirmwareStep ==
    \/ Authorize \/ Construct \/ PanelStep \/ StreamCell \/ Respond
    \/ CommitResponse \/ ScanFirst \/ ScanSecond \/ PublishFlag \/ Panic

TailStep ==
    \/ WaitTurn \/ ReadWord \/ Evaluate \/ Sleep \/ Revoke
    \/ WriteWord \/ CommitRequest \/ TailFailed \/ TailDone

Next ==
    \/ FirmwareStep \/ Probe \/ AtomicCommit \/ TailStep \/ Expire
    \/ WarmReset \/ ColdReset

(* The kernel keeps running the commit tail, and a clock read again and    *)
(* again passes any deadline.  Nothing is assumed of the firmware.         *)
Fairness == WF_vars(TailStep) /\ SF_vars(Expire)

Spec == Init /\ [][Next]_vars /\ Fairness

-----------------------------------------------------------------------------
(* The firmware only ever works on the request this boot's driver handed   *)
(* over last and has not seen completed, with exactly its rectangle, and   *)
(* the driver does not touch that slot: neither a stale record nor a torn  *)
(* one starts a transfer, and a timeout never takes a slot back            *)
(* (lcd_scanout, Service::step).  Once a fault is latched no request and   *)
(* no pixel changes until the board is reset (fb->fault in commit_tail).   *)
SlotOwned ==
    /\ [](Working =>
            /\ sequence[active.slot] = active.number
            /\ acked[active.slot] # active.number
            /\ reqs[active.slot].body.rect = active.rect
            /\ ~(lpc \in {"access", "write", "commit"} /\ Slot = active.slot))
    /\ [][fault # "none" => UNCHANGED <<reqs, cells>> \/ fault' = "none"]_vars

(* The handoff implements SlotHandoff: a slot is the C906L's from the      *)
(* commit of its request to the commit of its completion.                  *)
Owner == [s \in Slots |->
            IF sequence[s] # 0 /\ completed[s] # sequence[s] THEN "c906l" ELSE "linux"]

Handoff == INSTANCE SlotHandoff WITH owner <- Owner, CellNames <- {"lo", "hi"},
                                     HalfNames <- {"top", "bottom"}, Undefined <- Noise

(* Pixels of a slot change only while Linux owns it, and the panel is only *)
(* drawn from the slot the C906L owns (docs/sg2002-c906l.md, "Neither side *)
(* can overwrite a slot while the other owns it").                         *)
ImplementsHandoff == Handoff!Spec

(* When a commit succeeds, and its flip event is sent, the panel shows     *)
(* exactly its framebuffer although only the damage was sent               *)
(* (drm_atomic_helper_fake_vblank after lcd_scanout).                      *)
FlipShowsFrame ==
    (lpc = "done" /\ current.active) => gram = current.content

(* Every commit tail finishes, with the firmware dead or its status never  *)
(* stable: the deadline bounds both waits.                                 *)
TailFinishes == lpc \notin {"unbound", "idle"} ~> lpc \in {"unbound", "idle"}

(* A frame the panel failed to finish is never left lit: the driver learns *)
(* of the failure and turns the backlight off (lcd_commit_tail).           *)
TornNotLeftLit == (panel = "Fault" /\ drawn = 1) ~> ~backlight
=============================================================================
