--------------------------- MODULE LcdHandoffSteps ---------------------------
(***************************************************************************)
(* The inductive invariant of LcdHandoff, and that the steps of the        *)
(* firmware, and those of the driver that leave the slots alone, keep it.  *)
(* Module LcdHandoffProofs has the other steps and the theorems.           *)
(*                                                                         *)
(* DDR may survive a reset, and the firmware may panic, but not both: the  *)
(* panic handler forgets the generation, and then an old record can pass   *)
(* for a new one.                                                          *)
(***************************************************************************)
EXTENDS LcdHandoff, TLAPS

HalfNames == {"top", "bottom"}
CellNames == {"lo", "hi"}

MemoryTyped ==
    /\ reqs \in [Slots -> Record]
    /\ rsps \in [Slots -> Record]
    /\ cells \in [Slots -> [CellNames -> Values]]
    /\ status \in [generation : Generations,
                   health : {"dormant", "active", "flagged", "panicked"}]

FirmwareTyped ==
    /\ generation \in Generations \ {0}
    /\ gram \in [HalfNames -> Values \cup {Noise}]
    /\ active \in Jobs
    /\ drawn \in 0 .. 2
    /\ completed \in [Slots -> Sequences32]
    /\ next \in Slots /\ look \in Slots

DriverTyped ==
    /\ current \in Commits \cup {None}
    /\ plane \in [active : BOOLEAN, content : Contents]
    /\ sequence \in [Slots -> Sequences32]
    /\ acked \in [Slots -> Sequences32]
    /\ nextSlot \in Slots
    /\ goal \in {"reuse", "ack"}
    /\ snaps \in [{"read", "again"} -> Record]

(* The records and the status line tell how old they are.                  *)
Dated ==
    /\ status.generation = generation \/ MayPanic
    /\ \A s \in Slots : reqs[s].identity <= generation /\ rsps[s].identity <= generation

(* The driver waits for the completion of the request it handed over.      *)
Awaiting == lpc \in {"wait", "sleep", "read", "again"} /\ goal = "ack"

Writing == lpc \in {"write", "commit"}

Damaged == {Cells[i] : i \in DOMAIN Source}

(* Where the driver is.  All requests are acknowledged, except that the    *)
(* last one may not be while the driver waits for it or after a fault.     *)
Placed ==
    /\ fault # "none" => lpc \in {"failed", "idle"}
    /\ lpc = "failed" => fault # "none"
    /\ lpc \in {"access", "write", "commit"} => goal = "reuse"
    /\ lpc \in {"read", "again"} => goal = "ack"
    /\ lpc = "write" => words \subseteq RecordWords \cup Damaged
    /\ lpc = "commit" => words = {}
    /\ lpc \notin {"unbound", "idle"} => current \in Commits
    /\ fault = "none" => \A s \in Slots : sequence[s] = acked[s] \/ (Awaiting /\ s = Slot)
    /\ Awaiting => sequence[Slot] # acked[Slot] /\ sequence[Slot] # 0

Matched == \A s \in Slots : acked[s] = sequence[s] => completed[s] = sequence[s]

(* A request record that is not being written is of an earlier boot or the *)
(* last one handed over.  One that is being written is not committed.      *)
Requests ==
    /\ \A s \in Slots : ~(Writing /\ s = Slot) =>
          IF sequence[s] = 0 THEN reqs[s].identity < generation
                             ELSE reqs[s].body.number = sequence[s]
    /\ Writing =>
          /\ reqs[Slot].commit = 0
          /\ \A w \in RecordWords \ words : reqs[Slot][w] = Request[w]

(* The job of the firmware is the last request of its slot.                *)
Employed ==
    /\ Working =>
          /\ service \in {"panel", "respond", "commit", "halted"}
          /\ active.number # 0
          /\ active.rect \in Rects
          /\ sequence[active.slot] = active.number
          /\ completed[active.slot] # active.number
          /\ reqs[active.slot].body.rect = active.rect
    /\ service \in {"respond", "commit"} => Working
    /\ service = "panel" /\ Working => panel = "Busy"

(* What is on the panel so far.                                            *)
Progress ==
    /\ panel = "Busy" => Working /\ drawn < Len(active.rect)
    /\ service \in {"respond", "commit"} /\ panel # "Fault" => drawn = Len(active.rect)
    /\ ~Working => drawn = 0

(* A completion of this boot is the last one of its slot, or it is being   *)
(* written for the job at hand.                                            *)
Responses ==
    \A s \in Slots : rsps[s].identity = generation =>
       \/ rsps[s].body.number = completed[s]
       \/ /\ service \in {"commit", "halted"} /\ Working /\ active.slot = s
          /\ rsps[s] = Completion(0)

(* What the driver has read of a completion it would accept is still there. *)
Seen(r) ==
    r.identity = generation =>
       /\ rsps[Slot].identity = generation
       /\ r.body.number = sequence[Slot] =>
             /\ r.body = rsps[Slot].body
             /\ r.commit = sequence[Slot] => completed[Slot] = sequence[Slot]

Reading ==
    /\ lpc \notin {"read", "again"} => \A n \in {"read", "again"} : snaps[n] = Blank
    /\ lpc = "read" => snaps["again"] = Blank
    /\ lpc \in {"read", "again"} =>
          /\ words \subseteq RecordWords
          /\ "identity" \in words => "body" \in words
          /\ "body" \in words => "commit" \in words
          /\ \A w \in words : snaps[lpc][w] = Blank[w]
          /\ \A n \in {"read", "again"} : Seen(snaps[n])

Inv ==
    /\ MemoryTyped /\ FirmwareTyped /\ DriverTyped
    /\ Dated /\ Placed /\ Matched /\ Requests /\ Employed /\ Progress
    /\ Responses /\ Reading
-----------------------------------------------------------------------------
(* Records and rectangles.                                                 *)

(* The empty record is a record.                                           *)
LEMMA BlankRecord == Blank \in Record
BY LcdHandoffAssumption DEF Blank, Record, Generations, Sequences32

(* One word of a record moved to another, as memcpy does.                  *)
LEMMA WordMove ==
    ASSUME NEW r \in Record, NEW t \in Record, NEW w \in RecordWords
    PROVE  /\ [r EXCEPT ![w] = t[w]] \in Record
           /\ [r EXCEPT ![w] = t[w]][w] = t[w]
           /\ \A v \in RecordWords \ {w} : [r EXCEPT ![w] = t[w]][v] = r[v]
<1>1. CASE w = "identity"  BY <1>1 DEF Record, RecordWords
<1>2. CASE w = "body"      BY <1>2 DEF Record, RecordWords
<1>3. CASE w = "commit"    BY <1>3 DEF Record, RecordWords
<1> QED  BY <1>1, <1>2, <1>3 DEF RecordWords

(* A rectangle is one half of the panel or both.                           *)
LEMMA RectFacts ==
    ASSUME NEW r \in Rects
    PROVE  /\ Len(r) \in 1 .. 2
           /\ DOMAIN r = 1 .. Len(r)
           /\ \A i \in DOMAIN r : r[i] \in HalfNames
           /\ r # <<>>
<1>1. CASE r = <<"top">>     BY <1>1 DEF HalfNames
<1>2. CASE r = <<"bottom">>  BY <1>2 DEF HalfNames
<1>3. CASE r = Halves        BY <1>3 DEF Halves, HalfNames
<1> QED  BY <1>1, <1>2, <1>3 DEF Rects

(* The two cells of a slot.                                                *)
LEMMA CellFacts == Cells[1] = "lo" /\ Cells[2] = "hi"
BY DEF Cells

(* The slot of the commit is a slot, and the other one is another.         *)
LEMMA SlotFacts ==
    ASSUME DriverTyped
    PROVE  Slot \in Slots /\ Other(nextSlot) \in Slots /\ Other(nextSlot) # nextSlot
           /\ Other(Other(nextSlot)) = nextSlot
BY DEF DriverTyped, Slot, Slots, Other

(* What lcd_scanout copies is a rectangle of the framebuffer, packed.      *)
LEMMA SourceFacts ==
    ASSUME current \in Commits
    PROVE  /\ Source \in Rects
           /\ \A i \in DOMAIN Source :
                 Pixel(Cells[i]) = IF current.active THEN current.content[Source[i]] ELSE Black
           /\ \A c \in Damaged : c \in CellNames /\ Pixel(c) \in Values
<1>1. Source \in Rects
  BY DEF Commits, Source, Rects
<1>2. ASSUME NEW i \in DOMAIN Source
      PROVE  /\ Cells[i] \in CellNames
             /\ Pixel(Cells[i]) = IF current.active THEN current.content[Source[i]] ELSE Black
  <2>1. i \in 1 .. 2  BY <1>1, RectFacts
  <2>2. CASE i = 1  BY <2>2, CellFacts DEF Pixel, CellNames
  <2>3. CASE i = 2  BY <2>3, CellFacts DEF Pixel, CellNames
  <2> QED  BY <2>1, <2>2, <2>3
<1>3. ASSUME NEW i \in DOMAIN Source
      PROVE  Pixel(Cells[i]) \in Values
  <2>1. Source[i] \in HalfNames  BY <1>1, RectFacts
  <2>2. current.content \in [HalfNames -> Values]  BY DEF Commits, Contents, HalfNames
  <2> QED  BY <1>2, <2>1, <2>2, LcdHandoffAssumption
<1> QED  BY <1>1, <1>2, <1>3 DEF Damaged

(* The record lcd_scanout writes.                                          *)
LEMMA RequestFacts ==
    ASSUME FirmwareTyped, DriverTyped, current \in Commits
    PROVE  /\ Request \in Record
           /\ Request.identity = generation
           /\ Request.commit = 0
           /\ Request.body.rect = Source
           /\ Request.body.number \in Sequences32 \ {0, sequence[Slot]}
<1>1. Source \in Rects /\ Len(Source) \in 0 .. 2  BY SourceFacts, RectFacts
<1>2. sequence[Slot] \in Sequences32  BY SlotFacts DEF DriverTyped
<1>3. NextSequence(sequence[Slot]) \in Sequences32 \ {0, sequence[Slot]}
  BY <1>2, LcdHandoffAssumption DEF NextSequence, Sequences32
<1>4. generation \in Generations  BY DEF FirmwareTyped
<1>5. 0 \in Sequences32  BY LcdHandoffAssumption DEF Sequences32
<1>6. Request.body \in [number : Sequences32, result : 0 .. 2, rect : Rects \cup {<<>>}]
  BY <1>1, <1>3 DEF Request
<1> QED  BY <1>1, <1>3, <1>4, <1>5, <1>6 DEF Request, Record

(* The record complete() writes.                                           *)
LEMMA CompletionFacts ==
    ASSUME FirmwareTyped, NEW n \in Sequences32
    PROVE  /\ Completion(n) \in Record
           /\ Completion(n).identity = generation
           /\ Completion(n).body.number = active.number
           /\ Completion(n).body = Completion(0).body
<1>1. active.number \in Sequences32 /\ generation \in Generations
  BY DEF FirmwareTyped, Jobs
<1>2. Completion(n).body \in [number : Sequences32, result : 0 .. 2, rect : Rects \cup {<<>>}]
  BY <1>1 DEF Completion
<1> QED  BY <1>1, <1>2 DEF Completion, Record
-----------------------------------------------------------------------------
(* The start and the resets.                                               *)

(* A boot with a generation that no record in DDR has.                     *)
Fresh ==
    /\ MemoryTyped
    /\ generation \in Generations \ {0} /\ status.generation = generation
    /\ \A s \in Slots : reqs[s].identity < generation /\ rsps[s].identity < generation
    /\ gram = [h \in HalfNames |-> Noise]
    /\ active = Idle /\ drawn = 0 /\ completed = [s \in Slots |-> 0]
    /\ next = 0 /\ look = 0
    /\ service = "unauthorized" /\ panel = "Initializing"
    /\ lpc = "unbound" /\ current = None
    /\ plane = [active |-> FALSE, content |-> BlackFrame]
    /\ sequence = [s \in Slots |-> 0] /\ acked = [s \in Slots |-> 0] /\ nextSlot = 0
    /\ goal = "reuse" /\ snaps = [n \in {"read", "again"} |-> Blank] /\ fault = "none"

(* A boot that finds only records of earlier ones satisfies the invariant. *)
LEMMA InvBoot == Fresh => Inv
<1> SUFFICES ASSUME Fresh PROVE Inv
  OBVIOUS
<1> USE DEF Fresh
<1>1. FirmwareTyped
  BY LcdHandoffAssumption DEF FirmwareTyped, Jobs, Idle, Slots, Sequences32
<1>2. DriverTyped
  BY LcdHandoffAssumption, BlankRecord
     DEF DriverTyped, BlackFrame, Contents, Slots, Sequences32
<1>3. Dated
  BY DEF Dated, MemoryTyped, Record, Generations
<1>4. Placed /\ Matched /\ Reading
  BY DEF Placed, Matched, Reading, Awaiting
<1>5. Requests
  BY DEF Requests, Writing
<1>6. Employed /\ Progress
  BY DEF Employed, Progress, Working
<1>7. Responses
  BY DEF Responses, MemoryTyped, Record, Generations
<1> QED  BY <1>1, <1>2, <1>3, <1>4, <1>5, <1>6, <1>7 DEF Inv

(* So does the initial state.                                              *)
LEMMA InvInit == Init => Inv
<1> SUFFICES ASSUME Init PROVE Inv
  OBVIOUS
<1>1. MemoryTyped
  BY LcdHandoffAssumption, BlankRecord DEF Init, MemoryTyped, CellNames, Generations
<1>2. generation \in Generations \ {0}
  BY LcdHandoffAssumption DEF Init, Generations
<1>3. \A s \in Slots : reqs[s].identity < generation /\ rsps[s].identity < generation
  BY DEF Init, Blank
<1> QED  BY <1>1, <1>2, <1>3, InvBoot DEF Init, Fresh, HalfNames

(* So does a reset, when the surviving records are older than its          *)
(* generation.                                                             *)
LEMMA InvRestart ==
    ASSUME NEW g \in Generations \ {0}, Restart(g), MemoryTyped',
           \A s \in Slots : reqs'[s].identity < g /\ rsps'[s].identity < g
    PROVE  Inv'
<1>1. Fresh'
  BY DEF Fresh, Restart, HalfNames
<1>2. Fresh' => Inv'
  BY InvBoot, PTL
<1> QED  BY <1>1, <1>2

(* They are, as long as no panic has forgotten the generation.             *)
LEMMA InvReset ==
    ASSUME Inv, ~(Retained /\ MayPanic), WarmReset \/ ColdReset
    PROVE  Inv'
<1>1. CASE WarmReset
  <2>1. status.generation = generation /\ generation \in Nat
    BY <1>1 DEF WarmReset, Inv, Dated, FirmwareTyped, Generations
  <2>2. status.generation + 1 \in Generations \ {0}
    BY <1>1, <2>1, LcdHandoffAssumption DEF WarmReset, Generations
  <2>3. MemoryTyped'
    BY <1>1, <2>2 DEF WarmReset, Restart, Inv, MemoryTyped
  <2>4. \A s \in Slots : reqs'[s].identity < status.generation + 1
                      /\ rsps'[s].identity < status.generation + 1
    BY <1>1, <2>1 DEF WarmReset, Inv, Dated, MemoryTyped, Record, Generations
  <2> QED  BY <1>1, <2>2, <2>3, <2>4, InvRestart DEF WarmReset
<1>2. CASE ColdReset
  <2>1. 1 \in Generations \ {0}
    BY LcdHandoffAssumption DEF Generations
  <2>2. MemoryTyped'
    BY <1>2, <2>1, LcdHandoffAssumption, BlankRecord DEF ColdReset, Restart, MemoryTyped, CellNames
  <2>3. \A s \in Slots : reqs'[s].identity < 1 /\ rsps'[s].identity < 1
    BY <1>2 DEF ColdReset, Blank
  <2> QED  BY <1>2, <2>1, <2>2, <2>3, InvRestart DEF ColdReset
<1> QED  BY <1>1, <1>2
-----------------------------------------------------------------------------
(* The firmware.                                                           *)

(* No step of the firmware touches what belongs to Linux.                  *)
LEMMA FirmwareFrame ==
    ASSUME FirmwareStep
    PROVE  UNCHANGED <<reqs, cells, generation, lpc, current, plane, sequence, acked, nextSlot,
                       goal, words, snaps, fault>>
BY Zenon DEF FirmwareStep, Authorize, Construct, PanelStep, StreamCell, Respond, CommitResponse,
       ScanFirst, ScanSecond, PublishFlag, Panic, memory, firmware, driver

Accepting == snap = reqs[look] /\ ValidRequest(snap)

(* The steps that neither draw nor start or complete a job.                *)
LEMMA QuietStep ==
    ASSUME Inv, FirmwareStep,
           ~StreamCell, ~Respond, ~CommitResponse, ~(ScanSecond /\ Accepting)
    PROVE  /\ UNCHANGED <<rsps, gram, active, drawn, completed>>
           /\ \/ UNCHANGED <<service, panel>>
              \/ service' = "halted" /\ UNCHANGED panel
              \/ /\ ~Working /\ panel' # "Busy"
                 /\ service' \notin {"respond", "commit"}
<1> USE DEF Inv, Employed, Progress
<1>1. CASE Authorize
  BY <1>1 DEF Authorize
<1>2. CASE Construct
  BY <1>2 DEF Construct, memory
<1>3. CASE PanelStep
  BY <1>3 DEF PanelStep, memory, AfterPanel
<1>4. CASE ScanFirst
  BY <1>4 DEF ScanFirst, memory
<1>5. CASE ScanSecond
  BY <1>5 DEF ScanSecond, memory, Accepting
<1>6. CASE PublishFlag
  BY <1>6 DEF PublishFlag, firmware
<1>7. CASE Panic
  BY <1>7 DEF Panic
<1> QED  BY <1>1, <1>2, <1>3, <1>4, <1>5, <1>6, <1>7 DEF FirmwareStep

(* The firmware starts a job only for the last request handed over, which  *)
(* the driver awaits or has given up.                                      *)
LEMMA AcceptStep ==
    ASSUME Inv, ScanSecond, Accepting
    PROVE  /\ ~Working
           /\ active' = [slot |-> look, number |-> snap.body.number, rect |-> snap.body.rect]
           /\ active' \in Jobs /\ active' # Idle
           /\ active'.number = sequence[look]
           /\ active'.number \notin {0, completed[look]}
           /\ active'.rect \in Rects /\ active'.rect = reqs[look].body.rect
           /\ service' = "panel" /\ panel' = "Busy"
           /\ UNCHANGED <<rsps, status, gram, drawn, completed>>
<1>1. /\ look \in Slots /\ reqs[look] \in Record /\ snap = reqs[look]
      /\ generation \in Nat
  BY DEF Inv, FirmwareTyped, MemoryTyped, Accepting, Generations
<1>2. /\ snap.body.number \in Sequences32 /\ snap.body.rect \in Rects
      /\ snap.body.number \notin {0, completed[look]}
  BY <1>1 DEF Accepting, ValidRequest, Record
<1>3. ~(Writing /\ look = Slot)
  BY <1>1, <1>2 DEF Accepting, ValidRequest, Inv, Requests
<1>4. sequence[look] = snap.body.number
  BY <1>1, <1>3 DEF Accepting, ValidRequest, Inv, Requests, Record, Generations
<1>5. /\ active' = [slot |-> look, number |-> snap.body.number, rect |-> snap.body.rect]
      /\ service' = "panel" /\ panel' = "Busy" /\ service = "second"
      /\ UNCHANGED <<rsps, status, gram, drawn, completed>>
  BY DEF ScanSecond, Accepting, memory
<1>6. active' \in Jobs /\ active' # Idle
  BY <1>1, <1>2, <1>5 DEF Jobs, Idle
<1>7. ~Working
  BY <1>5 DEF Inv, Employed
<1> QED  BY <1>1, <1>2, <1>4, <1>5, <1>6, <1>7

(* A cell of the job is drawn, or the transfer fails.                      *)
LEMMA DrawStep ==
    ASSUME Inv, StreamCell
    PROVE  /\ Working /\ active.rect \in Rects /\ active.slot \in Slots
           /\ service = "panel" /\ panel = "Busy"
           /\ drawn + 1 \in DOMAIN active.rect
           /\ \/ /\ gram' = [gram EXCEPT ![active.rect[drawn + 1]] =
                                          cells[active.slot][Cells[drawn + 1]]]
                 /\ drawn' = drawn + 1
                 /\ \/ panel' = "Ready" /\ service' = "respond" /\ drawn' = Len(active.rect)
                    \/ panel' = "Busy" /\ service' = "panel" /\ drawn' < Len(active.rect)
              \/ panel' = "Fault" /\ service' = "respond" /\ UNCHANGED <<gram, drawn>>
           /\ UNCHANGED <<rsps, status, active, completed, next, look>>
<1>1. Working /\ active.rect \in Rects /\ drawn < Len(active.rect) /\ drawn \in 0 .. 2
      /\ active.slot \in Slots
  BY DEF StreamCell, Inv, Progress, Employed, FirmwareTyped, Jobs
<1>2. Len(active.rect) \in 1 .. 2 /\ DOMAIN active.rect = 1 .. Len(active.rect)
  BY <1>1, RectFacts
<1>3. drawn + 1 \in DOMAIN active.rect
  BY <1>1, <1>2
<1>4. service = "panel" /\ panel = "Busy"
      /\ UNCHANGED <<rsps, status, active, completed, next, look>>
  BY DEF StreamCell, memory
<1>5. CASE drawn' = drawn + 1
  BY <1>1, <1>2, <1>3, <1>4, <1>5 DEF StreamCell, AfterPanel
<1>6. CASE drawn' # drawn + 1
  BY <1>1, <1>3, <1>4, <1>6 DEF StreamCell, AfterPanel
<1> QED  BY <1>5, <1>6

(* complete() writes the record of its job, the commit word last.          *)
LEMMA RespondStep ==
    ASSUME Inv, Respond
    PROVE  /\ Working /\ active.slot \in Slots
           /\ service = "respond" /\ service' = "commit"
           /\ rsps' = [rsps EXCEPT ![active.slot] = Completion(0)]
           /\ UNCHANGED <<status, gram, active, drawn, completed, panel, next, look>>
BY DEF Respond, Inv, Employed, FirmwareTyped, Jobs

(* The commit word of the completion, and the end of the job.              *)
LEMMA CompleteStep ==
    ASSUME Inv, CommitResponse
    PROVE  /\ Working /\ active.slot \in Slots /\ active.number \in Sequences32
           /\ service = "commit" /\ service' \in {"faulted", "first"}
           /\ rsps' = [rsps EXCEPT ![active.slot] = Completion(active.number)]
           /\ completed' = [completed EXCEPT ![active.slot] = active.number]
           /\ active' = Idle /\ drawn' = 0
           /\ next' \in Slots /\ look' \in Slots
           /\ UNCHANGED <<status, gram, panel>>
BY DEF CommitResponse, Inv, Employed, FirmwareTyped, Jobs, Other, Slots

(* The steps of the firmware keep the types and the generations.           *)
LEMMA FirmwareTypes ==
    ASSUME Inv, FirmwareStep
    PROVE  MemoryTyped' /\ FirmwareTyped' /\ DriverTyped' /\ Dated'
<1> USE DEF Inv
<1>1. DriverTyped'
  BY FirmwareFrame DEF DriverTyped
<1>2. /\ status' \in [generation : Generations,
                      health : {"dormant", "active", "flagged", "panicked"}]
      /\ status'.generation = generation \/ MayPanic
  <2> USE DEF MemoryTyped, Dated
  <2>1. CASE Authorize    BY <2>1 DEF Authorize
  <2>2. CASE PublishFlag  BY <2>2 DEF PublishFlag
  <2>3. CASE Panic        BY <2>3, LcdHandoffAssumption DEF Panic, Generations
  <2>4. CASE ~Authorize /\ ~PublishFlag /\ ~Panic
    <3>1. UNCHANGED status
      BY Zenon, <2>4 DEF FirmwareStep, Construct, PanelStep, StreamCell, Respond, CommitResponse,
             ScanFirst, ScanSecond, memory
    <3> QED  BY <3>1
  <2> QED  BY <2>1, <2>2, <2>3, <2>4
<1>3. next' \in Slots /\ look' \in Slots
  <2>1. next \in Slots /\ look \in Slots /\ active.slot \in Slots
    BY DEF FirmwareTyped, Jobs
  <2>2. CASE CommitResponse  BY <2>2, CompleteStep
  <2>3. CASE ScanSecond      BY <2>1, <2>3 DEF ScanSecond, Slots, Other
  <2>4. CASE ~CommitResponse /\ ~ScanSecond
    <3>1. UNCHANGED <<next, look>>
      BY Zenon, <2>4 DEF FirmwareStep, Authorize, Construct, PanelStep, StreamCell, Respond,
             ScanFirst, PublishFlag, Panic, firmware
    <3> QED  BY <2>1, <3>1
  <2> QED  BY <2>2, <2>3, <2>4
<1>4. /\ rsps' \in [Slots -> Record]
      /\ \A s \in Slots : rsps'[s].identity <= generation
  <2>1. ASSUME UNCHANGED rsps
        PROVE  <1>4!1 /\ <1>4!2
    BY <2>1 DEF MemoryTyped, Dated
  <2>a. generation \in Nat
    BY DEF FirmwareTyped, Generations
  <2>2. CASE Respond
    <3>1. 0 \in Sequences32  BY LcdHandoffAssumption DEF Sequences32
    <3>2. Completion(0) \in Record /\ Completion(0).identity = generation
      BY <3>1, CompletionFacts
    <3>3. rsps' = [rsps EXCEPT ![active.slot] = Completion(0)] /\ active.slot \in Slots
      BY <2>2, RespondStep
    <3> QED  BY <2>a, <3>2, <3>3 DEF MemoryTyped, Dated
  <2>3. CASE CommitResponse
    <3>1. active.number \in Sequences32  BY <2>3, CompleteStep
    <3>2. Completion(active.number) \in Record /\ Completion(active.number).identity = generation
      BY <3>1, CompletionFacts
    <3>3. rsps' = [rsps EXCEPT ![active.slot] = Completion(active.number)] /\ active.slot \in Slots
      BY <2>3, CompleteStep
    <3> QED  BY <2>a, <3>2, <3>3 DEF MemoryTyped, Dated
  <2> QED  BY <2>1, <2>2, <2>3, QuietStep, AcceptStep, DrawStep
<1>5. MemoryTyped' /\ Dated'
  BY <1>2, <1>4, FirmwareFrame DEF MemoryTyped, Dated
<1>6. /\ gram' \in [HalfNames -> Values \cup {Noise}]
      /\ active' \in Jobs
      /\ drawn' \in 0 .. 2
      /\ completed' \in [Slots -> Sequences32]
  <2> USE DEF FirmwareTyped
  <2>1. CASE StreamCell
    <3>1. cells[active.slot][Cells[drawn + 1]] \in Values /\ drawn + 1 \in 1 .. 2
          /\ active.rect[drawn + 1] \in HalfNames
      <4>1. active.rect \in Rects /\ drawn + 1 \in DOMAIN active.rect /\ active.slot \in Slots
        BY <2>1, DrawStep
      <4>2. drawn + 1 \in {1, 2} /\ active.rect[drawn + 1] \in HalfNames
        BY <4>1, RectFacts
      <4>3. Cells[drawn + 1] \in CellNames
        BY <4>2, CellFacts DEF CellNames
      <4> QED  BY <4>1, <4>2, <4>3 DEF MemoryTyped
    <3> QED  BY <2>1, <3>1, DrawStep
  <2>2. CASE CommitResponse
    BY <2>2, CompleteStep, LcdHandoffAssumption DEF Idle, Jobs, Slots, Sequences32
  <2> QED  BY <2>1, <2>2, QuietStep, AcceptStep, RespondStep
<1>7. FirmwareTyped'
  BY <1>3, <1>6, FirmwareFrame DEF FirmwareTyped
<1> QED  BY <1>1, <1>5, <1>7

(* What only concerns Linux.                                               *)
LEMMA FirmwareLinux ==
    ASSUME Inv, FirmwareStep
    PROVE  Placed' /\ Requests'
<1>1. Slot' = Slot /\ Source' = Source /\ Request' = Request
  BY FirmwareFrame DEF Slot, Source, Request
<1>2. Placed'
  BY <1>1, FirmwareFrame DEF Inv, Placed, Awaiting, Damaged
<1>3. Requests'
  BY <1>1, FirmwareFrame DEF Inv, Requests, Writing
<1> QED  BY <1>2, <1>3

(* The steps of the firmware keep what its job is and how far it has come. *)
LEMMA FirmwareJob ==
    ASSUME Inv, FirmwareStep
    PROVE  Matched' /\ Employed' /\ Progress'
<1>f. UNCHANGED <<reqs, sequence, acked>>
  BY FirmwareFrame
<1>i. Matched /\ Employed /\ Progress
  BY DEF Inv
<1>1. ASSUME ~StreamCell, ~Respond, ~CommitResponse, ~(ScanSecond /\ Accepting)
      PROVE  Matched' /\ Employed' /\ Progress'
  BY <1>1, <1>f, <1>i, QuietStep DEF Matched, Employed, Progress, Working
<1>2. CASE ScanSecond /\ Accepting
  <2>1. /\ active'.slot = look /\ look \in Slots /\ active' # Idle
        /\ active'.number = sequence[look]
        /\ active'.number \notin {0, completed[look]}
        /\ active'.rect \in Rects /\ active'.rect = reqs[look].body.rect
        /\ service' = "panel" /\ panel' = "Busy" /\ drawn' = 0
        /\ UNCHANGED completed
    BY <1>2, <1>i, AcceptStep DEF Progress, Inv, FirmwareTyped
  <2>2. Matched' /\ Employed'
    BY <1>f, <1>i, <2>1 DEF Matched, Employed, Working
  <2>3. Progress'
    BY <2>1, RectFacts DEF Progress, Working
  <2> QED  BY <2>2, <2>3
<1>3. CASE StreamCell
  <2>1. Matched' /\ Employed'
    BY <1>3, <1>f, <1>i, DrawStep DEF Matched, Employed, Working
  <2>2. Progress'
    BY <1>3, <1>f, <1>i, DrawStep DEF Progress, Working
  <2> QED  BY <2>1, <2>2
<1>4. CASE Respond
  BY <1>4, <1>f, <1>i, RespondStep DEF Matched, Employed, Progress, Working
<1>5. CASE CommitResponse
  <2>1. Matched'
    BY <1>5, <1>f, <1>i, CompleteStep DEF Matched, Employed, Inv, FirmwareTyped
  <2>2. panel # "Busy"
    BY <1>5, <1>i, CompleteStep, RectFacts DEF Progress, Employed
  <2>3. Employed' /\ Progress'
    BY <1>5, <2>2, CompleteStep DEF Employed, Progress, Working
  <2> QED  BY <2>1, <2>3
<1> QED  BY <1>1, <1>2, <1>3, <1>4, <1>5

(* The firmware replaces a completion only by the one of its job.          *)
LEMMA FirmwareResponses ==
    ASSUME Inv, FirmwareStep
    PROVE  Responses'
<1>f. UNCHANGED generation
  BY FirmwareFrame
<1>i. Responses /\ Employed /\ rsps \in [Slots -> Record]
      /\ completed \in [Slots -> Sequences32]
  BY DEF Inv, MemoryTyped, FirmwareTyped
<1>1. ASSUME ~StreamCell, ~Respond, ~CommitResponse, ~(ScanSecond /\ Accepting)
      PROVE  Responses'
  BY <1>1, <1>f, <1>i, QuietStep DEF Responses, Working, Completion
<1>2. CASE ScanSecond /\ Accepting
  BY <1>2, <1>f, <1>i, AcceptStep DEF Responses
<1>3. CASE StreamCell
  BY <1>3, <1>f, <1>i, DrawStep DEF Responses
<1>4. CASE Respond
  <2>1. Completion(0)' = Completion(0)
    BY <1>4, <1>f, RespondStep DEF Completion
  <2> QED  BY <1>4, <1>f, <1>i, <2>1, RespondStep DEF Responses, Working
<1>5. CASE CommitResponse
  <2>1. Completion(active.number).body.number = active.number
    BY DEF Completion
  <2> QED  BY <1>5, <1>f, <1>i, <2>1, CompleteStep DEF Responses
<1> QED  BY <1>1, <1>2, <1>3, <1>4, <1>5

(* What the driver has read of a completion it would accept survives the   *)
(* firmware's steps.                                                       *)
LEMMA FirmwareReading ==
    ASSUME Inv, FirmwareStep
    PROVE  Reading'
<1>f. UNCHANGED <<generation, lpc, snaps, sequence, words>> /\ Slot' = Slot
  BY FirmwareFrame DEF Slot
<1>i. /\ Reading /\ Responses /\ Employed /\ rsps \in [Slots -> Record]
      /\ completed \in [Slots -> Sequences32] /\ Slot \in Slots
  BY SlotFacts DEF Inv, MemoryTyped, FirmwareTyped
<1>1. ASSUME ~Respond, ~CommitResponse
      PROVE  Reading'
  <2>1. UNCHANGED <<rsps, completed>>
    BY <1>1, QuietStep, AcceptStep, DrawStep
  <2> QED  BY <1>f, <1>i, <2>1 DEF Reading, Seen
<1>2. ASSUME Respond \/ CommitResponse, active.slot # Slot
      PROVE  Reading'
  <2>1. rsps'[Slot] = rsps[Slot] /\ completed'[Slot] = completed[Slot]
    BY <1>2, <1>i, RespondStep, CompleteStep
  <2> QED  BY Zenon, <1>f, <1>i, <2>1 DEF Reading, Seen
<1>3. ASSUME Respond, active.slot = Slot
      PROVE  Reading'
  <2>1. rsps'[Slot].identity = generation /\ service = "respond"
        /\ sequence[Slot] # completed[Slot]
    BY <1>3, <1>i, RespondStep DEF Completion, Employed
  <2>2. ~(rsps[Slot].identity = generation /\ rsps[Slot].body.number = sequence[Slot])
    BY <1>i, <2>1 DEF Responses
  <2> QED  BY <1>f, <1>i, <2>1, <2>2 DEF Reading, Seen
<1>4. ASSUME CommitResponse, active.slot = Slot
      PROVE  Reading'
  <2>1. /\ rsps'[Slot].identity = generation /\ rsps'[Slot].body = Completion(0).body
        /\ sequence[Slot] # completed[Slot] /\ completed'[Slot] = sequence[Slot]
    BY <1>4, <1>i, CompleteStep DEF Completion, Employed
  <2>2. rsps[Slot].identity = generation /\ rsps[Slot].body.number = sequence[Slot] =>
           rsps[Slot].body = Completion(0).body
    BY <1>i, <2>1 DEF Responses
  <2> QED  BY Zenon, <1>f, <1>i, <2>1, <2>2 DEF Reading, Seen
<1> QED  BY <1>1, <1>2, <1>3, <1>4

(* Every step of the firmware keeps the invariant.                         *)
LEMMA InvFirmware ==
    ASSUME Inv, FirmwareStep
    PROVE  Inv'
BY FirmwareTypes, FirmwareLinux, FirmwareJob, FirmwareResponses, FirmwareReading DEF Inv
-----------------------------------------------------------------------------
(* The driver.                                                             *)

DriverStep == Probe \/ AtomicCommit \/ TailStep \/ Expire

(* No step of the driver touches what belongs to the firmware.             *)
LEMMA DriverFrame ==
    ASSUME DriverStep
    PROVE  UNCHANGED <<rsps, status, generation, service, panel, gram, active, drawn, completed,
                       next, look, snap>>
BY Zenon DEF DriverStep, Probe, AtomicCommit, TailStep, Expire, WaitTurn, ReadWord, Evaluate, Sleep,
       Revoke, WriteWord, CommitRequest, TailFailed, TailDone, memory, firmware

(* A slot the firmware works on is not the driver's.                       *)
LEMMA NotTouched ==
    ASSUME Inv, Working
    PROVE  /\ active.slot \in Slots
           /\ sequence[active.slot] = active.number
           /\ acked[active.slot] # active.number
           /\ ~(lpc \in {"access", "write", "commit"} /\ Slot = active.slot)
           /\ fault = "none" => Awaiting /\ active.slot = Slot
<1>1. active.slot \in Slots
  BY DEF Inv, FirmwareTyped, Jobs
<1>2. sequence[active.slot] = active.number /\ acked[active.slot] # active.number
  BY <1>1 DEF Inv, Employed, Matched
<1> QED  BY <1>1, <1>2 DEF Inv, Placed, Awaiting

(* The steps that write no memory and hand nothing over.                   *)
Still ==
    \/ Probe \/ AtomicCommit \/ Expire \/ WaitTurn \/ ReadWord \/ Evaluate \/ Sleep
    \/ (Revoke /\ lpc' = "failed") \/ TailFailed \/ TailDone

(* Such a step writes no request and no pixel.                             *)
LEMMA StillStep ==
    ASSUME Inv, Still
    PROVE  /\ UNCHANGED <<reqs, cells, sequence, nextSlot>>
           /\ lpc \notin {"write", "commit"} /\ lpc' \notin {"write", "commit"}
<1>1. CASE Probe        BY <1>1 DEF Probe, memory
<1>2. CASE AtomicCommit
  BY <1>2 DEF AtomicCommit, TailEntry, memory
<1>3. CASE Expire       BY <1>3 DEF Expire, memory
<1>4. CASE WaitTurn     BY <1>4 DEF WaitTurn, Fail, Acquired, memory
<1>5. CASE ReadWord     BY <1>5 DEF ReadWord, memory
<1>6. CASE Evaluate     BY <1>6 DEF Evaluate, Fail, Acquired, memory
<1>7. CASE Sleep        BY <1>7 DEF Sleep, Fail, memory
<1>8. CASE Revoke /\ lpc' = "failed"  BY <1>8 DEF Revoke
<1>9. CASE TailFailed \/ TailDone     BY <1>9 DEF TailFailed, TailDone, memory
<1> QED  BY <1>1, <1>2, <1>3, <1>4, <1>5, <1>6, <1>7, <1>8, <1>9 DEF Still

(* lcd_commit_tail starts with a commit of the rectangles DRM reports.     *)
LEMMA CommitStep ==
    ASSUME Inv, AtomicCommit
    PROVE  /\ lpc = "idle"
           /\ lpc' \in {"failed", "wait", "done"} /\ (fault # "none" <=> lpc' = "failed")
           /\ current' \in Commits
           /\ current'.active = plane'.active /\ current'.content = plane'.content
           /\ plane' \in [active : BOOLEAN, content : Contents]
           /\ current'.active /\ lpc' = "done" => FALSE
           /\ current'.active => \A h \in HalfNames :
                 \/ \E i \in DOMAIN current'.rect : current'.rect[i] = h
                 \/ plane.active /\ current'.content[h] = plane.content[h]
           /\ goal' = "reuse" /\ UNCHANGED <<fault, acked, words, snaps>>
<1>0. PICK on \in BOOLEAN : \E content \in IF on THEN Frames ELSE {BlackFrame} :
         /\ \E rect \in Damage(on, content) :
               current' = [active |-> on, content |-> content, rect |-> rect,
                           wasActive |-> plane.active]
         /\ plane' = [active |-> on, content |-> content]
         /\ lpc' = TailEntry(on)
  BY DEF AtomicCommit
<1>1. PICK content \in IF on THEN Frames ELSE {BlackFrame} :
         /\ \E rect \in Damage(on, content) :
               current' = [active |-> on, content |-> content, rect |-> rect,
                           wasActive |-> plane.active]
         /\ plane' = [active |-> on, content |-> content]
         /\ lpc' = TailEntry(on)
  BY <1>0
<1>2. PICK rect \in Damage(on, content) :
         current' = [active |-> on, content |-> content, rect |-> rect, wasActive |-> plane.active]
  BY <1>1
<1>3. content \in Contents
  BY <1>1, LcdHandoffAssumption DEF Contents, BlackFrame
<1>4. rect \in Rects
  BY DEF Damage, Rects
<1>5. plane.active \in BOOLEAN
  BY DEF Inv, DriverTyped
<1>6. current' \in Commits /\ plane' \in [active : BOOLEAN, content : Contents]
  BY <1>1, <1>2, <1>3, <1>4, <1>5 DEF Commits
<1>7. ASSUME on, NEW h \in HalfNames
      PROVE  (\E i \in DOMAIN rect : rect[i] = h) \/ (plane.active /\ content[h] = plane.content[h])
  <2>1. \E i \in DOMAIN Halves : Halves[i] = h
    BY DEF Halves, HalfNames
  <2>2. CASE rect = Halves
    BY <2>1, <2>2
  <2>3. CASE rect # Halves
    BY <1>7, <2>3 DEF Damage, HalfNames
  <2> QED  BY <2>2, <2>3
<1>8. lpc' \in {"failed", "wait", "done"} /\ (fault # "none" <=> lpc' = "failed")
      /\ (on => lpc' # "done")
  BY <1>1, <1>5 DEF TailEntry
<1> QED  BY <1>1, <1>2, <1>6, <1>7, <1>8 DEF AtomicCommit

(* One word of a completion is read.                                       *)
LEMMA ReadStep ==
    ASSUME Inv, ReadWord
    PROVE  /\ lpc \in {"read", "again"} /\ lpc' \in {"read", "again"}
           /\ snaps' \in [{"read", "again"} -> Record]
           /\ Reading'
           /\ UNCHANGED <<current, plane, acked, goal, fault>>
<1>1. PICK w \in words :
         /\ w = "commit" => words = {"commit"}
         /\ w = "body" => "identity" \notin words
         /\ snaps' = [snaps EXCEPT ![lpc][w] = rsps[Slot][w]]
         /\ words' = IF lpc = "read" /\ words = {w} THEN RecordWords ELSE words \ {w}
         /\ lpc' = IF lpc = "read" /\ words = {w} THEN "again" ELSE lpc
  BY Zenon DEF ReadWord
<1>2. /\ lpc \in {"read", "again"} /\ words \subseteq RecordWords /\ w \in RecordWords
      /\ "identity" \in words => "body" \in words
      /\ "body" \in words => "commit" \in words
      /\ \A v \in words : snaps[lpc][v] = Blank[v]
      /\ \A n \in {"read", "again"} : Seen(snaps[n])
      /\ lpc = "read" => snaps["again"] = Blank
  BY <1>1 DEF ReadWord, Inv, Reading
<1>t. /\ lpc \in {"read", "again"} /\ w \in RecordWords
      /\ snaps \in [{"read", "again"} -> Record] /\ rsps[Slot] \in Record
  BY <1>2, SlotFacts DEF Inv, DriverTyped, MemoryTyped
<1>3. /\ UNCHANGED <<generation, rsps, completed>> /\ Slot' = Slot
      /\ UNCHANGED <<current, plane, acked, goal, fault, nextSlot, sequence>>
  BY Zenon, DriverFrame DEF DriverStep, TailStep, ReadWord, Slot
<1> DEFINE r == [snaps[lpc] EXCEPT ![w] = rsps[Slot][w]]
<1>4. /\ r \in Record /\ r[w] = rsps[Slot][w]
      /\ \A v \in RecordWords \ {w} : r[v] = snaps[lpc][v]
  <2>1. snaps[lpc] \in Record /\ rsps[Slot] \in Record /\ w \in RecordWords
    BY <1>t
  <2> QED  BY ONLY <2>1, WordMove, SMTT(30)
<1>5. snaps' = [snaps EXCEPT ![lpc] = r]
  BY <1>1, <1>t
<1> HIDE DEF r
<1>6. /\ snaps' \in [{"read", "again"} -> Record] /\ snaps'[lpc] = r
      /\ \A n \in {"read", "again"} \ {lpc} : snaps'[n] = snaps[n]
  BY <1>t, <1>4, <1>5
<1>7. Seen(r)
  <2>1. sequence[Slot] # 0
    BY <1>t DEF Inv, Placed, Awaiting
  <2>s. Seen(snaps[lpc])
    BY <1>2
  <2>2. CASE w = "identity"
    <3>1. r.identity = rsps[Slot].identity
      BY <1>4, <2>2
    <3>2. r.body = snaps[lpc].body /\ r.commit = snaps[lpc].commit
      BY <1>4, <2>2 DEF RecordWords
    <3>3. r.body.number = 0
      <4>1. snaps[lpc].body = Blank.body
        BY Zenon, <1>2, <2>2
      <4> QED  BY <3>2, <4>1 DEF Blank
    <3> QED  BY <2>1, <3>1, <3>3 DEF Seen
  <2>3. CASE w = "body"
    <3>1. r.identity = snaps[lpc].identity /\ r.commit = snaps[lpc].commit
      BY <1>4, <2>3 DEF RecordWords
    <3>2. r.body = rsps[Slot].body
      BY <1>4, <2>3
    <3>3. r.commit = 0
      <4>1. snaps[lpc].commit = Blank.commit
        BY Zenon, <1>2, <2>3
      <4> QED  BY <3>1, <4>1 DEF Blank
    <3> QED  BY <2>1, <2>s, <3>1, <3>2, <3>3 DEF Seen
  <2>4. CASE w = "commit"
    <3>1. r.identity = snaps[lpc].identity /\ r.body = snaps[lpc].body
      BY <1>4, <2>4 DEF RecordWords
    <3>2. r.commit = rsps[Slot].commit
      BY <1>4, <2>4
    <3>3. rsps[Slot].identity = generation /\ rsps[Slot].body.number = sequence[Slot] =>
             completed[Slot] = sequence[Slot] \/ rsps[Slot].commit = 0
      BY SlotFacts DEF Inv, Responses, Completion
    <3> QED  BY <2>1, <2>s, <3>1, <3>2, <3>3 DEF Seen
  <2> QED  BY <1>t, <2>2, <2>3, <2>4 DEF RecordWords
<1>8. \A n \in {"read", "again"} : Seen(snaps[n])'
  <2>1. \A n \in {"read", "again"} : Seen(snaps'[n])
    BY <1>2, <1>t, <1>6, <1>7
  <2> QED  BY <1>3, <2>1 DEF Seen
<1>9. CASE lpc' = lpc
  <2>1. words' = words \ {w}
    BY <1>1, <1>9
  <2>2. \A v \in words' : snaps'[lpc'][v] = Blank[v]
    BY <1>2, <1>4, <1>6, <1>9, <2>1
  <2> QED  BY <1>1, <1>2, <1>3, <1>6, <1>8, <1>9, <2>1, <2>2 DEF Reading, RecordWords
<1>10. CASE lpc' # lpc
  <2>1. lpc = "read" /\ lpc' = "again" /\ words' = RecordWords
    BY <1>1, <1>10
  <2>2. snaps'["again"] = Blank
    BY <1>2, <1>6, <2>1
  <2> QED  BY <1>3, <1>6, <1>8, <2>1, <2>2 DEF Reading, RecordWords
<1> QED  BY <1>9, <1>10

(* A completion the driver accepts is the firmware's last word on the slot. *)
LEMMA EvaluateStep ==
    ASSUME Inv, Evaluate
    PROVE  /\ Awaiting
           /\ \A n \in {"read", "again"} : snaps'[n] = Blank
           /\ snaps' \in [{"read", "again"} -> Record]
           /\ \/ lpc' = "sleep" /\ UNCHANGED <<fault, acked>>
              \/ lpc' = "failed" /\ fault' # "none" /\ UNCHANGED acked
              \/ /\ lpc' = "done" /\ acked' = [acked EXCEPT ![Slot] = sequence[Slot]]
                 /\ completed[Slot] = sequence[Slot] /\ rsps[Slot].body.result = 0
                 /\ UNCHANGED fault
           /\ UNCHANGED <<current, plane, goal, words>>
<1>1. lpc = "again" /\ goal = "ack"
  BY DEF Evaluate, Inv, Placed
<1>2. snaps' = [n \in {"read", "again"} |-> Blank] /\ UNCHANGED <<current, plane, goal, words>>
  BY Zenon DEF Evaluate
<1>3. ASSUME FrameCompleted
      PROVE  completed[Slot] = sequence[Slot] /\ snaps["read"].body = rsps[Slot].body
  BY <1>1, <1>3 DEF FrameCompleted, Inv, Reading, Seen
<1> QED  BY <1>1, <1>2, <1>3, BlankRecord DEF Evaluate, Awaiting, Fail, Acquired

(* It keeps the types.                                                     *)
LEMMA StillTypes ==
    ASSUME Inv, Still
    PROVE  DriverTyped'
<1>s. UNCHANGED <<sequence, nextSlot>>
  BY StillStep
<1> USE DEF Inv, DriverTyped
<1>1. CASE Probe         BY Zenon, <1>s, <1>1 DEF Probe
<1>2. CASE AtomicCommit  BY Zenon, <1>s, <1>2, CommitStep
<1>3. CASE Expire        BY <1>s, <1>3 DEF Expire
<1>4. CASE WaitTurn      BY <1>s, <1>4 DEF WaitTurn
<1>5. CASE ReadWord      BY <1>s, <1>5, ReadStep
<1>6. CASE Evaluate
  <2>1. Slot \in Slots  BY SlotFacts
  <2>2. acked' \in [Slots -> Sequences32]  BY <1>6, <2>1, EvaluateStep
  <2> QED  BY <1>s, <1>6, <2>2, EvaluateStep
<1>7. CASE Sleep         BY <1>s, <1>7 DEF Sleep
<1>8. CASE Revoke        BY <1>s, <1>8 DEF Revoke
<1>9. CASE TailFailed \/ TailDone  BY <1>s, <1>9 DEF TailFailed, TailDone
<1> QED  BY <1>1, <1>2, <1>3, <1>4, <1>5, <1>6, <1>7, <1>8, <1>9 DEF Still

(* The waiting loop goes on to a free slot or to the completion it awaits. *)
LEMMA WaitStep ==
    ASSUME Inv, WaitTurn
    PROVE  /\ lpc = "wait"
           /\ \/ lpc' = "failed" /\ fault' # "none"
              \/ lpc' = "sleep" /\ UNCHANGED fault
              \/ lpc' = "access" /\ goal = "reuse" /\ UNCHANGED fault
              \/ lpc' = "read" /\ goal = "ack" /\ words' = RecordWords /\ UNCHANGED fault
           /\ UNCHANGED <<current, plane, acked, goal, snaps>>
<1>1. lpc = "wait" /\ fault = "none" /\ Slot \in Slots
      /\ UNCHANGED <<current, plane, acked, goal, snaps>>
  BY SlotFacts DEF WaitTurn, Inv, Placed
<1>2. (goal = "ack") <=> sequence[Slot] \notin {0, acked[Slot]}
  BY <1>1 DEF Inv, Placed, Awaiting
<1>3. goal # "ack" => goal = "reuse" /\ Acquired = "access"
  BY DEF Acquired, Inv, DriverTyped
<1>4. PICK v \in {"none", "EAGAIN", "ESTALE", "EIO"} :
         \/ Fail("ETIMEDOUT")
         \/ v = "EAGAIN" /\ lpc' = "sleep" /\ UNCHANGED fault
         \/ v \notin {"none", "EAGAIN"} /\ Fail(v)
         \/ sequence[Slot] \in {0, acked[Slot]} /\ lpc' = Acquired /\ UNCHANGED fault
         \/ /\ sequence[Slot] \notin {0, acked[Slot]}
            /\ lpc' = "read" /\ words' = RecordWords /\ UNCHANGED fault
  BY DEF WaitTurn, CheckGeneration
<1> QED  BY <1>1, <1>2, <1>3, <1>4 DEF Fail

(* It keeps the driver's place, and acknowledges only what is completed.   *)
LEMMA StillPlaced ==
    ASSUME Inv, Still
    PROVE  Placed' /\ Matched'
<1>s. /\ UNCHANGED <<sequence, nextSlot, completed>>
      /\ lpc' \notin {"write", "commit"}
  BY StillStep, DriverFrame DEF Still, DriverStep, TailStep
<1>i. Placed /\ Matched /\ Slot \in Slots /\ acked \in [Slots -> Sequences32]
  BY SlotFacts DEF Inv, DriverTyped
<1>a. ASSUME UNCHANGED acked PROVE Matched'
  BY <1>s, <1>i, <1>a DEF Matched
<1>b. ASSUME UNCHANGED goal PROVE Slot' = Slot
  BY <1>s, <1>b DEF Slot
<1> USE DEF Placed, Awaiting
<1>1. CASE Probe
  BY <1>s, <1>i, <1>a, <1>1 DEF Probe
<1>2. CASE AtomicCommit
  BY <1>s, <1>i, <1>a, <1>2, CommitStep
<1>3. CASE Expire
  BY <1>s, <1>i, <1>a, <1>b, <1>3 DEF Expire
<1>4. CASE WaitTurn
  BY <1>s, <1>i, <1>a, <1>b, <1>4, WaitStep
<1>5. CASE ReadWord
  BY <1>s, <1>i, <1>a, <1>b, <1>5, ReadStep
<1>6. CASE Evaluate
  <2>1. Matched'
    BY <1>s, <1>i, <1>6, EvaluateStep DEF Matched
  <2>2. Placed'
    BY <1>s, <1>i, <1>b, <1>6, EvaluateStep
  <2> QED  BY <2>1, <2>2
<1>7. CASE Sleep
  BY <1>s, <1>i, <1>a, <1>b, <1>7 DEF Sleep, Fail
<1>8. CASE Revoke /\ lpc' = "failed"
  BY <1>s, <1>i, <1>a, <1>b, <1>8 DEF Revoke, Fail
<1>9. CASE TailFailed \/ TailDone
  BY <1>s, <1>i, <1>a, <1>b, <1>9 DEF TailFailed, TailDone
<1> QED  BY Zenon, <1>1, <1>2, <1>3, <1>4, <1>5, <1>6, <1>7, <1>8, <1>9 DEF Still

(* It keeps what was read of a completion.                                 *)
LEMMA StillReading ==
    ASSUME Inv, Still
    PROVE  Reading'
<1>s. UNCHANGED <<sequence, nextSlot, completed, rsps, generation>>
  BY StillStep, DriverFrame DEF Still, DriverStep, TailStep
<1>i. Reading
  BY DEF Inv
<1>1. CASE ReadWord
  BY <1>1, ReadStep
<1>2. CASE Evaluate
  BY <1>2, EvaluateStep DEF Reading
<1>3. CASE WaitTurn
  <2>1. lpc = "wait" /\ \A n \in {"read", "again"} : snaps'[n] = Blank
    BY <1>3, <1>i, WaitStep DEF Reading
  <2>2. CASE lpc' = "read"
    <3>1. words' = RecordWords /\ generation # 0
      BY <1>3, <2>2, WaitStep DEF Inv, FirmwareTyped
    <3> QED  BY <1>s, <2>1, <2>2, <3>1 DEF Reading, Seen, RecordWords, Blank
  <2>3. CASE lpc' # "read"
    BY <1>3, <2>1, <2>3, WaitStep DEF Reading
  <2> QED  BY <2>2, <2>3
<1>4. CASE AtomicCommit
  BY <1>i, <1>4, CommitStep DEF Reading
<1>5. CASE Probe \/ Expire \/ Sleep \/ (Revoke /\ lpc' = "failed") \/ TailFailed \/ TailDone
  <2>1. lpc \notin {"read", "again"} /\ lpc' \notin {"read", "again"} /\ snaps' = snaps
    BY <1>5 DEF Probe, Expire, Sleep, Fail, Revoke, TailFailed, TailDone
  <2> QED  BY <1>i, <2>1 DEF Reading
<1> QED  BY <1>1, <1>2, <1>3, <1>4, <1>5 DEF Still

(* It keeps the invariant.                                                 *)
LEMMA InvStill ==
    ASSUME Inv, Still
    PROVE  Inv'
<1>1. DriverStep
  BY DEF Still, DriverStep, TailStep
<1>2. /\ UNCHANGED <<reqs, cells, sequence, nextSlot>> /\ ~Writing /\ ~Writing'
      /\ UNCHANGED <<rsps, status, generation, service, panel, gram, active, drawn, completed,
                     next, look>>
  BY <1>1, StillStep, DriverFrame DEF Writing
<1>3. MemoryTyped' /\ FirmwareTyped' /\ Dated' /\ Progress'
  BY <1>2 DEF Inv, MemoryTyped, FirmwareTyped, Dated, Progress, Working
<1>4. Requests' /\ Employed'
  BY <1>2 DEF Inv, Requests, Employed, Working
<1>5. Responses'
  BY Zenon, <1>2 DEF Inv, Responses, Working, Completion
<1> QED  BY <1>3, <1>4, <1>5, StillTypes, StillPlaced, StillReading DEF Inv
=============================================================================
