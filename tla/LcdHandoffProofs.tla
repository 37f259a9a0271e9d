--------------------------- MODULE LcdHandoffProofs ---------------------------
(***************************************************************************)
(* SlotOwned, FlipShowsFrame and the refinement of SlotHandoff for any     *)
(* frames, boots and sequence limits.                                      *)
(***************************************************************************)
EXTENDS LcdHandoffSteps

(* The three steps that write a slot and its request.                      *)
LEMMA RevokeStep ==
    ASSUME Inv, Revoke, lpc' # "failed"
    PROVE  /\ lpc = "access" /\ lpc' = "write" /\ current \in Commits
           /\ reqs' = [reqs EXCEPT ![Slot] = [reqs[Slot] EXCEPT !.commit = 0]]
           /\ words' = RecordWords \cup Damaged
           /\ UNCHANGED <<cells, current, plane, sequence, acked, nextSlot, goal, snaps, fault>>
           /\ Slot' = Slot /\ Source' = Source
<1>1. /\ lpc = "access" /\ lpc' = "write"
      /\ reqs' = [reqs EXCEPT ![Slot].commit = 0]
      /\ words' = RecordWords \cup Damaged
      /\ UNCHANGED <<cells, current, plane, sequence, acked, nextSlot, goal, snaps, fault>>
  BY DEF Revoke, Fail, RevokedCommit, Damaged
<1>2. current \in Commits
  BY <1>1 DEF Inv, Placed
<1>3. reqs' = [reqs EXCEPT ![Slot] = [reqs[Slot] EXCEPT !.commit = 0]]
  BY <1>1
<1> QED  BY <1>1, <1>2, <1>3 DEF Slot, Source

(* A word of the record, or a damaged cell, is written.                    *)
LEMMA WriteStep ==
    ASSUME Inv, WriteWord
    PROVE  \E w \in words :
           /\ lpc = "write" /\ current \in Commits
           /\ words' = words \ {w}
           /\ lpc' = IF words = {w} THEN "commit" ELSE "write"
           /\ \/ /\ w \in RecordWords
                 /\ reqs' = [reqs EXCEPT ![Slot] = [reqs[Slot] EXCEPT ![w] = Request[w]]]
                 /\ UNCHANGED cells
              \/ /\ w \in Damaged \ RecordWords
                 /\ cells' = [cells EXCEPT ![Slot] = [cells[Slot] EXCEPT ![w] = Pixel(w)]]
                 /\ UNCHANGED reqs
           /\ UNCHANGED <<current, plane, sequence, acked, nextSlot, goal, snaps, fault>>
           /\ Slot' = Slot /\ Source' = Source
<1>1. lpc = "write" /\ current \in Commits /\ words \subseteq RecordWords \cup Damaged
  BY DEF WriteWord, Inv, Placed
<1>2. /\ UNCHANGED <<current, plane, sequence, acked, nextSlot, goal, snaps, fault>>
      /\ Slot' = Slot /\ Source' = Source
  BY DEF WriteWord, Slot, Source
<1>3. PICK w \in words :
         /\ words' = words \ {w}
         /\ lpc' = IF words = {w} THEN "commit" ELSE "write"
         /\ IF w \in RecordWords
            THEN reqs' = [reqs EXCEPT ![Slot][w] = Request[w]] /\ UNCHANGED cells
            ELSE cells' = [cells EXCEPT ![Slot][w] = Pixel(w)] /\ UNCHANGED reqs
  BY DEF WriteWord
<1>4. \/ /\ w \in RecordWords
         /\ reqs' = [reqs EXCEPT ![Slot] = [reqs[Slot] EXCEPT ![w] = Request[w]]]
         /\ UNCHANGED cells
      \/ /\ w \in Damaged \ RecordWords
         /\ cells' = [cells EXCEPT ![Slot] = [cells[Slot] EXCEPT ![w] = Pixel(w)]]
         /\ UNCHANGED reqs
  BY <1>1, <1>3
<1> QED  BY <1>1, <1>2, <1>3, <1>4

(* The commit word hands the slot over.                                    *)
LEMMA HandOverStep ==
    ASSUME Inv, CommitRequest
    PROVE  /\ lpc = "commit" /\ lpc' = "wait" /\ goal = "reuse" /\ goal' = "ack"
           /\ current \in Commits /\ words = {} /\ fault = "none"
           /\ reqs' = [reqs EXCEPT ![Slot] = [reqs[Slot] EXCEPT !.commit = Request.body.number]]
           /\ sequence' = [sequence EXCEPT ![Slot] = Request.body.number]
           /\ nextSlot' = Other(nextSlot) /\ nextSlot' \in Slots
           /\ UNCHANGED <<cells, current, plane, acked, words, snaps, fault>>
           /\ Slot' = Slot /\ Source' = Source
<1>1. lpc = "commit" /\ goal = "reuse" /\ current \in Commits /\ words = {} /\ fault = "none"
  BY DEF CommitRequest, Inv, Placed
<1>2. /\ lpc' = "wait" /\ goal' = "ack"
      /\ reqs' = [reqs EXCEPT ![Slot] = [reqs[Slot] EXCEPT !.commit = Request.body.number]]
      /\ sequence' = [sequence EXCEPT ![Slot] = Request.body.number]
      /\ nextSlot' = Other(nextSlot)
      /\ UNCHANGED <<cells, current, plane, acked, words, snaps, fault>>
  BY DEF CommitRequest
<1>3. Slot' = Slot /\ Source' = Source /\ nextSlot' \in Slots
  BY <1>1, <1>2, SlotFacts DEF Slot, Source, Inv
<1> QED  BY <1>1, <1>2, <1>3

(* What the writing steps leave as it is.                                  *)
LEMMA WritingFrame ==
    ASSUME Inv, (Revoke /\ lpc' # "failed") \/ WriteWord \/ CommitRequest
    PROVE  /\ UNCHANGED <<rsps, status, generation, service, panel, gram, active, drawn, completed,
                          next, look>>
           /\ FirmwareTyped' /\ Progress' /\ Responses'
<1>1. UNCHANGED <<rsps, status, generation, service, panel, gram, active, drawn, completed,
                  next, look>>
  BY DriverFrame DEF DriverStep, TailStep
<1> QED  BY <1>1 DEF Inv, FirmwareTyped, Progress, Responses, Working, Completion

(* Revoking the old commit keeps the invariant.                            *)
LEMMA InvRevoke ==
    ASSUME Inv, Revoke, lpc' # "failed"
    PROVE  Inv'
<1>i. Slot \in Slots /\ reqs \in [Slots -> Record] /\ reqs[Slot] \in Record
      /\ 0 \in Sequences32
  BY SlotFacts, LcdHandoffAssumption DEF Inv, MemoryTyped, Sequences32
<1> DEFINE r == [reqs[Slot] EXCEPT !.commit = 0]
<1>1. r \in Record /\ r.identity = reqs[Slot].identity /\ r.body = reqs[Slot].body /\ r.commit = 0
  BY <1>i DEF Record
<1>2. reqs' = [reqs EXCEPT ![Slot] = r]
  BY RevokeStep
<1> HIDE DEF r
<1>3. /\ reqs' \in [Slots -> Record] /\ reqs'[Slot].commit = 0
      /\ \A s \in Slots : reqs'[s].identity = reqs[s].identity /\ reqs'[s].body = reqs[s].body
  BY <1>i, <1>1, <1>2
<1>f. /\ UNCHANGED <<rsps, status, generation, service, panel, active, drawn, completed>>
      /\ FirmwareTyped' /\ Progress' /\ Responses'
  BY WritingFrame
<1>4. MemoryTyped' /\ Dated' /\ DriverTyped'
  BY <1>3, <1>f, RevokeStep DEF Inv, MemoryTyped, Dated, DriverTyped
<1>5. Placed' /\ Matched'
  BY <1>f, RevokeStep DEF Inv, Placed, Matched, Awaiting, Damaged
<1>6. Requests'
  BY <1>3, <1>f, RevokeStep DEF Inv, Requests, Writing
<1>7. Employed'
  BY <1>3, <1>f, RevokeStep, NotTouched DEF Inv, Employed, Working
<1>8. Reading'
  BY RevokeStep DEF Inv, Reading
<1> QED  BY <1>f, <1>4, <1>5, <1>6, <1>7, <1>8 DEF Inv

(* Writing one word of the record or one cell keeps the invariant.         *)
LEMMA InvWrite ==
    ASSUME Inv, WriteWord
    PROVE  Inv'
<1>0. PICK w \in words :
         /\ lpc = "write" /\ current \in Commits
         /\ words' = words \ {w}
         /\ lpc' = IF words = {w} THEN "commit" ELSE "write"
         /\ \/ /\ w \in RecordWords
               /\ reqs' = [reqs EXCEPT ![Slot] = [reqs[Slot] EXCEPT ![w] = Request[w]]]
               /\ UNCHANGED cells
            \/ /\ w \in Damaged \ RecordWords
               /\ cells' = [cells EXCEPT ![Slot] = [cells[Slot] EXCEPT ![w] = Pixel(w)]]
               /\ UNCHANGED reqs
         /\ UNCHANGED <<current, plane, sequence, acked, nextSlot, goal, snaps, fault>>
         /\ Slot' = Slot /\ Source' = Source
  BY WriteStep
<1>i. Slot \in Slots /\ reqs \in [Slots -> Record] /\ reqs[Slot] \in Record
      /\ cells \in [Slots -> [CellNames -> Values]] /\ generation \in Nat
      /\ Request \in Record /\ Request.identity = generation /\ Request.commit = 0
  BY <1>0, SlotFacts, RequestFacts DEF Inv, MemoryTyped, FirmwareTyped, Generations
<1>f. /\ UNCHANGED <<rsps, status, generation, service, panel, active, drawn, completed>>
      /\ FirmwareTyped' /\ Progress' /\ Responses'
  BY WritingFrame
<1>r. Request' = Request
  BY <1>0, <1>f DEF Request
<1>1. /\ reqs' \in [Slots -> Record] /\ reqs'[Slot].commit = 0
      /\ reqs'[Slot].identity <= generation
      /\ \A s \in Slots \ {Slot} : reqs'[s] = reqs[s]
      /\ \A v \in RecordWords \ words' : reqs'[Slot][v] = Request[v]
  <2>1. /\ reqs[Slot].commit = 0 /\ reqs[Slot].identity <= generation
        /\ \A v \in RecordWords \ words : reqs[Slot][v] = Request[v]
    BY <1>0, <1>i DEF Inv, Requests, Writing, Dated
  <2>2. ASSUME w \in RecordWords,
               reqs' = [reqs EXCEPT ![Slot] = [reqs[Slot] EXCEPT ![w] = Request[w]]]
        PROVE  <1>1!1 /\ <1>1!2 /\ <1>1!3 /\ <1>1!4
    <3> DEFINE r == [reqs[Slot] EXCEPT ![w] = Request[w]]
    <3>1. /\ r \in Record /\ r[w] = Request[w]
          /\ \A v \in RecordWords \ {w} : r[v] = reqs[Slot][v]
      <4>1. reqs[Slot] \in Record /\ Request \in Record /\ w \in RecordWords
        BY <1>i, <2>2
      <4> QED  BY ONLY <4>1, WordMove, SMTT(30)
    <3> HIDE DEF r
    <3>2. r.commit = 0 /\ r.identity \in {reqs[Slot].identity, generation}
      <4>1. CASE w = "identity"  BY <1>i, <2>1, <3>1, <4>1 DEF RecordWords
      <4>2. CASE w = "body"      BY <1>i, <2>1, <3>1, <4>2 DEF RecordWords
      <4>3. CASE w = "commit"    BY <1>i, <2>1, <3>1, <4>3 DEF RecordWords
      <4> QED  BY <2>2, <4>1, <4>2, <4>3 DEF RecordWords
    <3>3. reqs' = [reqs EXCEPT ![Slot] = r]
      BY <2>2 DEF r
    <3>4. \A v \in RecordWords \ words' : r[v] = Request[v]
      BY <1>0, <2>1, <3>1
    <3> QED  BY <1>i, <2>1, <3>1, <3>2, <3>3, <3>4
  <2>3. ASSUME w \notin RecordWords, UNCHANGED reqs
        PROVE  <1>1!1 /\ <1>1!2 /\ <1>1!3 /\ <1>1!4
    BY <1>0, <1>i, <2>1, <2>3
  <2> QED  BY <1>0, <2>2, <2>3
<1>2. cells' \in [Slots -> [CellNames -> Values]]
  <2>1. ASSUME w \in Damaged,
               cells' = [cells EXCEPT ![Slot] = [cells[Slot] EXCEPT ![w] = Pixel(w)]]
        PROVE  cells' \in [Slots -> [CellNames -> Values]]
    <3>1. w \in CellNames /\ Pixel(w) \in Values
      BY <1>0, <2>1, SourceFacts
    <3> QED  BY <1>i, <2>1, <3>1
  <2> QED  BY <1>0, <1>i, <2>1
<1>4. MemoryTyped' /\ Dated' /\ DriverTyped'
  <2>1. MemoryTyped'
    BY <1>1, <1>2, <1>f DEF Inv, MemoryTyped
  <2>2. Dated'
    BY <1>1, <1>f DEF Inv, Dated
  <2>3. DriverTyped'
    BY <1>0 DEF Inv, DriverTyped
  <2> QED  BY <2>1, <2>2, <2>3
<1>5. Placed' /\ Matched'
  BY <1>0, <1>f DEF Inv, Placed, Matched, Awaiting, Damaged
<1>6. Requests'
  BY <1>0, <1>1, <1>f, <1>r DEF Inv, Requests, Writing
<1>7. Employed'
  BY <1>0, <1>1, <1>f, NotTouched DEF Inv, Employed, Working
<1>8. Reading'
  BY <1>0 DEF Inv, Reading
<1> QED  BY <1>f, <1>4, <1>5, <1>6, <1>7, <1>8 DEF Inv

(* Handing a slot over keeps the invariant.                                *)
LEMMA InvHandOver ==
    ASSUME Inv, CommitRequest
    PROVE  Inv'
<1>i. /\ Slot \in Slots /\ reqs \in [Slots -> Record] /\ reqs[Slot] \in Record
      /\ sequence \in [Slots -> Sequences32]
      /\ Request.body.number \in Sequences32 \ {0, sequence[Slot]}
  BY HandOverStep, SlotFacts, RequestFacts DEF Inv, MemoryTyped, DriverTyped
<1>w. reqs[Slot].body.number = Request.body.number
  BY HandOverStep DEF Inv, Requests, Writing, RecordWords
<1> DEFINE r == [reqs[Slot] EXCEPT !.commit = Request.body.number]
<1>1. r \in Record /\ r.identity = reqs[Slot].identity /\ r.body = reqs[Slot].body
  BY <1>i DEF Record
<1>2. reqs' = [reqs EXCEPT ![Slot] = r]
  BY HandOverStep
<1> HIDE DEF r
<1>3. /\ reqs' \in [Slots -> Record]
      /\ \A s \in Slots : reqs'[s].identity = reqs[s].identity /\ reqs'[s].body = reqs[s].body
  BY <1>i, <1>1, <1>2
<1>f. /\ UNCHANGED <<rsps, status, generation, service, panel, active, drawn, completed>>
      /\ FirmwareTyped' /\ Progress' /\ Responses'
  BY WritingFrame
<1>s. /\ sequence' \in [Slots -> Sequences32] /\ sequence'[Slot] = Request.body.number
      /\ \A s \in Slots \ {Slot} : sequence'[s] = sequence[s]
  BY <1>i, HandOverStep
<1>a. \A s \in Slots : acked[s] = sequence[s]
  BY HandOverStep DEF Inv, Placed, Awaiting
<1>4. MemoryTyped' /\ Dated' /\ DriverTyped'
  BY <1>3, <1>f, <1>s, HandOverStep DEF Inv, MemoryTyped, Dated, DriverTyped
<1>5. Placed' /\ Matched'
  BY <1>i, <1>f, <1>s, <1>a, HandOverStep DEF Inv, Placed, Matched, Awaiting
<1>6. Requests'
  BY <1>i, <1>w, <1>3, <1>f, <1>s, HandOverStep DEF Inv, Requests, Writing
<1>7. Employed'
  BY <1>3, <1>f, <1>s, HandOverStep, NotTouched DEF Inv, Employed, Working
<1>8. Reading'
  BY HandOverStep DEF Inv, Reading
<1> QED  BY <1>f, <1>4, <1>5, <1>6, <1>7, <1>8 DEF Inv

(* Every step keeps the invariant.                                         *)
LEMMA InvNext == ~(Retained /\ MayPanic) /\ Inv /\ [Next]_vars => Inv'
<1> SUFFICES ASSUME ~(Retained /\ MayPanic), Inv, [Next]_vars
             PROVE  Inv'
  OBVIOUS
<1>1. CASE FirmwareStep
  BY <1>1, InvFirmware
<1>2. CASE Still
  BY <1>2, InvStill
<1>3. CASE (Revoke /\ lpc' # "failed") \/ WriteWord \/ CommitRequest
  BY <1>3, InvRevoke, InvWrite, InvHandOver
<1>4. CASE WarmReset \/ ColdReset
  BY <1>4, InvReset
<1>5. CASE UNCHANGED vars
  <2>1. /\ UNCHANGED <<reqs, rsps, cells, status, generation, service, panel, gram, active, drawn,
                       completed, next, look>>
        /\ UNCHANGED <<lpc, current, plane, sequence, acked, nextSlot, goal, words, snaps, fault>>
    BY <1>5 DEF vars, memory, firmware, driver
  <2>2. Slot' = Slot /\ Source' = Source /\ Request' = Request /\ Completion(0)' = Completion(0)
    BY <2>1 DEF Slot, Source, Request, Completion
  <2>3. MemoryTyped' /\ FirmwareTyped' /\ DriverTyped' /\ Dated'
    BY <2>1 DEF Inv, MemoryTyped, FirmwareTyped, DriverTyped, Dated
  <2>4. Placed' /\ Matched' /\ Requests'
    BY <2>1, <2>2 DEF Inv, Placed, Awaiting, Damaged, Matched, Requests, Writing
  <2>5. Employed' /\ Progress' /\ Responses' /\ Reading'
    BY <2>1, <2>2 DEF Inv, Employed, Progress, Responses, Reading, Seen, Working
  <2> QED  BY <2>3, <2>4, <2>5 DEF Inv
<1> QED  BY <1>1, <1>2, <1>3, <1>4, <1>5 DEF Next, Still, TailStep
-----------------------------------------------------------------------------
(* The firmware only works on the request this boot's driver handed over   *)
(* last, with its rectangle, and the driver leaves the slot alone until    *)
(* then; a fault ends all writing (lcd_scanout, Service::step).  DDR may   *)
(* survive resets, or the firmware panic, not both.                        *)
THEOREM Owned ==
    ASSUME ~(Retained /\ MayPanic)
    PROVE  Spec => SlotOwned
<1> DEFINE P == Working =>
              /\ sequence[active.slot] = active.number
              /\ acked[active.slot] # active.number
              /\ reqs[active.slot].body.rect = active.rect
              /\ ~(lpc \in {"access", "write", "commit"} /\ Slot = active.slot)
           A == fault # "none" => UNCHANGED <<reqs, cells>> \/ fault' = "none"
<1>1. Inv => P
  BY NotTouched DEF Inv, Employed
<1>2. Inv /\ [Next]_vars => [A]_vars
  <2> SUFFICES ASSUME Inv, Next, fault # "none"
               PROVE  UNCHANGED <<reqs, cells>> \/ fault' = "none"
    OBVIOUS
  <2>1. lpc \in {"failed", "idle"}
    BY DEF Inv, Placed
  <2>2. CASE FirmwareStep
    BY <2>2, FirmwareFrame
  <2>3. CASE Still
    BY <2>3, StillStep
  <2>4. CASE Revoke \/ WriteWord \/ CommitRequest
    BY <2>1, <2>4 DEF Revoke, WriteWord, CommitRequest
  <2>5. CASE WarmReset \/ ColdReset
    BY <2>5 DEF WarmReset, ColdReset, Restart
  <2> QED  BY <2>2, <2>3, <2>4, <2>5 DEF Next, Still, TailStep
<1>3. Spec => []P /\ [][A]_vars
  BY <1>1, <1>2, InvInit, InvNext, PTL DEF Spec
<1> QED  BY <1>3 DEF SlotOwned
-----------------------------------------------------------------------------
(* The refinement of SlotHandoff.                                          *)

(* An acknowledged slot is Linux's, and the one the firmware works on is   *)
(* its own.                                                                *)
LEMMA OwnerFacts ==
    ASSUME Inv
    PROVE  /\ \A s \in Slots : acked[s] = sequence[s] => Owner[s] = "linux"
           /\ Working => active.slot \in Slots /\ Owner[active.slot] = "c906l"
<1>1. \A s \in Slots : acked[s] = sequence[s] => Owner[s] = "linux"
  BY DEF Inv, Matched, Owner
<1>2. Working => active.slot \in Slots /\ Owner[active.slot] = "c906l"
  BY NotTouched DEF Inv, Employed, Owner
<1> QED  BY <1>1, <1>2

(* Every step is one of the abstract handoff, or changes nothing of it.    *)
LEMMA StepHandoff ==
    ASSUME Inv, Next
    PROVE  [Handoff!Next]_(Handoff!vars)
<1> USE DEF Handoff!vars
<1>1. ASSUME UNCHANGED <<sequence, completed>>
      PROVE  UNCHANGED Owner
  BY <1>1 DEF Owner
<1>2. CASE StreamCell
  <2>1. UNCHANGED <<sequence, completed, cells>>
    BY <1>2, FirmwareFrame, DrawStep DEF FirmwareStep
  <2>2. active.slot \in Slots /\ Owner[active.slot] = "c906l"
        /\ active.rect[drawn + 1] \in {"top", "bottom"}
        /\ Cells[drawn + 1] \in {"lo", "hi"}
    <3>1. active.rect \in Rects /\ drawn + 1 \in DOMAIN active.rect /\ Working
      BY <1>2, DrawStep
    <3>2. drawn + 1 \in {1, 2} /\ active.rect[drawn + 1] \in HalfNames
      BY <3>1, RectFacts
    <3> QED  BY <3>1, <3>2, OwnerFacts, CellFacts DEF HalfNames
  <2>3. CASE UNCHANGED gram
    BY <1>1, <2>1, <2>3
  <2>4. CASE gram' # gram
    <3>1. gram' = [gram EXCEPT ![active.rect[drawn + 1]] = cells[active.slot][Cells[drawn + 1]]]
      BY <1>2, <2>4, DrawStep
    <3>2. Handoff!Draw(active.slot)
      BY Zenon, <1>1, <2>1, <2>2, <3>1 DEF Handoff!Draw
    <3> QED  BY <2>2, <3>2 DEF Handoff!Next
  <2> QED  BY <2>3, <2>4
<1>3. CASE CommitResponse
  <2>1. UNCHANGED <<sequence, cells, gram>>
        /\ completed' = [completed EXCEPT ![active.slot] = active.number]
        /\ sequence[active.slot] = active.number
        /\ active.slot \in Slots /\ Owner[active.slot] = "c906l"
    BY <1>3, FirmwareFrame, CompleteStep, OwnerFacts, NotTouched DEF FirmwareStep
  <2>2. Owner' = [Owner EXCEPT ![active.slot] = "linux"]
    BY <2>1 DEF Owner, Inv, FirmwareTyped
  <2> QED  BY Zenon, <2>1, <2>2 DEF Handoff!GiveBack, Handoff!Next
<1>4. CASE FirmwareStep /\ ~StreamCell /\ ~CommitResponse
  <2>1. UNCHANGED <<sequence, completed, cells, gram>>
    BY <1>4, FirmwareFrame, QuietStep, AcceptStep, RespondStep
  <2> QED  BY <1>1, <2>1
<1>5. CASE Still \/ (Revoke /\ lpc' # "failed")
  <2>1. UNCHANGED <<sequence, completed, cells, gram>>
    BY <1>5, StillStep, RevokeStep, DriverFrame DEF Still, DriverStep, TailStep
  <2> QED  BY <1>1, <2>1
<1>6. CASE WriteWord
  <2>1. UNCHANGED <<sequence, completed, gram>> /\ lpc = "write"
        /\ (UNCHANGED cells \/ \A t \in Slots \ {Slot} : cells'[t] = cells[t])
    BY <1>6, WriteStep, DriverFrame, SlotFacts DEF DriverStep, TailStep, Inv, MemoryTyped
  <2>2. Slot \in Slots /\ Owner[Slot] = "linux"
    BY <2>1, SlotFacts, OwnerFacts DEF Inv, Placed, Awaiting
  <2> QED  BY <1>1, <2>1, <2>2 DEF Handoff!Fill, Handoff!Next
<1>7. CASE CommitRequest
  <2>1. UNCHANGED <<completed, gram, cells>>
        /\ sequence' = [sequence EXCEPT ![Slot] = Request.body.number] /\ current \in Commits
    BY <1>7, HandOverStep, DriverFrame DEF DriverStep, TailStep
  <2>2. Slot \in Slots /\ \A s \in Slots : acked[s] = sequence[s]
    BY <1>7, SlotFacts DEF CommitRequest, Inv, Placed, Awaiting
  <2>3. \A s \in Slots : Owner[s] = "linux" /\ completed[s] = sequence[s]
    BY <2>2, OwnerFacts DEF Inv, Matched
  <2>4. Request.body.number \notin {0, sequence[Slot]}
    BY <2>1, RequestFacts DEF Inv
  <2>5. Owner' = [Owner EXCEPT ![Slot] = "c906l"]
    BY Zenon, <2>1, <2>2, <2>3, <2>4 DEF Owner, Inv, DriverTyped
  <2> QED  BY Zenon, <2>1, <2>2, <2>3, <2>5 DEF Handoff!HandOver, Handoff!Next
<1>8. CASE WarmReset \/ ColdReset
  <2>1. /\ gram' = [h \in {"top", "bottom"} |-> Noise]
        /\ sequence' = [s \in Slots |-> 0]
    BY <1>8 DEF WarmReset, ColdReset, Restart
  <2>2. Owner' = [s \in Slots |-> "linux"]
    BY <2>1 DEF Owner
  <2> QED  BY <2>1, <2>2 DEF Handoff!Restart, Handoff!Next
<1> QED  BY <1>2, <1>3, <1>4, <1>5, <1>6, <1>7, <1>8 DEF Next, Still, TailStep

(* The driver and the LCD service implement the handoff of slots: the      *)
(* driver writes the pixels of its own slots only, gives one away at a     *)
(* time, and the panel is drawn from the slot given away.                  *)
THEOREM Refines ==
    ASSUME ~(Retained /\ MayPanic)
    PROVE  Spec => ImplementsHandoff
<1>1. Init => Handoff!Init
  BY DEF Init, Handoff!Init, Owner
<1>2. Inv /\ [Next]_vars => [Handoff!Next]_(Handoff!vars)
  <2>1. UNCHANGED vars => UNCHANGED Handoff!vars
    BY DEF vars, memory, firmware, driver, Handoff!vars, Owner
  <2> QED  BY <2>1, StepHandoff
<1> QED  BY <1>1, <1>2, InvInit, InvNext, PTL DEF Spec, ImplementsHandoff, Handoff!Spec
-----------------------------------------------------------------------------
(* What a flip shows: how far the current frame has come, into the slot    *)
(* and onto the panel, and that what is not copied is there already.       *)

Tailing == lpc \notin {"unbound", "idle"}

OnPanel == current.active => gram = current.content

Copied(i) == cells[Slot][Cells[i]] = Pixel(Cells[i])

(* The tail works on the state the atomic commit swapped in.               *)
Swapped ==
    /\ lpc = "unbound" => ~plane.active
    /\ Tailing => current.active = plane.active /\ current.content = plane.content

(* The panel shows the plane, except for what the tail has yet to send.    *)
Current ==
    fault = "none" =>
       /\ lpc = "idle" /\ plane.active => gram = plane.content
       /\ Tailing /\ current.active =>
             \A h \in HalfNames : \/ \E i \in DOMAIN Source : Source[i] = h
                                  \/ gram[h] = current.content[h]

Copying == Writing => \A i \in DOMAIN Source : Cells[i] \in words \/ Copied(i)

Copies == Awaiting => reqs[Slot].body.rect = Source /\ \A i \in DOMAIN Source : Copied(i)

Streamed ==
    Awaiting /\ Working /\ current.active =>
       \A i \in 1 .. drawn : gram[Source[i]] = current.content[Source[i]]

Flipped ==
    /\ Awaiting /\ completed[Slot] = sequence[Slot] /\ rsps[Slot].body.result = 0 => OnPanel
    /\ lpc = "done" => OnPanel

Unbound == lpc = "unbound" /\ plane.active = FALSE

Shown == Swapped /\ Current /\ Copying /\ Copies /\ Streamed /\ Flipped

(* What a step that leaves the tail and the pixels alone does not change.  *)
LEMMA Framed ==
    ASSUME UNCHANGED <<lpc, current, nextSlot, goal, cells>>
    PROVE  /\ Slot' = Slot /\ Source' = Source /\ Awaiting' = Awaiting /\ Writing' = Writing
           /\ Tailing' = Tailing /\ \A i : Copied(i)' = Copied(i)
BY Zenon DEF Slot, Source, Awaiting, Writing, Tailing, Copied, Pixel

(* The cell the firmware draws is a pixel of the frame being shown.        *)
LEMMA DrawnPixel ==
    ASSUME Inv, Copies, StreamCell, fault = "none", current.active
    PROVE  /\ Awaiting /\ active.slot = Slot /\ active.rect = Source
           /\ drawn + 1 \in DOMAIN Source /\ \A i \in DOMAIN Source : Source[i] \in HalfNames
           /\ cells[active.slot][Cells[drawn + 1]] = current.content[Source[drawn + 1]]
<1>1. Working /\ drawn + 1 \in DOMAIN active.rect
  BY DrawStep
<1>2. Awaiting /\ active.slot = Slot
  BY <1>1, NotTouched
<1>3. current \in Commits
  BY <1>2 DEF Inv, Placed, Awaiting
<1>4. active.rect = Source
  BY <1>1, <1>2 DEF Inv, Employed, Copies
<1>5. Copied(drawn + 1)
  BY <1>1, <1>2, <1>4 DEF Copies
<1>6. cells[active.slot][Cells[drawn + 1]] = current.content[Source[drawn + 1]]
  BY <1>1, <1>2, <1>3, <1>4, <1>5, SourceFacts DEF Copied
<1>7. \A i \in DOMAIN Source : Source[i] \in HalfNames
  BY <1>3, SourceFacts, RectFacts
<1> QED  BY <1>1, <1>2, <1>4, <1>6, <1>7

(* Streaming a cell puts the pixel of the current frame on the panel.      *)
LEMMA ShownDraw ==
    ASSUME Inv, Shown, StreamCell
    PROVE  Current' /\ Streamed' /\ Flipped'
<1>s. /\ UNCHANGED <<cells, lpc, current, plane, sequence, nextSlot, goal, fault>>
      /\ UNCHANGED <<rsps, active, completed>>
  BY FirmwareFrame, DrawStep DEF FirmwareStep
<1>e. /\ Slot' = Slot /\ Source' = Source /\ Awaiting' = Awaiting /\ Tailing' = Tailing
      /\ Working' = Working
  BY <1>s, Framed DEF Working
<1>w. Working /\ completed[active.slot] # sequence[active.slot]
  BY DrawStep DEF Inv, Employed
<1>c. Current /\ Streamed /\ Flipped /\ Copies
  BY DEF Shown
<1>1. CASE UNCHANGED <<gram, drawn>>
  BY <1>s, <1>e, <1>c, <1>1 DEF Current, Streamed, Flipped, OnPanel
<1>2. CASE fault # "none"
  <2>1. ~Awaiting /\ lpc # "done"
    BY <1>2 DEF Inv, Placed, Awaiting
  <2> QED  BY <1>s, <1>e, <1>2, <2>1 DEF Current, Streamed, Flipped
<1>3. CASE fault = "none" /\ ~current.active
  <2>1. lpc # "idle"
    BY <1>3, <1>w, NotTouched DEF Awaiting
  <2> QED  BY <1>s, <1>e, <1>3, <2>1 DEF Current, Streamed, Flipped, OnPanel
<1>4. CASE /\ gram' = [gram EXCEPT ![active.rect[drawn + 1]] =
                                     cells[active.slot][Cells[drawn + 1]]]
           /\ drawn' = drawn + 1 /\ fault = "none" /\ current.active
  <2> DEFINE h == Source[drawn + 1]
  <2>1. /\ Awaiting /\ active.slot = Slot /\ active.rect = Source
        /\ drawn + 1 \in DOMAIN Source /\ \A i \in DOMAIN Source : Source[i] \in HalfNames
        /\ cells[active.slot][Cells[drawn + 1]] = current.content[h]
    BY <1>c, <1>4, DrawnPixel
  <2>2. gram \in [HalfNames -> Values \cup {Noise}] /\ drawn \in Nat
    BY DEF Inv, FirmwareTyped
  <2>3. \A k \in HalfNames : gram'[k] = IF k = h THEN current.content[h] ELSE gram[k]
    BY <1>4, <2>1, <2>2
  <2>4. \A i \in 1 .. drawn + 1 : gram'[Source[i]] = current.content[Source[i]]
    <3>1. DOMAIN Source = 1 .. Len(Source) /\ Len(Source) \in Nat
      BY <2>1, DrawStep, RectFacts
    <3>2. \A i \in 1 .. drawn + 1 : Source[i] \in HalfNames
      BY <2>1, <2>2, <3>1
    <3>3. \A i \in 1 .. drawn : gram[Source[i]] = current.content[Source[i]]
      BY <1>c, <1>w, <1>4, <2>1 DEF Streamed
    <3> QED  BY <2>2, <2>3, <3>2, <3>3
  <2>5. \A k \in HalfNames : (\E i \in DOMAIN Source : Source[i] = k)
                             \/ gram'[k] = current.content[k]
    <3>1. \A k \in HalfNames : (\E i \in DOMAIN Source : Source[i] = k)
                               \/ gram[k] = current.content[k]
      BY <1>c, <1>4, <2>1 DEF Current, Awaiting, Tailing
    <3> QED  BY <2>1, <2>3, <3>1
  <2>6. lpc \notin {"idle", "done"}
    BY <2>1 DEF Awaiting
  <2>7. Current'
    BY <1>s, <1>e, <2>5, <2>6 DEF Current
  <2>8. Streamed'
    BY <1>s, <1>e, <1>4, <2>4 DEF Streamed
  <2>9. Flipped'
    BY <1>s, <1>e, <1>w, <2>1, <2>6 DEF Flipped
  <2> QED  BY <2>7, <2>8, <2>9
<1> QED  BY <1>1, <1>2, <1>3, <1>4, DrawStep

(* A job completes only when its whole rectangle is on the panel.          *)
LEMMA ShownComplete ==
    ASSUME Inv, Shown, CommitResponse
    PROVE  Streamed' /\ Flipped'
<1>s. UNCHANGED <<cells, lpc, current, sequence, nextSlot, goal, gram>> /\ ~Working'
  BY FirmwareFrame, CompleteStep DEF FirmwareStep, Working
<1>e. Slot' = Slot /\ Awaiting' = Awaiting
  BY <1>s, Framed
<1>1. ASSUME Awaiting, rsps'[Slot].body.result = 0, current.active
      PROVE  gram = current.content
  <2>1. fault = "none" /\ current \in Commits /\ Tailing
    BY <1>1 DEF Inv, Placed, Awaiting, Tailing
  <2>2. Working /\ active.slot = Slot /\ Slot \in Slots
    BY <2>1, CompleteStep, NotTouched
  <2>3. active.rect = Source
    BY <1>1, <2>2 DEF Inv, Employed, Shown, Copies
  <2>4. rsps'[Slot] = Completion(active.number)
    BY <2>2, CompleteStep DEF Inv, MemoryTyped
  <2>5. panel # "Fault"
    BY <1>1, <2>4 DEF Completion
  <2>6. drawn = Len(Source) /\ DOMAIN Source = 1 .. Len(Source)
    BY <2>1, <2>3, <2>5, CompleteStep, SourceFacts, RectFacts DEF Inv, Progress
  <2>7. \A h \in HalfNames : gram[h] = current.content[h]
    BY <1>1, <2>1, <2>2, <2>6 DEF Shown, Streamed, Current
  <2>8. gram \in [HalfNames -> Values \cup {Noise}] /\ current.content \in [HalfNames -> Values]
    BY <2>1 DEF Inv, FirmwareTyped, Commits, Contents, HalfNames
  <2> QED  BY <2>7, <2>8
<1> QED  BY <1>s, <1>e, <1>1 DEF Shown, Streamed, Flipped, OnPanel

(* The steps of the firmware.                                              *)
LEMMA ShownFirmware ==
    ASSUME Inv, Shown, FirmwareStep
    PROVE  Shown'
<1>s. UNCHANGED <<reqs, cells, lpc, current, plane, sequence, nextSlot, goal, words, fault>>
  BY FirmwareFrame
<1>e. /\ Slot' = Slot /\ Source' = Source /\ Awaiting' = Awaiting /\ Writing' = Writing
      /\ Tailing' = Tailing /\ \A i : Copied(i)' = Copied(i)
  BY <1>s, Framed
<1>c. Swapped /\ Current /\ Copying /\ Copies /\ Streamed /\ Flipped
  BY DEF Shown
<1>d. Swapped' /\ Copying' /\ Copies'
  BY Zenon, <1>s, <1>e, <1>c DEF Swapped, Copying, Copies
<1>g. ASSUME UNCHANGED gram PROVE Current' /\ OnPanel' = OnPanel
  BY Zenon, <1>s, <1>e, <1>c, <1>g DEF Current, OnPanel
<1>1. CASE StreamCell
  BY <1>d, <1>1, ShownDraw DEF Shown
<1>2. CASE CommitResponse
  BY <1>d, <1>g, <1>2, ShownComplete, CompleteStep DEF Shown
<1>3. CASE Respond
  <2>1. UNCHANGED <<gram, active, drawn, completed>> /\ Working /\ active.slot \in Slots
        /\ rsps' = [rsps EXCEPT ![active.slot] = Completion(0)]
    BY <1>3, RespondStep
  <2>2. completed[active.slot] # sequence[active.slot]
    BY <2>1 DEF Inv, Employed
  <2>3. completed[Slot] = sequence[Slot] => rsps'[Slot] = rsps[Slot]
    BY <2>1, <2>2, SlotFacts DEF Inv, MemoryTyped
  <2>4. Flipped'
    BY <1>s, <1>e, <1>c, <1>g, <2>1, <2>3 DEF Flipped
  <2>5. Streamed'
    BY <1>s, <1>e, <1>c, <2>1 DEF Streamed, Working
  <2> QED  BY <1>d, <1>g, <2>1, <2>4, <2>5 DEF Shown
<1>4. CASE ScanSecond /\ Accepting
  <2>1. UNCHANGED <<rsps, gram, completed>> /\ drawn' = 0
    BY <1>4, AcceptStep DEF Inv, Progress
  <2>2. Streamed'
    BY <2>1 DEF Streamed
  <2>3. Flipped'
    BY <1>s, <1>e, <1>c, <1>g, <2>1 DEF Flipped
  <2> QED  BY <1>d, <1>g, <2>1, <2>2, <2>3 DEF Shown
<1>5. CASE ~StreamCell /\ ~Respond /\ ~CommitResponse /\ ~(ScanSecond /\ Accepting)
  <2>1. UNCHANGED <<rsps, gram, active, drawn, completed>>
    BY <1>5, QuietStep
  <2>2. Streamed'
    BY <1>s, <1>e, <1>c, <2>1 DEF Streamed, Working
  <2>3. Flipped'
    BY <1>s, <1>e, <1>c, <1>g, <2>1 DEF Flipped
  <2> QED  BY <1>d, <1>g, <2>1, <2>2, <2>3 DEF Shown
<1> QED  BY <1>1, <1>2, <1>3, <1>4, <1>5

(* The steps of the driver that leave the slots alone.                     *)
LEMMA ShownStill ==
    ASSUME Inv, Shown, Still
    PROVE  Shown'
<1>s. /\ UNCHANGED <<reqs, cells, sequence, nextSlot>> /\ Copying'
      /\ UNCHANGED <<rsps, gram, active, drawn, completed>> /\ Working' = Working
  BY StillStep, DriverFrame DEF Still, DriverStep, TailStep, Writing, Copying, Working
<1>c. Swapped /\ Current /\ Copies /\ Streamed /\ Flipped
  BY DEF Shown
<1>k. ASSUME UNCHANGED <<current, goal, plane>>, Tailing, Tailing', Awaiting' => Awaiting,
             fault' = "none" => fault = "none", lpc' = "done" => OnPanel
      PROVE  Shown'
  <2>1. /\ Slot' = Slot /\ Source' = Source /\ OnPanel' = OnPanel
        /\ \A i : Copied(i)' = Copied(i)
    BY Zenon, <1>s, <1>k DEF Slot, Source, Copied, Pixel, OnPanel
  <2>2. Swapped'
    BY <1>c, <1>k DEF Swapped, Tailing
  <2>3. Current'
    BY <1>s, <1>c, <1>k, <2>1 DEF Current, Tailing
  <2>4. Copies' /\ Streamed'
    BY <1>s, <1>c, <1>k, <2>1 DEF Copies, Streamed
  <2>5. Flipped'
    BY <1>s, <1>c, <1>k, <2>1 DEF Flipped
  <2> QED  BY <1>s, <2>2, <2>3, <2>4, <2>5 DEF Shown
<1>n. ASSUME ~Awaiting' PROVE Copies' /\ Streamed' /\ (Flipped' <=> (lpc' = "done" => OnPanel'))
  BY <1>n DEF Copies, Streamed, Flipped
<1>1. CASE Probe
  <2>1. lpc = "unbound" /\ lpc' = "idle" /\ UNCHANGED plane
    BY <1>1 DEF Probe
  <2>2. Swapped' /\ Current' /\ ~Awaiting'
    BY <1>c, <2>1 DEF Swapped, Current, Tailing, Awaiting
  <2> QED  BY <1>s, <1>n, <2>1, <2>2 DEF Shown
<1>2. CASE AtomicCommit
  <2>1. ~Awaiting' /\ lpc = "idle" /\ Tailing' /\ (lpc' = "done" => OnPanel')
        /\ UNCHANGED fault
    BY <1>2, CommitStep DEF Awaiting, Tailing, OnPanel
  <2>2. Swapped'
    BY <1>2, <2>1, CommitStep DEF Swapped, Tailing
  <2>3. ASSUME fault = "none", current'.active, NEW h \in HalfNames
        PROVE  (\E i \in DOMAIN Source' : Source'[i] = h) \/ gram[h] = current'.content[h]
    <3>1. Source' = current'.rect
      BY <2>3 DEF Source
    <3>2. plane.active => gram = plane.content
      BY <1>c, <2>1, <2>3 DEF Current
    <3> QED  BY <1>2, <2>3, <3>1, <3>2, CommitStep
  <2>4. Current'
    BY <1>s, <2>1, <2>3 DEF Current, Tailing
  <2> QED  BY <1>s, <1>n, <2>1, <2>2, <2>4 DEF Shown
<1>3. CASE Expire
  BY <1>k, <1>3 DEF Expire, Awaiting, Tailing
<1>4. CASE WaitTurn
  BY <1>k, <1>4, WaitStep DEF Awaiting, Tailing, Inv, Placed
<1>5. CASE ReadWord
  BY <1>k, <1>5, ReadStep DEF Awaiting, Tailing
<1>6. CASE Evaluate
  <2>1. lpc' = "done" => OnPanel
    BY <1>c, <1>6, EvaluateStep DEF Flipped
  <2>2. Awaiting /\ (fault' = "none" => fault = "none") /\ lpc' \in {"sleep", "failed", "done"}
        /\ UNCHANGED <<current, plane, goal>>
    BY <1>6, EvaluateStep
  <2> QED  BY <1>k, <2>1, <2>2 DEF Awaiting, Tailing
<1>7. CASE Sleep
  BY <1>k, <1>7 DEF Sleep, Fail, Awaiting, Tailing
<1>8. CASE Revoke /\ lpc' = "failed"
  BY <1>k, <1>8 DEF Revoke, Fail, Awaiting, Tailing
<1>9. CASE TailFailed \/ TailDone
  <2>1. lpc' = "idle" /\ Tailing /\ UNCHANGED <<plane, fault>>
        /\ (fault = "none" => lpc = "done")
    BY <1>9 DEF TailFailed, TailDone, Tailing, Inv, Placed
  <2>2. Swapped' /\ ~Awaiting'
    BY <2>1 DEF Swapped, Tailing, Awaiting
  <2>3. Current'
    BY <1>s, <1>c, <2>1 DEF Current, Swapped, Flipped, OnPanel, Tailing
  <2> QED  BY <1>s, <1>n, <2>1, <2>2, <2>3 DEF Shown
<1> QED  BY <1>1, <1>2, <1>3, <1>4, <1>5, <1>6, <1>7, <1>8, <1>9 DEF Still

(* The steps of the driver that fill a slot and hand it over.              *)
LEMMA ShownWriting ==
    ASSUME Inv, Shown, (Revoke /\ lpc' # "failed") \/ WriteWord \/ CommitRequest
    PROVE  Shown'
<1>f. UNCHANGED <<rsps, gram, active, drawn, completed>> /\ Working' = Working
  BY WritingFrame DEF Working
<1>c. Swapped /\ Current /\ Copying
  BY DEF Shown
<1>k. ASSUME UNCHANGED <<current, plane, fault>>, Tailing, Tailing', Source' = Source
      PROVE  Swapped' /\ Current'
  BY <1>f, <1>c, <1>k DEF Swapped, Current, Tailing
<1>w. ASSUME lpc' \in {"write", "commit"} PROVE Copies' /\ Streamed' /\ Flipped' /\ Tailing'
  BY <1>w DEF Copies, Streamed, Flipped, Awaiting, Tailing
<1>1. CASE Revoke /\ lpc' # "failed"
  <2>1. Tailing /\ lpc' = "write" /\ UNCHANGED <<current, plane, fault>> /\ Source' = Source
    BY <1>1, RevokeStep DEF Tailing
  <2>2. \A i \in DOMAIN Source : Cells[i] \in words'
    BY <1>1, RevokeStep DEF Damaged
  <2>3. Copying'
    BY <2>1, <2>2 DEF Copying
  <2> QED  BY <1>k, <1>w, <2>1, <2>3 DEF Shown
<1>2. CASE WriteWord
  <2>1. PICK w \in words :
           /\ lpc = "write" /\ current \in Commits
           /\ words' = words \ {w}
           /\ lpc' = IF words = {w} THEN "commit" ELSE "write"
           /\ \/ w \in RecordWords /\ UNCHANGED cells
              \/ /\ w \in Damaged \ RecordWords
                 /\ cells' = [cells EXCEPT ![Slot] = [cells[Slot] EXCEPT ![w] = Pixel(w)]]
           /\ UNCHANGED <<current, plane, fault>>
           /\ Slot' = Slot /\ Source' = Source
    BY <1>2, WriteStep
  <2>2. Slot \in Slots /\ cells \in [Slots -> [CellNames -> Values]]
    BY SlotFacts DEF Inv, MemoryTyped
  <2>3. \A c : Pixel(c)' = Pixel(c)
    BY <2>1 DEF Pixel
  <2>4. ASSUME NEW i \in DOMAIN Source
        PROVE  Cells[i] \in words' \/ Copied(i)'
    <3>1. Cells[i] \in words \/ Copied(i)
      BY <1>c, <2>1 DEF Copying, Writing
    <3>2. Cells[i] \in CellNames
      BY <2>1, SourceFacts DEF Damaged
    <3>3. Cells[i] \notin RecordWords
      BY <3>2 DEF CellNames, RecordWords
    <3>4. CASE w \in RecordWords /\ UNCHANGED cells
      BY <2>1, <2>3, <3>1, <3>3, <3>4 DEF Copied
    <3>5. CASE cells' = [cells EXCEPT ![Slot] = [cells[Slot] EXCEPT ![w] = Pixel(w)]]
      <4>1. cells'[Slot] = [cells[Slot] EXCEPT ![w] = Pixel(w)] /\ cells[Slot] \in [CellNames -> Values]
        BY <2>2, <3>5
      <4>2. cells'[Slot][Cells[i]] = IF Cells[i] = w THEN Pixel(w) ELSE cells[Slot][Cells[i]]
        BY <3>2, <4>1
      <4> QED  BY <2>1, <2>3, <3>1, <4>2 DEF Copied
    <3> QED  BY <2>1, <3>4, <3>5
  <2>5. lpc' \in {"write", "commit"} /\ Tailing
    BY <2>1 DEF Tailing
  <2>6. Copying'
    BY <2>1, <2>4 DEF Copying
  <2> QED  BY <1>k, <1>w, <2>1, <2>5, <2>6 DEF Shown
<1>3. CASE CommitRequest
  <2>1. /\ Slot \in Slots /\ reqs \in [Slots -> Record] /\ sequence \in [Slots -> Sequences32]
    BY SlotFacts DEF Inv, MemoryTyped, DriverTyped
  <2>2. completed[Slot] = sequence[Slot]
    BY <1>3, <2>1, HandOverStep DEF Inv, Placed, Matched, Awaiting
  <2>3. reqs[Slot].body = Request.body
    BY <1>3, HandOverStep DEF Inv, Requests, Writing, RecordWords
  <2>4. reqs'[Slot].body.rect = Source
    <3>1. reqs'[Slot] = [reqs[Slot] EXCEPT !.commit = Request.body.number]
      BY <1>3, <2>1, HandOverStep
    <3>2. reqs'[Slot].body = reqs[Slot].body
      BY <2>1, <3>1 DEF Record
    <3>3. Request.body.rect = Source
      BY DEF Request
    <3> QED  BY <2>3, <3>2, <3>3
  <2>5. completed[Slot] # sequence'[Slot]
    BY <1>3, <2>1, <2>2, HandOverStep, RequestFacts DEF Inv
  <2>6. ~Working'
    BY <1>f, <1>3, HandOverStep, NotTouched DEF Awaiting
  <2>7. UNCHANGED <<cells, current, plane, fault>> /\ Slot' = Slot /\ Source' = Source
        /\ lpc = "commit" /\ lpc' = "wait" /\ words = {}
    BY <1>3, HandOverStep
  <2>8. \A i \in DOMAIN Source : Copied(i)'
    BY <1>c, <2>7 DEF Copying, Writing, Copied, Pixel
  <2>9. Copies' /\ Streamed' /\ Flipped' /\ Copying' /\ Tailing /\ Tailing'
    BY <1>f, <2>4, <2>5, <2>6, <2>7, <2>8 DEF Copies, Streamed, Flipped, Copying, Writing, Tailing
  <2> QED  BY <1>k, <2>7, <2>9 DEF Shown
<1> QED  BY <1>1, <1>2, <1>3

(* When the driver sends the flip event of an enabled frame, the panel     *)
(* shows this frame: wait_slot has seen the completion of the request, and *)
(* what the damage left out was on the panel before (lcd_commit_tail).     *)
THEOREM Visible ==
    ASSUME ~(Retained /\ MayPanic)
    PROVE  Spec => []FlipShowsFrame
<1>0. Unbound => Shown
  BY Zenon DEF Unbound, Shown, Swapped, Current, Copying, Copies, Streamed, Flipped, Awaiting, Writing, Tailing
<1>1. Init => Shown
  <2>1. Init => Unbound
    BY DEF Init, Unbound
  <2> QED  BY <1>0, <2>1
<1>2. Inv /\ Shown /\ [Next]_vars => Shown'
  <2> SUFFICES ASSUME Inv, Shown, [Next]_vars PROVE Shown'
    OBVIOUS
  <2>1. CASE FirmwareStep
    BY <2>1, ShownFirmware
  <2>2. CASE Still
    BY <2>2, ShownStill
  <2>3. CASE (Revoke /\ lpc' # "failed") \/ WriteWord \/ CommitRequest
    BY <2>3, ShownWriting
  <2>4. CASE WarmReset \/ ColdReset
    <3>1. Unbound'
      BY <2>4 DEF WarmReset, ColdReset, Restart, Unbound
    <3>2. Unbound' => Shown'
      BY <1>0, PTL
    <3> QED  BY <3>1, <3>2
  <2>5. CASE UNCHANGED vars
    <3>1. /\ UNCHANGED <<reqs, rsps, cells, gram, active, drawn, completed>>
          /\ UNCHANGED <<lpc, current, plane, sequence, nextSlot, goal, words, fault>>
      BY <2>5 DEF vars, memory, firmware, driver
    <3>2. /\ Working' = Working /\ OnPanel' = OnPanel
          /\ Slot' = Slot /\ Source' = Source /\ Awaiting' = Awaiting /\ Writing' = Writing
          /\ Tailing' = Tailing /\ \A i : Copied(i)' = Copied(i)
      BY <3>1, Framed DEF Working, OnPanel
    <3>3. Swapped' /\ Current' /\ Copying' /\ Copies'
      BY Zenon, <3>1, <3>2 DEF Shown, Swapped, Current, Copying, Copies
    <3>4. Streamed' /\ Flipped'
      BY Zenon, <3>1, <3>2 DEF Shown, Streamed, Flipped
    <3> QED  BY <3>3, <3>4 DEF Shown
  <2> QED  BY <2>1, <2>2, <2>3, <2>4, <2>5 DEF Next, Still, TailStep
<1>3. Shown => FlipShowsFrame
  BY DEF Shown, Flipped, OnPanel, FlipShowsFrame
<1> QED  BY <1>1, <1>2, <1>3, InvInit, InvNext, PTL DEF Spec
=============================================================================
