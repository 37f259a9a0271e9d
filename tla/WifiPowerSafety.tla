--------------------------- MODULE WifiPowerSafety ---------------------------
(***************************************************************************)
(* Commands are executed in order and reported truthfully, and power is    *)
(* cycled, for every bound on sequences, when the DDR contents do not      *)
(* survive a reset.                                                        *)
(*                                                                         *)
(* None of the properties is inductive.  AppliedAsPublished needs the      *)
(* shape of the request record at every point of the copy, and that the    *)
(* driver starts a new copy only when the firmware is done with the old    *)
(* command; that in turn needs that no completion the driver can read, in  *)
(* DDR or in a half-taken snapshot, is ahead of the firmware.  This is     *)
(* SafetyInv of WifiPowerProofs.  PowerCycled also needs that the line has *)
(* rested as long as a command to switch on may still be executed.         *)
(***************************************************************************)
EXTENDS WifiPowerProofs

(* Moving a word of the request preserves the invariant.                   *)
LEMMA SafetyCopy == TypeInv /\ SafetyInv /\ CopyRequestWord => SafetyInv'
<1> SUFFICES ASSUME TypeInv, SafetyInv, CopyRequestWord PROVE SafetyInv'
  OBVIOUS
<1>1. PICK w \in words :
        /\ req' = [req EXCEPT ![w] = Request[w]]
        /\ words' = words \ {w}
        /\ lpc' = IF words = {w} THEN "commit" ELSE "copy"
  BY Zenon DEF CopyRequestWord
<1>2. /\ lpc = "copy"
      /\ UNCHANGED <<rsp, firmware, bound, sequence, enabled, fault, todo, snaps, published, applied>>
  BY DEF CopyRequestWord, history
<1>3. UNCHANGED <<generation, service, completed, answer, latch>>  BY <1>2 DEF firmware
<1>4. Numbered'  BY <1>1, <1>2 DEF SafetyInv, Numbered
<1>5. LastRequest' = LastRequest /\ Request' = Request
  BY <1>2, <1>3 DEF LastRequest, Request
<1>6. \A v \in Words : req'[v] = IF v \in words' THEN LastRequest[v] ELSE Request[v]
  <2>1. \A v \in Words : req[v] = IF v \in words THEN LastRequest[v] ELSE Request[v]
    BY <1>2 DEF SafetyInv, RequestShape
  <2>2. DOMAIN req = Words /\ words \subseteq Words
    BY Zenon DEF TypeInv, TypeOK, MemoryType, DriverType, Record, Words
  <2> QED  BY <1>1, <2>1, <2>2
<1>7. RequestShape'
  <2>1. CASE lpc' = "copy"  BY <1>5, <1>6, <2>1 DEF RequestShape
  <2>2. CASE lpc' = "commit"
    <3>1. words' = {}  BY <1>1, <2>2
    <3>2. req' \in Record
      <4>1. todo # <<>>  BY <1>2 DEF TypeInv
      <4> QED
        BY Zenon, <1>1, <4>1, RequestRecord, WordMove DEF TypeInv, TypeOK, MemoryType, DriverType
    <3>3. /\ req'.identity = Request.identity
          /\ req'.command = Request.command
          /\ req'.commit = Request.commit
      BY <1>6, <3>1 DEF Words
    <3>4. req' = Request  BY <3>2, <3>3 DEF Record, Request
    <3> QED  BY <1>5, <2>2, <3>4 DEF RequestShape
  <2> QED  BY <1>1, <2>1, <2>2
<1>8. Executed'  BY SMTT(30), <1>1, <1>2, <1>3 DEF SafetyInv, Executed
<1>9. Answers'  BY <1>1, <1>2, <1>3 DEF SafetyInv, Answers, Truthful
<1>10. ReportedIsDriven'  BY <1>1 DEF ReportedIsDriven
<1> QED  BY SMTT(30), <1>4, <1>7, <1>8, <1>9, <1>10 DEF SafetyInv

(* Committing the request preserves the invariant.                         *)
LEMMA SafetyCommit == TypeInv /\ SafetyInv /\ CommitRequest => SafetyInv'
<1> SUFFICES ASSUME TypeInv, SafetyInv, CommitRequest PROVE SafetyInv'
  OBVIOUS
<1>1. /\ lpc = "commit" /\ lpc' = "wait"
      /\ req' = [req EXCEPT !.commit = sequence]
      /\ published' = Append(published, Request.command)
      /\ UNCHANGED <<rsp, firmware, bound, sequence, fault, snaps, applied>>
  BY DEF CommitRequest
<1>2. UNCHANGED <<generation, service, completed, answer, latch>>  BY <1>1 DEF firmware
<1>3. /\ published \in Seq(Command) /\ Request.command \in Command
      /\ Request.command.sequence = sequence /\ Request.identity = generation
  <2>1. Request \in Record  BY <1>1, RequestRecord DEF TypeInv
  <2> QED  BY <2>1, RecordSequence DEF TypeInv, TypeOK, HistoryType, Request
<1>4. sequence = Len(published) + 1 /\ req = Request /\ completed = Len(published)
      /\ fault = "none"
  BY <1>1 DEF SafetyInv, Numbered, RequestShape, Executed
<1>5. /\ Len(published') = Len(published) + 1 /\ Len(published) \in Nat /\ published' # <<>>
      /\ published'[Len(published')] = Request.command
      /\ \A i \in 1 .. Len(published) : published'[i] = published[i]
  BY <1>1, <1>3
<1>6. Numbered'
  <2>1. \A i \in 1 .. Len(published) : published[i].sequence = i  BY DEF SafetyInv, Numbered
  <2> QED  BY SMTT(30), <1>1, <1>3, <1>4, <1>5, <2>1 DEF Numbered
<1>7. RequestShape'
  BY <1>1, <1>2, <1>4, <1>5 DEF RequestShape, LastRequest, Request
<1>8. Executed'
  <2>1. /\ completed = Len(applied) /\ Len(applied) = Len(published)
        /\ \A i \in 1 .. Len(applied) : applied[i] = published[i]
    BY <1>4 DEF SafetyInv, Executed
  <2> QED  BY SMTT(30), <1>1, <1>2, <1>4, <1>5, <2>1 DEF Executed
<1>9. Answers'  BY <1>1, <1>2, <1>5 DEF SafetyInv, Answers, Truthful
<1>10. ReportedIsDriven'  BY <1>1 DEF ReportedIsDriven
<1> QED  BY <1>6, <1>7, <1>8, <1>9, <1>10 DEF SafetyInv

(* An acknowledgement the driver accepts is the firmware's answer to the   *)
(* last command, and tells the level of the line.                          *)
LEMMA AcknowledgedIsDone ==
    ASSUME TypeInv, SafetyInv, lpc = "second", Acknowledged
    PROVE  /\ completed = Len(published)
           /\ snaps["first"].command.enabled = Head(todo)
                 => latch = Level(Head(todo)) /\ Head(todo) \in {Off, On}
<1>1. /\ snaps["first"].command.sequence = sequence
      /\ snaps["first"].command.sequence <= completed
      /\ sequence = Len(published) /\ completed = Len(applied)
      /\ Len(applied) <= Len(published) /\ published # <<>>
  BY DEF Acknowledged, SafetyInv, Answers, Truthful, Numbered, Executed
<1>2. Len(applied) \in Nat /\ Len(published) \in Nat /\ Len(published) # 0
  BY <1>1 DEF TypeInv, TypeOK, HistoryType
<1>3. completed = Len(published) /\ completed = sequence /\ completed # 0
  BY <1>1, <1>2
<1>4. Head(todo) \in {Off, On}  BY TodoTail DEF TypeInv, TypeOK, DriverType
<1>5. ASSUME snaps["first"].command.enabled = Head(todo) PROVE latch = Level(Head(todo))
  BY <1>1, <1>3, <1>4, <1>5 DEF SafetyInv, Answers, Truthful, Off, On, Failed
<1> QED  BY SMTT(30), <1>3, <1>4, <1>5

(* The steps of the acknowledgement loop preserve the invariant.           *)
LEMMA SafetyWait ==
    TypeInv /\ SafetyInv /\ (WaitCheck \/ ReadFirst \/ ReadSecond \/ DeadlineCheck) => SafetyInv'
<1> SUFFICES ASSUME TypeInv, SafetyInv, WaitCheck \/ ReadFirst \/ ReadSecond \/ DeadlineCheck
             PROVE  SafetyInv'
  OBVIOUS
<1>1. /\ lpc \in {"wait", "first", "second", "deadline"}
      /\ UNCHANGED <<req, rsp, firmware, published, applied, sequence, bound>>
  BY DEF WaitCheck, ReadFirst, ReadSecond, DeadlineCheck, memory, history
<1>2. fault = "none" /\ published # <<>>  BY Zenon, <1>1 DEF SafetyInv, Executed, Answers
<1>3. completed' = completed /\ latch' = latch  BY <1>1 DEF firmware
<1>4. Truthful(snaps["first"])' /\ Truthful(snaps["second"])'
  <2>1. Truthful(snaps["first"]) /\ Truthful(snaps["second"]) /\ Truthful(rsp)
    BY Zenon DEF SafetyInv, Answers
  <2>2. CASE snaps' = snaps  BY <1>3, <2>1, <2>2 DEF Truthful
  <2>3. ASSUME NEW n \in {"first", "second"}, ReadWord(n)
        PROVE  Truthful(snaps["first"])' /\ Truthful(snaps["second"])'
    <3>1. PICK w \in words : snaps' = [snaps EXCEPT ![n][w] = rsp[w]]
      BY Zenon, <2>3 DEF ReadWord
    <3>2. /\ snaps["first"] \in Record /\ snaps["second"] \in Record /\ w \in Words
          /\ snaps \in [{"first", "second"} -> Record]
      BY Zenon DEF TypeInv, TypeOK, DriverType
    <3>3. \A m \in {"first", "second"} : snaps'[m].command \in {snaps[m].command, rsp.command}
      BY <3>1, <3>2 DEF Record, Words
    <3> QED  BY <1>3, <2>1, <3>3 DEF Truthful
  <2> QED  BY <2>2, <2>3 DEF WaitCheck, ReadFirst, ReadSecond, DeadlineCheck
<1>5. ASSUME NEW e, e # "none", Fail(e) PROVE SafetyInv'
  BY <1>1, <1>4, <1>5, SafetyFail DEF Quiet
<1>6. ASSUME fault' = fault, lpc' \in {"wait", "first", "second", "deadline"} PROVE SafetyInv'
  BY <1>1, <1>2, <1>4, <1>6, SafetyMove DEF Quiet
<1>7. CASE WaitCheck      BY <1>5, <1>6, <1>7 DEF WaitCheck
<1>8. CASE ReadFirst      BY <1>6, <1>8 DEF ReadFirst
<1>9. CASE ReadSecond     BY <1>6, <1>9 DEF ReadSecond
<1>10. CASE DeadlineCheck  BY <1>5, <1>6, <1>10 DEF DeadlineCheck
<1> QED  BY <1>7, <1>8, <1>9, <1>10

(* Taking up an acknowledgement preserves the invariant.                   *)
LEMMA SafetyEvaluate == TypeInv /\ SafetyInv /\ Evaluate => SafetyInv'
<1> SUFFICES ASSUME TypeInv, SafetyInv, Evaluate PROVE SafetyInv'
  OBVIOUS
<1>1. /\ lpc = "second"
      /\ UNCHANGED <<req, rsp, firmware, published, applied, sequence, bound>>
      /\ snaps' = [n \in {"first", "second"} |-> Blank]
  BY Zenon DEF Evaluate, memory, history
<1>2. fault = "none" /\ published # <<>>  BY <1>1 DEF SafetyInv, Executed, Answers
<1>3. UNCHANGED <<generation, service, completed, answer, latch>>  BY <1>1 DEF firmware
<1>4. Truthful(snaps["first"])' /\ Truthful(snaps["second"])'
  <2>1. completed \in Nat  BY DEF TypeInv, TypeOK, FirmwareType, Sequences32
  <2> QED  BY <1>1, <1>3, <2>1 DEF Truthful, Blank
<1>5. CASE ~Acknowledged
  BY Zenon, <1>1, <1>2, <1>4, <1>5, SafetyMove DEF Evaluate, Quiet
<1>6. CASE Acknowledged /\ ~Honoured
  <2>1. Fail("EIO")  BY ZenonT(30), <1>6 DEF Evaluate
  <2> QED  BY <1>1, <1>4, <2>1, SafetyFail DEF Quiet
<1>7. CASE Acknowledged /\ Honoured
  <2>1. /\ enabled' = (Head(todo) = On) /\ fault' = fault
        /\ lpc' = IF Tail(todo) # <<>> THEN "off time" ELSE IF bound THEN "idle" ELSE "register"
    BY Zenon, <1>7 DEF Evaluate
  <2>2. completed = Len(published) /\ latch = Level(Head(todo)) /\ Head(todo) \in {Off, On}
    BY <1>1, <1>7, AcknowledgedIsDone DEF Honoured
  <2>3. lpc' \in {"off time", "idle", "register"} /\ (lpc' = "idle" => bound)  BY Zenon, <2>1
  <2>4. Numbered'  BY Zenon, <1>1, <2>3 DEF SafetyInv, Numbered
  <2>5. RequestShape'  BY Zenon, <1>1, <1>3, <2>3 DEF SafetyInv, RequestShape, LastRequest
  <2>6. Executed'  BY ZenonT(30), <1>1, <1>2, <1>3, <2>1, <2>2 DEF SafetyInv, Executed
  <2>7. Answers'  BY Zenon, <1>1, <1>2, <1>3, <1>4, <2>3 DEF SafetyInv, Answers, Truthful
  <2>8. latch' = IF enabled' THEN "on" ELSE "off"
    BY Zenon, <1>3, <2>1, <2>2 DEF Level, Off, On
  <2>9. ReportedIsDriven'  BY Zenon, <2>8 DEF ReportedIsDriven
  <2> QED  BY <2>4, <2>5, <2>6, <2>7, <2>9 DEF SafetyInv
<1> QED  BY <1>5, <1>6, <1>7

(* The end of the off time and of the probe preserve the invariant.        *)
LEMMA SafetyEnd == TypeInv /\ SafetyInv /\ (OffTime \/ Register) => SafetyInv'
<1> SUFFICES ASSUME TypeInv, SafetyInv, OffTime \/ Register PROVE SafetyInv'
  OBVIOUS
<1>1. /\ lpc \in {"off time", "register"}
      /\ UNCHANGED <<req, rsp, firmware, published, applied, sequence, fault, snaps, enabled>>
  BY Zenon DEF OffTime, Register, memory, history
<1>2. fault = "none" /\ published # <<>> /\ completed = Len(published)
  BY Zenon, <1>1 DEF SafetyInv, Executed, Answers
<1>3. UNCHANGED <<generation, service, completed, answer, latch>>  BY Zenon, <1>1 DEF firmware
<1>4. lpc' \in {"enter", "idle", "unbound"} /\ (lpc' = "idle" => bound')
  BY Zenon DEF OffTime, Register
<1>5. Numbered'  BY Zenon, <1>1, <1>4 DEF SafetyInv, Numbered
<1>6. RequestShape'  BY Zenon, <1>1, <1>3, <1>4 DEF SafetyInv, RequestShape, LastRequest
<1>7. Executed'  BY ZenonT(30), <1>1, <1>2, <1>3, <1>4 DEF SafetyInv, Executed
<1>8. Answers'  BY Zenon, <1>1, <1>2, <1>3, <1>4 DEF SafetyInv, Answers, Truthful
<1>9. ReportedIsDriven'  BY Zenon, <1>1, <1>3 DEF SafetyInv, ReportedIsDriven
<1> QED  BY SMTT(30), <1>5, <1>6, <1>7, <1>8, <1>9 DEF SafetyInv

(* The calls into the driver preserve the invariant; a bind finds no       *)
(* command of this boot.                                                   *)
LEMMA SafetyCalls ==
    TypeInv /\ SafetyInv /\ (Probe \/ PowerEnable \/ PowerDisable) => SafetyInv'
<1> SUFFICES ASSUME TypeInv, SafetyInv, Probe \/ PowerEnable \/ PowerDisable
             PROVE  SafetyInv'
  OBVIOUS
<1>1. /\ lpc \in {"unbound", "idle"} /\ lpc' = "enter"
      /\ UNCHANGED <<req, rsp, firmware, published, applied, snaps, bound>>
  BY DEF Probe, PowerEnable, PowerDisable, memory, history
<1>2. UNCHANGED <<generation, service, completed, answer, latch>>  BY <1>1 DEF firmware
<1>3. CASE Probe
  <2>1. published = <<>>
    <3> SUFFICES ASSUME published # <<>> PROVE FALSE
      OBVIOUS
    <3>1. req = LastRequest  BY <1>1 DEF SafetyInv, RequestShape
    <3>2. Len(published) \in Nat \ {0}  BY DEF TypeInv, TypeOK, HistoryType
    <3>3. published[Len(published)].sequence = Len(published)
      BY <3>2 DEF SafetyInv, Numbered
    <3> QED  BY <1>3, <3>1, <3>2, <3>3 DEF Probe, EarlierRequest, LastRequest
  <2>2. Len(published) = 0 /\ completed = 0
    <3>1. Len(published) = 0  BY <2>1
    <3>2. completed = Len(applied) /\ Len(applied) <= Len(published) /\ Len(applied) \in Nat
      BY DEF SafetyInv, Executed, TypeInv, TypeOK, HistoryType
    <3> QED  BY <3>1, <3>2
  <2>3. sequence' = 0 /\ fault' = "none"  BY <1>3 DEF Probe
  <2>4. Numbered'  BY <1>1, <2>2, <2>3 DEF Numbered
  <2>5. RequestShape'  BY <1>1, <1>2 DEF SafetyInv, RequestShape, LastRequest
  <2>6. Executed'  BY SMTT(30), <1>1, <1>2, <2>2, <2>3 DEF SafetyInv, Executed
  <2>7. Answers'  BY Zenon, <1>1, <1>2 DEF SafetyInv, Answers, Truthful
  <2>8. ReportedIsDriven'  BY SMTT(30), <1>1 DEF ReportedIsDriven
  <2> QED  BY SMTT(30), <2>4, <2>5, <2>6, <2>7, <2>8 DEF SafetyInv
<1>4. CASE PowerEnable \/ PowerDisable
  <2>1. UNCHANGED <<sequence, fault>>  BY <1>4 DEF PowerEnable, PowerDisable
  <2>2. Numbered'  BY SMTT(30), <1>1, <2>1 DEF SafetyInv, Numbered
  <2>3. RequestShape'  BY <1>1, <1>2 DEF SafetyInv, RequestShape, LastRequest
  <2>4. Executed'  BY SMTT(30), <1>1, <1>2, <2>1 DEF SafetyInv, Executed
  <2>5. Answers'  BY Zenon, <1>1, <1>2 DEF SafetyInv, Answers, Truthful
  <2>6. ReportedIsDriven'  BY <1>1 DEF ReportedIsDriven
  <2> QED  BY <2>2, <2>3, <2>4, <2>5, <2>6 DEF SafetyInv
<1> QED  BY <1>3, <1>4

(* A reset that clears the DDR restores the invariant.                     *)
LEMMA SafetyColdReset == ColdReset => SafetyInv'
<1> SUFFICES ASSUME ColdReset PROVE SafetyInv'
  OBVIOUS
<1> USE DEF ColdReset, Restart
<1>1. Len(published') = 0 /\ Len(applied') = 0  OBVIOUS
<1>2. Numbered'          BY <1>1 DEF Numbered
<1>3. RequestShape'      BY DEF RequestShape, LastRequest
<1>4. Executed'          BY <1>1 DEF Executed
<1>5. Answers'           BY DEF Answers, Truthful, Blank
<1>6. ReportedIsDriven'  BY DEF ReportedIsDriven
<1> QED  BY <1>2, <1>3, <1>4, <1>5, <1>6 DEF SafetyInv

(* Steps that change nothing the invariant speaks of.                      *)
LEMMA SafetyStutter == SafetyInv /\ (Expire \/ UNCHANGED vars) => SafetyInv'
<1> SUFFICES ASSUME SafetyInv, Expire \/ UNCHANGED vars PROVE SafetyInv'
  OBVIOUS
<1>1. /\ UNCHANGED <<req, rsp, generation, service, completed, answer, latch, published, applied>>
      /\ UNCHANGED <<lpc, sequence, fault, words, todo, snaps>>
  BY DEF Expire, vars, memory, firmware, driver, history
<1>2. bound' = bound /\ enabled' = enabled  BY DEF Expire, vars, driver
<1>3. Numbered' /\ RequestShape'
  BY SMTT(30), <1>1 DEF SafetyInv, Numbered, RequestShape, LastRequest, Request
<1>4. Executed'  BY <1>1 DEF SafetyInv, Executed
<1>5. Answers'   BY Zenon, <1>1, <1>2 DEF SafetyInv, Answers, Truthful
<1>6. ReportedIsDriven'  BY Zenon, <1>1, <1>2 DEF SafetyInv, ReportedIsDriven
<1> QED  BY <1>3, <1>4, <1>5, <1>6 DEF SafetyInv

(* Without retained DDR every step preserves the invariant.                *)
LEMMA SafetyNext ==
    ASSUME ~Retained
    PROVE  TypeInv /\ SafetyInv /\ [Next]_vars => SafetyInv'
<1> SUFFICES ASSUME TypeInv, SafetyInv, [Next]_vars PROVE SafetyInv'
  OBVIOUS
<1>1. CASE FirmwareStep  BY <1>1, SafetyFirmware
<1>2. CASE CallStep
  BY SMTT(30), <1>2, SafetyBefore, SafetyCopy, SafetyCommit, SafetyWait, SafetyEvaluate, SafetyEnd
     DEF CallStep
<1>3. CASE Probe \/ PowerEnable \/ PowerDisable  BY <1>3, SafetyCalls
<1>4. CASE Expire \/ UNCHANGED vars  BY <1>4, SafetyStutter
<1>5. CASE WarmReset  BY <1>5 DEF WarmReset
<1>6. CASE ColdReset  BY <1>6, SafetyColdReset
<1> QED  BY SMTT(30), <1>1, <1>2, <1>3, <1>4, <1>5, <1>6 DEF Next, DriverStep

(* When the DDR contents do not survive a reset, the firmware executes     *)
(* exactly the commands the driver committed, in their order, at most once *)
(* and none skipped, whatever the sequence limit and with panics           *)
(* (wifi_power::process against set_power_locked).                         *)
THEOREM InOrder ==
    ASSUME ~Retained
    PROVE  Spec => []AppliedAsPublished
<1>1. TypeInv /\ SafetyInv => AppliedAsPublished
  <2> SUFFICES ASSUME TypeInv, SafetyInv PROVE AppliedAsPublished
    OBVIOUS
  <2>1. applied \in Seq(Command) /\ published \in Seq(Command)
    BY DEF TypeInv, TypeOK, HistoryType
  <2>2. Len(applied) <= Len(published) /\ \A i \in 1 .. Len(applied) : applied[i] = published[i]
    BY DEF SafetyInv, Executed
  <2> QED  BY <2>1, <2>2, PrefixPointwise DEF AppliedAsPublished
<1> QED  BY TypeInit, SafetyInit, TypeNext, SafetyNext, <1>1, PTL DEF Spec

(* Under the same assumption, the provider without a fault reports the     *)
(* level the line has (set_power_locked, power_is_enabled).                *)
THEOREM Truth ==
    ASSUME ~Retained
    PROVE  Spec => []ReportedIsDriven
<1>1. SafetyInv => ReportedIsDriven  BY DEF SafetyInv
<1> QED  BY TypeInit, SafetyInit, TypeNext, SafetyNext, <1>1, PTL DEF Spec

(* The request record is only written during a copy, a commit or a reset.  *)
LEMMA RequestWritten ==
    ASSUME [Next]_vars, req' # req, published' # <<>>
    PROVE  lpc \in {"copy", "commit"} /\ UNCHANGED applied
<1>1. ASSUME FirmwareStep PROVE UNCHANGED req
  <2>1. Authorize => UNCHANGED req  BY DEF Authorize, memory
  <2>2. Construct => UNCHANGED req  BY DEF Construct, memory
  <2>3. FirstSnapshot => UNCHANGED req  BY DEF FirstSnapshot, memory
  <2>4. Process => UNCHANGED req  BY DEF Process, memory
  <2>5. Respond => UNCHANGED req  BY DEF Respond, memory
  <2>6. CommitResponse => UNCHANGED req  BY DEF CommitResponse, memory
  <2>7. PanelStep => UNCHANGED req  BY DEF PanelStep, memory
  <2>8. PublishFlag => UNCHANGED req  BY DEF PublishFlag, memory
  <2>9. Panic => UNCHANGED req  BY DEF Panic, memory
  <2> QED  BY SMTT(30), <1>1, <2>1, <2>2, <2>3, <2>4, <2>5, <2>6, <2>7, <2>8, <2>9 DEF FirmwareStep
<1>2. CASE CopyRequestWord \/ CommitRequest
  BY <1>2 DEF CopyRequestWord, CommitRequest, history
<1>3. ASSUME DriverStep PROVE CopyRequestWord \/ CommitRequest \/ UNCHANGED req
  <2>1. Probe => UNCHANGED req  BY DEF Probe, memory
  <2>2. PowerEnable => UNCHANGED req  BY DEF PowerEnable, memory
  <2>3. PowerDisable => UNCHANGED req  BY DEF PowerDisable, memory
  <2>4. Enter => UNCHANGED req  BY DEF Enter, memory
  <2>5. CheckBeforePublish => UNCHANGED req  BY DEF CheckBeforePublish, memory
  <2>6. RetryBeforePublish => UNCHANGED req  BY DEF RetryBeforePublish, memory
  <2>7. WaitCheck => UNCHANGED req  BY DEF WaitCheck, memory
  <2>8. ReadFirst => UNCHANGED req  BY DEF ReadFirst, memory
  <2>9. ReadSecond => UNCHANGED req  BY DEF ReadSecond, memory
  <2>10. Evaluate => UNCHANGED req  BY Zenon DEF Evaluate, memory
  <2>11. DeadlineCheck => UNCHANGED req  BY DEF DeadlineCheck, memory
  <2>12. OffTime => UNCHANGED req  BY Zenon DEF OffTime, memory
  <2>13. Register => UNCHANGED req  BY DEF Register, memory
  <2> QED
    BY SMTT(30), <1>3, <2>1, <2>2, <2>3, <2>4, <2>5, <2>6, <2>7, <2>8, <2>9, <2>10, <2>11, <2>12, <2>13
       DEF DriverStep, CallStep
<1>4. CASE Expire \/ UNCHANGED vars  BY <1>4 DEF Expire, vars, memory
<1>5. CASE WarmReset \/ ColdReset  BY <1>5 DEF WarmReset, ColdReset, Restart
<1> QED  BY <1>1, <1>2, <1>3, <1>4, <1>5 DEF Next

(* Under the same assumption, a request is only overwritten once the       *)
(* firmware has executed it, so a fault retains it until a board reset     *)
(* (set_power_locked, power_probe).                                        *)
THEOREM Retention ==
    ASSUME ~Retained
    PROVE  Spec => RequestRetained
<1>1. TypeInv /\ SafetyInv /\ [Next]_vars
         => (req' # req /\ published' # <<>> => Len(applied) >= Len(published))
  <2> SUFFICES ASSUME TypeInv, SafetyInv, [Next]_vars, req' # req, published' # <<>>
               PROVE  Len(applied) >= Len(published)
    OBVIOUS
  <2>1. lpc \in {"copy", "commit"}  BY RequestWritten
  <2>2. completed = Len(published) /\ completed = Len(applied)
    BY <2>1 DEF SafetyInv, Executed
  <2>3. completed \in Nat  BY DEF TypeInv, TypeOK, FirmwareType, Sequences32
  <2> QED  BY <2>2, <2>3
<1> QED  BY TypeInit, SafetyInit, TypeNext, SafetyNext, <1>1, PTL DEF Spec, RequestRetained

-----------------------------------------------------------------------------
(* The power cycle.                                                        *)

(* The line has rested for as long as a command to switch on is being      *)
(* written, and for as long as one is committed and not executed, even     *)
(* when the driver has given up waiting for it.                            *)
Rested ==
    /\ lpc \in {"enter", "check", "retry", "copy", "commit"} /\ Head(todo) = On
          => rested /\ fault = "none"
    /\ Len(published) > completed /\ published[Len(published)].enabled = On
          => rested

(* A step that neither starts a command nor touches what the firmware and  *)
(* the driver committed keeps the line rested.                             *)
LEMMA RestedQuiet ==
    ASSUME Rested, UNCHANGED <<published, completed, rested>>,
           \/ lpc' \notin {"enter", "check", "retry", "copy", "commit"}
           \/ /\ lpc \in {"enter", "check", "retry", "copy", "commit"}
              /\ UNCHANGED <<todo, fault>>
    PROVE  Rested'
BY DEF Rested

(* Executing a command ends the rest, when no other one is being written.  *)
LEMMA RestedFirmware == TypeInv /\ SafetyInv /\ Rested /\ FirmwareStep => Rested'
<1> SUFFICES ASSUME TypeInv, SafetyInv, Rested, FirmwareStep PROVE Rested'
  OBVIOUS
<1>1. UNCHANGED <<lpc, todo, fault, published>>  BY FirmwareFrame DEF driver
<1>2. CASE UNCHANGED <<completed, rested>>
  BY Zenon, <1>1, <1>2 DEF Rested
<1>3. CASE ~UNCHANGED <<completed, rested>>
  <2>1. Process
    BY <1>3 DEF FirmwareStep, Authorize, Construct, FirstSnapshot, Respond, CommitResponse,
                PanelStep, PublishFlag, Panic, firmware, history
  <2>2. Acceptable(req) /\ completed' = req.command.sequence
    BY <1>3, <2>1 DEF Process
  <2>3. completed' = Len(published)  BY <2>2, AcceptsCommitted
  <2>4. ~(fault = "none" /\ lpc \notin {"wait", "first", "second", "deadline"})
    BY Zenon, <2>2, AcceptsCommitted
  <2>5. Len(published) \in Nat  BY DEF TypeInv, TypeOK, HistoryType
  <2> QED  BY <1>1, <2>3, <2>4, <2>5 DEF Rested
<1> QED  BY <1>2, <1>3

(* A command to switch on is only begun after the off time, and what is    *)
(* committed is what was begun.                                            *)
LEMMA RestedCall == TypeInv /\ SafetyInv /\ Rested /\ CallStep => Rested'
<1> SUFFICES ASSUME TypeInv, SafetyInv, Rested, CallStep PROVE Rested'
  OBVIOUS
<1>1. ASSUME NEW e, Fail(e) PROVE lpc' \in {"idle", "unbound"}
  BY <1>1 DEF Fail, Return
<1>2. CASE Enter
  BY SMTT(30), <1>1, <1>2, RestedQuiet DEF Enter, firmware, history
<1>3. CASE CheckBeforePublish
  BY SMTT(30), <1>1, <1>3, RestedQuiet DEF CheckBeforePublish, firmware, history
<1>4. CASE RetryBeforePublish
  BY SMTT(30), <1>1, <1>4, RestedQuiet DEF RetryBeforePublish, firmware, history
<1>5. CASE CopyRequestWord
  BY SMTT(30), <1>5, RestedQuiet DEF CopyRequestWord, firmware, history
<1>6. CASE CommitRequest
  <2>1. lpc = "commit" /\ lpc' = "wait" /\ UNCHANGED <<completed, rested>>
    BY <1>6 DEF CommitRequest, firmware
  <2>2. published' = Append(published, [sequence |-> sequence, enabled |-> Head(todo)])
    BY <1>6 DEF CommitRequest, Request
  <2>3. published'[Len(published')].enabled = Head(todo)
    BY <2>2 DEF TypeInv, TypeOK, HistoryType
  <2>4. Head(todo) = On => rested  BY Zenon, <2>1 DEF Rested
  <2> QED  BY <2>1, <2>3, <2>4 DEF Rested
<1>7. CASE WaitCheck
  BY SMTT(30), <1>1, <1>7, RestedQuiet DEF WaitCheck, firmware, history
<1>8. CASE ReadFirst \/ ReadSecond
  BY SMTT(30), <1>8, RestedQuiet DEF ReadFirst, ReadSecond, firmware, history
<1>9. CASE Evaluate
  <2>1. lpc' \in {"deadline", "off time", "idle", "register", "unbound"}
    BY Zenon, <1>1, <1>9 DEF Evaluate
  <2>2. UNCHANGED <<published, completed, rested>>
    BY Zenon, <1>9 DEF Evaluate, firmware, history
  <2> QED  BY Zenon, <2>1, <2>2, RestedQuiet
<1>10. CASE DeadlineCheck
  BY SMTT(30), <1>1, <1>10, RestedQuiet DEF DeadlineCheck, firmware, history
<1>11. CASE OffTime
  <2>1. rested' = TRUE /\ fault' = fault /\ lpc = "off time"  BY Zenon, <1>11 DEF OffTime
  <2>2. fault = "none"  BY Zenon, <2>1 DEF SafetyInv, Executed
  <2> QED  BY Zenon, <2>1, <2>2 DEF Rested
<1>12. CASE Register
  BY SMTT(30), <1>12, RestedQuiet DEF Register, firmware, history
<1> QED
  BY <1>2, <1>3, <1>4, <1>5, <1>6, <1>7, <1>8, <1>9, <1>10, <1>11, <1>12 DEF CallStep

(* Every step keeps the line rested.                                       *)
LEMMA RestedNext == TypeInv /\ SafetyInv /\ Rested /\ [Next]_vars => Rested'
<1> SUFFICES ASSUME TypeInv, SafetyInv, Rested, [Next]_vars PROVE Rested'
  OBVIOUS
<1>1. CASE FirmwareStep  BY <1>1, RestedFirmware
<1>2. CASE CallStep  BY <1>2, RestedCall
<1>3. CASE Probe \/ PowerEnable \/ PowerDisable
  <2>1. Head(todo') = Off
    BY <1>3 DEF Probe, PowerEnable, PowerDisable, EnableCommands
  <2>2. UNCHANGED <<published, completed, rested>>
    BY <1>3 DEF Probe, PowerEnable, PowerDisable, firmware, history
  <2>3. Head(todo)' # On  BY <2>1 DEF Off, On
  <2> QED  BY <2>2, <2>3 DEF Rested
<1>4. CASE Expire \/ UNCHANGED vars
  <2>1. UNCHANGED <<lpc, todo, fault, published, completed, rested>>
    BY <1>4 DEF Expire, vars, driver, firmware, history
  <2> QED  BY Zenon, <2>1 DEF Rested
<1>5. CASE WarmReset \/ ColdReset
  <2>1. published' = <<>> /\ completed' = 0 /\ lpc' = "unbound"
    BY <1>5 DEF WarmReset, ColdReset, Restart
  <2> QED  BY <2>1 DEF Rested
<1> QED  BY <1>1, <1>2, <1>3, <1>4, <1>5 DEF Next, DriverStep

(* Only the firmware switches the line on, and only for the command the    *)
(* driver committed last.                                                  *)
LEMMA SwitchedOn ==
    ASSUME [Next]_vars, latch' = "on", latch # "on"
    PROVE  Acceptable(req) /\ req.command.enabled = On
<1>1. ASSUME DriverStep \/ Expire \/ UNCHANGED vars PROVE UNCHANGED latch
  BY Zenon, <1>1 DEF DriverStep, Probe, PowerEnable, PowerDisable, CallStep, Enter, CheckBeforePublish,
     RetryBeforePublish, CopyRequestWord, CommitRequest, WaitCheck, ReadFirst, ReadSecond,
     Evaluate, DeadlineCheck, OffTime, Register, Expire, vars, firmware
<1>2. ~WarmReset /\ ~ColdReset  BY DEF WarmReset, ColdReset, Restart
<1>3. FirmwareStep  BY <1>1, <1>2 DEF Next
<1>4. Process
  BY <1>3 DEF FirmwareStep, Authorize, Construct, FirstSnapshot, Respond, CommitResponse,
              PanelStep, PublishFlag, Panic, firmware
<1>5. Acceptable(req) /\ latch' \in {latch, Level(req.command.enabled)}
  BY <1>4 DEF Process
<1> QED  BY Zenon, <1>5 DEF Level

(* Under the same assumption, the line only goes high after a whole        *)
(* power-off interval spent low: no command to switch on, timed out or     *)
(* not, is executed when it was not preceded by the acknowledged off and   *)
(* the sleep of power_enable.                                              *)
THEOREM Cycled ==
    ASSUME ~Retained
    PROVE  Spec => PowerCycled
<1>1. Init => Rested  BY DEF Init, Rested
<1>2. TypeInv /\ SafetyInv /\ Rested /\ [Next]_vars
         => (latch' = "on" /\ latch # "on" => rested)
  <2> SUFFICES ASSUME TypeInv, SafetyInv, Rested, [Next]_vars, latch' = "on", latch # "on"
               PROVE  rested
    OBVIOUS
  <2>1. Acceptable(req) /\ req.command.enabled = On  BY SwitchedOn
  <2>2. req.command = published[Len(published)] /\ Len(published) = completed + 1
    BY <2>1, AcceptsCommitted
  <2>3. completed \in Nat  BY DEF TypeInv, TypeOK, FirmwareType, Sequences32
  <2> QED  BY <2>1, <2>2, <2>3 DEF Rested
<1> QED
  BY TypeInit, SafetyInit, TypeNext, SafetyNext, RestedNext, <1>1, <1>2, PTL DEF Spec, PowerCycled
=============================================================================
