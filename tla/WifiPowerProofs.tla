--------------------------- MODULE WifiPowerProofs ---------------------------
(***************************************************************************)
(* Proofs about WifiPower, for every bound on generations and sequences:   *)
(* the types, and what the firmware and the start of a call contribute to  *)
(* the invariant of WifiPowerSafety.                                       *)
(***************************************************************************)
EXTENDS WifiPower, TLAPS

(* What type correctness needs beside the types: the sequence has room     *)
(* when it is about to grow, and a call in progress has a command left.    *)
TypeInv ==
    /\ TypeOK
    /\ lpc \in {"check", "retry"} => sequence < MaxSequence
    /\ lpc \notin {"unbound", "idle", "register"} => todo # <<>>

-----------------------------------------------------------------------------
(* Records.                                                                *)

(* The empty record is a record.                                           *)
LEMMA BlankRecord == Blank \in Record
BY WifiPowerAssumption DEF Blank, Record, Command, Sequences32, Off, On, Failed

(* Moving one word of a record into another gives a record: the copies of  *)
(* memcpy_toio and memcpy_fromio.                                          *)
LEMMA WordMove ==
    ASSUME NEW r \in Record, NEW s \in Record, NEW w \in Words
    PROVE  [r EXCEPT ![w] = s[w]] \in Record
<1>1. CASE w = "identity"  BY <1>1 DEF Record
<1>2. CASE w = "command"   BY <1>2 DEF Record
<1>3. CASE w = "commit"    BY <1>3 DEF Record
<1> QED  BY <1>1, <1>2, <1>3 DEF Words

-----------------------------------------------------------------------------
(* Type correctness.                                                       *)

(* The initial state has the types.                                        *)
LEMMA TypeInit == Init => TypeInv
<1> SUFFICES ASSUME Init PROVE TypeInv
  OBVIOUS
<1> USE WifiPowerAssumption, BlankRecord DEF Init
<1>1. MemoryType    BY DEF MemoryType
<1>2. FirmwareType  BY DEF FirmwareType, Sequences32
<1>3. DriverType    BY DEF DriverType, Sequences32, Faults
<1>4. FlagType      BY Zenon DEF FlagType
<1>5. HistoryType   BY SMTT(30) DEF HistoryType
<1> QED  BY <1>1, <1>2, <1>3, <1>4, <1>5 DEF TypeInv, TypeOK

(* No firmware step touches the driver, and none but Process the history.  *)
LEMMA FirmwareFrame ==
    FirmwareStep => /\ UNCHANGED <<driver, generation, req, published>>
                    /\ ~Process => UNCHANGED history
BY DEF FirmwareStep, Authorize, Construct, FirstSnapshot, Process, Respond,
       CommitResponse, PanelStep, PublishFlag, Panic, driver, firmware, memory, history

(* Every step of the firmware keeps the types.                             *)
LEMMA TypeFirmware == TypeInv /\ FirmwareStep => TypeInv'
<1> SUFFICES ASSUME TypeInv, FirmwareStep PROVE TypeInv'
  OBVIOUS
<1> USE DEF TypeInv, TypeOK
<1>1. DriverType' /\ TypeInv!2' /\ TypeInv!3'
  BY Zenon, FirmwareFrame DEF DriverType, driver
<1>2. (bound \in BOOLEAN /\ enabled \in BOOLEAN /\ expired \in BOOLEAN)'
  BY FirmwareFrame DEF FlagType, driver
<1>3. ASSUME Process PROVE MemoryType' /\ FirmwareType' /\ HistoryType' /\ (rested \in BOOLEAN)'
  <2> USE <1>3
  <2>1. MemoryType'  BY DEF Process, MemoryType, memory
  <2>a. req.command \in Command /\ req.command.sequence \in Sequences32
    BY DEF MemoryType, Record, Command
  <2>2. ASSUME first = req /\ Acceptable(req) PROVE FirmwareType' /\ HistoryType'
    <3>1. PICK ok \in BOOLEAN :
             /\ latch' \in IF ok THEN {Level(req.command.enabled)}
                                 ELSE {latch, Level(req.command.enabled)}
             /\ answer' = [identity |-> generation,
                           command |-> [req.command EXCEPT
                                          !.enabled = IF ok THEN @ ELSE Failed],
                           commit |-> 0]
      BY <2>2 DEF Process
    <3>2. latch' \in {"undriven", "off", "on"}  BY <3>1 DEF Level, FirmwareType
    <3>3. [req.command EXCEPT !.enabled = IF ok THEN @ ELSE Failed] \in Command
      BY <2>a DEF Command
    <3>4. answer' \in Record
      BY <3>1, <3>3, WifiPowerAssumption DEF Record, FirmwareType, Sequences32
    <3>5. /\ first' = Blank /\ completed' = req.command.sequence
          /\ applied' = Append(applied, req.command) /\ service' = "respond"
          /\ UNCHANGED <<generation, published>>
      BY <2>2 DEF Process
    <3>6. FirmwareType'  BY SMTT(30), <2>a, <3>2, <3>4, <3>5, BlankRecord DEF FirmwareType
    <3>7. HistoryType'  BY <2>a, <3>5 DEF HistoryType
    <3> QED  BY <3>6, <3>7
  <2>3. ASSUME ~(first = req /\ Acceptable(req)) PROVE FirmwareType' /\ HistoryType'
    <3>1. /\ first' = Blank /\ service' = "panel"
          /\ UNCHANGED <<generation, completed, answer, latch, published, applied>>
      BY <2>3 DEF Process
    <3> QED  BY <3>1, BlankRecord DEF FirmwareType, HistoryType
  <2>4. (rested \in BOOLEAN)'  BY ZenonT(30) DEF Process, FlagType
  <2> QED  BY <2>1, <2>2, <2>3, <2>4
<1>4. ASSUME ~Process PROVE HistoryType' /\ (rested \in BOOLEAN)'
  BY <1>4, FirmwareFrame DEF HistoryType, FlagType, history
<1>5. ASSUME ~Process PROVE MemoryType' /\ FirmwareType'
  <2> USE <1>5 DEF MemoryType, FirmwareType
  <2>1. CASE Authorize       BY <2>1 DEF Authorize
  <2>2. CASE Construct       BY <2>2 DEF Construct, memory
  <2>3. CASE FirstSnapshot   BY <2>3 DEF FirstSnapshot, memory
  <2>4. CASE Respond         BY <2>4 DEF Respond
  <2>5. CASE CommitResponse  BY <2>5 DEF CommitResponse, Record, Command
  <2>6. CASE PanelStep       BY <2>6 DEF PanelStep, memory
  <2>7. CASE PublishFlag     BY <2>7 DEF PublishFlag, firmware
  <2>8. CASE Panic           BY <2>8, WifiPowerAssumption DEF Panic
  <2> QED  BY <2>1, <2>2, <2>3, <2>4, <2>5, <2>6, <2>7, <2>8 DEF FirmwareStep
<1> QED  BY <1>1, <1>2, <1>3, <1>4, <1>5 DEF FlagType

(* The commands left to a call stay among those it can have.               *)
LEMMA TodoTail ==
    ASSUME NEW t \in {<<>>, <<Off>>, <<On>>, <<Off, On>>}, t # <<>>
    PROVE  /\ Head(t) \in {Off, On}
           /\ Tail(t) \in {<<>>, <<On>>}
<1>1. CASE t = <<Off>>      BY <1>1
<1>2. CASE t = <<On>>       BY <1>2
<1>3. CASE t = <<Off, On>>  BY <1>3
<1> QED  BY <1>1, <1>2, <1>3

(* The record the driver writes is a record.                               *)
LEMMA RequestRecord == TypeInv /\ todo # <<>> => Request \in Record
<1> SUFFICES ASSUME TypeInv, todo # <<>> PROVE Request \in Record
  OBVIOUS
<1>1. Head(todo) \in {Off, On}  BY Zenon, TodoTail DEF TypeInv, TypeOK, DriverType
<1>2. [sequence |-> sequence, enabled |-> Head(todo)] \in Command
  BY Zenon, <1>1 DEF TypeInv, TypeOK, DriverType, Command
<1> QED
  BY <1>2, WifiPowerAssumption
     DEF TypeInv, TypeOK, FirmwareType, Request, Record, Sequences32

(* One word of a snapshot is read.                                         *)
LEMMA SnapshotWord ==
    ASSUME TypeInv, NEW n \in {"first", "second"}, ReadWord(n)
    PROVE  snaps' \in [{"first", "second"} -> Record] /\ words' \in SUBSET Words
<1>1. PICK w \in words : /\ snaps' = [snaps EXCEPT ![n][w] = rsp[w]]
                         /\ words' = words \ {w}
  BY ZenonT(30) DEF ReadWord
<1>2. [snaps[n] EXCEPT ![w] = rsp[w]] \in Record
  BY Zenon, WordMove DEF TypeInv, TypeOK, MemoryType, DriverType
<1> QED  BY Zenon, <1>1, <1>2 DEF TypeInv, TypeOK, DriverType

(* Every step of a driver call keeps the types.                            *)
LEMMA TypeCall == TypeInv /\ CallStep => TypeInv'
<1> SUFFICES ASSUME TypeInv, CallStep PROVE TypeInv'
  OBVIOUS
<1> USE DEF TypeInv, TypeOK
<1>1. MemoryType' /\ FirmwareType'
  <2>1. UNCHANGED firmware
    BY Zenon DEF CallStep, Enter, CheckBeforePublish, RetryBeforePublish, CopyRequestWord,
           CommitRequest, WaitCheck, ReadFirst, ReadSecond, Evaluate, DeadlineCheck,
           OffTime, Register
  <2>2. FirmwareType'  BY <2>1 DEF FirmwareType, firmware
  <2>3. CASE CopyRequestWord
    <3>1. PICK w \in words : req' = [req EXCEPT ![w] = Request[w]]
      BY Zenon, <2>3 DEF CopyRequestWord
    <3>2. todo # <<>>  BY <2>3 DEF CopyRequestWord
    <3>3. req' \in Record  BY Zenon, <3>1, <3>2, RequestRecord, WordMove DEF MemoryType, DriverType
    <3>4. UNCHANGED <<rsp, status>>  BY <2>3 DEF CopyRequestWord
    <3> QED  BY <2>2, <3>3, <3>4 DEF MemoryType
  <2>4. CASE CommitRequest
    BY Zenon, <2>2, <2>4 DEF CommitRequest, MemoryType, DriverType, Record
  <2>5. CASE ~CopyRequestWord /\ ~CommitRequest
    <3>1. UNCHANGED memory
      BY Zenon, <2>5 DEF CallStep, Enter, CheckBeforePublish, RetryBeforePublish, WaitCheck,
                  ReadFirst, ReadSecond, Evaluate, DeadlineCheck, OffTime, Register
    <3> QED  BY <2>2, <3>1 DEF MemoryType, memory
  <2> QED  BY <2>3, <2>4, <2>5
<1>2. HistoryType'
  <2>1. CASE CommitRequest
    <3>1. Request \in Record  BY <2>1, RequestRecord DEF CommitRequest
    <3>2. Request.command \in Command  BY <3>1 DEF Record
    <3> QED  BY <2>1, <3>2 DEF CommitRequest, HistoryType
  <2>2. CASE ~CommitRequest
    <3>1. UNCHANGED <<published, applied>>
      BY Zenon, <2>2 DEF CallStep, Enter, CheckBeforePublish, RetryBeforePublish, CopyRequestWord,
                  WaitCheck, ReadFirst, ReadSecond, Evaluate, DeadlineCheck, OffTime,
                  Register, history
    <3> QED  BY SMTT(30), <3>1 DEF HistoryType
  <2> QED  BY <2>1, <2>2
<1>3. FlagType'
  <2> USE DEF FlagType
  <2>1. CASE Enter               BY Zenon, <2>1 DEF Enter, history
  <2>2. CASE CheckBeforePublish  BY <2>2 DEF CheckBeforePublish, history
  <2>3. CASE RetryBeforePublish  BY <2>3 DEF RetryBeforePublish, history
  <2>4. CASE CopyRequestWord     BY <2>4 DEF CopyRequestWord, history
  <2>5. CASE CommitRequest       BY <2>5 DEF CommitRequest
  <2>6. CASE WaitCheck           BY <2>6 DEF WaitCheck, history
  <2>7. CASE ReadFirst           BY <2>7 DEF ReadFirst, history
  <2>8. CASE ReadSecond          BY <2>8 DEF ReadSecond, history
  <2>9. CASE Evaluate            BY Zenon, <2>9 DEF Evaluate, history
  <2>10. CASE DeadlineCheck      BY <2>10 DEF DeadlineCheck, history
  <2>11. CASE OffTime            BY Zenon, <2>11 DEF OffTime
  <2>12. CASE Register           BY SMTT(30), <2>12 DEF Register, history
  <2> QED
    BY SMTT(30), <2>1, <2>2, <2>3, <2>4, <2>5, <2>6, <2>7, <2>8, <2>9, <2>10, <2>11, <2>12
       DEF CallStep
<1>4. DriverType' /\ TypeInv!2' /\ TypeInv!3'
  <2> USE DEF DriverType
  <2>1. CASE Enter
    <3>1. UNCHANGED <<sequence, words, snaps>>  BY <2>1 DEF Enter
    <3>2. CASE lpc' = "check"
      <4>1. sequence # MaxSequence /\ UNCHANGED <<fault, todo>> /\ todo # <<>>
        BY <2>1, <3>2 DEF Enter, Fail, Return, Exhausted
      <4>2. sequence \in 0 .. MaxSequence  BY Zenon DEF Sequences32
      <4>3. sequence < MaxSequence  BY ONLY <4>1, <4>2, WifiPowerAssumption
      <4> QED  BY Zenon, <3>1, <3>2, <4>1, <4>3
    <3>3. CASE lpc' # "check"
      <4>1. lpc' \in {"idle", "unbound"} /\ todo' = <<>> /\ fault' \in Faults
        BY <2>1, <3>3 DEF Enter, Fail, Return, Faults
      <4> QED  BY Zenon, <3>1, <4>1
    <3> QED  BY Zenon, <3>2, <3>3
  <2>2. CASE CheckBeforePublish
    <3>1. PICK v \in GenerationValid :
            \/ v = "none" /\ sequence' = sequence + 1 /\ words' = Words /\ lpc' = "copy"
               /\ UNCHANGED <<fault, todo>>
            \/ v = "EAGAIN" /\ lpc' = "retry" /\ UNCHANGED <<sequence, words, fault, todo>>
            \/ v \notin {"none", "EAGAIN"} /\ Fail(v) /\ UNCHANGED <<sequence, words>>
      BY <2>2 DEF CheckBeforePublish
    <3>2. lpc = "check" /\ sequence < MaxSequence /\ todo # <<>> /\ snaps' = snaps
      BY <2>2 DEF CheckBeforePublish
    <3>3. v \in Faults  BY Zenon DEF GenerationValid, Faults
    <3>4. CASE v = "none"
      <4>1. sequence + 1 \in Sequences32  BY <3>2, WifiPowerAssumption DEF Sequences32
      <4> QED  BY <3>1, <3>2, <3>4, <4>1
    <3>5. CASE v = "EAGAIN"  BY <3>1, <3>2, <3>5
    <3>6. CASE v \notin {"none", "EAGAIN"}  BY ZenonT(30), <3>1, <3>2, <3>3, <3>6 DEF Fail, Return
    <3> QED  BY Zenon, <3>4, <3>5, <3>6
  <2>3. CASE RetryBeforePublish  BY Zenon, <2>3 DEF RetryBeforePublish, Fail, Return, Faults
  <2>4. CASE CopyRequestWord     BY <2>4 DEF CopyRequestWord
  <2>5. CASE CommitRequest       BY <2>5 DEF CommitRequest
  <2>6. CASE WaitCheck           BY Zenon, <2>6 DEF WaitCheck, GenerationValid, Fail, Return, Faults
  <2>7. CASE ReadFirst           BY Zenon, <2>7, SnapshotWord DEF ReadFirst
  <2>8. CASE ReadSecond          BY <2>8, SnapshotWord DEF ReadSecond
  <2>9. CASE Evaluate            BY Zenon, <2>9, TodoTail, BlankRecord
     DEF Evaluate, Fail, Return, Faults
  <2>10. CASE DeadlineCheck      BY Zenon, <2>10 DEF DeadlineCheck, Fail, Return, Faults
  <2>11. CASE OffTime            BY Zenon, <2>11 DEF OffTime
  <2>12. CASE Register           BY <2>12 DEF Register
  <2> QED
    BY ZenonT(30), <2>1, <2>2, <2>3, <2>4, <2>5, <2>6, <2>7, <2>8, <2>9, <2>10, <2>11, <2>12
       DEF CallStep
<1> QED  BY <1>1, <1>2, <1>3, <1>4

(* A restart, with the records kept or cleared, restores the initial types *)
(* of everything else.                                                     *)
LEMMA TypeRestart ==
    ASSUME NEW g \in 1 .. MaxGeneration, Restart(g), req' \in Record, rsp' \in Record
    PROVE  TypeInv'
<1> USE WifiPowerAssumption, BlankRecord DEF Restart
<1>1. MemoryType'    BY DEF MemoryType
<1>2. FirmwareType'  BY DEF FirmwareType, Sequences32
<1>3. DriverType'    BY DEF DriverType, Sequences32, Faults
<1>4. FlagType'      BY Zenon DEF FlagType
<1>5. HistoryType'   BY DEF HistoryType
<1> QED  BY SMTT(30), <1>1, <1>2, <1>3, <1>4, <1>5 DEF TypeInv, TypeOK

(* Every step keeps the types.                                             *)
LEMMA TypeNext == TypeInv /\ [Next]_vars => TypeInv'
<1> SUFFICES ASSUME TypeInv, [Next]_vars PROVE TypeInv'
  OBVIOUS
<1>1. CASE FirmwareStep  BY <1>1, TypeFirmware
<1>2. CASE CallStep      BY <1>2, TypeCall
<1>3. CASE Probe \/ PowerEnable \/ PowerDisable \/ Expire \/ UNCHANGED vars
  <2>1. MemoryType' /\ FirmwareType' /\ HistoryType'
    BY <1>3 DEF Probe, PowerEnable, PowerDisable, Expire, vars, memory, firmware, driver,
                history, TypeInv, TypeOK, MemoryType, FirmwareType, HistoryType
  <2>2. FlagType'
    <3> USE DEF TypeInv, TypeOK, FlagType, history
    <3>1. CASE Probe           BY ZenonT(30), <3>1 DEF Probe
    <3>2. CASE PowerEnable     BY <3>2 DEF PowerEnable
    <3>3. CASE PowerDisable    BY <3>3 DEF PowerDisable
    <3>4. CASE Expire          BY <3>4 DEF Expire
    <3>5. CASE UNCHANGED vars  BY <3>5 DEF vars, driver
    <3> QED  BY SMTT(30), <1>3, <3>1, <3>2, <3>3, <3>4, <3>5
  <2>3. DriverType' /\ TypeInv!2' /\ TypeInv!3'
    <3> USE DEF TypeInv, TypeOK, DriverType
    <3>1. CASE Probe           BY <3>1, WifiPowerAssumption DEF Probe, Sequences32, Faults
    <3>2. CASE PowerEnable     BY <3>2 DEF PowerEnable, EnableCommands
    <3>3. CASE PowerDisable    BY <3>3 DEF PowerDisable
    <3>4. CASE Expire          BY Zenon, <3>4 DEF Expire
    <3>5. CASE UNCHANGED vars  BY Zenon, <3>5 DEF vars, driver
    <3> QED  BY Zenon, <1>3, <3>1, <3>2, <3>3, <3>4, <3>5
  <2> QED  BY SMTT(30), <2>1, <2>2, <2>3 DEF TypeInv, TypeOK
<1>4. CASE WarmReset
  <2>1. status.generation + 1 \in 1 .. MaxGeneration
    BY <1>4, WifiPowerAssumption DEF WarmReset, TypeInv, TypeOK, MemoryType
  <2> QED
    BY <1>4, <2>1, TypeRestart DEF WarmReset, TypeInv, TypeOK, MemoryType
<1>5. CASE ColdReset
  <2>1. 1 \in 1 .. MaxGeneration  BY WifiPowerAssumption
  <2> QED  BY <1>5, <2>1, TypeRestart, BlankRecord DEF ColdReset
<1> QED  BY <1>1, <1>2, <1>3, <1>4, <1>5 DEF Next, DriverStep

(* Every reachable state has the types, whatever the bounds, and with      *)
(* panics and retained DDR or without: in particular the sequence never    *)
(* passes U32_MAX (set_power_locked).                                      *)
THEOREM TypeCorrect == Spec => []TypeOK
<1>1. TypeInv => TypeOK  BY DEF TypeInv
<1> QED  BY TypeInit, TypeNext, <1>1, PTL DEF Spec

-----------------------------------------------------------------------------
(* The invariant of the command protocol, when the DDR contents do not     *)
(* survive a reset.                                                        *)

(* The request record between two commands: the last command committed.    *)
LastRequest ==
    IF published = <<>> THEN Blank
    ELSE [identity |-> generation, command |-> published[Len(published)],
          commit |-> Len(published)]

(* The driver's sequence counts the commands it committed, and one more    *)
(* while the next request is being written.                                *)
Numbered ==
    /\ \A i \in 1 .. Len(published) : published[i].sequence = i
    /\ sequence = IF lpc \in {"copy", "commit"} THEN Len(published) + 1 ELSE Len(published)

(* The request record is the last one, the next one, or a word-by-word     *)
(* mixture of the two during the copy.                                     *)
RequestShape ==
    CASE lpc = "copy" -> \A w \in Words :
                            req[w] = IF w \in words THEN LastRequest[w] ELSE Request[w]
      [] lpc = "commit" -> req = Request
      [] OTHER -> req = LastRequest

(* The firmware has executed a prefix of what was committed, all but at    *)
(* most the last command, and everything whenever the driver is between    *)
(* two commands and has latched no fault.                                  *)
Executed ==
    /\ completed = Len(applied)
    /\ Len(applied) <= Len(published)
    /\ Len(published) <= Len(applied) + 1
    /\ \A i \in 1 .. Len(applied) : applied[i] = published[i]
    /\ fault = "none" /\ lpc \notin {"wait", "first", "second", "deadline"}
          => completed = Len(published)
    /\ lpc \notin {"unbound", "idle", "enter"} => fault = "none"

(* A completion, in the firmware's hands, in DDR or in the driver's        *)
(* snapshots, is never ahead of the firmware, and one of the newest        *)
(* command that reports success tells the level of the line.               *)
Truthful(r) ==
    /\ r.command.sequence <= completed
    /\ r.command.sequence = completed /\ completed # 0 /\ r.command.enabled # Failed
          => latch = Level(r.command.enabled)

Answers ==
    /\ Truthful(answer)
    /\ Truthful(rsp)
    /\ Truthful(snaps["first"])
    /\ Truthful(snaps["second"])
    /\ service \in {"unauthorized", "construct"} => completed = 0
    /\ bound => published # <<>>
    /\ lpc \in {"idle", "wait", "first", "second", "deadline", "off time", "register"}
          => published # <<>>
    /\ lpc = "idle" => bound

(* The inductive invariant, beside the types.                              *)
SafetyInv == Numbered /\ RequestShape /\ Executed /\ Answers /\ ReportedIsDriven

-----------------------------------------------------------------------------
(* A sequence that agrees with another on its whole length is a prefix.    *)
LEMMA PrefixPointwise ==
    ASSUME NEW S, NEW s \in Seq(S), NEW t \in Seq(S), Len(s) <= Len(t),
           \A i \in 1 .. Len(s) : s[i] = t[i]
    PROVE  IsPrefix(s, t)
BY DEF IsPrefix

(* The sequence of a record is a number.                                   *)
LEMMA RecordSequence ==
    ASSUME NEW r \in Record
    PROVE  r.command \in Command /\ r.command.sequence \in Nat
BY DEF Record, Command, Sequences32

(* The initial state satisfies the invariant.                              *)
LEMMA SafetyInit == Init => SafetyInv
<1> SUFFICES ASSUME Init PROVE SafetyInv
  OBVIOUS
<1>1. Len(published) = 0 /\ Len(applied) = 0  BY DEF Init
<1>2. Numbered          BY <1>1 DEF Init, Numbered
<1>3. RequestShape      BY DEF Init, RequestShape, LastRequest
<1>4. Executed          BY <1>1 DEF Init, Executed
<1>5. Answers           BY DEF Init, Answers, Truthful, Blank
<1>6. ReportedIsDriven  BY DEF Init, ReportedIsDriven
<1> QED  BY <1>2, <1>3, <1>4, <1>5, <1>6 DEF SafetyInv

(* A request the firmware accepts is the last one committed, the only one  *)
(* it has not executed, and the driver is waiting for it or gave it up:    *)
(* no mixture of two records passes process().                             *)
LEMMA AcceptsCommitted ==
    ASSUME TypeInv, SafetyInv, Acceptable(req)
    PROVE  /\ published # <<>>
           /\ req.command = published[Len(published)]
           /\ req.command.sequence = Len(published)
           /\ Len(published) = completed + 1
           /\ lpc \notin {"copy", "commit"}
           /\ ~(fault = "none" /\ lpc \notin {"wait", "first", "second", "deadline"})
<1> USE DEF TypeInv, TypeOK
<1>1. Len(published) \in Nat /\ completed \in Nat  BY DEF HistoryType, FirmwareType, Sequences32
<1>2. req.command.sequence > completed /\ req.commit = req.command.sequence
  BY DEF Acceptable
<1>3. req.commit # 0  BY <1>1, <1>2
<1>4. lpc # "commit"
  BY <1>3 DEF SafetyInv, RequestShape, Request
<1>5. lpc # "copy"
  <2> SUFFICES ASSUME lpc = "copy" PROVE FALSE
    OBVIOUS
  <2>1. \A w \in Words : req[w] = IF w \in words THEN LastRequest[w] ELSE Request[w]
    BY DEF SafetyInv, RequestShape
  <2>2. completed = Len(published) /\ sequence = Len(published) + 1
    BY DEF SafetyInv, Executed, Numbered
  <2>3. req.commit = LastRequest.commit
    BY <1>3, <2>1 DEF Words, Request
  <2>4. LastRequest.commit = Len(published)
    BY <1>1 DEF LastRequest, Blank
  <2> QED  BY <1>1, <1>2, <2>2, <2>3, <2>4
<1>6. req = LastRequest
  BY <1>4, <1>5 DEF SafetyInv, RequestShape
<1>7. published # <<>>
  BY <1>3, <1>6 DEF LastRequest, Blank
<1>8. req.commit = Len(published) /\ req.command = published[Len(published)]
  BY <1>6, <1>7 DEF LastRequest
<1>9. Len(published) = completed + 1
  BY <1>1, <1>2, <1>8 DEF SafetyInv, Executed
<1> QED
  BY SMTT(30), <1>1, <1>2, <1>4, <1>5, <1>7, <1>8, <1>9 DEF SafetyInv, Executed

(* What the driver and the records contribute to the invariant only        *)
(* depends on the variables of the driver, the request and the history.    *)
LEMMA DriverPart ==
    ASSUME Numbered, RequestShape, UNCHANGED <<driver, generation, req, published>>
    PROVE  Numbered' /\ RequestShape'
<1>1. UNCHANGED <<lpc, sequence, words, todo>>  BY DEF driver
<1>2. Numbered'  BY <1>1 DEF Numbered
<1>3. LastRequest' = LastRequest /\ Request' = Request  BY <1>1 DEF LastRequest, Request
<1>4. RequestShape'  BY <1>1, <1>3 DEF RequestShape
<1> QED  BY <1>2, <1>4

(* Executing a command preserves the invariant.                            *)
LEMMA SafetyProcess == TypeInv /\ SafetyInv /\ Process => SafetyInv'
<1> SUFFICES ASSUME TypeInv, SafetyInv, Process PROVE SafetyInv'
  OBVIOUS
<1>1. UNCHANGED <<driver, generation, req, rsp, published>>  BY DEF Process, memory
<1>2. Numbered' /\ RequestShape'  BY <1>1, DriverPart DEF SafetyInv
<1>3. UNCHANGED <<lpc, fault, snaps, bound, enabled>>  BY <1>1 DEF driver
<1>4. CASE first = req /\ Acceptable(req)
  <2>1. PICK ok \in BOOLEAN :
           /\ latch' \in IF ok THEN {Level(req.command.enabled)}
                               ELSE {latch, Level(req.command.enabled)}
           /\ answer' = [identity |-> generation,
                         command |-> [req.command EXCEPT
                                        !.enabled = IF ok THEN @ ELSE Failed],
                         commit |-> 0]
    BY <1>4 DEF Process
  <2>2. /\ completed' = req.command.sequence
        /\ applied' = Append(applied, req.command)
        /\ service' = "respond"
    BY <1>4 DEF Process
  <2>3. /\ published # <<>>
        /\ req.command = published[Len(published)]
        /\ req.command.sequence = Len(published)
        /\ Len(published) = completed + 1
        /\ ~(fault = "none" /\ lpc \notin {"wait", "first", "second", "deadline"})
    BY <1>4, AcceptsCommitted
  <2>4. /\ published \in Seq(Command) /\ applied \in Seq(Command)
        /\ completed \in Nat /\ req.command \in Command
    BY DEF TypeInv, TypeOK, HistoryType, FirmwareType, MemoryType, Sequences32, Record
  <2>5. Executed'
    <3>1. completed = Len(applied) /\ \A i \in 1 .. Len(applied) : applied[i] = published[i]
      BY DEF SafetyInv, Executed
    <3>2. Len(applied') = Len(published)  BY <2>2, <2>3, <2>4, <3>1
    <3>3. \A i \in 1 .. Len(applied') : applied'[i] = published[i]
      BY <2>2, <2>3, <2>4, <3>1, <3>2
    <3>4. Len(published) \in Nat  BY <2>4
    <3>5. lpc \notin {"unbound", "idle", "enter"} => fault = "none"
      BY DEF SafetyInv, Executed
    <3> QED  BY SMTT(30), <1>1, <1>3, <2>2, <2>3, <3>2, <3>3, <3>4, <3>5 DEF Executed
  <2>6. ASSUME NEW r, r.command.sequence \in Nat, Truthful(r)
        PROVE  r.command.sequence <= completed' /\ r.command.sequence # completed'
    BY SMTT(30), <2>2, <2>3, <2>4, <2>6 DEF Truthful
  <2>7. Truthful(rsp)' /\ Truthful(snaps["first"])' /\ Truthful(snaps["second"])'
    <3>1. /\ rsp.command.sequence \in Nat
          /\ snaps["first"].command.sequence \in Nat
          /\ snaps["second"].command.sequence \in Nat
      BY Zenon, RecordSequence DEF TypeInv, TypeOK, MemoryType, DriverType
    <3>2. Truthful(rsp) /\ Truthful(snaps["first"]) /\ Truthful(snaps["second"])
      BY Zenon DEF SafetyInv, Answers
    <3> QED  BY SMTT(30), <1>1, <1>3, <2>6, <3>1, <3>2 DEF Truthful
  <2>8. Truthful(answer)'
    <3>1. answer'.command.sequence = completed'  BY <2>1, <2>2, <2>4 DEF Command
    <3>2. answer'.command.enabled = IF ok THEN req.command.enabled ELSE Failed
      BY <2>1, <2>4 DEF Command
    <3>3. completed' \in Nat  BY <2>2, <2>3, <2>4
    <3> QED  BY <2>1, <3>1, <3>2, <3>3 DEF Truthful
  <2>9. Answers'
    BY Zenon, <1>1, <1>3, <2>2, <2>7, <2>8 DEF SafetyInv, Answers
  <2>10. ReportedIsDriven'
    BY Zenon, <1>3, <2>3 DEF ReportedIsDriven
  <2> QED  BY <1>2, <2>5, <2>9, <2>10 DEF SafetyInv
<1>5. CASE ~(first = req /\ Acceptable(req))
  <2>1. UNCHANGED <<completed, answer, latch, applied>> /\ service' = "panel"
    BY <1>5 DEF Process
  <2>2. Executed'  BY <1>1, <1>3, <2>1 DEF SafetyInv, Executed
  <2>3. Answers'   BY Zenon, <1>1, <1>3, <2>1 DEF SafetyInv, Answers, Truthful
  <2>4. ReportedIsDriven'  BY Zenon, <1>3, <2>1 DEF SafetyInv, ReportedIsDriven
  <2> QED  BY <1>2, <2>2, <2>3, <2>4 DEF SafetyInv
<1> QED  BY <1>4, <1>5

(* The other steps of the firmware preserve the invariant.                 *)
LEMMA SafetyFirmware == TypeInv /\ SafetyInv /\ FirmwareStep => SafetyInv'
<1> SUFFICES ASSUME TypeInv, SafetyInv, FirmwareStep, ~Process PROVE SafetyInv'
  BY SafetyProcess
<1>1. UNCHANGED <<driver, generation, req, published, applied>>
  BY FirmwareFrame DEF history
<1>2. UNCHANGED <<lpc, fault, snaps, bound, enabled>>  BY <1>1 DEF driver
<1>3. Numbered' /\ RequestShape'  BY <1>1, DriverPart DEF SafetyInv
<1>4. UNCHANGED <<completed, answer>>
  BY DEF FirmwareStep, Authorize, Construct, FirstSnapshot, Respond, CommitResponse,
         PanelStep, PublishFlag, Panic, firmware
<1>5. Executed'  BY <1>1, <1>2, <1>4 DEF SafetyInv, Executed
<1>6. CASE Construct
  <2>1. service = "construct" /\ service' \in {"poll", "faulted"} /\ rsp' = rsp
    BY <1>6 DEF Construct, memory
  <2>2. completed = 0  BY Zenon, <2>1 DEF SafetyInv, Answers
  <2>3. Answers'  BY Zenon, <1>1, <1>2, <1>4, <2>1, <2>2 DEF SafetyInv, Answers, Truthful
  <2>4. ~(fault = "none" /\ lpc \in {"idle", "off time", "register"})
    <3>1. published \in Seq(Command)  BY DEF TypeInv, TypeOK, HistoryType
    <3>2. Len(published) = 0 => published = <<>>  BY <3>1
    <3> QED  BY Zenon, <2>2, <3>2 DEF SafetyInv, Answers, Executed
  <2>5. ReportedIsDriven'  BY Zenon, <1>2, <2>4 DEF ReportedIsDriven
  <2> QED  BY <1>3, <1>5, <2>3, <2>5 DEF SafetyInv
<1>7. CASE ~Construct
  <2>1. latch' = latch
    BY <1>7 DEF FirmwareStep, Authorize, FirstSnapshot, Respond, CommitResponse,
         PanelStep, PublishFlag, Panic, firmware
  <2>2. rsp' \in {rsp, answer} \/ rsp' = [rsp EXCEPT !.commit = answer.command.sequence]
    BY <1>7 DEF FirmwareStep, Authorize, FirstSnapshot, Respond, CommitResponse,
         PanelStep, PublishFlag, Panic, memory
  <2>3. service' \in {"unauthorized", "construct"} => service \in {"unauthorized", "construct"}
    BY <1>7 DEF FirmwareStep, Authorize, FirstSnapshot, Respond, CommitResponse,
         PanelStep, PublishFlag, Panic, firmware
  <2>4. rsp'.command \in {rsp.command, answer.command}
    BY <2>2 DEF TypeInv, TypeOK, MemoryType, Record
  <2>5. Answers'
    BY Zenon, <1>1, <1>2, <1>4, <2>1, <2>3, <2>4 DEF SafetyInv, Answers, Truthful
  <2>6. ReportedIsDriven'  BY Zenon, <1>2, <2>1 DEF SafetyInv, ReportedIsDriven
  <2> QED  BY <1>3, <1>5, <2>5, <2>6 DEF SafetyInv
<1> QED  BY <1>6, <1>7

-----------------------------------------------------------------------------
(* The steps of the driver.                                                *)

(* What a driver step that neither writes the request nor takes up a       *)
(* command leaves alone.                                                   *)
Quiet ==
    /\ UNCHANGED <<req, rsp, firmware, published, applied, sequence, bound>>
    /\ Truthful(snaps["first"])'
    /\ Truthful(snaps["second"])'

(* A step that ends the call in a fault preserves the invariant.           *)
LEMMA SafetyFail ==
    ASSUME SafetyInv, NEW e, e # "none", Fail(e), Quiet, lpc \notin {"copy", "commit"}
    PROVE  SafetyInv'
<1> USE DEF SafetyInv, Quiet, Fail
<1>1. UNCHANGED <<generation, service, completed, answer, latch>>  BY DEF firmware
<1>2. lpc' = IF bound THEN "idle" ELSE "unbound"  BY DEF Return
<1>3. fault' # "none"  OBVIOUS
<1>4. Numbered'  BY <1>2 DEF Numbered
<1>5. RequestShape'  BY <1>1, <1>2 DEF RequestShape, LastRequest
<1>6. Executed'  BY <1>1, <1>2, <1>3 DEF Executed
<1>7. Answers'  BY Zenon, <1>1, <1>2 DEF Answers, Truthful
<1>8. ReportedIsDriven'  BY Zenon, <1>3 DEF ReportedIsDriven
<1> QED  BY <1>4, <1>5, <1>6, <1>7, <1>8

(* A step that only moves a call in progress on preserves the invariant.   *)
LEMMA SafetyMove ==
    ASSUME SafetyInv, Quiet, lpc \notin {"copy", "commit"},
           fault = "none", fault' = fault,
           lpc' \in {"enter", "check", "retry", "wait", "first", "second", "deadline"},
           lpc' \in {"enter", "check", "retry"} => completed = Len(published),
           lpc' \in {"wait", "first", "second", "deadline"} => published # <<>>
    PROVE  SafetyInv'
<1> USE DEF SafetyInv, Quiet
<1>1. UNCHANGED <<generation, service, completed, answer, latch>>  BY DEF firmware
<1>2. Numbered'  BY DEF Numbered
<1>3. RequestShape'  BY <1>1 DEF RequestShape, LastRequest
<1>4. Executed'  BY <1>1 DEF Executed
<1>5. Answers'  BY Zenon, <1>1 DEF Answers, Truthful
<1>6. ReportedIsDriven'  BY Zenon DEF ReportedIsDriven
<1> QED  BY <1>2, <1>3, <1>4, <1>5, <1>6

(* The steps up to the copy of a request preserve the invariant.           *)
LEMMA SafetyBefore ==
    TypeInv /\ SafetyInv /\ (Enter \/ CheckBeforePublish \/ RetryBeforePublish) => SafetyInv'
<1> SUFFICES ASSUME TypeInv, SafetyInv, Enter \/ CheckBeforePublish \/ RetryBeforePublish
             PROVE  SafetyInv'
  OBVIOUS
<1>1. lpc \in {"enter", "check", "retry"}
      /\ UNCHANGED <<req, rsp, firmware, published, applied, bound, snaps>>
  BY DEF Enter, CheckBeforePublish, RetryBeforePublish, memory, history
<1>2. completed' = completed /\ latch' = latch  BY <1>1 DEF firmware
<1>3. Truthful(snaps["first"])' /\ Truthful(snaps["second"])'
  BY Zenon, <1>1, <1>2 DEF SafetyInv, Answers, Truthful
<1>4. fault = "none" => completed = Len(published)  BY <1>1 DEF SafetyInv, Executed
<1>5. ASSUME sequence' = sequence, NEW e, e # "none", Fail(e) PROVE SafetyInv'
  BY <1>1, <1>3, <1>5, SafetyFail DEF Quiet
<1>6. ASSUME sequence' = sequence, fault = "none", fault' = fault, lpc' \in {"check", "retry"}
      PROVE  SafetyInv'
  BY <1>1, <1>3, <1>4, <1>6, SafetyMove DEF Quiet
<1>7. CASE Enter
  BY <1>5, <1>6, <1>7 DEF Enter
<1>8. CASE RetryBeforePublish
  <2>1. fault = "none"  BY <1>8 DEF RetryBeforePublish, SafetyInv, Executed
  <2> QED  BY <1>5, <1>6, <1>8, <2>1 DEF RetryBeforePublish
<1>9. CASE CheckBeforePublish
  <2>1. fault = "none"  BY <1>9 DEF CheckBeforePublish, SafetyInv, Executed
  <2>2. PICK v \in GenerationValid :
          \/ v = "none" /\ sequence' = sequence + 1 /\ words' = Words /\ lpc' = "copy"
             /\ UNCHANGED <<fault, todo>>
          \/ v = "EAGAIN" /\ lpc' = "retry" /\ UNCHANGED <<sequence, words, fault, todo>>
          \/ v \notin {"none", "EAGAIN"} /\ Fail(v) /\ UNCHANGED <<sequence, words>>
    BY <1>9 DEF CheckBeforePublish
  <2>3. CASE v = "EAGAIN"  BY <1>6, <2>1, <2>2, <2>3
  <2>4. CASE v \notin {"none", "EAGAIN"}  BY <1>5, <2>2, <2>4
  <2>5. CASE v = "none"
    <3>1. sequence' = sequence + 1 /\ words' = Words /\ lpc' = "copy" /\ fault' = fault
      BY <2>2, <2>5
    <3>2. UNCHANGED <<generation, service, completed, answer, latch>>  BY <1>1 DEF firmware
    <3>3. Numbered'  BY <1>1, <3>1 DEF SafetyInv, Numbered
    <3>4. req = LastRequest /\ LastRequest' = LastRequest
      BY <1>1, <3>2 DEF SafetyInv, RequestShape, LastRequest
    <3>5. RequestShape'  BY <1>1, <3>1, <3>4 DEF RequestShape
    <3>6. Executed'  BY SMTT(30), <1>1, <1>4, <2>1, <3>1, <3>2 DEF SafetyInv, Executed
    <3>7. Answers'  BY Zenon, <1>1, <3>1, <3>2 DEF SafetyInv, Answers, Truthful
    <3>8. ReportedIsDriven'  BY <3>1 DEF ReportedIsDriven
    <3> QED  BY <3>3, <3>5, <3>6, <3>7, <3>8 DEF SafetyInv
  <2> QED  BY <2>3, <2>4, <2>5
<1> QED  BY <1>7, <1>8, <1>9
=============================================================================
