-------------------------- MODULE ActivationProofs --------------------------
(***************************************************************************)
(* OutcomeTruthful, BoardHeld, NeverMisdiagnosed and LeaseAuthorized for   *)
(* any number of boots, loads of the driver and identifiers, and for any   *)
(* modulus of the envelope's sequence.                                     *)
(*                                                                         *)
(* First the types, which every step keeps, and what each step does, in    *)
(* the terms the safety arguments use.                                     *)
(***************************************************************************)
EXTENDS Activation, TLAPS

AnyStatus ==
    [life : {"BOOTING", "RUNNING", "FAULT"},
     identity : [generation : Nat, flags : SUBSET {"REJECTED", "FAILED"}],
     capabilities : {"none", "dormant", "expected"},
     activation : [state : ActivationStates, error : Results, attempts : Nat, id : Nat]]
AnyManifest == [generation : Nat, commit : BOOLEAN]
AnyRecord == [generation : Nat, id : Nat, commit : BOOLEAN]
AnyScan == [copy : {"before", "first", "second", "after"}, word : 1 .. 5,
            before : AnyStatus, first : AnyManifest, second : AnyManifest, after : AnyStatus]

Booting == {"revoke", "body", "commit", "start"}
Handling == {"first", "second", "check", "activate", "respond"}
Preparing == {"unbound", "contract", "acquire", "route"}
Writing == {"revoke", "copy", "commit"}
Serving == {"choose", "send", "turn", "poll", "final", "register", "bound", "diagnostics"}

(* The types the argument needs; numbers are not bounded.                  *)
Typed ==
    /\ status \in AnyStatus /\ own \in AnyStatus
    /\ manifest \in AnyManifest
    /\ record \in AnyRecord /\ accepted \in AnyRecord
    /\ snaps \in [{"first", "second"} -> AnyRecord]
    /\ lines \subseteq Lines
    /\ fpc \in Booting \cup Handling \cup {"receive", "halted"}
    /\ lpc \in Preparing \cup Writing \cup Serving
    /\ inbox \in Seq(Ids)
    /\ envelope \in Nat
    /\ scan \in AnyScan
    /\ id \in 0 .. MaxId /\ (lpc \in Writing \cup {"send"} => id \in Ids)
    /\ words \subseteq {"generation", "id"}
    /\ grants \in Seq(Nat)
-----------------------------------------------------------------------------
(* The constant records have the types.                                    *)
LEMMA Constants ==
    /\ ZeroStatus \in AnyStatus /\ NoManifest \in AnyManifest /\ NoRecord \in AnyRecord
    /\ \A g \in Nat : InitialStatus(g) \in AnyStatus
    /\ NoScan \in AnyScan
    /\ NoSnaps \in [{"first", "second"} -> AnyRecord]
<1>1. ZeroStatus \in AnyStatus /\ NoManifest \in AnyManifest /\ NoRecord \in AnyRecord
  BY DEF ZeroStatus, NoManifest, NoRecord, AnyStatus, AnyManifest, AnyRecord, ActivationStates,
     Results
<1>2. \A g \in Nat : InitialStatus(g) \in AnyStatus
  BY Zenon DEF ZeroStatus, InitialStatus, AnyStatus, ActivationStates, Results
<1>3. NoScan \in AnyScan
  BY <1>1 DEF NoScan, AnyScan
<1>4. NoSnaps \in [{"first", "second"} -> AnyRecord]
  BY <1>1 DEF NoSnaps
<1> QED BY <1>1, <1>2, <1>3, <1>4

(* The order in which the driver reads the words of a line.                *)
LEMMA Order ==
    /\ Len(StatusWords) = 4 /\ Len(ManifestWords) = 2
    /\ \A k \in 1 .. 4 : StatusWords[k] \in {"life", "identity", "capabilities", "activation"}
    /\ \A k \in 1 .. 2 : ManifestWords[k] \in {"generation", "commit"}
    /\ ManifestWords[2] = "commit"
  BY DEF StatusWords, ManifestWords

(* What is published: the task's status s after each of its steps.         *)
Activity == [state : ActivationStates, error : Results, attempts : Nat, id : Nat]
Faulted(s) == [s EXCEPT !.life = "FAULT", !.activation.error = "INTERNAL_FAILURE"]
Running(s) == [s EXCEPT !.life = "RUNNING", !.activation.state = "DORMANT"]
Replaced(s, a) == [s EXCEPT !.activation = a]
Activating(s) == [s EXCEPT !.activation.state = "ACTIVATING"]
Rejected(s, r) ==
    [s EXCEPT !.activation.state = "REJECTED", !.activation.error = r,
              !.capabilities = "dormant", !.identity.flags = @ \cup {"REJECTED"}]
Activated(s) == [s EXCEPT !.activation.state = "ACTIVE", !.activation.error = "SUCCESS",
                          !.capabilities = "expected"]
Exhausted(s) ==
    [s EXCEPT !.activation.state = "LEASE_FAULT", !.activation.error = "LEASE_FAILURE",
              !.capabilities = "dormant", !.identity.flags = @ \cup {"FAILED"}]

(* Every status the firmware publishes is one, with the state its step     *)
(* gives it.                                                               *)
LEMMA Published ==
    ASSUME NEW s \in AnyStatus
    PROVE  /\ Faulted(s) \in AnyStatus /\ Faulted(s).life = "FAULT"
           /\ Faulted(s).activation.state = s.activation.state
           /\ Running(s) \in AnyStatus /\ Running(s).activation.state = "DORMANT"
           /\ \A a \in Activity : Replaced(s, a) \in AnyStatus /\ Replaced(s, a).activation = a
           /\ Activating(s) \in AnyStatus /\ Activating(s).activation.state = "ACTIVATING"
           /\ Activating(s).activation.id = s.activation.id
           /\ \A r \in Results :
                 Rejected(s, r) \in AnyStatus /\ Rejected(s, r).activation.state = "REJECTED"
           /\ Activated(s) \in AnyStatus /\ Activated(s).activation.state = "ACTIVE"
           /\ Activated(s).activation.id = s.activation.id
           /\ Exhausted(s) \in AnyStatus /\ Exhausted(s).activation.state = "LEASE_FAULT"
<1> USE DEF AnyStatus, ActivationStates, Results, Rejections
<1>1. /\ Faulted(s) \in AnyStatus /\ Faulted(s).life = "FAULT"
      /\ Faulted(s).activation.state = s.activation.state
  BY Zenon DEF Faulted
<1>2. Running(s) \in AnyStatus /\ Running(s).activation.state = "DORMANT"
  BY Zenon DEF Running
<1>3. \A a \in Activity : Replaced(s, a) \in AnyStatus /\ Replaced(s, a).activation = a
  BY DEF Replaced, Activity
<1>4. /\ Activating(s) \in AnyStatus /\ Activating(s).activation.state = "ACTIVATING"
      /\ Activating(s).activation.id = s.activation.id
  BY DEF Activating
<1>5. \A r \in Results :
         Rejected(s, r) \in AnyStatus /\ Rejected(s, r).activation.state = "REJECTED"
  BY Zenon DEF Rejected
<1>6. /\ Activated(s) \in AnyStatus /\ Activated(s).activation.state = "ACTIVE"
      /\ Activated(s).activation.id = s.activation.id
  BY Zenon DEF Activated
<1>7. Exhausted(s) \in AnyStatus /\ Exhausted(s).activation.state = "LEASE_FAULT"
  BY Zenon DEF Exhausted
<1> QED BY <1>1, <1>2, <1>3, <1>4, <1>5, <1>6, <1>7

(* One word of a copy.                                                     *)
LEMMA Patched ==
    /\ \A s, t \in AnyStatus : \A w \in {"life", "identity", "capabilities", "activation"} :
          /\ [s EXCEPT ![w] = t[w]] \in AnyStatus
          /\ [s EXCEPT ![w] = t[w]].activation \in {s.activation, t.activation}
          /\ [s EXCEPT ![w] = t[w]].life \in {s.life, t.life}
    /\ \A m, n \in AnyManifest : \A w \in {"generation", "commit"} :
          [m EXCEPT ![w] = n[w]] \in AnyManifest
  BY DEF AnyStatus, AnyManifest

(* mbox_free_channel leaves the words, or all but the last one.            *)
LEMMA Freed ==
    ASSUME inbox \in Seq(Ids), FreeChannel
    PROVE  inbox' \in Seq(Ids) /\ (inbox = <<>> => inbox' = <<>>)
<1>1. CASE inbox # <<>> /\ inbox' = SubSeq(inbox, 1, Len(inbox) - 1)
  <2>1. Len(inbox) \in Nat /\ Len(inbox) # 0
    BY <1>1
  <2>2. \A k \in 1 .. Len(inbox) - 1 : inbox[k] \in Ids
    BY <2>1
  <2>3. SubSeq(inbox, 1, Len(inbox) - 1) \in Seq(Ids)
    BY <2>1, <2>2
  <2> QED BY <1>1, <2>3
<1> QED BY <1>1 DEF FreeChannel

(* The scan after a word: only the copy in progress changes, by that word. *)
LEMMA Scanned ==
    ASSUME Typed, ReadWord
    PROVE  /\ scan' \in AnyScan
           /\ scan'.after.activation \in {scan.after.activation, status.activation}
           /\ scan.copy = "before" => scan'.before.life \in {scan.before.life, status.life}
           /\ scan.copy # "before" => scan'.before = scan.before
           /\ scan.copy # "first" => scan'.first = scan.first
           /\ scan.copy = "first" /\ scan'.copy # "first" => scan'.first.commit = manifest.commit
           /\ scan.copy = "before" => scan'.copy \in {"before", "first"}
           /\ scan.copy \in {"second", "after"} => scan'.copy \in {"second", "after"}
<1> DEFINE k == scan.word
<1> USE DEF Typed
<1>0. scan \in AnyScan /\ k \in 1 .. 5 /\ status \in AnyStatus /\ manifest \in AnyManifest
  BY DEF AnyScan
<1>1. CASE scan.copy = "before"
  <2>1. /\ k <= Len(StatusWords)
        /\ scan' = [scan EXCEPT !["before"][StatusWords[k]] = status[StatusWords[k]],
                                !.word = IF k = Len(StatusWords) /\ "before" # "after" THEN 1 ELSE k + 1,
                                !.copy = IF k = Len(StatusWords) THEN "first" ELSE "before"]
    BY Zenon, <1>1 DEF ReadWord
  <2> DEFINE w == StatusWords[k]
             new == [scan.before EXCEPT ![w] = status[w]]
  <2>2. w \in {"life", "identity", "capabilities", "activation"} /\ k \in 1 .. 4
    <3>1. k \in 1 .. 5 /\ k <= 4
      BY Zenon, <1>0, <2>1, Order
    <3>2. k \in 1 .. 4
      BY <3>1
    <3> QED BY <3>2, Order
  <2>3. /\ new \in AnyStatus
        /\ new.activation \in {scan.before.activation, status.activation}
        /\ new.life \in {scan.before.life, status.life}
    <3>1. scan.before \in AnyStatus
      BY <1>0 DEF AnyScan
    <3> HIDE DEF w
    <3> QED BY Zenon, <1>0, <2>2, <3>1, Patched
  <2>4. scan' = [copy |-> IF k = 4 THEN "first" ELSE "before",
                 word |-> IF k = 4 /\ "before" # "after" THEN 1 ELSE k + 1,
                 before |-> new, first |-> scan.first, second |-> scan.second,
                 after |-> scan.after]
    BY Zenon, <1>0, <2>1, Order DEF AnyScan
  <2> HIDE DEF new
  <2> QED BY <1>0, <1>1, <2>2, <2>3, <2>4 DEF AnyScan
<1>2. CASE scan.copy = "first"
  <2>1. /\ k <= Len(ManifestWords)
        /\ scan' = [scan EXCEPT !["first"][ManifestWords[k]] = manifest[ManifestWords[k]],
                                !.word = IF k = Len(ManifestWords) THEN 1 ELSE k + 1,
                                !.copy = IF k = Len(ManifestWords) THEN "second" ELSE "first"]
    BY Zenon, <1>2 DEF ReadWord
  <2> DEFINE w == ManifestWords[k]
             new == [scan.first EXCEPT ![w] = manifest[w]]
  <2>2. /\ w \in {"generation", "commit"} /\ k \in 1 .. 2
        /\ k = 2 => w = "commit"
    <3>1. k \in 1 .. 5 /\ k <= 2
      BY Zenon, <1>0, <2>1, Order
    <3>2. k \in 1 .. 2
      BY <3>1
    <3> QED BY <3>2, Order
  <2>3. new \in AnyManifest /\ (k = 2 => new.commit = manifest.commit)
    <3>1. scan.first \in AnyManifest
      BY <1>0 DEF AnyScan
    <3> HIDE DEF w
    <3> QED BY <1>0, <2>2, <3>1, Patched DEF AnyManifest
  <2>4. scan' = [copy |-> IF k = 2 THEN "second" ELSE "first", word |-> IF k = 2 THEN 1 ELSE k + 1,
                 before |-> scan.before, first |-> new,
                 second |-> scan.second, after |-> scan.after]
    BY Zenon, <1>0, <2>1, Order DEF AnyScan
  <2> HIDE DEF new
  <2> QED BY <1>0, <1>2, <2>2, <2>3, <2>4 DEF AnyScan
<1>3. CASE scan.copy = "second"
  <2>1. /\ k <= Len(ManifestWords)
        /\ scan' = [scan EXCEPT !["second"][ManifestWords[k]] = manifest[ManifestWords[k]],
                                !.word = IF k = Len(ManifestWords) THEN 1 ELSE k + 1,
                                !.copy = IF k = Len(ManifestWords) THEN "after" ELSE "second"]
    BY Zenon, <1>3 DEF ReadWord
  <2> DEFINE w == ManifestWords[k]
             new == [scan.second EXCEPT ![w] = manifest[w]]
  <2>2. /\ w \in {"generation", "commit"} /\ k \in 1 .. 2
        /\ k = 2 => w = "commit"
    <3>1. k \in 1 .. 5 /\ k <= 2
      BY Zenon, <1>0, <2>1, Order
    <3>2. k \in 1 .. 2
      BY <3>1
    <3> QED BY <3>2, Order
  <2>3. new \in AnyManifest /\ (k = 2 => new.commit = manifest.commit)
    <3>1. scan.second \in AnyManifest
      BY <1>0 DEF AnyScan
    <3> HIDE DEF w
    <3> QED BY <1>0, <2>2, <3>1, Patched DEF AnyManifest
  <2>4. scan' = [copy |-> IF k = 2 THEN "after" ELSE "second", word |-> IF k = 2 THEN 1 ELSE k + 1,
                 before |-> scan.before, first |-> scan.first,
                 second |-> new, after |-> scan.after]
    BY Zenon, <1>0, <2>1, Order DEF AnyScan
  <2> HIDE DEF new
  <2> QED BY <1>0, <1>3, <2>2, <2>3, <2>4 DEF AnyScan
<1>4. CASE scan.copy = "after"
  <2>1. /\ k <= Len(StatusWords)
        /\ scan' = [scan EXCEPT !["after"][StatusWords[k]] = status[StatusWords[k]],
                                !.word = IF k = Len(StatusWords) /\ "after" # "after" THEN 1 ELSE k + 1,
                                !.copy = IF k = Len(StatusWords) THEN "after" ELSE "after"]
    BY Zenon, <1>4 DEF ReadWord
  <2> DEFINE w == StatusWords[k]
             new == [scan.after EXCEPT ![w] = status[w]]
  <2>2. w \in {"life", "identity", "capabilities", "activation"} /\ k \in 1 .. 4
    <3>1. k \in 1 .. 5 /\ k <= 4
      BY Zenon, <1>0, <2>1, Order
    <3>2. k \in 1 .. 4
      BY <3>1
    <3> QED BY <3>2, Order
  <2>3. /\ new \in AnyStatus
        /\ new.activation \in {scan.after.activation, status.activation}
        /\ new.life \in {scan.after.life, status.life}
    <3>1. scan.after \in AnyStatus
      BY <1>0 DEF AnyScan
    <3> HIDE DEF w
    <3> QED BY Zenon, <1>0, <2>2, <3>1, Patched
  <2>4. scan' = [copy |-> IF k = 4 THEN "after" ELSE "after",
                 word |-> IF k = 4 /\ "after" # "after" THEN 1 ELSE k + 1,
                 before |-> scan.before, first |-> scan.first, second |-> scan.second,
                 after |-> new]
    BY Zenon, <1>0, <2>1, Order DEF AnyScan
  <2> HIDE DEF new
  <2> QED BY <1>0, <1>4, <2>2, <2>3, <2>4 DEF AnyScan
<1> QED BY <1>0, <1>1, <1>2, <1>3, <1>4 DEF AnyScan
(* A probe that fails.                                                     *)
LEMMA Failed ==
    ASSUME Typed, NEW e, FailProbe(e)
    PROVE  /\ scan' = NoScan /\ words' = {} /\ result' = e
           /\ lpc' = (IF held THEN "diagnostics" ELSE "unbound")
           /\ held' = (IF held THEN held ELSE FALSE)
           /\ outcome' \in {"none", "FAILED_RETAINED"}
           /\ inbox' \in Seq(Ids) /\ (inbox = <<>> => inbox' = <<>>)
  BY Zenon, Freed DEF FailProbe, EndCall, RetainBoard, Typed
-----------------------------------------------------------------------------
(* The firmware's steps, and the steps of Linux that write no memory.      *)
Firmware == Boot \/ Handle \/ Panic
Bystander ==
    \/ Probe \/ ReadWord \/ CheckContract \/ AcquireBoard \/ RouteBoard \/ ChooseRequest \/ Send
    \/ Callback \/ Expire \/ Turn \/ Evaluate \/ EvaluateFinal \/ Register \/ Unload
Writer == RevokeRecord \/ CopyRecordWord \/ CommitRecord

(* Every step is one of the firmware, of a driver that leaves the record   *)
(* alone, of one that writes it, or a reset.                               *)
LEMMA Actors == Next <=> Firmware \/ Bystander \/ Writer \/ WarmReset \/ ColdReset
  BY DEF Next, ProbeStep, Firmware, Bystander, Writer

(* The boot code, up to the control task or a fault.                       *)
LEMMA BootStep ==
    ASSUME Typed, Boot
    PROVE  /\ UNCHANGED <<record, envelope, snaps, lines, accepted, mailbox, driver, history>>
           /\ \/ /\ fpc \in Booting \ {"start"} /\ fpc' \in Booting
                 /\ UNCHANGED <<own, status>>
                 /\ manifest' \in AnyManifest /\ (fpc' = "start" => manifest'.commit)
              \/ /\ fpc = "start" /\ UNCHANGED manifest
                 /\ own' \in AnyStatus /\ status' = own'
                 /\ \/ fpc' = "receive" /\ own'.activation.state = "DORMANT"
                    \/ /\ fpc' = "halted" /\ own'.life = "FAULT"
                       /\ own'.activation.state = own.activation.state
<1>0. own \in AnyStatus /\ manifest \in AnyManifest /\ own.identity.generation \in Nat
  BY DEF Typed, AnyStatus
<1>1. CASE RevokeManifest \/ WriteManifest \/ CommitManifest
  <2>1. manifest' \in AnyManifest /\ (fpc' = "start" => manifest'.commit)
    <3>1. CASE RevokeManifest
      BY Zenon, <1>0, <3>1 DEF RevokeManifest, AnyManifest
    <3>2. CASE WriteManifest
      BY <1>0, <3>2 DEF WriteManifest, AnyManifest
    <3>3. CASE CommitManifest
      BY Zenon, <1>0, <3>3 DEF CommitManifest, AnyManifest
    <3> QED BY <1>1, <3>1, <3>2, <3>3
  <2> QED BY <1>1, <2>1 DEF RevokeManifest, WriteManifest, CommitManifest, Booting
<1>2. CASE FailBoot
  <2>1. own' = Faulted(own) /\ status' = own' /\ fpc' = "halted"
    BY <1>2 DEF FailBoot, BootFault, Publish, Faulted
  <2>2. /\ UNCHANGED <<record, envelope, snaps, lines, accepted, mailbox, driver, history>>
        /\ fpc = "start" /\ UNCHANGED manifest
    BY <1>2 DEF FailBoot
  <2> QED BY <1>0, <2>1, <2>2, Published
<1>3. CASE StartControl
  <2>1. own' = Running(own) /\ status' = own' /\ fpc' = "receive"
    BY <1>3 DEF StartControl, Publish, Running
  <2>2. /\ UNCHANGED <<record, envelope, snaps, lines, accepted, mailbox, driver, history>>
        /\ fpc = "start" /\ UNCHANGED manifest
    BY <1>3 DEF StartControl
  <2> QED BY <1>0, <2>1, <2>2, Published
<1> QED BY <1>1, <1>2, <1>3 DEF Boot

(* An envelope is taken.                                                   *)
LEMMA ReceiveStep ==
    ASSUME Typed, Receive
    PROVE  /\ UNCHANGED <<manifest, record, snaps, accepted, driver, grants>>
           /\ fpc = "receive" /\ inbox # <<>> /\ inbox' \in Seq(Ids)
           /\ envelope' \in Nat \ {0} /\ lines' \in {lines, Lines}
           /\ record.commit => record.id \in stood'
           /\ \/ /\ own.activation.state \in OpenStates /\ fpc' = "first" /\ lines' = Lines
                 /\ own' \in AnyStatus /\ status' = own'
                 /\ own'.activation.state = "VALIDATING" /\ own'.activation.id = envelope'
              \/ /\ own.activation.state = "ACTIVE" /\ fpc' = "first" /\ UNCHANGED <<own, status>>
              \/ /\ own.activation.state \notin OpenStates \cup {"ACTIVE"} /\ fpc' = "respond"
                 /\ UNCHANGED <<own, status>>
<1>0. own \in AnyStatus /\ own.activation.attempts \in Nat /\ inbox \in Seq(Ids) /\ inbox # <<>>
  BY DEF Receive, Typed, AnyStatus
<1>1. Head(inbox) \in Ids /\ Tail(inbox) \in Seq(Ids)
  BY <1>0
<1>2. Head(inbox) \in Nat \ {0}
  BY <1>1, ActivationAssumption DEF Ids
<1>3. Increment(own.activation.attempts) \in Nat
  BY <1>0 DEF Increment
<1> DEFINE a == [state |-> "VALIDATING", error |-> "SUCCESS",
                 attempts |-> Increment(own.activation.attempts), id |-> Head(inbox)]
<1>4. a \in Activity /\ a.state = "VALIDATING" /\ a.id = Head(inbox)
  BY <1>2, <1>3 DEF ActivationStates, Results, Activity
<1>5. \/ own' = Replaced(own, a) /\ status' = own' /\ own.activation.state \in OpenStates
         /\ fpc' = "first" /\ lines' = Lines
      \/ own.activation.state = "ACTIVE" /\ fpc' = "first" /\ UNCHANGED <<own, status>> /\ lines' = Lines
      \/ own.activation.state \notin OpenStates \cup {"ACTIVE"} /\ fpc' = "respond"
         /\ UNCHANGED <<own, status, lines>>
  BY DEF Receive, Publish, Replaced
<1>6. /\ UNCHANGED <<manifest, record, snaps, accepted, driver, grants>> /\ fpc = "receive"
      /\ inbox' = Tail(inbox) /\ envelope' = Head(inbox)
      /\ record.commit => record.id \in stood'
  BY DEF Receive
<1>7. ASSUME own' = Replaced(own, a)
      PROVE  own' \in AnyStatus /\ own'.activation.state = "VALIDATING"
             /\ own'.activation.id = Head(inbox)
  <2> HIDE DEF a
  <2>1. Replaced(own, a) \in AnyStatus /\ Replaced(own, a).activation = a
    BY Zenon, <1>0, <1>4, Published
  <2> QED BY <1>4, <1>7, <2>1
<1> HIDE DEF a
<1> QED BY <1>0, <1>1, <1>2, <1>5, <1>6, <1>7

(* The two cachelines of the request record.                               *)
IdLine == {"generation", "id"}
CommitLine == {"commit"}
(* The request record lies on two cachelines.                              *)
LEMMA TwoLines == Lines = {IdLine, CommitLine} /\ IdLine # CommitLine
  BY DEF Lines, IdLine, CommitLine

(* A line of the snapshot n, the last of which leads to the step next.     *)
LEMMA ReadStep ==
    ASSUME Typed, NEW n \in {"first", "second"}, NEW next \in {"second", "check"}, ReadLine(n, next)
    PROVE  /\ snaps' \in [{"first", "second"} -> AnyRecord] /\ lines' \subseteq Lines
           /\ \A m \in {"first", "second"} \ {n} : snaps'[m] = snaps[m]
           /\ \E l \in lines :
                 /\ \/ l = IdLine /\ snaps'[n].id = record.id /\ snaps'[n].commit = snaps[n].commit
                    \/ l = CommitLine /\ snaps'[n].commit = record.commit
                       /\ snaps'[n].id = snaps[n].id
                 /\ \/ lines = {l} /\ fpc' = next /\ (next = "second" => lines' = Lines)
                    \/ lines # {l} /\ fpc' = fpc /\ lines' = lines \ {l}
<1>1. PICK l \in lines :
         /\ snaps' = [snaps EXCEPT ![n] =
                        [w \in DOMAIN snaps[n] |-> IF w \in l THEN record[w] ELSE snaps[n][w]]]
         /\ IF lines = {l}
            THEN fpc' = next /\ lines' = IF next = "second" THEN Lines ELSE {}
            ELSE UNCHANGED fpc /\ lines' = lines \ {l}
  BY DEF ReadLine
<1> DEFINE new == [w \in DOMAIN snaps[n] |-> IF w \in l THEN record[w] ELSE snaps[n][w]]
<1>2. l \in {IdLine, CommitLine} /\ lines \subseteq Lines
  BY TwoLines DEF Typed
<1>3. snaps[n] \in AnyRecord /\ record \in AnyRecord /\ snaps \in [{"first", "second"} -> AnyRecord]
  BY DEF Typed
<1>4. new \in AnyRecord
  BY <1>3 DEF AnyRecord
<1>5. /\ l = IdLine => new.id = record.id /\ new.commit = snaps[n].commit
      /\ l = CommitLine => new.commit = record.commit /\ new.id = snaps[n].id
  BY <1>3 DEF AnyRecord, IdLine, CommitLine
<1> HIDE DEF new
<1>6. /\ snaps' \in [{"first", "second"} -> AnyRecord] /\ snaps'[n] = new
      /\ \A m \in {"first", "second"} \ {n} : snaps'[m] = snaps[m]
  BY <1>1, <1>3, <1>4 DEF new
<1>7. lines' \subseteq Lines
  BY <1>1, <1>2
<1> QED BY <1>1, <1>2, <1>5, <1>6, <1>7

(* The request is validated.                                               *)
LEMMA CheckStep ==
    ASSUME Typed, CheckRecord
    PROVE  /\ UNCHANGED <<manifest, record, envelope, lines, accepted, mailbox, driver, history>>
           /\ fpc = "check" /\ own.activation.state = "VALIDATING"
           /\ own' \in AnyStatus /\ status' = own'
           /\ \/ /\ fpc' = "activate" /\ UNCHANGED snaps
                 /\ own'.activation.state = "ACTIVATING" /\ own'.activation.id = own.activation.id
                 /\ snaps["first"] = snaps["second"] /\ snaps["first"].commit
                 /\ snaps["first"].id = envelope
              \/ fpc' = "respond" /\ snaps' = NoSnaps /\ own'.activation.state = "REJECTED"
<1>0. own \in AnyStatus
  BY DEF Typed
<1>1. Verdict \in Results
  BY DEF Verdict, Validate, Results, Rejections
<1>2. UNCHANGED <<manifest, record, envelope, lines, accepted, mailbox, driver, history>>
      /\ fpc = "check" /\ own.activation.state = "VALIDATING"
  BY DEF CheckRecord
<1>3. CASE Verdict = "SUCCESS"
  <2>1. own' = Activating(own) /\ status' = own' /\ fpc' = "activate" /\ UNCHANGED snaps
    BY <1>3 DEF CheckRecord, Publish, Activating
  <2>2. snaps["first"] = snaps["second"] /\ snaps["first"].commit /\ snaps["first"].id = envelope
    BY <1>3 DEF Verdict, Validate
  <2> QED BY <1>0, <1>2, <2>1, <2>2, Published
<1>4. CASE Verdict # "SUCCESS"
  <2>1. own' = Rejected(own, Verdict) /\ status' = own' /\ fpc' = "respond" /\ snaps' = NoSnaps
    BY <1>4 DEF CheckRecord, Reject, Publish, Rejected
  <2> QED BY Zenon, <1>0, <1>1, <1>2, <2>1, Published
<1> QED BY <1>3, <1>4

(* The leases are activated, or fail.                                      *)
LEMMA ActivateStep ==
    ASSUME Typed, Activate
    PROVE  /\ UNCHANGED <<manifest, record, envelope, lines, mailbox, driver, stood>>
           /\ fpc = "activate" /\ fpc' = "respond" /\ snaps' = NoSnaps
           /\ grants' = Append(grants, snaps["first"].id) /\ grants' \in Seq(Nat) /\ grants' # <<>>
           /\ own' \in AnyStatus /\ status' = own'
           /\ \/ /\ own'.activation.state = "ACTIVE" /\ own'.activation.id = own.activation.id
                 /\ accepted' = snaps["first"]
              \/ own'.activation.state = "LEASE_FAULT" /\ UNCHANGED accepted
<1>0. own \in AnyStatus /\ grants \in Seq(Nat) /\ snaps["first"] \in AnyRecord
  BY DEF Typed
<1>1. /\ UNCHANGED <<manifest, record, envelope, lines, mailbox, driver, stood>>
      /\ fpc = "activate" /\ fpc' = "respond" /\ snaps' = NoSnaps
      /\ grants' = Append(grants, snaps["first"].id)
      /\ \/ own' = Activated(own) /\ status' = own' /\ accepted' = snaps["first"]
         \/ own' = Exhausted(own) /\ status' = own' /\ UNCHANGED accepted
  BY DEF Activate, Publish, Activated, Exhausted
<1>2. snaps["first"].id \in Nat
  BY <1>0 DEF AnyRecord
<1>3. grants' \in Seq(Nat) /\ grants' # <<>>
  BY <1>0, <1>1, <1>2
<1> QED BY <1>0, <1>1, <1>3, Published

(* The remaining steps of the firmware publish nothing, except a panic.    *)
LEMMA OtherStep ==
    ASSUME Typed
    PROVE  /\ ReadRecord =>
                 /\ UNCHANGED <<memory, own, envelope, accepted, mailbox, driver, history>>
                 /\ \/ fpc = "first" /\ ReadLine("first", "second")
                    \/ fpc = "second" /\ ReadLine("second", "check")
           /\ CheckReplay =>
                 /\ UNCHANGED <<memory, own, envelope, lines, accepted, mailbox, driver, history>>
                 /\ fpc = "check" /\ own.activation.state = "ACTIVE"
                 /\ fpc' = "respond" /\ snaps' = NoSnaps
           /\ Respond =>
                 /\ UNCHANGED <<memory, own, snaps, lines, accepted, inbox, driver, grants>>
                 /\ fpc = "respond" /\ fpc' = "receive" /\ envelope' = 0
           /\ Panic =>
                 /\ UNCHANGED <<manifest, record, own, envelope, snaps, lines, accepted,
                                mailbox, driver, history>>
                 /\ fpc' = "halted" /\ status' \in AnyStatus
                 /\ status'.life = "FAULT" /\ status'.activation.state = "INITIALIZING"
<1>1. Panic => /\ status' \in AnyStatus
               /\ status'.life = "FAULT" /\ status'.activation.state = "INITIALIZING"
  BY DEF Panic, ZeroStatus, AnyStatus, ActivationStates, Results
<1> QED BY <1>1 DEF ReadRecord, CheckReplay, Respond, Panic

(* A step of the firmware keeps the types, and leaves the driver and its   *)
(* record alone.                                                           *)
LEMMA TypedFirmware ==
    ASSUME Typed, Firmware
    PROVE  Typed' /\ UNCHANGED <<record, driver>>
<1>0. ASSUME UNCHANGED driver
      PROVE  UNCHANGED <<lpc, scan, id, words>>
  BY <1>0 DEF driver, call
<1> USE DEF Typed, Booting, Handling
<1>1. CASE Boot
  BY Zenon, <1>0, <1>1, BootStep DEF mailbox, history
<1>2. CASE Receive
  BY Zenon, <1>0, <1>2, ReceiveStep
<1>3. CASE ReadRecord
  BY <1>0, <1>3, OtherStep, ReadStep DEF memory, mailbox, history
<1>4. CASE CheckRecord
  BY Zenon, <1>0, <1>4, CheckStep, Constants DEF mailbox, history
<1>5. CASE CheckReplay
  BY Zenon, <1>0, <1>5, OtherStep, Constants DEF memory, mailbox, history
<1>7. CASE Respond
  <2>1. /\ UNCHANGED <<memory, own, snaps, lines, accepted, inbox, driver, grants>>
        /\ fpc' = "receive" /\ envelope' = 0
    BY <1>7, OtherStep
  <2> QED BY Zenon, <1>0, <2>1 DEF memory
<1>8. CASE Panic
  BY Zenon, <1>0, <1>8, OtherStep DEF mailbox, history
<1>6. CASE Activate
  BY Zenon, <1>0, <1>6, ActivateStep, Constants DEF mailbox
<1> QED
  BY Zenon, <1>1, <1>2, <1>3, <1>4, <1>5, <1>6, <1>7, <1>8 DEF Firmware, Handle

(* Where the steps of Linux that write no memory lead.                     *)
LEMMA LinuxStep ==
    ASSUME Typed
    PROVE  /\ Probe =>
                 /\ lpc = "unbound" /\ lpc' = "contract" /\ id' = 0 /\ result' = "none"
                 /\ UNCHANGED <<inbox, scan, words, outcome, held, pads>>
           /\ ReadWord =>
                 /\ lpc \in {"contract", "poll", "final"}
                 /\ UNCHANGED <<inbox, lpc, id, words, result, outcome, held, pads>>
           /\ Callback \/ Expire => UNCHANGED <<inbox, lpc, scan, id, words, result, outcome, held, pads>>
           /\ Turn => /\ lpc = "turn" /\ lpc' = "poll"
                      /\ UNCHANGED <<inbox, scan, id, words, result, outcome, held, pads>>
  BY Zenon DEF Probe, ReadWord, Callback, Expire, Turn, mailbox

(* A step of a driver that leaves the record alone changes nothing of the  *)
(* firmware.                                                               *)
LEMMA TypedBystander ==
    ASSUME Typed, Bystander
    PROVE  /\ Typed'
           /\ UNCHANGED <<memory, firmware, history>>
<1>1. UNCHANGED <<memory, firmware, history>>
  BY Zenon DEF Bystander, Probe, ReadWord, CheckContract, AcquireBoard, RouteBoard, ChooseRequest, Send,
     Callback, Expire, Turn, Evaluate, EvaluateFinal, Register, Unload
<1> DEFINE T == /\ lpc \in Preparing \cup Writing \cup Serving
                /\ id \in 0 .. MaxId /\ (lpc \in Writing \cup {"send"} => id \in Ids)
<1> USE DEF Preparing, Writing, Serving
<1>2. T' /\ inbox' \in Seq(Ids) /\ scan' \in AnyScan /\ words' \subseteq {"generation", "id"}
  <2>0. /\ T /\ inbox \in Seq(Ids) /\ scan \in AnyScan /\ words \subseteq {"generation", "id"}
        /\ MaxId \in Nat \ {0} /\ NoScan \in AnyScan
    BY ActivationAssumption, Constants DEF Typed
  <2>1. CASE Probe
    <3>1. lpc' = "contract" /\ id' = 0 /\ UNCHANGED <<inbox, scan, words>>
      BY <2>1, LinuxStep
    <3> QED BY <2>0, <3>1
  <2>11. CASE Callback \/ Expire \/ Turn
    <3>1. lpc' \in {lpc, "poll"} /\ UNCHANGED <<id, inbox, scan, words>>
      BY <2>11, LinuxStep
    <3> QED BY <2>0, <3>1
  <2>2. CASE ReadWord
    BY Zenon, <2>0, <2>2, Scanned, LinuxStep
  <2>f. ASSUME NEW e, FailProbe(e), UNCHANGED id
        PROVE  T' /\ inbox' \in Seq(Ids) /\ scan' \in AnyScan /\ words' \subseteq {"generation", "id"}
    BY Zenon, <2>0, <2>f, Failed
  <2>3. CASE CheckContract
    BY Zenon, <2>0, <2>3, <2>f DEF CheckContract
  <2>4. CASE AcquireBoard \/ RouteBoard
    BY Zenon, <2>0, <2>4, <2>f DEF AcquireBoard, RouteBoard
  <2>5. CASE ChooseRequest
    <3>1. CASE UNCHANGED id /\ FailProbe("EAGAIN")
      BY <2>f, <3>1
    <3>2. CASE lpc' = "register" /\ EndCall /\ UNCHANGED <<id, inbox>>
      BY <2>0, <3>2 DEF EndCall
    <3>3. CASE lpc' = "revoke" /\ UNCHANGED <<scan, words, inbox>>
               /\ \E random \in 0 .. MaxId : id' = IF random = 0 THEN 1 ELSE random
      <4>1. id' \in Ids /\ id' \in 0 .. MaxId
        BY <2>0, <3>3 DEF Ids
      <4> QED BY <2>0, <3>3, <4>1
    <3> QED BY <2>5, <3>1, <3>2, <3>3 DEF ChooseRequest
  <2>6. CASE Send
    <3>1. CASE inbox' = Append(inbox, id) /\ lpc' = "turn" /\ UNCHANGED <<scan, words, id>>
      <4>1. id \in Ids
        BY <2>0, <2>6 DEF Send
      <4>2. Append(inbox, id) \in Seq(Ids)
        BY <2>0, <4>1
      <4> QED BY <2>0, <3>1, <4>2
    <3> QED BY <2>6, <2>f, <3>1 DEF Send
  <2>7. ASSUME Finish, UNCHANGED id
        PROVE  T' /\ inbox' \in Seq(Ids) /\ scan' \in AnyScan /\ words' \subseteq {"generation", "id"}
    BY <2>0, <2>7 DEF Finish, EndCall
  <2>8. CASE Evaluate
    BY Zenon, <2>0, <2>8, <2>f, <2>7 DEF Evaluate
  <2>9. CASE EvaluateFinal
    BY Zenon, <2>0, <2>9, <2>f, <2>7 DEF EvaluateFinal
  <2>10. CASE Register \/ Unload
    BY Zenon, <2>0, <2>10, Freed DEF Register, Unload, call
  <2> QED BY <2>1, <2>2, <2>3, <2>4, <2>5, <2>6, <2>8, <2>9, <2>10, <2>11 DEF Bystander
<1> QED BY <1>1, <1>2 DEF Typed, memory, firmware, history

(* Writing the record changes the record and the driver's place only.      *)
LEMMA TypedWriter ==
    ASSUME Typed, Writer
    PROVE  /\ Typed'
           /\ UNCHANGED <<status, manifest, firmware, mailbox, id, result, outcome, held, pads, grants>>
<1>0. UNCHANGED <<status, manifest, firmware, mailbox, id, result, outcome, held, pads, grants>>
  BY DEF Writer, RevokeRecord, CopyRecordWord, CommitRecord, history
<1>1. /\ lpc' \in Writing \cup {"send"} /\ lpc \in Writing
      /\ scan' \in AnyScan /\ words' \subseteq {"generation", "id"}
  BY Constants DEF Writer, RevokeRecord, CopyRecordWord, CommitRecord, Writing, Typed
<1>2. record' \in AnyRecord
  <2>1. scan.after.identity.generation \in Nat /\ id \in Nat /\ record \in AnyRecord
    BY ActivationAssumption DEF Typed, AnyScan, AnyStatus
  <2>2. CASE RevokeRecord
    BY Zenon, <2>1, <2>2 DEF RevokeRecord, AnyRecord
  <2>3. CASE CopyRecordWord
    <3>1. PICK w \in words : record' = [record EXCEPT ![w] = IF w = "id" THEN id
                                                        ELSE scan.after.identity.generation]
      BY Zenon, <2>3 DEF CopyRecordWord
    <3>2. w \in {"generation", "id"}
      BY DEF Typed
    <3> QED BY <2>1, <3>1, <3>2 DEF AnyRecord
  <2>4. CASE CommitRecord
    BY Zenon, <2>1, <2>4 DEF CommitRecord, AnyRecord
  <2> QED BY <2>2, <2>3, <2>4 DEF Writer
<1> QED BY <1>0, <1>1, <1>2 DEF Typed, firmware, mailbox, Writing, Serving

(* A boot starts with the status of initial_status.                        *)
LEMMA FirstStatus ==
    \A g \in Nat : /\ InitialStatus(g) \in AnyStatus /\ InitialStatus(g).life = "BOOTING"
                   /\ InitialStatus(g).activation.state = "INITIALIZING"
  BY Constants DEF InitialStatus, ZeroStatus

(* A driver that has read nothing has no running firmware on record.       *)
LEMMA NoScanYet == NoScan.before.life = "FAULT" /\ NoScan.after.activation.state = "INITIALIZING"
                   /\ NoScan.copy = "before"
  BY DEF NoScan, ZeroStatus

(* A reset of both processors.                                             *)
LEMMA RestartStep ==
    ASSUME Typed, WarmReset \/ ColdReset
    PROVE  /\ Typed'
           /\ status' = own' /\ own'.life = "BOOTING" /\ own'.activation.state = "INITIALIZING"
           /\ fpc' = "revoke" /\ lpc' = "unbound" /\ inbox' = <<>> /\ grants' = <<>>
           /\ scan' = NoScan /\ outcome' = "none" /\ result' = "none" /\ held' = FALSE
<1>1. PICK g \in Nat : Restart(g)
  BY DEF WarmReset, ColdReset, Typed, AnyStatus
<1>2. manifest' \in AnyManifest /\ record' \in AnyRecord
  BY Constants DEF WarmReset, ColdReset, Typed
<1>3. /\ status' = InitialStatus(g) /\ own' = InitialStatus(g) /\ fpc' = "revoke" /\ envelope' = 0
      /\ snaps' = NoSnaps /\ lines' = {} /\ accepted' = NoRecord /\ inbox' = <<>>
      /\ lpc' = "unbound" /\ scan' = NoScan /\ words' = {} /\ id' = 0 /\ result' = "none"
      /\ outcome' = "none" /\ held' = FALSE /\ grants' = <<>>
  BY <1>1 DEF Restart, EndCall
<1>4. id' \in 0 .. MaxId
  BY <1>3, ActivationAssumption
<1> QED
  BY <1>2, <1>3, <1>4, FirstStatus, Constants DEF Typed, Booting, Preparing, Writing

-----------------------------------------------------------------------------
(* What Linux reads as ACTIVE is what the firmware accepted.               *)
Truth ==
    /\ status.activation.state = "ACTIVE" => status.activation = own.activation
    /\ scan.after.activation.state = "ACTIVE" => scan.after.activation = own.activation
    /\ own.activation.state = "ACTIVE" => accepted.id = own.activation.id
    /\ fpc \in Booting => own.activation.state = "INITIALIZING"
    /\ fpc \in {"first", "second", "check"} =>
          \/ own.activation.state = "ACTIVE"
          \/ own.activation.state = "VALIDATING" /\ own.activation.id = envelope
    /\ fpc = "activate" =>
          own.activation.state = "ACTIVATING" /\ snaps["first"].id = own.activation.id
    /\ outcome \in {"COMPLETED", "RECOVERED", "ALREADY_ACTIVE"} =>
          lpc \in {"register", "bound"} /\ own.activation.state = "ACTIVE"
    /\ outcome \in {"COMPLETED", "RECOVERED"} => own.activation.id = id

(* The firmware never leaves ACTIVE within a boot, and publishes its own   *)
(* word.                                                                   *)
LEMMA TruthFirmware ==
    ASSUME Typed, Truth, Firmware
    PROVE  Truth'
<1>0. ASSUME UNCHANGED driver
      PROVE  UNCHANGED <<lpc, scan, id, outcome>>
  BY <1>0 DEF driver, call
<1>1. UNCHANGED <<lpc, scan, id, outcome>>
  BY <1>0, TypedFirmware
<1>2. CASE Boot
  BY <1>1, <1>2, BootStep DEF Truth, Booting
<1>3. CASE Receive
  BY <1>1, <1>3, ReceiveStep DEF Truth, Booting, OpenStates
<1>4. CASE ReadRecord
  BY <1>1, <1>4, OtherStep, ReadStep DEF Truth, Booting, memory
<1>5. CASE CheckRecord
  BY <1>1, <1>5, CheckStep DEF Truth, Booting
<1>6. CASE CheckReplay \/ Respond
  BY <1>1, <1>6, OtherStep DEF Truth, Booting, memory
<1>7. CASE Panic
  BY <1>1, <1>7, OtherStep DEF Truth, Booting
<1>8. CASE Activate
  BY <1>1, <1>8, ActivateStep DEF Truth, Booting
<1> QED
  BY <1>2, <1>3, <1>4, <1>5, <1>6, <1>7, <1>8 DEF Firmware, Handle

(* The driver only copies what the firmware published.                     *)
LEMMA TruthLinux ==
    ASSUME Typed, Truth, Bystander \/ Writer
    PROVE  Truth'
<1>1. CASE Writer
  <2>1. UNCHANGED <<status, own, accepted, fpc, envelope, snaps, id, outcome>> /\ lpc \in Writing
    BY <1>1, TypedWriter DEF firmware, Writer, RevokeRecord, CopyRecordWord, CommitRecord, Writing
  <2>2. scan' \in {scan, NoScan}
    BY <1>1 DEF Writer, RevokeRecord, CopyRecordWord, CommitRecord
  <2> QED BY <2>1, <2>2, NoScanYet DEF Truth, Writing
<1>2. CASE Bystander
  <2>0. UNCHANGED <<status, own, accepted, fpc, envelope, snaps>>
    BY <1>2, TypedBystander DEF memory, firmware
  <2> DEFINE S == scan'.after.activation \in {scan.after.activation, status.activation} \/ scan' = NoScan
             O == \/ outcome' \notin {"COMPLETED", "RECOVERED", "ALREADY_ACTIVE"}
                  \/ outcome' = outcome /\ id' = id /\ lpc' \in {lpc, "bound"}
                  \/ /\ lpc' = "register" /\ scan.after.activation.state = "ACTIVE"
                     /\ outcome' \in {"COMPLETED", "RECOVERED"} => scan.after.activation.id = id'
  <2>1. lpc \notin {"register", "bound"} =>
           outcome \notin {"COMPLETED", "RECOVERED", "ALREADY_ACTIVE"}
    BY DEF Truth
  <2>2. ASSUME NEW e, FailProbe(e)
        PROVE  S /\ O
    BY Zenon, <2>2, Failed
  <2>3. ASSUME NEW r, NEW b, Terminal(r, b) = "none", Finish, UNCHANGED id
        PROVE  S /\ O
    BY <2>3 DEF Terminal, ThisRequest, Finish, EndCall
  <2>9. S /\ O
    <3>1. CASE Probe \/ Callback \/ Expire \/ Turn
      BY <2>1, <3>1, LinuxStep
    <3>2. CASE ReadWord
      BY <3>2, LinuxStep, Scanned
    <3>3. CASE CheckContract \/ AcquireBoard \/ RouteBoard
      BY <2>1, <2>2, <3>3 DEF CheckContract, AcquireBoard, RouteBoard
    <3>4. CASE ChooseRequest
      BY <2>1, <2>2, <3>4 DEF ChooseRequest, ValidateActive, EndCall
    <3>5. CASE Send
      BY <2>1, <2>2, <3>5 DEF Send
    <3>6. CASE Evaluate
      BY Zenon, <2>1, <2>2, <2>3, <3>6 DEF Evaluate
    <3>7. CASE EvaluateFinal
      BY Zenon, <2>1, <2>2, <2>3, <3>7 DEF EvaluateFinal
    <3>8. CASE Register \/ Unload
      BY Zenon, <3>8 DEF Register, Unload, call
    <3> QED
      BY <1>2, <3>1, <3>2, <3>3, <3>4, <3>5, <3>6, <3>7, <3>8 DEF Bystander
  <2> QED BY <2>0, <2>9, NoScanYet DEF Truth
<1> QED BY <1>1, <1>2
-----------------------------------------------------------------------------
(* RUNNING is published after the manifest was committed, so a snapshot    *)
(* that read it first finds the commit.                                    *)
Booted ==
    /\ fpc \in Booting => own.life = "BOOTING" /\ status.life = "BOOTING"
    /\ fpc \notin {"revoke", "body", "commit", "halted"} => manifest.commit
    /\ status.life = "RUNNING" => manifest.commit /\ fpc \notin Booting
    /\ scan.before.life = "RUNNING" => manifest.commit /\ fpc \notin Booting
    /\ scan.before.life = "RUNNING" /\ scan.copy \in {"second", "after"} => scan.first.commit
    /\ result # "EPROTO"

(* The boot commits the manifest before it publishes RUNNING.              *)
LEMMA BootedFirmware ==
    ASSUME Typed, Booted, Firmware
    PROVE  Booted'
<1>1. UNCHANGED <<scan, result>>
  <2>1. UNCHANGED driver
    BY TypedFirmware
  <2> QED BY <2>1 DEF driver, call
<1>2. CASE Boot
  BY <1>1, <1>2, BootStep DEF Booted, Booting
<1>3. CASE Receive
  BY <1>1, <1>3, ReceiveStep DEF Booted, Booting
<1>4. CASE ReadRecord
  BY <1>1, <1>4, OtherStep, ReadStep DEF Booted, Booting, memory
<1>5. CASE CheckRecord
  BY <1>1, <1>5, CheckStep DEF Booted, Booting
<1>6. CASE CheckReplay \/ Respond
  BY <1>1, <1>6, OtherStep DEF Booted, Booting, memory
<1>7. CASE Panic
  BY <1>1, <1>7, OtherStep DEF Booted, Booting
<1>8. CASE Activate
  BY <1>1, <1>8, ActivateStep DEF Booted, Booting
<1> QED
  BY <1>2, <1>3, <1>4, <1>5, <1>6, <1>7, <1>8 DEF Firmware, Handle

(* A snapshot that began in RUNNING reads a committed manifest, so the     *)
(* driver reports no mismatch.                                             *)
LEMMA BootedLinux ==
    ASSUME Typed, Booted, Bystander \/ Writer
    PROVE  Booted'
<1>0. UNCHANGED <<status, manifest, own, fpc>>
  BY TypedBystander, TypedWriter DEF memory, firmware
<1> DEFINE S == scan' \in {scan, NoScan} /\ result' # "EPROTO"
<1>1. ASSUME S PROVE Booted'
  BY <1>0, <1>1, NoScanYet DEF Booted
<1>2. CASE ReadWord
  BY <1>0, <1>2, LinuxStep, Scanned DEF Booted, Typed, AnyScan
<1>3. result # "EPROTO"
  BY DEF Booted
<1>4. ASSUME NEW e, FailProbe(e), e # "EPROTO" PROVE S
  BY Zenon, <1>4, Failed
<1>5. ASSUME ScanComplete PROVE Contract # "EPROTO"
  BY <1>5 DEF ScanComplete, Contract, Booted
<1>6. CASE Writer
  <2>1. scan' \in {scan, NoScan} /\ UNCHANGED result
    BY <1>6 DEF Writer, RevokeRecord, CopyRecordWord, CommitRecord
  <2> QED BY <1>1, <1>3, <2>1
<1>7. CASE Probe \/ Callback \/ Expire \/ Turn
  BY <1>1, <1>3, <1>7, LinuxStep
<1>8. CASE CheckContract
  <2>1. S
    BY <1>3, <1>4, <1>5, <1>8 DEF CheckContract, SnapshotResults
  <2> QED BY <1>1, <2>1
<1>9. CASE AcquireBoard \/ RouteBoard \/ ChooseRequest \/ Send
  <2>1. S
    BY <1>3, <1>4, <1>9 DEF AcquireBoard, RouteBoard, ChooseRequest, Send, EndCall
  <2> QED BY <1>1, <2>1
<1>10. ASSUME Finish PROVE S
  BY <1>3, <1>10 DEF Finish, EndCall
<1>11. ASSUME ScanComplete, NEW r \in SnapshotResults, NEW b
       PROVE  Terminal(r, b) # "EPROTO"
  BY <1>5, <1>11 DEF SnapshotResults, Terminal
<1>12. CASE Evaluate
  <2>1. S
    BY Zenon, <1>3, <1>4, <1>10, <1>11, <1>12 DEF Evaluate
  <2> QED BY <1>1, <2>1
<1>13. CASE EvaluateFinal
  <2>1. S
    BY Zenon, <1>4, <1>10, <1>11, <1>13 DEF EvaluateFinal
  <2> QED BY <1>1, <2>1
<1>14. CASE Register \/ Unload
  <2>1. S
    BY <1>3, <1>14 DEF Register, Unload, call
  <2> QED BY <1>1, <2>1
<1> QED
  BY <1>2, <1>6, <1>7, <1>8, <1>9, <1>12, <1>13, <1>14 DEF Bystander
-----------------------------------------------------------------------------
(* A request is in flight only from a prepared board, which stays held.    *)
Prepared ==
    /\ held \in BOOLEAN
    /\ held => pads = "lcd" /\ lpc \notin Preparing
    /\ Board = "picoclaw" /\ lpc \in Writing \cup Serving => held
    /\ Board = "picoclaw" /\ (inbox # <<>> \/ fpc \in Handling \/ grants # <<>>) => held
    /\ lpc \in {"acquire", "route"} => Board = "picoclaw"

(* The firmware handles and grants only what is in the mailbox.            *)
LEMMA PreparedFirmware ==
    ASSUME Typed, Prepared, Firmware
    PROVE  Prepared'
<1>1. UNCHANGED <<lpc, held, pads>>
  <2>1. UNCHANGED driver
    BY TypedFirmware
  <2> QED BY <2>1 DEF driver
<1>2. /\ inbox' # <<>> => inbox # <<>>
      /\ fpc' \in Handling => fpc \in Handling \/ inbox # <<>>
      /\ grants' # <<>> => grants # <<>> \/ fpc \in Handling
  <2>1. CASE Boot
    BY <2>1, BootStep DEF mailbox, history, Booting, Handling
  <2>2. CASE Receive
    BY <2>2, ReceiveStep
  <2>3. CASE ReadRecord \/ CheckReplay \/ Respond \/ Panic
    BY <2>3, OtherStep DEF mailbox, history, Handling
  <2>4. CASE CheckRecord
    BY <2>4, CheckStep DEF mailbox, history, Handling
  <2>5. CASE Activate
    BY <2>5, ActivateStep DEF mailbox, Handling
  <2> QED
    BY <2>1, <2>2, <2>3, <2>4, <2>5 DEF Firmware, Handle
<1> QED BY <1>1, <1>2 DEF Prepared, Board

(* The driver holds the board before it sends, and does not release it.    *)
LEMMA PreparedLinux ==
    ASSUME Typed, Prepared, Bystander \/ Writer
    PROVE  Prepared'
<1> USE DEF Preparing, Writing, Serving
<1>0. UNCHANGED <<fpc, grants>>
  BY TypedBystander, TypedWriter DEF firmware, history
<1>1. CASE Writer
  <2>1. UNCHANGED <<inbox, held, pads>> /\ lpc \in Writing /\ lpc' \in Writing \cup {"send"}
    BY <1>1, TypedWriter DEF mailbox, Writer, RevokeRecord, CopyRecordWord, CommitRecord
  <2> QED BY <1>0, <2>1 DEF Prepared, Board
<1>2. CASE Probe \/ ReadWord \/ Callback \/ Expire \/ Turn
  BY <1>0, <1>2, LinuxStep DEF Prepared, Board
<1>3. ASSUME NEW e, FailProbe(e), UNCHANGED pads PROVE Prepared'
  BY Zenon, <1>0, <1>3, Failed DEF Prepared, Board
<1>4. CASE CheckContract
  BY <1>0, <1>3, <1>4 DEF CheckContract, Prepared, Board
<1>5. CASE AcquireBoard
  BY <1>0, <1>3, <1>5 DEF AcquireBoard, Prepared, Board
<1>6. CASE RouteBoard
  <2>1. ~held /\ inbox = <<>> /\ fpc \notin Handling /\ grants = <<>> /\ Board = "picoclaw"
    BY <1>6 DEF RouteBoard, Prepared
  <2>2. CASE pads' = "partial" /\ FailProbe("OTHER")
    BY Zenon, <1>0, <2>1, <2>2, Failed DEF Prepared, Board
  <2>3. CASE pads' = "lcd" /\ held' = TRUE /\ lpc' = "choose" /\ UNCHANGED inbox
    BY <1>0, <2>1, <2>3 DEF Prepared, Board
  <2> QED BY <1>6, <2>2, <2>3 DEF RouteBoard
<1>7. CASE ChooseRequest
  BY <1>0, <1>3, <1>7 DEF ChooseRequest, Prepared, Board
<1>8. CASE Send
  BY <1>0, <1>3, <1>8 DEF Send, Prepared, Board
<1>9. ASSUME Finish, UNCHANGED pads, lpc \in {"poll", "final"} PROVE Prepared'
  BY <1>0, <1>9 DEF Finish, Prepared, Board
<1>10. CASE Evaluate
  <2>1. ASSUME lpc = "poll", lpc' \in {"final", "turn"}, UNCHANGED <<held, inbox, pads>>
        PROVE  Prepared'
    BY <1>0, <2>1 DEF Prepared, Board
  <2> QED BY Zenon, <1>3, <1>9, <1>10, <2>1 DEF Evaluate
<1>11. CASE EvaluateFinal
  BY Zenon, <1>3, <1>9, <1>11 DEF EvaluateFinal
<1>12. CASE Register \/ Unload
  BY <1>0, <1>12, Freed DEF Register, Unload, RetainBoard, Prepared, Board, Typed
<1> QED
  BY <1>1, <1>2, <1>4, <1>5, <1>6, <1>7, <1>8, <1>10, <1>11, <1>12 DEF Bystander
-----------------------------------------------------------------------------
Inv == Typed /\ Truth /\ Booted /\ Prepared

(* The initial state satisfies the invariant.                              *)
LEMMA Initial ==
    ASSUME Init
    PROVE  /\ Inv /\ status = own /\ own.activation.state = "INITIALIZING" /\ fpc = "revoke"
           /\ lpc = "unbound" /\ scan = NoScan /\ grants = <<>>
<1>1. /\ status = own /\ own = InitialStatus(1) /\ fpc = "revoke" /\ lpc = "unbound"
      /\ inbox = <<>> /\ grants = <<>> /\ scan = NoScan /\ outcome = "none" /\ result = "none"
      /\ held = FALSE
  BY DEF Init
<1>2. own \in AnyStatus /\ own.life = "BOOTING" /\ own.activation.state = "INITIALIZING"
  BY <1>1, FirstStatus
<1>3. Typed
  <2>1. id \in 0 .. MaxId
    BY ActivationAssumption DEF Init
  <2> QED BY <1>1, <1>2, <2>1, Constants DEF Init, Typed, Booting, Preparing, Writing
<1>4. Truth /\ Booted
  BY <1>1, <1>2, NoScanYet DEF Truth, Booted, Booting
<1>5. Prepared
  BY Zenon, <1>1 DEF Prepared, Preparing, Writing, Serving, Handling
<1> QED BY <1>1, <1>2, <1>3, <1>4, <1>5 DEF Inv

(* Every step keeps the invariant.                                         *)
LEMMA Inductive == Inv /\ [Next]_vars => Inv'
<1> SUFFICES ASSUME Inv, [Next]_vars PROVE Inv'
  OBVIOUS
<1>0. Typed /\ Truth /\ Booted /\ Prepared
  BY DEF Inv
<1>1. CASE Firmware
  BY <1>0, <1>1, TypedFirmware, TruthFirmware, BootedFirmware, PreparedFirmware DEF Inv
<1>2. CASE Bystander \/ Writer
  BY <1>0, <1>2, TypedBystander, TypedWriter, TruthLinux, BootedLinux, PreparedLinux DEF Inv
<1>3. CASE WarmReset \/ ColdReset
  <2>1. /\ Typed'
        /\ status' = own' /\ own'.life = "BOOTING" /\ own'.activation.state = "INITIALIZING"
        /\ fpc' = "revoke" /\ lpc' = "unbound" /\ inbox' = <<>> /\ grants' = <<>>
        /\ scan' = NoScan /\ outcome' = "none" /\ result' = "none" /\ held' = FALSE
    BY Zenon, <1>0, <1>3, RestartStep
  <2>2. Truth' /\ Booted'
    BY <2>1, NoScanYet DEF Truth, Booted, Booting
  <2>3. Prepared'
    BY Zenon, <2>1 DEF Prepared, Preparing, Writing, Serving, Handling
  <2> QED BY <2>1, <2>2, <2>3 DEF Inv
<1>4. CASE UNCHANGED vars
  <2>1. UNCHANGED <<memory, firmware, mailbox, history>> /\ UNCHANGED driver
    BY <1>4 DEF vars
  <2>2. Typed'
    BY <1>0, <2>1 DEF memory, firmware, mailbox, history, driver, call, Typed
  <2>3. Truth' /\ Booted'
    BY <1>0, <2>1 DEF memory, firmware, driver, call, Truth, Booted
  <2>4. Prepared'
    BY <1>0, <2>1 DEF firmware, mailbox, history, driver, Prepared, Board
  <2> QED BY <2>2, <2>3, <2>4 DEF Inv
<1> QED BY <1>1, <1>2, <1>3, <1>4, Actors

(* The invariant holds in every reachable state.                           *)
LEMMA Invariant == Spec => []Inv
<1>1. Init => Inv
  BY Initial
<1> QED BY <1>1, Inductive, PTL DEF Spec

(* A driver that reports an activation tells the truth, also about whose   *)
(* request it was, for any modulus of the envelope's sequence              *)
(* (sg2002_activation_terminal).                                           *)
THEOREM Truthful == Spec => []OutcomeTruthful
<1>1. Inv => OutcomeTruthful
  BY DEF Inv, Truth, OutcomeTruthful
<1> QED BY <1>1, Invariant, PTL

(* The board stays prepared while the firmware drives leased pins, however *)
(* the probe ended (the retained branch of sg2002_c906l_probe).            *)
THEOREM Held == Spec => []BoardHeld
<1>1. Inv => BoardHeld
  BY DEF Inv, Prepared, BoardHeld
<1> QED BY <1>1, Invariant, PTL

(* No snapshot of a boot in progress is taken for a contract mismatch      *)
(* (sg2002_read_contract_snapshot).                                        *)
THEOREM Diagnosed == Spec => []NeverMisdiagnosed
<1>1. Inv => NeverMisdiagnosed
  BY DEF Inv, Booted, NeverMisdiagnosed
<1> QED BY <1>1, Invariant, PTL
-----------------------------------------------------------------------------
(* LeaseAuthorized: what two snapshots of a record that is being written   *)
(* again can agree on.                                                     *)

(* A driver that may yet write the record: one that is writing it, or that *)
(* has read a status from which a request may be made.                     *)
Eligible ==
    \/ lpc \in Writing
    \/ lpc \in {"contract", "acquire", "route", "choose"}
       /\ scan.after.activation.state \in OpenStates

(* The identifier in the record is the one about to be committed.          *)
Replacing == lpc = "commit" \/ (lpc = "copy" /\ "id" \notin words)

Validating == fpc \in {"first", "second", "check"} /\ own.activation.state = "VALIDATING"

(* Only the driver that writes it makes the record valid, and no driver    *)
(* begins to write it while the firmware validates one.                    *)
Written ==
    /\ lpc \in {"unbound", "register", "bound"} => scan = NoScan
    /\ lpc \in {"copy", "commit"} => ~record.commit
    /\ Replacing => record.id = id
    /\ fpc \in Handling => envelope # 0
    /\ status.activation.state \in OpenStates => own.activation.state \in OpenStates
    /\ Validating /\ record.commit => record.id \in stood

(* What the two snapshots can hold while the record is written again.      *)
Snapshots ==
    /\ Validating /\ fpc = "first" =>
          /\ CommitLine \notin lines /\ snaps["first"].commit =>
                record.commit \/ Replacing \/ (lpc = "copy" /\ record.id \in stood)
          /\ IdLine \notin lines =>
                snaps["first"].id \in stood \/ ~record.commit \/ ~Eligible
    /\ Validating /\ fpc = "second" /\ snaps["first"].commit =>
          \/ snaps["first"].id \in stood
          \/ /\ Replacing /\ snaps["first"].id = id
             /\ CommitLine \notin lines => ~snaps["second"].commit
          \/ /\ ~Eligible /\ record.commit
             /\ IdLine \notin lines => snaps["second"].id \in stood
    /\ Validating /\ fpc = "check" /\ snaps["first"].commit /\ snaps["first"] = snaps["second"] =>
          snaps["first"].id \in stood
    /\ fpc = "activate" => snaps["first"].id \in stood

Once == grants # <<>> => own.activation.state \in {"ACTIVE", "LEASE_FAULT"}

(* The firmware grants the leases only from a state it does not come back  *)
(* to.                                                                     *)
LEMMA OnceKept ==
    ASSUME Typed, Truth, Once, Firmware \/ Bystander \/ Writer
    PROVE  Once'
<1>1. CASE Boot
  BY <1>1, BootStep DEF Once, Truth, history, Booting
<1>2. CASE Receive
  BY <1>2, ReceiveStep DEF Once, OpenStates
<1>3. CASE ReadRecord \/ CheckReplay \/ Respond \/ Panic
  BY <1>3, OtherStep DEF Once, history
<1>4. CASE CheckRecord
  BY <1>4, CheckStep DEF Once, history
<1>5. CASE Activate
  BY <1>5, ActivateStep DEF Once
<1>6. CASE Bystander \/ Writer
  BY Zenon, <1>6, TypedBystander, TypedWriter DEF Once, history, firmware
<1> QED
  BY <1>1, <1>2, <1>3, <1>4, <1>5, <1>6 DEF Firmware, Handle

(* The firmware starts to validate from a state that no longer invites a   *)
(* driver to write.                                                        *)
LEMMA WrittenFirmware ==
    ASSUME Typed, Truth, Written, Firmware
    PROVE  Written'
<1>1. UNCHANGED <<lpc, scan, id, words, record>>
  <2>1. UNCHANGED driver /\ UNCHANGED record
    BY Zenon, TypedFirmware
  <2> QED BY <2>1 DEF driver, call
<1> USE DEF Written, Replacing, Validating, OpenStates, Handling
<1>2. CASE Boot
  BY Zenon, <1>1, <1>2, BootStep DEF Booting, Truth
<1>3. CASE Receive
  BY <1>1, <1>3, ReceiveStep
<1>4. CASE ReadRecord
  BY Zenon, <1>1, <1>4, OtherStep, ReadStep DEF memory, history
<1>5. CASE CheckRecord
  BY Zenon, <1>1, <1>5, CheckStep
<1>6. CASE CheckReplay \/ Respond
  BY <1>1, <1>6, OtherStep DEF memory
<1>7. CASE Panic
  BY <1>1, <1>7, OtherStep
<1>8. CASE Activate
  BY <1>1, <1>8, ActivateStep
<1> QED
  BY <1>2, <1>3, <1>4, <1>5, <1>6, <1>7, <1>8 DEF Firmware, Handle

(* The steps of Linux that write no memory neither start nor stop writing  *)
(* the record, and make a driver eligible only by an open status.          *)
LEMMA Harmless ==
    ASSUME Typed, Written, Bystander
    PROVE  /\ lpc' \in {"unbound", "register", "bound"} => scan' = NoScan
           /\ lpc' \in {"copy", "commit"} => UNCHANGED <<lpc, id, words>>
           /\ lpc \in {"copy", "commit"} => UNCHANGED <<lpc, id, words>>
           /\ Eligible' => Eligible \/ status.activation.state \in OpenStates
<1> USE DEF Eligible, Writing, Written
<1>1. CASE Probe \/ Callback \/ Expire \/ Turn
  BY <1>1, LinuxStep, NoScanYet DEF OpenStates
<1>2. CASE ReadWord
  BY <1>2, LinuxStep, Scanned
<1>f. ASSUME NEW e, FailProbe(e), lpc \notin {"copy", "commit"}
      PROVE  /\ lpc' \in {"unbound", "register", "bound"} => scan' = NoScan
             /\ lpc' \notin {"copy", "commit"} /\ ~Eligible'
  BY Zenon, <1>f, Failed
<1>3. CASE CheckContract \/ AcquireBoard \/ RouteBoard
  BY Zenon, <1>3, <1>f DEF CheckContract, AcquireBoard, RouteBoard
<1>4. CASE ChooseRequest
  BY Zenon, <1>4, <1>f DEF ChooseRequest, EndCall, ValidateActivationSource, OpenStates
<1>5. CASE Send
  BY Zenon, <1>5, <1>f DEF Send
<1>6. ASSUME Finish
      PROVE  lpc' = "register" /\ scan' = NoScan
  BY <1>6 DEF Finish, EndCall
<1>7. CASE Evaluate
  BY Zenon, <1>7, <1>f, <1>6 DEF Evaluate
<1>8. CASE EvaluateFinal
  BY Zenon, <1>8, <1>f, <1>6 DEF EvaluateFinal
<1>9. CASE Register \/ Unload
  BY Zenon, <1>9 DEF Register, Unload, call
<1> QED
  BY Zenon, <1>1, <1>2, <1>3, <1>4, <1>5, <1>7, <1>8, <1>9 DEF Bystander

(* The steps of sg2002_write_activation_request.                           *)
LEMMA WriteStep ==
    ASSUME Typed
    PROVE  /\ RevokeRecord =>
                 /\ lpc = "revoke" /\ lpc' = "copy" /\ words' = {"generation", "id"}
                 /\ ~record'.commit /\ record'.id = record.id /\ UNCHANGED <<scan, stood>>
           /\ CopyRecordWord =>
                 /\ lpc = "copy" /\ lpc' \in {"copy", "commit"} /\ UNCHANGED <<scan, stood>>
                 /\ record'.commit = record.commit
                 /\ \/ record'.id = id /\ "id" \notin words'
                    \/ record'.id = record.id /\ ("id" \in words' <=> "id" \in words)
                 /\ lpc' = "commit" => "id" \notin words'
           /\ CommitRecord =>
                 /\ lpc = "commit" /\ lpc' = "send" /\ scan' = NoScan
                 /\ record'.commit /\ record'.id = record.id
                 /\ stood \subseteq stood' /\ (envelope # 0 => id \in stood')
<1>0. record \in AnyRecord /\ words \subseteq {"generation", "id"}
  BY DEF Typed
<1>1. ASSUME RevokeRecord
      PROVE  ~record'.commit /\ record'.id = record.id
  BY <1>0, <1>1 DEF RevokeRecord, AnyRecord
<1>2. ASSUME CopyRecordWord
      PROVE  /\ record'.commit = record.commit
             /\ \/ record'.id = id /\ "id" \notin words'
                \/ record'.id = record.id /\ ("id" \in words' <=> "id" \in words)
             /\ lpc' = "commit" => "id" \notin words'
  <2>1. PICK w \in words :
           /\ record' = [record EXCEPT ![w] = IF w = "id" THEN id ELSE scan.after.identity.generation]
           /\ words' = words \ {w} /\ lpc' = IF words = {w} THEN "commit" ELSE "copy"
    BY Zenon, <1>2 DEF CopyRecordWord
  <2>2. CASE w = "id"
    BY <1>0, <2>1, <2>2 DEF AnyRecord
  <2>3. CASE w = "generation"
    BY <1>0, <2>1, <2>3 DEF AnyRecord
  <2> QED BY <1>0, <2>2, <2>3
<1>3. ASSUME CommitRecord
      PROVE  record'.commit /\ record'.id = record.id
  BY <1>0, <1>3 DEF CommitRecord, AnyRecord
<1> QED BY <1>1, <1>2, <1>3 DEF RevokeRecord, CopyRecordWord, CommitRecord, history

(* A driver writes the record only after it read a status that invites it, *)
(* and commits it last.                                                    *)
LEMMA WrittenLinux ==
    ASSUME Typed, Written, Bystander \/ Writer
    PROVE  Written'
<1> USE DEF Written, Replacing, Validating, Handling
<1>1. CASE Bystander
  <2>1. UNCHANGED <<status, record, own, fpc, envelope, stood>>
    BY <1>1, TypedBystander DEF memory, firmware, history
  <2> QED BY <1>1, <2>1, Harmless
<1>2. CASE Writer
  <2>1. UNCHANGED <<status, own, fpc, envelope, id>>
    BY <1>2, TypedWriter DEF firmware
  <2>2. CASE RevokeRecord
    BY <2>1, <2>2, WriteStep
  <2>3. CASE CopyRecordWord
    BY <2>1, <2>3, WriteStep
  <2>4. CASE CommitRecord
    BY <2>1, <2>4, WriteStep
  <2> QED BY <1>2, <2>2, <2>3, <2>4 DEF Writer
<1> QED BY <1>1, <1>2

(* The lines of the two snapshots, in either order, and the comparison.    *)
LEMMA SnapshotsFirmware ==
    ASSUME Typed, Truth, Written, Snapshots, Firmware
    PROVE  Snapshots'
<1>1. UNCHANGED <<lpc, scan, id, words, record>>
  <2>1. UNCHANGED driver /\ UNCHANGED record
    BY TypedFirmware
  <2> QED BY <2>1 DEF driver, call
<1>2. UNCHANGED Replacing /\ UNCHANGED Eligible
  BY <1>1 DEF Replacing, Eligible
<1>3. CASE Boot \/ Respond \/ CheckReplay \/ Panic \/ Activate
  BY Zenon, <1>3, BootStep, OtherStep, ActivateStep DEF Snapshots, Validating, Booting
<1>4. CASE Receive
  BY Zenon, <1>4, ReceiveStep, TwoLines DEF Snapshots, Validating
<1>5. CASE CheckRecord
  BY Zenon, <1>5, CheckStep DEF Snapshots, Validating, history
<1>6. CASE ReadRecord
  <2>0. UNCHANGED <<own, stood>> /\ lines \subseteq {IdLine, CommitLine} /\ IdLine # CommitLine
    BY Zenon, <1>6, OtherStep, TwoLines DEF history, Typed
  <2>1. CASE fpc = "first" /\ ReadLine("first", "second")
    <3>1. PICK l \in lines :
             /\ \/ l = IdLine /\ snaps'["first"].id = record.id
                   /\ snaps'["first"].commit = snaps["first"].commit
                \/ l = CommitLine /\ snaps'["first"].commit = record.commit
                   /\ snaps'["first"].id = snaps["first"].id
             /\ \/ lines = {l} /\ fpc' = "second" /\ lines' = {IdLine, CommitLine}
                \/ lines # {l} /\ fpc' = fpc /\ lines' = lines \ {l}
      BY <2>1, ReadStep, TwoLines
    <3>2. CASE fpc' = "first"
      BY Zenon, <1>1, <1>2, <2>0, <2>1, <3>1, <3>2 DEF Snapshots, Written, Validating
    <3>3. CASE fpc' = "second"
      <4>1. /\ fpc = "first" /\ lines = {l} /\ lines' = {IdLine, CommitLine}
            /\ Validating' => Validating
        BY <1>1, <2>0, <2>1, <3>1, <3>3 DEF Validating
      <4>2. SUFFICES ASSUME Validating, snaps'["first"].commit
                     PROVE  \/ snaps'["first"].id \in stood
                            \/ Replacing /\ snaps'["first"].id = id
                            \/ ~Eligible /\ record.commit
        BY Zenon, <1>1, <1>2, <2>0, <3>3, <4>1 DEF Snapshots
      <4>3. CASE l = IdLine
        BY Zenon, <2>0, <3>1, <4>1, <4>2, <4>3 DEF Snapshots, Written
      <4>4. CASE l = CommitLine
        BY Zenon, <2>0, <3>1, <4>1, <4>2, <4>4 DEF Snapshots
      <4> QED BY Zenon, <3>1, <4>3, <4>4
    <3> QED BY <2>1, <3>1, <3>2, <3>3
  <2>2. CASE fpc = "second" /\ ReadLine("second", "check")
    <3>1. /\ snaps'["first"] = snaps["first"]
          /\ \E l \in lines :
                /\ \/ l = IdLine /\ snaps'["second"].id = record.id
                      /\ snaps'["second"].commit = snaps["second"].commit
                   \/ l = CommitLine /\ snaps'["second"].commit = record.commit
                      /\ snaps'["second"].id = snaps["second"].id
                /\ \/ lines = {l} /\ fpc' = "check"
                   \/ lines # {l} /\ fpc' = fpc /\ lines' = lines \ {l}
      BY <2>2, ReadStep
    <3>2. CASE fpc' = "second"
      BY Zenon, <1>1, <1>2, <2>0, <2>2, <3>1, <3>2 DEF Snapshots, Written, Validating, Replacing
    <3>3. CASE fpc' = "check"
      <4>1. PICK l \in lines :
               /\ \/ l = IdLine /\ snaps'["second"].id = record.id
                     /\ snaps'["second"].commit = snaps["second"].commit
                  \/ l = CommitLine /\ snaps'["second"].commit = record.commit
                     /\ snaps'["second"].id = snaps["second"].id
               /\ lines = {l}
        BY Zenon, <2>2, <3>1, <3>3
      <4>2. fpc = "second" /\ (Validating' => Validating) /\ (Replacing => ~record.commit)
        BY <1>1, <2>0, <2>2, <3>3 DEF Validating, Replacing, Written
      <4>3. SUFFICES ASSUME Validating, snaps["first"].commit, snaps["first"] = snaps'["second"]
                     PROVE  snaps["first"].id \in stood
        BY Zenon, <1>1, <1>2, <2>0, <3>1, <3>3, <4>2 DEF Snapshots
      <4>4. CASE l = IdLine
        BY Zenon, <2>0, <4>1, <4>2, <4>3, <4>4 DEF Snapshots, Written
      <4>5. CASE l = CommitLine
        BY Zenon, <2>0, <4>1, <4>2, <4>3, <4>5 DEF Snapshots
      <4> QED BY Zenon, <4>1, <4>4, <4>5
    <3> QED BY Zenon, <2>2, <3>1, <3>2, <3>3
  <2> QED BY <1>6, <2>1, <2>2, OtherStep
<1> QED
  BY <1>3, <1>4, <1>5, <1>6 DEF Firmware, Handle

(* The record rewritten between two lines of the snapshots.                *)
LEMMA SnapshotsLinux ==
    ASSUME Typed, Written, Snapshots, Bystander \/ Writer
    PROVE  Snapshots'
<1>1. CASE Bystander
  <2>1. UNCHANGED <<status, record, own, fpc, envelope, snaps, lines, stood>>
    BY <1>1, TypedBystander DEF memory, firmware, history
  <2>2. Validating => (Eligible' => Eligible)
    BY <1>1, Harmless DEF Written, Validating, OpenStates
  <2>3. /\ Replacing <=> Replacing'
        /\ Replacing => id' = id
        /\ lpc = "copy" => lpc' = "copy"
    BY <1>1, Harmless DEF Replacing
  <2> QED BY Zenon, <2>1, <2>2, <2>3 DEF Snapshots, Validating
<1>2. CASE Writer
  <2>1. UNCHANGED <<own, fpc, envelope, snaps, lines, id>>
    BY <1>2, TypedWriter DEF firmware
  <2>2. Validating => envelope # 0
    BY DEF Written, Validating, Handling
  <2>3. Eligible
    BY <1>2, WriteStep DEF Writer, Eligible, Writing
  <2>4. CASE RevokeRecord
    BY Zenon, <2>1, <2>3, <2>4, WriteStep DEF Snapshots, Written, Validating, Replacing
  <2>5. CASE CopyRecordWord
    BY Zenon, <2>1, <2>3, <2>5, WriteStep DEF Snapshots, Written, Validating, Replacing
  <2>6. CASE CommitRecord
    <3>1. ~Eligible'
      BY <2>6, WriteStep DEF Eligible, Writing
    <3> QED BY Zenon, <2>1, <2>2, <2>3, <2>6, <3>1, WriteStep DEF Snapshots, Written, Validating, Replacing
  <2> QED BY <1>2, <2>4, <2>5, <2>6 DEF Writer
<1> QED BY <1>1, <1>2
-----------------------------------------------------------------------------
Authority == Once /\ Written /\ Snapshots

(* Every step keeps what the authority of a grant rests on.                *)
LEMMA AuthorityKept == Inv /\ Authority /\ [Next]_vars => Authority'
<1> SUFFICES ASSUME Inv, Authority, [Next]_vars PROVE Authority'
  OBVIOUS
<1>0. Typed /\ Truth /\ Once /\ Written /\ Snapshots
  BY DEF Inv, Authority
<1>1. CASE Firmware
  BY <1>0, <1>1, OnceKept, WrittenFirmware, SnapshotsFirmware DEF Authority
<1>2. CASE Bystander \/ Writer
  BY <1>0, <1>2, OnceKept, WrittenLinux, SnapshotsLinux DEF Authority
<1>3. CASE WarmReset \/ ColdReset
  <2>1. /\ status' = own' /\ own'.activation.state = "INITIALIZING" /\ fpc' = "revoke"
        /\ lpc' = "unbound" /\ scan' = NoScan /\ grants' = <<>>
    BY Zenon, <1>0, <1>3, RestartStep
  <2> QED BY Zenon, <2>1 DEF Authority, Once, Written, Snapshots, Replacing, Validating, OpenStates, Handling
<1>4. CASE UNCHANGED vars
  <2>1. UNCHANGED <<memory, firmware, history>> /\ UNCHANGED driver
    BY <1>4 DEF vars
  <2>2. Once' /\ Written'
    BY Zenon, <1>0, <2>1 DEF memory, firmware, history, driver, call, Once, Written, Replacing, Validating
  <2>3. Snapshots'
    BY Zenon, <1>0, <2>1 DEF memory, firmware, history, driver, call, Snapshots, Replacing, Validating, Eligible
  <2> QED BY <2>2, <2>3 DEF Authority
<1> QED BY <1>1, <1>2, <1>3, <1>4, Actors

(* It holds in every reachable state.                                      *)
LEMMA Authorization == Spec => []Authority
<1>1. Init => Authority
  BY Initial DEF Authority, Once, Written, Snapshots, Replacing, Validating, OpenStates, Handling
<1> QED BY <1>1, Invariant, AuthorityKept, PTL DEF Spec

(* However often both processors restart, the driver is loaded and the     *)
(* record is written again, the leases are activated at most once in a     *)
(* boot, and only for a request that stood committed while its envelope    *)
(* was handled (handle, read_pair, sg2002_write_activation_request).       *)
THEOREM Authorized == Spec => LeaseAuthorized
<1>1. ASSUME Inv, Authority, [Next]_vars, Len(grants') > Len(grants)
      PROVE  grants = <<>> /\ grants'[Len(grants')] \in stood
  <2>0. Typed /\ Truth /\ Once /\ Snapshots /\ Len(grants) \in Nat
    BY <1>1 DEF Inv, Authority, Typed
  <2>1. CASE Activate
    <3>1. grants = <<>> /\ snaps["first"].id \in stood
      BY Zenon, <2>0, <2>1, ActivateStep DEF Once, Truth, Snapshots
    <3>2. grants' = <<snaps["first"].id>>
      <4>1. grants' = Append(<<>>, snaps["first"].id)
        BY Zenon, <2>0, <2>1, <3>1, ActivateStep
      <4>2. \A x : Append(<<>>, x) = <<x>>
        OBVIOUS
      <4> QED BY Zenon, <4>1, <4>2
    <3>3. grants'[Len(grants')] = snaps["first"].id
      BY <3>2
    <3> QED BY <3>1, <3>3
  <2>2. CASE ~Activate
    <3>1. UNCHANGED grants \/ grants' = <<>>
      <4>1. CASE Boot \/ Receive \/ ReadRecord \/ CheckRecord \/ CheckReplay \/ Respond \/ Panic
        BY Zenon, <2>0, <4>1, BootStep, ReceiveStep, OtherStep, CheckStep DEF history
      <4>2. CASE Bystander \/ Writer
        BY <2>0, <4>2, TypedBystander, TypedWriter DEF history
      <4>3. CASE WarmReset \/ ColdReset
        BY Zenon, <2>0, <4>3, RestartStep
      <4>4. CASE UNCHANGED vars
        BY <4>4 DEF vars, history
      <4> QED BY <1>1, <2>2, <4>1, <4>2, <4>3, <4>4, Actors DEF Firmware, Handle
    <3>2. ~(Len(grants') > Len(grants))
      BY <2>0, <3>1
    <3> QED BY <1>1, <3>2
  <2> QED BY <2>1, <2>2
<1> QED BY <1>1, Invariant, Authorization, PTL DEF Spec, LeaseAuthorized
=============================================================================
