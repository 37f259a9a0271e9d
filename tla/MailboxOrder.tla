---------------------------- MODULE MailboxOrder ----------------------------
(***************************************************************************)
(* InOrder for any channels, bounds and token counters.                    *)
(*                                                                         *)
(* That the words of a channel arrive in order rests on OrderInv: the word *)
(* of a transaction is later than any its receiver has had or was told of, *)
(* until it is announced (Sender); a word that Linux has not reported as   *)
(* done is deferred and unsent, or was announced (LinuxWords); and what    *)
(* the poll found under the lock is still so when it returns (Polled).     *)
(* Here are the steps that copy or announce a word, and the ones that      *)
(* begin and end a transaction.                                            *)
(***************************************************************************)
EXTENDS MailboxProofs

(* A receiver copies a slot it was told of.                                *)
LEMMA Copying ==
    ASSUME Inv, OrderInv, NEW p \in Cpus, CopySlot(p)
    PROVE  \E c \in Channels :
              /\ raised[c] = p /\ arrived[p][c] < slot[c]
              /\ arrived' = [arrived EXCEPT ![p][c] = slot[c]]
              /\ raised' = [raised EXCEPT ![c] = "none"]
              /\ int' = [int EXCEPT ![p] = @ \ {c}]
              /\ todo'[p] = todo[p] \ {c} /\ pc'[p] = "read" /\ job[p] = "isr" /\ job' = job
              /\ todo[p] \subseteq int[p]
              /\ UNCHANGED <<slot, en, given, active, deferred, wanted>>
<1>0. Interrupts /\ Typed /\ Staged /\ Later /\ Interrupted(p)
  BY Zenon DEF OrderInv, Inv, Interrupts, Progress
<1>1. job[p] = "isr" /\ todo[p] \subseteq int[p] /\ int[p] \subseteq Channels
  BY <1>0 DEF CopySlot, Staged, Interrupted, Typed
<1>2. PICK c \in todo[p] :
          /\ todo' = [todo EXCEPT ![p] = @ \ {c}]
          /\ int' = [int EXCEPT ![p] = @ \ {c}]
          /\ arrived' = [arrived EXCEPT ![p][c] = slot[c]]
          /\ raised' = [raised EXCEPT ![c] = IF @ = p THEN "none" ELSE @]
  BY Zenon DEF CopySlot
<1>3. c \in Channels /\ raised[c] = p /\ arrived[p][c] < slot[c]
  BY <1>0, <1>1, <1>2 DEF Interrupts, Later
<1>4. todo'[p] = todo[p] \ {c} /\ pc'[p] = "read"
  BY <1>0, <1>2 DEF CopySlot, Typed
<1>5. raised' = [raised EXCEPT ![c] = "none"]
  BY <1>2, <1>3
<1>6. UNCHANGED <<slot, en, given, active, deferred, wanted, job>>
  BY DEF CopySlot, linux, rtos
<1> QED BY <1>1, <1>2, <1>3, <1>4, <1>5, <1>6, Zenon

(* Copying a word is the step in which it arrives.                         *)
LEMMA OrderCopySlot ==
    ASSUME Inv, OrderInv, NEW p \in Cpus, CopySlot(p)
    PROVE  OrderInv'
<1>0. /\ Values /\ Owned /\ Interrupts /\ Progress /\ Typed /\ Told /\ Locked
      /\ Later /\ Sender(p) /\ LinuxWords /\ RtosWords /\ Polled
  BY Zenon DEF OrderInv, Inv, Progress, Cpus
<1>1. Within(p) /\ InSection(p)
  BY WithinSteps, Zenon DEF Transaction, CopySlot, InSection
<1>2. PICK c \in Channels :
              /\ raised[c] = p /\ arrived[p][c] < slot[c]
              /\ arrived' = [arrived EXCEPT ![p][c] = slot[c]]
              /\ raised' = [raised EXCEPT ![c] = "none"]
              /\ int' = [int EXCEPT ![p] = @ \ {c}]
              /\ todo'[p] = todo[p] \ {c} /\ pc'[p] = "read" /\ job[p] = "isr" /\ job' = job
              /\ todo[p] \subseteq int[p]
              /\ UNCHANGED <<slot, en, given, active, deferred, wanted>>
  BY Copying, Zenon
<1>3. Values'
  BY <1>0, <1>2 DEF Values
<1>4. /\ raised'[c] = "none" /\ arrived'[p][c] = slot[c]
      /\ \A d \in Channels : d # c => raised'[d] = raised[d]
      /\ \A q \in Cpus, d \in Channels : q # p \/ d # c => arrived'[q][d] = arrived[q][d]
  BY <1>0, <1>2 DEF Values, Typed
<1>5. \A q \in Cpus : q # "none"
  BY Routes
<1>6. Later'
  BY <1>0, <1>2, <1>4, <1>5, Zenon DEF Later
<1>7. StillSeen
  BY <1>2, <1>4, <1>5, Zenon DEF StillSeen, Seen, Cpus
<1>8. ASSUME NEW q \in Cpus PROVE Kept(q)
  <2>1. ASSUME NEW d \in Channels, NEW n \in Nat, d # c
        PROVE  /\ Before(q, d, n) => Before(q, d, n)'
               /\ Sent(q, d, n) => Sent(q, d, n)'
    BY <1>2, <1>4, <2>1, Zenon DEF Before, Sent
  <2>2. ASSUME NEW n \in Nat
        PROVE  /\ Before(q, c, n) => Before(q, c, n)'
               /\ Sent(q, c, n) => Sent(q, c, n)'
    BY <1>2, <1>4, <1>5, Zenon DEF Before, Sent
  <2> QED BY <2>1, <2>2, Zenon DEF Kept
<1>9. LinuxWords' /\ RtosWords'
  BY <1>0, <1>1, <1>8, WithinLinuxWords, WithinRtosWords DEF Cpus
<1>10. Polled'
  BY <1>0, <1>1, <1>2, <1>7, WithinPolled
<1>11. Sender(p)'
  BY <1>2 DEF Sender, Sending
<1>12. Interrupted(p)'
  BY <1>0, <1>2 DEF Interrupted, Requests, Sending, Typed
<1>13. \A q \in Cpus, d \in Channels : d \in int'[q] => raised'[d] = q
  BY <1>0, <1>2, <1>4 DEF Interrupts, Typed
<1> QED BY <1>1, <1>2, <1>3, <1>6, <1>8, <1>9, <1>10, <1>11, <1>12, <1>13, OrderWired

(* The receiver is told of a word newer than any it has had.               *)
LEMMA OrderRaise ==
    ASSUME Inv, OrderInv, NEW p \in Cpus, Raise(p)
    PROVE  OrderInv'
<1>0. /\ Values /\ Owned /\ Interrupts /\ Progress /\ Typed /\ Told /\ Locked /\ Staged
      /\ Later /\ Sender(p) /\ LinuxWords /\ RtosWords /\ Polled /\ Interrupted(p)
  BY Zenon DEF OrderInv, Inv, Progress, Cpus, Interrupts
<1>1. Within(p) /\ InSection(p)
  BY WithinSteps, Zenon DEF Transaction, Raise, InSection
<1>2. /\ Sending(p) /\ pc[p] = "raise" /\ pc'[p] = "release" /\ job[p] # "done" /\ job[p] # "isr"
      /\ todo' = todo /\ chan' = chan /\ job' = job
  BY <1>0 DEF Raise, Staged, Typed, Sending
<1>3. PICK c \in Channels, n \in Nat, t \in Cpus : c = chan[p] /\ n = Outgoing(p) /\ t = Peer(p)
  BY <1>0, <1>2, Word, Routes
<1>4. /\ raised[c] = "none" /\ c \notin en[p] /\ todo[p] = {c}
  BY <1>0, <1>2, <1>3 DEF Interrupted, Writing
<1>5. /\ slot[c] = n /\ arrived[t][c] < n
  BY <1>0, <1>2, <1>3 DEF Sender, Writing, Before
<1>6. /\ raised' = [raised EXCEPT ![c] = t]
      /\ int' = [q \in Cpus |-> IF c \in en[q] THEN int[q] \cup {c} ELSE int[q]]
      /\ UNCHANGED <<slot, en, given, arrived, active, deferred, wanted>>
  BY <1>3, Zenon DEF Raise, linux, rtos
<1>7. /\ raised'[c] = t /\ t # p /\ \A q \in Cpus : q # p => q = t
      /\ \A d \in Channels : d # c => raised'[d] = raised[d]
  BY <1>0, <1>3, <1>6, Routes DEF Typed
<1>8. Values'
  BY <1>0, <1>6, Zenon DEF Values
<1>9. Later'
  BY <1>0, <1>5, <1>6, <1>7, Zenon DEF Later
<1>10. StillSeen \/ t = "rtos"
  BY <1>6, <1>7, Zenon DEF StillSeen, Seen
<1>11. Kept(p)
  BY <1>4, <1>6, <1>7, Routes, Zenon DEF Kept, Before, Sent
<1>12. \A d \in Channels, m \in Nat : d # c =>
          /\ Before(t, d, m) => Before(t, d, m)'
          /\ Sent(t, d, m) => Sent(t, d, m)'
  BY <1>6, <1>7, Zenon DEF Before, Sent
<1>13. ASSUME p = "linux" PROVE LinuxWords' /\ RtosWords' /\ Polled'
  <2>1. t = "rtos" /\ c \in LinuxChannels /\ n = given["linux"][c] /\ n = active[c]
        /\ (job["linux"] = "send" => deferred[c] = 0) /\ (job["linux"] = "retry" => deferred[c] # 0)
        /\ job["linux"] \in {"send", "retry"} /\ chan["linux"] = c
    BY <1>0, <1>2, <1>3, <1>13, Word, Peers DEF Owned, LinuxOwned, RtosOwned, Sending
  <2>2. RtosWords'
    BY <1>0, <1>1, <1>11, <1>13, WithinRtosWords
  <2>3. Before("rtos", c, given["linux"][c] + 1)'
    <3>1. arrived["rtos"][c] \in Nat /\ n < n + 1 /\ arrived["rtos"][c] < n + 1
      BY <1>0, <1>5, <2>1 DEF Values, Cpus
    <3> QED BY <1>5, <1>6, <2>1, <3>1, Zenon DEF Before
  <2>4. ASSUME NEW d \in LinuxChannels
        PROVE  /\ d \in Channels /\ given["linux"][d] + 1 \in Nat /\ active[d] \in Nat
    BY <1>0, Routes DEF Values, Cpus
  <2>5. LinuxWords'
    BY Zenon, <1>0, <1>2, <1>6, <1>12, <2>1, <2>3, <2>4 DEF LinuxWords
  <2>6. Polled'
    BY <1>2, <1>13 DEF Polled
  <2> QED BY <2>2, <2>5, <2>6
<1>14. ASSUME p = "rtos" PROVE LinuxWords' /\ RtosWords' /\ Polled'
  <2>1. t = "linux" /\ job["rtos"] = "send" /\ chan["rtos"] = c
    BY <1>0, <1>2, <1>3, <1>14, Peers DEF Owned, LinuxOwned, RtosOwned, Sending, Requests
  <2>2. LinuxWords'
    BY <1>0, <1>1, <1>11, <1>14, WithinLinuxWords
  <2>3. Polled'
    BY <1>0, <1>1, <1>10, <1>14, <2>1, WithinPolled
  <2>4. ASSUME NEW d \in RtosChannels
        PROVE  d \in Channels /\ given["rtos"][d] + 1 \in Nat
    BY <1>0, Routes DEF Values, Cpus
  <2>5. RtosWords'
    BY <1>0, <1>2, <1>6, <1>12, <2>1, <2>4 DEF RtosWords
  <2> QED BY <2>2, <2>3, <2>5
<1>15. LinuxWords' /\ RtosWords' /\ Polled'
  BY <1>13, <1>14 DEF Cpus
<1>16. Sender(p)'
  <2>1. Outgoing(p)' = n /\ chan'[p] = c /\ todo'[p] # {} /\ pc'[p] \notin {"attempt", "check"} \cup Writing
    BY <1>2, <1>3, <1>4, <1>6 DEF Outgoing, Writing
  <2>2. Sent(t, c, n)'
    BY <1>5, <1>6, <1>7, Zenon DEF Sent
  <2> QED BY <1>3, <2>1, <2>2, Zenon DEF Sender, Sent
<1>17. Interrupted(p)'
  BY <1>2, <1>3, <1>4 DEF Interrupted, Writing, Sending
<1>18. \A q \in Cpus, d \in Channels : d \in int'[q] => raised'[d] = q
  <2>1. ASSUME NEW q \in Cpus, NEW d \in Channels, d \in int'[q], d # c PROVE raised'[d] = q
    BY <1>0, <1>6, <1>7, <2>1 DEF Interrupts
  <2>2. c \notin int'[p]
    BY <1>0, <1>4, <1>6, Routes DEF Interrupts
  <2> QED BY <1>7, <2>1, <2>2
<1> QED BY <1>1, <1>6, <1>8, <1>9, <1>11, <1>15, <1>16, <1>17, <1>18, OrderWired

(* The poll finds no receiver's bit set, so the word, which is not         *)
(* deferred, was copied.                                                   *)
LEMMA OrderCheckDone ==
    ASSUME Inv, OrderInv, CheckDone
    PROVE  OrderInv'
<1>0. /\ Values /\ Owned /\ Interrupts /\ Progress /\ Typed /\ Told /\ Locked
      /\ Later /\ LinuxWords /\ RtosWords
  BY Zenon DEF OrderInv, Inv, Progress
<1>1. Within("linux") /\ InSection("linux") /\ "linux" \in Cpus /\ "rtos" \in Cpus
  BY WithinSteps DEF Cpus, CheckDone, InSection
<1>2. PICK c \in LinuxChannels : c = chan["linux"]
  BY <1>0 DEF CheckDone, Owned, LinuxOwned, RtosOwned, Requests
<1>3. /\ pc'["linux"] = "release" /\ job["linux"] = "done" /\ job' = job /\ chan' = chan
      /\ todo'["linux"] = IF LastTxDone(c) THEN {c} ELSE {}
  BY <1>0, <1>1, <1>2 DEF CheckDone, Typed
<1>4. UNCHANGED <<slot, arrived, raised, int, given, active, deferred, wanted>>
  BY DEF CheckDone, hardware, history, linux, rtos
<1>5. StillSeen /\ \A q \in Cpus : Kept(q)
  BY <1>4, Unwired
<1>6. LinuxWords' /\ RtosWords'
  BY <1>0, <1>1, <1>5, WithinLinuxWords, WithinRtosWords
<1>7. ASSUME LastTxDone(c) PROVE Seen(c, active[c]) /\ deferred[c] = 0
  <2>1. deferred[c] = 0 /\ c \notin en["rtos"]
    BY <1>1, <1>2, <1>7 DEF LastTxDone, SlotBusy
  <2>2. raised[c] # "rtos"
    BY <1>0, <1>1, <2>1, Routes DEF Told
  <2>3. Sent("rtos", c, active[c])
    BY <1>0, <1>2, <1>3, <2>1 DEF LinuxWords, Owned, LinuxOwned, RtosOwned, Requests
  <2> QED BY <2>1, <2>2, <2>3 DEF Sent, Seen
<1>8. Polled'
  BY <1>2, <1>3, <1>4, <1>7 DEF Polled, Seen
<1>9. Sender("linux")'
  BY <1>3 DEF Sender, Sending
<1>10. Interrupted("linux")'
  BY <1>2, <1>3 DEF Interrupted, Writing, Sending
<1>11. Values' /\ Later'
  BY <1>0, <1>4, Zenon DEF Values, Later
<1>12. \A q \in Cpus, d \in Channels : d \in int'[q] => raised'[d] = q
  BY <1>0, <1>4, Zenon DEF Interrupts
<1> QED BY <1>1, <1>4, <1>5, <1>6, <1>8, <1>9, <1>10, <1>11, <1>12, OrderWired

(* Every step of a transaction keeps the order.                            *)
LEMMA OrderTransaction ==
    ASSUME Inv, OrderInv, NEW p \in Cpus, Transaction(p)
    PROVE  OrderInv'
  BY OrderUnwired, OrderWriteSlot, OrderCopySlot, OrderRaise, Zenon DEF Transaction
-----------------------------------------------------------------------------
(* The start and the end of a transaction of p, and what is done between   *)
(* two of them.                                                            *)
Outside(p) ==
    /\ UNCHANGED <<slot, arrived, raised, int, en>>
    /\ \A r \in Cpus \ {p} : /\ pc'[r] = pc[r] /\ job'[r] = job[r]
                             /\ chan'[r] = chan[r] /\ todo'[r] = todo[r]

(* They interrupt nobody.                                                  *)
LEMMA OutsideInterrupts ==
    ASSUME Interrupts, NEW p \in Cpus, Outside(p), pc'[p] \in {"idle", "attempt"}
    PROVE  Interrupts'
<1>1. Interrupted(p)'
  BY DEF Interrupted, Writing, Ending
<1>2. ASSUME NEW r \in Cpus \ {p} PROVE Interrupted(r)'
  BY DEF Interrupts, Interrupted, Outside, Sending
<1>3. \A q \in Cpus, c \in Channels : c \in int'[q] => raised'[c] = q
  BY DEF Interrupts, Outside
<1> QED BY <1>1, <1>2, <1>3 DEF Interrupts

(* They leave the other side's word alone.                                 *)
LEMMA OutsideSender ==
    ASSUME NEW p \in Cpus, Outside(p), NEW r \in Cpus, r # p, Sender(r),
           Sending(r) => Outgoing(r)' = Outgoing(r)
    PROVE  Sender(r)'
<1>1. /\ pc'[r] = pc[r] /\ chan'[r] = chan[r] /\ todo'[r] = todo[r] /\ slot' = slot
      /\ Sending(r)' = Sending(r)
  BY DEF Outside, Sending
<1>2. ASSUME Sending(r)
      PROVE  /\ Before(Peer(r), chan[r], Outgoing(r))' = Before(Peer(r), chan[r], Outgoing(r))
             /\ Sent(Peer(r), chan[r], Outgoing(r))' = Sent(Peer(r), chan[r], Outgoing(r))
  BY <1>1, <1>2, Zenon DEF Outside, Before, Sent
<1> QED BY <1>1, <1>2, Zenon DEF Sender

(* Linux's side while the C906L acts, and the reverse.                     *)
LEMMA LinuxUntouched ==
    ASSUME LinuxOwned, LinuxWords, Polled, Sender("linux"), Outside("rtos"),
           UNCHANGED <<active, deferred, subscribed>>,
           \A c \in LinuxChannels : given'["linux"][c] = given["linux"][c]
    PROVE  LinuxOwned' /\ LinuxWords' /\ Polled' /\ Sender("linux")'
<1>1. /\ UNCHANGED <<slot, arrived, raised>>
      /\ pc'["linux"] = pc["linux"] /\ job'["linux"] = job["linux"]
      /\ chan'["linux"] = chan["linux"] /\ todo'["linux"] = todo["linux"]
  BY DEF Outside, Cpus
<1>2. LinuxOwned'
  BY <1>1 DEF LinuxOwned
<1>3. LinuxWords'
  BY <1>1, Zenon DEF LinuxWords, Before, Sent
<1>4. Polled'
  BY <1>1, Zenon DEF Polled, Seen
<1>5. Outgoing("linux")' = Outgoing("linux")
  BY <1>1 DEF Outgoing
<1> QED BY <1>2, <1>3, <1>4, <1>5, OutsideSender DEF Cpus

(* A step of Linux outside a transaction leaves the words of the C906L     *)
(* alone.                                                                  *)
LEMMA RtosUntouched ==
    ASSUME RtosOwned, RtosWords, Sender("rtos"), Outside("linux"), UNCHANGED wanted,
           \A c \in RtosChannels : given'["rtos"][c] = given["rtos"][c]
    PROVE  RtosOwned' /\ RtosWords' /\ Sender("rtos")'
<1>1. /\ UNCHANGED <<slot, arrived, raised>>
      /\ pc'["rtos"] = pc["rtos"] /\ job'["rtos"] = job["rtos"]
      /\ chan'["rtos"] = chan["rtos"] /\ todo'["rtos"] = todo["rtos"]
  BY DEF Outside, Cpus
<1>2. RtosOwned'
  BY <1>1, Zenon DEF RtosOwned
<1>3. RtosWords'
  BY <1>1, Zenon DEF RtosWords, Before, Sent
<1>4. Outgoing("rtos")' = Outgoing("rtos")
  BY <1>1 DEF Outgoing
<1> QED BY <1>2, <1>3, <1>4, OutsideSender DEF Cpus

(* What becomes of channel c when Linux has no transaction in progress.    *)
Settled(c) ==
    \/ active'[c] = active[c] /\ deferred'[c] = deferred[c] /\ ~(Sending("linux") /\ chan["linux"] = c)
    \/ active'[c] = active[c] /\ deferred'[c] = active[c] /\ Before("rtos", c, active[c])
    \/ active'[c] = active[c] /\ deferred'[c] = 0 /\ Sent("rtos", c, active[c])
    \/ active'[c] = 0 /\ deferred'[c] = 0

(* Linux is done with a request when every word of its own is settled.     *)
LEMMA LinuxRests ==
    ASSUME OrderInv, Outside("linux"), Values', UNCHANGED <<given, wanted>>,
           job'["linux"] = "none", pc'["linux"] = "idle",
           \A c \in LinuxChannels : Settled(c),
           \A c \in LinuxChannels : c \notin subscribed' => active'[c] = 0
    PROVE  OrderInv'
<1>0. /\ Values /\ LinuxOwned /\ RtosOwned /\ Interrupts /\ Later
      /\ Sender("rtos") /\ LinuxWords /\ RtosWords
  BY Zenon DEF OrderInv, Progress, Owned
<1>1. RtosOwned' /\ RtosWords' /\ Sender("rtos")'
  BY <1>0, RtosUntouched, Zenon
<1>2. Interrupts'
  BY <1>0, OutsideInterrupts DEF Cpus
<1>3. LinuxOwned'
  <2>1. ASSUME NEW c \in LinuxChannels
        PROVE  active'[c] \in {0, given["linux"][c]} /\ deferred'[c] \in {0, active'[c]}
    BY <1>0 DEF Settled, LinuxOwned
  <2> QED BY <2>1 DEF LinuxOwned, Requests
<1>4. LinuxWords'
  <2>1. ASSUME NEW c \in LinuxChannels
        PROVE  /\ Before("rtos", c, given["linux"][c] + 1)
               /\ deferred'[c] # 0 => Before("rtos", c, active'[c])
               /\ active'[c] # 0 /\ deferred'[c] = 0 => Sent("rtos", c, active'[c])
    BY <1>0 DEF LinuxWords, Settled, Sending
  <2>2. UNCHANGED <<slot, arrived, raised>>
    BY DEF Outside
  <2> QED BY <2>1, <2>2, Zenon DEF LinuxWords, Before, Sent
<1>5. Later' /\ Polled' /\ Sender("linux")'
  BY Zenon, <1>0 DEF Later, Polled, Sender, Sending, Outside
<1> QED BY <1>1, <1>2, <1>3, <1>4, <1>5, Zenon DEF OrderInv, Progress, Owned

(* The C906L is done with a request when the next word of each channel is  *)
(* unsent.                                                                 *)
LEMMA RtosRests ==
    ASSUME OrderInv, Outside("rtos"), Values', UNCHANGED <<active, deferred, subscribed>>,
           \A c \in LinuxChannels : given'["linux"][c] = given["linux"][c],
           job'["rtos"] = "none", pc'["rtos"] = "idle",
           \A c \in RtosChannels : /\ Before("linux", c, given'["rtos"][c] + 1)
                                   /\ wanted'[c] \in {0, given'["rtos"][c] + 1}
    PROVE  OrderInv'
<1>0. /\ Values /\ LinuxOwned /\ Interrupts /\ Later
      /\ Sender("linux") /\ LinuxWords /\ Polled
  BY Zenon DEF OrderInv, Progress, Owned
<1>1. LinuxOwned' /\ LinuxWords' /\ Polled' /\ Sender("linux")'
  BY <1>0, LinuxUntouched, Zenon
<1>2. Interrupts'
  BY <1>0, OutsideInterrupts DEF Cpus
<1>3. RtosOwned'
  BY DEF RtosOwned, Requests
<1>4. UNCHANGED <<slot, arrived, raised>>
  BY DEF Outside
<1>5. RtosWords'
  BY <1>4, Zenon DEF RtosWords, Before
<1>6. Later' /\ Sender("rtos")'
  BY <1>0, <1>4 DEF Later, Sender, Sending
<1> QED BY <1>1, <1>2, <1>3, <1>5, <1>6, Zenon DEF OrderInv, Progress, Owned

(* The end of a transaction leaves the hardware and the other side alone.  *)
LEMMA Stopping ==
    ASSUME Typed, NEW p \in Cpus, Stop(p), UNCHANGED <<hardware, arrived, raised>>,
           todo' \in {todo, [todo EXCEPT ![p] = {}]}
    PROVE  Outside(p) /\ job'[p] = "none" /\ pc'[p] = "idle"
  BY DEF Typed, Stop, Outside, hardware

(* The word Linux is sending.                                              *)
LEMMA LinuxSending ==
    ASSUME OrderInv, Sending("linux"), NEW c, c = chan["linux"]
    PROVE  /\ c \in LinuxChannels /\ c \in subscribed
           /\ job["linux"] = "send" => deferred[c] = 0
           /\ job["linux"] = "retry" => deferred[c] = active[c]
           /\ pc["linux"] = "attempt" => Before("rtos", c, active[c])
           /\ pc["linux"] = "deliver" => IF todo["linux"] = {} THEN Before("rtos", c, active[c])
                                         ELSE Sent("rtos", c, active[c])
<1>0. Values /\ Owned /\ LinuxOwned /\ Sender("linux")
  BY Zenon DEF OrderInv, Progress, Owned
<1>1. /\ c \in LinuxChannels /\ c \in subscribed
      /\ job["linux"] = "send" => deferred[c] = 0
      /\ job["linux"] = "retry" => deferred[c] = active[c]
  BY <1>0 DEF LinuxOwned, Sending, Requests
<1>2. Outgoing("linux") = active[c]
  BY <1>0, Word DEF Cpus
<1> QED BY <1>0, <1>1, <1>2, Peers DEF Sender, Ending

(* The transactions of Linux end.                                          *)
LEMMA LinuxEnds ==
    ASSUME Inv, OrderInv, Stop("linux"), todo' \in {todo, [todo EXCEPT !["linux"] = {}]},
           UNCHANGED <<hardware, given, arrived, raised, active, subscribed, wanted>>,
           deferred' \in [LinuxChannels -> Nat], \A c \in LinuxChannels : Settled(c)
    PROVE  OrderInv'
<1>0. Values /\ LinuxOwned /\ Typed /\ "linux" \in Cpus
  BY Zenon DEF OrderInv, Owned, Inv, Cpus
<1>1. Outside("linux") /\ job'["linux"] = "none" /\ pc'["linux"] = "idle"
  BY <1>0, Stopping
<1>2. Values'
  BY <1>0 DEF Values, hardware
<1>3. \A c \in LinuxChannels : c \notin subscribed' => active'[c] = 0
  BY <1>0 DEF LinuxOwned
<1> QED BY <1>1, <1>2, <1>3, LinuxRests

(* The returns of a send, a retry and an interrupt on Linux, and giving    *)
(* one up.                                                                 *)
LEMMA OrderLinuxEnds ==
    ASSUME Inv, OrderInv, LinuxGiveUp \/ SendReturns \/ RetryReturns \/ LinuxIsrReturns
    PROVE  OrderInv'
<1>1. /\ active \in [LinuxChannels -> Nat] /\ deferred \in [LinuxChannels -> Nat]
  BY DEF OrderInv, Values
<1>2. PICK c : c = chan["linux"]
  OBVIOUS
<1>3. SUFFICES ASSUME active' = active
               PROVE  deferred' \in [LinuxChannels -> Nat] /\ \A d \in LinuxChannels : Settled(d)
  <2>1. /\ Stop("linux") /\ todo' \in {todo, [todo EXCEPT !["linux"] = {}]}
        /\ UNCHANGED <<hardware, given, arrived, raised, active, subscribed, wanted>>
    BY DEF LinuxGiveUp, SendReturns, RetryReturns, LinuxIsrReturns, Finish, history, rtos, linux
  <2> QED BY <1>3, <2>1, LinuxEnds
<1>4. CASE Sending("linux") /\ deferred' = deferred /\ job["linux"] = "retry" /\ Before("rtos", c, active[c])
  BY <1>1, <1>2, <1>3, <1>4, LinuxSending DEF Settled
<1>5. CASE Sending("linux") /\ deferred' = deferred /\ job["linux"] = "send" /\ Sent("rtos", c, active[c])
  BY <1>1, <1>2, <1>3, <1>5, LinuxSending DEF Settled
<1>6. CASE Sending("linux") /\ Defer(c) /\ Before("rtos", c, active[c])
  BY <1>1, <1>2, <1>3, <1>6, LinuxSending DEF Settled, Defer
<1>7. CASE Sending("linux") /\ deferred' = [deferred EXCEPT ![c] = 0] /\ Sent("rtos", c, active[c])
  BY <1>1, <1>2, <1>3, <1>7, LinuxSending DEF Settled
<1>8. CASE ~Sending("linux") /\ deferred' = deferred
  BY <1>1, <1>3, <1>8 DEF Settled
<1>9. CASE LinuxGiveUp
  <2>1. pc["linux"] = "attempt"
        /\ IF job["linux"] = "send" THEN Defer(c) ELSE UNCHANGED deferred
    BY <1>2, <1>9 DEF LinuxGiveUp, Exhausted
  <2> QED BY <1>2, <1>4, <1>6, <1>8, <2>1, LinuxSending DEF Sending
<1>10. CASE SendReturns
  <2>1. job["linux"] = "send" /\ pc["linux"] = "deliver"
        /\ IF todo["linux"] = {} THEN Defer(c) ELSE UNCHANGED deferred
    BY <1>2, <1>10 DEF SendReturns, Finish
  <2> QED BY <1>2, <1>5, <1>6, <2>1, LinuxSending DEF Sending
<1>11. CASE RetryReturns
  <2>1. job["linux"] = "retry" /\ pc["linux"] = "deliver"
        /\ deferred' = IF todo["linux"] = {} THEN deferred ELSE [deferred EXCEPT ![c] = 0]
    BY <1>2, <1>11 DEF RetryReturns, Finish
  <2> QED BY <1>2, <1>4, <1>7, <2>1, LinuxSending DEF Sending
<1>12. CASE LinuxIsrReturns
  BY <1>8, <1>12 DEF LinuxIsrReturns, linux, Sending
<1> QED BY <1>9, <1>10, <1>11, <1>12

(* A word the poll found transmitted is no longer active.                  *)
LEMMA Reported ==
    ASSUME Inv, OrderInv, DoneReturns, NEW c \in LinuxChannels, active'[c] # active[c]
    PROVE  active'[c] = 0 /\ deferred[c] = 0 /\ arrived["rtos"][c] = active[c]
<1>0. Values /\ LinuxOwned /\ Interrupted("linux") /\ Polled
  BY Zenon DEF OrderInv, Progress, Owned, Interrupts, Cpus
<1>1. job["linux"] = "done" /\ pc["linux"] = "deliver" /\ c \in todo["linux"] /\ active'[c] = 0
  BY <1>0 DEF DoneReturns, Finish, Values
<1>2. todo["linux"] = {chan["linux"]}
  BY <1>0, <1>1 DEF Interrupted, Requests, Ending
<1> QED BY <1>0, <1>1, <1>2 DEF Polled, Seen, Ending

(* The return of cv1800_last_tx_done, which may report the word as sent.   *)
LEMMA OrderDoneReturns ==
    ASSUME Inv, OrderInv, DoneReturns
    PROVE  OrderInv'
<1>0. Values /\ LinuxOwned /\ Typed /\ "linux" \in Cpus
  BY Zenon DEF OrderInv, Owned, Inv, Cpus
<1>1. Outside("linux") /\ job'["linux"] = "none" /\ pc'["linux"] = "idle"
  <2>1. Stop("linux") /\ UNCHANGED <<hardware, arrived, raised>> /\ todo' = [todo EXCEPT !["linux"] = {}]
    BY DEF DoneReturns, Finish, history
  <2> QED BY Zenon, <1>0, <2>1, Stopping
<1>2. UNCHANGED <<slot, given, arrived, deferred, subscribed, wanted>> /\ ~Sending("linux")
  BY DEF DoneReturns, Finish, history, hardware, rtos, Sending
<1>3. active' \in [LinuxChannels -> Nat]
  BY <1>0 DEF DoneReturns, Values
<1>4. Values'
  BY <1>0, <1>2, <1>3 DEF Values
<1>5. \A c \in LinuxChannels : Settled(c)
  BY <1>2, Reported DEF Settled
<1>6. \A c \in LinuxChannels : c \notin subscribed' => active'[c] = 0
  BY <1>0, <1>2, Reported DEF LinuxOwned
<1> QED BY <1>1, <1>2, <1>4, <1>5, <1>6, LinuxRests

(* A client leaves or comes.                                               *)
LEMMA OrderClient ==
    ASSUME Inv, OrderInv, NEW c \in Channels, Shutdown(c) \/ Startup(c)
    PROVE  OrderInv'
<1>0. Values /\ LinuxOwned
  BY Zenon DEF OrderInv, Owned
<1>1. /\ UNCHANGED <<hardware, transaction, given, arrived, raised, wanted>>
      /\ pc["linux"] = "idle" /\ job["linux"] = "none"
      /\ \A d \in LinuxChannels :
            /\ d = c => deferred'[d] = 0 /\ active'[d] \in {0, active[d]}
            /\ d # c => deferred'[d] = deferred[d] /\ active'[d] = active[d]
      /\ active' \in [LinuxChannels -> Nat] /\ deferred' \in [LinuxChannels -> Nat]
  <2>1. UNCHANGED <<hardware, transaction, given, arrived, raised, wanted>> /\ pc["linux"] = "idle"
    BY DEF Shutdown, Startup, history, rtos
  <2>2. active \in [LinuxChannels -> Nat] /\ deferred \in [LinuxChannels -> Nat]
    BY <1>0 DEF Values
  <2>3. CASE Shutdown(c)
    BY <1>0, <2>1, <2>2, <2>3 DEF Shutdown, LinuxOwned
  <2>4. CASE Startup(c)
    BY <1>0, <2>1, <2>2, <2>4 DEF Startup, LinuxOwned
  <2> QED BY <2>3, <2>4, Zenon
<1>2. \A d \in LinuxChannels : d \notin subscribed' => active'[d] = 0
  BY <1>0 DEF Shutdown, Startup, Values, LinuxOwned
<1>3. \A d \in LinuxChannels : d = c => active'[d] = 0
  BY <1>0 DEF Shutdown, Startup, Values, LinuxOwned
<1>4. \A d \in LinuxChannels : Settled(d)
  BY <1>1, <1>3 DEF Settled, Sending
<1>5. Outside("linux") /\ Values'
  BY <1>0, <1>1 DEF Outside, Values, hardware, transaction
<1> QED BY <1>1, <1>2, <1>4, <1>5, LinuxRests DEF transaction

(* The C906L's transactions end.                                           *)
LEMMA RtosSending ==
    ASSUME OrderInv, job["rtos"] = "send", NEW c, c = chan["rtos"]
    PROVE  /\ c \in RtosChannels /\ wanted[c] = given["rtos"][c] + 1
           /\ pc["rtos"] = "attempt" => Before("linux", c, wanted[c])
           /\ pc["rtos"] = "deliver" => IF todo["rtos"] = {} THEN Before("linux", c, wanted[c])
                                        ELSE Before("linux", c, wanted[c] + 1)
<1>0. Values /\ Owned /\ RtosOwned /\ Sender("rtos") /\ Later
  BY Zenon DEF OrderInv, Progress, Owned
<1>1. c \in RtosChannels /\ wanted[c] = given["rtos"][c] + 1 /\ c \in Channels
  BY <1>0, Routes DEF RtosOwned, Requests
<1>2. Outgoing("rtos") = wanted[c]
  BY DEF Outgoing
<1>3. ASSUME Sent("linux", c, wanted[c]) PROVE Before("linux", c, wanted[c] + 1)
  <2>1. wanted[c] \in Nat /\ arrived["linux"][c] \in Nat /\ slot[c] \in Nat
    BY <1>0, <1>1 DEF Values, Cpus
  <2>2. raised[c] = "linux" => arrived["linux"][c] < slot[c]
    BY <1>0, <1>1 DEF Later, Cpus
  <2> QED BY <1>3, <2>1, <2>2 DEF Sent, Before
<1> QED BY <1>0, <1>1, <1>2, <1>3, Peers DEF Sender, Ending, Sending

(* A request of the C906L that ends with its words accounted for keeps the *)
(* order.                                                                  *)
LEMMA RtosEnds ==
    ASSUME Inv, OrderInv, Stop("rtos"), todo' \in {todo, [todo EXCEPT !["rtos"] = {}]},
           UNCHANGED <<hardware, arrived, raised, active, deferred, subscribed>>,
           given' \in [Cpus -> [Channels -> Nat]], wanted' \in [RtosChannels -> Nat],
           given'["linux"] = given["linux"],
           \A c \in RtosChannels : /\ Before("linux", c, given'["rtos"][c] + 1)
                                   /\ wanted'[c] \in {0, given'["rtos"][c] + 1}
    PROVE  OrderInv'
<1>0. Values /\ Typed /\ "rtos" \in Cpus
  BY Zenon DEF OrderInv, Inv, Cpus
<1>1. Outside("rtos") /\ job'["rtos"] = "none" /\ pc'["rtos"] = "idle"
  BY <1>0, Stopping
<1>2. Values'
  BY <1>0 DEF Values, hardware
<1> QED BY <1>1, <1>2, RtosRests

(* The returns of a send and an interrupt on the C906L, and giving one up. *)
LEMMA OrderRtosEnds ==
    ASSUME Inv, OrderInv, TaskGiveUp \/ IsrGiveUp \/ TrySendReturns \/ MailboxIsrReturns
    PROVE  OrderInv'
<1>0. Values /\ RtosOwned /\ RtosWords
  BY Zenon DEF OrderInv, Progress, Owned
<1>1. /\ given \in [Cpus -> [Channels -> Nat]] /\ wanted \in [RtosChannels -> Nat]
      /\ RtosChannels \subseteq Channels /\ "linux" \in Cpus /\ "rtos" \in Cpus
  BY <1>0, Routes DEF Values, Cpus
<1>2. PICK c : c = chan["rtos"]
  OBVIOUS
<1>3. SUFFICES /\ given' \in [Cpus -> [Channels -> Nat]] /\ wanted' \in [RtosChannels -> Nat]
               /\ given'["linux"] = given["linux"]
               /\ \A d \in RtosChannels : /\ Before("linux", d, given'["rtos"][d] + 1)
                                          /\ wanted'[d] \in {0, given'["rtos"][d] + 1}
  <2>1. /\ Stop("rtos") /\ todo' \in {todo, [todo EXCEPT !["rtos"] = {}]}
        /\ UNCHANGED <<hardware, arrived, raised, active, deferred, subscribed>>
    BY DEF TaskGiveUp, IsrGiveUp, TrySendReturns, MailboxIsrReturns, Finish, history, linux
  <2> QED BY <1>3, <2>1, RtosEnds
<1>4. \A d \in RtosChannels : /\ wanted[d] \in {0, given["rtos"][d] + 1}
                              /\ job["rtos"] # "send" \/ d # c => Before("linux", d, given["rtos"][d] + 1)
  BY <1>0, <1>2 DEF RtosOwned, RtosWords
<1>5. CASE given' = given /\ wanted' = wanted /\ job["rtos"] # "send"
  BY <1>1, <1>4, <1>5
<1>6. CASE /\ given' = given /\ wanted' \in {wanted, [wanted EXCEPT ![c] = 0]}
           /\ Before("linux", c, given["rtos"][c] + 1)
  BY <1>1, <1>4, <1>6
<1>7. CASE /\ given' = [given EXCEPT !["rtos"][c] = wanted[c]] /\ wanted' = [wanted EXCEPT ![c] = 0]
           /\ Before("linux", c, wanted[c] + 1) /\ c \in RtosChannels
  BY <1>1, <1>4, <1>7
<1>8. CASE TaskGiveUp
  <2>1. /\ job["rtos"] = "send" /\ pc["rtos"] = "attempt" /\ given' = given
        /\ wanted' = [wanted EXCEPT ![c] = 0]
    BY <1>2, <1>8 DEF TaskGiveUp, Exhausted, history
  <2> QED BY <1>2, <1>6, <2>1, RtosSending
<1>9. CASE TrySendReturns
  <2>1. /\ job["rtos"] = "send" /\ pc["rtos"] = "deliver"
        /\ \/ /\ todo["rtos"] # {} /\ wanted' = [wanted EXCEPT ![c] = 0]
              /\ given' = [given EXCEPT !["rtos"][c] = wanted[c]]
           \/ todo["rtos"] = {} /\ wanted' \in {wanted, [wanted EXCEPT ![c] = 0]} /\ given' = given
    BY <1>2, <1>9 DEF TrySendReturns, Finish
  <2> QED BY <1>2, <1>6, <1>7, <2>1, RtosSending
<1>10. CASE IsrGiveUp \/ MailboxIsrReturns
  BY <1>5, <1>10 DEF IsrGiveUp, MailboxIsrReturns, history
<1> QED BY <1>8, <1>9, <1>10

(* Transactions start.                                                     *)
LEMMA Starting ==
    ASSUME Typed, NEW p \in Cpus, NEW j, NEW c, Begin(p, j, c), UNCHANGED <<arrived, raised>>
    PROVE  /\ Outside(p) /\ job'[p] = j /\ chan'[p] = c /\ pc'[p] = "attempt" /\ pc[p] = "idle"
           /\ slot' = slot
  BY DEF Typed, Begin, Outside, hardware

(* The beginning of a send or an interrupt on the C906L.                   *)
LEMMA OrderRtosBegins ==
    ASSUME Inv, OrderInv, MailboxIsr \/ \E c \in RtosChannels : TrySend(c)
    PROVE  OrderInv'
<1>0. /\ Values /\ LinuxOwned /\ RtosOwned /\ Interrupts /\ Later /\ RtosWords
      /\ Sender("linux") /\ LinuxWords /\ Polled /\ Typed /\ "rtos" \in Cpus
  BY Zenon DEF OrderInv, Progress, Owned, Inv, Cpus
<1>1. /\ UNCHANGED <<given, arrived, raised, active, deferred, subscribed, wanted>>
  BY DEF MailboxIsr, TrySend, linux, rtos, history
<1>2. /\ Outside("rtos") /\ pc'["rtos"] = "attempt" /\ pc["rtos"] = "idle" /\ slot' = slot
      /\ \/ job'["rtos"] = "isr"
         \/ job'["rtos"] = "send" /\ chan'["rtos"] \in RtosChannels /\ wanted[chan'["rtos"]] # 0
  BY <1>0, <1>1, Starting DEF MailboxIsr, TrySend
<1>3. LinuxOwned' /\ LinuxWords' /\ Polled' /\ Sender("linux")'
  BY <1>0, <1>1, <1>2, LinuxUntouched
<1>4. Interrupts'
  BY <1>0, <1>2, OutsideInterrupts
<1>5. RtosOwned'
  BY <1>0, <1>1, <1>2 DEF RtosOwned, Requests
<1>6. job["rtos"] = "none" /\ \A c \in RtosChannels : Before("linux", c, given["rtos"][c] + 1)
  BY <1>0, <1>2 DEF RtosOwned, RtosWords
<1>7. RtosWords'
  BY <1>1, <1>2, <1>6, Zenon DEF RtosWords, Before
<1>8. Sender("rtos")'
  <2>1. SUFFICES ASSUME job'["rtos"] = "send" PROVE Sender("rtos")'
    BY <1>2 DEF Sender, Sending
  <2>2. PICK c \in RtosChannels : c = chan'["rtos"]
    BY <1>2, <2>1
  <2>3. Before("linux", c, wanted[c])
    BY Zenon, <1>0, <1>2, <1>6, <2>1, <2>2 DEF RtosOwned
  <2>4. Outgoing("rtos")' = wanted[c]
    BY <1>1, <2>2 DEF Outgoing
  <2> QED BY <1>1, <1>2, <2>2, <2>3, <2>4, Peers DEF Sender, Before, Writing, Ending
<1>9. Values' /\ Later'
  BY <1>0, <1>1, <1>2, Zenon DEF Values, Later
<1> QED BY <1>3, <1>4, <1>5, <1>7, <1>8, <1>9, Zenon DEF OrderInv, Progress, Owned

(* The mailbox core submits the next word of a channel.                    *)
LEMMA OrderSubmit ==
    ASSUME Inv, OrderInv, NEW c \in LinuxChannels, Submit(c)
    PROVE  OrderInv'
<1>0. /\ Values /\ LinuxOwned /\ RtosOwned /\ Interrupts /\ Later /\ RtosWords
      /\ Sender("rtos") /\ LinuxWords /\ Typed /\ "linux" \in Cpus
  BY Zenon DEF OrderInv, Progress, Owned, Inv, Cpus
<1>1. /\ c \in subscribed /\ active[c] = 0 /\ Begin("linux", "send", c)
      /\ given' = [given EXCEPT !["linux"][c] = @ + 1]
      /\ active' = [active EXCEPT ![c] = given'["linux"][c]]
      /\ UNCHANGED <<deferred, subscribed, arrived, raised, wanted>>
  BY DEF Submit, rtos
<1>2. /\ Outside("linux") /\ job'["linux"] = "send" /\ chan'["linux"] = c
      /\ pc'["linux"] = "attempt" /\ pc["linux"] = "idle" /\ slot' = slot
  BY <1>0, <1>1, Starting
<1>3. PICK n \in Nat : n = given["linux"][c]
  BY <1>0, Routes DEF Values
<1>4. /\ given' \in [Cpus -> [Channels -> Nat]]
      /\ given'["linux"][c] = n + 1 /\ given'["rtos"] = given["rtos"]
      /\ \A d \in LinuxChannels : d # c => given'["linux"][d] = given["linux"][d]
  BY <1>0, <1>1, <1>3, Routes DEF Values, Cpus
<1>5. /\ active' \in [LinuxChannels -> Nat] /\ active'[c] = n + 1
      /\ \A d \in LinuxChannels : d # c => active'[d] = active[d]
  BY <1>0, <1>1, <1>4 DEF Values
<1>6. Values' /\ Later'
  BY <1>0, <1>1, <1>2, <1>4, <1>5, Zenon DEF Values, Later
<1>7. RtosOwned' /\ RtosWords' /\ Sender("rtos")'
  BY <1>0, <1>1, <1>2, <1>4, RtosUntouched
<1>8. Interrupts'
  BY <1>0, <1>2, OutsideInterrupts
<1>9. job["linux"] = "none" /\ deferred[c] = 0
  BY <1>0, <1>1, <1>2 DEF LinuxOwned
<1>10. LinuxOwned'
  <2>1. ASSUME NEW d \in LinuxChannels
        PROVE  /\ active'[d] \in {0, given'["linux"][d]} /\ deferred[d] \in {0, active'[d]}
               /\ d \notin subscribed => active'[d] = 0
    BY Zenon, <1>0, <1>1, <1>4, <1>5, <1>9 DEF LinuxOwned
  <2> QED BY <1>1, <1>2, <1>5, <1>9, <2>1 DEF LinuxOwned, Requests
<1>11. Before("rtos", c, n + 1) /\ Before("rtos", c, n + 1 + 1)
  <2>1. Before("rtos", c, n + 1)
    BY <1>0, <1>3 DEF LinuxWords
  <2>2. arrived["rtos"][c] \in Nat /\ slot[c] \in Nat
    BY <1>0, Routes DEF Values, Cpus
  <2>3. \A i \in Nat : i < n + 1 => i < n + 1 + 1
    OBVIOUS
  <2> QED BY <2>1, <2>2, <2>3, Zenon DEF Before
<1>12. LinuxWords'
  <2>1. ASSUME NEW d \in LinuxChannels, d # c
        PROVE  /\ Before("rtos", d, given'["linux"][d] + 1)
               /\ deferred[d] # 0 => Before("rtos", d, active'[d])
               /\ active'[d] # 0 /\ deferred[d] = 0 => Sent("rtos", d, active'[d])
    BY <1>0, <1>4, <1>5, <1>9, <2>1 DEF LinuxWords
  <2>2. Before("rtos", c, given'["linux"][c] + 1)
    BY <1>4, <1>11
  <2> QED BY <1>1, <1>2, <1>9, <2>1, <2>2, Zenon DEF LinuxWords, Before, Sent
<1>13. Sender("linux")'
  <2>1. Outgoing("linux")' = n + 1
    BY <1>2, <1>5 DEF Outgoing
  <2> QED BY <1>1, <1>2, <1>11, <2>1, Peers DEF Sender, Before, Writing, Ending
<1>14. Polled'
  BY <1>2 DEF Polled
<1> QED BY <1>6, <1>7, <1>8, <1>10, <1>12, <1>13, <1>14, Zenon DEF OrderInv, Progress, Owned

(* The beginning of an interrupt, a retry or a poll on Linux.              *)
LEMMA OrderLinuxBegins ==
    ASSUME Inv, OrderInv, LinuxIsr \/ \E c \in LinuxChannels : RetryWork(c) \/ PollDone(c)
    PROVE  OrderInv'
<1>0. /\ Values /\ LinuxOwned /\ RtosOwned /\ Interrupts /\ Later /\ RtosWords
      /\ Sender("rtos") /\ LinuxWords /\ Typed /\ "linux" \in Cpus
  BY Zenon DEF OrderInv, Progress, Owned, Inv, Cpus
<1>1. /\ UNCHANGED <<given, arrived, raised, active, deferred, subscribed, wanted>>
  BY DEF LinuxIsr, RetryWork, PollDone, linux, rtos, history
<1>2. /\ Outside("linux") /\ pc'["linux"] = "attempt" /\ pc["linux"] = "idle" /\ slot' = slot
      /\ \/ job'["linux"] = "isr"
         \/ /\ job'["linux"] \in {"retry", "done"}
            /\ chan'["linux"] \in LinuxChannels /\ chan'["linux"] \in subscribed
            /\ job'["linux"] = "retry" => deferred[chan'["linux"]] # 0
            /\ job'["linux"] = "done" => active[chan'["linux"]] # 0
  BY <1>0, <1>1, Starting DEF LinuxIsr, RetryWork, PollDone
<1>3. RtosOwned' /\ RtosWords' /\ Sender("rtos")'
  BY <1>0, <1>1, <1>2, RtosUntouched
<1>4. Interrupts'
  BY <1>0, <1>2, OutsideInterrupts
<1>5. LinuxOwned'
  <2>1. \A c \in LinuxChannels : deferred[c] # 0 => active[c] # 0
    BY <1>0 DEF LinuxOwned
  <2> QED BY <1>0, <1>1, <1>2, <2>1 DEF LinuxOwned, Requests
<1>6. /\ job["linux"] = "none"
      /\ \A c \in LinuxChannels :
            /\ Before("rtos", c, given["linux"][c] + 1)
            /\ deferred[c] # 0 => Before("rtos", c, active[c]) /\ deferred[c] = active[c]
            /\ active[c] # 0 /\ deferred[c] = 0 => Sent("rtos", c, active[c])
  BY <1>0, <1>2 DEF LinuxOwned, LinuxWords
<1>7. LinuxWords'
  BY <1>1, <1>2, <1>6, Zenon DEF LinuxWords, Before, Sent
<1>8. Sender("linux")'
  <2>1. SUFFICES ASSUME job'["linux"] = "retry" PROVE Sender("linux")'
    BY Zenon, <1>2 DEF Sender, Sending
  <2>2. PICK c \in LinuxChannels : c = chan'["linux"]
    BY <1>2, <2>1
  <2>3. Before("rtos", c, deferred[c])
    BY <1>2, <1>6, <2>1, <2>2
  <2>4. Outgoing("linux")' = deferred[c]
    BY <1>1, <2>1, <2>2 DEF Outgoing
  <2> QED BY <1>1, <1>2, <2>2, <2>3, <2>4, Peers DEF Sender, Before, Writing, Ending
<1>9. Values' /\ Later' /\ Polled'
  <2>1. Polled'
    BY <1>2 DEF Polled, Ending
  <2> QED BY <1>0, <1>1, <1>2, <2>1, Zenon DEF Values, Later
<1> QED BY <1>3, <1>4, <1>5, <1>7, <1>8, <1>9, Zenon DEF OrderInv, Progress, Owned

(* A task makes up its mind, takes a word, or nothing happens.             *)
LEMMA OrderTask ==
    ASSUME OrderInv, UNCHANGED <<hardware, transaction, linux, history>>,
           \/ UNCHANGED wanted
           \/ \E c \in RtosChannels : /\ wanted[c] = 0
                                      /\ wanted' = [wanted EXCEPT ![c] = given["rtos"][c] + 1]
    PROVE  OrderInv'
<1>0. /\ Values /\ LinuxOwned /\ RtosOwned /\ Interrupts /\ Later /\ RtosWords
      /\ Sender("linux") /\ Sender("rtos") /\ LinuxWords /\ Polled
  BY Zenon DEF OrderInv, Progress, Owned
<1>1. UNCHANGED <<slot, arrived, raised, int, en, given, active, deferred, subscribed, pc, job, chan, todo>>
  BY DEF hardware, transaction, linux, history
<1>2. wanted \in [RtosChannels -> Nat] /\ \A c \in RtosChannels : given["rtos"][c] \in Nat
  BY <1>0, Routes DEF Values, Cpus
<1>3. /\ wanted' \in [RtosChannels -> Nat]
      /\ \A c \in RtosChannels : \/ wanted'[c] = wanted[c]
                                 \/ wanted[c] = 0 /\ wanted'[c] = given["rtos"][c] + 1
  BY <1>2
<1>4. Values'
  BY <1>0, <1>1, <1>3, Zenon DEF Values
<1>5. Interrupts'
  BY <1>0, <1>1, Zenon DEF Interrupts, Interrupted, Sending
<1>6. Outside("linux") /\ Outside("rtos")
  BY <1>1, Zenon DEF Outside
<1>7. LinuxOwned' /\ LinuxWords' /\ Polled' /\ Sender("linux")'
  BY <1>0, <1>1, <1>6, LinuxUntouched, Zenon
<1>8. job["rtos"] = "send" => chan["rtos"] \in RtosChannels /\ wanted'[chan["rtos"]] = wanted[chan["rtos"]]
  BY <1>0, <1>3 DEF RtosOwned, Requests
<1>9. RtosOwned'
  <2>1. \A c \in RtosChannels : wanted'[c] \in {0, given["rtos"][c] + 1}
    BY <1>0, <1>3 DEF RtosOwned
  <2> QED BY <1>0, <1>1, <1>8, <2>1 DEF RtosOwned, Requests
<1>10. RtosWords' /\ Later'
  BY <1>0, <1>1, Zenon DEF RtosWords, Later, Before
<1>11. Sender("rtos")'
  <2>1. Sending("rtos") => Outgoing("rtos")' = Outgoing("rtos")
    BY <1>0, <1>1, <1>8 DEF Outgoing, Sending, RtosOwned, Requests
  <2> QED BY <1>0, <1>6, <2>1, OutsideSender DEF Cpus
<1> QED BY <1>4, <1>5, <1>7, <1>9, <1>10, <1>11, Zenon DEF OrderInv, Progress, Owned

(* Every step keeps the order.                                             *)
LEMMA OrderNext == Inv /\ OrderInv /\ [Next]_vars => OrderInv'
<1> SUFFICES ASSUME Inv, OrderInv, [Next]_vars PROVE OrderInv'
  OBVIOUS
<1>1. ASSUME NEW p \in Cpus, Transaction(p) PROVE OrderInv'
  BY <1>1, OrderTransaction
<1>2. CASE LinuxGiveUp \/ SendReturns \/ RetryReturns \/ LinuxIsrReturns
  BY <1>2, OrderLinuxEnds
<1>3. CASE TaskGiveUp \/ IsrGiveUp \/ TrySendReturns \/ MailboxIsrReturns
  BY <1>3, OrderRtosEnds
<1>4. CASE CheckDone
  BY <1>4, OrderCheckDone
<1>5. CASE DoneReturns
  BY <1>5, OrderDoneReturns
<1>6. CASE LinuxIsr \/ \E c \in LinuxChannels : RetryWork(c) \/ PollDone(c)
  BY <1>6, OrderLinuxBegins
<1>7. CASE MailboxIsr \/ \E c \in RtosChannels : TrySend(c)
  BY <1>7, OrderRtosBegins
<1>8. ASSUME NEW c \in LinuxChannels, Submit(c) PROVE OrderInv'
  BY <1>8, OrderSubmit
<1>9. CASE (\E c \in LinuxChannels : TakeWord(c)) \/ (\E c \in RtosChannels : Want(c)) \/ UNCHANGED vars
  <2>1. UNCHANGED <<hardware, transaction, linux, history>>
    BY <1>9 DEF TakeWord, Want, vars
  <2>2. \/ UNCHANGED wanted
        \/ \E c \in RtosChannels : /\ wanted[c] = 0
                                   /\ wanted' = [wanted EXCEPT ![c] = given["rtos"][c] + 1]
    BY Zenon, <1>9 DEF TakeWord, Want, vars, rtos
  <2> QED BY <2>1, <2>2, OrderTask
<1>10. ASSUME NEW c \in Channels, Shutdown(c) \/ Startup(c) PROVE OrderInv'
  BY <1>10, OrderClient
<1> QED BY <1>1, <1>2, <1>3, <1>4, <1>5, <1>6, <1>7, <1>8, <1>9, <1>10, Routes, Zenon
        DEF Next, LinuxReturns, RtosReturns

(* Nothing is under way in the initial state.                              *)
LEMMA OrderInit == Init => OrderInv
<1> SUFFICES ASSUME Init PROVE OrderInv
  OBVIOUS
<1>1. /\ \A c \in Channels : slot[c] = 0 /\ raised[c] = "none"
      /\ \A p \in Cpus, c \in Channels : arrived[p][c] = 0 /\ given[p][c] = 0
      /\ \A p \in Cpus : pc[p] = "idle" /\ job[p] = "none" /\ int[p] = {} /\ todo[p] = {}
      /\ \A c \in LinuxChannels : active[c] = 0 /\ deferred[c] = 0
      /\ \A c \in RtosChannels : wanted[c] = 0
  BY Routes DEF Init, NoCopies
<1>2. Values
  BY Zenon, Routes DEF Init, NoCopies, Values
<1>3. "linux" \in Cpus /\ "rtos" \in Cpus /\ LinuxChannels \subseteq Channels /\ RtosChannels \subseteq Channels
  BY Routes DEF Cpus
<1>4. LinuxOwned /\ RtosOwned
  BY Zenon, <1>1, <1>3 DEF LinuxOwned, RtosOwned, Requests
<1>5. Interrupts
  BY <1>1 DEF Interrupts, Interrupted, Sending, Requests
<1>6. Later /\ Polled /\ Sender("linux") /\ Sender("rtos")
  BY Zenon, <1>1, <1>3, Routes DEF Later, Polled, Sender, Sending
<1>7. LinuxWords /\ RtosWords
  <2>1. 0 < 0 + 1
    OBVIOUS
  <2>2. ASSUME NEW q \in Cpus, NEW c \in Channels PROVE Before(q, c, 0 + 1)
    <3>1. arrived[q][c] = 0 /\ raised[c] = "none" /\ q # "none"
      BY <1>1, Routes
    <3> QED BY <2>1, <3>1, Zenon DEF Before
  <2> QED BY <1>1, <1>3, <2>2, Zenon DEF LinuxWords, RtosWords
<1> QED BY <1>2, <1>4, <1>5, <1>6, <1>7 DEF OrderInv, Owned, Progress

(* Only the receiver's copy ends an announcement.                          *)
LEMMA Copied ==
    ASSUME Inv, OrderInv, [Next]_vars, NEW p \in Cpus, NEW c \in Channels,
           raised[c] = p, raised'[c] = "none"
    PROVE  arrived'[p][c] > arrived[p][c]
<1>0. Typed /\ Values
  BY Zenon DEF Inv, OrderInv
<1>1. raised' # raised
  BY Routes
<1>2. PICK q \in Cpus : Raise(q) \/ CopySlot(q)
  BY Zenon, <1>1 DEF Next, vars, history, Transaction, Acquire, WriteSlot, FindBusy, ReadEnable, WriteEnable,
       ScanPending, Release, LinuxGiveUp, TaskGiveUp, IsrGiveUp, LinuxReturns, SendReturns,
       RetryReturns, CheckDone, DoneReturns, LinuxIsrReturns, RtosReturns, TrySendReturns,
       MailboxIsrReturns, LinuxIsr, MailboxIsr, Submit, RetryWork, PollDone, TakeWord, Want,
       TrySend, Shutdown, Startup
<1>3. ~Raise(q)
  BY <1>0, Routes DEF Raise, Typed
<1>4. PICK d \in Channels : /\ raised[d] = q /\ arrived[q][d] < slot[d]
                            /\ arrived' = [arrived EXCEPT ![q][d] = slot[d]]
                            /\ raised' = [raised EXCEPT ![d] = "none"]
  BY <1>2, <1>3, Copying
<1>5. d = c /\ q = p
  BY <1>0, <1>4, Routes DEF Typed
<1> QED BY <1>0, <1>4, <1>5 DEF Values

(* Only a poll ends a request of a client that stays.                      *)
LEMMA Finished ==
    ASSUME Inv, OrderInv, [Next]_vars, NEW c \in LinuxChannels,
           active[c] # 0, active'[c] = 0, c \in subscribed'
    PROVE  arrived["rtos"][c] = active[c]
<1>0. Values
  BY Zenon DEF OrderInv
<1>1. active' # active
  OBVIOUS
<1>2. DoneReturns \/ (\E d \in LinuxChannels : Submit(d)) \/ (\E d \in Channels : Shutdown(d))
  BY Zenon, <1>1, Routes DEF Next, vars, linux, Transaction, Acquire, WriteSlot, FindBusy, ReadEnable, WriteEnable,
       ScanPending, CopySlot, Raise, Release, LinuxGiveUp, TaskGiveUp, IsrGiveUp, LinuxReturns, SendReturns,
       RetryReturns, CheckDone, LinuxIsrReturns, RtosReturns, TrySendReturns,
       MailboxIsrReturns, LinuxIsr, MailboxIsr, RetryWork, PollDone, TakeWord, Want,
       TrySend, Startup
<1>3. ASSUME NEW d \in LinuxChannels, Submit(d) PROVE FALSE
  BY <1>0, <1>3, Routes DEF Submit, Values, Cpus
<1>4. ASSUME NEW d \in Channels, Shutdown(d) PROVE FALSE
  BY <1>0, <1>4 DEF Shutdown, Values
<1> QED BY <1>2, <1>3, <1>4, Reported

(* InOrder: each copy a receiver makes is of a later word than the one it  *)
(* had (cv1800_mbox_isr, mailbox_isr), and cv1800_last_tx_done reports a   *)
(* word only once the C906L has copied it.                                 *)
THEOREM WordsOrdered == Spec => InOrder
<1>1. Spec => []OrderInv
  BY Invariant, OrderInit, OrderNext, PTL DEF Spec
<1>2. Inv /\ OrderInv /\ [Next]_vars =>
        [\A p \in Cpus, c \in Channels :
           raised[c] = p /\ raised'[c] = "none" => arrived'[p][c] > arrived[p][c]]_vars
  BY Copied
<1>3. Inv /\ OrderInv /\ [Next]_vars =>
        [\A c \in Outbound["linux"] :
           active[c] # 0 /\ active'[c] = 0 /\ c \in subscribed'
               => arrived["rtos"][c] = active[c]]_vars
  BY Finished, Routes
<1> QED BY <1>1, <1>2, <1>3, Invariant, PTL DEF InOrder, Spec
=============================================================================
