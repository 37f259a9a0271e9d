------------------------------- MODULE Mailbox -------------------------------
(***************************************************************************)
(* The SG2002 hardware mailbox between Linux and the C906L.                *)
(*                                                                         *)
(* Each channel has one payload slot, used in both directions.  A sender   *)
(* writes the slot, sets the receiver's enable bit and raises the          *)
(* interrupt; the receiver copies the slot, clears the interrupt and       *)
(* clears its enable bit, which frees the slot.  The enable registers are  *)
(* updated by read, modify and write from both processors, so every        *)
(* transaction is bracketed by a hardware semaphore: writing a token to an *)
(* idle semaphore takes it, writing the same token again releases it.      *)
(*                                                                         *)
(* Linux is drivers/mailbox/cv1800-mailbox.c as patched by 0064, the C906L *)
(* is pkgs/sg2002/c906l-firmware/rtos-shim.c.  On each processor one       *)
(* transaction runs at a time: register_lock on Linux, masked interrupts   *)
(* on the C906L.  Words are numbered in the order in which they are given  *)
(* to a channel.                                                           *)
(***************************************************************************)
EXTENDS Naturals, Sequences

CONSTANTS MaxWord,        \* bound on the requests Linux sends on the control channel
          MaxOther,       \* bound on the words sent otherwise, per channel and direction
          TokenLimit,     \* the counters behind the tokens wrap here (256)
          DeferralLimit,  \* consecutive lock misses before the C906L masks its interrupt
          QueueLength,    \* capacity of the C906L's task queues
          LinuxChannels,  \* the channels in use in each direction: of "control", "kick"
          RtosChannels    \* and of "control", "notify"

ASSUME MailboxAssumption ==
    /\ {MaxWord, MaxOther, DeferralLimit, QueueLength} \subseteq Nat \ {0}
    /\ TokenLimit \in Nat \ {0, 1}
    /\ LinuxChannels \subseteq {"control", "kick"}
    /\ RtosChannels \subseteq {"control", "notify"}

Cpus == {"linux", "rtos"}
Channels == LinuxChannels \cup RtosChannels

(* The channels on which each processor sends.                             *)
Outbound == [linux |-> LinuxChannels, rtos |-> RtosChannels]

Peer(p) == CHOOSE q \in Cpus : q # p

Bound(p, c) == IF p = "linux" /\ c = "control" THEN MaxWord ELSE MaxOther
Words == 0 .. IF MaxWord > MaxOther THEN MaxWord ELSE MaxOther

VARIABLES
    \* hardware
    slot,        \* payload of each channel
    en,          \* cpu_mbox_en: the receivers that still have to take the slot
    int,         \* cpu_mbox_int: pending interrupts
    lock,        \* the semaphore: 0 when idle, else the owner's token
    \* the transaction of each processor
    pc,          \* where it is
    job,         \* what it does: "send", "retry", "done" or "isr"
    chan,        \* the channel it is at
    tmp,         \* the enable register as read
    todo,        \* pending channels still to be served
    copied,      \* payloads copied by the receiver, 0 when none
    counter,     \* the token counter
    \* Linux
    active,      \* the core's active request of each channel
    deferred,    \* deferred_data, 0 when the channel's deferred bit is clear
    subscribed,  \* channels with a client
    \* C906L
    queue,       \* the queues of the control and RPMsg tasks
    wanted,      \* the word a task is trying to send, 0 when none
    streak,      \* mailbox_irq_lock_streak
    masked,      \* disable_irq was called
    failures,    \* a lock failure or a dropped word was counted
    \* history
    given,       \* words given to each channel so far
    arrived,     \* the last word each receiver copied from each channel
    raised       \* the receiver that was told of the slot and has not copied it

hardware == <<slot, en, int, lock>>
transaction == <<pc, job, chan, tmp, todo, copied, counter>>
linux == <<active, deferred, subscribed>>
rtos == <<queue, wanted, streak, masked, failures>>
history == <<given, arrived, raised>>
vars == <<hardware, transaction, linux, rtos, history>>

TypeOK ==
    /\ slot \in [Channels -> Words]
    /\ en \in [Cpus -> SUBSET Channels]
    /\ int \in [Cpus -> SUBSET Channels]
    /\ lock \in 0 .. TokenLimit * TokenLimit
    /\ pc \in [Cpus -> {"idle", "attempt", "check", "read", "update", "raise",
                        "scan", "copy", "release", "deliver"}]
    /\ job \in [Cpus -> {"none", "send", "retry", "done", "isr"}]
    /\ chan \in [Cpus -> Channels \cup {"control"}]
    /\ tmp \in [Cpus -> SUBSET Channels]
    /\ todo \in [Cpus -> SUBSET Channels]
    /\ copied \in [Cpus -> [Channels -> Words]]
    /\ counter \in [Cpus -> 0 .. TokenLimit - 1]
    /\ active \in [Outbound["linux"] -> Words]
    /\ deferred \in [Outbound["linux"] -> Words]
    /\ subscribed \subseteq Channels
    /\ queue \in [Outbound["linux"] -> Seq(Words)]
    /\ wanted \in [Outbound["rtos"] -> Words]
    /\ streak \in 0 .. DeferralLimit
    /\ {masked, failures} \subseteq BOOLEAN
    /\ given \in [Cpus -> [Channels -> Words]]
    /\ arrived \in [Cpus -> [Channels -> Words]]
    /\ raised \in [Channels -> Cpus \cup {"none"}]

-----------------------------------------------------------------------------
(* The semaphore.                                                          *)

(* mailbox_lock_next_token: 0 is skipped.                                  *)
NextCounter(n) == IF (n + 1) % TokenLimit = 0 THEN 1 ELSE (n + 1) % TokenLimit

(* Linux tokens are in the low byte and C906L tokens in the high byte.     *)
Token(p) == IF p = "linux" THEN counter[p] ELSE counter[p] * TokenLimit

(* What the hardware makes of a token written to it.                       *)
Written(t) == IF lock = 0 THEN t ELSE IF lock = t THEN 0 ELSE lock

(* A transaction starts by taking the semaphore with a fresh token.        *)
Begin(p, j, c) ==
    /\ pc[p] = "idle"
    /\ pc' = [pc EXCEPT ![p] = "attempt"]
    /\ job' = [job EXCEPT ![p] = j]
    /\ chan' = [chan EXCEPT ![p] = c]
    /\ counter' = [counter EXCEPT ![p] = NextCounter(@)]
    /\ UNCHANGED <<hardware, tmp, todo, copied>>

(* One attempt: the token is written and read back.  A write that loses    *)
(* changes nothing, and after one that wins the other processor's writes   *)
(* change nothing, so the two accesses are one step; losing attempts are   *)
(* stuttering steps.                                                       *)
Acquire(p) ==
    /\ pc[p] = "attempt"
    /\ Written(Token(p)) = Token(p)
    /\ lock' = Token(p)
    /\ pc' = [pc EXCEPT ![p] = IF job[p] = "isr" THEN "scan" ELSE "check"]
    /\ streak' = IF p = "rtos" /\ job[p] = "isr" THEN 0 ELSE streak
    /\ UNCHANGED <<slot, en, int, job, chan, tmp, todo, copied, counter, linux, queue, wanted,
                   masked, failures, history>>

(* Every attempt of the bounded loop found the semaphore owned.            *)
Exhausted(p) == pc[p] = "attempt" /\ Written(Token(p)) # Token(p)

Stop(p) ==
    /\ pc' = [pc EXCEPT ![p] = "idle"]
    /\ job' = [job EXCEPT ![p] = "none"]
    /\ chan' = [chan EXCEPT ![p] = "control"]

(* Variant: a contended word is not stored.                                *)
DeferNothing(c) == UNCHANGED deferred

(* cv1800_mbox_send_data keeps a word it could not transmit for the        *)
(* retry work.                                                             *)
Defer(c) ==
    deferred' = IF c \in subscribed THEN [deferred EXCEPT ![c] = active[c]] ELSE deferred

(* The attempts run out.  Linux defers the word or tries later; the C906L  *)
(* task gives its word up.                                                 *)
LinuxGiveUp ==
    /\ Exhausted("linux")
    /\ Stop("linux")
    /\ IF job["linux"] = "send" THEN Defer(chan["linux"]) ELSE UNCHANGED deferred
    /\ UNCHANGED <<hardware, tmp, todo, copied, counter, active, subscribed, rtos, history>>

TaskGiveUp ==
    /\ Exhausted("rtos")
    /\ job["rtos"] = "send"
    /\ Stop("rtos")
    /\ failures' = TRUE
    /\ wanted' = [wanted EXCEPT ![chan["rtos"]] = 0]
    /\ UNCHANGED <<hardware, tmp, todo, copied, counter, linux, queue, streak, masked,
                   history>>

(* The C906L interrupt stays pending, until too many consecutive misses    *)
(* mask it for good.                                                       *)
IsrGiveUp ==
    /\ Exhausted("rtos")
    /\ job["rtos"] = "isr"
    /\ Stop("rtos")
    /\ streak' = streak + 1
    /\ masked' = (streak + 1 = DeferralLimit)
    /\ failures' = (failures \/ masked')
    /\ UNCHANGED <<hardware, tmp, todo, copied, counter, linux, queue, wanted, history>>

-----------------------------------------------------------------------------
(* Sending.                                                                *)

(* Variant: only the receiver's enable bit is looked at.                   *)
BusyAtPeer(p) == chan[p] \in en[Peer(p)]

(* The slot is busy while any receiver still has to take it.               *)
SlotBusy(p) == \E q \in Cpus : chan[p] \in en[q]

Outgoing(p) ==
    IF p = "rtos" THEN wanted[chan[p]]
    ELSE IF job[p] = "retry" THEN deferred[chan[p]] ELSE active[chan[p]]

(* A free slot gets the payload, and a stale interrupt is cleared.         *)
WriteSlot(p) ==
    /\ pc[p] = "check"
    /\ job[p] \in {"send", "retry"}
    /\ ~SlotBusy(p)
    /\ slot' = [slot EXCEPT ![chan[p]] = Outgoing(p)]
    /\ int' = [int EXCEPT ![Peer(p)] = @ \ {chan[p]}]
    /\ todo' = [todo EXCEPT ![p] = {chan[p]}]
    /\ pc' = [pc EXCEPT ![p] = "read"]
    /\ UNCHANGED <<en, lock, job, chan, tmp, copied, counter, linux, rtos, history>>

FindBusy(p) ==
    /\ pc[p] = "check"
    /\ job[p] \in {"send", "retry"}
    /\ SlotBusy(p)
    /\ todo' = [todo EXCEPT ![p] = {}]
    /\ pc' = [pc EXCEPT ![p] = "release"]
    /\ UNCHANGED <<hardware, job, chan, tmp, copied, counter, linux, rtos, history>>

(* The read and the write of the enable register: the receiver's when      *)
(* sending, its own when receiving.                                        *)
EnableRegister(p) == IF job[p] = "isr" THEN p ELSE Peer(p)

ReadEnable(p) ==
    /\ pc[p] = "read"
    /\ tmp' = [tmp EXCEPT ![p] = en[EnableRegister(p)]]
    /\ pc' = [pc EXCEPT ![p] = "update"]
    /\ UNCHANGED <<hardware, job, chan, todo, copied, counter, linux, rtos, history>>

WriteEnable(p) ==
    /\ pc[p] = "update"
    /\ en' = [en EXCEPT ![EnableRegister(p)] =
                IF job[p] = "isr" THEN tmp[p] \ {chan[p]} ELSE tmp[p] \cup {chan[p]}]
    /\ tmp' = [tmp EXCEPT ![p] = {}]
    /\ pc' = [pc EXCEPT ![p] = IF job[p] # "isr" THEN "raise"
                               ELSE IF todo[p] = {} THEN "release" ELSE "copy"]
    /\ UNCHANGED <<slot, int, lock, job, chan, todo, copied, counter, linux, rtos, history>>

(* mbox_set interrupts every processor that has the channel enabled.       *)
Raise(p) ==
    /\ pc[p] = "raise"
    /\ int' = [q \in Cpus |-> IF chan[p] \in en[q] THEN int[q] \cup {chan[p]} ELSE int[q]]
    /\ raised' = [raised EXCEPT ![chan[p]] = Peer(p)]
    /\ pc' = [pc EXCEPT ![p] = "release"]
    /\ UNCHANGED <<slot, en, lock, job, chan, tmp, todo, copied, counter, linux, rtos, given,
                   arrived>>

-----------------------------------------------------------------------------
(* Receiving.                                                              *)

ScanPending(p) ==
    /\ pc[p] = "scan"
    /\ todo' = [todo EXCEPT ![p] = int[p]]
    /\ pc' = [pc EXCEPT ![p] = IF int[p] = {} THEN "release" ELSE "copy"]
    /\ UNCHANGED <<hardware, job, chan, tmp, copied, counter, linux, rtos, history>>

(* Copy before acknowledging: clearing the enable bit frees the slot.      *)
CopySlot(p) ==
    /\ pc[p] = "copy"
    /\ \E c \in todo[p] :
          /\ chan' = [chan EXCEPT ![p] = c]
          /\ todo' = [todo EXCEPT ![p] = @ \ {c}]
          /\ copied' = [copied EXCEPT ![p][c] = slot[c]]
          /\ int' = [int EXCEPT ![p] = @ \ {c}]
          /\ arrived' = [arrived EXCEPT ![p][c] = slot[c]]
          /\ raised' = [raised EXCEPT ![c] = IF @ = p THEN "none" ELSE @]
    /\ pc' = [pc EXCEPT ![p] = "read"]
    /\ UNCHANGED <<slot, en, lock, job, tmp, counter, linux, rtos, given>>

(* The semaphore is released by writing the owner's token once more.       *)
Release(p) ==
    /\ pc[p] = "release"
    /\ lock' = IF lock = Token(p) THEN Written(Token(p)) ELSE lock
    /\ failures' = (failures \/ (p = "rtos" /\ lock # Token(p)))
    /\ pc' = [pc EXCEPT ![p] = "deliver"]
    /\ UNCHANGED <<slot, en, int, job, chan, tmp, todo, copied, counter, linux, queue, wanted,
                   streak, masked, history>>

NoCopies == [c \in Channels |-> 0]

Finish(p) ==
    /\ pc[p] = "deliver"
    /\ Stop(p)
    /\ todo' = [todo EXCEPT ![p] = {}]
    /\ copied' = [copied EXCEPT ![p] = NoCopies]
    /\ UNCHANGED <<hardware, tmp, counter>>

-----------------------------------------------------------------------------
(* Linux: the mailbox core and the controller driver.                      *)

(* mbox_send_message: the core submits one word per channel at a time.     *)
Submit(c) ==
    /\ c \in Outbound["linux"] \cap subscribed
    /\ active[c] = 0
    /\ given["linux"][c] < Bound("linux", c)
    /\ Begin("linux", "send", c)
    /\ given' = [given EXCEPT !["linux"][c] = @ + 1]
    /\ active' = [active EXCEPT ![c] = given'["linux"][c]]
    /\ UNCHANGED <<deferred, subscribed, rtos, arrived, raised>>

(* The word was transmitted, or it is deferred.                            *)
SendReturns ==
    /\ job["linux"] = "send"
    /\ Finish("linux")
    /\ IF todo["linux"] = {} THEN Defer(chan["linux"]) ELSE UNCHANGED deferred
    /\ UNCHANGED <<active, subscribed, rtos, history>>

RetryWork(c) ==
    /\ c \in Outbound["linux"] \cap subscribed
    /\ deferred[c] # 0
    /\ Begin("linux", "retry", c)
    /\ UNCHANGED <<linux, rtos, history>>

(* Variant: the deferred word stays stored after it was transmitted.       *)
RetryKeeps ==
    /\ job["linux"] = "retry"
    /\ Finish("linux")
    /\ UNCHANGED <<linux, rtos, history>>

RetryReturns ==
    /\ job["linux"] = "retry"
    /\ Finish("linux")
    /\ deferred' = IF todo["linux"] = {} THEN deferred
                   ELSE [deferred EXCEPT ![chan["linux"]] = 0]
    /\ UNCHANGED <<active, subscribed, rtos, history>>

(* The core polls cv1800_last_tx_done for the channels with an active      *)
(* request.                                                                *)
PollDone(c) ==
    /\ c \in Outbound["linux"] \cap subscribed
    /\ active[c] # 0
    /\ Begin("linux", "done", c)
    /\ UNCHANGED <<linux, rtos, history>>

LastTxDone(c) == deferred[c] = 0 /\ ~SlotBusy("linux")

CheckDone ==
    /\ pc["linux"] = "check"
    /\ job["linux"] = "done"
    /\ todo' = [todo EXCEPT !["linux"] =
                  IF LastTxDone(chan["linux"]) THEN {chan["linux"]} ELSE {}]
    /\ pc' = [pc EXCEPT !["linux"] = "release"]
    /\ UNCHANGED <<hardware, job, chan, tmp, copied, counter, linux, rtos, history>>

DoneReturns ==
    /\ job["linux"] = "done"
    /\ Finish("linux")
    /\ active' = [c \in DOMAIN active |-> IF c \in todo["linux"] THEN 0 ELSE active[c]]
    /\ UNCHANGED <<deferred, subscribed, rtos, history>>

(* The threaded handler runs while the level interrupt is pending; its     *)
(* callbacks run after the unlock, for subscribed channels only.           *)
LinuxIsr ==
    /\ int["linux"] # {}
    /\ Begin("linux", "isr", "control")
    /\ UNCHANGED <<linux, rtos, history>>

LinuxIsrReturns ==
    /\ job["linux"] = "isr"
    /\ Finish("linux")
    /\ UNCHANGED <<linux, rtos, history>>

(* mbox_free_channel, when the client leaves, and mbox_request_channel.    *)
Shutdown(c) ==
    /\ pc["linux"] = "idle"
    /\ c \in subscribed
    /\ subscribed' = subscribed \ {c}
    /\ deferred' = [d \in DOMAIN deferred |-> IF d = c THEN 0 ELSE deferred[d]]
    /\ active' = [d \in DOMAIN active |-> IF d = c THEN 0 ELSE active[d]]
    /\ UNCHANGED <<hardware, transaction, rtos, history>>

Startup(c) ==
    /\ pc["linux"] = "idle"
    /\ c \notin subscribed
    /\ subscribed' = subscribed \cup {c}
    /\ deferred' = [d \in DOMAIN deferred |-> IF d = c THEN 0 ELSE deferred[d]]
    /\ UNCHANGED <<hardware, transaction, active, rtos, history>>

-----------------------------------------------------------------------------
(* C906L: the tasks and the interrupt handler.                             *)

(* A task starts to send a word: a control response or a notification.     *)
Want(c) ==
    /\ c \in Outbound["rtos"]
    /\ wanted[c] = 0
    /\ given["rtos"][c] < Bound("rtos", c)
    /\ wanted' = [wanted EXCEPT ![c] = given["rtos"][c] + 1]
    /\ UNCHANGED <<hardware, transaction, linux, queue, streak, masked, failures, history>>

TrySend(c) ==
    /\ c \in Outbound["rtos"]
    /\ wanted[c] # 0
    /\ Begin("rtos", "send", c)
    /\ UNCHANGED <<linux, rtos, history>>

(* mailbox_send returns: sent, or busy and to be tried again or given up.  *)
TrySendReturns ==
    LET c == chan["rtos"]
    IN /\ job["rtos"] = "send"
       /\ Finish("rtos")
       /\ \/ /\ todo["rtos"] # {}
             /\ wanted' = [wanted EXCEPT ![c] = 0]
             /\ given' = [given EXCEPT !["rtos"][c] = wanted[c]]
          \/ /\ todo["rtos"] = {}
             /\ wanted' \in {wanted, [wanted EXCEPT ![c] = 0]}
             /\ UNCHANGED given
       /\ UNCHANGED <<linux, queue, streak, masked, failures, arrived, raised>>

MailboxIsr ==
    /\ int["rtos"] # {}
    /\ ~masked
    /\ Begin("rtos", "isr", "control")
    /\ UNCHANGED <<linux, rtos, history>>

(* The words are queued after the unlock; a full queue drops them.         *)
MailboxIsrReturns ==
    LET room == {c \in DOMAIN queue : copied["rtos"][c] # 0 /\ Len(queue[c]) < QueueLength}
    IN /\ job["rtos"] = "isr"
       /\ Finish("rtos")
       /\ queue' = [c \in DOMAIN queue |->
                      IF c \in room THEN Append(queue[c], copied["rtos"][c]) ELSE queue[c]]
       /\ failures' = (failures \/ \E c \in DOMAIN queue \ room : copied["rtos"][c] # 0)
       /\ UNCHANGED <<linux, wanted, streak, masked, history>>

(* A task takes a word from its queue.                                     *)
TakeWord(c) ==
    /\ queue[c] # <<>>
    /\ queue' = [queue EXCEPT ![c] = Tail(@)]
    /\ UNCHANGED <<hardware, transaction, linux, wanted, streak, masked, failures, history>>

-----------------------------------------------------------------------------
(* After c906l_platform_start has cleared the C906L's registers.           *)
Init ==
    /\ slot = NoCopies
    /\ en = [p \in Cpus |-> {}]
    /\ int = [p \in Cpus |-> {}]
    /\ lock = 0
    /\ pc = [p \in Cpus |-> "idle"]
    /\ job = [p \in Cpus |-> "none"]
    /\ chan = [p \in Cpus |-> "control"]
    /\ tmp = [p \in Cpus |-> {}]
    /\ todo = [p \in Cpus |-> {}]
    /\ copied = [p \in Cpus |-> NoCopies]
    /\ counter = [p \in Cpus |-> 0]
    /\ active = [c \in Outbound["linux"] |-> 0]
    /\ deferred = [c \in Outbound["linux"] |-> 0]
    /\ subscribed = Channels
    /\ queue = [c \in Outbound["linux"] |-> <<>>]
    /\ wanted = [c \in Outbound["rtos"] |-> 0]
    /\ streak = 0
    /\ masked = FALSE
    /\ failures = FALSE
    /\ given = [p \in Cpus |-> NoCopies]
    /\ arrived = [p \in Cpus |-> NoCopies]
    /\ raised = [c \in Channels |-> "none"]

(* A transaction in progress.                                              *)
Transaction(p) ==
    \/ Acquire(p) \/ WriteSlot(p) \/ FindBusy(p)
    \/ ReadEnable(p) \/ WriteEnable(p) \/ Raise(p) \/ ScanPending(p) \/ CopySlot(p)
    \/ Release(p)

LinuxReturns == SendReturns \/ RetryReturns \/ CheckDone \/ DoneReturns \/ LinuxIsrReturns
RtosReturns == TrySendReturns \/ MailboxIsrReturns

Next ==
    \/ \E p \in Cpus : Transaction(p)
    \/ LinuxGiveUp \/ TaskGiveUp \/ IsrGiveUp
    \/ LinuxReturns \/ RtosReturns \/ LinuxIsr \/ MailboxIsr
    \/ \E c \in Outbound["linux"] : Submit(c) \/ RetryWork(c) \/ PollDone(c) \/ TakeWord(c)
    \/ \E c \in Outbound["rtos"] : Want(c) \/ TrySend(c)
    \/ \E c \in Channels : Shutdown(c) \/ Startup(c)

InSection(p) == pc[p] \in {"check", "read", "update", "raise", "scan", "copy", "release"}

(* Both processors keep running.  Interrupts, the retry work and the poll  *)
(* timer come again as long as there is a reason, and on Linux, where the  *)
(* attempts of one transaction outlast the few register accesses of the    *)
(* other processor, not every one of infinitely many is crowded out.       *)
Due(j, c) ==
    /\ pc["linux"] = "idle"
    /\ \/ j = "retry" /\ c \in subscribed /\ deferred[c] # 0
       \/ j = "done" /\ c \in subscribed /\ active[c] # 0
       \/ j = "isr" /\ int["linux"] # {}

Works(j, c) == InSection("linux") /\ job["linux"] = j /\ chan["linux"] = c

Fairness ==
    /\ WF_vars(Transaction("linux") \/ LinuxGiveUp)
    /\ WF_vars(Transaction("rtos") \/ TaskGiveUp \/ IsrGiveUp)
    /\ WF_vars(LinuxReturns)
    /\ WF_vars(RtosReturns)
    /\ SF_vars(MailboxIsr)
    /\ []<>Due("isr", "control") => []<>Works("isr", "control")
    /\ \A c \in Outbound["linux"], j \in {"retry", "done"} : []<>Due(j, c) => []<>Works(j, c)

Spec == Init /\ [][Next]_vars /\ Fairness

-----------------------------------------------------------------------------
LockExclusive == ~(InSection("linux") /\ InSection("rtos"))

(* The two processors are never inside their register transactions at the  *)
(* same time, as the tokens of both are nonzero and disjoint               *)
(* (mailbox_lock_acquire, cv1800_hwlock_acquire), and a payload is never   *)
(* overwritten before the receiver that was interrupted for it has copied  *)
(* it, in whichever direction the slot was used (mailbox_send,             *)
(* cv1800_transmit_locked).                                                *)
NoOverwrite ==
    /\ []LockExclusive
    /\ [][\A p \in Cpus : WriteSlot(p) => raised[chan[p]] = "none"]_vars

(* Words arrive in the order in which they were given to the channel, none *)
(* twice, also through the deferred storage and across a client change,    *)
(* and Linux reports a word as transmitted, upon which the client reuses   *)
(* its buffer, only when the C906L has copied it (cv1800_last_tx_done).    *)
InOrder ==
    /\ [][\A p \in Cpus, c \in Channels :
           raised[c] = p /\ raised'[c] = "none" => arrived'[p][c] > arrived[p][c]]_vars
    /\ [][\A c \in Outbound["linux"] :
           active[c] # 0 /\ active'[c] = 0 /\ c \in subscribed'
               => arrived["rtos"][c] = active[c]]_vars

(* A word given to the mailbox reaches the C906L, also when it had to be   *)
(* deferred, unless its client leaves; and every slot that was filled is   *)
(* freed, so that no sender waits for ever on a slot nobody will take.     *)
(* Either may fail only once the C906L has masked its mailbox interrupt    *)
(* and counted the failure.                                                *)
WordsArrive ==
    /\ \A c \in Outbound["linux"], n \in Words \ {0} :
          active[c] = n ~> \/ arrived["rtos"][c] >= n
                           \/ c \notin subscribed
                           \/ masked /\ failures
    /\ \A c \in Channels : raised[c] # "none" ~> raised[c] = "none" \/ (masked /\ failures)
=============================================================================
