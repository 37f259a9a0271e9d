---------------------------- MODULE MailboxProofs ----------------------------
(***************************************************************************)
(* NoOverwrite for any channels, bounds and token counters.                *)
(*                                                                         *)
(* That the processors exclude each other rests on their tokens, which are *)
(* nonzero and never equal (Locked).  Under the lock the enable register   *)
(* is still what was read before it is written back, so a channel whose    *)
(* receiver was interrupted stays enabled until the receiver has copied    *)
(* the payload (Told), and a sender finds the slot busy.                   *)
(*                                                                         *)
(* The second half is the groundwork for InOrder: the invariant OrderInv,  *)
(* what every step of a transaction leaves alone, and the steps that copy  *)
(* and announce nothing.  MailboxOrder has the other steps.                *)
(***************************************************************************)
EXTENDS Mailbox, TLAPS

Section == {"check", "read", "update", "raise", "scan", "copy", "release"}
Jobs == {"send", "retry", "done", "isr"}

Typed ==
    /\ pc \in [Cpus -> Section \cup {"idle", "attempt", "deliver"}]
    /\ job \in [Cpus -> Jobs \cup {"none"}]
    /\ chan \in [Cpus -> Channels \cup {"control"}]
    /\ en \in [Cpus -> SUBSET Channels]
    /\ int \in [Cpus -> SUBSET Channels]
    /\ tmp \in [Cpus -> SUBSET Channels]
    /\ todo \in [Cpus -> SUBSET Channels]
    /\ counter \in [Cpus -> 0 .. TokenLimit - 1]
    /\ raised \in [Channels -> Cpus \cup {"none"}]

(* Which job is at which step, and whether its channel is a real one.      *)
Staged ==
    \A p \in Cpus :
        /\ pc[p] = "attempt" => job[p] # "none"
        /\ pc[p] \in {"scan", "copy"} => job[p] = "isr"
        /\ pc[p] = "check" => job[p] \in {"send", "retry", "done"}
        /\ pc[p] \in {"read", "update"} => job[p] \in {"send", "retry", "isr"}
        /\ pc[p] = "raise" => job[p] \in {"send", "retry"}
        /\ job[p] \in {"send", "retry", "done"} => chan[p] \in Channels

(* A processor inside its section is the one whose token is in the lock.   *)
Locked ==
    \A p \in Cpus :
        /\ pc[p] # "idle" => counter[p] # 0
        /\ InSection(p) => lock = Token(p)

(* What the register transaction relies on.                                *)
Told ==
    /\ \A c \in Channels, q \in Cpus : raised[c] = q => c \in en[q]
    /\ \A p \in Cpus :
          /\ pc[p] = "update" => tmp[p] = en[EnableRegister(p)]
          /\ pc[p] = "raise" => chan[p] \in en[Peer(p)]
          /\ pc[p] \in {"read", "update"} /\ job[p] = "isr" /\ chan[p] \in Channels =>
                raised[chan[p]] # p

Inv == Typed /\ Staged /\ Locked /\ Told
-----------------------------------------------------------------------------
(* The two processors are each other's peer.                               *)
LEMMA Peers == Peer("linux") = "rtos" /\ Peer("rtos") = "linux"
  BY DEF Peer, Cpus

(* mailbox_lock_next_token never returns 0.                                *)
LEMMA Fresh ==
    ASSUME NEW n \in 0 .. TokenLimit - 1
    PROVE  NextCounter(n) \in 1 .. TokenLimit - 1
<1>1. TokenLimit \in Nat /\ TokenLimit >= 2
  BY MailboxAssumption
<1>2. CASE n + 1 < TokenLimit
  <2>1. (n + 1) % TokenLimit = n + 1
    BY <1>1, <1>2
  <2> QED BY <1>1, <1>2, <2>1 DEF NextCounter
<1>3. CASE n + 1 = TokenLimit
  <2>1. TokenLimit % TokenLimit = 0
    BY <1>1
  <2> QED BY <1>1, <1>3, <2>1 DEF NextCounter
<1> QED BY <1>1, <1>2, <1>3

(* Tokens of the two processors differ from each other and from 0.         *)
LEMMA Tokens ==
    ASSUME Typed, counter["linux"] # 0, counter["rtos"] # 0
    PROVE  Token("linux") # Token("rtos")
<1>1. /\ TokenLimit \in Nat /\ TokenLimit >= 2
      /\ counter["linux"] \in 1 .. TokenLimit - 1
      /\ counter["rtos"] \in 1 .. TokenLimit - 1
  BY MailboxAssumption DEF Typed, Cpus
<1>2. counter["rtos"] * TokenLimit >= TokenLimit
  BY <1>1
<1> QED BY <1>1, <1>2 DEF Token

(* A token with a counter that is not zero is not zero.                    *)
LEMMA NonZero ==
    ASSUME Typed, NEW p \in Cpus, counter[p] # 0
    PROVE  Token(p) \in Nat \ {0}
<1>1. /\ TokenLimit \in Nat /\ TokenLimit >= 2
      /\ counter[p] \in 1 .. TokenLimit - 1
  BY MailboxAssumption DEF Typed
<1>2. counter[p] * TokenLimit >= TokenLimit /\ counter[p] * TokenLimit \in Nat
  BY <1>1
<1> QED BY <1>1, <1>2 DEF Token

(* The two processors are never inside their sections together.            *)
LEMMA Exclusion ==
    ASSUME Typed, Locked
    PROVE  \A p, q \in Cpus : InSection(p) /\ InSection(q) => p = q
<1>1. ~(InSection("linux") /\ InSection("rtos"))
  BY Tokens DEF Locked, InSection, Cpus
<1> QED BY <1>1 DEF Cpus
-----------------------------------------------------------------------------
state == <<pc, job, chan, en, int, tmp, todo, counter, raised, lock>>

(* A step that leaves the mailbox and both transactions alone.             *)
LEMMA Quiet == Inv /\ UNCHANGED state => Inv'
  BY DEF state, Inv, Typed, Staged, Locked, Told, InSection, Token, EnableRegister

(* A transaction starts.                                                   *)
LEMMA Begins ==
    ASSUME Inv, NEW p \in Cpus, NEW j \in Jobs, NEW c \in Channels \cup {"control"},
           j # "isr" => c \in Channels, Begin(p, j, c), UNCHANGED raised
    PROVE  Inv'
<1> USE DEF Inv, Begin, hardware
<1>1. Typed'
  BY Fresh DEF Typed
<1>2. Staged'
  BY DEF Typed, Staged, Jobs
<1>3. Locked'
  <2>1. counter'[p] # 0 /\ ~InSection(p)'
    BY Fresh DEF Typed, InSection
  <2>2. \A q \in Cpus \ {p} : /\ counter'[q] = counter[q] /\ pc'[q] = pc[q]
                             /\ Token(q)' = Token(q) /\ InSection(q)' = InSection(q)
    BY DEF Typed, InSection, Token
  <2> QED BY <2>1, <2>2 DEF Locked
<1>4. Told'
  BY DEF Typed, Told, EnableRegister
<1> QED BY <1>1, <1>2, <1>3, <1>4

(* A transaction ends, with or without having had the lock.                *)
LEMMA Ends ==
    ASSUME Inv, NEW p \in Cpus, pc[p] \in {"attempt", "deliver"}, Stop(p),
           todo' \in {todo, [todo EXCEPT ![p] = {}]}, UNCHANGED <<hardware, tmp, counter, raised>>
    PROVE  Inv'
<1> USE DEF Inv, Stop, hardware
<1>1. Typed'
  BY DEF Typed
<1>2. Staged'
  BY DEF Typed, Staged
<1>3. Locked'
  BY DEF Typed, Locked, InSection, Token
<1>4. Told'
  BY DEF Typed, Told, EnableRegister
<1> QED BY <1>1, <1>2, <1>3, <1>4

(* A step inside a section, which keeps the lock.                          *)
LEMMA Inside ==
    ASSUME Typed, Locked, NEW p \in Cpus, NEW to \in Section, InSection(p),
           pc' = [pc EXCEPT ![p] = to], UNCHANGED <<lock, counter>>
    PROVE  Locked'
  BY DEF Typed, Locked, InSection, Section, Token

(* The steps of a transaction.                                             *)
LEMMA Steps ==
    ASSUME Inv, NEW p \in Cpus, Transaction(p)
    PROVE  Inv'
<1> USE DEF Inv, hardware, history
<1>0. \A q \in Cpus : q # p /\ InSection(p) => ~InSection(q)
  BY Exclusion
<1>1. CASE Acquire(p)
  <2>1. Token(p) \in Nat \ {0}
    BY <1>1, NonZero DEF Acquire, Locked
  <2>2. lock = 0
    BY <1>1, <2>1 DEF Acquire, Written
  <2>3. \A q \in Cpus : ~InSection(q)
    BY <2>2, NonZero DEF Locked, InSection
  <2>4. Typed'
    BY <1>1 DEF Acquire, Typed, Section
  <2>5. Staged'
    BY <1>1 DEF Acquire, Typed, Staged, Jobs
  <2>6. Locked'
    <3>1. counter' = counter /\ lock' = Token(p)
      BY <1>1 DEF Acquire
    <3>2. \A q \in Cpus \ {p} : pc'[q] = pc[q] /\ ~InSection(q)'
      BY <1>1, <2>3 DEF Acquire, Typed, InSection
    <3>3. pc[p] = "attempt"
      BY <1>1 DEF Acquire
    <3> QED BY <3>1, <3>2, <3>3 DEF Locked, Token
  <2>7. Told'
    BY <1>1 DEF Acquire, Typed, Told, EnableRegister
  <2> QED BY <2>4, <2>5, <2>6, <2>7
<1>2. CASE WriteSlot(p)
  <2>1. Typed' /\ Staged'
    BY Zenon, <1>2 DEF WriteSlot, Typed, Staged, Section
  <2>2. Locked'
    BY Zenon, <1>2, Inside DEF WriteSlot, InSection, Section
  <2>3. Told'
    BY <1>2 DEF WriteSlot, Typed, Told, EnableRegister
  <2> QED BY <2>1, <2>2, <2>3
<1>3. CASE FindBusy(p)
  <2>1. Typed' /\ Staged'
    BY <1>3 DEF FindBusy, Typed, Staged, Section
  <2>2. Locked'
    BY Zenon, <1>3, Inside DEF FindBusy, InSection, Section
  <2>3. Told'
    BY <1>3 DEF FindBusy, Typed, Told, EnableRegister
  <2> QED BY <2>1, <2>2, <2>3
<1>4. CASE ReadEnable(p)
  <2>1. EnableRegister(p) \in Cpus
    BY Peers DEF EnableRegister, Cpus
  <2>2. Typed' /\ Staged'
    BY <1>4, <2>1 DEF ReadEnable, Typed, Staged, Section
  <2>3. Locked'
    BY Zenon, <1>4, Inside DEF ReadEnable, InSection, Section
  <2>4. Told'
    BY <1>4, <2>1 DEF ReadEnable, Typed, Told, EnableRegister
  <2> QED BY <2>2, <2>3, <2>4
<1>5. CASE WriteEnable(p)
  <2>1. EnableRegister(p) \in Cpus
    BY Peers DEF EnableRegister, Cpus
  <2>2. /\ InSection(p) /\ tmp[p] = en[EnableRegister(p)]
        /\ job[p] # "isr" => chan[p] \in Channels
    BY <1>5 DEF WriteEnable, Told, InSection, Staged
  <2>3. Typed' /\ Staged'
    BY <1>5, <2>1, <2>2 DEF WriteEnable, Typed, Staged, Section
  <2>4. Locked'
    BY Zenon, <1>5, Inside DEF WriteEnable, InSection, Section
  <2>5. /\ UNCHANGED <<raised, chan, job>>
        /\ \A q \in Cpus \ {p} : pc'[q] = pc[q] /\ pc[q] \notin Section
        /\ pc'[p] \in {"raise", "release", "copy"}
        /\ pc'[p] = "raise" => job[p] # "isr"
    BY <1>5, <1>0, <2>2 DEF WriteEnable, Typed, InSection, Section
  <2>6. \A q \in Cpus : en'[q] = IF q # EnableRegister(p) THEN en[q]
                                 ELSE IF job[p] = "isr" THEN en[q] \ {chan[p]}
                                 ELSE en[q] \cup {chan[p]}
    BY Zenon, <1>5, <2>1, <2>2 DEF WriteEnable, Typed
  <2>7. \A c \in Channels, q \in Cpus : raised'[c] = q => c \in en'[q]
    BY <1>5, <2>5, <2>6 DEF WriteEnable, Told, EnableRegister
  <2>8. pc'[p] = "raise" => chan'[p] \in en'[Peer(p)]
    BY Zenon, <2>1, <2>5, <2>6 DEF EnableRegister
  <2> QED BY <2>3, <2>4, <2>5, <2>7, <2>8 DEF Told, Section
<1>6. CASE Raise(p)
  <2>1. /\ InSection(p) /\ chan[p] \in Channels /\ chan[p] \in en[Peer(p)] /\ Peer(p) \in Cpus
    BY <1>6, Peers DEF Raise, InSection, Staged, Told, Cpus
  <2>2. Typed' /\ Staged'
    BY <1>6, <2>1 DEF Raise, Typed, Staged, Section
  <2>3. Locked'
    BY Zenon, <1>6, Inside DEF Raise, InSection, Section
  <2>4. /\ UNCHANGED <<en, tmp, chan, job>>
        /\ \A q \in Cpus \ {p} : pc'[q] = pc[q] /\ pc[q] \notin Section
        /\ pc'[p] = "release"
    BY <1>6, <1>0, <2>1 DEF Raise, Typed, InSection, Section
  <2>5. \A c \in Channels, q \in Cpus : raised'[c] = q => c \in en'[q]
    BY <1>6, <2>1, <2>4 DEF Raise, Typed, Told
  <2> QED BY <2>2, <2>3, <2>4, <2>5 DEF Told, Section
<1>7. CASE ScanPending(p)
  <2>1. Typed' /\ Staged'
    BY <1>7 DEF ScanPending, Typed, Staged, Section
  <2>2. Locked'
    BY Zenon, <1>7, Inside DEF ScanPending, InSection, Section
  <2>3. Told'
    BY <1>7 DEF ScanPending, Typed, Told, EnableRegister
  <2> QED BY <2>1, <2>2, <2>3
<1>8. CASE CopySlot(p)
  <2>1. PICK c \in todo[p] :
            /\ chan' = [chan EXCEPT ![p] = c]
            /\ todo' = [todo EXCEPT ![p] = todo[p] \ {c}]
            /\ int' = [int EXCEPT ![p] = int[p] \ {c}]
            /\ raised' = [raised EXCEPT ![c] = IF raised[c] = p THEN "none" ELSE raised[c]]
    BY Zenon, <1>8 DEF CopySlot
  <2>2. c \in Channels /\ InSection(p) /\ "none" \notin Cpus
    BY <1>8, <2>1 DEF CopySlot, Typed, InSection, Cpus
  <2>3. Typed' /\ Staged'
    BY <1>8, <2>1, <2>2 DEF CopySlot, Typed, Staged, Section
  <2>4. Locked'
    BY Zenon, <1>8, Inside DEF CopySlot, InSection, Section
  <2>5. /\ UNCHANGED <<en, tmp, job>>
        /\ \A q \in Cpus \ {p} : pc'[q] = pc[q] /\ pc[q] \notin Section
        /\ pc'[p] = "read" /\ chan'[p] = c
    BY <1>8, <1>0, <2>1, <2>2 DEF CopySlot, Typed, InSection, Section
  <2>6. raised'[c] # p /\ \A d \in Channels, q \in Cpus : raised'[d] = q => raised[d] = q
    BY <2>1, <2>2 DEF Typed
  <2> QED BY <2>3, <2>4, <2>5, <2>6 DEF Told, Section
<1>9. CASE Release(p)
  <2>1. Typed' /\ Staged'
    BY <1>9 DEF Release, Typed, Staged
  <2>2. InSection(p)
    BY <1>9 DEF Release, InSection
  <2>3. \A q \in Cpus : ~InSection(q)'
    BY <1>9, <1>0, <2>2 DEF Release, Typed, InSection
  <2>4. Locked'
    BY <1>9, <2>3 DEF Release, Typed, Locked
  <2>5. Told'
    BY <1>9 DEF Release, Typed, Told, EnableRegister
  <2> QED BY <2>1, <2>4, <2>5
<1> QED
  BY <1>1, <1>2, <1>3, <1>4, <1>5, <1>6, <1>7, <1>8, <1>9 DEF Transaction
-----------------------------------------------------------------------------
(* Every step keeps the invariant.                                         *)
LEMMA Inductive == Inv /\ [Next]_vars => Inv'
<1> SUFFICES ASSUME Inv, [Next]_vars PROVE Inv'
  OBVIOUS
<1> USE DEF Cpus, Jobs
<1>1. CASE \E p \in Cpus : Transaction(p)
  BY <1>1, Steps
<1>2. CASE LinuxGiveUp \/ TaskGiveUp \/ IsrGiveUp
  BY <1>2, Ends DEF LinuxGiveUp, TaskGiveUp, IsrGiveUp, Exhausted, history
<1>3. CASE CheckDone
  <2>1. InSection("linux") /\ chan["linux"] \in Channels
    BY <1>3 DEF CheckDone, InSection, Inv, Staged
  <2>2. Typed' /\ Staged'
    BY <1>3, <2>1 DEF CheckDone, hardware, history, Inv, Typed, Staged, Section
  <2>3. Locked'
    BY <1>3, Inside DEF CheckDone, hardware, Inv, InSection, Section
  <2>4. Told'
    BY <1>3 DEF CheckDone, hardware, history, Inv, Typed, Told, EnableRegister
  <2> QED BY <2>2, <2>3, <2>4 DEF Inv
<1>4. CASE SendReturns \/ RetryReturns \/ DoneReturns \/ LinuxIsrReturns \/ RtosReturns
  BY <1>4, Ends DEF SendReturns, RetryReturns, DoneReturns, LinuxIsrReturns, RtosReturns,
     TrySendReturns, MailboxIsrReturns, Finish, history
<1>5. CASE LinuxIsr \/ MailboxIsr
  BY <1>5, Begins DEF LinuxIsr, MailboxIsr, history
<1>6. CASE \E c \in Outbound["linux"] : Submit(c) \/ RetryWork(c) \/ PollDone(c)
  BY <1>6, Begins DEF Submit, RetryWork, PollDone, Outbound, Channels, history
<1>7. CASE \E c \in Outbound["rtos"] : TrySend(c)
  BY <1>7, Begins DEF TrySend, Outbound, Channels, history
<1>8. CASE \/ \E c \in Outbound["linux"] : TakeWord(c)
           \/ \E c \in Outbound["rtos"] : Want(c)
           \/ \E c \in Channels : Shutdown(c) \/ Startup(c)
           \/ UNCHANGED vars
  <2>1. UNCHANGED state
    BY <1>8 DEF TakeWord, Want, Shutdown, Startup, vars, hardware, transaction, history, state
  <2> QED BY <2>1, Quiet
<1> QED
  BY <1>1, <1>2, <1>3, <1>4, <1>5, <1>6, <1>7, <1>8 DEF Next, LinuxReturns

(* The invariant holds in every reachable state.                           *)
LEMMA Invariant == Spec => []Inv
<1>1. Init => Inv
  BY MailboxAssumption DEF Init, Inv, Typed, Staged, Locked, Told, InSection, Cpus
<1> QED BY <1>1, Inductive, PTL DEF Spec

(* Whatever the channels in use, the bounds and the wrap of the tokens,    *)
(* mailbox_lock_acquire and cv1800_hwlock_acquire exclude each other, and  *)
(* neither mailbox_send nor cv1800_transmit_locked writes a payload over   *)
(* one that the interrupted receiver has not copied.                       *)
THEOREM SlotsKept == Spec => NoOverwrite
<1>1. Inv => LockExclusive
  BY Exclusion DEF Inv, LockExclusive, Cpus
<1>2. Inv => (\A p \in Cpus : WriteSlot(p) => raised[chan[p]] = "none")
  BY DEF Inv, WriteSlot, Staged, Typed, Told, SlotBusy
<1> QED BY <1>1, <1>2, Invariant, PTL DEF NoOverwrite
-----------------------------------------------------------------------------
(* The invariant behind InOrder.  A word is held in one place at a time:   *)
(* with the request, in the deferred storage, in the slot, or copied.      *)
Writing == {"read", "update", "raise"}
Ending == {"release", "deliver"}
Requests == {"send", "retry", "done"}
Sending(p) == job[p] \in {"send", "retry"}

(* The types of what holds a word; numbers are not bounded.                *)
Values ==
    /\ slot \in [Channels -> Nat]
    /\ arrived \in [Cpus -> [Channels -> Nat]] /\ given \in [Cpus -> [Channels -> Nat]]
    /\ active \in [LinuxChannels -> Nat] /\ deferred \in [LinuxChannels -> Nat]
    /\ wanted \in [RtosChannels -> Nat]

(* Whose word a request of Linux, or of a task, is.                        *)
LinuxOwned ==
    /\ pc["linux"] = "idle" => job["linux"] = "none"
    /\ job["linux"] \in Requests =>
          /\ chan["linux"] \in LinuxChannels \cap subscribed
          /\ active[chan["linux"]] # 0
    /\ job["linux"] = "send" => deferred[chan["linux"]] = 0
    /\ job["linux"] = "retry" => deferred[chan["linux"]] # 0
    /\ \A c \in LinuxChannels :
          /\ active[c] \in {0, given["linux"][c]} /\ deferred[c] \in {0, active[c]}
          /\ c \notin subscribed => active[c] = 0

RtosOwned ==
    /\ pc["rtos"] = "idle" => job["rtos"] = "none"
    /\ job["rtos"] \in Requests =>
          /\ job["rtos"] = "send" /\ chan["rtos"] \in RtosChannels
          /\ wanted[chan["rtos"]] # 0
    /\ \A c \in RtosChannels : wanted[c] \in {0, given["rtos"][c] + 1}

Owned == LinuxOwned /\ RtosOwned

(* Only the receiver a slot was raised for is interrupted, and while a     *)
(* slot is being written nobody is.                                        *)
Interrupted(p) ==
    /\ job[p] = "isr" /\ pc[p] \in {"copy", "read", "update"} => todo[p] \subseteq int[p]
    /\ Sending(p) /\ pc[p] \in Writing =>
          raised[chan[p]] = "none" /\ chan[p] \notin en[p] /\ todo[p] = {chan[p]}
    /\ job[p] \in Requests /\ pc[p] \in Ending => todo[p] \in {{}, {chan[p]}}

Interrupts ==
    /\ \A q \in Cpus, c \in Channels : c \in int[q] => raised[c] = q
    /\ \A p \in Cpus : Interrupted(p)

(* No word from n on has been handed to receiver q; word n has been.       *)
Before(q, c, n) == arrived[q][c] < n /\ (raised[c] = q => slot[c] < n)
Seen(c, n) == arrived["rtos"][c] = n /\ raised[c] # "rtos"
Sent(q, c, n) ==
    \/ arrived[q][c] = n /\ raised[c] # q
    \/ raised[c] = q /\ slot[c] = n

Later == \A c \in Channels, q \in Cpus : raised[c] = q => arrived[q][c] < slot[c]

(* The word of a transaction in progress.                                  *)
Sender(p) ==
    Sending(p) =>
        /\ pc[p] \in {"attempt", "check"} \cup Writing => Before(Peer(p), chan[p], Outgoing(p))
        /\ pc[p] \in Writing => slot[chan[p]] = Outgoing(p)
        /\ pc[p] \in Ending => IF todo[p] = {} THEN Before(Peer(p), chan[p], Outgoing(p))
                               ELSE Sent(Peer(p), chan[p], Outgoing(p))

(* A word of Linux is deferred, being sent, or was sent.                   *)
LinuxWords ==
    \A c \in LinuxChannels :
        /\ Before("rtos", c, given["linux"][c] + 1)
        /\ deferred[c] # 0 /\ ~(job["linux"] = "retry" /\ chan["linux"] = c) =>
              Before("rtos", c, active[c])
        /\ active[c] # 0 /\ deferred[c] = 0 /\ ~(job["linux"] = "send" /\ chan["linux"] = c) =>
              Sent("rtos", c, active[c])

RtosWords ==
    \A c \in RtosChannels :
        ~(job["rtos"] = "send" /\ chan["rtos"] = c) => Before("linux", c, given["rtos"][c] + 1)

(* What cv1800_last_tx_done found is still so.                             *)
Polled ==
    job["linux"] = "done" /\ pc["linux"] \in Ending /\ todo["linux"] # {} =>
        Seen(chan["linux"], active[chan["linux"]]) /\ deferred[chan["linux"]] = 0

Progress == Later /\ Sender("linux") /\ Sender("rtos") /\ LinuxWords /\ RtosWords /\ Polled

OrderInv == Values /\ Owned /\ Interrupts /\ Progress

(* The channels of the two directions, and the peer.                       *)
LEMMA Routes ==
    /\ Outbound["linux"] = LinuxChannels /\ Outbound["rtos"] = RtosChannels
    /\ LinuxChannels \subseteq Channels /\ RtosChannels \subseteq Channels
    /\ \A p \in Cpus : Peer(p) \in Cpus /\ Peer(p) # p /\ Peer(p) # "none" /\ p # "none"
    /\ \A p, q \in Cpus : q # p => q = Peer(p)
  BY Peers DEF Outbound, Channels, Cpus

(* The word of a transaction.                                              *)
LEMMA Word ==
    ASSUME Owned, Values, NEW p \in Cpus, Sending(p)
    PROVE  /\ chan[p] \in Channels /\ Outgoing(p) \in Nat
           /\ p = "linux" => chan[p] \in LinuxChannels /\ Outgoing(p) = active[chan[p]]
                             /\ active[chan[p]] = given["linux"][chan[p]]
           /\ p = "rtos" => chan[p] \in RtosChannels /\ Outgoing(p) = wanted[chan[p]]
                            /\ wanted[chan[p]] = given["rtos"][chan[p]] + 1
<1>1. CASE p = "linux"
  <2>1. /\ chan[p] \in LinuxChannels /\ active[chan[p]] # 0
        /\ active[chan[p]] \in {0, given["linux"][chan[p]]}
        /\ deferred[chan[p]] \in {0, active[chan[p]]}
        /\ job[p] = "retry" => deferred[chan[p]] # 0
    BY <1>1 DEF Sending, Owned, LinuxOwned, RtosOwned, Requests
  <2>2. Outgoing(p) = active[chan[p]]
    BY <1>1, <2>1 DEF Outgoing
  <2> QED BY <1>1, <2>1, <2>2, Routes DEF Values
<1>2. CASE p = "rtos"
  <2>1. /\ chan[p] \in RtosChannels /\ wanted[chan[p]] # 0
        /\ wanted[chan[p]] \in {0, given["rtos"][chan[p]] + 1}
    BY <1>2 DEF Sending, Owned, LinuxOwned, RtosOwned, Requests
  <2>2. Outgoing(p) = wanted[chan[p]]
    BY <1>2 DEF Outgoing
  <2> QED BY <1>2, <2>1, <2>2, Routes DEF Values
<1> QED BY <1>1, <1>2 DEF Cpus

(* A step after which receiver q has had the words it had before, and has  *)
(* the ones it was told of.                                                *)
Kept(q) ==
    \A c \in Channels, n \in Nat :
        /\ Before(q, c, n) => Before(q, c, n)'
        /\ Sent(q, c, n) => Sent(q, c, n)'
StillSeen == \A c \in Channels, n \in Nat : Seen(c, n) => Seen(c, n)'

(* A step that moves no word and no interrupt is one.                      *)
LEMMA Unwired == UNCHANGED <<slot, arrived, raised>> => StillSeen /\ \A q \in Cpus : Kept(q)
  BY Zenon DEF Kept, StillSeen, Before, Sent, Seen

(* What every step of a transaction of p leaves alone.                     *)
Within(p) ==
    /\ UNCHANGED <<active, deferred, subscribed, wanted, given, job>>
    /\ pc[p] # "idle" /\ pc'[p] # "idle"
    /\ \A r \in Cpus \ {p} : pc'[r] = pc[r] /\ chan'[r] = chan[r] /\ todo'[r] = todo[r]
    /\ chan'[p] = chan[p] \/ job[p] = "isr"

(* Every step of a transaction is such a step.                             *)
LEMMA WithinSteps ==
    ASSUME Inv, NEW p \in Cpus, Transaction(p) \/ (p = "linux" /\ CheckDone)
    PROVE  Within(p)
<1>0. Typed /\ Staged
  BY DEF Inv
<1> USE DEF linux, rtos, history, Within
<1>1. CASE Acquire(p) \/ ReadEnable(p) \/ WriteEnable(p) \/ Raise(p) \/ Release(p)
  BY <1>0, <1>1 DEF Acquire, ReadEnable, WriteEnable, Raise, Release, Typed
<1>2. CASE WriteSlot(p) \/ FindBusy(p) \/ ScanPending(p)
  BY <1>0, <1>2 DEF WriteSlot, FindBusy, ScanPending, Typed
<1>3. CASE CopySlot(p)
  BY <1>0, <1>3 DEF CopySlot, Typed, Staged
<1>4. CASE p = "linux" /\ CheckDone
  BY <1>0, <1>4 DEF CheckDone, Typed
<1> QED BY <1>1, <1>2, <1>3, <1>4 DEF Transaction

(* It leaves each request its word.                                        *)
LEMMA WithinOwned ==
    ASSUME Owned, NEW p \in Cpus, Within(p)
    PROVE  Owned'
<1>1. \A r \in Cpus : /\ pc'[r] = "idle" => pc[r] = "idle"
                      /\ chan'[r] = chan[r] \/ job[r] = "isr"
  BY DEF Within
<1>2. "linux" \in Cpus /\ "rtos" \in Cpus /\ "isr" \notin Requests
  BY DEF Cpus, Requests
<1>3. UNCHANGED <<active, deferred, subscribed, wanted, given, job>>
  BY DEF Within
<1> QED BY <1>1, <1>2, <1>3 DEF Owned, LinuxOwned, RtosOwned, Requests

(* It leaves the words of Linux where they are, as far as the C906L has    *)
(* them.                                                                   *)
LEMMA WithinLinuxWords ==
    ASSUME Values, LinuxWords, NEW p \in Cpus, Within(p), Kept("rtos")
    PROVE  LinuxWords'
<1>1. \A r \in Cpus : chan'[r] = chan[r] \/ job[r] = "isr"
  BY DEF Within
<1>2. "linux" \in Cpus /\ UNCHANGED <<active, deferred, given, job>>
  BY DEF Cpus, Within
<1>3. ASSUME NEW c \in LinuxChannels
      PROVE  /\ c \in Channels /\ given["linux"][c] + 1 \in Nat /\ active[c] \in Nat
             /\ given'["linux"][c] = given["linux"][c]
  BY <1>2, Routes DEF Values
<1> QED BY <1>1, <1>2, <1>3 DEF LinuxWords, Kept

(* It leaves the words of the C906L where they are, as far as Linux has    *)
(* them.                                                                   *)
LEMMA WithinRtosWords ==
    ASSUME Values, RtosWords, NEW p \in Cpus, Within(p), Kept("linux")
    PROVE  RtosWords'
<1>1. \A r \in Cpus : chan'[r] = chan[r] \/ job[r] = "isr"
  BY DEF Within
<1>2. "rtos" \in Cpus /\ UNCHANGED <<given, job>>
  BY DEF Cpus, Within
<1>3. ASSUME NEW c \in RtosChannels
      PROVE  c \in Channels /\ given["rtos"][c] + 1 \in Nat
  BY <1>2, Routes DEF Values
<1> QED BY <1>1, <1>2, <1>3 DEF RtosWords, Kept

(* The processor that does not act.                                        *)
LEMMA WithinOther ==
    ASSUME Values, Owned, NEW p \in Cpus, Within(p),
           NEW r \in Cpus, r # p, Sender(r), Kept(Peer(r)), slot' = slot \/ pc[r] \notin Writing
    PROVE  Sender(r)'
<1>1. /\ pc'[r] = pc[r] /\ chan'[r] = chan[r] /\ todo'[r] = todo[r] /\ job'[r] = job[r]
      /\ Outgoing(r)' = Outgoing(r) /\ Sending(r)' = Sending(r)
  BY DEF Within, Outgoing, Sending
<1>2. Sending(r) => chan[r] \in Channels /\ Outgoing(r) \in Nat /\ Peer(r) \in Cpus
  BY Word, Routes
<1>3. ASSUME Sending(r)
      PROVE  /\ Before(Peer(r), chan[r], Outgoing(r)) => Before(Peer(r), chan[r], Outgoing(r))'
             /\ Sent(Peer(r), chan[r], Outgoing(r)) => Sent(Peer(r), chan[r], Outgoing(r))'
  <2>1. PICK c \in Channels, n \in Nat, q \in Cpus : c = chan[r] /\ n = Outgoing(r) /\ q = Peer(r)
    BY <1>2, <1>3
  <2>2. /\ Before(q, c, n) => Before(q, c, n)'
        /\ Sent(q, c, n) => Sent(q, c, n)'
    BY <2>1 DEF Kept
  <2> QED BY <1>1, <2>1, <2>2 DEF Before, Sent
<1>4. slot'[chan'[r]] = slot[chan[r]] \/ pc[r] \notin Writing
  BY <1>1
<1> QED BY <1>1, <1>3, <1>4, Zenon DEF Sender

(* It does not undo what the poll found.                                   *)
LEMMA WithinPolled ==
    ASSUME Values, Owned, NEW p \in Cpus, Within(p), StillSeen, Polled,
           p = "linux" /\ job[p] = "done" /\ pc'[p] \in Ending =>
               pc[p] \in Ending /\ todo'[p] = todo[p]
    PROVE  Polled'
<1>1. UNCHANGED <<active, deferred, job>>
  BY DEF Within
<1>2. SUFFICES ASSUME job["linux"] = "done", pc'["linux"] \in Ending, todo'["linux"] # {}
               PROVE  /\ Seen(chan["linux"], active[chan["linux"]])'
                      /\ deferred'[chan'["linux"]] = 0
  BY <1>1 DEF Polled
<1>3. /\ pc["linux"] \in Ending /\ todo["linux"] # {} /\ chan'["linux"] = chan["linux"]
      /\ chan["linux"] \in LinuxChannels
  BY <1>2 DEF Within, Cpus, Owned, LinuxOwned, RtosOwned, Requests
<1>4. PICK c \in Channels, n \in Nat : c = chan["linux"] /\ n = active[chan["linux"]]
  BY <1>3, Routes DEF Values
<1>5. Seen(c, n) /\ deferred[c] = 0
  BY Zenon, <1>2, <1>3, <1>4 DEF Polled
<1>6. Seen(c, n)'
  BY <1>5 DEF StillSeen
<1> QED BY <1>1, <1>3, <1>4, <1>5, <1>6 DEF Seen

(* The acting processor's word, when no slot changes.                      *)
LEMMA WithinSender ==
    ASSUME Values, Owned, NEW p \in Cpus, Within(p), Sender(p), UNCHANGED <<slot, arrived, raised>>,
           Sending(p) =>
               /\ chan'[p] = chan[p]
               /\ \/ /\ pc[p] = "attempt" /\ pc'[p] = "check"
                  \/ /\ pc[p] \in Writing /\ pc'[p] \in Writing
                  \/ /\ pc[p] = "check" /\ pc'[p] = "release" /\ todo'[p] = {}
                  \/ /\ pc[p] = "release" /\ pc'[p] = "deliver" /\ todo'[p] = todo[p]
    PROVE  Sender(p)'
<1>1. Sending(p)' = Sending(p) /\ (Sending(p) => Outgoing(p)' = Outgoing(p))
  BY Zenon DEF Within, Sending, Outgoing
<1> SUFFICES ASSUME Sending(p) PROVE Sender(p)'
  BY Zenon, <1>1 DEF Sender
<1>2. /\ Before(Peer(p), chan[p], Outgoing(p))' = Before(Peer(p), chan[p], Outgoing(p))
      /\ Sent(Peer(p), chan[p], Outgoing(p))' = Sent(Peer(p), chan[p], Outgoing(p))
      /\ slot'[chan'[p]] = slot[chan[p]]
  BY <1>1, Zenon DEF Before, Sent
<1>3. pc[p] \in Writing => pc[p] \notin Ending
  BY DEF Writing, Ending
<1> QED BY Zenon, <1>1, <1>2, <1>3 DEF Sender, Writing, Ending

(* A step of p that leaves all slots alone.                                *)
LEMMA WithinProgress ==
    ASSUME Values, Owned, Progress, NEW p \in Cpus, Within(p), UNCHANGED <<slot, arrived, raised>>,
           Sending(p) =>
               /\ chan'[p] = chan[p]
               /\ \/ /\ pc[p] = "attempt" /\ pc'[p] = "check"
                  \/ /\ pc[p] \in Writing /\ pc'[p] \in Writing
                  \/ /\ pc[p] = "check" /\ pc'[p] = "release" /\ todo'[p] = {}
                  \/ /\ pc[p] = "release" /\ pc'[p] = "deliver" /\ todo'[p] = todo[p],
           p = "linux" /\ job[p] = "done" /\ pc'[p] \in Ending =>
               pc[p] \in Ending /\ todo'[p] = todo[p]
    PROVE  Values' /\ Progress'
<1>1. StillSeen /\ \A q \in Cpus : Kept(q)
  BY Unwired
<1>2. Later /\ Sender("linux") /\ Sender("rtos") /\ LinuxWords /\ RtosWords /\ Polled
  BY DEF Progress
<1>3. LinuxWords' /\ RtosWords'
  BY <1>1, <1>2, WithinLinuxWords, WithinRtosWords DEF Cpus
<1>4. Polled'
  BY <1>1, <1>2, WithinPolled
<1>5. Sender(p)'
  BY <1>2, WithinSender DEF Cpus
<1>6. \A r \in Cpus : r # p => Sender(r)'
  BY <1>1, <1>2, WithinOther, Routes DEF Cpus
<1>7. Sender("linux")' /\ Sender("rtos")'
  BY <1>5, <1>6 DEF Cpus
<1>8. Later' /\ Values'
  BY <1>2 DEF Later, Values, Within
<1> QED BY <1>3, <1>4, <1>7, <1>8 DEF Progress

(* It keeps the interrupts right if its own side has them right.           *)
LEMMA WithinInterrupts ==
    ASSUME Interrupts, NEW p \in Cpus, Within(p), Interrupted(p)',
           \A q \in Cpus, c \in Channels : c \in int'[q] => raised'[c] = q,
           UNCHANGED <<int, raised, en>> \/ \A r \in Cpus \ {p} : pc[r] \notin Section
    PROVE  Interrupts'
<1>1. ASSUME NEW r \in Cpus \ {p}
      PROVE  Interrupted(r)'
  <2>1. /\ pc'[r] = pc[r] /\ job'[r] = job[r] /\ chan'[r] = chan[r] /\ todo'[r] = todo[r]
        /\ Sending(r)' = Sending(r)
    BY DEF Within, Sending
  <2>2. Interrupted(r)
    BY DEF Interrupts
  <2>3. CASE UNCHANGED <<int, raised, en>>
    BY <2>1, <2>2, <2>3, Zenon DEF Interrupted
  <2>4. CASE pc[r] \notin Section
    BY <2>1, <2>2, <2>4, Zenon DEF Interrupted, Section, Writing
  <2> QED BY <2>3, <2>4
<1> QED BY <1>1 DEF Interrupts

(* How the steps that change no slot move a transaction.                   *)
Moves(p) ==
    \/ /\ pc[p] = "attempt" /\ pc'[p] \in {"check", "scan"}
       /\ pc'[p] = "scan" <=> job[p] = "isr"
    \/ pc[p] = "check" /\ pc'[p] = "release" /\ todo'[p] = {} /\ Sending(p)
    \/ pc[p] = "read" /\ pc'[p] = "update" /\ todo'[p] = todo[p]
    \/ pc[p] = "update" /\ pc'[p] = "raise" /\ todo'[p] = todo[p] /\ Sending(p)
    \/ /\ pc[p] = "update" /\ pc'[p] \in {"release", "copy"} /\ todo'[p] = todo[p]
       /\ job[p] = "isr"
    \/ pc[p] = "scan" /\ pc'[p] \in {"release", "copy"} /\ todo'[p] = int[p] /\ job[p] = "isr"
    \/ pc[p] = "release" /\ pc'[p] = "deliver" /\ todo'[p] = todo[p]

(* The steps of a transaction that move no word.                           *)
LEMMA Unmoved ==
    ASSUME Typed, Staged, NEW p \in Cpus,
           Acquire(p) \/ FindBusy(p) \/ ReadEnable(p) \/ WriteEnable(p) \/ ScanPending(p) \/ Release(p)
    PROVE  /\ UNCHANGED <<slot, arrived, raised, int, chan>>
           /\ Moves(p)
           /\ en' = en \/ (pc[p] = "update" /\ (job[p] # "isr" => en'[p] = en[p]))
<1> USE DEF hardware, history, Moves
<1>1. CASE Acquire(p)
  BY <1>1 DEF Acquire, Typed
<1>2. CASE FindBusy(p)
  BY <1>2 DEF FindBusy, Typed, Sending
<1>3. CASE ReadEnable(p)
  BY <1>3 DEF ReadEnable, Typed
<1>4. CASE WriteEnable(p)
  <2>1. job[p] # "isr" => EnableRegister(p) # p
    BY Routes DEF EnableRegister
  <2>2. job[p] = "isr" \/ Sending(p)
    BY Zenon, <1>4 DEF WriteEnable, Staged, Sending
  <2>3. /\ pc[p] = "update" /\ todo' = todo
        /\ pc'[p] = IF job[p] # "isr" THEN "raise" ELSE IF todo[p] = {} THEN "release" ELSE "copy"
    BY <1>4 DEF WriteEnable, Typed
  <2>4. job[p] # "isr" => en'[p] = en[p]
    BY <1>4, <2>1 DEF WriteEnable, Typed
  <2>5. UNCHANGED <<slot, arrived, raised, int, chan>>
    BY Zenon, <1>4 DEF WriteEnable
  <2> QED BY Zenon, <2>2, <2>3, <2>4, <2>5 DEF Sending
<1>5. CASE ScanPending(p)
  BY <1>5 DEF ScanPending, Typed, Staged
<1>6. CASE Release(p)
  BY <1>6 DEF Release, Typed
<1> QED BY <1>1, <1>2, <1>3, <1>4, <1>5, <1>6, Zenon

(* They advance a send along its stages.                                   *)
LEMMA MovesProgress ==
    ASSUME Staged, NEW p \in Cpus, Moves(p), chan' = chan
    PROVE  /\ Sending(p) =>
               /\ chan'[p] = chan[p]
               /\ \/ /\ pc[p] = "attempt" /\ pc'[p] = "check"
                  \/ /\ pc[p] \in Writing /\ pc'[p] \in Writing
                  \/ /\ pc[p] = "check" /\ pc'[p] = "release" /\ todo'[p] = {}
                  \/ /\ pc[p] = "release" /\ pc'[p] = "deliver" /\ todo'[p] = todo[p]
           /\ job[p] = "done" /\ pc'[p] \in Ending => pc[p] \in Ending /\ todo'[p] = todo[p]
  BY Zenon DEF Staged, Moves, Sending, Writing, Ending

(* They keep the interrupts of their side right.                           *)
LEMMA MovesInterrupted ==
    ASSUME NEW p \in Cpus, Moves(p), Interrupted(p), UNCHANGED <<raised, int, chan>>, job' = job,
           en' = en \/ (pc[p] = "update" /\ (job[p] # "isr" => en'[p] = en[p]))
    PROVE  Interrupted(p)'
<1>1. /\ job'[p] = job[p] /\ chan'[p] = chan[p] /\ raised'[chan'[p]] = raised[chan[p]]
      /\ int'[p] = int[p] /\ (job[p] # "isr" => en'[p] = en[p])
  BY Zenon
<1>2. job[p] = "isr" /\ pc'[p] \in {"copy", "read", "update"} => todo'[p] \subseteq int[p]
  BY Zenon DEF Moves, Interrupted, Sending
<1>3. Sending(p) /\ pc'[p] \in Writing =>
        raised[chan[p]] = "none" /\ chan[p] \notin en[p] /\ todo'[p] = {chan[p]}
  BY DEF Moves, Interrupted, Sending, Writing
<1>4. job[p] \in Requests /\ pc'[p] \in Ending => todo'[p] \in {{}, {chan[p]}}
  BY DEF Moves, Interrupted, Requests, Ending
<1>5. Sending(p) => job[p] # "isr"
  BY DEF Sending
<1> QED BY Zenon, <1>1, <1>2, <1>3, <1>4, <1>5 DEF Interrupted, Sending

(* They keep the order.                                                    *)
LEMMA OrderUnwired ==
    ASSUME Inv, OrderInv, NEW p \in Cpus,
           Acquire(p) \/ FindBusy(p) \/ ReadEnable(p) \/ WriteEnable(p) \/ ScanPending(p) \/ Release(p)
    PROVE  OrderInv'
<1>0. Values /\ Owned /\ Interrupts /\ Progress /\ Typed /\ Staged /\ Locked /\ Interrupted(p)
  BY Zenon DEF OrderInv, Inv, Interrupts
<1>1. Within(p) /\ job' = job
  <2>1. Within(p)
    BY WithinSteps, Zenon DEF Transaction
  <2> QED BY Zenon, <2>1 DEF Within
<1>2. /\ UNCHANGED <<slot, arrived, raised, int, chan>>
      /\ Moves(p)
      /\ en' = en \/ (pc[p] = "update" /\ (job[p] # "isr" => en'[p] = en[p]))
  BY <1>0, Unmoved, Zenon
<1>3. Values' /\ Progress'
  BY <1>0, <1>1, <1>2, MovesProgress, WithinProgress, Zenon
<1>4. Interrupted(p)'
  BY <1>0, <1>1, <1>2, MovesInterrupted, Zenon
<1>5. UNCHANGED <<int, raised, en>> \/ \A r \in Cpus \ {p} : pc[r] \notin Section
  BY Zenon, <1>0, <1>2, Exclusion DEF InSection, Section
<1>6. \A q \in Cpus, c \in Channels : c \in int'[q] => raised'[c] = q
  BY <1>0, <1>2, Zenon DEF Interrupts
<1>7. Interrupts'
  BY <1>0, <1>1, <1>4, <1>5, <1>6, WithinInterrupts, Zenon
<1> QED BY <1>0, <1>1, <1>3, <1>7, WithinOwned, Zenon DEF OrderInv

(* A step that changes slots, from what it does to each part.              *)
LEMMA OrderWired ==
    ASSUME Inv, OrderInv, NEW p \in Cpus, Within(p), InSection(p),
           Values', Later', Sender(p)', Polled', Interrupted(p)',
           \A q \in Cpus, c \in Channels : c \in int'[q] => raised'[c] = q,
           LinuxWords', RtosWords', Kept(p), \A r \in Cpus \ {p} : slot' = slot \/ pc[r] \notin Writing
    PROVE  OrderInv'
<1>0. /\ Values /\ Owned /\ Interrupts /\ Typed /\ Locked
      /\ Sender("linux") /\ Sender("rtos")
  BY Zenon DEF OrderInv, Inv, Progress
<1>1. \A r \in Cpus \ {p} : pc[r] \notin Section
  BY Zenon, <1>0, Exclusion DEF InSection, Section
<1>2. Interrupts'
  BY <1>0, <1>1, WithinInterrupts, Zenon
<1>3. ASSUME NEW r \in Cpus \ {p} PROVE Sender(r)'
  <2>1. Sender(r) /\ Peer(r) = p
    BY <1>0, Routes DEF Cpus
  <2> QED BY <1>0, <2>1, WithinOther
<1>4. Sender("linux")' /\ Sender("rtos")'
  BY <1>3 DEF Cpus
<1> QED BY <1>0, <1>2, <1>4, WithinOwned, Zenon DEF OrderInv, Progress

(* A sender has found the slot free, so nobody is told of what it writes.  *)
LEMMA OrderWriteSlot ==
    ASSUME Inv, OrderInv, NEW p \in Cpus, WriteSlot(p)
    PROVE  OrderInv'
<1>0. /\ Values /\ Owned /\ Interrupts /\ Progress /\ Typed /\ Told /\ Locked
      /\ Later /\ Sender(p) /\ LinuxWords /\ RtosWords /\ Polled
  BY Zenon DEF OrderInv, Inv, Progress, Cpus
<1>1. Within(p)
  BY WithinSteps, Zenon DEF Transaction
<1>2. /\ Sending(p) /\ InSection(p) /\ pc[p] = "check" /\ pc'[p] = "read" /\ job[p] # "done" /\ job[p] # "isr"
      /\ todo'[p] = {chan[p]} /\ chan' = chan /\ job' = job
  BY <1>0 DEF WriteSlot, InSection, Typed, Sending
<1>3. PICK c \in Channels, n \in Nat, t \in Cpus : c = chan[p] /\ n = Outgoing(p) /\ t = Peer(p)
  BY <1>0, <1>2, Word, Routes
<1>4. /\ raised[c] = "none" /\ c \notin en[p]
  BY <1>0, <1>3 DEF WriteSlot, SlotBusy, Told, Typed
<1>5. /\ slot' = [slot EXCEPT ![c] = n] /\ UNCHANGED <<arrived, raised, en, given, active, deferred, wanted>>
      /\ int' = [int EXCEPT ![t] = @ \ {c}]
  BY <1>3, Zenon DEF WriteSlot, history, linux, rtos
<1>6. Values'
  BY <1>0, <1>5 DEF Values
<1>7. ASSUME NEW d \in Channels, raised[d] # "none" PROVE slot'[d] = slot[d]
  BY <1>0, <1>4, <1>5, <1>7 DEF Values
<1>8. Later'
  BY <1>0, <1>5, <1>7, Routes DEF Later
<1>9. StillSeen /\ \A q \in Cpus : Kept(q)
  <2>1. StillSeen
    BY <1>5, Zenon DEF StillSeen, Seen
  <2>2. ASSUME NEW q \in Cpus, NEW d \in Channels, raised[d] = q PROVE slot'[d] = slot[d]
    BY <1>7, <2>2, Routes
  <2>3. ASSUME NEW q \in Cpus PROVE Kept(q)
    BY <1>5, <2>2, Zenon DEF Kept, Before, Sent
  <2> QED BY <2>1, <2>3
<1>10. LinuxWords' /\ RtosWords'
  BY <1>0, <1>1, <1>9, WithinLinuxWords, WithinRtosWords DEF Cpus
<1>11. Polled'
  BY <1>0, <1>1, <1>2, <1>9, WithinPolled DEF Ending
<1>12. Sender(p)'
  <2>1. Before(t, c, n)
    BY Zenon, <1>0, <1>2, <1>3 DEF Sender
  <2>2. Before(t, c, n)' /\ slot'[c] = n
    BY <1>0, <1>5, <1>9, <2>1 DEF Kept, Values
  <2>3. Outgoing(p)' = n /\ chan'[p] = c /\ pc'[p] \notin Ending
    BY Zenon, <1>2, <1>3, <1>5 DEF Outgoing, Ending
  <2> QED BY <1>3, <2>2, <2>3, Zenon DEF Sender, Before
<1>13. Interrupted(p)'
  BY Zenon, <1>2, <1>3, <1>4, <1>5 DEF Interrupted, Ending, Sending
<1>14. \A q \in Cpus, d \in Channels : d \in int'[q] => raised'[d] = q
  BY <1>0, <1>5 DEF Interrupts, Typed
<1>15. \A r \in Cpus \ {p} : pc[r] \notin Writing
  BY Zenon, <1>0, <1>2, Exclusion DEF InSection, Writing
<1> QED BY <1>1, <1>2, <1>6, <1>8, <1>9, <1>10, <1>11, <1>12, <1>13, <1>14, <1>15, OrderWired
=============================================================================
