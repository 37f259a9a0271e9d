--------------------------- MODULE ControlEndpoint ---------------------------
(***************************************************************************)
(* The character device of the C906L control driver                        *)
(* (pkgs/sg2002/c906l-control/sg2002-c906l-control.c), after the probe.    *)
(*                                                                         *)
(* One process at a time holds the device open, and its threads share the  *)
(* open file.  Module ControlClient adds poll and the processes that use   *)
(* the device.  A write hands one word to the mailbox core and arms the     *)
(* receive callback; a read waits for the answer and takes it; close waits *)
(* a bounded time for the answer and then abandons it.  The callbacks run  *)
(* in interrupt context under state_lock, reads and writes are serialised  *)
(* by io_lock, and everyone sleeps on response_wait.                       *)
(*                                                                         *)
(* The mailbox is the one of module Mailbox reduced to what it promises    *)
(* here: words arrive in order and at most once in each direction, but a   *)
(* full queue or a missed lock loses one.  A word is                       *)
(* [id, session, op, seq, error]: op stands for service and opcode,        *)
(* id and session identify the request in the properties only.             *)
(***************************************************************************)
EXTENDS Naturals, Sequences, FiniteSets

CONSTANTS Processes,       \* disjoint sets of threads
          Ops,             \* the operations clients request
          KnownOps,        \* those the firmware implements
          SequenceLimit,   \* sequence numbers wrap here (2^16)
          MaxRequest,      \* bound on the requests submitted
          MaxSession,      \* bound on the opens
          MayFail          \* the mailbox core may refuse or fail a send

ASSUME ControlEndpointAssumption ==
    /\ \A p, q \in Processes : p # q => p \cap q = {}
    /\ KnownOps \subseteq Ops
    /\ {MaxRequest, MaxSession} \subseteq Nat
    /\ SequenceLimit \in Nat \ {0, 1}
    /\ MayFail \in BOOLEAN

Threads == UNION Processes
ProcessOf(t) == CHOOSE p \in Processes : t \in p

Word == [id : 0 .. MaxRequest, session : 0 .. MaxSession,
         op : Ops \cup {"activate"}, seq : 0 .. SequenceLimit - 1, error : BOOLEAN]

(* The word of the lease activation, sent by the probe.                    *)
Activation(s) == [id |-> 0, session |-> 0, op |-> "activate", seq |-> s, error |-> FALSE]

VARIABLES
    \* struct sg2002_c906l
    opened,           \* the single-open flag
    request_pending,
    response_ready,
    tx_pending,
    tx_status,        \* "ok", or the negative "inprogress" or "failed"
    tx_word,
    response,
    expected,         \* expected_service, expected_opcode and expected_sequence
    \* the processes
    pc,               \* where each thread is; "out" is user space
    io_lock,          \* the threads holding it
    files,            \* the processes that have the device open
    next_sequence,    \* the sequence of the client's next request
    \* the mailbox and the firmware
    core,             \* the core's request: "idle", "queued" or "sent"
    requests,         \* words on their way to the control task
    responses,        \* words on their way back
    \* history
    session,          \* opens so far
    submitted,        \* the request last given to the mailbox core
    delivered         \* how often the answer to each request was read

endpoint == <<opened, request_pending, response_ready, tx_pending, tx_status, tx_word,
              response, expected>>
processes == <<pc, io_lock, files, next_sequence>>
link == <<core, requests, responses>>
history == <<session, submitted, delivered>>
vars == <<endpoint, processes, link, history>>

TypeOK ==
    /\ {opened, request_pending, response_ready, tx_pending} \subseteq BOOLEAN
    /\ tx_status \in {"ok", "inprogress", "failed"}
    /\ {tx_word, response, expected, submitted} \subseteq Word
    /\ pc \in [Threads -> {"out", "open", "send", "wait", "asleep", "lock", "copy",
                           "drain", "drowse", "clear", "shut"}]
    /\ io_lock \subseteq Threads
    /\ files \subseteq Processes
    /\ next_sequence \in 0 .. SequenceLimit - 1
    /\ core \in {"idle", "queued", "sent"}
    /\ requests \in Seq(Word)
    /\ responses \in Seq(Word)
    /\ session \in 0 .. MaxSession
    /\ delivered \in [0 .. MaxRequest -> Nat]

(* The probe registers the device once the leases are active.  The         *)
(* activation's own send may still be unreleased and its answer late.      *)
Init ==
    /\ \E s \in {1, 2} :
          /\ tx_word = Activation(s)
          /\ responses \in {<<>>, <<Activation(s)>>}
    /\ expected = tx_word /\ response = tx_word /\ submitted = tx_word
    /\ tx_pending \in BOOLEAN
    /\ tx_status = IF tx_pending THEN "inprogress" ELSE "ok"
    /\ core = IF tx_pending THEN "sent" ELSE "idle"
    /\ requests = <<>>
    /\ opened = FALSE /\ request_pending = FALSE /\ response_ready = FALSE
    /\ pc = [t \in Threads |-> "out"]
    /\ io_lock = {} /\ files = {} /\ next_sequence = 1
    /\ session = 0
    /\ delivered = [n \in 0 .. MaxRequest |-> 0]

Goto(t, where) == pc' = [pc EXCEPT ![t] = where]

(* wake_up_interruptible(&response_wait): every interruptible sleeper of   *)
(* the queue tests its condition again.  The close sleeps                  *)
(* uninterruptibly ("drowse") and is left alone.                           *)
Woken == [t \in Threads |-> IF pc[t] = "asleep" THEN "wait" ELSE pc[t]]

(* A send failed and its error has not been superseded.                    *)
SendError == ~tx_pending /\ tx_status # "ok"

Busy == request_pending \/ response_ready \/ tx_pending
-----------------------------------------------------------------------------
(* Open and close.                                                         *)

(* sg2002_c906l_open: the flag is taken; a second opener gets -EBUSY.      *)
Open(t) ==
    /\ pc[t] = "out" /\ ProcessOf(t) \notin files
    /\ \A u \in ProcessOf(t) : pc[u] = "out"
    /\ session < MaxSession
    /\ ~opened
    /\ opened' = TRUE
    /\ Goto(t, "open")
    /\ UNCHANGED <<request_pending, response_ready, tx_pending, tx_status, tx_word, response,
                   expected, io_lock, files, next_sequence, link, history>>

(* Variant: the open also takes the transmit buffer back.                  *)
OpenedRelease(t) ==
    /\ pc[t] = "open"
    /\ request_pending' = FALSE
    /\ response_ready' = FALSE
    /\ tx_pending' = FALSE
    /\ tx_status' = "ok"
    /\ files' = files \cup {ProcessOf(t)}
    /\ session' = session + 1
    /\ next_sequence' = 1
    /\ Goto(t, "out")
    /\ UNCHANGED <<opened, tx_word, response, expected, io_lock, link,
                   submitted, delivered>>

(* ... and the previous opener's transaction is forgotten.                 *)
Opened(t) ==
    /\ pc[t] = "open"
    /\ request_pending' = FALSE
    /\ response_ready' = FALSE
    /\ tx_status' = "ok"
    /\ files' = files \cup {ProcessOf(t)}
    /\ session' = session + 1
    /\ next_sequence' = 1
    /\ Goto(t, "out")
    /\ UNCHANGED <<opened, tx_pending, tx_word, response, expected, io_lock, link,
                   submitted, delivered>>

(* sg2002_c906l_release runs when the last reference goes: no thread of    *)
(* the process is inside a call.                                           *)
Release(t) ==
    /\ ProcessOf(t) \in files
    /\ \A u \in ProcessOf(t) : pc[u] = "out"
    /\ files' = files \ {ProcessOf(t)}
    /\ Goto(t, IF request_pending THEN "drain" ELSE "clear")
    /\ UNCHANGED <<endpoint, io_lock, next_sequence, link, history>>

(* wait_event_timeout tests the condition and sleeps.                      *)
Drain(t) ==
    /\ pc[t] = "drain"
    /\ Goto(t, IF request_pending THEN "drowse" ELSE "clear")
    /\ UNCHANGED <<endpoint, io_lock, files, next_sequence, link, history>>

(* SG2002_C906L_CLOSE_MS elapses.                                          *)
CloseTimeout(t) ==
    /\ pc[t] = "drowse"
    /\ Goto(t, "clear")
    /\ UNCHANGED <<endpoint, io_lock, files, next_sequence, link, history>>

(* The transaction is abandoned, then the device is free.                  *)
Abandon(t) ==
    /\ pc[t] = "clear"
    /\ request_pending' = FALSE
    /\ response_ready' = FALSE
    /\ Goto(t, "shut")
    /\ UNCHANGED <<opened, tx_pending, tx_status, tx_word, response, expected, io_lock, files, next_sequence,
                   link, history>>

Shut(t) ==
    /\ pc[t] = "shut"
    /\ opened' = FALSE
    /\ Goto(t, "out")
    /\ UNCHANGED <<request_pending, response_ready, tx_pending, tx_status, tx_word, response,
                   expected, io_lock, files, next_sequence, link, history>>
-----------------------------------------------------------------------------
(* Write and read.                                                         *)

InFile(t) == ProcessOf(t) \in files

(* Client::request: wrapping_add on 16 bits.                               *)
NextSequence(n) == (n + 1) % SequenceLimit

(* sg2002_c906l_write, up to the call of the mailbox core.  While          *)
(* something is outstanding it returns -EBUSY.                             *)
Write(t, op) ==
    /\ InFile(t) /\ pc[t] = "out"
    /\ io_lock = {}
    /\ submitted.id < MaxRequest
    /\ IF Busy
       THEN UNCHANGED <<endpoint, pc, io_lock, next_sequence, submitted>>
       ELSE /\ tx_word' = [id |-> submitted.id + 1, session |-> session, op |-> op,
                           seq |-> next_sequence, error |-> FALSE]
            /\ submitted' = tx_word'
            /\ expected' = tx_word'
            /\ tx_status' = "inprogress"
            /\ tx_pending' = TRUE
            /\ request_pending' = TRUE
            /\ io_lock' = {t}
            /\ next_sequence' = NextSequence(next_sequence)
            /\ Goto(t, "send")
            /\ UNCHANGED <<opened, response_ready, response>>
    /\ UNCHANGED <<files, link, session, delivered>>

(* mbox_send_message takes the pointer to tx_word, or refuses it.          *)
Send(t) ==
    /\ pc[t] = "send"
    /\ io_lock' = {}
    /\ \/ /\ core = "idle"
          /\ core' = "queued"
          /\ Goto(t, "out")
          /\ UNCHANGED endpoint
       \/ /\ MayFail
          /\ tx_pending' = FALSE
          /\ tx_status' = "failed"
          /\ request_pending' = FALSE
          /\ pc' = [Woken EXCEPT ![t] = "out"]
          /\ UNCHANGED <<core, opened, response_ready, tx_word, response, expected>>
    /\ UNCHANGED <<files, next_sequence, requests, responses, history>>

(* sg2002_c906l_read: a blocking reader waits first, a nonblocking one     *)
(* goes straight to the lock.                                              *)
Read(t, nonblock) ==
    /\ InFile(t) /\ pc[t] = "out"
    /\ Goto(t, IF nonblock THEN "lock" ELSE "wait")
    /\ UNCHANGED <<endpoint, io_lock, files, next_sequence, link, history>>

(* wait_event_interruptible tests its condition with the task already on   *)
(* the queue.                                                              *)
Wait(t) ==
    /\ pc[t] = "wait"
    /\ Goto(t, IF response_ready \/ SendError THEN "lock" ELSE "asleep")
    /\ UNCHANGED <<endpoint, io_lock, files, next_sequence, link, history>>

(* A signal ends the wait.                                                 *)
Interrupt(t) ==
    /\ pc[t] = "asleep"
    /\ Goto(t, "out")
    /\ UNCHANGED <<endpoint, io_lock, files, next_sequence, link, history>>

(* Under io_lock the reader finds the response, or returns the send's      *)
(* error or -EAGAIN.                                                       *)
Take(t) ==
    /\ pc[t] = "lock" /\ io_lock = {}
    /\ Goto(t, IF response_ready THEN "copy" ELSE "out")
    /\ io_lock' = IF response_ready THEN {t} ELSE {}
    /\ UNCHANGED <<endpoint, files, next_sequence, link, history>>

(* The response is copied to the user and consumed; a fault leaves it.     *)
Copy(t) ==
    /\ pc[t] = "copy"
    /\ io_lock' = {}
    /\ \/ /\ response_ready' = FALSE
          /\ delivered' = [delivered EXCEPT ![response.id] = @ + 1]
          /\ pc' = [Woken EXCEPT ![t] = "out"]
       \/ /\ Goto(t, "out")
          /\ UNCHANGED <<response_ready, delivered>>
    /\ UNCHANGED <<opened, request_pending, tx_pending, tx_status, tx_word, response, expected,
                   files, next_sequence, link, session, submitted>>

-----------------------------------------------------------------------------
(* The mailbox, the firmware's control task, and the callbacks.            *)

(* The core copies the word behind its pointer into the slot.              *)
Transmit ==
    /\ core = "queued"
    /\ core' = "sent"
    /\ requests' = Append(requests, tx_word)
    /\ UNCHANGED <<endpoint, processes, responses, history>>

(* sg2002_c906l_txdone, for a word that was taken or a send that failed.   *)
TxDone ==
    \E result \in {"ok", "failed"} :
        /\ \/ core = "sent" /\ result = "ok"
           \/ core = "queued" /\ MayFail /\ result = "failed"
        /\ core' = "idle"
        /\ tx_pending' = FALSE
        /\ tx_status' = IF tx_pending THEN result ELSE tx_status
        /\ request_pending' = (request_pending /\ ~(tx_pending /\ result = "failed"))
        /\ pc' = Woken
        /\ UNCHANGED <<opened, response_ready, tx_word, response, expected, io_lock, files, next_sequence,
                       requests, responses, history>>

(* The interrupt drops a word when the task's queue is full.               *)
RequestDropped ==
    /\ requests # <<>>
    /\ requests' = Tail(requests)
    /\ UNCHANGED <<endpoint, processes, core, responses, history>>

(* Message::ordinary_response: the request's service and sequence, with    *)
(* OP_ERROR for an operation the firmware does not know.                   *)
OrdinaryResponse(w) == [w EXCEPT !.error = w.op \notin KnownOps]

(* control_task answers a request, or gives up after its retries and sets  *)
(* FLAG_RESPONSE_TIMEOUT.                                                  *)
Answer ==
    /\ requests # <<>>
    /\ requests' = Tail(requests)
    /\ responses' = Append(responses, OrdinaryResponse(Head(requests)))
    /\ UNCHANGED <<endpoint, processes, core, history>>

(* Variant: the sequence is not compared.                                  *)
MatchesOp(w) == w.op = expected.op \/ w.error

(* The response is for the request that is armed.                          *)
Matches(w) ==
    /\ w.seq = expected.seq
    /\ w.op = expected.op \/ w.error

(* Variant: a reader is not woken by the response.                         *)
ReceiveSilently ==
    /\ responses # <<>>
    /\ responses' = Tail(responses)
    /\ IF request_pending /\ Matches(Head(responses))
       THEN /\ response' = Head(responses)
            /\ request_pending' = FALSE
            /\ response_ready' = TRUE
       ELSE UNCHANGED <<response, request_pending, response_ready>>
    /\ UNCHANGED <<opened, tx_pending, tx_status, tx_word, expected, processes,
                   core, requests, history>>

(* sg2002_c906l_receive: an unsolicited or foreign word is discarded.      *)
Receive ==
    /\ responses # <<>>
    /\ responses' = Tail(responses)
    /\ IF request_pending /\ Matches(Head(responses))
       THEN /\ response' = Head(responses)
            /\ request_pending' = FALSE
            /\ response_ready' = TRUE
       ELSE UNCHANGED <<response, request_pending, response_ready>>
    /\ pc' = Woken
    /\ UNCHANGED <<opened, tx_pending, tx_status, tx_word, expected, io_lock, files, next_sequence,
                   core, requests, history>>

Call(t) ==
    \/ Open(t) \/ Release(t)
    \/ \E op \in Ops : Write(t, op)
    \/ \E nonblock \in BOOLEAN : Read(t, nonblock)
    \/ Interrupt(t)

(* The steps of a call already made.                                       *)
Proceed(t) ==
    \/ Opened(t) \/ Drain(t) \/ CloseTimeout(t) \/ Abandon(t) \/ Shut(t)
    \/ Send(t) \/ Wait(t) \/ Take(t) \/ Copy(t)

Environment == Transmit \/ TxDone \/ RequestDropped \/ Answer \/ Receive
-----------------------------------------------------------------------------
(* Properties.                                                             *)

(* The word behind the pointer given to mbox_send_message is not touched   *)
(* until tx_done: whatever is opened, closed and reopened meanwhile, the   *)
(* mailbox transmits the word whose write reported success.                *)
WordIntact == [][core = "queued" /\ core' = "queued" => tx_word' = tx_word]_vars

(* A client that numbers its requests is offered the answer to the request *)
(* it wrote last, or that of an abandoned request of an earlier opener     *)
(* with the same sequence number: sg2002_c906l_receive never takes an      *)
(* answer to an earlier request of the same opener for the current one.    *)
(* And sg2002_c906l_read hands an answer to at most one of the threads     *)
(* that share the file, though the spinlock is dropped for the copy.       *)
OwnAnswer ==
    /\ response_ready => \/ response.id = submitted.id
                         \/ /\ response.session < submitted.session
                            /\ response.seq = submitted.seq
    /\ \A n \in 0 .. MaxRequest : delivered[n] <= 1

(* Once there is a response, or the send has failed, a reader blocked in   *)
(* sg2002_c906l_read, or a tool in sg2002_c906l_poll, does not sleep on.   *)
ReaderReturns ==
    \A t \in Threads :
        pc[t] \in {"wait", "asleep"} /\ (response_ready \/ SendError)
            ~> pc[t] \notin {"wait", "asleep"} \/ ~(response_ready \/ SendError)

=============================================================================
