---------------------------- MODULE ControlClient ----------------------------
(***************************************************************************)
(* The control tool's exchange (tools/sg2002-c906l-ctl/src/lib.rs, from    *)
(* wait_for to Client::request) against the control driver itself, among   *)
(* other processes that use the device in any way.                         *)
(*                                                                         *)
(* The tool opens the device nonblocking, polls until it may write, writes *)
(* one request, polls until it may read, reads, and judges the answer.     *)
(* sg2002_c906l_poll takes no lock: its six reads are steps of their own,  *)
(* between which the callbacks run.  While it polls, the tool is on        *)
(* response_wait ("asleep"), and a wake-up ("wait") makes it look again.   *)
(***************************************************************************)
EXTENDS ControlEndpoint

CONSTANT Tool      \* the tool's only thread

ASSUME ControlClientAssumption == {Tool} \in Processes

VARIABLE client    \* the tool: where it is, the poll's next read and result, the verdict

cvars == <<vars, client>>

Idle == [step |-> "idle", read |-> "none", mask |-> {}, verdict |-> "none"]

CInit == Init /\ client = Idle

At(step) == client.step = step
Enter(step) == client' = [client EXCEPT !.step = step, !.read = "none", !.mask = {}]
End(verdict) == client' = [Idle EXCEPT !.step = "ended", !.verdict = verdict]
-----------------------------------------------------------------------------
(* sg2002_c906l_poll.                                                      *)

(* What wait_for asks for in the two halves of an exchange.                *)
Wanted == IF At("ready") THEN "out" ELSE "in"

(* The poll has read everything, and reports an event the caller gets.     *)
Reported == client.read = "all" /\ client.mask \cap {Wanted, "err"} # {}
Missed == client.read = "all" /\ client.mask \cap {Wanted, "err"} = {}

(* poll_wait enters the queue, before the first read; after a wake-up the  *)
(* kernel polls again.                                                     *)
Poll ==
    /\ At("ready") \/ At("response")
    /\ client.read = "none" \/ (Missed /\ pc[Tool] = "wait")
    /\ Goto(Tool, "asleep")
    /\ client' = [client EXCEPT !.read = "in", !.mask = {}]
    /\ UNCHANGED <<endpoint, io_lock, files, next_sequence, link, history>>

(* Each && reads its second operand only if the first held.                *)
NextRead ==
    CASE client.read = "in"      -> "status"
      [] client.read = "status"  -> IF tx_status # "ok" THEN "err" ELSE "request"
      [] client.read = "err"     -> "request"
      [] client.read = "request" -> IF request_pending THEN "all" ELSE "ready"
      [] client.read = "ready"   -> IF response_ready THEN "all" ELSE "tx"
      [] client.read = "tx"      -> "all"

(* Variant: a request is offered before the last one is transmitted.       *)
EventsEarly ==
    {e \in {"in", "err", "out"} :
        \/ e = "in" /\ client.read = "in" /\ response_ready
        \/ e = "err" /\ client.read = "err" /\ ~tx_pending
        \/ e = "out" /\ client.read = "tx"}

(* EPOLLIN, EPOLLERR and EPOLLOUT.                                         *)
Events ==
    {e \in {"in", "err", "out"} :
        \/ e = "in" /\ client.read = "in" /\ response_ready
        \/ e = "err" /\ client.read = "err" /\ ~tx_pending
        \/ e = "out" /\ client.read = "tx" /\ ~tx_pending}

ReadFlag ==
    /\ client.read \notin {"none", "all"}
    /\ client' = [client EXCEPT !.read = NextRead, !.mask = @ \cup Events]
    /\ UNCHANGED vars

(* wait_for: an error ends the exchange, else its next call is made.       *)
Return ==
    /\ Reported
    /\ Goto(Tool, "out")
    /\ IF "err" \in client.mask THEN End("transport")
       ELSE Enter(IF At("ready") THEN "write" ELSE "read")
    /\ UNCHANGED <<endpoint, io_lock, files, next_sequence, link, history>>

Deadline ==
    /\ Missed
    /\ Goto(Tool, "out")
    /\ End("timeout")
    /\ UNCHANGED <<endpoint, io_lock, files, next_sequence, link, history>>
-----------------------------------------------------------------------------
(* DeviceTransport::exchange and Client::request.                          *)

(* DeviceTransport::open, and Client::new.                                 *)
OpenDevice ==
    \/ At("idle") /\ Open(Tool) /\ Enter("open")
    \/ At("open") /\ Opened(Tool) /\ Enter("ready")

WriteRequest ==
    /\ At("write")
    /\ \E op \in Ops : Write(Tool, op)
    /\ IF Busy THEN End("busy") ELSE Enter("send")

SendRequest ==
    /\ Send(Tool)
    /\ IF tx_status' = "failed" THEN End("transport") ELSE Enter("response")

(* read returns the word, the send's error, or -EAGAIN to poll again.      *)
ReadResponse ==
    \/ At("read") /\ Read(Tool, TRUE) /\ Enter("take")
    \/ /\ Take(Tool)
       /\ IF response_ready THEN Enter("judge")
          ELSE IF SendError THEN End("transport") ELSE Enter("response")

(* Client::request compares the sequence, then looks for OP_ERROR, then    *)
(* compares the opcode.                                                    *)
Judge ==
    IF response.seq # submitted.seq THEN "sequence"
    ELSE IF response.error THEN "remote"
    ELSE IF response.op # submitted.op THEN "opcode" ELSE "accepted"

(* The command makes its next exchange, or ends.                           *)
JudgeResponse ==
    /\ Copy(Tool)
    /\ response_ready' = FALSE
    /\ IF Judge = "accepted" THEN Enter("ready") \/ End("accepted") ELSE End(Judge)

Exit ==
    \/ At("ended") /\ Release(Tool) /\ Enter("closing")
    \/ UNCHANGED client /\ (Drain(Tool) \/ CloseTimeout(Tool) \/ Abandon(Tool))
    \/ Shut(Tool) /\ client' = Idle

ToolStep ==
    \/ OpenDevice \/ Poll \/ ReadFlag \/ Return \/ Deadline
    \/ WriteRequest \/ SendRequest \/ ReadResponse \/ JudgeResponse \/ Exit

OtherStep(t) == (Call(t) \/ Proceed(t)) /\ UNCHANGED client

Next ==
    \/ ToolStep
    \/ \E t \in Threads \ {Tool} : OtherStep(t)
    \/ Environment /\ UNCHANGED client

(* A call that can proceed does, a tool that was started goes on, and the  *)
(* mailbox releases what it took.                                          *)
Fairness ==
    /\ \A t \in Threads \ {Tool} : WF_cvars(Proceed(t) /\ UNCHANGED client)
    /\ WF_cvars(~At("idle") /\ ToolStep)
    /\ WF_cvars(Transmit /\ UNCHANGED client) /\ WF_cvars(TxDone /\ UNCHANGED client)

Spec == CInit /\ [][Next]_cvars /\ Fairness
-----------------------------------------------------------------------------
(* sg2002_c906l_poll reads without a lock, the device is handed from one   *)
(* process to the next with requests and answers still on their way, and   *)
(* answers are late: yet the tool, which treats each as fatal, never gets  *)
(* -EBUSY for its write (exchange), nor an answer that carries another     *)
(* sequence or opcode than its request (Client::request).                  *)
ToolVerdict == client.verdict \notin {"busy", "sequence", "opcode"}

=============================================================================
