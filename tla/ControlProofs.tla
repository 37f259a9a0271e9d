---------------------------- MODULE ControlProofs ----------------------------
(***************************************************************************)
(* WordIntact, ToolVerdict and OwnAnswer for any processes and operations. *)
(*                                                                         *)
(* WordIntact needs only that the mailbox core holds the word while        *)
(* tx_pending is set (Transmission).  ToolVerdict needs that one process   *)
(* at a time uses the device (Exclusive), so that what a read of the poll  *)
(* saw FALSE stays FALSE until the tool writes (Polling), and that an      *)
(* answer on offer was matched against the last request (Matched).         *)
(* OwnAnswer follows the words through both directions of the mailbox:     *)
(* they stay in the order they were written, none of them has been read,   *)
(* and within a session their numbers are as far apart as the requests     *)
(* (AnswerInv).                                                            *)
(***************************************************************************)
EXTENDS ControlClient, TLAPS

Busyness == {"send", "wait", "asleep", "lock", "copy"}
Changing == {"open", "drain", "drowse", "clear", "shut"}
Reads == {"none", "in", "status", "err", "request", "ready", "tx", "all"}
Steps == {"idle", "open", "ready", "response", "write", "read", "send", "take", "judge",
          "ended", "closing"}
Verdicts == {"none", "transport", "timeout", "remote", "accepted", "busy", "sequence", "opcode"}

(* The types the argument needs.                                           *)
Typed ==
    /\ opened \in BOOLEAN /\ request_pending \in BOOLEAN
    /\ response_ready \in BOOLEAN /\ tx_pending \in BOOLEAN
    /\ pc \in [Threads -> {"out"} \cup Busyness \cup Changing]
    /\ files \subseteq Processes

ClientTyped ==
    client \in [step : Steps, read : Reads, mask : SUBSET {"in", "err", "out"},
               verdict : Verdicts]

(* One process has the device open, is opening it or is closing it, and    *)
(* only its threads are inside a call.                                     *)
Exclusive ==
    /\ \A t \in Threads : pc[t] \in Changing =>
          opened /\ files = {} /\ \A u \in Threads : pc[u] \in Changing => u = t
    /\ files # {} => opened
    /\ \A p, q \in files : p = q
    /\ \A t \in Threads : pc[t] \in Busyness => ProcessOf(t) \in files

(* The core holds a word only while its transmission is pending, and while *)
(* a writer is about to give it one it holds none.                         *)
Transmission ==
    /\ core # "idle" => tx_pending
    /\ \A t \in Threads : pc[t] = "send" => io_lock = {t} /\ core = "idle" /\ tx_pending

(* An answer on offer, or being copied, was matched with the last request. *)
Matched ==
    /\ request_pending \/ response_ready => expected = submitted
    /\ response_ready => Matches(response)
    /\ \A t \in Threads : pc[t] = "copy" => io_lock = {t} /\ response_ready

(* Where the tool's thread is at each of its steps.                        *)
Placed ==
    LET step == client.step  at == pc[Tool]
    IN  /\ step = "idle" => at = "out" /\ {Tool} \notin files
        /\ step \in {"write", "read", "ended", "ready", "response"} => {Tool} \in files
        /\ step \in {"write", "read", "ended"} => at = "out"
        /\ step \in {"ready", "response"} =>
              IF client.read = "none" THEN at = "out" ELSE at \in {"asleep", "wait"}
        /\ step \notin {"ready", "response"} => client.read = "none"
        /\ step = "open" => at = "open"
        /\ step = "send" => at = "send"
        /\ step = "take" => at = "lock"
        /\ step = "judge" => at = "copy"
        /\ step = "closing" => at \in {"drain", "drowse", "clear", "shut"}

(* What the poll for EPOLLOUT saw is still so.                             *)
Polling ==
    /\ client.step = "ready" /\ client.read \in {"ready", "tx"} => ~request_pending
    /\ client.step = "ready" /\ client.read = "tx" => ~response_ready
    /\ client.read # "all" => "out" \notin client.mask
    /\ client.step = "ready" /\ "out" \in client.mask => ~Busy
    /\ client.step = "write" => ~Busy

DeviceInv == Typed /\ Exclusive /\ Transmission /\ Matched
ToolInv == ClientTyped /\ Placed /\ Polling /\ ToolVerdict
-----------------------------------------------------------------------------
(* A thread belongs to one process, and the tool is a process of one       *)
(* thread.                                                                 *)
LEMMA Owners ==
    /\ \A t \in Threads : ProcessOf(t) \in Processes /\ t \in ProcessOf(t)
    /\ Tool \in Threads /\ ProcessOf(Tool) = {Tool}
    /\ \A t \in Threads : ProcessOf(t) = {Tool} => t = Tool
<1>1. \A t \in Threads : ProcessOf(t) \in Processes /\ t \in ProcessOf(t)
  BY DEF Threads, ProcessOf
<1>2. Tool \in Threads
  BY ControlClientAssumption DEF Threads
<1>3. ProcessOf(Tool) = {Tool}
  BY <1>1, <1>2, ControlClientAssumption, ControlEndpointAssumption
<1> QED BY <1>1, <1>2, <1>3

(* The initial state of the device.                                        *)
LEMMA DeviceInit == Init => DeviceInv
  BY Zenon DEF Init, DeviceInv, Typed, Exclusive, Transmission, Matched, Busyness, Changing

(* A wake-up moves a thread only from "asleep" to "wait".                  *)
LEMMA Wake ==
    ASSUME Typed
    PROVE  /\ Woken \in [Threads -> {"out"} \cup Busyness \cup Changing]
           /\ \A u \in Threads : Woken[u] = IF pc[u] = "asleep" THEN "wait" ELSE pc[u]
  BY DEF Typed, Woken, Busyness, Changing

(* A call, or a step of one, by a thread.                                  *)
LEMMA DeviceCall ==
    ASSUME DeviceInv, NEW t \in Threads, Call(t) \/ Proceed(t)
    PROVE  DeviceInv'
<1> USE DEF DeviceInv, Typed, Busyness, Changing
<1>1. CASE Open(t)
  <2>1. Typed' /\ Exclusive'
    BY <1>1, Owners DEF Open, Goto, link, history, Exclusive
  <2>2. Transmission' /\ Matched'
    BY <1>1 DEF Open, Goto, link, history, Transmission, Matched, Matches
  <2> QED BY <2>1, <2>2
<1>2. CASE Opened(t)
  <2>1. /\ opened' \in BOOLEAN /\ request_pending' \in BOOLEAN
        /\ response_ready' \in BOOLEAN /\ tx_pending' \in BOOLEAN
    BY <1>2, Zenon DEF Opened
  <2>2. pc' \in [Threads -> {"out"} \cup Busyness \cup Changing] /\ files' \subseteq Processes
    BY <1>2, Owners DEF Opened, Goto
  <2>3. Exclusive'
    BY <1>2, Owners DEF Opened, Goto, link, history, Exclusive
  <2>4. \A u \in Threads : pc[u] \notin Busyness
    BY <1>2 DEF Opened, Exclusive
  <2>5. Transmission' /\ Matched'
    BY <1>2, <2>4 DEF Opened, Goto, link, history, Transmission, Matched, Matches
  <2> QED BY <2>1, <2>2, <2>3, <2>5
<1>3. CASE Release(t)
  <2>1. Typed' /\ Exclusive'
    BY <1>3, Owners DEF Release, Goto, endpoint, link, history, Exclusive
  <2>2. Transmission' /\ Matched'
    BY <1>3 DEF Release, Goto, endpoint, link, history, Transmission, Matched, Matches
  <2> QED BY <2>1, <2>2
<1>4. CASE Drain(t) \/ CloseTimeout(t)
  <2>1. Typed' /\ Exclusive'
    BY <1>4, Owners DEF Drain, CloseTimeout, Goto, endpoint, link, history, Exclusive
  <2>2. Transmission' /\ Matched'
    BY <1>4 DEF Drain, CloseTimeout, Goto, endpoint, link, history, Transmission, Matched, Matches
  <2> QED BY <2>1, <2>2
<1>5. CASE Abandon(t)
  <2>1. /\ opened' \in BOOLEAN /\ request_pending' \in BOOLEAN
        /\ response_ready' \in BOOLEAN /\ tx_pending' \in BOOLEAN
    BY <1>5, Zenon DEF Abandon
  <2>2. pc' \in [Threads -> {"out"} \cup Busyness \cup Changing] /\ files' \subseteq Processes
    BY <1>5 DEF Abandon, Goto
  <2>3. Exclusive'
    BY <1>5, Owners DEF Abandon, Goto, link, history, Exclusive
  <2>4. \A u \in Threads : pc[u] \notin Busyness
    BY <1>5 DEF Abandon, Exclusive
  <2>5. Transmission' /\ Matched'
    BY <1>5, <2>4 DEF Abandon, Goto, link, history, Transmission, Matched, Matches
  <2> QED BY <2>1, <2>2, <2>3, <2>5
<1>6. CASE Shut(t)
  <2>1. /\ opened' \in BOOLEAN /\ request_pending' \in BOOLEAN
        /\ response_ready' \in BOOLEAN /\ tx_pending' \in BOOLEAN
    BY <1>6, Zenon DEF Shut
  <2>2. pc' \in [Threads -> {"out"} \cup Busyness \cup Changing] /\ files' \subseteq Processes
    BY <1>6 DEF Shut, Goto
  <2>3. Exclusive'
    BY <1>6, Owners DEF Shut, Goto, Exclusive
  <2>4. Transmission' /\ Matched'
    BY <1>6 DEF Shut, Goto, link, history, Transmission, Matched, Matches
  <2> QED BY <2>1, <2>2, <2>3, <2>4
<1>7. CASE \E op \in Ops : Write(t, op)
  <2>1. /\ opened' \in BOOLEAN /\ request_pending' \in BOOLEAN
        /\ response_ready' \in BOOLEAN /\ tx_pending' \in BOOLEAN
    BY <1>7, Zenon DEF Write, endpoint
  <2>2. pc' \in [Threads -> {"out"} \cup Busyness \cup Changing] /\ files' \subseteq Processes
    BY <1>7 DEF Write, endpoint, Goto
  <2>3. Exclusive'
    BY <1>7, Owners DEF Write, InFile, Busy, Goto, endpoint, link, Exclusive
  <2>4. Transmission' /\ Matched'
    BY <1>7 DEF Write, InFile, Busy, Goto, endpoint, link, Transmission, Matched, Matches
  <2> QED BY <2>1, <2>2, <2>3, <2>4
<1>8. CASE Send(t)
  <2>1. pc' = [pc EXCEPT ![t] = "out"] \/ pc' = [Woken EXCEPT ![t] = "out"]
    BY <1>8 DEF Send, Goto
  <2>2. /\ pc' \in [Threads -> {"out"} \cup Busyness \cup Changing]
        /\ pc'[t] = "out"
        /\ \A u \in Threads \ {t} :
              pc'[u] = pc[u] \/ (pc[u] = "asleep" /\ pc'[u] = "wait")
    BY <2>1, Wake
  <2>3. Typed' /\ Exclusive'
    BY Zenon, <1>8, <2>2, Owners DEF Send, endpoint, history, Exclusive
  <2>4. \A u \in Threads : pc'[u] # "send" /\ pc'[u] # "copy"
    BY <1>8, <2>2 DEF Send, Transmission, Matched
  <2>5. Transmission'
    BY <1>8, <2>4 DEF Send, endpoint, Transmission
  <2>6. Matched'
    BY <1>8, <2>4 DEF Send, endpoint, history, Matched, Matches
  <2> QED BY <2>3, <2>5, <2>6
<1>9. CASE (\E nonblock \in BOOLEAN : Read(t, nonblock)) \/ Wait(t) \/ Interrupt(t)
  <2>1. Typed' /\ Exclusive'
    BY <1>9, Owners DEF Read, Wait, Interrupt, InFile, Goto, endpoint, link,
       history, Exclusive
  <2>2. Transmission' /\ Matched'
    BY <1>9 DEF Read, Wait, Interrupt, InFile, Goto, endpoint, link,
       history, Transmission, Matched, Matches
  <2> QED BY <2>1, <2>2
<1>10. CASE Take(t)
  <2>1. Typed' /\ Exclusive'
    BY <1>10, Owners DEF Take, Goto, endpoint, link, history, Exclusive
  <2>2. Transmission' /\ Matched'
    BY <1>10 DEF Take, Goto, endpoint, link, history, Transmission, Matched, Matches
  <2> QED BY <2>1, <2>2
<1>11. CASE Copy(t)
  <2>1. pc' = [pc EXCEPT ![t] = "out"] \/ pc' = [Woken EXCEPT ![t] = "out"]
    BY <1>11 DEF Copy, Goto
  <2>2. /\ pc' \in [Threads -> {"out"} \cup Busyness \cup Changing]
        /\ pc'[t] = "out"
        /\ \A u \in Threads \ {t} :
              pc'[u] = pc[u] \/ (pc[u] = "asleep" /\ pc'[u] = "wait")
    BY <2>1, Wake
  <2>3. Typed' /\ Exclusive'
    BY Zenon, <1>11, <2>2, Owners DEF Copy, Exclusive
  <2>4. Transmission' /\ Matched'
    BY <1>11, <2>2 DEF Copy, link, Transmission, Matched, Matches
  <2> QED BY <2>3, <2>4
<1> QED
  BY <1>1, <1>2, <1>3, <1>4, <1>5, <1>6, <1>7, <1>8, <1>9, <1>10, <1>11 DEF Call, Proceed

(* The callbacks, the mailbox core and the firmware keep the device's      *)
(* invariant.                                                              *)
LEMMA DeviceEnvironment == DeviceInv /\ Environment => DeviceInv'
<1> USE DEF DeviceInv, Typed, Busyness, Changing
<1> SUFFICES ASSUME DeviceInv, Environment PROVE DeviceInv'
  OBVIOUS
<1>1. CASE Transmit
  BY <1>1 DEF Transmit, endpoint, processes, history, Exclusive, Transmission, Matched, Matches
<1>2. CASE TxDone
  <2>1. request_pending' \in BOOLEAN
    BY <1>2, Zenon DEF TxDone
  <2>2. pc' = Woken /\ UNCHANGED <<opened, files, response_ready>> /\ tx_pending' = FALSE
    BY <1>2 DEF TxDone
  <2>3. Typed' /\ Exclusive'
    BY Zenon, <2>1, <2>2, Wake DEF Exclusive
  <2>4. Transmission' /\ Matched'
    BY <1>2, Wake DEF TxDone, history, Transmission, Matched, Matches
  <2> QED BY <2>3, <2>4
<1>3. CASE RequestDropped \/ Answer
  BY <1>3 DEF RequestDropped, Answer, endpoint, processes, history, Exclusive, Transmission, Matched, Matches
<1>4. CASE Receive
  BY Zenon, <1>4 DEF Receive, Woken, history, Exclusive, Transmission, Matched, Matches
<1> QED
  BY <1>1, <1>2, <1>3, <1>4 DEF Environment
-----------------------------------------------------------------------------
(* While the tool has the device, nobody else can do anything with it.     *)
LEMMA OthersWait ==
    ASSUME DeviceInv, NEW t \in Threads, t # Tool,
           {Tool} \in files \/ pc[Tool] \in Changing
    PROVE  ~(Call(t) \/ Proceed(t))
<1>1. ProcessOf(t) \notin files /\ opened
  BY Owners DEF DeviceInv, Typed, Exclusive
<1>2. pc[t] = "out"
  BY <1>1, Owners DEF DeviceInv, Typed, Exclusive
<1> QED
  BY Zenon, <1>1, <1>2 DEF Call, Proceed, Open, Release, Write, InFile, Read, Interrupt, Opened,
     Drain, CloseTimeout, Abandon, Shut, Send, Wait, Take, Copy, Busyness, Changing

(* The initial state of the tool.                                          *)
LEMMA ToolInit == CInit => ToolInv
  BY Owners DEF CInit, Init, Idle, ToolInv, ClientTyped, Placed, Polling, ToolVerdict, Steps,
     Reads, Verdicts

(* Other processes wait while the tool has the device, and change nothing  *)
(* it has seen.                                                            *)
LEMMA ToolOther ==
    ASSUME DeviceInv, ToolInv, NEW t \in Threads \ {Tool}, OtherStep(t)
    PROVE  ToolInv'
<1>1. {Tool} \notin files /\ pc[Tool] \notin Changing
  BY OthersWait DEF OtherStep
<1>2. pc[Tool] \notin Busyness
  BY <1>1, Owners DEF DeviceInv, Exclusive
<1>3. client.step = "idle" /\ pc[Tool] = "out"
  BY <1>1, <1>2 DEF ToolInv, ClientTyped, Placed, Steps, Busyness, Changing
<1>4. pc'[Tool] = "out" /\ {Tool} \notin files'
  <2>1. Call(t) \/ Proceed(t)
    BY DEF OtherStep
  <2>2. pc'[Tool] = "out"
    BY Zenon, <2>1, <1>3, Owners, Wake DEF Call, Proceed, Open, Release, Write, Read, Interrupt, Opened,
       Drain, CloseTimeout, Abandon, Shut, Send, Wait, Take, Copy, Goto, DeviceInv, Typed
  <2>3. files' \subseteq files \cup {ProcessOf(t)}
    BY <2>1 DEF Call, Proceed, Open, Release, Write, Read, Interrupt, Opened,
       Drain, CloseTimeout, Abandon, Shut, Send, Wait, Take, Copy
  <2> QED BY <2>2, <2>3, <1>1, Owners
<1>5. client' = client
  BY DEF OtherStep
<1> QED
  BY <1>3, <1>4, <1>5 DEF ToolInv, ClientTyped, Placed, Polling, ToolVerdict, Busy

(* The callbacks only clear what the tool's poll found clear.              *)
LEMMA ToolEnvironment ==
    ASSUME DeviceInv, ToolInv, Environment, UNCHANGED client
    PROVE  ToolInv'
<1>1. /\ files' = files
      /\ pc'[Tool] = pc[Tool] \/ (pc[Tool] = "asleep" /\ pc'[Tool] = "wait")
  BY Owners, Wake DEF Environment, Transmit, TxDone, RequestDropped, Answer, Receive, processes,
     DeviceInv
<1>2. /\ ~request_pending => ~request_pending' /\ (response_ready' => response_ready)
      /\ ~tx_pending => ~tx_pending'
  <2>1. CASE Transmit \/ RequestDropped \/ Answer
    BY <2>1 DEF Transmit, RequestDropped, Answer, endpoint
  <2>2. CASE TxDone
    BY <2>2 DEF TxDone, DeviceInv, Typed
  <2>3. CASE Receive
    BY <2>3 DEF Receive
  <2> QED BY <2>1, <2>2, <2>3 DEF Environment
<1>3. Placed'
  BY <1>1 DEF ToolInv, Placed
<1>4. Polling'
  BY <1>2 DEF ToolInv, Polling, Busy
<1> QED BY <1>3, <1>4 DEF ToolInv, ClientTyped, ToolVerdict

(* What Enter and End do to the tool's record.                             *)
LEMMA Entered ==
    ASSUME ClientTyped, NEW step \in Steps, Enter(step)
    PROVE  /\ ClientTyped'
           /\ client'.step = step /\ client'.read = "none" /\ client'.mask = {}
           /\ client'.verdict = client.verdict
  BY Zenon DEF ClientTyped, Enter, Reads

(* An exchange that ends leaves the tool with its verdict and nothing      *)
(* read.                                                                   *)
LEMMA Ended ==
    ASSUME NEW verdict \in Verdicts, End(verdict)
    PROVE  /\ ClientTyped'
           /\ client'.step = "ended" /\ client'.read = "none" /\ client'.mask = {}
           /\ client'.verdict = verdict
  BY Zenon DEF ClientTyped, End, Idle, Reads, Steps

(* A step of the tool.                                                     *)
LEMMA ToolMoves ==
    ASSUME DeviceInv, ToolInv, ToolStep
    PROVE  ToolInv' /\ DeviceInv'
<1> USE DEF ClientTyped, Steps, Reads, Verdicts, At, Enter, End, Idle
<1>1. CASE OpenDevice
  <2>1. DeviceInv'
    BY <1>1, DeviceCall, Owners DEF OpenDevice, Call, Proceed
  <2>2. CASE At("idle") /\ Open(Tool) /\ Enter("open")
    BY Zenon, <2>1, <2>2, Owners DEF Open, Goto, DeviceInv, Typed, ToolInv, Placed, Polling, ToolVerdict, Busy
  <2>3. CASE At("open") /\ Opened(Tool) /\ Enter("ready")
    BY Zenon, <2>1, <2>3, Owners DEF Opened, Goto, DeviceInv, Typed, ToolInv, Placed, Polling, ToolVerdict,
       Busy
  <2> QED BY <1>1, <2>2, <2>3 DEF OpenDevice
<1>2. CASE Poll
  <2>1. {Tool} \in files /\ pc' = [pc EXCEPT ![Tool] = "asleep"]
        /\ pc[Tool] \notin {"send", "copy"} \cup Changing
    BY <1>2 DEF Poll, Goto, ToolInv, Placed, Changing
  <2>2. DeviceInv'
    BY <1>2, <2>1, Owners DEF Poll, endpoint, link, history, DeviceInv, Typed, Exclusive,
       Transmission, Matched, Matches, Busyness, Changing
  <2>3. ToolInv'
    BY Zenon, <1>2, <2>1, Owners DEF Poll, endpoint, DeviceInv, Typed, ToolInv, Placed, Polling,
       ToolVerdict, Busy
  <2> QED BY <2>2, <2>3
<1>3. CASE ReadFlag
  <2>1. DeviceInv'
    BY <1>3 DEF ReadFlag, vars, endpoint, processes, link, history, DeviceInv, Typed, Exclusive,
       Transmission, Matched, Matches
  <2>2. /\ client.step \in {"ready", "response"}
        /\ client.read \notin {"none", "all"}
    BY <1>3 DEF ReadFlag, ToolInv, Placed
  <2>3. ToolInv'
    <3>1. /\ client' = [client EXCEPT !.read = NextRead, !.mask = client.mask \cup Events]
          /\ Events \subseteq {"in", "err", "out"}
      BY <1>3 DEF ReadFlag, Events
    <3>2. client.read \in {"in", "status", "err", "request", "ready", "tx"}
      BY <2>2 DEF ToolInv
    <3>3. NextRead \in Reads \ {"none", "in"}
      BY <3>2 DEF NextRead
    <3>4. /\ ClientTyped'
          /\ client'.step = client.step /\ client'.verdict = client.verdict
          /\ client'.read = NextRead /\ client'.mask = client.mask \cup Events
      BY Zenon, <3>1, <3>3 DEF ToolInv
    <3>5. UNCHANGED <<pc, files, request_pending, response_ready, tx_pending>>
      BY <1>3 DEF ReadFlag, vars, endpoint, processes
    <3>6. Placed'
      BY <2>2, <3>3, <3>4, <3>5 DEF ToolInv, Placed
    <3>7. /\ NextRead = "ready" => ~request_pending
          /\ NextRead = "tx" => client.read = "ready" /\ ~response_ready
          /\ "out" \in Events => client.read = "tx" /\ ~tx_pending /\ NextRead = "all"
      BY <3>2 DEF NextRead, Events
    <3>8. Polling'
      BY <2>2, <3>4, <3>5, <3>7 DEF ToolInv, Polling, Busy
    <3> QED BY <3>4, <3>6, <3>8 DEF ToolInv, ToolVerdict
  <2> QED BY <2>1, <2>3
<1>4. CASE Return \/ Deadline
  <2>1. /\ client.step \in {"ready", "response"} /\ {Tool} \in files
        /\ pc[Tool] \in {"asleep", "wait"}
        /\ pc' = [pc EXCEPT ![Tool] = "out"]
    BY <1>4 DEF Return, Deadline, Reported, Missed, Goto, ToolInv, Placed
  <2>2. DeviceInv'
    BY <1>4, <2>1, Owners DEF Return, Deadline, endpoint, link, history, DeviceInv, Typed,
       Exclusive, Transmission, Matched, Matches, Busyness, Changing
  <2>3. ToolInv'
    <3>1. pc'[Tool] = "out" /\ UNCHANGED <<files, request_pending, response_ready, tx_pending>>
      BY <1>4, <2>1, Owners DEF Return, Deadline, endpoint, DeviceInv, Typed
    <3>2. CASE End("transport") \/ End("timeout")
      BY <3>1, <3>2, <2>1, Ended DEF ToolInv, Placed, Polling, ToolVerdict
    <3>3. CASE client.step = "ready" /\ "out" \in client.mask /\ Enter("write")
      BY <3>1, <3>3, <2>1, Entered DEF ToolInv, Placed, Polling, ToolVerdict, Busy
    <3>4. CASE Enter("read")
      BY <3>1, <3>4, <2>1, Entered DEF ToolInv, Placed, Polling, ToolVerdict
    <3> QED BY Zenon, <1>4, <2>1, <3>2, <3>3, <3>4 DEF Return, Deadline, Reported, Wanted
  <2> QED BY <2>2, <2>3
<1>5. CASE WriteRequest
  <2>1. DeviceInv'
    BY <1>5, DeviceCall, Owners DEF WriteRequest, Call
  <2>2. ~Busy
    BY <1>5 DEF WriteRequest, ToolInv, Polling
  <2>3. Enter("send") /\ pc'[Tool] = "send" /\ UNCHANGED files
    BY <1>5, <2>2, Owners DEF WriteRequest, Write, Goto, DeviceInv, Typed
  <2>4. /\ ClientTyped' /\ client'.verdict = client.verdict
        /\ client'.step = "send" /\ client'.read = "none" /\ client'.mask = {}
    BY <2>3, Entered DEF ToolInv
  <2>5. ToolInv'
    BY <2>3, <2>4 DEF ToolInv, Placed, Polling, ToolVerdict
  <2> QED BY <2>1, <2>5
<1>6. CASE SendRequest
  <2>1. DeviceInv'
    BY <1>6, DeviceCall, Owners DEF SendRequest, Proceed
  <2>2. pc'[Tool] = "out" /\ {Tool} \in files'
    BY <1>6, Owners, Wake DEF SendRequest, Send, Goto, DeviceInv, Typed, Exclusive, Busyness
  <2>3. ToolInv'
    <3>1. CASE End("transport")
      BY <3>1, <2>2, Ended DEF ToolInv, Placed, Polling, ToolVerdict
    <3>2. CASE Enter("response")
      BY <3>2, <2>2, Entered DEF ToolInv, Placed, Polling, ToolVerdict
    <3> QED BY <1>6, <3>1, <3>2 DEF SendRequest
  <2> QED BY <2>1, <2>3
<1>7. CASE ReadResponse
  <2>1. DeviceInv'
    BY Zenon, <1>7, DeviceCall, Owners DEF ReadResponse, Call, Proceed
  <2>2. {Tool} \in files
    BY <1>7, Owners DEF ReadResponse, Read, Take, DeviceInv, Exclusive, Busyness, ToolInv, Placed
  <2>3. ToolInv'
    <3>1. files' = files
      BY <1>7 DEF ReadResponse, Read, Take
    <3>2. CASE Enter("take") /\ pc'[Tool] = "lock"
      BY <3>1, <3>2, Entered DEF ToolInv, Placed, Polling, ToolVerdict
    <3>3. CASE Enter("judge") /\ pc'[Tool] = "copy"
      BY <3>1, <3>3, Entered DEF ToolInv, Placed, Polling, ToolVerdict
    <3>4. CASE End("transport") /\ pc'[Tool] = "out"
      BY <3>1, <3>4, <2>2, Ended DEF ToolInv, Placed, Polling, ToolVerdict
    <3>5. CASE Enter("response") /\ pc'[Tool] = "out"
      BY <3>1, <3>5, <2>2, Entered DEF ToolInv, Placed, Polling, ToolVerdict
    <3>6. CASE At("read") /\ Read(Tool, TRUE) /\ Enter("take")
      <4>1. pc'[Tool] = "lock"
        BY <3>6, Owners DEF Read, Goto, DeviceInv, Typed
      <4> QED BY <3>6, <4>1, <3>2
    <3>7. CASE /\ Take(Tool)
               /\ IF response_ready THEN Enter("judge")
                  ELSE IF SendError THEN End("transport") ELSE Enter("response")
      <4>1. pc'[Tool] = IF response_ready THEN "copy" ELSE "out"
        BY <3>7, Owners DEF Take, Goto, DeviceInv, Typed
      <4> QED BY <3>7, <4>1, <3>3, <3>4, <3>5
    <3> QED BY Zenon, <1>7, <3>6, <3>7 DEF ReadResponse
  <2> QED BY <2>1, <2>3
<1>8. CASE JudgeResponse
  <2>1. DeviceInv'
    BY <1>8, DeviceCall, Owners DEF JudgeResponse, Proceed
  <2>2. Judge \in {"remote", "accepted"}
    BY <1>8, Owners DEF JudgeResponse, Copy, Judge, DeviceInv, Matched, Matches
  <2>3. pc'[Tool] = "out" /\ {Tool} \in files'
    BY <1>8, Owners, Wake DEF JudgeResponse, Copy, Goto, DeviceInv, Typed, Exclusive, Busyness
  <2>4. ToolInv'
    <3>1. CASE Enter("ready")
      BY <3>1, <2>3, Entered DEF ToolInv, Placed, Polling, ToolVerdict
    <3>2. CASE End("accepted") \/ End("remote")
      BY <3>2, <2>3, Ended DEF ToolInv, Placed, Polling, ToolVerdict
    <3> QED BY Zenon, <1>8, <2>2, <3>1, <3>2 DEF JudgeResponse
  <2> QED BY <2>1, <2>4
<1>9. CASE Exit
  <2>1. DeviceInv'
    BY <1>9, DeviceCall, Owners DEF Exit, Call, Proceed
  <2>2. ToolInv'
    <3>1. CASE At("ended") /\ Release(Tool) /\ Enter("closing")
      <4>1. pc'[Tool] \in {"drain", "clear"}
        BY <3>1, Owners DEF Release, Goto, DeviceInv, Typed
      <4> QED BY <3>1, <4>1, Entered DEF ToolInv, Placed, Polling, ToolVerdict
    <3>2. CASE UNCHANGED client /\ (Drain(Tool) \/ CloseTimeout(Tool) \/ Abandon(Tool))
      <4>1. /\ pc[Tool] \in {"drain", "drowse", "clear"}
            /\ pc'[Tool] \in {"drowse", "clear", "shut"}
        BY <3>2, Owners DEF Drain, CloseTimeout, Abandon, Goto, DeviceInv, Typed
      <4>2. client.step = "closing" /\ client.read = "none"
        <5>1. {Tool} \notin files
          BY <4>1, Owners DEF DeviceInv, Exclusive, Changing
        <5> QED BY <4>1, <5>1 DEF ToolInv, Placed
      <4> QED BY <3>2, <4>1, <4>2 DEF ToolInv, Placed, Polling, ToolVerdict
    <3>3. CASE Shut(Tool) /\ client' = Idle
      <4>1. pc'[Tool] = "out" /\ {Tool} \notin files'
        BY <3>3, Owners DEF Shut, Goto, DeviceInv, Typed, Exclusive, Changing
      <4> QED BY <3>3, <4>1 DEF ToolInv, Placed, Polling, ToolVerdict
    <3> QED BY <1>9, <3>1, <3>2, <3>3 DEF Exit
  <2> QED BY <2>1, <2>2
<1> QED
  BY <1>1, <1>2, <1>3, <1>4, <1>5, <1>6, <1>7, <1>8, <1>9 DEF ToolStep

Inv == DeviceInv /\ ToolInv

(* Every step keeps the invariant.                                         *)
LEMMA Inductive == Inv /\ [Next]_cvars => Inv'
<1> SUFFICES ASSUME Inv, [Next]_cvars PROVE Inv'
  OBVIOUS
<1>1. CASE ToolStep
  BY <1>1, ToolMoves DEF Inv
<1>2. CASE \E t \in Threads \ {Tool} : OtherStep(t)
  <2>1. PICK t \in Threads \ {Tool} : OtherStep(t)
    BY <1>2
  <2> QED BY <2>1, DeviceCall, ToolOther DEF Inv, OtherStep
<1>3. CASE Environment /\ UNCHANGED client
  BY <1>3, DeviceEnvironment, ToolEnvironment DEF Inv
<1>4. CASE UNCHANGED cvars
  <2>1. DeviceInv'
    BY <1>4 DEF cvars, vars, endpoint, processes, link, history, Inv, DeviceInv, Typed, Exclusive,
       Transmission, Matched, Matches
  <2>2. ToolInv'
    BY <1>4 DEF cvars, vars, endpoint, processes, Inv, ToolInv, ClientTyped, Placed, Polling,
       ToolVerdict, Busy
  <2> QED BY <2>1, <2>2 DEF Inv
<1> QED BY <1>1, <1>2, <1>3, <1>4 DEF Next

(* The invariant holds in every reachable state.                           *)
LEMMA Invariant == Spec => []Inv
<1>1. CInit => Inv
  BY DeviceInit, ToolInit DEF CInit, Inv
<1> QED BY <1>1, Inductive, PTL DEF Spec

(* Whoever else opens, closes, reads and writes, and however late the      *)
(* answers are, the tool's write never meets -EBUSY after its poll, and    *)
(* the word it reads answers the request it wrote by sequence and opcode.  *)
THEOREM Verdict == Spec => []ToolVerdict
<1>1. Inv => ToolVerdict
  BY DEF Inv, ToolInv
<1> QED BY <1>1, Invariant, PTL

(* A word the mailbox core holds a pointer to is not overwritten: the only *)
(* write to tx_word is refused while tx_pending, which open and close      *)
(* leave alone.                                                            *)
THEOREM WordKept == Spec => WordIntact
<1>1. Inv /\ [Next]_cvars => [core = "queued" /\ core' = "queued" => tx_word' = tx_word]_vars
  <2> SUFFICES ASSUME Inv, [Next]_cvars, core = "queued" PROVE tx_word' = tx_word
    OBVIOUS
  <2>1. Busy
    BY DEF Inv, DeviceInv, Transmission, Busy
  <2>2. ASSUME NEW t \in Threads, Call(t) \/ Proceed(t) PROVE tx_word' = tx_word
    BY <2>1, <2>2 DEF Call, Proceed, Open, Release, Write, Read, Interrupt, Opened, Drain,
       CloseTimeout, Abandon, Shut, Send, Wait, Take, Copy, endpoint
  <2>3. CASE ToolStep
    BY Zenon, <2>2, <2>3, Owners DEF ToolStep, OpenDevice, Poll, ReadFlag, Return, Deadline,
       WriteRequest, SendRequest, ReadResponse, JudgeResponse, Exit, Call, Proceed, vars, endpoint
  <2>4. CASE \E t \in Threads \ {Tool} : OtherStep(t)
    BY <2>2, <2>4 DEF OtherStep
  <2>5. CASE Environment
    BY <2>5 DEF Environment, Transmit, TxDone, RequestDropped, Answer, Receive, endpoint
  <2>6. CASE UNCHANGED cvars
    BY <2>6 DEF cvars, vars, endpoint
  <2> QED BY <2>3, <2>4, <2>5, <2>6 DEF Next
<1> QED BY <1>1, Invariant, PTL DEF Spec, WordIntact
-----------------------------------------------------------------------------
(* What is known of a word, whoever wrote it.                              *)
AnyWord == [id : 0 .. MaxRequest, session : Nat, op : Ops \cup {"activate"}, seq : Nat,
            error : BOOLEAN]

(* A queue of words, as a set and in the order they were written.          *)
Words(s) == {s[i] : i \in 1 .. Len(s)}
Increasing(s) == \A i, j \in 1 .. Len(s) : i < j => s[i].id < s[j].id
InFlight == Words(requests) \cup Words(responses)

Written ==
    /\ requests \in Seq(AnyWord) /\ responses \in Seq(AnyWord)
    /\ submitted \in AnyWord /\ response \in AnyWord /\ tx_word = submitted
    /\ session \in Nat /\ next_sequence \in Nat
    /\ delivered \in [0 .. MaxRequest -> Nat]

(* A word is in the core's hands, or about to be.                          *)
Held == core = "queued" \/ \E t \in Threads : pc[t] = "send"

(* A word on its way or on offer: it has not been read, and within a       *)
(* session sequence numbers are as far apart as the requests.              *)
Fresh(w) ==
    /\ w.id <= submitted.id /\ w.session <= session
    /\ delivered[w.id] = 0
    /\ Held => w.id < submitted.id
    /\ w.session = session /\ session > 0 =>
          submitted.session = session /\ w.seq + submitted.id = w.id + submitted.seq

Unread == \A w \in InFlight : Fresh(w)

(* The answers are before the requests, and both in order.                 *)
Ordered ==
    /\ Increasing(requests) /\ Increasing(responses)
    /\ \A v \in Words(responses), w \in Words(requests) : v.id < w.id

(* What is on offer is older than all of them.                             *)
Offer == response_ready => Fresh(response) /\ \A w \in InFlight : response.id < w.id

(* The numbering of the client that has the device.                        *)
Numbering ==
    /\ files # {} => session > 0
    /\ request_pending \/ response_ready => submitted.session = session /\ session > 0
    /\ submitted.session <= session
    /\ submitted.session = session /\ session > 0 =>
          /\ submitted.seq <= submitted.id
          /\ submitted.id = MaxRequest \/ next_sequence = submitted.seq + 1
    /\ submitted.session < session => next_sequence = 1

(* No answer was read twice, and none before its request was transmitted.  *)
Once ==
    /\ Held => delivered[submitted.id] = 0
    /\ \A n \in 0 .. MaxRequest : delivered[n] <= 1 /\ (n > submitted.id => delivered[n] = 0)

AnswerInv == Written /\ Unread /\ Ordered /\ Offer /\ Numbering /\ Once

(* The numbers in a word are natural.                                      *)
LEMMA Numbers ==
    ASSUME NEW w \in AnyWord
    PROVE  w.id \in 0 .. MaxRequest /\ w.id \in Nat /\ w.session \in Nat /\ w.seq \in Nat
  BY ControlEndpointAssumption DEF AnyWord

(* Taking the first word of a queue in order.                              *)
LEMMA Front ==
    ASSUME NEW s \in Seq(AnyWord), s # <<>>, Increasing(s)
    PROVE  /\ Tail(s) \in Seq(AnyWord) /\ Increasing(Tail(s))
           /\ Head(s) \in AnyWord /\ Head(s) \in Words(s) /\ Words(Tail(s)) \subseteq Words(s)
           /\ \A w \in Words(Tail(s)) : Head(s).id < w.id
<1>1. /\ Tail(s) \in Seq(AnyWord) /\ Len(Tail(s)) = Len(s) - 1 /\ Len(s) \in Nat /\ Len(s) >= 1
      /\ \A i \in 1 .. Len(s) - 1 : Tail(s)[i] = s[i + 1]
      /\ Head(s) = s[1] /\ s[1] \in AnyWord
  OBVIOUS
<1> DEFINE t == Tail(s)
<1>2. \A i \in 1 .. Len(t) : i \in Nat /\ 1 < i + 1 /\ i + 1 \in 1 .. Len(s) /\ t[i] = s[i + 1]
  BY <1>1
<1>3. 1 \in 1 .. Len(s)
  BY <1>1
<1> HIDE DEF t
<1>4. /\ \A w \in Words(t) : s[1].id < w.id /\ w \in Words(s)
      /\ s[1] \in Words(s)
  BY <1>2, <1>3 DEF Words, Increasing
<1>5. Increasing(t)
  BY <1>2 DEF Increasing
<1> QED BY <1>1, <1>4, <1>5 DEF t

(* Putting a later word at the end of a queue in order.                    *)
LEMMA Behind ==
    ASSUME NEW s \in Seq(AnyWord), NEW w \in AnyWord, Increasing(s), \A v \in Words(s) : v.id < w.id
    PROVE  /\ Append(s, w) \in Seq(AnyWord) /\ Increasing(Append(s, w))
           /\ Words(Append(s, w)) = Words(s) \cup {w}
<1> DEFINE t == Append(s, w)
<1>1. /\ t \in Seq(AnyWord) /\ Len(t) = Len(s) + 1 /\ Len(s) \in Nat
      /\ \A i \in 1 .. Len(s) : t[i] = s[i]
      /\ t[Len(s) + 1] = w
  OBVIOUS
<1> HIDE DEF t
<1>2. \A i \in 1 .. Len(t) : i \in Nat /\ (i \in 1 .. Len(s) \/ i = Len(s) + 1)
  BY <1>1
<1>3. \A i \in 1 .. Len(s) : s[i].id < w.id /\ i \in 1 .. Len(t)
  BY <1>1 DEF Words
<1>4. Increasing(t)
  BY <1>1, <1>2, <1>3 DEF Increasing
<1>5. Len(s) + 1 \in 1 .. Len(t)
  BY <1>1
<1>6. Words(t) = Words(s) \cup {w}
  BY <1>1, <1>2, <1>3, <1>5 DEF Words
<1> QED BY <1>1, <1>4, <1>6 DEF t

(* The types behind the invariant of the answers.                          *)
LEMMA Typing ==
    ASSUME AnswerInv
    PROVE  /\ InFlight \subseteq AnyWord /\ session \in Nat /\ next_sequence \in Nat
           /\ submitted.id \in 0 .. MaxRequest /\ submitted.id \in Nat
           /\ submitted.seq \in Nat /\ submitted.session \in Nat
           /\ MaxRequest \in Nat
<1>1. /\ requests \in Seq(AnyWord) /\ responses \in Seq(AnyWord) /\ submitted \in AnyWord
      /\ session \in Nat /\ next_sequence \in Nat
  BY DEF AnswerInv, Written
<1>2. InFlight \subseteq AnyWord
  BY <1>1 DEF InFlight, Words
<1> QED BY <1>1, <1>2, Numbers, ControlEndpointAssumption

(* With both queues as they were, the same words are in flight and in      *)
(* order.                                                                  *)
LEMMA Unmoved ==
    ASSUME UNCHANGED <<requests, responses>>
    PROVE  InFlight' = InFlight /\ (Ordered => Ordered')
  BY Zenon DEF InFlight, Ordered, Increasing, Words

(* The steps that neither move a word, nor number, nor read one.           *)
Quiet ==
    /\ UNCHANGED <<requests, responses, submitted, tx_word, response, session, next_sequence,
                   delivered>>
    /\ response_ready' => response_ready
    /\ request_pending' => request_pending
    /\ Held' => Held
    /\ files' # {} => files # {}

(* They keep the invariant of the answers.                                 *)
LEMMA AnswerQuiet ==
    ASSUME AnswerInv, Quiet
    PROVE  AnswerInv'
<1>1. UNCHANGED <<requests, responses, submitted, tx_word, response, session, next_sequence,
                  delivered>>
  BY DEF Quiet
<1>2. Written /\ Unread /\ Ordered /\ Offer /\ Numbering /\ Once
  BY DEF AnswerInv
<1>3. InFlight' = InFlight
  BY <1>1, Unmoved
<1>4. Written' /\ Numbering' /\ Once'
  BY <1>1, <1>2 DEF Quiet, Written, Numbering, Once
<1>5. Unread' /\ Offer'
  BY <1>1, <1>2, <1>3, Zenon DEF Unread, Offer, Quiet, Fresh
<1>6. Ordered'
  BY <1>1, <1>2, Unmoved
<1> QED BY <1>4, <1>5, <1>6 DEF AnswerInv

(* sg2002_c906l_open begins a numbering.                                   *)
LEMMA AnswerOpened ==
    ASSUME AnswerInv, DeviceInv, NEW t \in Threads, Opened(t)
    PROVE  AnswerInv'
<1>0. Written /\ Unread /\ Ordered /\ Offer /\ Numbering /\ Once
  BY DEF AnswerInv
<1>1. /\ UNCHANGED <<requests, responses, submitted, tx_word, response, delivered, core>>
      /\ response_ready' = FALSE /\ request_pending' = FALSE
      /\ session' = session + 1 /\ next_sequence' = 1
      /\ Held' => Held
  BY DEF Opened, link, Held, Goto, DeviceInv, Typed
<1>2. Written' /\ Once' /\ Offer'
  BY <1>0, <1>1 DEF Written, Once, Offer
<1>3. Numbering'
  BY <1>0, <1>1, Typing DEF Numbering
<1>4. InFlight' = InFlight
  BY <1>1, Unmoved
<1>5. ASSUME NEW w \in InFlight
      PROVE  Fresh(w)'
  <2>1. Fresh(w) /\ w.session \in Nat /\ session \in Nat
    BY <1>0, <1>5, Typing, Numbers DEF Unread
  <2> QED BY <1>1, <2>1 DEF Fresh
<1>6. Unread'
  BY <1>4, <1>5 DEF Unread
<1>7. Ordered'
  BY <1>0, <1>1, Unmoved
<1> QED BY <1>2, <1>3, <1>6, <1>7 DEF AnswerInv

(* A write takes the next number: the client's wraps only at its 2^16th    *)
(* request.                                                                *)
LEMMA AnswerWrite ==
    ASSUME AnswerInv, DeviceInv, MaxRequest < SequenceLimit,
           NEW t \in Threads, NEW op \in Ops, Write(t, op), ~Busy
    PROVE  AnswerInv'
<1>0. Written /\ Unread /\ Ordered /\ Offer /\ Numbering /\ Once
  BY DEF AnswerInv
<1>1. /\ UNCHANGED <<requests, responses, response, session, delivered, core, files>>
      /\ ~response_ready' /\ submitted.id < MaxRequest /\ ~Held
      /\ submitted' = [id |-> submitted.id + 1, session |-> session, op |-> op,
                       seq |-> next_sequence, error |-> FALSE]
      /\ tx_word' = submitted'
      /\ next_sequence' = NextSequence(next_sequence)
      /\ files # {}
  BY DEF Write, Busy, link, InFile, Held, DeviceInv, Transmission, Typed
<1>2. /\ submitted'.id = submitted.id + 1 /\ submitted'.session = session
      /\ submitted'.seq = next_sequence /\ submitted' \in AnyWord
  BY <1>1, Typing DEF AnyWord
<1>3. /\ session > 0 /\ next_sequence <= submitted.id + 1
      /\ submitted.session = session => next_sequence = submitted.seq + 1
  BY <1>0, <1>1, Typing DEF Numbering
<1>4. /\ next_sequence' \in Nat
      /\ submitted'.id = MaxRequest \/ next_sequence' = submitted'.seq + 1
  <2>1. /\ next_sequence \in Nat /\ submitted.id \in Nat /\ submitted.id + 1 <= MaxRequest
        /\ MaxRequest \in Nat /\ SequenceLimit \in Nat \ {0}
    BY <1>1, Typing, ControlEndpointAssumption
  <2>2. next_sequence + 1 < SequenceLimit => NextSequence(next_sequence) = next_sequence + 1
    BY <2>1 DEF NextSequence
  <2>3. NextSequence(next_sequence) \in Nat
    BY <2>1 DEF NextSequence
  <2> QED BY <1>1, <1>2, <1>3, <2>1, <2>2, <2>3
<1>5. Written'
  BY <1>0, <1>1, <1>2, <1>4 DEF Written
<1>6. Numbering'
  BY <1>1, <1>2, <1>3, <1>4, Typing DEF Numbering
<1>7. Once'
  <2>1. submitted.id + 1 \in 0 .. MaxRequest /\ submitted.id + 1 > submitted.id
    BY <1>1, Typing
  <2>2. delivered[submitted.id + 1] = 0
    BY <1>0, <2>1 DEF Once
  <2>3. \A n \in 0 .. MaxRequest : n > submitted.id + 1 => n > submitted.id
    BY Typing
  <2> QED BY <1>0, <1>1, <1>2, <2>2, <2>3 DEF Once
<1>8. Offer'
  BY <1>1, Zenon DEF Offer
<1>9. InFlight' = InFlight
  BY <1>1, Unmoved
<1>10. ASSUME NEW w \in InFlight
       PROVE  Fresh(w)'
  <2>1. Fresh(w) /\ w.id \in Nat /\ w.seq \in Nat /\ w.session \in Nat
    BY <1>0, <1>10, Typing, Numbers DEF Unread
  <2> QED BY <1>1, <1>2, <1>3, <2>1, Typing DEF Fresh
<1>11. Unread'
  BY <1>9, <1>10 DEF Unread
<1>12. Ordered'
  BY <1>0, <1>1, Unmoved
<1> QED BY <1>5, <1>6, <1>7, <1>8, <1>11, <1>12 DEF AnswerInv

(* sg2002_c906l_read consumes what is on offer, which is nowhere else.     *)
LEMMA AnswerCopy ==
    ASSUME AnswerInv, DeviceInv, NEW t \in Threads, Copy(t)
    PROVE  AnswerInv'
<1>0. Written /\ Unread /\ Ordered /\ Offer /\ Numbering /\ Once
  BY DEF AnswerInv
<1>1. /\ UNCHANGED <<requests, responses, submitted, tx_word, response, session, next_sequence,
                     core, files, request_pending>>
      /\ response_ready /\ (Held' => Held)
      /\ \/ ~response_ready' /\ delivered' = [delivered EXCEPT ![response.id] = @ + 1]
         \/ UNCHANGED <<response_ready, delivered>>
  BY Wake DEF Copy, link, Held, Goto, DeviceInv, Typed, Matched
<1>2. ASSUME UNCHANGED <<response_ready, delivered>>
      PROVE  AnswerInv'
  BY <1>1, <1>2, AnswerQuiet DEF Quiet
<1>3. ASSUME ~response_ready', delivered' = [delivered EXCEPT ![response.id] = @ + 1]
      PROVE  AnswerInv'
  <2>1. /\ response.id \in 0 .. MaxRequest /\ response.id \in Nat
        /\ response.id <= submitted.id /\ (Held => response.id < submitted.id)
        /\ delivered[response.id] = 0
        /\ \A w \in InFlight : response.id < w.id
    BY <1>0, <1>1, Numbers DEF Written, Offer, Fresh
  <2>2. /\ delivered' \in [0 .. MaxRequest -> Nat] /\ delivered'[response.id] = 1
        /\ \A n \in 0 .. MaxRequest : n # response.id => delivered'[n] = delivered[n]
    BY <1>0, <1>3, <2>1 DEF Written
  <2>3. Written' /\ Numbering' /\ Offer'
    BY <1>0, <1>1, <1>3, <2>2 DEF Written, Numbering, Offer
  <2>4. Once'
    <3>1. \A n \in 0 .. MaxRequest : n > submitted.id => n # response.id
      BY <2>1, Typing
    <3>2. Held => submitted.id # response.id
      BY <2>1, Typing
    <3> QED BY <1>0, <1>1, <2>2, <3>1, <3>2, Typing DEF Once
  <2>5. InFlight' = InFlight
    BY <1>1, Unmoved
  <2>6. ASSUME NEW w \in InFlight
        PROVE  Fresh(w)'
    <3>1. Fresh(w) /\ w.id \in 0 .. MaxRequest /\ w.id # response.id
      BY <1>0, <2>1, <2>6, Typing, Numbers DEF Unread
    <3> QED BY <1>1, <2>2, <3>1 DEF Fresh
  <2>7. Unread'
    BY <2>5, <2>6 DEF Unread
  <2>8. Ordered'
    BY <1>0, <1>1, Unmoved
  <2> QED BY <2>3, <2>4, <2>7, <2>8 DEF AnswerInv
<1> QED BY <1>1, <1>2, <1>3, Zenon

(* The core copies the held word behind those it copied before.            *)
LEMMA AnswerTransmit ==
    ASSUME AnswerInv, Transmission, Transmit
    PROVE  AnswerInv'
<1>0. Written /\ Unread /\ Ordered /\ Offer /\ Numbering /\ Once
  BY DEF AnswerInv
<1>1. /\ UNCHANGED <<responses, submitted, tx_word, response, session, next_sequence, delivered,
                     files, request_pending, response_ready>>
      /\ Held /\ ~Held' /\ requests' = Append(requests, submitted)
  BY <1>0 DEF Transmit, endpoint, processes, history, Held, Transmission, Written
<1>2. /\ \A w \in InFlight : w.id < submitted.id
      /\ response_ready => response.id < submitted.id
  BY <1>0, <1>1 DEF Unread, Offer, Fresh
<1>3. /\ requests' \in Seq(AnyWord) /\ Increasing(requests')
      /\ Words(requests') = Words(requests) \cup {submitted}
  <2>1. requests \in Seq(AnyWord) /\ submitted \in AnyWord /\ Increasing(requests)
    BY <1>0 DEF Written, Ordered
  <2>2. \A v \in Words(requests) : v.id < submitted.id
    BY <1>2 DEF InFlight
  <2> QED BY <1>1, <2>1, <2>2, Behind
<1>4. InFlight' = InFlight \cup {submitted}
  BY <1>1, <1>3 DEF InFlight
<1>5. Written' /\ Numbering' /\ Once'
  BY <1>0, <1>1, <1>3 DEF Written, Numbering, Once
<1>6. \A w \in InFlight : Fresh(w)'
  BY <1>0, <1>1, Zenon DEF Unread, Fresh
<1>7. Fresh(submitted)'
  BY <1>0, <1>1, Typing DEF Numbering, Once, Fresh
<1>8. Unread'
  BY <1>1, <1>4, <1>6, <1>7 DEF Unread
<1>9. Offer'
  BY <1>0, <1>1, <1>2, <1>4 DEF Offer, Fresh
<1>10. Ordered'
  BY <1>0, <1>1, <1>2, <1>3 DEF Ordered, InFlight
<1> QED BY <1>5, <1>8, <1>9, <1>10 DEF AnswerInv

(* The interrupt drops a word.                                             *)
LEMMA AnswerDropped ==
    ASSUME AnswerInv, RequestDropped
    PROVE  AnswerInv'
<1>0. Written /\ Unread /\ Ordered /\ Offer /\ Numbering /\ Once
  BY DEF AnswerInv
<1>1. /\ UNCHANGED <<responses, submitted, tx_word, response, session, next_sequence, delivered,
                     files, request_pending, response_ready>>
      /\ Held' <=> Held
      /\ requests' = Tail(requests) /\ requests # <<>>
  BY DEF RequestDropped, endpoint, processes, history, Held
<1>2. /\ requests' \in Seq(AnyWord) /\ Increasing(requests')
      /\ Words(requests') \subseteq Words(requests)
  BY <1>0, <1>1, Front DEF Written, Ordered
<1>3. InFlight' \subseteq InFlight
  BY <1>1, <1>2 DEF InFlight
<1>4. Written' /\ Numbering' /\ Once'
  BY <1>0, <1>1, <1>2 DEF Written, Numbering, Once
<1>5. Unread' /\ Offer'
  BY <1>0, <1>1, <1>3, Zenon DEF Unread, Offer, Fresh
<1>6. Ordered'
  BY <1>0, <1>1, <1>2 DEF Ordered
<1> QED BY <1>4, <1>5, <1>6 DEF AnswerInv

(* An answer takes its request's place in the order.                       *)
LEMMA AnswerAnswered ==
    ASSUME AnswerInv, Answer
    PROVE  AnswerInv'
<1>0. Written /\ Unread /\ Ordered /\ Offer /\ Numbering /\ Once
  BY DEF AnswerInv
<1> DEFINE asked == Head(requests)
           answer == OrdinaryResponse(asked)
<1>1. /\ UNCHANGED <<submitted, tx_word, response, session, next_sequence, delivered, files,
                     request_pending, response_ready>>
      /\ Held' <=> Held
      /\ requests' = Tail(requests) /\ requests # <<>>
      /\ responses' = Append(responses, answer)
  BY DEF Answer, endpoint, processes, history, Held
<1>2. /\ requests' \in Seq(AnyWord) /\ Increasing(requests')
      /\ Words(requests') \subseteq Words(requests)
      /\ asked \in AnyWord /\ asked \in Words(requests)
      /\ \A w \in Words(requests') : asked.id < w.id
  BY <1>0, <1>1, Front DEF Written, Ordered
<1> HIDE DEF asked
<1>3. /\ answer \in AnyWord /\ answer.id = asked.id
      /\ answer.session = asked.session /\ answer.seq = asked.seq
  BY <1>2, Zenon DEF OrdinaryResponse, AnyWord
<1> HIDE DEF answer
<1>4. /\ responses' \in Seq(AnyWord) /\ Increasing(responses')
      /\ Words(responses') = Words(responses) \cup {answer}
  <2>1. \A v \in Words(responses) : v.id < answer.id
    BY <1>0, <1>2, <1>3 DEF Ordered
  <2>2. responses \in Seq(AnyWord) /\ Increasing(responses)
    BY <1>0 DEF Written, Ordered
  <2> QED BY <1>1, <1>3, <2>1, <2>2, Behind
<1>5. /\ InFlight' \subseteq InFlight \cup {answer}
      /\ asked \in InFlight
  BY <1>2, <1>4 DEF InFlight
<1>6. Written' /\ Numbering' /\ Once'
  BY <1>0, <1>1, <1>2, <1>4 DEF Written, Numbering, Once
<1>7. Fresh(asked) /\ (response_ready => Fresh(response) /\ response.id < asked.id)
  BY <1>0, <1>5 DEF Unread, Offer
<1>8. Unread'
  <2>1. \A w \in InFlight : Fresh(w)'
    BY <1>0, <1>1, Zenon DEF Unread, Fresh
  <2>2. ASSUME NEW w, w = answer PROVE Fresh(w)'
    BY <1>1, <1>3, <1>7, <2>2, Zenon DEF Fresh
  <2> QED BY <1>5, <2>1, <2>2, Zenon DEF Unread
<1>9. Offer'
  <2>1. response_ready => \A w \in InFlight' : response.id < w.id
    BY <1>0, <1>3, <1>5, <1>7 DEF Offer
  <2>2. response_ready => Fresh(response)'
    BY <1>1, <1>7, Zenon DEF Fresh
  <2> QED BY <1>1, <2>1, <2>2 DEF Offer
<1>10. Ordered'
  BY <1>0, <1>2, <1>3, <1>4 DEF Ordered
<1> QED BY <1>6, <1>8, <1>9, <1>10 DEF AnswerInv

(* sg2002_c906l_receive takes the oldest answer, or discards it.           *)
LEMMA AnswerReceived ==
    ASSUME AnswerInv, DeviceInv, Receive
    PROVE  AnswerInv'
<1>0. Written /\ Unread /\ Ordered /\ Offer /\ Numbering /\ Once
  BY DEF AnswerInv
<1> DEFINE oldest == Head(responses)
<1>1. /\ UNCHANGED <<requests, submitted, tx_word, session, next_sequence, delivered, files>>
      /\ Held' => Held
      /\ responses' = Tail(responses) /\ responses # <<>>
      /\ \/ UNCHANGED <<response, request_pending, response_ready>>
         \/ request_pending /\ response' = oldest
  BY Wake DEF Receive, history, Held, DeviceInv, Typed
<1>2. /\ responses' \in Seq(AnyWord) /\ Increasing(responses')
      /\ Words(responses') \subseteq Words(responses)
      /\ oldest \in AnyWord /\ oldest \in Words(responses)
      /\ \A w \in Words(responses') : oldest.id < w.id
  BY <1>0, <1>1, Front DEF Written, Ordered
<1> HIDE DEF oldest
<1>3. /\ InFlight' \subseteq InFlight /\ oldest \in InFlight
      /\ \A w \in InFlight' : oldest.id < w.id
  BY <1>0, <1>1, <1>2 DEF InFlight, Ordered
<1>4. Written' /\ Numbering' /\ Once'
  BY <1>0, <1>1, <1>2 DEF Written, Numbering, Once
<1>5. Unread'
  BY <1>0, <1>1, <1>3, Zenon DEF Unread, Fresh
<1>6. Offer'
  <2>1. CASE UNCHANGED <<response, request_pending, response_ready>>
    BY <1>0, <1>1, <1>3, <2>1, Zenon DEF Offer, Fresh
  <2>2. CASE response' = oldest
    <3>1. Fresh(response)'
      BY <1>0, <1>1, <1>3, <2>2, Zenon DEF Unread, Fresh
    <3> QED BY <1>3, <2>2, <3>1 DEF Offer
  <2> QED BY <1>1, <2>1, <2>2, Zenon
<1>7. Ordered'
  BY <1>0, <1>1, <1>2 DEF Ordered
<1> QED BY <1>4, <1>5, <1>6, <1>7 DEF AnswerInv

(* Every call, and every step of one, keeps the invariant of the answers.  *)
LEMMA AnswerCall ==
    ASSUME AnswerInv, DeviceInv, MaxRequest < SequenceLimit, NEW t \in Threads, Call(t) \/ Proceed(t)
    PROVE  AnswerInv'
<1>1. CASE Open(t) \/ Release(t) \/ Drain(t) \/ CloseTimeout(t) \/ Abandon(t) \/ Shut(t)
  <2>1. Quiet
    BY <1>1 DEF Open, Release, Drain, CloseTimeout, Abandon, Shut, Goto, endpoint, link, history,
       Quiet, Held, DeviceInv, Typed
  <2> QED BY <2>1, AnswerQuiet
<1>2. CASE Interrupt(t) \/ Wait(t) \/ Take(t) \/ \E nonblock \in BOOLEAN : Read(t, nonblock)
  <2>1. Quiet
    BY <1>2 DEF Interrupt, Wait, Take, Read, Goto, endpoint, link, history, Quiet, Held,
       DeviceInv, Typed
  <2> QED BY <2>1, AnswerQuiet
<1>3. CASE Send(t)
  <2>1. Held
    BY <1>3 DEF Send, Held
  <2>2. Quiet
    BY <1>3, <2>1 DEF Send, endpoint, history, Quiet
  <2> QED BY <2>2, AnswerQuiet
<1>4. CASE \E op \in Ops : Write(t, op)
  <2>1. PICK op \in Ops : Write(t, op)
    BY <1>4
  <2>2. CASE Busy
    <3>1. Quiet
      BY <2>1, <2>2 DEF Write, endpoint, link, Quiet, Held
    <3> QED BY <3>1, AnswerQuiet
  <2> QED BY <2>1, <2>2, AnswerWrite
<1> QED BY <1>1, <1>2, <1>3, <1>4, AnswerOpened, AnswerCopy DEF Call, Proceed

(* Every step keeps the invariant of the answers.                          *)
LEMMA AnswerNext ==
    ASSUME AnswerInv, Inv, MaxRequest < SequenceLimit, [Next]_cvars
    PROVE  AnswerInv'
<1>1. DeviceInv /\ Transmission
  BY DEF Inv, DeviceInv
<1>2. ASSUME NEW t \in Threads, Call(t) \/ Proceed(t)
      PROVE  AnswerInv'
  BY <1>1, <1>2, AnswerCall
<1>3. CASE ToolStep
  <2>1. CASE Poll \/ Return \/ Deadline
    <3>1. Quiet
      BY <1>1, <2>1 DEF Poll, Return, Deadline, Goto, endpoint, link, history, Quiet, Held,
         DeviceInv, Typed
    <3> QED BY <3>1, AnswerQuiet
  <2>2. CASE ReadFlag
    <3>1. Quiet
      BY <2>2 DEF ReadFlag, vars, endpoint, processes, link, history, Quiet, Held
    <3> QED BY <3>1, AnswerQuiet
  <2>3. CASE \E t \in Threads : Call(t) \/ Proceed(t)
    BY <2>3, <1>2
  <2> QED
    BY <1>3, <2>1, <2>2, <2>3, Owners, Zenon DEF ToolStep, OpenDevice, WriteRequest, SendRequest,
       ReadResponse, JudgeResponse, Exit, Call, Proceed
<1>4. CASE \E t \in Threads \ {Tool} : OtherStep(t)
  BY <1>2, <1>4 DEF OtherStep
<1>5. CASE Environment
  <2>1. CASE TxDone
    <3>1. Quiet
      BY <1>1, <2>1, Wake DEF TxDone, history, Quiet, Held, DeviceInv, Typed
    <3> QED BY <3>1, AnswerQuiet
  <2> QED
    BY <1>1, <1>5, <2>1, AnswerTransmit, AnswerDropped, AnswerAnswered, AnswerReceived
       DEF Environment
<1>6. CASE UNCHANGED cvars
  <2>1. Quiet
    BY <1>6 DEF cvars, vars, endpoint, processes, link, history, Quiet, Held
  <2> QED BY <2>1, AnswerQuiet
<1> QED BY <1>3, <1>4, <1>5, <1>6 DEF Next

(* The initial state has no answers.                                       *)
LEMMA AnswerInit == CInit => AnswerInv
<1> SUFFICES ASSUME CInit PROVE AnswerInv
  OBVIOUS
<1>1. PICK s \in {1, 2} : tx_word = Activation(s) /\ responses \in {<<>>, <<Activation(s)>>}
  BY DEF CInit, Init
<1> DEFINE word == Activation(s)
<1>2. /\ submitted = word /\ tx_word = word /\ response = word /\ requests = <<>>
      /\ ~request_pending /\ ~response_ready /\ core # "queued" /\ files = {} /\ session = 0
      /\ \A t \in Threads : pc[t] = "out"
      /\ delivered = [n \in 0 .. MaxRequest |-> 0] /\ next_sequence = 1
      /\ responses \in {<<>>, <<word>>}
  BY <1>1 DEF CInit, Init
<1>3. word \in AnyWord /\ word.id = 0 /\ word.session = 0 /\ 0 \in 0 .. MaxRequest
  BY <1>1, ControlEndpointAssumption DEF Activation, AnyWord
<1> HIDE DEF word
<1>4. ~Held
  BY <1>2 DEF Held
<1>5. /\ responses \in Seq(AnyWord) /\ Increasing(responses) /\ Words(responses) \subseteq {word}
  <2>1. CASE responses = <<>>
    BY <2>1 DEF Increasing, Words
  <2>2. CASE responses = <<word>>
    BY <1>3, <2>2 DEF Increasing, Words
  <2> QED BY <1>2, <2>1, <2>2
<1>6. requests \in Seq(AnyWord) /\ Increasing(requests) /\ Words(requests) = {}
  BY <1>2 DEF Increasing, Words
<1>7. Written
  BY <1>2, <1>3, <1>5, <1>6 DEF Written
<1>8. Offer /\ Numbering /\ Once /\ Ordered
  BY <1>2, <1>3, <1>4, <1>5, <1>6 DEF Offer, Numbering, Once, Ordered
<1>9. Unread
  BY <1>2, <1>3, <1>4, <1>5, <1>6 DEF Unread, InFlight, Fresh
<1> QED BY <1>7, <1>8, <1>9 DEF AnswerInv

(* While fewer requests were submitted than there are sequence numbers,    *)
(* and whatever the mailbox loses or delays, sg2002_c906l_receive offers a *)
(* client the answer to its last request or that of an earlier opener's,   *)
(* and sg2002_c906l_read hands out no answer twice.                        *)
THEOREM Answered ==
    ASSUME MaxRequest < SequenceLimit
    PROVE  Spec => []OwnAnswer
<1>1. AnswerInv /\ Inv => OwnAnswer
  <2> SUFFICES ASSUME AnswerInv, Inv PROVE OwnAnswer
    OBVIOUS
  <2>1. \A n \in 0 .. MaxRequest : delivered[n] <= 1
    BY DEF AnswerInv, Once
  <2>2. ASSUME response_ready
        PROVE  \/ response.id = submitted.id
               \/ response.session < submitted.session /\ response.seq = submitted.seq
    <3>1. response.seq = submitted.seq /\ submitted.session = session /\ session > 0
      BY <2>2 DEF Inv, DeviceInv, Matched, Matches, AnswerInv, Numbering
    <3>2. Fresh(response) /\ response \in AnyWord /\ submitted \in AnyWord
      BY <2>2 DEF AnswerInv, Offer, Written
    <3> QED BY <3>1, <3>2, Numbers DEF Fresh
  <2> QED BY <2>1, <2>2 DEF OwnAnswer
<1>2. AnswerInv /\ Inv /\ [Next]_cvars => AnswerInv'
  BY AnswerNext
<1> QED BY <1>1, <1>2, AnswerInit, Invariant, PTL DEF Spec
=============================================================================
