---------------------------- MODULE ControlTool ----------------------------
(***************************************************************************)
(* One invocation of sg2002-c906l-ctl (main and run of src/main.rs, the    *)
(* readers, RpmsgEcho and Client of src/lib.rs) on a live board: it parses *)
(* its arguments, reads the sysfs records, opens a device and exchanges    *)
(* requests for answers until it is done or something fails.               *)
(*                                                                         *)
(* External: the board may publish, lose its driver or die between any two *)
(* steps; the echo service may answer wrongly, and late answers to an      *)
(* earlier invocation may arrive.  The control device's own protocol is in *)
(* ControlEndpoint; here an answer is the right one or a late one.         *)
(***************************************************************************)
EXTENDS ToolInput

CONSTANTS ArgumentLists,      \* the command lines
          ContractTexts,      \* what files below a --sysfs path hold
          ActivationTexts,
          Compiled,           \* ContractIdentity::compiled
          Boards,             \* [contract, activation] of the boards it may run on
          ContractOrder,      \* the order of the fields in a record
          ActivationOrder,
          Durations           \* latencies

VARIABLES arguments,          \* the command line, until it is parsed
          tool,               \* the process
          board,              \* the driver and the firmware
          link                \* requests and answers on the open device

vars == <<arguments, tool, board, link>>

Active == 2                   \* ACTIVATION_STATE_ACTIVE
Success == 0                  \* ACTIVATION_RESULT_SUCCESS

Unavailable == [line |-> "ended", entries |-> <<[name |-> "", text |-> Written(0)],
                                               [name |-> "error", text |-> Written(0)]>>]

Init ==
    /\ arguments \in ArgumentLists
    /\ tool = [pc |-> "arguments", config |-> Usage("none"), reads |-> <<>>, asks |-> <<>>, next |-> 1,
               samples |-> <<>>, accepted |-> <<>>, exit |-> "none", report |-> <<>>]
    /\ board \in Boards
    /\ link = [request |-> <<>>, replies |-> <<>>, late |-> <<>>, writable |-> FALSE]

Exit(code) == tool' = [tool EXCEPT !.pc = "ended", !.exit = code]
Goto(pc) == tool' = [tool EXCEPT !.pc = pc]

-----------------------------------------------------------------------------
(* What a command asks for, in order.                                      *)

(* What fills a payload: the pattern of a check, or the iteration          *)
(* (stress_payload).                                                       *)
Pattern == -1
Wrong == -2
Payload(size, marker) == [channel |-> "echo", size |-> size, marker |-> marker]
Request(op, value) == [channel |-> "control", op |-> op, value |-> value]

StressSize(iteration) == 1 + (iteration % MaxSize)

Asks(c) ==
    LET Times(F(_)) == [i \in 1 .. c.count |-> F(i - 1)]
        Bench(i) == Payload(c.size, i)
        Stress(i) == Payload(StressSize(i), i)
        Ping(i) == Request("ping", i)
    IN CASE c.command = "check" -> <<Request("abi", 0), Request("caps", 0), Request("ping", CheckPing)>>
         [] c.command = "abi" -> <<Request("abi", 0)>>
         [] c.command = "capabilities" -> <<Request("caps", 0)>>
         [] c.command = "ping" -> <<Request("ping", c.value)>>
         [] c.command = "bench" -> Times(Ping)
         [] c.command = "rpmsg-check" -> <<Payload(c.size, Pattern)>>
         [] c.command = "rpmsg-bench" -> Times(Bench)
         [] c.command = "rpmsg-stress" -> Times(Stress)
         [] OTHER -> <<>>

Reads(command) ==
    CASE command = "check" -> <<"contract", "activation", "contract", "activation">>
      [] command \in {"contract", "activation"} -> <<command, command>>
      [] OTHER -> <<>>

(* main, and the start of run.                                             *)
Start ==
    LET config == ParseArguments(arguments)
    IN  /\ tool.pc = "arguments"
        /\ arguments' = <<>>
        /\ IF config.verdict # "run"
           THEN Exit(IF config.verdict = "help" THEN "ok" ELSE "usage")
           ELSE tool' = [tool EXCEPT !.config = config, !.asks = Asks(config),
                                     !.pc = IF Reads(config.command) = <<>> THEN "open" ELSE "read"]
        /\ UNCHANGED <<board, link>>

-----------------------------------------------------------------------------
(* read_attribute: contract_show prints constants; activation_show takes a *)
(* snapshot, which fails while the firmware publishes and after it died.   *)
Shown(name) ==
    IF "--sysfs" \in tool.config.given
    THEN IF name = "contract" THEN ContractTexts ELSE ActivationTexts
    ELSE IF ~board.loaded THEN {}
    ELSE IF name = "contract" THEN {Format(ContractOrder, board.contract)}
    ELSE {IF board.alive /\ ~board.publishing THEN Format(ActivationOrder, board.activation)
          ELSE Unavailable}

Half(command) == Len(Reads(command)) \div 2

(* A file that was rewritten since the first read shows anything else.     *)
ReadAttribute ==
    LET plan == Reads(tool.config.command)
        i == Len(tool.reads) + 1
        half == Half(tool.config.command)
    IN  /\ tool.pc = "read"
        /\ IF i > half /\ "--sysfs" \in tool.config.given
           THEN \E text \in {tool.reads[i - half], Unavailable} :
                   tool' = [tool EXCEPT !.reads = Append(@, text),
                                        !.pc = IF i = Len(plan) THEN "compare" ELSE "read"]
           ELSE \E text \in Shown(plan[i]) :
                   IF text.line \in {"oversize", "not UTF-8"} THEN Exit("failure")
                   ELSE tool' = [tool EXCEPT !.reads = Append(@, text),
                                             !.pc = IF i = Len(plan) THEN "compare" ELSE "read"]
        /\ UNCHANGED <<arguments, board, link>>

(* The open fails: no driver, no such path, or the device is in use.       *)
CannotOpen ==
    /\ tool.pc \in {"read", "open"}
    /\ Exit("failure")
    /\ UNCHANGED <<arguments, board, link>>

Stable ==
    LET half == Half(tool.config.command)
    IN  SubSeq(tool.reads, 1, half) = SubSeq(tool.reads, half + 1, 2 * half)

Parsed(i) ==
    ParseRecord(IF Reads(tool.config.command)[i] = "contract" THEN ContractFields ELSE ActivationFields,
                tool.reads[i])

ValidateCompiledContract(contract) == \A f \in ContractFields : contract[f] = Compiled[f]


ValidateActivation(contract, activation) ==
    /\ activation["state"] = Active /\ activation["error"] = Success
    /\ IF contract["activation_required"] = 1
       THEN /\ activation["driver_outcome"] # NotRequired
            /\ activation["attempts"] # 0 /\ activation["request_id"] # 0
       ELSE /\ activation["driver_outcome"] = NotRequired
            /\ activation["attempts"] = 0 /\ activation["request_id"] = 0

(* read_stable_attribute, read_control_state, validate_control_state, and  *)
(* the line that is printed.                                               *)
Compare ==
    /\ tool.pc = "compare"
    /\ \E printed \in {[i \in 1 .. Half(tool.config.command) |-> Parsed(i)]} :
          IF ~Stable \/ \E i \in DOMAIN printed : ~printed[i].ok THEN Exit("failure")
          ELSE IF tool.config.command # "check"
          THEN tool' = [tool EXCEPT !.report = printed, !.pc = "ended", !.exit = "ok"]
          ELSE IF ValidateCompiledContract(printed[1].fields)
                  /\ ValidateActivation(printed[1].fields, printed[2].fields)
          THEN tool' = [tool EXCEPT !.report = printed, !.reads = <<>>, !.pc = "open"]
          ELSE Exit("failure")
    /\ UNCHANGED <<arguments, board, link>>

-----------------------------------------------------------------------------
(* DeviceTransport::exchange and RpmsgEcho::echo.                          *)

Ask == tool.asks[tool.next]

Open ==
    /\ tool.pc = "open" /\ board.loaded
    /\ {"--device", "--rpmsg-device"} \cap tool.config.given = {}
    /\ Goto("write")
    /\ \E late \in {<<>>, <<Payload(MaxSize, Pattern)>>, <<Payload(1, 0)>>}, writable \in BOOLEAN :
          link' = [link EXCEPT !.late = IF Ask.channel = "echo" THEN late ELSE <<>>,
                               !.writable = writable]
    /\ UNCHANGED <<arguments, board>>

Write ==
    /\ tool.pc = "write" /\ link.writable
    /\ Goto("await")
    /\ link' = [link EXCEPT !.request = <<Ask>>]
    /\ UNCHANGED <<arguments, board>>

(* Variant: only the answer is waited for with a deadline.                 *)
DeadlineAnswer ==
    /\ tool.pc = "await"
    /\ Exit("failure")
    /\ UNCHANGED <<arguments, board, link>>

(* wait_for: the deadline passed, or the device reports a terminal event.  *)
Deadline ==
    /\ tool.pc \in {"write", "await"}
    /\ Exit("failure")
    /\ UNCHANGED <<arguments, board, link>>

(* Variant: the buffer is as long as the largest payload.                  *)
ReadSizeExact == MaxSize

ReadSize == MaxSize + 1

(* The checks of echo, and those of request, abi, capabilities and ping;   *)
(* only check compares the first two answers with what it was built for.   *)
Matches(reply) ==
    IF Ask.channel = "echo"
    THEN /\ (IF reply.size < ReadSize THEN reply.size ELSE ReadSize) = Ask.size
         /\ reply.marker = Ask.marker
    ELSE /\ reply.op = Ask.op
         /\ Ask.op = "ping" => reply.value = Ask.value
         /\ tool.config.command = "check" /\ Ask.op = "abi" => reply.value = Compiled["abi"]
         /\ tool.config.command = "check" /\ Ask.op = "caps" =>
               reply.value = Compiled["final_capabilities"]

IsBenchmark(command) == command \in {"bench", "rpmsg-bench", "rpmsg-stress"}

(* The answer, its latency, and the next request or the end.               *)
Read(duration) ==
    LET reply == Head(link.replies)
        samples == Append(tool.samples, duration)
    IN  /\ tool.pc = "await" /\ link.replies # <<>>
        /\ link' = [link EXCEPT !.replies = Tail(@)]
        /\ IF ~Matches(reply) THEN Exit("failure")
           ELSE LET after == [tool EXCEPT !.next = @ + 1, !.accepted = Append(@, reply),
                                !.samples = IF IsBenchmark(tool.config.command) THEN samples ELSE @]
                IN  tool' = IF tool.next < Len(tool.asks) THEN [after EXCEPT !.pc = "write"]
                            ELSE [after EXCEPT !.pc = "ended", !.exit = "ok",
                                   !.report = IF IsBenchmark(tool.config.command)
                                              THEN FromSamples(samples) ELSE @]
        /\ UNCHANGED <<arguments, board>>

-----------------------------------------------------------------------------
(* External: the board.                                                    *)

Response(request) ==
    [request EXCEPT !.value = CASE request.op = "abi" -> board.contract["abi"]
                                [] request.op = "caps" -> board.contract["final_capabilities"]
                                [] OTHER -> request.value]

(* An answer: right, or one that belongs to an earlier process, or one of  *)
(* a faulty echo service.                                                  *)
Answers(ask) ==
    IF ask.channel = "control"
    THEN {Response(ask)} \cup (IF ask.op = "ping" THEN {[ask EXCEPT !.value = CheckPing]} ELSE {})
    ELSE {ask, [ask EXCEPT !.size = @ + 1], [ask EXCEPT !.size = @ - 1], [ask EXCEPT !.marker = Wrong]}

Answer ==
    /\ board.alive /\ link.request # <<>>
    /\ \E reply \in Answers(link.request[1]) :
          link' = [link EXCEPT !.request = <<>>, !.replies = Append(@, reply)]
    /\ UNCHANGED <<arguments, tool, board>>

(* The late echo to an earlier invocation, once this one has opened.       *)
LateEcho ==
    /\ link.late # <<>> /\ tool.pc \in {"write", "await"}
    /\ link' = [link EXCEPT !.late = <<>>, !.replies = @ \o link.late]
    /\ UNCHANGED <<arguments, tool, board>>

MakeRoom ==
    /\ board.alive /\ ~link.writable /\ tool.pc = "write"
    /\ link' = [link EXCEPT !.writable = TRUE]
    /\ UNCHANGED <<arguments, tool, board>>

(* The board's changes matter while its own records are read, and later.   *)
Reading == tool.pc = "read" /\ "--sysfs" \notin tool.config.given

Publish ==
    /\ Reading /\ board.alive
    /\ board' = [board EXCEPT !.publishing = ~@]
    /\ UNCHANGED <<arguments, tool, link>>

(* The firmware panics, or the driver's module is removed, which an open   *)
(* device prevents.                                                        *)
Lost ==
    /\ Reading \/ tool.pc \in {"open", "write", "await"}
    /\ \/ board.alive /\ board' = [board EXCEPT !.alive = FALSE, !.publishing = FALSE]
       \/ /\ board.loaded /\ tool.pc \in {"read", "open"}
          /\ board' = [board EXCEPT !.loaded = FALSE]
    /\ UNCHANGED <<arguments, tool, link>>

ToolStep ==
    \/ Start \/ ReadAttribute \/ CannotOpen \/ Compare \/ Open \/ Write
    \/ \E duration \in Durations : Read(duration)

Next == ToolStep \/ Deadline \/ Answer \/ LateEcho \/ MakeRoom \/ Publish \/ Lost

(* The process runs, and its deadlines pass; nothing is asked of the board. *)
Spec == Init /\ [][Next]_vars /\ WF_vars(ToolStep) /\ WF_vars(Deadline)

-----------------------------------------------------------------------------
(* parse_arguments: every command line means what its options, values and  *)
(* positional arguments say, whatever order they come in and whatever an   *)
(* option's value looks like.                                              *)
ArgumentsExact ==
    tool.pc = "arguments" => ParseArguments(arguments) = Meant(arguments)

Names(text) == {text.entries[i].name : i \in DOMAIN text.entries}

(* A sysfs record is accepted iff it is one terminated line that holds     *)
(* every field once and each in the one canonical form, in any order; what *)
(* is printed reads back as the same record, and a record that changed     *)
(* between the two reads is never printed.                                 *)
RecordsExact ==
    /\ tool.pc = "compare" /\ tool.config.command # "check" =>
          \A i \in 1 .. Half(tool.config.command) :
              LET text == tool.reads[i]
                  fields == IF Reads(tool.config.command)[i] = "contract"
                            THEN ContractFields ELSE ActivationFields
              IN  Parsed(i).ok <=>
                     /\ text.line = "ended"
                     /\ Names(text) = fields /\ Len(text.entries) = Cardinality(fields)
                     /\ \A e \in DOMAIN text.entries :
                           ParseValue(text.entries[e].name, text.entries[e].text)
    /\ tool.exit = "ok" /\ tool.config.command \in {"contract", "activation"} =>
          LET order == IF tool.config.command = "contract" THEN ContractOrder ELSE ActivationOrder
              printed == Format(order, tool.report[1].fields)
          IN  /\ ParseRecord(ToSet(order), printed) = tool.report[1]
              /\ \A read \in ToSet(tool.reads) : ToSet(read.entries) = ToSet(printed.entries)


(* Success of rpmsg-check, rpmsg-bench and rpmsg-stress: every datagram    *)
(* was exactly the one sent, however long the reply was and whatever else  *)
(* arrived; stress tried the sizes in turn; and the percentiles are those  *)
(* of the samples.                                                         *)
EchoTruthful ==
    tool.exit = "ok" /\ tool.asks # <<>> /\ tool.asks[1].channel = "echo" =>
        /\ tool.accepted = tool.asks
        /\ IsBenchmark(tool.config.command) =>
              /\ Len(tool.samples) = tool.config.count
              /\ IsPercentile(tool.samples, 50, tool.report.p50)
              /\ IsPercentile(tool.samples, 99, tool.report.p99)
              /\ IsPercentile(tool.samples, 100, tool.report.max)
        /\ tool.config.command = "rpmsg-stress" =>
              {tool.accepted[i].size : i \in DOMAIN tool.accepted}
              = 1 .. (IF tool.config.count < MaxSize THEN tool.config.count ELSE MaxSize)

(* However the board fails, the tool ends: every wait has a deadline.      *)
ToolEnds == <>(tool.pc = "ended")

=============================================================================
