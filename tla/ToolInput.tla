----------------------------- MODULE ToolInput -----------------------------
(***************************************************************************)
(* What the control tool (tools/sg2002-c906l-ctl) makes of its input: the  *)
(* arguments (parse_arguments of src/main.rs), the records the driver      *)
(* shows in sysfs and the latency samples (src/lib.rs), each next to a     *)
(* definition of what it should be.                                        *)
(*                                                                         *)
(* A number's text is a name with a value in Numerals.  A record is a line *)
(* of entries; the text of a value is the value and how it is written.     *)
(***************************************************************************)
EXTENDS Integers, Sequences, FiniteSets, SequencesExt

CONSTANTS Numerals,                      \* texts parse_integer accepts, with their values
          DefaultTimeout, MaxTimeout,    \* milliseconds
          DefaultCount, MaxCount,        \* exchanges of a benchmark
          MaxSize,                       \* bytes of an RPMsg payload, also the default
          CheckPing, MaxPing             \* the value a check sends, and the largest of a u32

Paths == {"--device", "--rpmsg-device", "--sysfs"}
Options == Paths \cup {"--timeout-ms"}
Help == {"-h", "--help"}
End == "--"
Dashed == Options \cup Help \cup {End, "-x"}

(* parse_integer.                                                          *)
Invalid == -1
ParseInteger(text) == IF text \in DOMAIN Numerals THEN Numerals[text] ELSE Invalid

-----------------------------------------------------------------------------
(* parse_arguments.                                                        *)

Usage(verdict) == [verdict |-> verdict, command |-> "none", value |-> 0, count |-> 0, size |-> 0,
                   given |-> {}]

(* The optional number at a position, within its limits.                   *)
Number(positional, i, default, low, high) ==
    LET value == IF i > Len(positional) THEN default ELSE ParseInteger(positional[i])
    IN  IF value \in low .. high THEN value ELSE Invalid

(* The command, the number of its values, and their limits.                *)
Command(positional, given) ==
    LET name == IF positional = <<>> THEN "check" ELSE positional[1]
        config == [Usage("run") EXCEPT !.given = given,
                     !.command = CASE name = "caps" -> "capabilities"
                                   [] name = "stress" -> "bench"
                                   [] OTHER -> name]
        values == Len(positional) - 1
        count == Number(positional, 2, DefaultCount, 1, MaxCount)
        Size(i) == Number(positional, i, MaxSize, 1, MaxSize)
        Checked(c, numbers) == IF Invalid \in numbers THEN Usage("error") ELSE c
    IN  CASE name \in {"check", "contract", "activation", "abi", "capabilities", "caps"}
             /\ values <= 0 -> config
          [] name = "ping" /\ values <= 1 ->
                LET value == Number(positional, 2, CheckPing, 0, MaxPing)
                IN  Checked([config EXCEPT !.value = value], {value})
          [] name \in {"bench", "stress", "rpmsg-stress"} /\ values <= 1 ->
                Checked([config EXCEPT !.count = count], {count})
          [] name = "rpmsg-check" /\ values <= 1 ->
                Checked([config EXCEPT !.size = Size(2)], {Size(2)})
          [] name = "rpmsg-bench" /\ values <= 2 ->
                Checked([config EXCEPT !.count = count, !.size = Size(3)], {count, Size(3)})
          [] OTHER -> Usage("error")

Finish(positional, given, timeout) ==
    IF timeout \in 1 .. MaxTimeout THEN Command(positional, given) ELSE Usage("error")

(* Variant: only the option is stepped over, not its value.                *)
TakenOnce(acc, option, value) ==
    [acc EXCEPT !.index = @ + 1,
                !.given = IF option \in Paths THEN @ \cup {option} ELSE @,
                !.timeout = IF option \in Paths THEN @ ELSE ParseInteger(value)]

(* take_value, and the step over the value.                                *)
Taken(acc, option, value) ==
    [acc EXCEPT !.index = @ + 2,
                !.given = IF option \in Paths THEN @ \cup {option} ELSE @,
                !.timeout = IF option \in Paths THEN @ ELSE ParseInteger(value)]

RECURSIVE Scan(_, _)
Scan(arguments, acc) ==
    LET i == acc.index
        argument == arguments[i]
    IN  IF acc.timeout = Invalid THEN Usage("error")
        ELSE IF i > Len(arguments) THEN Finish(acc.positional, acc.given, acc.timeout)
        ELSE IF argument \in Help THEN Usage("help")
        ELSE IF argument \in Options
             THEN IF i = Len(arguments) THEN Usage("error")
                  ELSE Scan(arguments, Taken(acc, argument, arguments[i + 1]))
        ELSE IF argument = End
             THEN Finish(acc.positional \o SubSeq(arguments, i + 1, Len(arguments)),
                         acc.given, acc.timeout)
        ELSE IF argument \in Dashed THEN Usage("error")
        ELSE Scan(arguments, [acc EXCEPT !.index = i + 1, !.positional = Append(@, argument)])

ParseArguments(arguments) ==
    Scan(arguments, [index |-> 1, positional |-> <<>>, given |-> {}, timeout |-> DefaultTimeout])

(* The same without a scan.  An argument is an option's value iff the      *)
(* options right before it are odd in number.                              *)
IsValue(arguments, i) ==
    \E k \in 1 .. i - 1 :
        /\ k % 2 = 1
        /\ \A j \in i - k .. i - 1 : arguments[j] \in Options
        /\ i - k > 1 => arguments[i - k - 1] \notin Options

(* Help wins over every error that comes later, and an error over help;    *)
(* nothing after "--" is an option; the last timeout counts; and what is   *)
(* left over are the command and its values, in order.                     *)
Meant(arguments) ==
    LET all == DOMAIN arguments
        n == Len(arguments)
        free == {i \in all : ~IsValue(arguments, i)}
        ends == {i \in free : arguments[i] = End}
        before == {i \in free : \A e \in ends : i < e}
        timeouts == {i \in before : arguments[i] = "--timeout-ms"}
        wrong == {i \in before : \/ arguments[i] \in Dashed \ (Options \cup Help)
                                 \/ arguments[i] \in Options /\ i = n
                                 \/ i \in timeouts /\ i < n /\ ParseInteger(arguments[i + 1]) = Invalid}
        helps == {i \in before : arguments[i] \in Help}
        rest == {i \in before : arguments[i] \notin Options}
                \cup {i \in all : \E e \in ends : i > e}
    IN  IF \E h \in helps : \A w \in wrong : h < w THEN Usage("help")
        ELSE IF wrong # {} THEN Usage("error")
        ELSE Finish([k \in 1 .. Cardinality(rest) |->
                        arguments[CHOOSE i \in rest : Cardinality({j \in rest : j <= i}) = k]],
                    {arguments[i] : i \in before} \cap Paths,
                    IF timeouts = {} THEN DefaultTimeout
                    ELSE ParseInteger(arguments[Max(timeouts) + 1]))

-----------------------------------------------------------------------------
(* The sysfs records.                                                      *)

ContractFields == {"profile", "profile_id", "sha256", "epoch", "abi", "final_capabilities",
                   "dormant_capabilities", "lease_mask", "manifest_flags", "activation_required"}
ActivationFields == {"driver_outcome", "state", "error", "attempts", "request_id"}

(* ActivationOutcome.                                                      *)
NotRequired == 0
AlreadyActive == 1
Completed == 2
RecoveredLostResponse == 3
Outcomes == NotRequired .. RecoveredLostResponse

Written(value) == [form |-> "canonical", value |-> value]
Rejected == [ok |-> FALSE, fields |-> <<>>]

(* The loop of parse_fields goes through: each entry is known and new.     *)
Inserted(expected, entries) ==
    \A i \in DOMAIN entries : /\ entries[i].name \in expected
                              /\ \A j \in 1 .. i - 1 : entries[j].name # entries[i].name

Collected(entries) ==
    [f \in {entries[i].name : i \in DOMAIN entries} |->
        entries[CHOOSE i \in DOMAIN entries : entries[i].name = f].text]

(* Variant: the missing fields are not looked for.                         *)
ParseFieldsLoose(expected, text) ==
    IF text.line = "ended" /\ text.entries # <<>> /\ Inserted(expected, text.entries)
    THEN [ok |-> TRUE, fields |-> Collected(text.entries)] ELSE Rejected

ParseFields(expected, text) ==
    IF /\ text.line = "ended" /\ text.entries # <<>>
       /\ Inserted(expected, text.entries)
       /\ \A f \in expected : \E i \in DOMAIN text.entries : text.entries[i].name = f
    THEN [ok |-> TRUE, fields |-> Collected(text.entries)] ELSE Rejected

(* parse_decimal, parse_fixed_hex, parse_abi, parse_digest and the         *)
(* profile's slug accept one way to write each value.                      *)
ParseValue(field, text) ==
    /\ text.form = "canonical"
    /\ field = "activation_required" => text.value \in {0, 1}
    /\ field = "driver_outcome" => text.value \in Outcomes

(* parse_contract_attribute and parse_activation_attribute.                *)
ParseRecord(expected, text) ==
    LET all == ParseFields(expected, text)
    IN  IF all.ok /\ \A f \in DOMAIN all.fields : ParseValue(f, all.fields[f])
        THEN [all EXCEPT !.fields = [f \in DOMAIN @ |-> @[f].value]]
        ELSE Rejected

(* Display for ContractIdentity and ActivationStatus, and the driver's     *)
(* contract_show and activation_show: in this order.                       *)
Format(order, fields) ==
    [line |-> "ended",
     entries |-> [i \in DOMAIN order |-> [name |-> order[i], text |-> Written(fields[order[i]])]]]

-----------------------------------------------------------------------------
(* LatencyStats::from_samples.                                             *)

NearestRank(sorted, percentile) ==
    sorted[Max({1, (Len(sorted) * percentile + 99) \div 100})]

FromSamples(samples) ==
    LET sorted == SortSeq(samples, <)
    IN  [count |-> Len(samples), p50 |-> NearestRank(sorted, 50), p99 |-> NearestRank(sorted, 99),
         max |-> Last(sorted)]

(* The smallest sample that a share of the samples does not exceed.        *)
IsPercentile(samples, percentile, value) ==
    LET Upto(v) == Cardinality({i \in DOMAIN samples : samples[i] <= v}) * 100
    IN  /\ \E i \in DOMAIN samples : samples[i] = value
        /\ Upto(value) >= percentile * Len(samples)
        /\ Upto(value - 1) < percentile * Len(samples)

=============================================================================
