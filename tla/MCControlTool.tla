--------------------------- MODULE MCControlTool ---------------------------
(***************************************************************************)
(* A small instance of ControlTool: all command lines of up to four        *)
(* arguments of a small alphabet and all commands with up to two values,   *)
(* and sysfs records with one mistake or one unexpected value.             *)
(***************************************************************************)
EXTENDS ControlTool

MCNumerals == [n \in {"0", "1", "2", "3", "9"} |->
                 CASE n = "0" -> 0 [] n = "1" -> 1 [] n = "2" -> 2 [] n = "3" -> 3 [] OTHER -> 9]

Commands == {"check", "contract", "activation", "abi", "capabilities", "caps", "ping", "bench",
             "stress", "rpmsg-check", "rpmsg-bench", "rpmsg-stress", "bogus"}

MCArgumentLists ==
    LET few == {"check", "rpmsg-bench", "--timeout-ms", "--sysfs", "--device", End, "-h", "-x", "0", "2"}
        values == {"0", "1", "3", "9", "x"}
    IN  UNION {[1 .. n -> few] : n \in 0 .. 4}
        \cup {<<c>> : c \in Commands}
        \cup {<<c, v>> : c \in Commands, v \in values}
        \cup {<<c, v, w>> : c \in Commands, v, w \in values}
        \cup {<<"--sysfs", "x", c>> : c \in Commands}

MCContractOrder == <<"profile", "profile_id", "sha256", "epoch", "abi", "final_capabilities",
                     "dormant_capabilities", "lease_mask", "manifest_flags", "activation_required">>
MCActivationOrder == <<"driver_outcome", "state", "error", "attempts", "request_id">>

MCCompiled == [f \in ContractFields |-> 1]
Activated == [f \in ActivationFields |->
                CASE f = "driver_outcome" -> Completed [] f = "state" -> 2 [] f = "error" -> 0
                  [] OTHER -> 1]

(* Boards with the tool's contract, and with one that differs in a field.  *)
MCBoards ==
    {[contract |-> contract, activation |-> Activated, loaded |-> TRUE, alive |-> TRUE,
      publishing |-> FALSE] : contract \in {MCCompiled, [MCCompiled EXCEPT !["sha256"] = 2]}}

(* One mistake in a record.                                                *)
Edits(text) ==
    LET e == text.entries
        all == DOMAIN e
        With(entries) == [text EXCEPT !.entries = entries]
    IN  {[text EXCEPT !.line = l] : l \in {"unended", "two lines", "oversize", "not UTF-8"}}
        \cup {With(RemoveAt(e, i)) : i \in all}
        \cup {With(Append(e, e[i])) : i \in all}
        \cup {With(Reverse(e))}
        \cup {With([e EXCEPT ![i].name = "unknown"]) : i \in all}
        \cup {With([e EXCEPT ![i].text.form = "other"]) : i \in all}

MCContractTexts ==
    LET right == Format(MCContractOrder, MCCompiled)
    IN  {right} \cup Edits(right)
        \cup {Format(MCContractOrder, [MCCompiled EXCEPT ![f] = v]) : f \in ContractFields, v \in {0, 2}}

MCActivationTexts ==
    LET right == Format(MCActivationOrder, Activated)
    IN  {right, Unavailable} \cup Edits(right)
        \cup {Format(MCActivationOrder, a) :
                a \in {[Activated EXCEPT !["driver_outcome"] = o, !["state"] = s, !["error"] = r,
                                         !["attempts"] = n, !["request_id"] = i] :
                         o \in {NotRequired, RecoveredLostResponse, 9}, s \in {1, 2}, r, n, i \in {0, 1}}}

=============================================================================
