----------------------------- MODULE Activation -----------------------------
(***************************************************************************)
(* Boot, contract check and lease activation.                              *)
(*                                                                         *)
(* The C906L firmware boots (c906l_rust_main, publish_manifest_with,       *)
(* control_task) and then handles activation requests (activation.rs).     *)
(* The Linux control driver probes: it reads the status and the manifest   *)
(* word by word between two equal copies of the status, prepares the       *)
(* board, writes a request record in shared DDR, sends its identifier      *)
(* through the mailbox, and waits for the answer with a deadline,          *)
(* polling the status as well.                                             *)
(*                                                                         *)
(* The contract (profile, digest, masks) is the same on both sides, so the *)
(* records are reduced to generation, identifier and commit word.  The     *)
(* mailbox is two queues whose words may stay undelivered for ever.        *)
(***************************************************************************)
EXTENDS Naturals, Sequences

CONSTANTS MaxGeneration,   \* bound on the boots that keep the DDR contents
          MaxBinds,        \* bound on the times Linux loads the driver in a boot
          MaxId,           \* the request identifiers are 1 .. MaxId
          SequenceModulus, \* the envelope carries the identifier modulo this (2^16)
          MaxAttempts,     \* stands for u16::MAX, where the counter saturates
          Boards,          \* the boards: "picoclaw" needs the LCD preparation, "plain" does not
          Retaining,       \* those whose DDR contents can survive a reset
          Failing          \* those where the manifest readback, the start or the firmware can fail

ASSUME ActivationAssumption ==
    /\ {MaxGeneration, MaxBinds, MaxId, SequenceModulus, MaxAttempts} \subseteq Nat \ {0}
    /\ Boards \subseteq {"picoclaw", "plain"} /\ Boards # {}
    /\ Retaining \subseteq Boards /\ Failing \subseteq Boards

Ids == 1 .. MaxId

(* The results of handle(); the contract mismatches cannot occur.          *)
Rejections == {"INVALID_ENVELOPE", "MALFORMED_RECORD", "STALE_GENERATION"}
Results == Rejections \cup {"SUCCESS", "INVALID_STATE", "LEASE_FAILURE", "INTERNAL_FAILURE"}

ActivationStates == {"INITIALIZING", "DORMANT", "VALIDATING", "ACTIVATING",
                     "ACTIVE", "REJECTED", "LEASE_FAULT"}

(* The status cacheline, by the 8-byte words in which Linux reads it.      *)
Status == [life : {"BOOTING", "RUNNING", "FAULT"},
           identity : [generation : 0 .. MaxGeneration,
                       flags : SUBSET {"REJECTED", "FAILED"}],
           capabilities : {"none", "dormant", "expected"},
           activation : [state : ActivationStates, error : Results,
                         attempts : 0 .. MaxAttempts, id : 0 .. MaxId]]

Manifest == [generation : 0 .. MaxGeneration, commit : BOOLEAN]

Record == [generation : 0 .. MaxGeneration, id : 0 .. MaxId, commit : BOOLEAN]

NoManifest == [generation |-> 0, commit |-> FALSE]
NoRecord == [generation |-> 0, id |-> 0, commit |-> FALSE]

(* The request record spans two cachelines; the commit word ends it.       *)
Lines == {{"generation", "id"}, {"commit"}}

(* zero_status with the header words of the panic handler.                 *)
ZeroStatus ==
    [life |-> "FAULT", identity |-> [generation |-> 0, flags |-> {}],
     capabilities |-> "none",
     activation |-> [state |-> "INITIALIZING", error |-> "SUCCESS",
                     attempts |-> 0, id |-> 0]]

InitialStatus(g) ==
    [ZeroStatus EXCEPT !.life = "BOOTING", !.identity.generation = g,
                       !.capabilities = "dormant"]

(* The order in which sg2002_read_contract_snapshot reads.                 *)
StatusWords == <<"life", "identity", "capabilities", "activation">>
ManifestWords == <<"generation", "commit">>

Scan == [copy : {"before", "first", "second", "after"}, word : 1 .. 5,
         before : Status, first : Manifest, second : Manifest, after : Status]

NoScan == [copy |-> "before", word |-> 1, before |-> ZeroStatus,
           first |-> NoManifest, second |-> NoManifest, after |-> ZeroStatus]

VARIABLES
    \* shared DDR
    status,       \* status cacheline, written by the firmware
    manifest,     \* manifest, written by the firmware at boot
    record,       \* activation request, written by Linux
    \* firmware
    fpc,          \* where the boot code or the control task is
    own,          \* the task's local Status
    envelope,     \* the identifier of the mailbox word being handled
    snaps,        \* the two snapshots of the record
    lines,        \* cachelines the snapshot in progress has yet to read
    accepted,     \* accepted_request
    reply,        \* the result to send
    \* mailbox
    inbox,        \* identifiers on their way to the firmware
    outbox,       \* responses on their way to Linux
    \* Linux control driver
    lpc,          \* where the probe is
    scan,         \* the contract snapshot being read
    id,           \* the request identifier
    words,        \* words of the record memcpy_toio has yet to write
    expired,      \* the response deadline has passed
    pending,      \* ctl->request_pending
    response,     \* ctl->response when ctl->response_ready, else "none"
    got,          \* response_result when got_response, else "none"
    result,       \* what the probe returned
    outcome,      \* ctl->activation_outcome
    held,         \* picoclaw_lcd.prepared, with the clocks it retains
    pads,         \* where the Ethernet pads are routed, "none" on a plain board
    binds,        \* probes so far in this boot
    \* history of this boot
    grants,       \* identifiers for which the leased hardware was touched
    stood         \* identifiers committed at some time since the envelope was taken

memory == <<status, manifest, record>>
firmware == <<fpc, own, envelope, snaps, lines, accepted, reply>>
mailbox == <<inbox, outbox>>
call == <<scan, id, words, expired, pending, response, got>>
driver == <<lpc, call, result, outcome, held, pads, binds>>
history == <<grants, stood>>
vars == <<memory, firmware, mailbox, driver, history>>

(* The board does not change: only a PicoClaw has pads to reroute.         *)
Pads(board) == IF board = "picoclaw" THEN "ethernet" ELSE "none"
Board == IF pads = "none" THEN "plain" ELSE "picoclaw"

TypeOK ==
    /\ status \in Status
    /\ manifest \in Manifest
    /\ record \in Record
    /\ fpc \in {"revoke", "body", "commit", "start", "receive", "first", "second",
                "check", "activate", "respond", "halted"}
    /\ own \in Status
    /\ envelope \in 0 .. MaxId
    /\ snaps \in [{"first", "second"} -> Record]
    /\ lines \subseteq Lines
    /\ accepted \in Record
    /\ reply \in Results
    /\ inbox \in Seq(Ids)
    /\ outbox \in Seq([sequence : 0 .. SequenceModulus - 1, result : Results])
    /\ lpc \in {"unbound", "contract", "acquire", "route", "choose", "revoke", "copy", "commit",
                "send", "turn", "poll", "final", "register", "bound", "diagnostics"}
    /\ pads \in {"none", "ethernet", "partial", "lcd"}
    /\ scan \in Scan
    /\ id \in 0 .. MaxId
    /\ words \subseteq {"generation", "id"}
    /\ {expired, pending, held} \subseteq BOOLEAN
    /\ {response, got} \subseteq Results \cup {"none"}
    /\ result \in {"none", "EAGAIN", "EREMOTEIO", "EPROTO", "ETIMEDOUT", "OTHER"}
    /\ outcome \in {"none", "ALREADY_ACTIVE", "COMPLETED", "RECOVERED", "FAILED_RETAINED"}
    /\ binds \in 0 .. MaxBinds
    /\ grants \in Seq(Ids)
    /\ stood \subseteq Ids

-----------------------------------------------------------------------------
(* Firmware boot.                                                          *)

(* Publish the local status: one cacheline, cleaned at once.               *)
Publish(s) ==
    /\ own' = s
    /\ status' = s

(* A failed readback or start is published and the boot code spins.        *)
BootFault ==
    /\ Publish([own EXCEPT !.life = "FAULT", !.activation.error = "INTERNAL_FAILURE"])
    /\ fpc' = "halted"

(* publish_manifest_with: revoke the old commit, write the body, commit.   *)
RevokeManifest ==
    /\ fpc = "revoke"
    /\ manifest' = [manifest EXCEPT !.commit = FALSE]
    /\ fpc' = "body"
    /\ UNCHANGED <<status, record, own, envelope, snaps, lines, accepted, reply,
                   mailbox, driver, history>>

WriteManifest ==
    /\ fpc = "body"
    /\ manifest' = [generation |-> own.identity.generation, commit |-> FALSE]
    /\ fpc' = "commit"
    /\ UNCHANGED <<status, record, own, envelope, snaps, lines, accepted, reply,
                   mailbox, driver, history>>

CommitManifest ==
    /\ fpc = "commit"
    /\ manifest' = [manifest EXCEPT !.commit = TRUE]
    /\ fpc' = "start"
    /\ UNCHANGED <<status, record, own, envelope, snaps, lines, accepted, reply,
                   mailbox, driver, history>>

(* The manifest readback fails, or c906l_platform_start returns.           *)
FailBoot ==
    /\ Board \in Failing
    /\ fpc = "start"
    /\ BootFault
    /\ UNCHANGED <<manifest, record, envelope, snaps, lines, accepted, reply,
                   mailbox, driver, history>>

(* The start of control_task.                                              *)
StartControl ==
    /\ fpc = "start"
    /\ Publish([own EXCEPT !.life = "RUNNING", !.activation.state = "DORMANT"])
    /\ fpc' = "receive"
    /\ UNCHANGED <<manifest, record, envelope, snaps, lines, accepted, reply,
                   mailbox, driver, history>>

-----------------------------------------------------------------------------
(* Firmware activation: handle().                                          *)

(* saturating_add(1).                                                      *)
Increment(attempts) == IF attempts = MaxAttempts THEN attempts ELSE attempts + 1

(* The states from which a new request is validated.                       *)
OpenStates == {"DORMANT", "REJECTED"}

(* An envelope is taken from the queue.  A lease fault is terminal; a      *)
(* request in the ACTIVE state is only compared with the accepted one; any *)
(* other starts a validation, published before the record is read.         *)
Receive ==
    /\ fpc = "receive"
    /\ inbox # <<>>
    /\ inbox' = Tail(inbox)
    /\ envelope' = Head(inbox)
    /\ stood' = IF record.commit THEN {record.id} ELSE {}
    /\ \/ /\ own.activation.state \in OpenStates
          /\ Publish([own EXCEPT !.activation =
                        [state |-> "VALIDATING", error |-> "SUCCESS",
                         attempts |-> Increment(@.attempts), id |-> Head(inbox)]])
          /\ fpc' = "first" /\ lines' = Lines
          /\ UNCHANGED reply
       \/ /\ own.activation.state = "ACTIVE"
          /\ fpc' = "first" /\ lines' = Lines
          /\ UNCHANGED <<status, own, reply>>
       \/ /\ own.activation.state \notin OpenStates \cup {"ACTIVE"}
          /\ fpc' = "respond" /\ reply' = "INVALID_STATE"
          /\ UNCHANGED <<status, own, lines>>
    /\ UNCHANGED <<manifest, record, snaps, accepted, outbox, driver, grants>>

(* read_pair: two snapshots, a cacheline at a time.                        *)
ReadLine(n, next) ==
    \E l \in lines :
       /\ snaps' = [snaps EXCEPT ![n] =
                      [w \in DOMAIN @ |-> IF w \in l THEN record[w] ELSE @[w]]]
       /\ IF lines = {l}
          THEN fpc' = next /\ lines' = IF next = "second" THEN Lines ELSE {}
          ELSE UNCHANGED fpc /\ lines' = lines \ {l}

ReadRecord ==
    /\ \/ fpc = "first" /\ ReadLine("first", "second")
       \/ fpc = "second" /\ ReadLine("second", "check")
    /\ UNCHANGED <<memory, own, envelope, accepted, reply, mailbox, driver, history>>

(* Variant: an uncommitted record is validated too.                        *)
ValidateUncommitted(r) ==
    IF r.id = 0 THEN "MALFORMED_RECORD"
    ELSE IF r.generation # own.identity.generation THEN "STALE_GENERATION"
    ELSE IF r.id # envelope THEN "INVALID_ENVELOPE"
    ELSE "SUCCESS"

(* validate_record and the comparison with the envelope.                   *)
Validate(r) ==
    IF r.id = 0 \/ ~r.commit THEN "MALFORMED_RECORD"
    ELSE IF r.generation # own.identity.generation THEN "STALE_GENERATION"
    ELSE IF r.id # envelope THEN "INVALID_ENVELOPE"
    ELSE "SUCCESS"

Verdict ==
    IF snaps["first"] # snaps["second"] THEN "MALFORMED_RECORD" ELSE Validate(snaps["first"])

(* reject(): base services stay up and a later request may be accepted.    *)
Reject(r) ==
    Publish([own EXCEPT !.activation.state = "REJECTED", !.activation.error = r,
                        !.capabilities = "dormant", !.identity.flags = @ \cup {"REJECTED"}])

NoSnaps == [n \in {"first", "second"} |-> NoRecord]

CheckRecord ==
    /\ fpc = "check"
    /\ own.activation.state = "VALIDATING"
    /\ IF Verdict = "SUCCESS"
       THEN /\ Publish([own EXCEPT !.activation.state = "ACTIVATING"])
            /\ fpc' = "activate"
            /\ UNCHANGED <<snaps, reply>>
       ELSE /\ Reject(Verdict)
            /\ fpc' = "respond"
            /\ reply' = Verdict
            /\ snaps' = NoSnaps
    /\ UNCHANGED <<manifest, record, envelope, lines, accepted, mailbox, driver, history>>

(* A repetition of the accepted request is answered SUCCESS again.         *)
CheckReplay ==
    /\ fpc = "check"
    /\ own.activation.state = "ACTIVE"
    /\ reply' = IF /\ snaps["first"] = snaps["second"]
                   /\ snaps["first"] = accepted
                   /\ accepted.id = envelope
                THEN "SUCCESS" ELSE "INVALID_STATE"
    /\ fpc' = "respond"
    /\ snaps' = NoSnaps
    /\ UNCHANGED <<memory, own, envelope, lines, accepted, mailbox, driver, history>>

(* leases.activate(): the leased hardware is touched here and only here.   *)
(* A failure is terminal for the boot.                                     *)
Activate ==
    /\ fpc = "activate"
    /\ grants' = Append(grants, snaps["first"].id)
    /\ \/ /\ Publish([own EXCEPT !.activation.state = "ACTIVE",
                                 !.activation.error = "SUCCESS",
                                 !.capabilities = "expected"])
          /\ accepted' = snaps["first"]
          /\ reply' = "SUCCESS"
       \/ /\ Publish([own EXCEPT !.activation.state = "LEASE_FAULT",
                                 !.activation.error = "LEASE_FAILURE",
                                 !.capabilities = "dormant",
                                 !.identity.flags = @ \cup {"FAILED"}])
          /\ reply' = "LEASE_FAILURE"
          /\ UNCHANGED accepted
    /\ snaps' = NoSnaps
    /\ fpc' = "respond"
    /\ UNCHANGED <<manifest, record, envelope, lines, mailbox, driver, stood>>

(* The response is sent, or given up after its retries.                    *)
Respond ==
    /\ fpc = "respond"
    /\ outbox' \in {outbox, Append(outbox, [sequence |-> envelope % SequenceModulus,
                                            result |-> reply])}
    /\ fpc' = "receive"
    /\ envelope' = 0
    /\ reply' = "SUCCESS"
    /\ stood' = {}
    /\ UNCHANGED <<memory, own, snaps, lines, accepted, inbox, driver, grants>>

Panic ==
    /\ Board \in Failing
    /\ fpc # "halted"
    /\ fpc' = "halted"
    /\ status' = [ZeroStatus EXCEPT !.activation.error = "INTERNAL_FAILURE"]
    /\ UNCHANGED <<manifest, record, own, envelope, snaps, lines, accepted, reply,
                   mailbox, driver, history>>

-----------------------------------------------------------------------------
(* Linux control driver.                                                   *)

(* mbox_free_channel: a word the controller had deferred is discarded.     *)
FreeChannel ==
    \/ UNCHANGED inbox
    \/ /\ inbox # <<>> /\ inbox[Len(inbox)] = id
       /\ inbox' = SubSeq(inbox, 1, Len(inbox) - 1)

EndCall ==
    /\ scan' = NoScan
    /\ words' = {}
    /\ expired' = FALSE
    /\ pending' = FALSE
    /\ response' = "none"
    /\ got' = "none"

(* Variant: a failed probe always releases what it acquired.               *)
NeverRetained == FALSE

(* Once the board is prepared a failing probe keeps it and stays bound.    *)
RetainBoard == held

(* The probe fails with e.                                                 *)
FailProbe(e) ==
    /\ EndCall
    /\ result' = e
    /\ IF RetainBoard
       THEN /\ lpc' = "diagnostics"
            /\ outcome' = "FAILED_RETAINED"
            /\ UNCHANGED <<held, inbox>>
       ELSE /\ lpc' = "unbound"
            /\ outcome' = "none"
            /\ held' = FALSE
            /\ FreeChannel

(* The driver is loaded, or a deferred probe runs again.                   *)
Probe ==
    /\ lpc = "unbound"
    /\ binds < MaxBinds
    /\ binds' = binds + 1
    /\ lpc' = "contract"
    /\ result' = "none"
    /\ id' = 0
    /\ UNCHANGED <<memory, firmware, mailbox, scan, words, expired, pending, response,
                   got, outcome, held, pads, history>>

(* One 8-byte word of sg2002_read_contract_snapshot.                       *)
ReadWord ==
    LET c == scan.copy
        wide == c \in {"before", "after"}
        order == IF wide THEN StatusWords ELSE ManifestWords
        source == IF wide THEN status ELSE manifest
        last == scan.word = Len(order)
        next == CASE c = "before" -> "first" [] c = "first" -> "second" [] OTHER -> "after"
    IN /\ lpc \in {"contract", "poll", "final"}
       /\ scan.word <= Len(order)
       /\ scan' = [scan EXCEPT ![c][order[scan.word]] = source[order[scan.word]],
                               !.word = IF last /\ c # "after" THEN 1 ELSE @ + 1,
                               !.copy = IF last THEN next ELSE @]
       /\ UNCHANGED <<memory, firmware, mailbox, lpc, id, words, expired, pending, response,
                      got, result, outcome, held, pads, binds, history>>

ScanComplete == lpc \in {"contract", "poll", "final"} /\ scan.copy = "after" /\ scan.word = 5

(* Variant: the first copy of the status is not compared.                  *)
SingleStatus ==
    IF \/ scan.first # scan.second
       \/ scan.first.generation # scan.after.identity.generation
       \/ scan.after.life = "BOOTING"
    THEN "EAGAIN"
    ELSE IF scan.after.life # "RUNNING" THEN "EREMOTEIO"
    ELSE IF ~scan.first.commit THEN "EPROTO"
    ELSE "none"

(* The result of sg2002_read_contract_snapshot.                            *)
Contract ==
    IF \/ scan.first # scan.second
       \/ scan.before # scan.after
       \/ scan.first.generation # scan.after.identity.generation
       \/ scan.after.life = "BOOTING"
    THEN "EAGAIN"
    ELSE IF scan.after.life # "RUNNING" THEN "EREMOTEIO"
    ELSE IF ~scan.first.commit THEN "EPROTO"
    ELSE "none"

(* A heartbeat between the two copies of the status also makes them differ.*)
SnapshotResults == {"EAGAIN", Contract}

(* sg2002_validate_active, for a profile that requires activation.         *)
ValidateActive(s) ==
    /\ s.activation.state = "ACTIVE"
    /\ s.activation.error = "SUCCESS"
    /\ s.activation.attempts # 0
    /\ s.activation.id # 0
    /\ "FAILED" \notin s.identity.flags
    /\ s.capabilities = "expected"

(* sg2002_validate_activation_source.                                      *)
ValidateActivationSource(s) ==
    /\ s.capabilities = "dormant"
    /\ \/ /\ s.activation.state = "DORMANT"
          /\ s.activation.error = "SUCCESS"
          /\ s.activation.attempts = 0
          /\ s.activation.id = 0
          /\ s.identity.flags = {}
       \/ /\ s.activation.state = "REJECTED"
          /\ s.activation.attempts # 0
          /\ s.activation.error \in Rejections
          /\ s.activation.id # 0 \/ s.activation.error = "INVALID_ENVELOPE"
          /\ s.identity.flags = {"REJECTED"}

(* The contract matches: take the mailbox channel, which may fail.  The    *)
(* EAGAIN of a snapshot defers the probe.                                  *)
CheckContract ==
    /\ lpc = "contract" /\ ScanComplete
    /\ \E r \in SnapshotResults :
          \/ /\ r # "none"
             /\ FailProbe(r)
          \/ /\ r = "none"
             /\ FailProbe("OTHER")
          \/ /\ r = "none"
             /\ lpc' = IF Board = "picoclaw" THEN "acquire" ELSE "choose"
             /\ UNCHANGED <<scan, words, expired, pending, response, got, result, outcome,
                            held, inbox>>
    /\ UNCHANGED <<memory, firmware, outbox, pads, id, binds, history>>

(* The clocks, resets and apertures of the board: a failure releases them. *)
AcquireBoard ==
    /\ lpc = "acquire"
    /\ \/ FailProbe("OTHER")
       \/ /\ lpc' = "route"
          /\ UNCHANGED <<scan, words, expired, pending, response, got, result, outcome,
                         held, inbox>>
    /\ UNCHANGED <<memory, firmware, outbox, pads, id, binds, history>>

(* The pads are rerouted one register at a time; a failed readback leaves  *)
(* some of them changed.                                                   *)
RouteBoard ==
    /\ lpc = "route"
    /\ \/ /\ pads' = "partial"
          /\ FailProbe("OTHER")
       \/ /\ pads' = "lcd"
          /\ held' = TRUE
          /\ lpc' = "choose"
          /\ UNCHANGED <<scan, words, expired, pending, response, got, result, outcome, inbox>>
    /\ UNCHANGED <<memory, firmware, outbox, id, binds, history>>

(* The firmware is active already, or a request is prepared from the       *)
(* snapshot; any other state fails the probe.                              *)
ChooseRequest ==
    /\ lpc = "choose"
    /\ \/ /\ ValidateActive(scan.after)
          /\ outcome' = "ALREADY_ACTIVE"
          /\ lpc' = "register"
          /\ EndCall
          /\ UNCHANGED <<id, result, held, inbox>>
       \/ /\ ~ValidateActive(scan.after)
          /\ ~ValidateActivationSource(scan.after)
          /\ FailProbe("EAGAIN")
          /\ UNCHANGED id
       \/ /\ ~ValidateActive(scan.after)
          /\ ValidateActivationSource(scan.after)
          /\ \E random \in 0 .. MaxId : id' = IF random = 0 THEN 1 ELSE random
          /\ lpc' = "revoke"
          /\ UNCHANGED <<scan, words, expired, pending, response, got, result, outcome,
                         held, inbox>>
    /\ UNCHANGED <<memory, firmware, outbox, pads, binds, history>>

(* sg2002_write_activation_request: revoke, body, commit, with barriers.   *)
RevokeRecord ==
    /\ lpc = "revoke"
    /\ record' = [record EXCEPT !.commit = FALSE]
    /\ lpc' = "copy"
    /\ words' = {"generation", "id"}
    /\ UNCHANGED <<status, manifest, firmware, mailbox, scan, id, expired, pending, response,
                   got, result, outcome, held, pads, binds, history>>

CopyRecordWord ==
    /\ lpc = "copy"
    /\ \E w \in words :
          /\ record' = [record EXCEPT ![w] = IF w = "id" THEN id
                                             ELSE scan.after.identity.generation]
          /\ words' = words \ {w}
          /\ lpc' = IF words = {w} THEN "commit" ELSE "copy"
    /\ UNCHANGED <<status, manifest, firmware, mailbox, scan, id, expired, pending, response,
                   got, result, outcome, held, pads, binds, history>>

CommitRecord ==
    /\ lpc = "commit"
    /\ record' = [record EXCEPT !.commit = TRUE]
    /\ stood' = IF envelope # 0 THEN stood \cup {id} ELSE stood
    /\ lpc' = "send"
    /\ scan' = NoScan
    /\ UNCHANGED <<status, manifest, firmware, mailbox, id, words, expired, pending, response,
                   got, result, outcome, held, pads, binds, grants>>

(* mbox_send_message queues the word, or refuses it.                       *)
Send ==
    /\ lpc = "send"
    /\ \/ /\ inbox' = Append(inbox, id)
          /\ pending' = TRUE
          /\ lpc' = "turn"
          /\ UNCHANGED <<scan, words, expired, response, got, result, outcome, held>>
       \/ FailProbe("OTHER")
    /\ UNCHANGED <<memory, firmware, outbox, id, pads, binds, history>>

(* sg2002_c906l_receive: a response is matched by its 16-bit sequence.     *)
Callback ==
    /\ outbox # <<>>
    /\ outbox' = Tail(outbox)
    /\ IF pending /\ Head(outbox).sequence = id % SequenceModulus
       THEN response' = Head(outbox).result /\ pending' = FALSE
       ELSE UNCHANGED <<response, pending>>
    /\ UNCHANGED <<memory, firmware, inbox, lpc, scan, id, words, expired, got, result,
                   outcome, held, pads, binds, history>>

Expire ==
    /\ lpc \in {"turn", "poll", "final"}
    /\ ~expired
    /\ expired' = TRUE
    /\ UNCHANGED <<memory, firmware, mailbox, lpc, scan, id, words, pending, response, got,
                   result, outcome, held, pads, binds, history>>

(* The head of the waiting loop: take the response, then look at the       *)
(* status.                                                                 *)
Turn ==
    /\ lpc = "turn"
    /\ got' = IF response # "none" THEN response ELSE got
    /\ response' = "none"
    /\ lpc' = "poll"
    /\ UNCHANGED <<memory, firmware, mailbox, scan, id, words, expired, pending, result,
                   outcome, held, pads, binds, history>>

(* Variant: any ACTIVE status completes the request.                       *)
AnyRequest(s) == s.activation.state = "ACTIVE"

(* The status reports this request.                                        *)
ThisRequest(s) == s.activation.state = "ACTIVE" /\ s.activation.id = id

(* sg2002_activation_terminal: "none" is success.                          *)
Terminal(r, recover) ==
    IF r # "none" THEN r
    ELSE IF got \notin {"none", "SUCCESS"} THEN "EREMOTEIO"
    ELSE IF ThisRequest(scan.after)
         THEN IF ~ValidateActive(scan.after) THEN "EAGAIN"
              ELSE IF got = "none" /\ ~recover THEN "EINPROGRESS" ELSE "none"
    ELSE IF scan.after.activation.state \in {"REJECTED", "LEASE_FAULT"} THEN "EREMOTEIO"
    ELSE "EINPROGRESS"

Finish ==
    /\ outcome' = IF got = "none" THEN "RECOVERED" ELSE "COMPLETED"
    /\ lpc' = "register"
    /\ EndCall
    /\ UNCHANGED <<result, held, inbox>>

(* Variant: the deadline is never noticed.                                 *)
NeverTimedOut == FALSE

TimedOut == expired

(* A turn of the waiting loop ends.                                        *)
Evaluate ==
    /\ lpc = "poll" /\ ScanComplete
    /\ \E r \in SnapshotResults :
          LET t == Terminal(r, FALSE)
          IN \/ t = "none" /\ Finish
             \/ t \notin {"none", "EAGAIN", "EINPROGRESS"} /\ FailProbe(t)
             \/ /\ t \in {"EAGAIN", "EINPROGRESS"}
                /\ lpc' = IF TimedOut THEN "final" ELSE "turn"
                /\ scan' = NoScan
                /\ UNCHANGED <<words, expired, pending, response, got, result, outcome, held,
                               inbox>>
    /\ UNCHANGED <<memory, firmware, outbox, id, pads, binds, history>>

(* The last look, which may recover from a lost response.                  *)
EvaluateFinal ==
    /\ lpc = "final" /\ ScanComplete
    /\ \E r \in SnapshotResults :
          LET t == Terminal(r, TRUE)
          IN \/ t = "none" /\ Finish
             \/ t # "none" /\ FailProbe(IF t \in {"EAGAIN", "EINPROGRESS"} THEN "ETIMEDOUT"
                                        ELSE t)
    /\ UNCHANGED <<memory, firmware, outbox, id, pads, binds, history>>

(* misc_register and sysfs_create_group.  When one fails, a prepared board *)
(* stays bound without that interface.                                     *)
Register ==
    /\ lpc = "register"
    /\ \/ lpc' = "bound" /\ UNCHANGED <<outcome, result, inbox>>
       \/ /\ ~RetainBoard
          /\ lpc' = "unbound" /\ outcome' = "none" /\ result' = "OTHER" /\ FreeChannel
    /\ UNCHANGED <<memory, firmware, outbox, call, held, pads, binds, history>>

(* The module is unloaded, which a prepared board's reference prevents.    *)
Unload ==
    /\ lpc = "bound"
    /\ ~RetainBoard
    /\ lpc' = "unbound"
    /\ outcome' = "none"
    /\ FreeChannel
    /\ UNCHANGED <<memory, firmware, outbox, call, result, held, pads, binds, history>>

-----------------------------------------------------------------------------
(* Both processors restart; initial_status is published before Linux runs. *)
Restart(g) ==
    /\ status' = InitialStatus(g)
    /\ own' = InitialStatus(g)
    /\ fpc' = "revoke"
    /\ envelope' = 0
    /\ snaps' = NoSnaps
    /\ lines' = {}
    /\ accepted' = NoRecord
    /\ reply' = "SUCCESS"
    /\ inbox' = <<>>
    /\ outbox' = <<>>
    /\ lpc' = "unbound"
    /\ EndCall
    /\ id' = 0
    /\ result' = "none"
    /\ outcome' = "none"
    /\ held' = FALSE
    /\ pads' = Pads(Board)
    /\ binds' = 0
    /\ grants' = <<>>
    /\ stood' = {}

WarmReset ==
    /\ Board \in Retaining
    /\ status.identity.generation < MaxGeneration
    /\ Restart(status.identity.generation + 1)
    /\ UNCHANGED <<manifest, record>>

ColdReset ==
    /\ Restart(1)
    /\ manifest' = NoManifest
    /\ record' = NoRecord

Init ==
    /\ status = InitialStatus(1)
    /\ own = InitialStatus(1)
    /\ manifest = NoManifest
    /\ record = NoRecord
    /\ fpc = "revoke"
    /\ envelope = 0
    /\ snaps = NoSnaps
    /\ lines = {}
    /\ accepted = NoRecord
    /\ reply = "SUCCESS"
    /\ inbox = <<>>
    /\ outbox = <<>>
    /\ lpc = "unbound"
    /\ scan = NoScan
    /\ id = 0
    /\ words = {}
    /\ expired = FALSE
    /\ pending = FALSE
    /\ response = "none"
    /\ got = "none"
    /\ result = "none"
    /\ outcome = "none"
    /\ held = FALSE
    /\ pads \in {Pads(b) : b \in Boards}
    /\ binds = 0
    /\ grants = <<>>
    /\ stood = {}

Boot == RevokeManifest \/ WriteManifest \/ CommitManifest \/ FailBoot \/ StartControl

Handle == Receive \/ ReadRecord \/ CheckRecord \/ CheckReplay \/ Activate \/ Respond

(* The steps of a probe in progress.                                       *)
ProbeStep ==
    \/ ReadWord \/ CheckContract \/ AcquireBoard \/ RouteBoard \/ ChooseRequest \/ RevokeRecord \/ CopyRecordWord
    \/ CommitRecord \/ Send \/ Turn \/ Evaluate \/ EvaluateFinal \/ Register

Next ==
    \/ Boot \/ Handle \/ Panic
    \/ Probe \/ ProbeStep \/ Callback \/ Expire \/ Unload
    \/ WarmReset \/ ColdReset

(* The kernel keeps running the probe and time passes.  Nothing is assumed *)
(* of the firmware or of the mailbox.                                      *)
Fairness == WF_vars(ProbeStep) /\ WF_vars(Expire)

Spec == Init /\ [][Next]_vars /\ Fairness

-----------------------------------------------------------------------------
(* The leased hardware is touched at most once in a boot, and only for a   *)
(* request that Linux had completely published while the firmware was      *)
(* handling its envelope: no torn, revoked or stale record authorises it,  *)
(* a failure is terminal, and a repetition of the accepted request is only *)
(* answered again (handle, read_pair).                                     *)
LeaseAuthorized ==
    [][Len(grants') > Len(grants) => grants = <<>> /\ grants'[Len(grants')] \in stood]_vars

(* A driver that reports an activation tells the truth: the firmware       *)
(* activated the leases, and for the very request the driver made, even if *)
(* another request shares its 16-bit sequence (sg2002_activation_terminal).*)
OutcomeTruthful ==
    /\ outcome \in {"COMPLETED", "RECOVERED", "ALREADY_ACTIVE"} =>
          own.activation.state = "ACTIVE"
    /\ outcome \in {"COMPLETED", "RECOVERED"} => accepted.id = id

(* While the firmware drives leased pins on a board that needs the         *)
(* preparation, Linux holds the clocks and all the pads are routed,        *)
(* whatever the probe returned (the retained branch of sg2002_c906l_probe).*)
BoardHeld == Board = "picoclaw" /\ grants # <<>> => held /\ pads = "lcd"

(* A concurrent publication is retried and never taken for a contract      *)
(* mismatch (the bracketed snapshot of sg2002_read_contract_snapshot).     *)
NeverMisdiagnosed == result # "EPROTO"

(* Every probe ends, even if the firmware is dead, the mailbox swallows    *)
(* the words and the status never reads stable.                            *)
ProbeReturns ==
    lpc \notin {"unbound", "bound", "diagnostics"} ~> lpc \in {"unbound", "bound", "diagnostics"}
=============================================================================
