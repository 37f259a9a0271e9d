-------------------------------- MODULE Rpmsg --------------------------------
(***************************************************************************)
(* The RPMsg transport between Linux and the C906L: rpmsg.rs on the        *)
(* firmware, and on Linux the remoteproc driver                            *)
(* (sg2002-c906l-remoteproc.c) under the kernel's virtio and rpmsg cores.  *)
(*                                                                         *)
(* There are two rings.  "rx" carries messages to Linux, "tx" messages     *)
(* from Linux.  Linux makes descriptors available, the firmware returns    *)
(* them as used; each side keeps private cursors, which count modulo       *)
(* IndexLimit.  The firmware polls the rings on every tick, so a kick only *)
(* hurries it and is left out; Linux looks only when it is notified, and   *)
(* the one-word notification channel may be busy.                          *)
(*                                                                         *)
(* The virtio and rpmsg cores of Linux are not in the repository and are   *)
(* modelled from how the driver uses them.  They never give the firmware a *)
(* malformed descriptor or header; a message that gets no answer stands    *)
(* for every address without a service.                                    *)
(***************************************************************************)
EXTENDS Naturals, Sequences, SequencesExt

CONSTANTS RingSize,    \* RING_NUM
          IndexLimit,  \* ring indices wrap here (2^16)
          Kinds,       \* the addresses messages are for: "echo", "lcd" or "other"
          HaveLcd,     \* the firmware offers the LCD status service
          MaxMessage,  \* bound on the messages Linux sends
          MaxSession   \* bound on the attaches

ASSUME RpmsgAssumption ==
    /\ {RingSize, IndexLimit} \subseteq Nat \ {0}
    /\ IndexLimit % RingSize = 0 /\ IndexLimit > RingSize
    /\ Kinds \subseteq {"echo", "lcd", "other"}
    /\ HaveLcd \in BOOLEAN
    /\ {MaxMessage, MaxSession} \subseteq Nat

Rings == {"rx", "tx"}
Indices == 0 .. IndexLimit - 1
Descriptors == 0 .. RingSize - 1

Message == [kind : Kinds \cup {"announce", "announce_lcd"}, id : 0 .. MaxMessage]
Announcement(k) == [kind |-> k, id |-> 0]
Answered(m) == m.kind = "echo" \/ (HaveLcd /\ m.kind = "lcd")

VARIABLES
    \* shared memory
    driver_ok,      \* the vdev status has VIRTIO_DRIVER_OK
    avail_idx, avail,   \* of each ring: the available index and entries
    used_idx, used,     \* of each ring: the used index and entries
    buffer,             \* the message in each descriptor's buffer
    \* struct Transport
    online, announced, lcd_announced,
    available,      \* rx_available and tx_available
    used_cursor,    \* rx_used and tx_used
    pending_notifications, next_notification,
    \* one call of service
    pc,
    sending,        \* the message being sent
    rounds,         \* iterations of the drain loop
    changed,        \* the rings for which a notification is due
    \* Linux
    notified,       \* a word is in the notification channel
    lpc,            \* the remoteproc: "off", "attach", "up", "drain" or "stop"
    last_used,      \* of each ring: used entries taken so far
    free,           \* transmit descriptors not in the ring
    \* history
    sent,           \* messages sent so far
    announcements,  \* announcements received since the attach
    sessions        \* attaches so far

rings == <<driver_ok, avail_idx, avail, used_idx, used, buffer>>
transport == <<online, announced, lcd_announced, available, used_cursor,
               pending_notifications, next_notification>>
call == <<pc, sending, rounds, changed>>
linux == <<lpc, last_used, free>>
history == <<sent, announcements, sessions>>
vars == <<rings, transport, call, notified, linux, history>>

TypeOK ==
    /\ {driver_ok, online, announced, lcd_announced, notified} \subseteq BOOLEAN
    /\ {avail_idx, used_idx, available, used_cursor, last_used} \subseteq [Rings -> Indices]
    /\ {avail, used} \subseteq [Rings -> [Descriptors -> Descriptors]]
    /\ buffer \in [Rings -> [Descriptors -> Message]]
    /\ pending_notifications \subseteq {0, 1}
    /\ next_notification \in {0, 1}
    /\ pc \in {"idle", "announce", "announce_lcd", "drain", "publish", "complete", "completed",
               "notify", "flush"}
    /\ sending \in Message
    /\ rounds \in 0 .. RingSize
    /\ changed \subseteq {0, 1}
    /\ lpc \in {"off", "attach", "up", "drain", "stop"}
    /\ free \subseteq Descriptors
    /\ sent \in 0 .. MaxMessage
    /\ announcements \in Nat
    /\ sessions \in 0 .. MaxSession

None == Announcement("announce")
Zero == [r \in Rings |-> 0]
Empty == [r \in Rings |-> [d \in Descriptors |-> 0]]

Init ==
    /\ driver_ok = FALSE
    /\ avail_idx = Zero /\ avail = Empty /\ used_idx = Zero /\ used = Empty
    /\ buffer = [r \in Rings |-> [d \in Descriptors |-> None]]
    /\ online = FALSE /\ announced = FALSE /\ lcd_announced = FALSE
    /\ available = Zero /\ used_cursor = Zero
    /\ pending_notifications = {} /\ next_notification = 0
    /\ pc = "idle" /\ sending = None /\ rounds = 0 /\ changed = {}
    /\ notified = FALSE
    /\ lpc = "off" /\ last_used = Zero /\ free = {}
    /\ sent = 0 /\ announcements = 0 /\ sessions = 0

(* wrapping_add(1) on a cursor, and the ring slot a cursor selects.        *)
Inc(i) == (i + 1) % IndexLimit
Slot(i) == i % RingSize
-----------------------------------------------------------------------------
(* The firmware: one call of service.                                      *)

(* reset_for_attach.                                                       *)
ResetForAttach ==
    /\ online' = TRUE
    /\ announced' = FALSE /\ lcd_announced' = FALSE
    /\ available' = Zero /\ used_cursor' = Zero
    /\ pending_notifications' = {} /\ next_notification' = 0

(* service looks at the status byte first; an attached transport starts    *)
(* over when it was offline.                                               *)
Service ==
    /\ pc = "idle"
    /\ IF driver_ok
       THEN /\ pc' = "announce"
            /\ IF online THEN UNCHANGED transport ELSE ResetForAttach
       ELSE /\ online' = FALSE
            /\ UNCHANGED <<pc, announced, lcd_announced, available, used_cursor,
                           pending_notifications, next_notification>>
    /\ UNCHANGED <<rings, sending, rounds, changed, notified, linux, history>>

(* send, up to the publication: it needs an available receive descriptor.  *)
CanSend == available["rx"] # avail_idx["rx"]

WriteMessage(m) ==
    LET d == avail["rx"][Slot(available["rx"])] IN
    /\ buffer' = [buffer EXCEPT !["rx"][d] = m]
    /\ used' = [used EXCEPT !["rx"][Slot(used_cursor["rx"])] = d]
    /\ sending' = m
    /\ pc' = "publish"
    /\ UNCHANGED <<driver_ok, avail_idx, avail, used_idx>>

(* The announcements of the two services, the second after the first.      *)
Announce(where, m, due, next) ==
    /\ pc = where
    /\ IF due /\ CanSend
       THEN WriteMessage(m)
       ELSE pc' = next /\ UNCHANGED <<rings, sending>>
    /\ UNCHANGED <<transport, rounds, changed, notified, linux, history>>

AnnounceEcho == Announce("announce", Announcement("announce"), ~announced, "announce_lcd")
AnnounceLcd == Announce("announce_lcd", Announcement("announce_lcd"),
                        HaveLcd /\ announced /\ ~lcd_announced, "drain")

(* publish_used writes the index last; then send advances its cursors and  *)
(* the caller notes what was sent.                                         *)
Publish ==
    /\ pc = "publish"
    /\ used_idx' = [used_idx EXCEPT !["rx"] = Inc(used_cursor["rx"])]
    /\ used_cursor' = [used_cursor EXCEPT !["rx"] = Inc(@)]
    /\ available' = [available EXCEPT !["rx"] = Inc(@)]
    /\ changed' = changed \cup {0}
    /\ announced' = (announced \/ sending.kind = "announce")
    /\ lcd_announced' = (lcd_announced \/ sending.kind = "announce_lcd")
    /\ pc' = CASE sending.kind = "announce" -> "announce_lcd"
               [] sending.kind = "announce_lcd" -> "drain"
               [] OTHER -> "complete"
    /\ sending' = None
    /\ UNCHANGED <<driver_ok, avail_idx, avail, used, buffer, online,
                   pending_notifications, next_notification, rounds, notified, linux, history>>

(* The message the next transmit descriptor holds.                         *)
NextMessage == buffer["tx"][avail["tx"][Slot(available["tx"])]]


(* drain_host_messages: at most RingSize messages a call.  A message whose *)
(* answer finds no receive descriptor stays for the next call.             *)
Drain ==
    /\ pc = "drain"
    /\ IF rounds = RingSize \/ available["tx"] = avail_idx["tx"]
       THEN pc' = "notify" /\ UNCHANGED <<rings, sending>>
       ELSE IF ~Answered(NextMessage)
            THEN pc' = "complete" /\ UNCHANGED <<rings, sending>>
            ELSE IF CanSend
                 THEN WriteMessage(NextMessage)
                 ELSE pc' = "notify" /\ UNCHANGED <<rings, sending>>
    /\ UNCHANGED <<transport, rounds, changed, notified, linux, history>>

(* publish_used for the transmit ring: the entry, then the index.          *)
Complete ==
    /\ pc = "complete"
    /\ used' = [used EXCEPT !["tx"][Slot(used_cursor["tx"])] =
                                avail["tx"][Slot(available["tx"])]]
    /\ pc' = "completed"
    /\ UNCHANGED <<driver_ok, avail_idx, avail, used_idx, buffer, transport, sending, rounds,
                   changed, notified, linux, history>>

Completed ==
    /\ pc = "completed"
    /\ used_idx' = [used_idx EXCEPT !["tx"] = Inc(used_cursor["tx"])]
    /\ used_cursor' = [used_cursor EXCEPT !["tx"] = Inc(@)]
    /\ available' = [available EXCEPT !["tx"] = Inc(@)]
    /\ changed' = changed \cup {1}
    /\ rounds' = rounds + 1
    /\ pc' = "drain"
    /\ UNCHANGED <<driver_ok, avail_idx, avail, used, buffer, online, announced, lcd_announced,
                   pending_notifications, next_notification, sending, notified, linux, history>>

(* queue_notification for what changed.                                    *)
Notify ==
    /\ pc = "notify"
    /\ pending_notifications' = pending_notifications \cup changed
    /\ changed' = {} /\ rounds' = 0
    /\ pc' = "flush"
    /\ UNCHANGED <<rings, online, announced, lcd_announced, available, used_cursor,
                   next_notification, sending, notified, linux, history>>

(* The ring flush_notification tries: the next in turn that is pending.    *)
Turn == IF next_notification \in pending_notifications
        THEN next_notification ELSE 1 - next_notification

(* Variant: a notification that could not be sent is not kept.             *)
FlushForgetting ==
    /\ pc = "flush"
    /\ pc' = "idle"
    /\ pending_notifications' = pending_notifications \ {Turn}
    /\ \/ /\ pending_notifications # {} /\ ~notified
          /\ notified' = TRUE
          /\ next_notification' = 1 - Turn
       \/ UNCHANGED <<next_notification, notified>>
    /\ UNCHANGED <<rings, online, announced, lcd_announced, available, used_cursor,
                   sending, rounds, changed, linux, history>>

(* flush_notification: one word, kept for the next call when the channel   *)
(* is busy or its lock is missed.                                          *)
Flush ==
    /\ pc = "flush"
    /\ pc' = "idle"
    /\ \/ /\ pending_notifications # {} /\ ~notified
          /\ notified' = TRUE
          /\ pending_notifications' = pending_notifications \ {Turn}
          /\ next_notification' = 1 - Turn
       \/ UNCHANGED <<pending_notifications, next_notification, notified>>
    /\ UNCHANGED <<rings, online, announced, lcd_announced, available, used_cursor,
                   sending, rounds, changed, linux, history>>
-----------------------------------------------------------------------------
(* Linux.                                                                  *)

(* sg2002_validate_resource_table: the table is as the firmware wrote it.  *)
TableClean == ~driver_ok

(* The probe and sg2002_attach, then the cores: the rings are cleared,     *)
(* every receive buffer is made available, and at last the driver is       *)
(* ready.                                                                  *)
Attach ==
    /\ lpc = "off" /\ sessions < MaxSession
    /\ TableClean
    /\ lpc' = "attach"
    /\ avail_idx' = [rx |-> RingSize, tx |-> 0]
    /\ avail' = [Empty EXCEPT !["rx"] = [d \in Descriptors |-> d]]
    /\ used_idx' = Zero /\ used' = Empty /\ last_used' = Zero
    /\ free' = Descriptors
    /\ sessions' = sessions + 1 /\ announcements' = 0
    /\ UNCHANGED <<driver_ok, buffer, transport, call, notified, sent>>

DriverOk ==
    /\ lpc = "attach"
    /\ lpc' = "up"
    /\ driver_ok' = TRUE
    /\ UNCHANGED <<avail_idx, avail, used_idx, used, buffer, transport, call, notified,
                   last_used, free, history>>

(* A client sends a message through a free transmit buffer.                *)
Send(kind) ==
    /\ lpc \in {"up", "drain", "stop"} /\ sent < MaxMessage
    /\ \E d \in free :
          /\ buffer' = [buffer EXCEPT !["tx"][d] = [kind |-> kind, id |-> sent + 1]]
          /\ avail' = [avail EXCEPT !["tx"][Slot(avail_idx["tx"])] = d]
          /\ free' = free \ {d}
    /\ avail_idx' = [avail_idx EXCEPT !["tx"] = Inc(@)]
    /\ sent' = sent + 1
    /\ UNCHANGED <<driver_ok, used_idx, used, transport, call, notified, lpc, last_used,
                   announcements, sessions>>

(* The rpmsg core takes back the transmit buffers that were used.          *)
Reclaim ==
    /\ lpc \in {"up", "drain"} /\ last_used["tx"] # used_idx["tx"]
    /\ free' = free \cup {used["tx"][Slot(last_used["tx"])]}
    /\ last_used' = [last_used EXCEPT !["tx"] = Inc(@)]
    /\ UNCHANGED <<rings, transport, call, notified, lpc, history>>

(* sg2002_mbox_receive: the word is acknowledged and, unless the driver is *)
(* shutting down, the rings are looked at.                                 *)
Notified ==
    /\ notified /\ lpc # "drain"
    /\ notified' = FALSE
    /\ lpc' = IF lpc = "up" THEN "drain" ELSE lpc
    /\ UNCHANGED <<rings, transport, call, last_used, free, history>>

(* Every used receive buffer is delivered and made available again.        *)
Delivered == buffer["rx"][used["rx"][Slot(last_used["rx"])]]

Receive ==
    /\ lpc = "drain"
    /\ IF last_used["rx"] = used_idx["rx"]
       THEN /\ lpc' = "up"
            /\ UNCHANGED <<avail, avail_idx, last_used, announcements>>
       ELSE /\ last_used' = [last_used EXCEPT !["rx"] = Inc(@)]
            /\ avail' = [avail EXCEPT !["rx"][Slot(avail_idx["rx"])] =
                                          used["rx"][Slot(last_used["rx"])]]
            /\ avail_idx' = [avail_idx EXCEPT !["rx"] = Inc(@)]
            /\ announcements' = announcements +
                   IF Delivered.kind = "announce" THEN 1 ELSE 0
            /\ UNCHANGED lpc
    /\ UNCHANGED <<driver_ok, used_idx, used, buffer, transport, call, notified, free,
                   sent, sessions>>

(* sg2002_disable_notifications takes the vdev offline ...                 *)
Stop ==
    /\ lpc \in {"up", "drain"}
    /\ lpc' = "stop"
    /\ driver_ok' = FALSE
    /\ UNCHANGED <<avail_idx, avail, used_idx, used, buffer, transport, call, notified,
                   last_used, free, history>>

(* ... and sleeps for four ticks of the firmware's scheduler: its polling  *)
(* task has seen the status and is between two calls.                      *)
Settled == ~online /\ pc = "idle"

(* sg2002_unregister_rproc detaches and forgets the rings.                 *)
Detach ==
    /\ lpc = "stop" /\ Settled
    /\ lpc' = "off"
    /\ free' = {}
    /\ UNCHANGED <<rings, transport, call, notified, last_used, history>>

Firmware ==
    \/ Service \/ AnnounceEcho \/ AnnounceLcd \/ Publish \/ Drain \/ Complete \/ Completed
    \/ Notify \/ Flush

Linux ==
    \/ Attach \/ DriverOk \/ (\E k \in Kinds : Send(k)) \/ Reclaim \/ Notified \/ Receive
    \/ Stop \/ Detach

Next == Firmware \/ Linux

(* The polling task runs on, a notification succeeds sooner or later when  *)
(* it is tried again and again, and Linux takes its interrupts.            *)
Fairness ==
    /\ WF_vars(Firmware)
    /\ SF_vars(Flush /\ notified')
    /\ WF_vars(Notified) /\ WF_vars(Receive)

Spec == Init /\ [][Next]_vars
FairSpec == Spec /\ Fairness
-----------------------------------------------------------------------------
(* Properties.                                                             *)

Distance(from, to) == (to + IndexLimit - from) % IndexLimit

(* The messages waiting in each ring, oldest first.                        *)
Waiting(r, from, to, ring) ==
    [i \in 1 .. Distance(from, to) |-> buffer[r][ring[Slot(from + i - 1)]]]

Attached == lpc \in {"up", "drain"}

(* Answers published and not delivered, then messages not answered.        *)
InFlight ==
    IF ~Attached THEN <<>>
    ELSE LET cursor == IF online THEN available["tx"] ELSE 0
             from == IF pc \in {"complete", "completed"} /\ Answered(NextMessage)
                     THEN Inc(cursor) ELSE cursor
         IN  SelectSeq(Waiting("rx", last_used["rx"], used_idx["rx"], used["rx"]), Answered)
             \o SelectSeq(Waiting("tx", from, avail_idx["tx"], avail["tx"]), Answered)

Echo == INSTANCE EchoService WITH Messages <- Message, attached <- Attached,
                                  inflight <- InFlight


(* After an attach the service is announced, and whatever the firmware     *)
(* publishes is delivered, unless Linux detaches: a notification that      *)
(* could not be sent is kept and sent by a later call.                     *)
Served ==
    Attached ~> ~Attached \/ (announcements > 0 /\ last_used["rx"] = used_idx["rx"])
=============================================================================
