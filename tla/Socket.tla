------------------------------- MODULE Socket -------------------------------
(***************************************************************************)
(* The plugin socket of socket.c: one Unix-socket client (the input        *)
(* plugin) that takes the input of a domain (VM_TAKE_FROM) and is sent     *)
(* that domain's events and device changes as fixed-size records.  Sends   *)
(* are non-blocking: each may block (EAGAIN, the record is lost), go       *)
(* through, or go through in part (the rest waits in partialBuffer for the *)
(* next send).  Device changes that cannot be sent are queued in           *)
(* dev_events; lost input events are owed a SYN_DROPPED.                   *)
(*                                                                         *)
(* As in Secure.tla, the C call chains are operators on a state record;    *)
(* a send returns the set of its possible [st, ok] outcomes, and Then      *)
(* chains a continuation over them.  The plugin's side is ghost state      *)
(* updated when a whole record arrives: the slot it believes current, the  *)
(* devices it believes configured, the slots with a lost event it was not  *)
(* yet told about, and what it saw with the last input event.              *)
(***************************************************************************)
EXTENDS Integers, Sequences, FiniteSets, SequencesExt

CONSTANTS
    Slots,           \* device slots (event%d), pointer devices
    RemovableSlots,  \* slots whose device may be unplugged
    Requests,        \* the records the plugin may send
    MaxBatch         \* records read by one recv

Invalid == -2        \* INPUTSLOT_INVALID
All == 255           \* DEV_RESET 0xFF: every device

ASSUME Slots \subseteq 0..63 /\ RemovableSlots \subseteq Slots

RequestKinds == {"TAKE", "TAKE_BAD", "SEND_TO", "SEND_TO_BAD", "BADCODE",
                 "EVENT"}
ASSUME Requests \subseteq RequestKinds

\* the records of the wire: v is a slot; an input event carries the slot
\* it belongs to
Rec(k, v) == [k |-> k, v |-> v]
NoRec == Rec("NONE", 0)
RecKinds == {"SET", "DROPPED", "EV", "CONF", "RESET", "RESETALL", "ERROR"}

\* what the plugin saw with an input event: read under another slot;
\* received while a lost event was not yet reported
NoSeen == [wrong |-> FALSE, gap |-> FALSE]

VARIABLES
    conn, peer,             \* buffers.s # -1; the plugin process alive
    dPlugin, src, dest,     \* d->plugin of the domain; plug->src; plug->dest
    slot, dropped, slotDropped, delayed, resetall, queue, error,
    mem, fault,             \* what dev_events points at; a heap fault
    present, types,         \* devices open (fds[]); input_dev.types[] set
    pSlot, pDevs, owed, seen   \* the plugin's side (ghost)

vars == <<conn, peer, dPlugin, src, dest, slot, dropped, slotDropped,
          delayed, resetall, queue, error, mem, fault, present, types,
          pSlot, pDevs, owed, seen>>

S == [conn |-> conn, peer |-> peer, dPlugin |-> dPlugin, src |-> src,
      dest |-> dest, slot |-> slot, dropped |-> dropped,
      slotDropped |-> slotDropped, delayed |-> delayed,
      resetall |-> resetall, queue |-> queue, error |-> error, mem |-> mem,
      fault |-> fault, present |-> present, types |-> types,
      pSlot |-> pSlot, pDevs |-> pDevs, owed |-> owed,
      seen |-> seen]

Commit(r) ==
    /\ conn' = r.conn /\ peer' = r.peer /\ dPlugin' = r.dPlugin
    /\ src' = r.src /\ dest' = r.dest /\ slot' = r.slot
    /\ dropped' = r.dropped /\ slotDropped' = r.slotDropped
    /\ delayed' = r.delayed /\ resetall' = r.resetall /\ queue' = r.queue
    /\ error' = r.error /\ mem' = r.mem /\ fault' = r.fault
    /\ present' = r.present /\ types' = r.types /\ pSlot' = r.pSlot
    /\ pDevs' = r.pDevs /\ owed' = r.owed /\ seen' = r.seen

DevEntry == [slot : Slots, add : BOOLEAN, remove : BOOLEAN]

TypeOK ==
    /\ conn \in BOOLEAN /\ peer \in BOOLEAN
    /\ dPlugin \in BOOLEAN /\ src \in BOOLEAN /\ dest \in BOOLEAN
    /\ slot \in Slots \cup {Invalid}
    /\ dropped \in BOOLEAN /\ slotDropped \in BOOLEAN
    /\ delayed \in [k : RecKinds, v : Slots \cup {0, All}] \cup {NoRec}
    /\ resetall \in BOOLEAN /\ error \in BOOLEAN
    /\ queue \in Seq(DevEntry) /\ Len(queue) <= Cardinality(Slots)
    /\ mem \in {"null", "live", "freed"} /\ fault \in BOOLEAN
    /\ present \subseteq types /\ types \subseteq Slots
    /\ pSlot \in Slots \cup {Invalid} /\ pDevs \subseteq Slots
    /\ owed \in BOOLEAN /\ seen \in [wrong : BOOLEAN, gap : BOOLEAN]

\* a continuation over every outcome of a step
Then(R, F(_)) == UNION {F(r) : r \in R}

-----------------------------------------------------------------------------
(* The plugin receiving a whole record                                     *)

Deliver(s, r) ==
    CASE r.k = "SET" -> [s EXCEPT !.pSlot = r.v]
      [] r.k = "DROPPED" -> [s EXCEPT !.owed = FALSE]
      [] r.k = "EV" -> [s EXCEPT !.seen = [wrong |-> r.v # s.pSlot,
                                           gap |-> s.owed]]
      [] r.k = "CONF" -> [s EXCEPT !.pDevs = @ \cup {r.v}]
      [] r.k = "RESET" -> [s EXCEPT !.pDevs = IF r.v = All THEN {} ELSE @ \ {r.v}]
      [] r.k = "RESETALL" -> [s EXCEPT !.pDevs = {}]
      [] r.k = "ERROR" -> s

\* an input event of slot sl not sent: the plugin is owed a SYN_DROPPED
Lost(s, sl) == [s EXCEPT !.owed = TRUE]

-----------------------------------------------------------------------------
(* dev_events and the connection                                           *)

\* free(dev_events) in kill_connection: the pointer is left dangling
Free(s) ==
    CASE s.mem = "freed" -> [s EXCEPT !.fault = TRUE]
      [] s.mem = "live" -> [s EXCEPT !.mem = "freed"]
      [] OTHER -> s

\* a read, write or realloc of dev_events
Touch(s) == IF s.mem = "freed" THEN [s EXCEPT !.fault = TRUE] ELSE s

\* kill_connection: stop reading, close, detach the source domain, free
\* the queue (deq_size is left as it is)
Kill(s) ==
    Free([s EXCEPT !.conn = FALSE, !.src = FALSE,
                   !.dPlugin = IF s.src THEN FALSE ELSE @])

\* send_to_plugin(plug, r) with send_delayed_to_plugin: the rest of a
\* partial record goes first; EAGAIN loses the record; any other error
\* (EPIPE from a dead plugin, EBADF on the closed socket) kills the
\* connection, after which send_to_plugin still returns true unless it was
\* flushing a partial record
Send(s, r) ==
    IF s.fault THEN {[st |-> s, ok |-> FALSE]}
    ELSE IF ~s.conn \/ ~s.peer
    THEN {[st |-> Kill(s), ok |-> s.delayed = NoRec]}
    ELSE LET ready == IF s.delayed = NoRec THEN {s}
                      ELSE {Deliver([s EXCEPT !.delayed = NoRec], s.delayed)}
         IN (IF s.delayed = NoRec THEN {} ELSE {[st |-> s, ok |-> FALSE]})
            \cup UNION {{[st |-> t, ok |-> FALSE],
                         [st |-> Deliver(t, r), ok |-> TRUE],
                         [st |-> [t EXCEPT !.delayed = r], ok |-> TRUE]}
                        : t \in ready}
-----------------------------------------------------------------------------
(* The device-event queue                                                  *)

\* the index of slot sl's entry in dev_events, 0 when it has none
EntryOf(s, sl) ==
    IF \E i \in 1..Len(s.queue) : s.queue[i].slot = sl
    THEN CHOOSE i \in 1..Len(s.queue) : s.queue[i].slot = sl
    ELSE 0

\* realloc(dev_events, deq_size + 1) with the new entry at the end
Append1(s, e) ==
    LET t == Touch(s)
    IN IF t.fault THEN t
       ELSE [t EXCEPT !.queue = Append(@, e), !.mem = "live"]

\* mutant of AddQueueConf: a new entry without looking for the slot's own
AddQueueConfAppend(s, sl) ==
    Append1(IF s.queue = <<>> THEN s ELSE Touch(s),
            [slot |-> sl, add |-> TRUE, remove |-> FALSE])

\* add_queue_dev_event_conf: mark the slot's entry, or append one
AddQueueConf(s, sl) ==
    LET t == IF s.queue = <<>> THEN s ELSE Touch(s)
        i == EntryOf(t, sl)
    IN IF t.fault THEN t
       ELSE IF i > 0 THEN [t EXCEPT !.queue[i].add = TRUE]
       ELSE Append1(t, [slot |-> sl, add |-> TRUE, remove |-> FALSE])

\* add_queue_dev_event_reset: 0xFF sets resetall; a pending add of the
\* slot is cancelled, otherwise a remove is marked or appended
AddQueueReset(s, sl) ==
    LET t == IF s.queue = <<>> THEN s ELSE Touch(s)
        i == EntryOf(t, sl)
    IN IF sl = All THEN [s EXCEPT !.resetall = TRUE]
       ELSE IF t.fault THEN t
       ELSE IF i > 0 THEN IF t.queue[i].add
                          THEN [t EXCEPT !.queue[i].add = FALSE]
                          ELSE [t EXCEPT !.queue[i].remove = TRUE]
       ELSE Append1(t, [slot |-> sl, add |-> FALSE, remove |-> TRUE])

\* flush_queued_dev_events: from the last entry to the first, its reset
\* then its conf; the first failed send stops the flush; each entry done
\* is dropped by realloc (to NULL when none is left)
RECURSIVE Flush(_)
Flush(s) ==
    IF s.queue = <<>> THEN {[st |-> s, ok |-> TRUE]}
    ELSE IF s.mem = "freed" THEN {[st |-> Touch(s), ok |-> FALSE]}
    ELSE
      LET i == Len(s.queue)
          Done(t) ==
              LET u == Touch(t)
              IN IF u.fault THEN {[st |-> u, ok |-> FALSE]}
                 ELSE Flush([u EXCEPT !.queue = SubSeq(@, 1, i - 1),
                                      !.mem = IF i = 1 THEN "null" ELSE "live"])
          AddPart(t) ==
              IF ~t.queue[i].add THEN Done(t)
              ELSE Then(Send(t, Rec("CONF", t.queue[i].slot)),
                        LAMBDA r : IF ~r.ok THEN {r}
                                   ELSE LET u == Touch(r.st)
                                        IN IF u.fault THEN {[st |-> u, ok |-> FALSE]}
                                           ELSE Done([u EXCEPT !.queue[i].add = FALSE]))
      IN IF ~s.queue[i].remove THEN AddPart(s)
         ELSE Then(Send(s, Rec("RESET", s.queue[i].slot)),
                   LAMBDA r : IF ~r.ok THEN {r}
                              ELSE LET u == Touch(r.st)
                                   IN IF u.fault THEN {[st |-> u, ok |-> FALSE]}
                                      ELSE AddPart([u EXCEPT !.queue[i].remove = FALSE]))

-----------------------------------------------------------------------------
(* Sending device changes (send_plugin_dev_event)                          *)

\* send_plugin_dev_event(plug, code, v): a pending reset-all is sent in
\* place of the record, after the queue is flushed; 0xFF empties the
\* queue instead; a record that is not sent is queued; after a reset-all
\* goes out the call repeats itself for the record it was asked to send
RECURSIVE DevEvent(_, _, _)
DevEvent(s, code, v) ==
    LET er == IF s.resetall THEN Rec("RESETALL", All) ELSE Rec(code, v)
        pre == IF code = "RESET" /\ v = All
               THEN {[st |-> [Touch(s) EXCEPT !.queue = <<>>, !.mem = "null"],
                      ok |-> TRUE]}
               ELSE IF s.queue # <<>> THEN Flush(s)
               ELSE {[st |-> s, ok |-> TRUE]}
        Enqueue(t) == IF code = "CONF" THEN AddQueueConf(t, v)
                      ELSE AddQueueReset(t, v)
    IN Then(pre,
         LAMBDA p : IF ~p.ok THEN {Enqueue(p.st)}
                    ELSE Then(Send(p.st, er),
                           LAMBDA r : IF ~r.ok THEN {Enqueue(r.st)}
                                      ELSE IF r.st.resetall
                                      THEN DevEvent([r.st EXCEPT !.resetall = FALSE],
                                                    code, v)
                                      ELSE {r.st}))

\* sock_plugin_sendconfig: reset-all, then a conf for every slot whose
\* input_dev.types[] entry is a pointer device, in slot order
SendConfig(s) ==
    LET RECURSIVE Confs(_, _)
        Confs(t, q) == IF q = <<>> THEN {t}
                       ELSE Then(DevEvent(t, "CONF", Head(q)),
                                 LAMBDA u : Confs(u, Tail(q)))
    IN Then(DevEvent(s, "RESET", All),
            LAMBDA t : Confs(t, SetToSortSeq(s.types, <)))

-----------------------------------------------------------------------------
(* Sending input events (send_plugin_event)                                *)

\* mutant of SendSlot: the DEV_SET clears dropped instead of taking over
\* slot_dropped
SendSlotNoCarry(s, sl) ==
    LET SetSlot(t) ==
            Then(Send(t, Rec("SET", sl)),
                 LAMBDA r : IF r.ok
                            THEN {[r.st EXCEPT !.slot = sl, !.dropped = FALSE,
                                               !.slotDropped = FALSE]}
                            ELSE {[r.st EXCEPT !.slotDropped = TRUE]})
    IN IF ~s.dropped THEN SetSlot(s)
       ELSE Then(Send(s, Rec("DROPPED", 0)),
                 LAMBDA r : IF r.ok THEN SetSlot([r.st EXCEPT !.dropped = FALSE])
                            ELSE {[r.st EXCEPT !.slotDropped = TRUE]})

\* send_slot: a SYN_DROPPED owed for the old slot first (on failure the
\* slot change is given up and remembered in slot_dropped); then DEV_SET,
\* after which dropped takes over slot_dropped
SendSlot(s, sl) ==
    LET SetSlot(t) ==
            Then(Send(t, Rec("SET", sl)),
                 LAMBDA r : IF r.ok
                            THEN {[r.st EXCEPT !.slot = sl,
                                               !.dropped = r.st.slotDropped,
                                               !.slotDropped = FALSE]}
                            ELSE {[r.st EXCEPT !.slotDropped = TRUE]})
    IN IF ~s.dropped THEN SetSlot(s)
       ELSE Then(Send(s, Rec("DROPPED", 0)),
                 LAMBDA r : IF r.ok THEN SetSlot([r.st EXCEPT !.dropped = FALSE])
                            ELSE {[r.st EXCEPT !.slotDropped = TRUE]})

\* send_plugin_event(d, sl, e): a pending error, a pending reset-all and
\* the queue go first (if one cannot be sent, the event is lost: cantsend);
\* then the slot, an owed SYN_DROPPED, and the event
PluginEvent(s, sl) ==
    LET CantSend(t) ==
            Lost(IF t.slot # sl THEN [t EXCEPT !.slotDropped = TRUE]
                 ELSE [t EXCEPT !.dropped = TRUE], sl)
        Event(u) ==
            Then(Send(u, Rec("EV", sl)),
                 LAMBDA r : IF r.ok THEN {r.st}
                            ELSE {Lost([r.st EXCEPT !.dropped = TRUE], sl)})
        Owed(u) ==
            IF ~u.dropped THEN Event(u)
            ELSE Then(Send(u, Rec("DROPPED", 0)),
                      LAMBDA r : IF r.ok THEN Event([r.st EXCEPT !.dropped = FALSE])
                                 ELSE {Lost([r.st EXCEPT !.dropped = TRUE], sl)})
        Slot(t) == IF t.slot # sl THEN Then(SendSlot(t, sl), Owed) ELSE Owed(t)
        Queue(t) == IF t.queue = <<>> THEN Slot(t)
                    ELSE Then(Flush(t), LAMBDA r : IF r.ok THEN Slot(r.st)
                                                   ELSE {CantSend(r.st)})
        Reset(t) == IF ~t.resetall THEN Queue(t)
                    ELSE Then(Send(t, Rec("RESETALL", All)),
                              LAMBDA r : IF r.ok THEN Queue([r.st EXCEPT !.resetall = FALSE])
                                         ELSE {CantSend(r.st)})
    IN IF ~s.error THEN Reset(s)
       ELSE Then(Send(s, Rec("ERROR", 0)),
                 LAMBDA r : IF r.ok THEN Reset([r.st EXCEPT !.error = FALSE])
                            ELSE {CantSend(r.st)})

-----------------------------------------------------------------------------
(* The plugin's requests (wrapper_server_recv, process_event)              *)

\* send_error: an error that cannot be sent is kept in plug->error
SendError(s) ==
    Then(Send(s, Rec("ERROR", 0)),
         LAMBDA r : {IF r.ok THEN r.st ELSE [r.st EXCEPT !.error = TRUE]})

\* process_event for one record.  VM_TAKE_FROM detaches the old source
\* domain (plug->src itself is kept when the new one is not found);
\* VM_SEND_TO to a missing or PV domain clears dest; an input record is
\* passed to dest, or answered with an error without one.
ProcessEvent(s, q) ==
    LET detached == IF s.src THEN [s EXCEPT !.dPlugin = FALSE] ELSE s
    IN CASE q = "TAKE" -> SendConfig([detached EXCEPT !.dPlugin = TRUE,
                                                       !.src = TRUE])
         [] q = "TAKE_BAD" -> SendError(detached)
         [] q = "SEND_TO" -> {[s EXCEPT !.dest = TRUE]}
         [] q = "SEND_TO_BAD" -> SendError([s EXCEPT !.dest = FALSE])
         [] q = "BADCODE" -> SendError(s)
         [] q = "EVENT" -> IF s.dest THEN {s} ELSE SendError(s)

\* the records of one recv, each processed in turn whatever the earlier
\* ones did to the connection
RECURSIVE Batch(_, _)
Batch(s, b) ==
    IF b = <<>> THEN {s}
    ELSE Then(ProcessEvent(s, Head(b)), LAMBDA t : Batch(t, Tail(b)))

-----------------------------------------------------------------------------

\* the daemon is up with the server socket listening and no device yet
Init ==
    /\ conn = FALSE /\ peer = FALSE
    /\ dPlugin = FALSE /\ src = FALSE /\ dest = FALSE
    /\ slot = Invalid /\ dropped = FALSE /\ slotDropped = FALSE
    /\ delayed = NoRec /\ resetall = FALSE /\ queue = <<>> /\ error = FALSE
    /\ mem = "null" /\ fault = FALSE
    /\ present = {} /\ types = {}
    /\ pSlot = Invalid /\ pDevs = {} /\ owed = FALSE /\ seen = NoSeen

\* mutant of Accept: buffers.slot is not reset for the new client
AcceptKeepSlot ==
    /\ ~fault /\ ~conn
    /\ Commit([S EXCEPT !.conn = TRUE, !.peer = TRUE, !.src = FALSE,
                        !.dest = FALSE, !.dropped = FALSE,
                        !.slotDropped = FALSE, !.error = FALSE,
                        !.resetall = FALSE, !.queue = <<>>, !.mem = "null",
                        !.delayed = NoRec, !.pSlot = Invalid, !.pDevs = {},
                        !.owed = FALSE, !.seen = NoSeen])

\* server_accept with no client: the connection state starts afresh (the
\* domain's d->plugin is not touched), and so does the new plugin
Accept ==
    /\ ~fault /\ ~conn
    /\ Commit([S EXCEPT !.conn = TRUE, !.peer = TRUE, !.src = FALSE,
                        !.dest = FALSE, !.slot = Invalid, !.dropped = FALSE,
                        !.slotDropped = FALSE, !.error = FALSE,
                        !.resetall = FALSE, !.queue = <<>>, !.mem = "null",
                        !.delayed = NoRec, !.pSlot = Invalid, !.pDevs = {},
                        !.owed = FALSE, !.seen = NoSeen])

\* the plugin process exits; its socket end is closed
PluginExit ==
    /\ ~fault /\ conn /\ peer
    /\ peer' = FALSE
    /\ UNCHANGED <<conn, dPlugin, src, dest, slot, dropped, slotDropped,
                   delayed, resetall, queue, error, mem, fault, present,
                   types, pSlot, pDevs, owed, seen>>

\* wrapper_server_recv reading end of file (or an error)
RecvEof ==
    /\ ~fault /\ conn /\ ~peer
    /\ Commit(Kill(S))

\* the records of one or two requests arriving in one recv
Batches == UNION {[1..n -> Requests] : n \in 1..MaxBatch}

\* wrapper_server_recv reading records the plugin wrote (before it exited,
\* if it did)
Recv(b) ==
    /\ ~fault /\ conn
    /\ \E r \in Batch(S, b) : Commit(r)

\* a pointer device appears (input.c: the device is typed, then
\* broadcast_config sends DEV_CONF to the plugin of each domain)
DevAdd(sl) ==
    /\ ~fault /\ sl \notin present
    /\ LET t == [S EXCEPT !.present = @ \cup {sl}, !.types = @ \cup {sl}]
       IN IF dPlugin THEN \E r \in DevEvent(t, "CONF", sl) : Commit(r)
          ELSE Commit(t)

\* a read from the device fails (input_read): the fd is closed and
\* broadcast_removed_dev sends DEV_RESET; input_dev.types[] keeps the type
DevRemove(sl) ==
    /\ ~fault /\ sl \in present \cap RemovableSlots
    /\ LET t == [S EXCEPT !.present = @ \ {sl}]
       IN IF dPlugin THEN \E r \in DevEvent(t, "RESET", sl) : Commit(r)
          ELSE Commit(t)

\* an input event of slot sl routed to the plugin's domain (input_send)
Input(sl) ==
    /\ ~fault /\ dPlugin /\ sl \in present
    /\ \E r \in PluginEvent(S, sl) : Commit(r)

Next ==
    \/ Accept \/ PluginExit \/ RecvEof
    \/ \E b \in Batches : Recv(b)
    \/ \E sl \in Slots : DevAdd(sl) \/ DevRemove(sl) \/ Input(sl)

Spec == Init /\ [][Next]_vars

-----------------------------------------------------------------------------
(* Properties *)

\* Every input event the plugin gets arrives after a SYN_DROPPED for any
\* earlier event that was lost: send_plugin_event, send_slot and cantsend
\* carry the loss in dropped and slot_dropped across calls.
LossSignalled == ~seen.gap

\* The plugin reads every input event under the slot it came from: the
\* DEV_SET of a slot change reaches the plugin before the event.
EventsOnRightSlot == ~seen.wrong

\* Once nothing is left to send, the plugin's devices are the daemon's:
\* queued changes, a pending reset-all and a partial record all delivered.
Settled ==
    /\ conn /\ peer /\ src /\ dPlugin
    /\ ~resetall /\ delayed = NoRec
    /\ \A i \in 1..Len(queue) : ~queue[i].add /\ ~queue[i].remove

DevicesAgree == Settled => pDevs = present

\* dev_events is never used or freed after kill_connection freed it.
MemorySafe == ~fault

\* While the plugin is connected, a lost input event it was not told about
\* is never forgotten: the debt is held in dropped or slot_dropped (cantsend,
\* a failed DEV_SET, a failed event) or in a SYN_DROPPED still half sent,
\* and send_slot hands slot_dropped over to dropped when the slot changes.
LossRemembered ==
    (conn /\ owed) =>
        dropped \/ slotDropped \/ delayed.k = "DROPPED"

\* plug->slot, which send_plugin_event compares to decide whether a DEV_SET
\* is needed, is the slot the plugin last received, once no record is left
\* half sent: send_slot updates plug->slot only when the DEV_SET went out.
SlotAgrees ==
    (conn /\ delayed = NoRec) => slot = pSlot

====
