---------------------------- MODULE RealtimeSync ----------------------------
(***************************************************************************)
(* Real-time sync (crates/breez-sdk/common/src/sync, the sync tables of    *)
(* crates/breez-sdk/core/src/persist/sqlite.rs and SyncedStorage): several *)
(* SDK instances of one wallet, each with its own database, exchange       *)
(* versioned records through a server.                                     *)
(*                                                                         *)
(* A client's writers queue a change and then write the relational table   *)
(* (insert_payment_metadata); its sync loop pulls, applies and pushes.  An *)
(* action is what happens between two awaits, or one transaction.  The     *)
(* server is its log: the accepted records in the order of their revision. *)
(*                                                                         *)
(* A record's data maps fields to values; a value is the number of the     *)
(* local write that produced it.                                           *)
(***************************************************************************)
EXTENDS Integers, Sequences, SequencesExt, FiniteSetsExt, Subsequences

CONSTANTS
    Client,         \* SDK instances
    Record,         \* record ids
    Field,          \* fields of a record
    Writes,         \* <<client, record, field>>: who writes what
    MaxWrites,      \* client -> bound on its local writes
    MaxEvents       \* bound on the local writes and faults taken together

(* A failed call is retried after a backoff; a crash or a missed           *)
(* notification is left until the next signal; a handler refuses a record. *)
FaultKind == {"retried", "left", "handler"}

ASSUME WritesAssumption == Writes \subseteq Client \X Record \X Field
ASSUME BoundsAssumption == MaxWrites \in [Client -> Nat] /\ MaxEvents \in Nat

VARIABLES
    log,        \* the server: accepted records, by revision
    outgoing,   \* sync_outgoing of each client, by local revision
    state,      \* sync_state: the last version of each record it has seen
    incoming,   \* sync_incoming: fetched records not yet applied
    cursor,     \* sync_revision
    rel,        \* the relational table
    writing,    \* changes queued whose relational write is still to come
    writes,     \* how many local writes there have been
    triggers,   \* messages in the push trigger channel
    note,       \* a notification is on its way from the server
    notified,   \* the pull trigger has changed
    backoff,    \* a backoff is scheduled
    pc,         \* where the sync loop is
    mode,       \* what it is pulling for
    todo,       \* incoming records it has yet to process
    overlay,    \* the pending outgoing changes it read before
    batch,      \* outgoing changes it has yet to push, with their parents
    reply,      \* the revision the server answered
    faults      \* how often each kind of fault has happened

tables == <<outgoing, state, incoming, cursor, rel>>
localVars == <<writing, writes>>
signals == <<triggers, note, notified, backoff>>
loopVars == <<pc, mode, todo, overlay, batch, reply>>
vars == <<log, tables, localVars, signals, loopVars, faults>>

-----------------------------------------------------------------------------
(* Data maps some of the fields to values. *)
IsData(d) == DOMAIN d \subseteq Field /\ \A f \in DOMAIN d : d[f] \in Nat

NoData == [f \in {} |-> 0]

(* d with the fields of e inserted *)
Overlay(d, e) == [f \in DOMAIN d \cup DOMAIN e |-> IF f \in DOMAIN e THEN e[f] ELSE d[f]]

(* A version of a record; revision 0 when there is none. *)
NoVersion == [rev |-> 0, data |-> NoData]

(* What the server holds of record r: the last accepted version. *)
Latest(r) ==
    LET revs == {i \in DOMAIN log : log[i].id = r}
    IN  IF revs = {} THEN NoVersion
        ELSE [rev |-> Max(revs), data |-> log[Max(revs)].data]

(* The bound on what the environment does. *)
EventsLeft ==
    MapThenSumSet(LAMBDA c : writes[c], Client) + MapThenSumSet(LAMBDA k : faults[k], FaultKind)
        < MaxEvents

Fault(kind) ==
    /\ EventsLeft
    /\ faults' = [faults EXCEPT ![kind] = @ + 1]

Set(var, c, v) == [var EXCEPT ![c] = v]

-----------------------------------------------------------------------------
(* No client has started yet, the tables are empty. *)
Init ==
    /\ log = <<>>
    /\ outgoing = [c \in Client |-> <<>>]
    /\ state = [c \in Client |-> [r \in Record |-> NoVersion]]
    /\ incoming = [c \in Client |-> {}]
    /\ cursor = [c \in Client |-> 0]
    /\ rel = [c \in Client |-> [r \in Record |-> NoData]]
    /\ writing = [c \in Client |-> {}]
    /\ writes = [c \in Client |-> 0]
    /\ triggers = [c \in Client |-> 0]
    /\ note = [c \in Client |-> FALSE]
    /\ notified = [c \in Client |-> FALSE]
    /\ backoff = [c \in Client |-> FALSE]
    /\ pc = [c \in Client |-> "down"]
    /\ mode = [c \in Client |-> "none"]
    /\ todo = [c \in Client |-> <<>>]
    /\ overlay = [c \in Client |-> <<>>]
    /\ batch = [c \in Client |-> <<>>]
    /\ reply = [c \in Client |-> 0]
    /\ faults = [k \in FaultKind |-> 0]

-----------------------------------------------------------------------------
(***************************************************************************)
(* Local writes.  The SDK is usable once start() has returned.             *)
(***************************************************************************)
Usable(c) == pc[c] # "down" /\ mode[c] # "start"

(* add_outgoing_change: the next number of the local queue *)
NextLocalRevision(c) ==
    1 + Max({0} \cup {outgoing[c][i].lrev : i \in DOMAIN outgoing[c]})

(* The first half of insert_payment_metadata: set_outgoing_record queues   *)
(* the change and sends the push trigger.                                  *)
SetOutgoingRecord(c, r, f) ==
    LET fields == [g \in {f} |-> writes[c] + 1]
    IN  /\ Usable(c)
        /\ <<c, r, f>> \in Writes
        /\ writes[c] < MaxWrites[c]
        /\ EventsLeft
        /\ outgoing' = [outgoing EXCEPT ![c] =
                           Append(@, [id |-> r, lrev |-> NextLocalRevision(c), fields |-> fields])]
        /\ writes' = [writes EXCEPT ![c] = @ + 1]
        /\ writing' = [writing EXCEPT ![c] = @ \cup {[id |-> r, fields |-> fields]}]
        /\ triggers' = [triggers EXCEPT ![c] = @ + 1]
        /\ UNCHANGED <<log, state, incoming, cursor, rel, note, notified, backoff, loopVars, faults>>

(* The relational write of data for record r: columns that are not set     *)
(* keep their value (COALESCE).                                            *)
WriteTo(c, r, data) == rel' = [rel EXCEPT ![c][r] = Overlay(@, data)]

(* The second half of insert_payment_metadata. *)
WriteRelational(c, w) ==
    /\ w \in writing[c]
    /\ WriteTo(c, w.id, w.fields)
    /\ writing' = [writing EXCEPT ![c] = @ \ {w}]
    /\ UNCHANGED <<log, outgoing, state, incoming, cursor, writes, signals, loopVars, faults>>

-----------------------------------------------------------------------------
(***************************************************************************)
(* The sync loop, at its select.                                           *)
(***************************************************************************)
OnNotification(c) ==
    /\ pc[c] = "idle"
    /\ notified[c]
    /\ notified' = Set(notified, c, FALSE)
    /\ mode' = Set(mode, c, "notify")
    /\ pc' = Set(pc, c, "fetch")
    /\ UNCHANGED <<log, tables, localVars, triggers, note, backoff, todo, overlay, batch, reply, faults>>

(* handle_backoff *)
OnBackoff(c) ==
    /\ pc[c] = "idle"
    /\ backoff[c]
    /\ backoff' = Set(backoff, c, FALSE)
    /\ mode' = Set(mode, c, "backoff")
    /\ pc' = Set(pc, c, "fetch")
    /\ UNCHANGED <<log, tables, localVars, triggers, note, notified, todo, overlay, batch, reply, faults>>

(* handle_push: pulls first when a notification is waiting, which it does  *)
(* not consume.                                                            *)
OnPush(c) ==
    /\ pc[c] = "idle"
    /\ triggers[c] > 0
    /\ triggers' = [triggers EXCEPT ![c] = @ - 1]
    /\ mode' = Set(mode, c, "push")
    /\ pc' = Set(pc, c, IF notified[c] THEN "fetch" ELSE "push")
    /\ UNCHANGED <<log, tables, localVars, note, notified, backoff, todo, overlay, batch, reply, faults>>

-----------------------------------------------------------------------------
(***************************************************************************)
(* pull_sync_once: list_changes and insert_incoming_records, then          *)
(* pull_sync_once_local.                                                   *)
(***************************************************************************)

(* The records of a pull still to process.  After the last one the loop    *)
(* goes on: start() has one more pull to make, the others push or end; the *)
(* trigger channel is resubscribed after the initial pull, which drops the *)
(* messages sent meanwhile.                                                *)
PullRest(c, rest, pending) ==
    /\ todo' = Set(todo, c, rest)
    /\ overlay' = Set(overlay, c, IF rest = <<>> THEN <<>> ELSE pending)
    /\ IF rest # <<>>
       THEN pc' = Set(pc, c, "record") /\ UNCHANGED <<mode, triggers>>
       ELSE /\ pc' = Set(pc, c, CASE mode[c] = "start"              -> "fetch"
                                  [] mode[c] \in {"init", "notify"} -> "idle"
                                  [] OTHER                          -> "push")
            /\ mode' = Set(mode, c, CASE mode[c] = "start"              -> "init"
                                      [] mode[c] \in {"init", "notify"} -> "none"
                                      [] OTHER                          -> mode[c])
            /\ triggers' = IF mode[c] = "init" THEN Set(triggers, c, 0) ELSE triggers

(* list_changes: the records changed since the cursor *)
Changes(c) ==
    {[id |-> r, rev |-> Latest(r).rev, data |-> Latest(r).data] :
        r \in {r \in Record : Latest(r).rev > cursor[c]}}

Fetch(c) ==
    /\ pc[c] = "fetch"
    /\ incoming' = [incoming EXCEPT ![c] = @ \cup Changes(c)]
    /\ pc' = Set(pc, c, "local")
    /\ UNCHANGED <<log, outgoing, state, cursor, rel, localVars, signals, mode, todo, overlay,
                   batch, reply, faults>>

(* A failed pull schedules a backoff only when there is something to push. *)
FetchFails(c) ==
    /\ pc[c] = "fetch"
    /\ Fault(IF mode[c] \in {"push", "backoff"} THEN "retried" ELSE "left")
    /\ pc' = Set(pc, c, "idle")
    /\ backoff' = IF mode[c] \in {"push", "backoff"} THEN Set(backoff, c, TRUE) ELSE backoff
    /\ triggers' = IF mode[c] = "init" THEN Set(triggers, c, 0) ELSE triggers
    /\ mode' = Set(mode, c, "none")
    /\ UNCHANGED <<log, tables, localVars, note, notified, todo, overlay, batch, reply>>

(* The orders in which a query sorted by revision may list the rows. *)
ByRevision(rows) ==
    {s \in SetToSeqs(rows) : \A i, j \in DOMAIN s : i < j => s[i].rev <= s[j].rev}

(* get_incoming_records and get_pending_outgoing_changes *)
ReadIncoming(c) ==
    /\ pc[c] = "local"
    /\ \E rows \in ByRevision(incoming[c]) : PullRest(c, rows, outgoing[c])
    /\ UNCHANGED <<log, tables, localVars, note, notified, backoff, batch, reply, faults>>

(* update_record_from_incoming, for a version not seen before *)
UpdateState(c) ==
    /\ pc[c] = "record"
    /\ LET i == Head(todo[c])
       IN  IF state[c][i.id].rev < i.rev
           THEN /\ state' = [state EXCEPT ![c][i.id] = [rev |-> i.rev, data |-> i.data]]
                /\ cursor' = [cursor EXCEPT ![c] = Max({@, i.rev})]
           ELSE UNCHANGED <<state, cursor>>
    /\ pc' = Set(pc, c, "apply")
    /\ UNCHANGED <<log, outgoing, incoming, rel, localVars, signals, mode, todo, overlay, batch,
                   reply, faults>>

(* The incoming data with the pending changes of the same record on top:   *)
(* each field has the value of the last change that sets it.               *)
Merged(c, i) ==
    LET setters(f) == {k \in DOMAIN overlay[c] : /\ overlay[c][k].id = i.id
                                                 /\ f \in DOMAIN overlay[c][k].fields}
    IN  [f \in DOMAIN i.data \cup {f \in Field : setters(f) # {}} |->
            IF setters(f) = {} THEN i.data[f] ELSE overlay[c][Max(setters(f))].fields[f]]

(* on_incoming_change: Completed *)
ApplyIncoming(c) ==
    /\ pc[c] = "apply"
    /\ LET i == Head(todo[c]) IN WriteTo(c, i.id, Merged(c, i))
    /\ pc' = Set(pc, c, "remove")
    /\ UNCHANGED <<log, outgoing, state, incoming, cursor, localVars, signals, mode, todo, overlay,
                   batch, reply, faults>>

(* Faulty variant: the row of a record that was not applied is deleted. *)
KeepIncomingDeletes(c) ==
    /\ pc[c] = "apply"
    /\ Fault("handler")
    /\ incoming' = [incoming EXCEPT ![c] = @ \ {Head(todo[c])}]
    /\ PullRest(c, Tail(todo[c]), overlay[c])
    /\ UNCHANGED <<log, outgoing, state, cursor, rel, localVars, note, notified, backoff, batch, reply>>

(* on_incoming_change: Deferred (a record of a newer schema), or an error; *)
(* the row stays.                                                          *)
KeepIncoming(c) ==
    /\ pc[c] = "apply"
    /\ Fault("handler")
    /\ PullRest(c, Tail(todo[c]), overlay[c])
    /\ UNCHANGED <<log, tables, localVars, note, notified, backoff, batch, reply>>

(* delete_incoming_record *)
DeleteIncoming(c) ==
    /\ pc[c] = "remove"
    /\ incoming' = [incoming EXCEPT ![c] = @ \ {Head(todo[c])}]
    /\ PullRest(c, Tail(todo[c]), overlay[c])
    /\ UNCHANGED <<log, outgoing, state, cursor, rel, localVars, note, notified, backoff, batch,
                   reply, faults>>

-----------------------------------------------------------------------------
(***************************************************************************)
(* push_sync_once                                                          *)
(***************************************************************************)

(* Faulty variant: the latest change first. *)
PendingChangesReversed(c) ==
    Reverse([i \in DOMAIN outgoing[c] |->
                [change |-> outgoing[c][i], parent |-> state[c][outgoing[c][i].id]]])

(* get_pending_outgoing_changes: each with the version it is based on *)
PendingChanges(c) ==
    [i \in DOMAIN outgoing[c] |->
        [change |-> outgoing[c][i], parent |-> state[c][outgoing[c][i].id]]]

(* The changes still to push; the loop is idle after the last one. *)
PushRest(c, rest) ==
    /\ batch' = Set(batch, c, rest)
    /\ pc' = Set(pc, c, IF rest = <<>> THEN "idle" ELSE "send")
    /\ mode' = IF rest = <<>> THEN Set(mode, c, "none") ELSE mode

(* push_sync_batch skips the records that have an incoming row. *)
ReadOutgoing(c) ==
    /\ pc[c] = "push"
    /\ PushRest(c, SelectIn(PendingChanges(c),
                            {o \in ToSet(PendingChanges(c)) :
                                \A i \in incoming[c] : i.id # o.change.id}))
    /\ UNCHANGED <<log, tables, localVars, signals, todo, overlay, reply, faults>>

(* Faulty variant: the parent's fields are left out. *)
MergeWithoutParent(o) ==
    [id |-> o.change.id, rev |-> o.parent.rev, data |-> o.change.fields]

(* OutgoingChange::merge *)
Merge(o) ==
    [id |-> o.change.id, rev |-> o.parent.rev, data |-> Overlay(o.parent.data, o.change.fields)]

(* The server accepts a record based on its latest version and tells the   *)
(* other clients that listen.                                              *)
Accept(c, record) ==
    /\ record.rev = Latest(record.id).rev
    /\ log' = Append(log, [id |-> record.id, data |-> record.data])
    /\ note' = [d \in Client |-> note[d] \/ (d # c /\ Usable(d))]

(* The error paths of handle_push and handle_backoff. *)
PushFails(c) ==
    /\ PushRest(c, <<>>)
    /\ backoff' = Set(backoff, c, TRUE)
    /\ reply' = reply

(* push_sync_record up to the reply: accepted; accepted, with the reply    *)
(* lost; never received.                                                   *)
PushRecord(c) ==
    /\ pc[c] = "send"
    /\ LET record == Merge(Head(batch[c]))
       IN  \/ /\ Accept(c, record)
              /\ reply' = Set(reply, c, Len(log'))
              /\ pc' = Set(pc, c, "complete")
              /\ UNCHANGED <<backoff, mode, batch, faults>>
           \/ Accept(c, record) /\ Fault("retried") /\ PushFails(c)
           \/ Fault("retried") /\ PushFails(c) /\ UNCHANGED <<log, note>>
    /\ UNCHANGED <<tables, localVars, triggers, notified, todo, overlay>>

(* Faulty variant: a conflict ends the push without a backoff. *)
PushConflictIgnored(c) ==
    /\ pc[c] = "send"
    /\ Head(batch[c]).parent.rev # Latest(Head(batch[c]).change.id).rev
    /\ PushRest(c, <<>>)
    /\ UNCHANGED <<log, tables, localVars, signals, todo, overlay, reply, faults>>

(* push_sync_record, the reply Conflict *)
PushConflict(c) ==
    /\ pc[c] = "send"
    /\ Head(batch[c]).parent.rev # Latest(Head(batch[c]).change.id).rev
    /\ PushFails(c)
    /\ UNCHANGED <<log, tables, localVars, triggers, note, notified, todo, overlay, faults>>

(* The queue without the row of change x. *)
WithoutChange(queue, x) ==
    SelectIn(queue, {y \in ToSet(queue) : y.id # x.id \/ y.lrev # x.lrev})

(* Faulty variant: the revision of the reply is not stored. *)
CompleteWithOldRevision(c) ==
    LET o == Head(batch[c])
    IN  /\ pc[c] = "complete"
        /\ outgoing' = [outgoing EXCEPT ![c] = WithoutChange(@, o.change)]
        /\ state' = [state EXCEPT ![c][o.change.id] = [rev |-> o.parent.rev, data |-> Merge(o).data]]
        /\ cursor' = cursor
        /\ PushRest(c, Tail(batch[c]))
        /\ reply' = Set(reply, c, 0)
        /\ UNCHANGED <<log, incoming, rel, localVars, signals, todo, overlay, faults>>

(* complete_outgoing_sync *)
CompleteOutgoingSync(c) ==
    LET o == Head(batch[c])
    IN  /\ pc[c] = "complete"
        /\ outgoing' = [outgoing EXCEPT ![c] = WithoutChange(@, o.change)]
        /\ state' = [state EXCEPT ![c][o.change.id] = [rev |-> reply[c], data |-> Merge(o).data]]
        /\ cursor' = [cursor EXCEPT ![c] = Max({@, reply[c]})]
        /\ PushRest(c, Tail(batch[c]))
        /\ reply' = Set(reply, c, 0)
        /\ UNCHANGED <<log, incoming, rel, localVars, signals, todo, overlay, faults>>

-----------------------------------------------------------------------------
(***************************************************************************)
(* Notifications, crashes and restarts.                                    *)
(***************************************************************************)

(* subscribe_updates *)
Deliver(c) ==
    /\ note[c]
    /\ note' = Set(note, c, FALSE)
    /\ notified' = Set(notified, c, TRUE)
    /\ UNCHANGED <<log, tables, localVars, triggers, backoff, loopVars, faults>>

(* The stream breaks; subscribing again does not make up for it. *)
LoseNotification(c) ==
    /\ note[c]
    /\ Fault("left")
    /\ note' = Set(note, c, FALSE)
    /\ UNCHANGED <<log, tables, localVars, triggers, notified, backoff, loopVars>>

(* The process dies; the tables stay. *)
Crash(c) ==
    /\ pc[c] # "down"
    /\ Fault("left")
    /\ writing' = Set(writing, c, {})
    /\ triggers' = Set(triggers, c, 0)
    /\ note' = Set(note, c, FALSE)
    /\ notified' = Set(notified, c, FALSE)
    /\ backoff' = Set(backoff, c, FALSE)
    /\ pc' = Set(pc, c, "down")
    /\ mode' = Set(mode, c, "none")
    /\ todo' = Set(todo, c, <<>>)
    /\ overlay' = Set(overlay, c, <<>>)
    /\ batch' = Set(batch, c, <<>>)
    /\ reply' = Set(reply, c, 0)
    /\ UNCHANGED <<log, tables, writes>>

(* start: ensure_outgoing_record_committed writes the latest queued change *)
(* to the relational table, then the rows left in sync_incoming are        *)
(* processed.                                                              *)
Start(c) ==
    /\ pc[c] = "down"
    /\ IF outgoing[c] = <<>> THEN UNCHANGED rel
       ELSE LET o == Last(outgoing[c]) IN WriteTo(c, o.id, o.fields)
    /\ mode' = Set(mode, c, "start")
    /\ pc' = Set(pc, c, "local")
    /\ UNCHANGED <<log, outgoing, state, incoming, cursor, localVars, signals, todo, overlay,
                   batch, reply, faults>>

-----------------------------------------------------------------------------
LoopStep(c) ==
    \/ OnNotification(c) \/ OnBackoff(c) \/ OnPush(c)
    \/ Fetch(c) \/ FetchFails(c) \/ ReadIncoming(c) \/ UpdateState(c)
    \/ ApplyIncoming(c) \/ KeepIncoming(c) \/ DeleteIncoming(c)
    \/ ReadOutgoing(c) \/ PushRecord(c) \/ PushConflict(c) \/ CompleteOutgoingSync(c)
    \/ Start(c)

WriteStep(c) ==
    \/ \E r \in Record, f \in Field : SetOutgoingRecord(c, r, f)
    \/ \E w \in writing[c] : WriteRelational(c, w)

Next ==
    \E c \in Client : LoopStep(c) \/ WriteStep(c) \/ Deliver(c) \/ LoseNotification(c) \/ Crash(c)

Spec == Init /\ [][Next]_vars

(* The loop runs and its pulls end, a notification that is not lost        *)
(* arrives.  Nothing has to be written and nothing has to fail.            *)
Fairness == \A c \in Client : WF_vars(LoopStep(c)) /\ WF_vars(Deliver(c))

FairSpec == Spec /\ Fairness

-----------------------------------------------------------------------------
(* The type of the state. *)
TypeOK ==
    /\ \A i \in DOMAIN log : log[i].id \in Record /\ IsData(log[i].data)
    /\ \A c \in Client :
          /\ \A i \in DOMAIN outgoing[c] : /\ outgoing[c][i].id \in Record
                                           /\ outgoing[c][i].lrev \in Nat
                                           /\ IsData(outgoing[c][i].fields)
          /\ \A r \in Record : state[c][r].rev \in Nat /\ IsData(state[c][r].data) /\ IsData(rel[c][r])
          /\ \A i \in incoming[c] : i.id \in Record /\ i.rev \in Nat /\ IsData(i.data)
    /\ cursor \in [Client -> Nat]
    /\ writes \in [Client -> Nat]
    /\ triggers \in [Client -> Nat]
    /\ note \in [Client -> BOOLEAN]
    /\ notified \in [Client -> BOOLEAN]
    /\ backoff \in [Client -> BOOLEAN]
    /\ pc \in [Client -> {"idle", "fetch", "local", "record", "apply", "remove", "push", "send",
                          "complete", "down"}]
    /\ mode \in [Client -> {"none", "start", "init", "notify", "push", "backoff"}]
    /\ reply \in [Client -> Nat]

(* What a client takes for the version of a record at some revision is     *)
(* what the server had at that revision, whatever replies were lost and    *)
(* wherever it crashed: merges start from true versions.                   *)
StateIsServerVersion ==
    \A c \in Client, r \in Record :
        state[c][r].rev > 0 =>
            /\ state[c][r].rev \in DOMAIN log
            /\ log[state[c][r].rev] = [id |-> r, data |-> state[c][r].data]

(* The clients' state: its types, and their versions are the server's.     *)
ClientsOK == TypeOK /\ StateIsServerVersion

(* No lost update: a version accepted by the server differs from the one   *)
(* it replaces only in fields the pushing client has queued a change of.   *)
PushKeepsOtherFields ==
    [][\A r \in Record :
          Latest(r)' # Latest(r) =>
             \E c \in Client : \E i \in DOMAIN outgoing[c] :
                /\ outgoing[c][i].id = r
                /\ Latest(r)'.data = Overlay(Latest(r).data, outgoing[c][i].fields)]_vars

(* A field only one client writes never goes back to an older value at the *)
(* server: retries, conflicts and restarts keep the order of the queue.    *)
NoRegress ==
    \A i, j \in DOMAIN log :
        i < j /\ log[i].id = log[j].id =>
            \A f \in DOMAIN log[i].data : f \in DOMAIN log[j].data /\ log[i].data[f] <= log[j].data[f]

(* What another client wrote and this one has seen is in its relational    *)
(* table or still queued for it: neither a crash between two transactions  *)
(* nor a handler that refuses a record loses it.  Not so when a handler    *)
(* refuses a record twice: a row kept by pull_sync_once_local may then be  *)
(* applied after a newer version of the same record.                       *)
AppliedOrQueued ==
    faults["handler"] <= 1 =>
        \A c \in Client, r \in Record :
            (\A i \in incoming[c] : i.id # r) =>
                \A f \in DOMAIN state[c][r].data :
                    <<c, r, f>> \notin Writes =>
                        f \in DOMAIN rel[c][r] /\ rel[c][r][f] = state[c][r].data[f]

(* A client whose cursor has passed the latest revision of a record has    *)
(* seen that version: it will not be listed to it again.                   *)
CursorNeverSkips ==
    \A c \in Client, r \in Record :
        Latest(r).rev <= cursor[c] => state[c][r] = Latest(r)

(* A change is queued while the initial pull runs: its push trigger is     *)
(* lost when sync_loop resubscribes, and the change waits for the next.    *)
TriggerAtRisk == \E c \in Client : mode[c] = "init" /\ triggers[c] > 0

(* Unless a client crashes, fails to apply a record, misses a notification *)
(* or queues a change during its initial pull, every local change reaches  *)
(* the server and every client ends with the server's version, over failed *)
(* calls and conflicts.  True of one record only: with two, the cursor may *)
(* pass a revision the client has not seen (sqlite.rs:1291), as            *)
(* CursorNeverSkips shows.                                                 *)
Converges ==
    [](faults["left"] = 0 /\ faults["handler"] = 0 /\ ~TriggerAtRisk) =>
        <>[](\A c \in Client : /\ outgoing[c] = <<>>
                               /\ \A r \in Record : state[c][r] = Latest(r))

=============================================================================
