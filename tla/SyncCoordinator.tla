-------------------------- MODULE SyncCoordinator ---------------------------
(***************************************************************************)
(* The coordinator of wallet syncs and the runtime loop that runs them     *)
(* (crates/breez-sdk/core/src/sdk/sync_coordinator.rs, runtime/client.rs,  *)
(* sync.rs).  A caller queues a waiter; the one that finds no sync running *)
(* runs the sync loop, in its own future when it waits and in a spawned    *)
(* task otherwise, and every batch goes to the runtime loop through a      *)
(* broadcast channel.                                                      *)
(*                                                                         *)
(* Every critical section of the coordinator's mutex is one step.  A       *)
(* caller calls once.                                                      *)
(***************************************************************************)
EXTENDS Integers, Sequences, SequencesExt, FiniteSets, Subsequences

CONSTANTS
    Callers,        \* callers of the coordinator
    MaxDropped,     \* bound on callers whose future is dropped
    MaxShutdowns    \* bound on shutdowns: 0 or 1

ASSUME SyncCoordinatorAssumption == MaxDropped \in Nat /\ MaxShutdowns \in {0, 1}

VARIABLES
    waiters,        \* Inner.waiters
    syncRunning,    \* Inner.sync_running
    call,           \* what each caller has asked for, and how far it is
    loop,           \* the sync loop each caller runs, and what it holds
    channel,        \* requests the runtime loop has not received
    runtime,        \* the runtime loop: idle, at a request, or ended
    recent,         \* last_sync_time is within the sync interval
    fresh,          \* callers a sync they may rely on has started for
    dropped         \* callers whose future has been dropped

scVars == <<waiters, syncRunning, call, loop, channel, runtime, recent, fresh, dropped>>

-----------------------------------------------------------------------------
SyncTypes == {"full", "walletState"}

Kind(type, force, waits) == [type |-> type, force |-> force, waits |-> waits]

(* The calls there are: sync_wallet; after the wallet has synced or a      *)
(* conversion; every sync interval; after a claim or a cross-chain send.   *)
CallKinds ==
    {Kind("full", TRUE, TRUE), Kind("full", TRUE, FALSE), Kind("full", FALSE, FALSE),
     Kind("walletState", TRUE, FALSE)}

NoCall == [pc |-> "idle", kind |-> Kind("full", FALSE, FALSE)]
NoLoop == [pc |-> "none", type |-> "full", force |-> FALSE, batch |-> {}, result |-> "none"]
NoRequest == [by |-> "idle", type |-> "full", force |-> FALSE]
Ended == [NoRequest EXCEPT !.by = "ended"]

SCInit ==
    /\ waiters = <<>> /\ syncRunning = FALSE
    /\ call = [c \in Callers |-> NoCall]
    /\ loop = [c \in Callers |-> NoLoop]
    /\ channel = <<>> /\ runtime = NoRequest
    /\ recent = FALSE
    /\ fresh = {} /\ dropped = {}

(* The callers of ids that still wait get their answer. *)
Answer(ids, result) ==
    [c \in Callers |-> IF c \in ids /\ call[c].pc = "waiting" THEN [call[c] EXCEPT !.pc = result] ELSE call[c]]

(* Faulty: the flag is only set when the loop starts. *)
AddWaiterUnflagged(c) ==
    /\ waiters' = Append(waiters, c)
    /\ loop' = IF syncRunning THEN loop ELSE [loop EXCEPT ![c].pc = "take"]
    /\ syncRunning' = (syncRunning \/ channel # <<>>)

(* add_waiter: the caller that finds no sync running is to run the loop. *)
AddWaiter(c) ==
    /\ waiters' = Append(waiters, c)
    /\ loop' = IF syncRunning THEN loop ELSE [loop EXCEPT ![c].pc = "take"]
    /\ syncRunning' = TRUE

(* trigger_sync_and_wait and trigger_sync_no_wait *)
TriggerSync(c, kind) ==
    /\ call[c].pc = "idle"
    /\ call' = [call EXCEPT ![c] = [pc |-> IF kind.waits THEN "waiting" ELSE "ok", kind |-> kind]]
    /\ AddWaiter(c)
    /\ UNCHANGED <<channel, runtime, recent, fresh, dropped>>

(* Faulty: the waiters of every type share the sync of the first. *)
BatchOfAll == ToSet(waiters)

(* The waiters of the first one's type. *)
Batch == {c \in ToSet(waiters) : call[c].kind.type = call[Head(waiters)].kind.type}

BatchForce == \E w \in Batch : call[w].kind.force

Remaining == SelectIn(waiters, ToSet(waiters) \ Batch)

(* Faulty: the flag is cleared in a critical section of its own. *)
TakeBatchUnlocked(c) ==
    \/ /\ loop[c].pc = "take" /\ waiters # <<>>
       /\ waiters' = Remaining
       /\ loop' = [loop EXCEPT ![c] =
                      [pc     |-> "send", type |-> call[Head(waiters)].kind.type, force |-> BatchForce,
                       batch  |-> {w \in Batch : call[w].kind.waits}, result |-> "none"]]
       /\ UNCHANGED <<syncRunning, call, channel, runtime, recent, fresh, dropped>>
    \/ /\ loop[c].pc = "take" /\ waiters = <<>>
       /\ loop' = [loop EXCEPT ![c].pc = "reply", ![c].result = "none"]
       /\ UNCHANGED <<waiters, syncRunning, call, channel, runtime, recent, fresh, dropped>>
    \/ /\ loop[c].pc = "reply" /\ loop[c].result = "none"
       /\ syncRunning' = FALSE /\ loop' = [loop EXCEPT ![c] = NoLoop]
       /\ UNCHANGED <<waiters, call, channel, runtime, recent, fresh, dropped>>

(* One turn of run_sync_loop: done when nobody waits, else the next batch; *)
(* force is asked for when one of the batch asks for it.                   *)
TakeBatch(c) ==
    /\ loop[c].pc = "take"
    /\ IF waiters = <<>>
       THEN /\ syncRunning' = FALSE
            /\ loop' = [loop EXCEPT ![c] = NoLoop]
            /\ UNCHANGED waiters
       ELSE /\ waiters' = Remaining
            /\ loop' = [loop EXCEPT ![c] =
                           [pc     |-> "send", type |-> call[Head(waiters)].kind.type, force |-> BatchForce,
                            batch  |-> {w \in Batch : call[w].kind.waits},
                            result |-> "none"]]
            /\ UNCHANGED syncRunning
    /\ UNCHANGED <<call, channel, runtime, recent, fresh, dropped>>

(* run_single_sync: fails when nobody listens. *)
SendRequest(c) ==
    /\ loop[c].pc = "send"
    /\ IF runtime = Ended
       THEN /\ loop' = [loop EXCEPT ![c].pc = "reply", ![c].result = "error"]
            /\ UNCHANGED channel
       ELSE /\ channel' = Append(channel, [by |-> c, type |-> loop[c].type, force |-> loop[c].force])
            /\ loop' = [loop EXCEPT ![c].pc = "await"]
    /\ UNCHANGED <<waiters, syncRunning, call, runtime, recent, fresh, dropped>>

NotifyBatch(c) ==
    /\ loop[c].pc = "reply"
    /\ call' = Answer(loop[c].batch, loop[c].result)
    /\ loop' = [loop EXCEPT ![c] = [NoLoop EXCEPT !.pc = "take"]]
    /\ UNCHANGED <<waiters, syncRunning, channel, runtime, recent, fresh, dropped>>

LoopStep(c) == TakeBatch(c) \/ SendRequest(c) \/ NotifyBatch(c)

-----------------------------------------------------------------------------
(* Whom a sync of this kind serves, if it starts now: everyone who has     *)
(* called for its type, and does not insist when it is skipped.            *)
Served(request, skipped) ==
    {c \in Callers : /\ call[c].pc = "waiting" /\ call[c].kind.type = request.type
                     /\ call[c].kind.force => ~skipped}

(* on_sync_request: sync_wallet_internal is skipped when a sync is recent  *)
(* and none is forced; a full sync records its time before it runs.        *)
StartSync ==
    /\ runtime = NoRequest /\ channel # <<>>
    /\ runtime' = Head(channel) /\ channel' = Tail(channel)
    /\ LET skipped == recent /\ ~Head(channel).force
       IN  /\ fresh' = fresh \cup Served(Head(channel), skipped)
           /\ recent' = (recent \/ Head(channel).type = "full")
    /\ UNCHANGED <<waiters, syncRunning, call, loop, dropped>>

(* The reply reaches the loop that asked, if it is still there. *)
ReplyTo(c, result) ==
    loop' = IF c \in Callers /\ loop[c].pc = "await"
            THEN [loop EXCEPT ![c].pc = "reply", ![c].result = result] ELSE loop

FinishSync ==
    /\ runtime \notin {NoRequest, Ended}
    /\ \E result \in {"ok", "error"} : ReplyTo(runtime.by, result)
    /\ runtime' = NoRequest
    /\ UNCHANGED <<waiters, syncRunning, call, channel, recent, fresh, dropped>>

IntervalPasses ==
    /\ recent /\ recent' = FALSE
    /\ UNCHANGED <<waiters, syncRunning, call, loop, channel, runtime, fresh, dropped>>

(* The runtime loop ends, in the middle of a sync or not; the requests it  *)
(* has or would have received are dropped with their reply channels.       *)
Shutdown ==
    /\ MaxShutdowns > 0 /\ runtime # Ended
    /\ runtime' = Ended /\ channel' = <<>>
    /\ loop' = [c \in Callers |-> IF loop[c].pc = "await"
                                  THEN [loop[c] EXCEPT !.pc = "reply", !.result = "error"] ELSE loop[c]]
    /\ UNCHANGED <<waiters, syncRunning, call, recent, fresh, dropped>>

(* The future of a waiting caller is dropped, and with it the sync loop it *)
(* runs: the batch it holds is told the channel is closed; sync_running    *)
(* stays as it is.                                                         *)
DropCaller(c) ==
    /\ call[c].pc = "waiting"
    /\ Cardinality(dropped) < MaxDropped
    /\ dropped' = dropped \cup {c}
    /\ call' = [Answer(loop[c].batch, "error") EXCEPT ![c].pc = "gone"]
    /\ loop' = [loop EXCEPT ![c] = NoLoop]
    /\ UNCHANGED <<waiters, syncRunning, channel, runtime, recent, fresh>>

SCNext ==
    \/ \E c \in Callers, kind \in CallKinds : TriggerSync(c, kind)
    \/ \E c \in Callers : LoopStep(c) \/ DropCaller(c)
    \/ StartSync \/ FinishSync \/ IntervalPasses \/ Shutdown

(* The tasks are scheduled and a sync ends. *)
SCFairness ==
    /\ \A c \in Callers : WF_scVars(LoopStep(c))
    /\ WF_scVars(StartSync) /\ WF_scVars(FinishSync)

SCSpec == SCInit /\ [][SCNext]_scVars /\ SCFairness

-----------------------------------------------------------------------------
Requests == [by : Callers, type : SyncTypes, force : BOOLEAN]

(* Types; nobody is queued twice, or queued and in a batch.                *)
SCTypeOK ==
    /\ Cardinality(ToSet(waiters)) = Len(waiters)
    /\ \A c \in Callers : loop[c].batch \cap ToSet(waiters) = {}
    /\ waiters \in Seq(Callers) /\ syncRunning \in BOOLEAN /\ recent \in BOOLEAN
    /\ call \in [Callers -> [pc : {"idle", "waiting", "ok", "error", "gone"}, kind : CallKinds]]
    /\ loop \in [Callers -> [pc : {"none", "take", "send", "await", "reply"}, type : SyncTypes,
                             force : BOOLEAN, batch : SUBSET Callers, result : {"none", "ok", "error"}]]
    /\ channel \in Seq(Requests) /\ runtime \in Requests \cup {NoRequest, Ended}
    /\ fresh \subseteq Callers /\ dropped \subseteq Callers

(* "Guarantees the result is from a sync that started AFTER this call",    *)
(* and one of the caller's own type; who asks for a forced sync is not     *)
(* served by one that was skipped because the last one is recent.          *)
AnswerIsFresh == \A c \in Callers : call[c].kind.waits /\ call[c].pc = "ok" => c \in fresh

(* sync_running excludes a second loop, so there is never more than one    *)
(* request in the broadcast channel, which would drop the oldest when full.*)
OneLoop ==
    /\ Cardinality({c \in Callers : loop[c].pc # "none"}) <= 1
    /\ Len(channel) <= 1

(* The future that ran the sync loop has been dropped. *)
Stalled == syncRunning /\ \A c \in Callers : loop[c].pc = "none"

(* Every caller that waits is answered, unless the future that runs the    *)
(* sync loop is dropped: sync_running then stays set and no loop runs.     *)
(* (Each caller calls once.)                                               *)
Waiting == {c \in Callers : call[c].pc = "waiting"}
CallersAnswered == Waiting # {} ~> (Waiting = {} \/ Stalled)

(* sync_coordinator.rs: "if requests arrive while a sync is running, they  *)
(* share a single NEW sync that starts after the current one completes".   *)
RequestsAreServed ==
    \A c \in Callers : call[c].pc = "waiting" ~> call[c].pc # "waiting"
=============================================================================
