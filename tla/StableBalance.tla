--------------------------- MODULE StableBalance ----------------------------
(***************************************************************************)
(* The conversion queue and worker of the stable balance                   *)
(* (crates/breez-sdk/core/src/stable_balance).  Events of the SDK, calls   *)
(* of the user and payments in flight feed a queue that one worker drains; *)
(* a conversion is a swap with the SSP.                                    *)
(*                                                                         *)
(* An action is what happens between two awaits that another task can      *)
(* observe; one critical section of the queue's mutex is one step.         *)
(* Amounts count units of the smallest convertible receive.  Writes to     *)
(* storage and the read of the cached queue succeed (the code logs their   *)
(* failure and goes on); other reads may fail.                             *)
(***************************************************************************)
EXTENDS Integers, Sequences, SequencesExt, FiniteSets, Subsequences

CONSTANTS
    Payments,       \* payments received in sats, one unit each
    Convertible,    \* those that reach min_from_amount
    Tokens,         \* the tokens of the configuration
    NoToken,        \* stable balance is inactive
    DefaultToken,   \* default_active_label of the configuration, or NoToken
    Senders,        \* tasks that send with conversion
    MaxEvents,      \* bound on sends, calls of set_active_token, restarts and repeated events
    MaxOfAKind      \* bound on each of them

ASSUME StableBalanceAssumption ==
    /\ Convertible \subseteq Payments
    /\ NoToken \notin Tokens
    /\ DefaultToken \in Tokens \cup {NoToken}
    /\ IsFiniteSet(Senders)
    /\ {MaxEvents, MaxOfAKind} \subseteq Nat

VARIABLES
    perReceive,     \* the queued per-receive conversions, in order
    pendingTask,    \* the pending auto-convert or deactivation
    persisted,      \* the cached copy of perReceive
    wake,           \* a permit of queue.notify
    firstSync,      \* a permit of synced_notify
    aged,           \* payments whose task is older than the timeout
    activeToken,    \* active_token
    savedLabel,     \* the cached label, NoToken when there is none
    status,         \* conversion_status of each payment
    received,       \* the payments received so far
    handling,       \* receives marked pending and not yet queued
    sweep,          \* a Synced event in process, and the tasks it has expired
    worker,         \* where the worker is, and what it holds
    user,           \* where set_active_token is, and what it holds
    sender,         \* where each sending task is
    own,            \* sats of the wallet that no send has converted
    held,           \* the wallet's balance of each token
    conversions,    \* how often the SSP has converted each payment
    known,          \* payments whose conversion payment is in storage
    events          \* how often each bounded event has happened

queueVars == <<perReceive, pendingTask, persisted, wake>>
tokenVars == <<activeToken, savedLabel>>
fundVars == <<own, held, conversions>>
eventVars == <<firstSync, aged, received, handling, sweep, known>>
taskVars == <<worker, user, sender, events>>
sbVars == <<queueVars, tokenVars, fundVars, eventVars, status, taskVars>>

-----------------------------------------------------------------------------
(* The queue. *)
NoTask == [kind |-> "none", of |-> NoToken]
AutoConvert == [kind |-> "auto", of |-> NoToken]
Deactivation(t) == [kind |-> "deactivation", of |-> t]
PerReceive(p) == [kind |-> "receive", of |-> p]

(* The ids of the queued per-receive tasks. *)
Ids(queue) == {queue[i].id : i \in DOMAIN queue}
Entry(p) == CHOOSE e \in ToSet(perReceive) : e.id = p
Without(queue, ids) == SelectIn(queue, {e \in ToSet(queue) : e.id \notin ids})

(* Every change of perReceive is persisted under the same lock. *)
SetQueue(queue) == perReceive' = queue /\ persisted' = queue

(* Deduplicates by payment. *)
PushPerReceive(p) ==
    IF p \in Ids(perReceive)
    THEN UNCHANGED <<queueVars, aged>>
    ELSE /\ SetQueue(Append(perReceive, [id |-> p, state |-> "ready"]))
         /\ wake' = TRUE
         /\ aged' = aged \ {p}
         /\ UNCHANGED pendingTask

(* Collapses triggers and does not override a deactivation. *)
AutoConvertOver(task) == IF task = NoTask THEN AutoConvert ELSE task

(* Wakes the worker only when the task is new. *)
PushAutoConvert ==
    /\ pendingTask' = AutoConvertOver(pendingTask)
    /\ wake' = (wake \/ pendingTask = NoTask)

(* The per-receive tasks that are not deferred, in order. *)
Ready == SelectIn(perReceive, {e \in ToSet(perReceive) : e.state # "deferred"})

(* Faulty: nothing but per-receive tasks is taken while no token is active.*)
NextTaskWhileActive ==
    IF Ready # <<>> THEN PerReceive(Head(Ready).id)
    ELSE IF perReceive = <<>> /\ activeToken # NoToken THEN pendingTask
    ELSE NoTask

(* Per-receive tasks first; the pending task only when no per-receive task *)
(* is queued, deferred ones included.                                      *)
NextTask ==
    IF Ready # <<>> THEN PerReceive(Head(Ready).id)
    ELSE IF perReceive = <<>> THEN pendingTask
    ELSE NoTask

(* Clears whatever is pending by then, not only the task itself. *)
CompleteTask(task) ==
    IF task.kind = "receive"
    THEN SetQueue(Without(perReceive, {task.of})) /\ UNCHANGED pendingTask
    ELSE pendingTask' = NoTask /\ UNCHANGED <<perReceive, persisted>>

DeferTask(p) ==
    SetQueue([i \in DOMAIN perReceive |->
                 IF perReceive[i].id = p THEN [perReceive[i] EXCEPT !.state = "deferred"]
                 ELSE perReceive[i]])

IsDeferred(p) == p \in Ids(perReceive) /\ Entry(p).state = "deferred"

-----------------------------------------------------------------------------
(* The cached label, else the configured default. *)
ResolveInitialToken == IF savedLabel = NoToken THEN DefaultToken ELSE savedLabel

WorkerStart == [pc |-> "start", task |-> NoTask, token |-> NoToken, amount |-> 0, swapped |-> 0,
                cached |-> <<>>]
UserIdle == [pc |-> "idle", label |-> NoToken, cleared |-> {}]
NoSweep == [on |-> FALSE, ids |-> {}]

(* The bound on what the environment does. *)
Happens(kind) ==
    /\ events["send"] + events["change"] + events["restart"] + events["repeat"] < MaxEvents
    /\ events[kind] < MaxOfAKind
    /\ events' = [events EXCEPT ![kind] = @ + 1]

(* A first start with an empty cache. *)
SBInit ==
    /\ perReceive = <<>> /\ pendingTask = NoTask /\ persisted = <<>> /\ wake = FALSE
    /\ activeToken = DefaultToken /\ savedLabel = NoToken
    /\ own = 0 /\ held = [t \in Tokens |-> 0] /\ conversions = [p \in Payments |-> 0]
    /\ firstSync = FALSE /\ aged = {} /\ received = {} /\ handling = {} /\ sweep = NoSweep /\ known = {}
    /\ status = [p \in Payments |-> "unset"]
    /\ worker = WorkerStart /\ user = UserIdle /\ sender = [s \in Senders |-> "idle"]
    /\ events = [k \in {"send", "change", "restart", "repeat"} |-> 0]

(* status' after the payments of ids are marked *)
Mark(ids, as) == status' = [p \in Payments |-> IF p \in ids THEN as ELSE status[p]]

-----------------------------------------------------------------------------
(***************************************************************************)
(* The event middleware.                                                   *)
(***************************************************************************)
(* PaymentSucceeded of a receive in sats: marked pending and to be queued, *)
(* or, when stable balance is inactive, the amount too small or the limits *)
(* not available, a trigger of the auto-convert.  The event can come again *)
(* for a payment that is known, queued or converted by then.               *)
PaymentReceived(p) ==
    /\ \/ p \notin received /\ own' = own + 1 /\ UNCHANGED events
       \/ p \in received /\ own' = own /\ Happens("repeat")
    /\ received' = received \cup {p}
    /\ \/ /\ activeToken # NoToken
          /\ p \in Convertible
          /\ Mark({p}, "pending")
          /\ handling' = handling \cup {p}
          /\ UNCHANGED queueVars
       \/ /\ PushAutoConvert
          /\ UNCHANGED <<status, handling, perReceive, persisted>>
    /\ UNCHANGED <<tokenVars, worker, user, sender, held, conversions, firstSync, aged, sweep, known>>

QueueReceive(p) ==
    /\ p \in handling
    /\ handling' = handling \ {p}
    /\ PushPerReceive(p)
    /\ UNCHANGED <<tokenVars, taskVars, fundVars, status, firstSync, received, sweep, known>>

(* Faulty: the worker is not woken. *)
ResolveSilently(p) ==
    /\ SetQueue(Without(perReceive, {p}))
    /\ UNCHANGED <<pendingTask, wake>>

(* The task is removed, and the worker woken for what it held back. *)
ResolveByConversionPayment(p) ==
    /\ SetQueue(Without(perReceive, {p}))
    /\ wake' = TRUE
    /\ UNCHANGED pendingTask

(* PaymentSucceeded of the payment with the deterministic id of p's        *)
(* conversion, whoever made it.                                            *)
ConversionPaid(p) ==
    /\ conversions[p] > 0 /\ p \notin known
    /\ known' = known \cup {p}
    /\ IF IsDeferred(p)
       THEN ResolveByConversionPayment(p)
       ELSE PushAutoConvert /\ UNCHANGED <<perReceive, persisted>>
    /\ UNCHANGED <<tokenVars, taskVars, fundVars, status, firstSync, aged, received, handling, sweep>>

(* A task has its time of creation (the code keeps one without it for      *)
(* good: created_at = 0, the default of caches written before the field).  *)
Expired == {p \in Ids(perReceive) : p \in aged /\ IsDeferred(p)}

(* Synced: the deferred tasks past the timeout leave the queue ... *)
ClearExpiredTasks ==
    /\ ~sweep.on
    /\ sweep' = [on |-> TRUE, ids |-> Expired]
    /\ IF Expired = {} THEN UNCHANGED <<perReceive, persisted, wake>>
       ELSE SetQueue(Without(perReceive, Expired)) /\ wake' = TRUE
    /\ UNCHANGED <<pendingTask, tokenVars, taskVars, fundVars, status, firstSync, aged, received, handling, known>>

(* ... are marked failed, the worker may start, and looks at the balance.  *)
Synced ==
    /\ sweep.on
    /\ sweep' = NoSweep
    /\ Mark(sweep.ids, "failed")
    /\ firstSync' = TRUE
    /\ PushAutoConvert
    /\ UNCHANGED <<perReceive, persisted, tokenVars, taskVars, fundVars, aged, received, handling, known>>

(* The clock passes DEFERRED_TASK_TIMEOUT_SECS for p's task, which only    *)
(* makes a difference once the task is deferred.                           *)
Age(p) ==
    /\ IsDeferred(p)
    /\ p \notin aged
    /\ aged' = aged \cup {p}
    /\ UNCHANGED <<queueVars, tokenVars, taskVars, fundVars, status, firstSync, received, handling, sweep, known>>

-----------------------------------------------------------------------------
(***************************************************************************)
(* The worker.                                                             *)
(***************************************************************************)
WorkerAt(pc) == worker.pc = pc
Goto(pc) == worker' = IF pc = "loop" THEN [WorkerStart EXCEPT !.pc = pc] ELSE [worker EXCEPT !.pc = pc]
otherVars == <<tokenVars, eventVars, user, sender, events>>

(* recover_pending_conversions: the cached tasks are read ... *)
FetchPending ==
    /\ WorkerAt("start")
    /\ worker' = [WorkerStart EXCEPT !.pc = "recover", !.cached = persisted]
    /\ UNCHANGED <<queueVars, fundVars, status, otherVars>>

(* Faulty: what is queued by then is overwritten. *)
RecoverOverwrites ==
    /\ WorkerAt("recover")
    /\ perReceive' = worker.cached
    /\ worker' = [WorkerStart EXCEPT !.pc = "gate"]
    /\ UNCHANGED <<persisted, pendingTask, wake, fundVars, status, otherVars>>

(* ... and those that are not queued by then are queued, under the lock.   *)
(* Without cached tasks the queue and the cache are left as they are,      *)
(* which are the same then.                                                *)
RecoverPending ==
    /\ WorkerAt("recover")
    /\ SetQueue(perReceive \o Without(worker.cached, Ids(perReceive)))
    /\ worker' = [WorkerStart EXCEPT !.pc = "gate"]
    /\ UNCHANGED <<pendingTask, wake, fundVars, status, otherVars>>

Recovered == worker.pc \notin {"start", "recover"}

(* The first Synced opens the gate; cold-start auto-convert. *)
PassGate ==
    /\ WorkerAt("gate") /\ firstSync
    /\ firstSync' = FALSE
    /\ PushAutoConvert
    /\ Goto("loop")
    /\ UNCHANGED <<perReceive, persisted, fundVars, status, tokenVars, aged, received, handling, sweep, known,
                   user, sender, events>>

FirstStep == [receive |-> "prepare", auto |-> "lock", deactivation |-> "deactivate", none |-> "wait"]

TakeTask ==
    /\ WorkerAt("loop")
    /\ worker' = [WorkerStart EXCEPT !.pc = FirstStep[NextTask.kind], !.task = NextTask]
    /\ UNCHANGED <<queueVars, fundVars, status, otherVars>>

Woken ==
    /\ WorkerAt("wait") /\ wake
    /\ wake' = FALSE
    /\ Goto("loop")
    /\ UNCHANGED <<perReceive, pendingTask, persisted, fundVars, status, otherVars>>

(* per_receive_convert up to the swap: skipped when inactive, when the     *)
(* amount is below the limit by now or the conversion payment in storage,  *)
(* deferred when storage or the limits fail.                               *)
PreparePerReceive ==
    /\ WorkerAt("prepare")
    /\ IF activeToken = NoToken THEN Goto("complete")
       ELSE \E pc \in {"defer", "complete"} \cup (IF worker.task.of \in known THEN {} ELSE {"swap"}) :
               worker' = [worker EXCEPT !.pc = pc, !.token = activeToken]
    /\ UNCHANGED <<queueVars, fundVars, status, otherVars>>

(* The swap of p under its deterministic transfer id.  A repetition is     *)
(* refused as a duplicate; an answer can be lost.                          *)
SwapPerReceive(p, pc) ==
    IF conversions[p] > 0
    THEN pc \in {"complete", "defer"} /\ UNCHANGED fundVars
    ELSE \/ /\ pc \in {"mark", "defer"}
            /\ own > 0
            /\ conversions' = [conversions EXCEPT ![p] = @ + 1]
            /\ own' = own - 1 /\ held' = [held EXCEPT ![worker.token] = @ + 1]
         \/ pc = "defer" /\ UNCHANGED fundVars

ConvertPerReceive ==
    /\ WorkerAt("swap")
    /\ \E pc \in {"mark", "complete", "defer"} : SwapPerReceive(worker.task.of, pc) /\ Goto(pc)
    /\ UNCHANGED <<queueVars, status, otherVars>>

MarkCompleted ==
    /\ WorkerAt("mark")
    /\ Mark({worker.task.of}, "completed")
    /\ Goto("completeConverted")
    /\ UNCHANGED <<queueVars, fundVars, otherVars>>

Defer ==
    /\ WorkerAt("defer")
    /\ DeferTask(worker.task.of)
    /\ Goto("loop")
    /\ UNCHANGED <<pendingTask, wake, fundVars, status, otherVars>>

(* complete_task; after a conversion the pending auto-convert goes too. *)
Complete ==
    /\ worker.pc \in {"complete", "completeConverted"}
    /\ CompleteTask(worker.task)
    /\ Goto(IF WorkerAt("complete") THEN "loop" ELSE "clear")
    /\ UNCHANGED <<wake, fundVars, status, otherVars>>

ClearPendingAutoConvert ==
    /\ WorkerAt("clear")
    /\ pendingTask' = IF pendingTask = AutoConvert THEN NoTask ELSE pendingTask
    /\ Goto("loop")
    /\ UNCHANGED <<perReceive, persisted, wake, fundVars, status, otherVars>>

(* auto_convert: takes payment_lock, which it holds at "count" and "read". *)
LockPayments ==
    /\ WorkerAt("lock")
    /\ IF activeToken = NoToken THEN Goto("complete")
       ELSE worker' = [worker EXCEPT !.pc = "count", !.token = activeToken]
    /\ UNCHANGED <<queueVars, fundVars, status, otherVars>>

payment_counter == Cardinality({s \in Senders : sender[s] # "idle"})

(* Faulty: the lock is given back before the balance is read. *)
PaymentLockFreeAtRead == worker.pc # "count"

PaymentLockFree == worker.pc \notin {"count", "read"}

CountPayments ==
    /\ WorkerAt("count")
    /\ Goto(IF payment_counter > 0 THEN "complete" ELSE "read")
    /\ UNCHANGED <<queueVars, fundVars, status, otherVars>>

(* The sats that sends in flight have converted for themselves. *)
swapped == Cardinality({s \in Senders : sender[s] = "converted"})

ReadBalance ==
    /\ WorkerAt("read")
    /\ worker' = [worker EXCEPT !.pc = "check", !.amount = own + swapped, !.swapped = swapped]
    /\ UNCHANGED <<queueVars, fundVars, status, otherVars>>

(* The threshold, token dust and failing calls skip it; so does a          *)
(* per-receive task that has arrived in the meantime.                      *)
CheckBalance ==
    /\ WorkerAt("check")
    /\ \/ Goto("complete")
       \/ worker.amount > 0 /\ perReceive = <<>> /\ Goto("autoSwap")
    /\ UNCHANGED <<queueVars, fundVars, status, otherVars>>

ConvertBalance ==
    /\ WorkerAt("autoSwap")
    /\ \/ /\ own >= worker.amount
          /\ own' = own - worker.amount
          /\ held' = [held EXCEPT ![worker.token] = @ + worker.amount]
          /\ UNCHANGED conversions
       \/ UNCHANGED fundVars
    /\ Goto("complete")
    /\ UNCHANGED <<queueVars, status, otherVars>>

(* deactivation_convert: nothing to convert, too little, failure, success *)
Deactivate ==
    /\ WorkerAt("deactivate")
    /\ \/ /\ held[worker.task.of] > 0
          /\ held' = [held EXCEPT ![worker.task.of] = 0]
          /\ own' = own + held[worker.task.of]
          /\ UNCHANGED conversions
       \/ UNCHANGED fundVars
    /\ Goto("complete")
    /\ UNCHANGED <<queueVars, status, otherVars>>

WorkerStep ==
    \/ FetchPending \/ RecoverPending \/ PassGate \/ TakeTask \/ Woken
    \/ PreparePerReceive \/ ConvertPerReceive \/ MarkCompleted \/ Defer
    \/ Complete \/ ClearPendingAutoConvert
    \/ LockPayments \/ CountPayments \/ ReadBalance \/ CheckBalance \/ ConvertBalance
    \/ Deactivate

-----------------------------------------------------------------------------
(***************************************************************************)
(* set_active_token, called by the user.  Its label may be unknown.        *)
(***************************************************************************)
UserAt(pc) == user.pc = pc
UserGoto(pc) == user' = [user EXCEPT !.pc = pc]

ClearQueue(label) ==
    /\ UserAt("idle")
    /\ Happens("change")
    /\ SetQueue(<<>>)
    /\ pendingTask' = NoTask
    /\ user' = [pc |-> "mark", label |-> label, cleared |-> Ids(perReceive)]
    /\ UNCHANGED <<wake, tokenVars, fundVars, eventVars, status, worker, sender>>

(* An unknown label is only refused now. *)
MarkCleared ==
    /\ UserAt("mark")
    /\ Mark(user.cleared, "failed")
    /\ user' = IF user.label = "unknown" THEN UserIdle ELSE [user EXCEPT !.pc = "save"]
    /\ UNCHANGED <<queueVars, tokenVars, fundVars, eventVars, worker, sender, events>>

(* Deactivating queues the conversion back, in place of what is pending. *)
PushDeactivation ==
    /\ UserAt("save") /\ user.label = NoToken
    /\ IF activeToken = NoToken THEN UNCHANGED <<pendingTask, wake>>
       ELSE pendingTask' = Deactivation(activeToken) /\ wake' = TRUE
    /\ UserGoto("label")
    /\ UNCHANGED <<perReceive, persisted, tokenVars, fundVars, eventVars, status, worker, sender, events>>

SaveLabel ==
    /\ \/ UserAt("save") /\ user.label # NoToken
       \/ UserAt("label")
    /\ savedLabel' = user.label
    /\ UserGoto("activate")
    /\ UNCHANGED <<activeToken, queueVars, fundVars, eventVars, status, worker, sender, events>>

SetActiveToken ==
    /\ UserAt("activate")
    /\ activeToken' = user.label
    /\ user' = IF user.label = NoToken THEN UserIdle ELSE [user EXCEPT !.pc = "push"]
    /\ UNCHANGED <<savedLabel, queueVars, fundVars, eventVars, status, worker, sender, events>>

PushAfterActivation ==
    /\ UserAt("push")
    /\ PushAutoConvert
    /\ user' = UserIdle
    /\ UNCHANGED <<perReceive, persisted, tokenVars, fundVars, eventVars, status, worker, sender, events>>

UserStep == MarkCleared \/ PushDeactivation \/ SaveLabel \/ SetActiveToken \/ PushAfterActivation

-----------------------------------------------------------------------------
(***************************************************************************)
(* A payment with conversion: the guard, the swap of tokens into sats, the *)
(* payment.  Dropping the guard wakes the worker.                          *)
(***************************************************************************)
AcquirePaymentGuard(s) ==
    /\ sender[s] = "idle" /\ PaymentLockFree
    /\ Happens("send")
    /\ sender' = [sender EXCEPT ![s] = "guarded"]
    /\ UNCHANGED <<queueVars, tokenVars, fundVars, eventVars, status, worker, user>>

ConvertForSend(s) ==
    /\ sender[s] = "guarded"
    /\ \E t \in Tokens : held[t] > 0 /\ held' = [held EXCEPT ![t] = @ - 1]
    /\ sender' = [sender EXCEPT ![s] = "converted"]
    /\ UNCHANGED <<queueVars, tokenVars, own, conversions, eventVars, status, worker, user, events>>

(* Paid, or failed: then what was converted is the wallet's own again. *)
DropPaymentGuard(s) ==
    /\ sender[s] # "idle"
    /\ sender' = [sender EXCEPT ![s] = "idle"]
    /\ wake' = TRUE
    /\ own' \in IF sender[s] = "converted" THEN {own, own + 1} ELSE {own}
    /\ UNCHANGED <<perReceive, pendingTask, persisted, tokenVars, held, conversions, eventVars, status,
                   worker, user, events>>

-----------------------------------------------------------------------------
(* Another instance of the same wallet converts p first. *)
OtherConverts(p) ==
    /\ p \in received \cap Convertible
    /\ conversions[p] = 0 /\ own > 0
    /\ conversions' = [conversions EXCEPT ![p] = 1]
    /\ own' = own - 1
    /\ \E t \in Tokens : held' = [held EXCEPT ![t] = @ + 1]
    /\ UNCHANGED <<queueVars, tokenVars, eventVars, status, taskVars>>

(* The process ends, at any point, and starts again.  A payment it was     *)
(* making ends one way or the other.                                       *)
Restart ==
    /\ Happens("restart")
    /\ perReceive' = <<>> /\ pendingTask' = NoTask /\ wake' = FALSE
    /\ activeToken' = ResolveInitialToken
    /\ firstSync' = FALSE /\ handling' = {} /\ sweep' = NoSweep
    /\ worker' = WorkerStart /\ user' = UserIdle
    /\ sender' = [s \in Senders |-> "idle"]
    /\ own' \in own..(own + swapped)
    /\ UNCHANGED <<persisted, savedLabel, held, conversions, aged, received, known, status>>

SBNext ==
    \/ \E p \in Payments : PaymentReceived(p) \/ QueueReceive(p) \/ ConversionPaid(p) \/ Age(p) \/ OtherConverts(p)
    \/ ClearExpiredTasks \/ Synced
    \/ WorkerStep
    \/ \E label \in Tokens \cup {NoToken, "unknown"} : ClearQueue(label)
    \/ UserStep
    \/ \E s \in Senders : AcquirePaymentGuard(s) \/ ConvertForSend(s) \/ DropPaymentGuard(s)
    \/ Restart

(* The runtime schedules its tasks, syncs again and again, and time        *)
(* passes.  Nothing makes the user, the SSP's payments or a restart happen.*)
SBFairness ==
    /\ WF_sbVars(WorkerStep) /\ WF_sbVars(UserStep)
    /\ WF_sbVars(ClearExpiredTasks) /\ WF_sbVars(Synced)
    /\ \A p \in Payments : WF_sbVars(QueueReceive(p)) /\ WF_sbVars(Age(p))
    /\ \A s \in Senders : WF_sbVars(DropPaymentGuard(s))

SBSpec == SBInit /\ [][SBNext]_sbVars /\ SBFairness

-----------------------------------------------------------------------------
Tasks == {NoTask, AutoConvert} \cup {Deactivation(t) : t \in Tokens} \cup {PerReceive(p) : p \in Payments}
QueueEntries == [id : Payments, state : {"ready", "deferred"}]

(* Types; no payment is queued twice, though events repeat and the cached  *)
(* queue is merged into the live one on recovery.                          *)
SBTypeOK ==
    /\ perReceive \in Seq(QueueEntries) /\ persisted \in Seq(QueueEntries)
    /\ Cardinality(Ids(perReceive)) = Len(perReceive)
    /\ pendingTask \in Tasks /\ wake \in BOOLEAN /\ firstSync \in BOOLEAN
    /\ {activeToken, savedLabel} \subseteq Tokens \cup {NoToken}
    /\ status \in [Payments -> {"unset", "pending", "completed", "failed"}]
    /\ {aged, received, handling, known, sweep.ids} \subseteq SUBSET Payments
    /\ own \in Nat /\ held \in [Tokens -> Nat] /\ conversions \in [Payments -> Nat]
    /\ worker.task \in Tasks /\ worker.token \in Tokens \cup {NoToken}

(* No lost wakeup (queue.notify): when the worker sleeps and no permit is  *)
(* stored, there is nothing it could do.  push_auto_convert notifies only  *)
(* when it adds the task, so a task held back by a deferred conversion     *)
(* depends on whoever removes that conversion to wake the worker.          *)
NoLostWakeup == WorkerAt("wait") /\ ~wake => NextTask = NoTask

(* payment_lock: the balance auto_convert is about to convert holds no     *)
(* sats a send has just converted for itself.                              *)
SnapshotIsOwn == worker.swapped = 0

(* What a restart recovers (persist_pending): once the worker has          *)
(* recovered, the cache is the queue, so a finished task cannot come back  *)
(* and a queued one is not forgotten, though receives, sweeps and a change *)
(* of the token come between the read of the cache and the merge.          *)
CacheIsQueue == Recovered => persisted = perReceive

(* A payment shown as converted has been.                                  *)
CompletedIsConverted == \A p \in Payments : status[p] = "completed" => conversions[p] > 0

(* The queue drains: every per-receive conversion is converted, skipped,   *)
(* resolved by the conversion payment or given up after the timeout, and   *)
(* the auto-convert or deactivation behind it gets its turn.               *)
Busy == perReceive # <<>> \/ pendingTask # NoTask
QueueDrains == Busy ~> ~Busy

(* mod.rs: "Deactivation overrides pending AutoConvert": the deactivation  *)
(* leaves the queue when the worker has run it, the user changes the token *)
(* again or the process ends, and in no other way.                         *)
DeactivationStays ==
    [][(pendingTask.kind = "deactivation" /\ pendingTask' # pendingTask) =>
          (worker.task = pendingTask \/ user'.pc # user.pc \/ events'["restart"] # events["restart"])]_sbVars

(* models/mod.rs: "If a user setting is cached locally, it takes           *)
(* precedence over this default": a restart between two changes of the     *)
(* setting leaves it as it was.                                            *)
SettingSurvivesRestart ==
    [][(events'["restart"] # events["restart"] /\ UserAt("idle") /\ events["change"] > 0) =>
          activeToken' = activeToken]_sbVars
=============================================================================
