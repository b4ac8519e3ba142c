---------------------------- MODULE LnurlNotify -----------------------------
(***************************************************************************)
(* How a partner learns of a payment: the LNURL server's handling of the   *)
(* SSP's notification (process_webhook in lnurl/src/routes.rs,             *)
(* handle_invoice_paid, notify_webhooks) and the delivery of the queued    *)
(* webhooks (lnurl/src/webhooks), by several servers on one database.      *)
(*                                                                         *)
(* A database statement is a step, and may fail.  Of the times in a row    *)
(* the model keeps what they decide: whether a retry is due and whether a  *)
(* claim is older than five minutes.  The SSP repeats a notification that  *)
(* is not answered with success.                                           *)
(***************************************************************************)
EXTENDS Integers, FiniteSets

CONSTANTS
    Invoices,       \* paid invoices, by payment hash
    Domains,
    DomainOf,       \* the domain each invoice was made for
    Servers,
    Notices,       \* notifications of the SSP being handled
    MaxPerDomain,   \* MAX_CONCURRENT_PER_DOMAIN
    MaxFaults       \* bound: statements that fail, crashes, claims that grow
                    \* stale, changes of configuration, rows past their age

(* A task that delivers holds a permit of its domain's semaphore. *)
Permits == Servers \X Domains \X (1..MaxPerDomain)
ServerOf(t) == t[1]

ASSUME LnurlNotifyAssumption == DomainOf \in [Invoices -> Domains] /\ {MaxPerDomain, MaxFaults} \subseteq Nat

VARIABLES
    preimages,      \* invoices whose preimage is stored
    receipts,       \* pending_zap_receipts
    rows,           \* webhook_deliveries, by payment hash
    config,         \* domain_webhooks
    cache,          \* each server's WebhookConfigCache
    handling,       \* where each notification is, and what it has read
    acked,          \* notifications answered with success
    task,           \* what the holder of each permit does
    unclaiming,     \* ids of the rows, by invoice, a server has taken and
                    \* found no permit for
    faults,         \* how many faults there have been
    sends,          \* history: times the partner has accepted each delivery
    repeated,       \* history: deliveries whose claim or row a fault has undone
    gone            \* history: deliveries given up

tableVars == <<preimages, receipts, rows, config>>
serverVars == <<cache, task, unclaiming>>
historyVars == <<sends, repeated, gone>>
nfVars == <<tableVars, serverVars, historyVars, handling, acked, faults>>

(* No row yet: its id is the one the next row of this invoice will have.   *)
NoRow == [id |-> 0, state |-> "none", due |-> FALSE, claim |-> "free", attempted |-> FALSE]
Inserted(i) == [NoRow EXCEPT !.id = rows[i].id, !.state = "pending", !.due = TRUE]
Deleted(i) == [NoRow EXCEPT !.id = rows[i].id + 1]
NotHandling == [pc |-> "idle"]
Free == [pc |-> "free"]

NFInit ==
    /\ preimages = {} /\ receipts = {}
    /\ rows = [i \in Invoices |-> NoRow]
    /\ config = Domains /\ cache = [s \in Servers |-> Domains]
    /\ handling = [h \in Notices |-> NotHandling]
    /\ acked = {}
    /\ task = [t \in Permits |-> Free]
    /\ unclaiming = [s \in Servers |-> {}]
    /\ faults = 0
    /\ sends = [i \in Invoices |-> 0] /\ repeated = {} /\ gone = {}

Fault == faults < MaxFaults /\ faults' = faults + 1

-----------------------------------------------------------------------------
(***************************************************************************)
(* handle_invoice_paid                                                     *)
(***************************************************************************)
Handling(h, pc) == handling[h].pc = pc
HandlingGoto(h, pc) == handling' = [handling EXCEPT ![h].pc = pc]
Invoice(h) == handling[h].invoice

(* The SSP notifies until it has an answer, and may do so twice at a time. *)
(* The invoice is read.                                                    *)
Notify(h, i) ==
    /\ Handling(h, "idle") /\ i \notin acked
    /\ handling' = [handling EXCEPT ![h] = [invoice |-> i, stored |-> i \in preimages,
                                            pc |-> IF i \in preimages THEN "receipt" ELSE "store"]]
    /\ UNCHANGED <<tableVars, serverVars, historyVars, acked, faults>>

StorePreimage(h) ==
    /\ Handling(h, "store")
    /\ preimages' = preimages \cup {Invoice(h)}
    /\ HandlingGoto(h, "receipt")
    /\ UNCHANGED <<receipts, rows, config, serverVars, historyVars, acked, faults>>

(* enqueue_zap_receipt *)
EnqueueReceipt(h) ==
    /\ Handling(h, "receipt")
    /\ receipts' = receipts \cup {Invoice(h)}
    /\ HandlingGoto(h, "enqueue")
    /\ UNCHANGED <<preimages, rows, config, serverVars, historyVars, acked, faults>>

(* Faulty: queued only by the handler that stores the preimage. *)
EnqueuedIfNew(h) ==
    IF rows[Invoice(h)].state = "none" /\ ~handling[h].stored THEN Inserted(Invoice(h)) ELSE rows[Invoice(h)]

(* insert_webhook_deliveries: ON CONFLICT DO NOTHING *)
Enqueued(h) == IF rows[Invoice(h)].state = "none" THEN Inserted(Invoice(h)) ELSE rows[Invoice(h)]

(* notify_webhooks *)
EnqueueWebhook(h) ==
    /\ Handling(h, "enqueue")
    /\ rows' = [rows EXCEPT ![Invoice(h)] = Enqueued(h)]
    /\ HandlingGoto(h, "answer")
    /\ UNCHANGED <<preimages, receipts, config, serverVars, historyVars, acked, faults>>

(* An error of notify_webhooks is logged and the notification answered. *)
EnqueueWebhookFails(h) ==
    /\ Handling(h, "enqueue") /\ Fault
    /\ gone' = gone \cup {Invoice(h)}
    /\ HandlingGoto(h, "answer")
    /\ UNCHANGED <<tableVars, serverVars, sends, repeated, acked>>

Answer(h) ==
    /\ Handling(h, "answer")
    /\ acked' = acked \cup {Invoice(h)}
    /\ handling' = [handling EXCEPT ![h] = NotHandling]
    /\ UNCHANGED <<tableVars, serverVars, historyVars, faults>>

(* A statement before the last fails, the server stops, or the answer is   *)
(* lost: no success for the SSP.                                           *)
HandlingFails(h) ==
    /\ ~Handling(h, "idle") /\ Fault
    /\ handling' = [handling EXCEPT ![h] = NotHandling]
    /\ UNCHANGED <<tableVars, serverVars, historyVars, acked>>

-----------------------------------------------------------------------------
(***************************************************************************)
(* webhooks/background.rs: process_pending_webhook_deliveries, run by each *)
(* server at its start, at every trigger and every minute.                 *)
(***************************************************************************)
(* Faulty: what another server is delivering is taken too. *)
TakeableClaimed(i) == rows[i].state = "pending" /\ rows[i].due

(* Due, not succeeded, and not claimed within five minutes. *)
Takeable(i) == rows[i].state = "pending" /\ rows[i].due /\ rows[i].claim # "held"

(* The tasks that have taken the row. *)
Delivering(i) == {t \in Permits : task[t].pc # "free" /\ task[t].invoice = i /\ task[t].id = rows[i].id}
FreePermits(s, d) == {t \in Permits : t[1] = s /\ t[2] = d /\ task[t].pc = "free"}

(* take_pending_webhook_deliveries takes one delivery of every domain, the *)
(* one due longest; domains do not touch each other, so the model takes    *)
(* them one at a time.  With a permit the delivery is spawned, without it  *)
(* is to be unclaimed.                                                     *)
Take(s, i) ==
    /\ unclaiming[s] = {} /\ Takeable(i)
    /\ rows' = [rows EXCEPT ![i].claim = "held"]
    /\ IF FreePermits(s, DomainOf[i]) = {}
       THEN unclaiming' = [unclaiming EXCEPT ![s] = {<<i, rows[i].id>>}] /\ UNCHANGED task
       ELSE /\ \E t \in FreePermits(s, DomainOf[i]) :
                  task' = [task EXCEPT ![t] = [pc |-> "config", invoice |-> i, id |-> rows[i].id, attempted |-> rows[i].attempted]]
            /\ UNCHANGED unclaiming
    /\ UNCHANGED <<preimages, receipts, config, cache, historyVars, handling, acked, faults>>

(* unclaim_webhook_deliveries, whoever has the claim by now *)
Unclaim(s) ==
    /\ unclaiming[s] # {}
    /\ rows' = [i \in Invoices |-> IF <<i, rows[i].id>> \in unclaiming[s] THEN [rows[i] EXCEPT !.claim = "free"] ELSE rows[i]]
    /\ unclaiming' = [unclaiming EXCEPT ![s] = {}]
    /\ UNCHANGED <<preimages, receipts, config, cache, task, historyVars, handling, acked, faults>>

UnclaimFails(s) ==
    /\ unclaiming[s] # {} /\ Fault
    /\ unclaiming' = [unclaiming EXCEPT ![s] = {}]
    /\ UNCHANGED <<tableVars, cache, task, historyVars, handling, acked>>

-----------------------------------------------------------------------------
(***************************************************************************)
(* process_webhook_delivery                                                *)
(***************************************************************************)
Doing(t, pc) == task[t].pc = pc
Configured(t) == t[2] \in cache[ServerOf(t)]
TaskGoto(t, pc) == task' = [task EXCEPT ![t].pc = pc]
Release(t) == task' = [task EXCEPT ![t] = Free]

(* WHERE id = $1: no effect when the row it has taken was deleted since. *)
UpdateRow(t, row) == rows' = [rows EXCEPT ![task[t].invoice] = IF @.id = task[t].id THEN row ELSE @]

(* No configuration: park what was attempted, delete what was not. *)
GiveUp(t) ==
    /\ Doing(t, "config") /\ ~Configured(t)
    /\ UpdateRow(t, IF task[t].attempted
                    THEN [rows[task[t].invoice] EXCEPT !.state = IF @ = "pending" THEN "parked" ELSE @, !.claim = "free"]
                    ELSE Deleted(task[t].invoice))
    /\ Release(t)
    /\ gone' = gone \cup {task[t].invoice}
    /\ UNCHANGED <<preimages, receipts, config, cache, unclaiming, sends, repeated, handling, acked, faults>>

(* The statement that parks or deletes it fails: row and claim stay. *)
GiveUpFails(t) ==
    /\ Doing(t, "config") /\ ~Configured(t) /\ Fault
    /\ Release(t)
    /\ UNCHANGED <<tableVars, cache, unclaiming, historyVars, handling, acked>>

(* The partner accepts, and the answer may be lost. *)
Send(t) ==
    /\ Doing(t, "config") /\ Configured(t)
    /\ TaskGoto(t, "success")
    /\ sends' = [sends EXCEPT ![task[t].invoice] = IF @ = 2 THEN 2 ELSE @ + 1]
    /\ UNCHANGED <<tableVars, cache, unclaiming, repeated, gone, handling, acked, faults>>

SendUnanswered(t) ==
    /\ Doing(t, "config") /\ Configured(t) /\ Fault
    /\ TaskGoto(t, "failure")
    /\ sends' = [sends EXCEPT ![task[t].invoice] = IF @ = 2 THEN 2 ELSE @ + 1]
    /\ repeated' = repeated \cup {task[t].invoice}
    /\ UNCHANGED <<tableVars, cache, unclaiming, gone, handling, acked>>

SendFails(t) ==
    /\ Doing(t, "config") /\ Configured(t)
    /\ TaskGoto(t, "failure")
    /\ UNCHANGED <<tableVars, cache, unclaiming, historyVars, handling, acked, faults>>

(* update_webhook_delivery_success; the claim stays. *)
RecordSuccess(t) ==
    /\ Doing(t, "success")
    /\ UpdateRow(t, [rows[task[t].invoice] EXCEPT !.state = "succeeded", !.attempted = TRUE])
    /\ Release(t)
    /\ UNCHANGED <<preimages, receipts, config, cache, unclaiming, historyVars, handling, acked, faults>>

(* Faulty: a failure that is recorded late makes the delivery pending. *)
FailedAgain(i) == [rows[i] EXCEPT !.state = "pending", !.due = FALSE, !.claim = "free", !.attempted = TRUE]

(* update_webhook_delivery_failure: next_retry_at is set whatever it was,  *)
(* a parked delivery's too.                                                *)
Failed(i) ==
    [rows[i] EXCEPT !.state = IF @ = "parked" THEN "pending" ELSE @, !.due = FALSE, !.claim = "free", !.attempted = TRUE]

RecordFailure(t) ==
    /\ Doing(t, "failure")
    /\ UpdateRow(t, Failed(task[t].invoice))
    /\ Release(t)
    /\ UNCHANGED <<preimages, receipts, config, cache, unclaiming, historyVars, handling, acked, faults>>

(* The statement that records the outcome fails: the claim stays. *)
RecordFails(t) ==
    /\ task[t].pc \in {"success", "failure"} /\ Fault
    /\ Release(t)
    /\ repeated' = repeated \cup {task[t].invoice}
    /\ UNCHANGED <<tableVars, cache, unclaiming, sends, gone, handling, acked>>

-----------------------------------------------------------------------------
(* Time and the environment. *)
RetryDue(i) ==
    /\ rows[i].state = "pending" /\ ~rows[i].due
    /\ rows' = [rows EXCEPT ![i].due = TRUE]
    /\ UNCHANGED <<preimages, receipts, config, serverVars, historyVars, handling, acked, faults>>

(* Five minutes after a claim whose task is lost. *)
ClaimStale(i) ==
    /\ rows[i].claim = "held" /\ Delivering(i) = {} /\ \A s \in Servers : <<i, rows[i].id>> \notin unclaiming[s]
    /\ rows' = [rows EXCEPT ![i].claim = "stale"]
    /\ UNCHANGED <<preimages, receipts, config, serverVars, historyVars, handling, acked, faults>>

(* ... and of one that has taken so long. *)
ClaimOverrun(i) ==
    /\ rows[i].claim = "held" /\ Fault
    /\ rows' = [rows EXCEPT ![i].claim = "stale"]
    /\ repeated' = repeated \cup {i}
    /\ UNCHANGED <<preimages, receipts, config, serverVars, sends, gone, handling, acked>>

(* cleanup_old_webhook_deliveries, in whatever state the row is *)
Cleanup(i) ==
    /\ rows[i].state # "none" /\ Fault
    /\ rows' = [rows EXCEPT ![i] = Deleted(i)]
    /\ gone' = gone \cup {i} /\ repeated' = repeated \cup {i}
    /\ UNCHANGED <<preimages, receipts, config, serverVars, sends, handling, acked>>

ChangeConfig(d) ==
    /\ Fault
    /\ config' = IF d \in config THEN config \ {d} ELSE config \cup {d}
    /\ UNCHANGED <<preimages, receipts, rows, serverVars, historyVars, handling, acked>>

(* refresh_once *)
RefreshConfig(s) ==
    /\ cache[s] # config
    /\ cache' = [cache EXCEPT ![s] = config]
    /\ UNCHANGED <<tableVars, task, unclaiming, historyVars, handling, acked, faults>>

(* A server stops and starts: its tasks are lost, the claims stay. *)
Crash(s) ==
    /\ Fault
    /\ task' = [t \in Permits |-> IF ServerOf(t) = s THEN Free ELSE task[t]]
    /\ unclaiming' = [unclaiming EXCEPT ![s] = {}]
    /\ cache' = [cache EXCEPT ![s] = config]
    /\ repeated' = repeated \cup {task[t].invoice : t \in {p \in Permits : ServerOf(p) = s /\ Doing(p, "success")}}
    /\ UNCHANGED <<tableVars, sends, gone, handling, acked>>

-----------------------------------------------------------------------------
NoticeStep(h) == StorePreimage(h) \/ EnqueueReceipt(h) \/ EnqueueWebhook(h) \/ Answer(h)
TaskStep(t) == GiveUp(t) \/ Send(t) \/ RecordSuccess(t) \/ RecordFailure(t)

NFNext ==
    \/ \E h \in Notices : \E i \in Invoices : Notify(h, i)
    \/ \E h \in Notices : NoticeStep(h) \/ EnqueueWebhookFails(h) \/ HandlingFails(h)
    \/ \E s \in Servers : \E i \in Invoices : Take(s, i)
    \/ \E s \in Servers : Unclaim(s) \/ UnclaimFails(s) \/ RefreshConfig(s) \/ Crash(s)
    \/ \E t \in Permits : TaskStep(t) \/ GiveUpFails(t) \/ SendUnanswered(t) \/ SendFails(t) \/ RecordFails(t)
    \/ \E i \in Invoices : RetryDue(i) \/ ClaimStale(i) \/ ClaimOverrun(i) \/ Cleanup(i)
    \/ \E d \in Domains : ChangeConfig(d)

(* The SSP repeats its notifications; tasks go on; time passes; the        *)
(* delivery due longest is taken first and a failed one is due later, so   *)
(* none is passed over for ever; and a partner that is asked again and     *)
(* again accepts at last.                                                  *)
NFFairness ==
    /\ \A i \in Invoices : WF_nfVars(\E h \in Notices : Notify(h, i))
    /\ \A h \in Notices : WF_nfVars(NoticeStep(h))
    /\ \A s \in Servers : WF_nfVars(Unclaim(s)) /\ WF_nfVars(RefreshConfig(s))
    /\ \A i \in Invoices : SF_nfVars(\E s \in Servers : Take(s, i)) /\ WF_nfVars(RetryDue(i)) /\ WF_nfVars(ClaimStale(i))
    /\ \A t \in Permits : WF_nfVars(TaskStep(t)) /\ SF_nfVars(Send(t))

NFSpec == NFInit /\ [][NFNext]_nfVars /\ NFFairness

-----------------------------------------------------------------------------
NFTypeOK ==
    /\ {preimages, receipts, acked, repeated, gone} \subseteq SUBSET Invoices
    /\ rows \in [Invoices -> [id : Nat, state : {"none", "pending", "succeeded", "parked"}, due : BOOLEAN,
                              claim : {"free", "held", "stale"}, attempted : BOOLEAN]]
    /\ config \subseteq Domains /\ cache \in [Servers -> SUBSET Domains]
    /\ \A t \in Permits : task[t].pc \in {"free", "config", "success", "failure"}
    /\ unclaiming \in [Servers -> SUBSET (Invoices \X Nat)]
    /\ faults \in 0..MaxFaults /\ sends \in [Invoices -> 0..2]

(* handle_invoice_paid: once the SSP has its answer, and will not ask      *)
(* again, the zap receipt has been queued, whatever handler stored the     *)
(* preimage and wherever it stopped.                                       *)
AnsweredHasReceipt == acked \subseteq (receipts \cap preimages)

(* With all the duplicates of a notification and all the servers, the      *)
(* partner accepts a delivery once, unless its answer, the record of it or *)
(* the row was lost or the claim ran out.                                  *)
AcceptedOnce == \A i \in Invoices : sends[i] > 1 => i \in repeated

(* The partner's acceptance, once recorded, is not undone by what other    *)
(* attempts, unclaims and retries write to the row later.                  *)
SuccessStays ==
    [][\A i \in Invoices : rows[i].state = "succeeded" => rows'[i].state = "succeeded" \/ i \in gone']_nfVars

(* A payment the SSP has been answered for is delivered to the partner,    *)
(* unless the error of queueing it was ignored, its row grew too old or    *)
(* its domain had no configuration.                                        *)
PaidIsDelivered == \A i \in Invoices : i \in acked ~> (rows[i].state = "succeeded" \/ i \in gone)
=============================================================================
