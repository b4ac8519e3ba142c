----------------------------- MODULE MCSdkTasks -----------------------------
(***************************************************************************)
(* Two background tasks of the SDK, which share no state, side by side: a  *)
(* behaviour is one of StableBalance or one of SyncCoordinator.            *)
(***************************************************************************)
EXTENDS StableBalance, SyncCoordinator

CONSTANTS p1, usd, none, s1, c1, c2, c3

VARIABLE part

Init == part \in {"balance", "sync"} /\ SBInit /\ SCInit

Next ==
    \/ part = "balance" /\ SBNext /\ UNCHANGED <<part, scVars>>
    \/ part = "sync" /\ SCNext /\ UNCHANGED <<part, sbVars>>

(* SBFairness and SCFairness, each for its own part. *)
OfBalance(A) == part = "balance" /\ A
OfSync(A) == part = "sync" /\ A

Fairness ==
    /\ WF_sbVars(OfBalance(WorkerStep)) /\ WF_sbVars(OfBalance(UserStep))
    /\ WF_sbVars(OfBalance(ClearExpiredTasks)) /\ WF_sbVars(OfBalance(Synced))
    /\ \A p \in Payments : WF_sbVars(OfBalance(QueueReceive(p))) /\ WF_sbVars(OfBalance(Age(p)))
    /\ \A s \in Senders : WF_sbVars(OfBalance(DropPaymentGuard(s)))
    /\ \A c \in Callers : WF_scVars(OfSync(LoopStep(c)))
    /\ WF_scVars(OfSync(StartSync)) /\ WF_scVars(OfSync(FinishSync))

Spec == Init /\ [][Next]_<<part, sbVars, scVars>> /\ Fairness

(* The state of both tasks: types; the cached queue is the queue           *)
(* (CacheIsQueue); a payment shown as converted is                         *)
(* (CompletedIsConverted); one sync loop at a time, and one request in the *)
(* channel, whoever calls, leaves or shuts down (OneLoop).                 *)
TasksOK == SBTypeOK /\ CacheIsQueue /\ CompletedIsConverted /\ SCTypeOK /\ OneLoop
=============================================================================
