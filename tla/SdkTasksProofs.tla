--------------------------- MODULE SdkTasksProofs ---------------------------
(***************************************************************************)
(* Proofs about the background tasks of the SDK: the coordinator of wallet *)
(* syncs, for any callers, drops and shutdowns, and the stable balance,    *)
(* for any payments, tokens, senders, calls and restarts.                  *)
(***************************************************************************)
EXTENDS MCSdkTasks, CollectionProofs

-----------------------------------------------------------------------------
(***************************************************************************)
(* SyncCoordinator                                                         *)
(***************************************************************************)
CallTypes == [pc : {"idle", "waiting", "ok", "error", "gone"}, kind : CallKinds]
LoopTypes == [pc : {"none", "take", "send", "await", "reply"}, type : SyncTypes,
              force : BOOLEAN, batch : SUBSET Callers, result : {"none", "ok", "error"}]

SCTypes ==
    /\ waiters \in Seq(Callers) /\ syncRunning \in BOOLEAN /\ recent \in BOOLEAN
    /\ call \in [Callers -> CallTypes]
    /\ loop \in [Callers -> LoopTypes]
    /\ channel \in Seq(Requests) /\ runtime \in Requests \cup {NoRequest, Ended}
    /\ fresh \subseteq Callers /\ dropped \subseteq Callers

(* Who is queued or in a batch has called, and is in one place. *)
QueuedOnce ==
    /\ \A i, j \in DOMAIN waiters : waiters[i] = waiters[j] => i = j
    /\ \A i \in DOMAIN waiters : call[waiters[i]].pc # "idle"
    /\ \A c \in Callers : \A w \in loop[c].batch :
          call[w].pc # "idle" /\ \A i \in DOMAIN waiters : waiters[i] # w

(* A loop's batch has its type, waits, and is forced as one of it asks;    *)
(* between two batches the loop holds none, and it replies with a result.   *)
BatchOK ==
    \A c \in Callers :
        /\ loop[c].pc \in {"none", "take"} => loop[c].batch = {}
        /\ loop[c].pc = "reply" => loop[c].result \in {"ok", "error"}
        /\ \A w \in loop[c].batch : /\ call[w].kind.type = loop[c].type
                                    /\ call[w].kind.force => loop[c].force

(* sync_running stands for the one loop there is. *)
Exclusive ==
    /\ \A c, d \in Callers : loop[c].pc # "none" /\ loop[d].pc # "none" => c = d
    /\ \A c \in Callers : loop[c].pc # "none" => syncRunning

(* A request is in the channel or at the runtime loop, in one of them, and *)
(* whoever made it awaits the answer or is gone.                           *)
Underway == channel # <<>> \/ runtime \notin {NoRequest, Ended}

OneRequest ==
    /\ Len(channel) <= 1
    /\ channel # <<>> => runtime = NoRequest
    /\ Underway => syncRunning /\ \A c \in Callers : loop[c].pc \in {"none", "await"}
    /\ \A c \in Callers :
          (channel # <<>> /\ channel[1].by = c /\ loop[c].pc = "await") =>
              channel[1].type = loop[c].type /\ channel[1].force = loop[c].force

(* Once the sync has started, and when it has succeeded, whoever of the    *)
(* batch still waits may rely on it.                                       *)
StartedIsFresh ==
    \A c \in Callers :
        \/ loop[c].pc = "await" /\ runtime \notin {NoRequest, Ended} /\ runtime.by = c
        \/ loop[c].pc = "reply" /\ loop[c].result = "ok"
        => \A w \in loop[c].batch : call[w].pc = "waiting" => w \in fresh

SCInv == SCTypes /\ QueuedOnce /\ BatchOK /\ Exclusive /\ OneRequest /\ StartedIsFresh /\ AnswerIsFresh

(* The calls and the loops there are at first. *)
LEMMA KindFacts ==
    /\ \A k \in CallKinds : k.type \in SyncTypes /\ k.force \in BOOLEAN /\ k.waits \in BOOLEAN
    /\ NoCall \in CallTypes /\ NoCall.pc = "idle"
    /\ NoLoop \in LoopTypes /\ NoLoop.pc = "none" /\ NoLoop.batch = {}
BY DEF CallKinds, Kind, SyncTypes, NoCall, CallTypes, NoLoop, LoopTypes

(* A loop stays one when it goes on to its reply. *)
LEMMA LoopReplies ==
    ASSUME NEW r \in LoopTypes, NEW result \in {"ok", "error"}
    PROVE  [r EXCEPT !.pc = "reply", !.result = result] \in LoopTypes
BY DEF LoopTypes

(* A new coordinator satisfies the invariant. *)
LEMMA SCInitInv == SCInit => SCInv
<1> SUFFICES ASSUME SCInit PROVE SCInv
  OBVIOUS
<1>1. SCTypes
  BY KindFacts, EmptySeq DEF SCInit, SCTypes
<1>2. QueuedOnce /\ BatchOK /\ Exclusive /\ StartedIsFresh /\ AnswerIsFresh
  BY KindFacts DEF SCInit, QueuedOnce, BatchOK, Exclusive, StartedIsFresh, AnswerIsFresh
<1>3. OneRequest
  BY KindFacts DEF SCInit, OneRequest, Underway
<1> QED BY <1>1, <1>2, <1>3 DEF SCInv

(* trigger_sync_and_wait, trigger_sync_no_wait *)
LEMMA TriggerSyncInv ==
    ASSUME SCInv, NEW c \in Callers, NEW kind \in CallKinds, TriggerSync(c, kind)
    PROVE  SCInv'
<1> DEFINE entry == [pc |-> IF kind.waits THEN "waiting" ELSE "ok", kind |-> kind]
           n == Len(waiters)
<1>0. SCTypes /\ QueuedOnce /\ BatchOK /\ Exclusive /\ OneRequest /\ StartedIsFresh /\ AnswerIsFresh
  BY DEF SCInv
<1>1. /\ call[c].pc = "idle"
      /\ call' = [call EXCEPT ![c] = entry]
      /\ waiters' = Append(waiters, c)
      /\ loop' = IF syncRunning THEN loop ELSE [loop EXCEPT ![c].pc = "take"]
      /\ syncRunning' = TRUE
      /\ UNCHANGED <<channel, runtime, recent, fresh, dropped>>
  BY DEF TriggerSync, AddWaiter
<1>2. entry \in CallTypes /\ entry.pc # "idle" /\ entry.kind = kind
      /\ (entry.kind.waits /\ entry.pc = "ok" => FALSE)
  BY KindFacts DEF CallTypes
<1> HIDE DEF entry
<1>3. /\ waiters' \in Seq(Callers) /\ n \in Nat
      /\ DOMAIN waiters = 1..n /\ DOMAIN waiters' = 1..(n + 1)
      /\ \A i \in 1..n : waiters'[i] = waiters[i] /\ waiters[i] \in Callers
      /\ waiters'[n + 1] = c
  BY <1>0, <1>1, AppendProperties DEF SCTypes
<1> HIDE DEF n
<1>4. call \in [Callers -> CallTypes] /\ loop \in [Callers -> LoopTypes]
  BY <1>0 DEF SCTypes
<1>5. \A w \in Callers : call'[w] = IF w = c THEN entry ELSE call[w]
  BY <1>1, <1>4
<1>6. \A d \in Callers : /\ loop'[d].batch = loop[d].batch /\ loop'[d].type = loop[d].type
                         /\ loop'[d].force = loop[d].force /\ loop'[d].result = loop[d].result
                         /\ loop'[d].pc = IF d = c /\ ~syncRunning THEN "take" ELSE loop[d].pc
  BY <1>1, <1>4 DEF LoopTypes
<1>7. loop' \in [Callers -> LoopTypes]
  BY <1>1, <1>4 DEF LoopTypes
<1>8. \A d \in Callers : loop[d].batch \subseteq Callers
  BY <1>4 DEF LoopTypes
<1>9. SCTypes'
  BY <1>0, <1>1, <1>2, <1>3, <1>4, <1>7 DEF SCTypes
<1>10. QueuedOnce'
  <2>1. \A i \in 1..n : waiters[i] # c
    BY <1>0, <1>1, <1>3 DEF QueuedOnce
  <2>2. \A i, j \in 1..(n + 1) : waiters'[i] = waiters'[j] => i = j
    BY <1>0, <1>3, <2>1 DEF QueuedOnce
  <2>3. \A i \in 1..(n + 1) : call'[waiters'[i]].pc # "idle"
    BY <1>0, <1>2, <1>3, <1>5 DEF QueuedOnce
  <2>4. \A d \in Callers : \A w \in loop'[d].batch :
           call'[w].pc # "idle" /\ \A i \in 1..(n + 1) : waiters'[i] # w
    BY <1>0, <1>1, <1>2, <1>3, <1>5, <1>6, <1>8 DEF QueuedOnce
  <2> QED BY <1>3, <2>2, <2>3, <2>4 DEF QueuedOnce
<1>11. BatchOK'
  <2>1. \A d \in Callers : \A w \in loop[d].batch : call'[w] = call[w]
    BY <1>0, <1>1, <1>5, <1>8 DEF QueuedOnce
  <2>2. ~syncRunning => loop[c].batch = {}
    BY <1>0 DEF Exclusive, BatchOK
  <2> QED BY <1>0, <1>6, <2>1, <2>2 DEF BatchOK
<1>12. Exclusive'
  BY <1>0, <1>1, <1>6 DEF Exclusive
<1>13. OneRequest'
  BY <1>0, <1>1, <1>6 DEF OneRequest, Underway
<1>14. StartedIsFresh'
  <2>1. \A d \in Callers : \A w \in loop[d].batch : call'[w] = call[w]
    BY <1>0, <1>1, <1>5, <1>8 DEF QueuedOnce
  <2> QED BY <1>0, <1>1, <1>6, <2>1 DEF StartedIsFresh
<1>15. AnswerIsFresh'
  BY <1>0, <1>1, <1>2, <1>5 DEF AnswerIsFresh
<1> QED BY <1>9, <1>10, <1>11, <1>12, <1>13, <1>14, <1>15 DEF SCInv

(* One turn of run_sync_loop. *)
LEMMA TakeBatchInv ==
    ASSUME SCInv, NEW c \in Callers, TakeBatch(c)
    PROVE  SCInv'
<1>0. SCTypes /\ QueuedOnce /\ BatchOK /\ Exclusive /\ OneRequest /\ StartedIsFresh /\ AnswerIsFresh
  BY DEF SCInv
<1>1. loop[c].pc = "take" /\ UNCHANGED <<call, channel, runtime, recent, fresh, dropped>>
  BY DEF TakeBatch
<1>2. call \in [Callers -> CallTypes] /\ loop \in [Callers -> LoopTypes] /\ waiters \in Seq(Callers)
  BY <1>0 DEF SCTypes
<1>3. ~Underway /\ \A d \in Callers : d # c => loop[d].pc = "none"
  BY <1>0, <1>1 DEF OneRequest, Exclusive
<1>4. CASE waiters = <<>>
  <2>1. syncRunning' = FALSE /\ loop' = [loop EXCEPT ![c] = NoLoop] /\ UNCHANGED waiters
    BY <1>4 DEF TakeBatch
  <2>2. \A d \in Callers : loop'[d] = IF d = c THEN NoLoop ELSE loop[d]
    BY <1>2, <2>1
  <2>3. SCTypes'
    BY <1>0, <1>1, <2>1, KindFacts DEF SCTypes
  <2>4. QueuedOnce' /\ BatchOK' /\ Exclusive' /\ StartedIsFresh' /\ AnswerIsFresh'
    BY <1>0, <1>1, <1>3, <2>1, <2>2, KindFacts
    DEF QueuedOnce, BatchOK, Exclusive, StartedIsFresh, AnswerIsFresh
  <2>5. OneRequest'
    BY <1>0, <1>1, <1>3, <2>1, <2>2, KindFacts DEF OneRequest, Underway
  <2> QED BY <2>3, <2>4, <2>5 DEF SCInv
<1>5. CASE waiters # <<>>
  <2> DEFINE turn == [pc     |-> "send", type |-> call[Head(waiters)].kind.type, force |-> BatchForce,
                      batch  |-> {w \in Batch : call[w].kind.waits}, result |-> "none"]
  <2>1. waiters' = Remaining /\ loop' = [loop EXCEPT ![c] = turn] /\ UNCHANGED syncRunning
    BY <1>5 DEF TakeBatch
  <2>2. Head(waiters) \in Callers /\ ToSet(waiters) \subseteq Callers /\ DOMAIN waiters = 1..Len(waiters)
    BY <1>2, <1>5 DEF ToSet
  <2>3. Batch \subseteq ToSet(waiters)
    BY DEF Batch
  <2>4. /\ turn \in LoopTypes /\ turn.pc = "send" /\ turn.batch \subseteq Batch
        /\ \A w \in turn.batch : /\ call[w].kind.type = turn.type
                                 /\ call[w].kind.force => turn.force
    <3>1. call[Head(waiters)].kind.type \in SyncTypes
      BY <1>2, <2>2, KindFacts DEF CallTypes
    <3>2. BatchForce \in BOOLEAN /\ \A w \in Batch : call[w].kind.force => BatchForce
      BY DEF BatchForce
    <3>3. \A w \in Batch : call[w].kind.type = call[Head(waiters)].kind.type
      BY DEF Batch
    <3> HIDE DEF BatchForce, Batch
    <3> QED BY <2>2, <2>3, <3>1, <3>2, <3>3 DEF LoopTypes
  <2> HIDE DEF turn
  <2> DEFINE left == ToSet(waiters) \ Batch
             rest == SelectIn(waiters, left)
  <2>5. rest \in Seq(Callers) /\ SelectedOK(rest, waiters, left, Len(waiters)) /\ waiters' = rest
    BY <1>2, <2>1, SelectInFacts DEF Remaining
  <2> HIDE DEF left, rest
  <2>6. \A d \in Callers : loop'[d] = IF d = c THEN turn ELSE loop[d]
    BY <1>2, <2>1
  <2>7. SCTypes'
    BY <1>0, <1>1, <2>1, <2>4, <2>5 DEF SCTypes
  <2>8. QueuedOnce'
    <3>0. DOMAIN waiters' = 1..Len(waiters') /\ Len(waiters') \in Nat
      BY <2>5 DEF SelectedOK
    <3>1. waiters' = SelectIn(waiters, left)
      BY <2>5 DEF rest
    <3>2. ASSUME NEW a \in DOMAIN waiters', NEW b \in DOMAIN waiters', a # b
          PROVE  waiters'[a] # waiters'[b]
      <4>1. \E i, j \in DOMAIN waiters : i # j /\ waiters'[a] = waiters[i] /\ waiters'[b] = waiters[j]
        BY <1>2, <3>1, <3>2, SelectInPlaces
      <4> QED BY <1>0, <4>1 DEF QueuedOnce
    <3>3. \A a \in DOMAIN waiters' : waiters'[a] \in left /\ \E i \in DOMAIN waiters : waiters'[a] = waiters[i]
      BY <2>2, <2>5, <3>0 DEF SelectedOK
    <3>4. \A a \in DOMAIN waiters' : call'[waiters'[a]].pc # "idle"
      BY <1>0, <1>1, <3>3 DEF QueuedOnce
    <3>5. \A w \in turn.batch : call[w].pc # "idle" /\ \A a \in DOMAIN waiters' : waiters'[a] # w
      <4>1. \A w \in ToSet(waiters) : call[w].pc # "idle"
        BY <1>0 DEF QueuedOnce, ToSet
      <4> QED BY <2>3, <2>4, <3>3, <4>1 DEF left
    <3>6. \A d \in Callers : \A w \in loop'[d].batch :
             call'[w].pc # "idle" /\ \A a \in DOMAIN waiters' : waiters'[a] # w
      BY <1>0, <1>1, <1>3, <2>6, <3>5 DEF BatchOK
    <3> QED BY <3>2, <3>4, <3>6 DEF QueuedOnce
  <2>9. BatchOK' /\ Exclusive' /\ StartedIsFresh' /\ AnswerIsFresh'
    BY <1>0, <1>1, <1>3, <2>1, <2>4, <2>6
    DEF BatchOK, Exclusive, StartedIsFresh, AnswerIsFresh
  <2>10. OneRequest'
    BY <1>0, <1>1, <1>3, <2>1, <2>4, <2>6 DEF OneRequest, Underway
  <2> QED BY <2>7, <2>8, <2>9, <2>10 DEF SCInv
<1> QED BY <1>4, <1>5

(* run_single_sync, up to the answer *)
LEMMA SendRequestInv ==
    ASSUME SCInv, NEW c \in Callers, SendRequest(c)
    PROVE  SCInv'
<1> DEFINE request == [by |-> c, type |-> loop[c].type, force |-> loop[c].force]
<1>0. SCTypes /\ QueuedOnce /\ BatchOK /\ Exclusive /\ OneRequest /\ StartedIsFresh /\ AnswerIsFresh
  BY DEF SCInv
<1>1. loop[c].pc = "send" /\ UNCHANGED <<waiters, syncRunning, call, runtime, recent, fresh, dropped>>
  BY DEF SendRequest
<1>2. call \in [Callers -> CallTypes] /\ loop \in [Callers -> LoopTypes] /\ channel \in Seq(Requests)
  BY <1>0 DEF SCTypes
<1>3. ~Underway /\ channel = <<>> /\ syncRunning /\ \A d \in Callers : d # c => loop[d].pc = "none"
  BY <1>0, <1>1 DEF OneRequest, Exclusive, Underway
<1>4. CASE runtime = Ended
  <2>1. loop' = [loop EXCEPT ![c].pc = "reply", ![c].result = "error"] /\ UNCHANGED channel
    BY <1>4 DEF SendRequest
  <2>2. loop' \in [Callers -> LoopTypes]
    BY <1>2, <2>1 DEF LoopTypes
  <2>3. \A d \in Callers : /\ loop'[d].batch = loop[d].batch /\ loop'[d].type = loop[d].type
                           /\ loop'[d].force = loop[d].force
                           /\ d # c => loop'[d] = loop[d]
                           /\ d = c => loop'[d].pc = "reply" /\ loop'[d].result = "error"
    BY <1>2, <2>1 DEF LoopTypes
  <2>4. SCTypes'
    BY <1>0, <1>1, <2>1, <2>2 DEF SCTypes
  <2>5. QueuedOnce'
    BY <1>0, <1>1, <2>3 DEF QueuedOnce
  <2>6. BatchOK' /\ Exclusive' /\ AnswerIsFresh'
    BY <1>0, <1>1, <1>3, <2>3 DEF BatchOK, Exclusive, AnswerIsFresh
  <2>7. StartedIsFresh'
    BY <1>0, <1>1, <1>3, <2>3 DEF StartedIsFresh
  <2>8. OneRequest'
    BY <1>0, <1>1, <1>3, <2>1, <2>3 DEF OneRequest, Underway
  <2> QED BY <2>4, <2>5, <2>6, <2>7, <2>8 DEF SCInv
<1>5. CASE runtime # Ended
  <2>1. loop' = [loop EXCEPT ![c].pc = "await"] /\ channel' = Append(channel, request)
    BY <1>5 DEF SendRequest
  <2>2. loop' \in [Callers -> LoopTypes]
    <3>1. [loop[c] EXCEPT !.pc = "await"] \in LoopTypes
      BY <1>2 DEF LoopTypes
    <3> QED BY <1>2, <2>1, <3>1
  <2>3. \A d \in Callers : /\ loop'[d].batch = loop[d].batch /\ loop'[d].type = loop[d].type
                           /\ loop'[d].force = loop[d].force
                           /\ d # c => loop'[d] = loop[d]
                           /\ d = c => loop'[d].pc = "await"
    BY <1>2, <2>1 DEF LoopTypes
  <2>4. /\ request \in Requests /\ request.by = c
        /\ request.type = loop[c].type /\ request.force = loop[c].force
    BY <1>2 DEF Requests, LoopTypes
  <2> HIDE DEF request
  <2>5. channel' \in Seq(Requests) /\ channel' # <<>> /\ Len(channel') = 1 /\ channel'[1] = request
    BY <1>2, <1>3, <2>1, <2>4
  <2>6. runtime = NoRequest
    BY <1>3, <1>5 DEF Underway
  <2>7. SCTypes'
    BY <1>0, <1>1, <2>2, <2>5 DEF SCTypes
  <2>8. QueuedOnce' /\ BatchOK' /\ Exclusive' /\ StartedIsFresh' /\ AnswerIsFresh'
    BY <1>0, <1>1, <1>3, <2>1, <2>3, <2>6 DEF QueuedOnce, BatchOK, Exclusive, StartedIsFresh, AnswerIsFresh
  <2>9. OneRequest'
    BY <1>0, <1>1, <1>3, <2>3, <2>4, <2>5, <2>6 DEF OneRequest, Underway
  <2> QED BY <2>7, <2>8, <2>9 DEF SCInv
<1> QED BY <1>4, <1>5

(* What answering does to the calls. *)
LEMMA AnswerFacts ==
    ASSUME call \in [Callers -> CallTypes], NEW ids, NEW result \in {"ok", "error"}
    PROVE  /\ Answer(ids, result) \in [Callers -> CallTypes]
           /\ \A w \in Callers : /\ Answer(ids, result)[w].kind = call[w].kind
                                 /\ Answer(ids, result)[w].pc =
                                       IF w \in ids /\ call[w].pc = "waiting" THEN result ELSE call[w].pc
BY DEF Answer, CallTypes

(* The batch is told the result. *)
LEMMA NotifyBatchInv ==
    ASSUME SCInv, NEW c \in Callers, NotifyBatch(c)
    PROVE  SCInv'
<1> DEFINE next == [NoLoop EXCEPT !.pc = "take"]
<1>0. SCTypes /\ QueuedOnce /\ BatchOK /\ Exclusive /\ OneRequest /\ StartedIsFresh /\ AnswerIsFresh
  BY DEF SCInv
<1>1. /\ loop[c].pc = "reply" /\ call' = Answer(loop[c].batch, loop[c].result)
      /\ loop' = [loop EXCEPT ![c] = next]
      /\ UNCHANGED <<waiters, syncRunning, channel, runtime, recent, fresh, dropped>>
  BY DEF NotifyBatch
<1>2. call \in [Callers -> CallTypes] /\ loop \in [Callers -> LoopTypes] /\ waiters \in Seq(Callers)
  BY <1>0 DEF SCTypes
<1>3. next \in LoopTypes /\ next.pc = "take" /\ next.batch = {}
  BY DEF NoLoop, LoopTypes, SyncTypes
<1> HIDE DEF next
<1>4. \A d \in Callers : loop'[d] = IF d = c THEN next ELSE loop[d]
  BY <1>1, <1>2
<1>5. loop[c].result \in {"ok", "error"}
  BY <1>0, <1>1 DEF BatchOK
<1>6. /\ call' \in [Callers -> CallTypes]
      /\ \A w \in Callers : /\ call'[w].kind = call[w].kind
                            /\ call'[w].pc = IF w \in loop[c].batch /\ call[w].pc = "waiting"
                                             THEN loop[c].result ELSE call[w].pc
  BY <1>1, <1>2, <1>5, AnswerFacts
<1>7. ~Underway /\ \A d \in Callers : d # c => loop[d].pc = "none"
  BY <1>0, <1>1 DEF OneRequest, Exclusive
<1>8. \A d \in Callers : d # c => loop[d].batch = {}
  BY <1>0, <1>7 DEF BatchOK
<1>9. SCTypes'
  <2>1. loop' \in [Callers -> LoopTypes]
    BY <1>1, <1>2, <1>3
  <2> QED BY <1>0, <1>1, <1>6, <2>1 DEF SCTypes
<1>10. QueuedOnce'
  <2>1. \A i \in DOMAIN waiters : waiters[i] \in Callers
    BY <1>2
  <2> QED BY <1>0, <1>1, <1>3, <1>4, <1>5, <1>6, <1>8, <2>1 DEF QueuedOnce
<1>11. BatchOK' /\ Exclusive' /\ StartedIsFresh'
  BY <1>0, <1>1, <1>3, <1>4, <1>7, <1>8 DEF BatchOK, Exclusive, StartedIsFresh
<1>12. OneRequest'
  BY <1>0, <1>1, <1>3, <1>4, <1>7 DEF OneRequest, Underway
<1>13. AnswerIsFresh'
  BY <1>0, <1>1, <1>6 DEF StartedIsFresh, AnswerIsFresh
<1> QED BY <1>9, <1>10, <1>11, <1>12, <1>13 DEF SCInv

(* on_sync_request: the sync that starts serves the whole batch. *)
LEMMA StartSyncInv ==
    ASSUME SCInv, StartSync
    PROVE  SCInv'
<1> DEFINE request == channel[1]
           skipped == recent /\ ~request.force
<1>0. SCTypes /\ QueuedOnce /\ BatchOK /\ Exclusive /\ OneRequest /\ StartedIsFresh /\ AnswerIsFresh
  BY DEF SCInv
<1>1. channel \in Seq(Requests) /\ channel # <<>> /\ Len(channel) = 1 /\ runtime = NoRequest
  <2>1. channel \in Seq(Requests) /\ channel # <<>> /\ Len(channel) <= 1 /\ runtime = NoRequest
    BY <1>0 DEF SCTypes, OneRequest, StartSync
  <2>2. Len(channel) \in Nat /\ Len(channel) # 0
    BY <2>1, EmptySeq
  <2> QED BY <2>1, <2>2
<1>2. Head(channel) = request /\ request \in Requests /\ Tail(channel) = <<>>
  <2>1. Head(channel) = request /\ request \in Requests
    BY <1>1
  <2>2. Tail(channel) \in Seq(Requests) /\ Len(Tail(channel)) = 0
    BY <1>1, HeadTailProperties
  <2> QED BY <2>1, <2>2, EmptySeq
<1>3. /\ runtime' = request /\ channel' = <<>>
      /\ fresh' = fresh \cup Served(request, skipped)
      /\ recent' = (recent \/ request.type = "full")
      /\ UNCHANGED <<waiters, syncRunning, call, loop, dropped>>
  BY <1>2 DEF StartSync
<1>4. call \in [Callers -> CallTypes] /\ loop \in [Callers -> LoopTypes]
  BY <1>0 DEF SCTypes
<1>5. Underway /\ syncRunning /\ \A c \in Callers : loop[c].pc \in {"none", "await"}
  BY <1>0, <1>1 DEF OneRequest, Underway
<1>6. \A c \in Callers : (request.by = c /\ loop[c].pc = "await") =>
              request.type = loop[c].type /\ request.force = loop[c].force
  BY <1>0, <1>1 DEF OneRequest
<1> HIDE DEF request
<1>7. SCTypes'
  <2>1. fresh' \subseteq Callers
    BY <1>0, <1>3 DEF SCTypes, Served
  <2>2. channel' \in Seq(Requests) /\ recent' \in BOOLEAN
    BY <1>0, <1>3, EmptySeq DEF SCTypes
  <2> QED BY <1>0, <1>2, <1>3, <2>1, <2>2 DEF SCTypes
<1>8. QueuedOnce' /\ BatchOK' /\ Exclusive'
  BY <1>0, <1>3 DEF QueuedOnce, BatchOK, Exclusive
<1>9. OneRequest'
  BY <1>3, <1>5 DEF OneRequest, Underway
<1>10. StartedIsFresh'
  <2> SUFFICES ASSUME NEW c \in Callers, loop[c].pc = "await", request.by = c,
                      NEW w \in loop[c].batch, call[w].pc = "waiting"
               PROVE  w \in fresh'
    BY <1>3, <1>5 DEF StartedIsFresh
  <2>1. w \in Callers
    BY <1>4 DEF LoopTypes
  <2>2. request.type = loop[c].type /\ request.force = loop[c].force
    BY <1>6
  <2>3. call[w].kind.type = request.type /\ (call[w].kind.force => request.force)
    BY <1>0, <2>2 DEF BatchOK
  <2>4. w \in Served(request, skipped)
    BY <2>1, <2>3 DEF Served
  <2> QED BY <1>3, <2>4
<1>11. AnswerIsFresh'
  BY <1>0, <1>3 DEF AnswerIsFresh
<1> QED BY <1>7, <1>8, <1>9, <1>10, <1>11 DEF SCInv

(* The sync ends, and the loop that asked for it, if it is still there, is *)
(* told.                                                                   *)
LEMMA FinishSyncInv ==
    ASSUME SCInv, FinishSync
    PROVE  SCInv'
<1>0. SCTypes /\ QueuedOnce /\ BatchOK /\ Exclusive /\ OneRequest /\ StartedIsFresh /\ AnswerIsFresh
  BY DEF SCInv
<1>1. PICK result \in {"ok", "error"} : ReplyTo(runtime.by, result)
  BY DEF FinishSync
<1> DEFINE asker == runtime.by
<1>2. /\ runtime \notin {NoRequest, Ended} /\ runtime' = NoRequest
      /\ UNCHANGED <<waiters, syncRunning, call, channel, recent, fresh, dropped>>
  BY DEF FinishSync
<1>3. loop' = IF asker \in Callers /\ loop[asker].pc = "await"
              THEN [loop EXCEPT ![asker].pc = "reply", ![asker].result = result] ELSE loop
  BY <1>1 DEF ReplyTo
<1>4. loop \in [Callers -> LoopTypes]
  BY <1>0 DEF SCTypes
<1>5. channel = <<>> /\ syncRunning /\ \A c \in Callers : loop[c].pc \in {"none", "await"}
  BY <1>0, <1>2 DEF OneRequest, Underway
<1>6. \A c \in Callers :
         /\ loop'[c].batch = loop[c].batch /\ loop'[c].type = loop[c].type /\ loop'[c].force = loop[c].force
         /\ IF c = asker /\ loop[c].pc = "await" THEN loop'[c].pc = "reply" /\ loop'[c].result = result
            ELSE loop'[c] = loop[c]
  BY <1>3, <1>4 DEF LoopTypes
<1>7. loop' \in [Callers -> LoopTypes]
  BY <1>1, <1>3, <1>4 DEF LoopTypes
<1>8. SCTypes'
  BY <1>0, <1>2, <1>7 DEF SCTypes
<1>9. QueuedOnce'
  BY <1>0, <1>2, <1>6 DEF QueuedOnce
<1>10. BatchOK' /\ Exclusive' /\ AnswerIsFresh'
  BY <1>0, <1>1, <1>2, <1>5, <1>6 DEF BatchOK, Exclusive, AnswerIsFresh
<1>11. OneRequest'
  BY <1>2, <1>5 DEF OneRequest, Underway
<1>12. StartedIsFresh'
  BY <1>0, <1>2, <1>5, <1>6 DEF StartedIsFresh
<1> QED BY <1>8, <1>9, <1>10, <1>11, <1>12 DEF SCInv

(* The runtime loop ends, and the requests with it. *)
LEMMA ShutdownInv ==
    ASSUME SCInv, Shutdown
    PROVE  SCInv'
<1>0. SCTypes /\ QueuedOnce /\ BatchOK /\ Exclusive /\ OneRequest /\ StartedIsFresh /\ AnswerIsFresh
  BY DEF SCInv
<1>1. loop' = [c \in Callers |-> IF loop[c].pc = "await"
                                 THEN [loop[c] EXCEPT !.pc = "reply", !.result = "error"] ELSE loop[c]]
  BY DEF Shutdown
<1>2. /\ runtime' = Ended /\ channel' = <<>>
      /\ UNCHANGED <<waiters, syncRunning, call, recent, fresh, dropped>>
  BY DEF Shutdown
<1>3. loop \in [Callers -> LoopTypes]
  BY <1>0 DEF SCTypes
<1>4. ASSUME NEW c \in Callers
      PROVE  /\ loop'[c].batch = loop[c].batch /\ loop'[c].type = loop[c].type
             /\ loop'[c].force = loop[c].force
             /\ loop[c].pc = "await" => loop'[c].pc = "reply" /\ loop'[c].result = "error"
             /\ loop[c].pc # "await" => loop'[c].pc = loop[c].pc /\ loop'[c].result = loop[c].result
  BY <1>1, <1>3 DEF LoopTypes
<1>5. loop' \in [Callers -> LoopTypes]
  <2>1. \A c \in Callers : [loop[c] EXCEPT !.pc = "reply", !.result = "error"] \in LoopTypes
    BY <1>3, LoopReplies
  <2> QED BY <1>1, <1>3, <2>1
<1>6. SCTypes'
  BY <1>0, <1>2, <1>5, EmptySeq DEF SCTypes
<1>7. QueuedOnce'
  BY <1>0, <1>2, <1>4 DEF QueuedOnce
<1>8. BatchOK'
  <2>1. \A c \in Callers : loop'[c].pc \in {"none", "take"} => loop'[c].batch = {}
    BY <1>0, <1>4 DEF BatchOK
  <2>2. \A c \in Callers : loop'[c].pc = "reply" => loop'[c].result \in {"ok", "error"}
    BY <1>0, <1>4 DEF BatchOK
  <2> QED BY <1>0, <1>2, <1>4, <2>1, <2>2 DEF BatchOK
<1>9. Exclusive' /\ AnswerIsFresh'
  BY <1>0, <1>2, <1>4 DEF Exclusive, AnswerIsFresh
<1>10. OneRequest'
  <2>1. channel' = <<>> /\ runtime' = Ended /\ Len(channel') = 0
    BY <1>2
  <2> QED BY <2>1 DEF OneRequest, Underway
<1>11. StartedIsFresh'
  BY <1>0, <1>2, <1>4 DEF StartedIsFresh
<1> QED BY <1>6, <1>7, <1>8, <1>9, <1>10, <1>11 DEF SCInv

(* A caller is dropped, and the loop it runs. *)
LEMMA DropCallerInv ==
    ASSUME SCInv, NEW c \in Callers, DropCaller(c)
    PROVE  SCInv'
<1> DEFINE told == Answer(loop[c].batch, "error")
<1>0. SCTypes /\ QueuedOnce /\ BatchOK /\ Exclusive /\ OneRequest /\ StartedIsFresh /\ AnswerIsFresh
  BY DEF SCInv
<1>1. /\ call[c].pc = "waiting" /\ dropped' = dropped \cup {c}
      /\ call' = [told EXCEPT ![c].pc = "gone"]
      /\ loop' = [loop EXCEPT ![c] = NoLoop]
      /\ UNCHANGED <<waiters, syncRunning, channel, runtime, recent, fresh>>
  BY DEF DropCaller
<1>2. call \in [Callers -> CallTypes] /\ loop \in [Callers -> LoopTypes] /\ waiters \in Seq(Callers)
  BY <1>0 DEF SCTypes
<1>3. /\ told \in [Callers -> CallTypes]
      /\ \A w \in Callers : /\ told[w].kind = call[w].kind
                            /\ told[w].pc = IF w \in loop[c].batch /\ call[w].pc = "waiting"
                                            THEN "error" ELSE call[w].pc
  BY <1>2, AnswerFacts
<1> HIDE DEF told
<1>4. call' \in [Callers -> CallTypes]
  BY <1>1, <1>3 DEF CallTypes
<1>5. \A w \in Callers : /\ call'[w].kind = call[w].kind
                         /\ call'[w].pc = "idle" => call[w].pc = "idle"
                         /\ call'[w].pc = "waiting" => call[w].pc = "waiting"
                         /\ call'[w].pc = "ok" => call[w].pc = "ok"
  BY <1>1, <1>3 DEF CallTypes
<1>6. \A d \in Callers : loop'[d] = IF d = c THEN NoLoop ELSE loop[d]
  BY <1>1, <1>2
<1>7. \A d \in Callers : loop[d].batch \subseteq Callers
  BY <1>2 DEF LoopTypes
<1>8. SCTypes'
  <2>1. loop' \in [Callers -> LoopTypes]
    BY <1>1, <1>2, KindFacts
  <2> QED BY <1>0, <1>1, <1>4, <2>1 DEF SCTypes
<1>9. QueuedOnce'
  <2>1. \A i \in DOMAIN waiters : waiters[i] \in Callers
    BY <1>2
  <2> QED BY <1>0, <1>1, <1>5, <1>6, <1>7, <2>1, KindFacts DEF QueuedOnce
<1>10. BatchOK' /\ Exclusive'
  BY <1>0, <1>1, <1>5, <1>6, <1>7, KindFacts DEF BatchOK, Exclusive
<1>11. StartedIsFresh' /\ AnswerIsFresh'
  BY <1>0, <1>1, <1>5, <1>6, <1>7, KindFacts DEF StartedIsFresh, AnswerIsFresh
<1>12. OneRequest'
  BY <1>0, <1>1, <1>6, KindFacts DEF OneRequest, Underway
<1> QED BY <1>8, <1>9, <1>10, <1>11, <1>12 DEF SCInv

(* The passing of the interval and other steps that leave all of it alone. *)
LEMMA SCStutterInv ==
    ASSUME SCInv, recent' \in BOOLEAN,
           UNCHANGED <<waiters, syncRunning, call, loop, channel, runtime, fresh, dropped>>
    PROVE  SCInv'
BY DEF SCInv, SCTypes, QueuedOnce, BatchOK, Exclusive, OneRequest, Underway, StartedIsFresh, AnswerIsFresh

(* Every step of the coordinator and the runtime loop keeps the invariant. *)
LEMMA SCNextInv == SCInv /\ [SCNext]_scVars => SCInv'
<1> SUFFICES ASSUME SCInv, [SCNext]_scVars PROVE SCInv'
  OBVIOUS
<1>1. CASE \E c \in Callers, kind \in CallKinds : TriggerSync(c, kind)
  BY <1>1, TriggerSyncInv
<1>2. CASE \E c \in Callers : LoopStep(c)
  BY <1>2, TakeBatchInv, SendRequestInv, NotifyBatchInv DEF LoopStep
<1>3. CASE \E c \in Callers : DropCaller(c)
  BY <1>3, DropCallerInv
<1>4. CASE StartSync \/ FinishSync \/ Shutdown
  BY <1>4, StartSyncInv, FinishSyncInv, ShutdownInv
<1>5. CASE IntervalPasses
  BY <1>5, SCStutterInv DEF IntervalPasses
<1>6. CASE UNCHANGED scVars
  <2>1. recent' \in BOOLEAN
    BY <1>6 DEF scVars, SCInv, SCTypes
  <2> QED BY <1>6, <2>1, SCStutterInv DEF scVars
<1> QED BY <1>1, <1>2, <1>3, <1>4, <1>5, <1>6 DEF SCNext

(* What the invariant is for: types, and one loop and one request. *)
LEMMA SCInvImplies == SCInv => SCTypeOK /\ OneLoop
<1> SUFFICES ASSUME SCInv PROVE SCTypeOK /\ OneLoop
  OBVIOUS
<1>1. SCTypes /\ QueuedOnce /\ Exclusive /\ OneRequest
  BY DEF SCInv
<1>2. waiters \in Seq(Callers) /\ Len(waiters) \in Nat /\ DOMAIN waiters = 1..Len(waiters)
  BY <1>1 DEF SCTypes
<1>3. Cardinality(ToSet(waiters)) = Len(waiters)
  <2>1. \A i, j \in 1..Len(waiters) : waiters[i] = waiters[j] => i = j
    BY <1>1, <1>2 DEF QueuedOnce
  <2>2. waiters \in [1..Len(waiters) -> ToSet(waiters)]
    BY <1>2 DEF ToSet
  <2>3. \A w \in ToSet(waiters) : \E i \in 1..Len(waiters) : waiters[i] = w
    BY <1>2 DEF ToSet
  <2> QED BY <1>2, <2>1, <2>2, <2>3, DistinctCount
<1>4. \A c \in Callers : loop[c].batch \cap ToSet(waiters) = {}
  BY <1>1 DEF QueuedOnce, ToSet
<1>5. SCTypeOK
  BY <1>1, <1>3, <1>4 DEF SCTypeOK, SCTypes, CallTypes, LoopTypes
<1>6. Cardinality({c \in Callers : loop[c].pc # "none"}) <= 1
  BY <1>1, AtMostOne DEF Exclusive
<1>7. OneLoop
  BY <1>1, <1>6 DEF OneLoop, OneRequest
<1> QED BY <1>5, <1>7

(* trigger_sync_and_wait, for any number of callers: a caller is told "ok" *)
(* only by a sync of its type that started after its call, and that was    *)
(* not skipped when it is to be forced; one sync loop at a time, and one   *)
(* request in the channel, also when futures are dropped and the runtime   *)
(* loop ends.                                                              *)
THEOREM SyncAnswersAreFresh == SCSpec => [](AnswerIsFresh /\ SCTypeOK /\ OneLoop)
<1>1. SCInit => SCInv
  BY SCInitInv
<1>2. SCInv /\ [SCNext]_scVars => SCInv'
  BY SCNextInv
<1>3. SCInv => AnswerIsFresh /\ SCTypeOK /\ OneLoop
  BY SCInvImplies DEF SCInv
<1> QED BY <1>1, <1>2, <1>3, PTL DEF SCSpec

-----------------------------------------------------------------------------
(***************************************************************************)
(* StableBalance                                                           *)
(***************************************************************************)
DistinctIds(queue) == \A i, j \in DOMAIN queue : queue[i].id = queue[j].id => i = j

WorkerPcs == {"start", "recover", "gate", "loop", "wait", "prepare", "swap", "mark", "defer", "complete",
              "completeConverted", "clear", "lock", "count", "read", "check", "autoSwap", "deactivate"}
Queues == {q \in Seq(QueueEntries) : DistinctIds(q)}
Workers == [pc : WorkerPcs, task : Tasks, token : Tokens \cup {NoToken}, amount : Nat, swapped : {0},
            cached : Queues]
Users == [pc : {"idle", "mark", "save", "label", "activate", "push"},
          label : Tokens \cup {NoToken, "unknown"}, cleared : SUBSET Payments]

(* The types of each part of the state, a payment being queued once. *)
QueueTypes ==
    /\ perReceive \in Seq(QueueEntries) /\ DistinctIds(perReceive)
    /\ persisted \in Seq(QueueEntries) /\ DistinctIds(persisted)
    /\ pendingTask \in Tasks /\ pendingTask.kind # "receive" /\ wake \in BOOLEAN
TokenTypes == activeToken \in Tokens \cup {NoToken} /\ savedLabel \in Tokens \cup {NoToken}
FundTypes == own \in Nat /\ held \in [Tokens -> Nat] /\ conversions \in [Payments -> 0..1]
EventTypes ==
    /\ firstSync \in BOOLEAN /\ aged \subseteq Payments /\ received \subseteq Payments
    /\ handling \subseteq Payments /\ known \subseteq Payments
    /\ sweep \in [on : BOOLEAN, ids : SUBSET Payments]
StatusTypes == status \in [Payments -> {"unset", "pending", "completed", "failed"}]
TaskTypes == worker \in Workers /\ user \in Users /\ sender \in [Senders -> {"idle", "guarded", "converted"}]

SBTypes == QueueTypes /\ TokenTypes /\ FundTypes /\ EventTypes /\ StatusTypes /\ TaskTypes

(* What the worker knows of its task, by where it is. *)
WorkerOK ==
    /\ worker.pc \in {"prepare", "swap", "mark", "defer", "completeConverted"} => worker.task.kind = "receive"
    /\ worker.pc = "deactivate" => worker.task.kind = "deactivation"
    /\ worker.pc \in {"swap", "count", "read", "check", "autoSwap"} => worker.token \in Tokens
    /\ worker.pc = "mark" => conversions[worker.task.of] = 1
    /\ worker.pc = "read" => \A s \in Senders : sender[s] = "idle"

UserOK == user.pc \in {"save", "label", "activate", "push"} => user.label \in Tokens \cup {NoToken}

SBInv == SBTypes /\ WorkerOK /\ UserOK /\ CacheIsQueue /\ CompletedIsConverted /\ NoLostWakeup

(* An empty queue. *)
LEMMA NoQueue == <<>> \in Queues
BY DEF Queues, DistinctIds

(* A task and what it is of. *)
LEMMA TaskFacts ==
    /\ NoTask \in Tasks /\ AutoConvert \in Tasks /\ NoTask.kind = "none" /\ AutoConvert.kind = "auto"
    /\ \A t \in Tokens : Deactivation(t) \in Tasks /\ Deactivation(t).kind = "deactivation"
    /\ \A p \in Payments : PerReceive(p) \in Tasks /\ PerReceive(p).kind = "receive"
    /\ \A task \in Tasks : /\ task.kind \in {"none", "auto", "deactivation", "receive"}
                           /\ task.kind = "none" => task = NoTask
                           /\ task.kind = "deactivation" => task.of \in Tokens
                           /\ task.kind = "receive" => task.of \in Payments
<1>1. /\ NoTask \in Tasks /\ AutoConvert \in Tasks /\ NoTask.kind = "none" /\ AutoConvert.kind = "auto"
      /\ \A t \in Tokens : Deactivation(t) \in Tasks /\ Deactivation(t).kind = "deactivation"
      /\ \A p \in Payments : PerReceive(p) \in Tasks /\ PerReceive(p).kind = "receive"
  BY DEF Tasks, NoTask, AutoConvert, Deactivation, PerReceive
<1>2. ASSUME NEW task \in Tasks
      PROVE  /\ task.kind \in {"none", "auto", "deactivation", "receive"}
             /\ task.kind = "none" => task = NoTask
             /\ task.kind = "deactivation" => task.of \in Tokens
             /\ task.kind = "receive" => task.of \in Payments
  BY DEF Tasks, NoTask, AutoConvert, Deactivation, PerReceive
<1> QED BY <1>1, <1>2

(* Removing tasks leaves a queue, of other tasks. *)
LEMMA WithoutFacts ==
    ASSUME NEW q \in Seq(QueueEntries), DistinctIds(q), NEW ids
    PROVE  /\ Without(q, ids) \in Seq(QueueEntries) /\ DistinctIds(Without(q, ids))
           /\ \A i \in DOMAIN Without(q, ids) : Without(q, ids)[i].id \notin ids
<1> DEFINE kept == {e \in ToSet(q) : e.id \notin ids}
           left == SelectIn(q, kept)
<1>1. left \in Seq(QueueEntries) /\ SelectedOK(left, q, kept, Len(q))
  BY SelectInFacts
<1>2. \A i \in DOMAIN left : left[i] \in kept
  BY <1>1 DEF SelectedOK
<1>3. \A i \in DOMAIN left : left[i].id \notin ids
  BY <1>2
<1>4. DistinctIds(left)
  <2> HIDE DEF kept
  <2> SUFFICES ASSUME NEW i \in DOMAIN left, NEW j \in DOMAIN left, i # j
               PROVE  left[i].id # left[j].id
    BY DEF DistinctIds
  <2>1. \E c, d \in DOMAIN q : c # d /\ left[i] = q[c] /\ left[j] = q[d]
    BY SelectInPlaces
  <2> QED BY <2>1 DEF DistinctIds
<1> QED BY <1>1, <1>3, <1>4 DEF Without

(* Of an empty queue nothing is ready. *)
LEMMA ReadyOfEmpty == perReceive = <<>> => Ready = <<>>
BY SelectInEmpty DEF Ready

(* The ready tasks are queued. *)
LEMMA ReadyFacts ==
    ASSUME QueueTypes, Ready # <<>>
    PROVE  Head(Ready).id \in Payments
<1> DEFINE set == {e \in ToSet(perReceive) : e.state # "deferred"}
<1>1. Ready \in Seq(QueueEntries)
  <2>1. SelectIn(perReceive, set) \in Seq(QueueEntries)
    BY SelectInFacts DEF QueueTypes
  <2> QED BY <2>1 DEF Ready
<1>2. Head(Ready) \in QueueEntries
  BY <1>1
<1> QED BY <1>2 DEF QueueEntries

(* What the worker may take is a task. *)
LEMMA NextTaskFacts == QueueTypes => NextTask \in Tasks
BY ReadyFacts, TaskFacts DEF NextTask, QueueTypes

(* Where the worker goes. *)
LEMMA GotoFacts ==
    ASSUME worker \in Workers, NEW pc \in WorkerPcs, Goto(pc)
    PROVE  /\ worker' \in Workers /\ worker'.pc = pc
           /\ pc # "loop" => worker'.task = worker.task /\ worker'.token = worker.token
BY TaskFacts, NoQueue DEF Goto, Workers, WorkerStart, WorkerPcs

(* push_auto_convert leaves a task, and wakes the worker when it is new.   *)
LEMMA PushAutoConvertFacts ==
    ASSUME QueueTypes, PushAutoConvert, UNCHANGED <<perReceive, persisted>>
    PROVE  QueueTypes' /\ (wake' \/ (pendingTask' = pendingTask /\ wake' = wake))
<1>1. pendingTask' \in Tasks /\ pendingTask'.kind # "receive" /\ wake' \in BOOLEAN
  BY TaskFacts DEF QueueTypes, PushAutoConvert, AutoConvertOver
<1>2. wake' \/ (pendingTask' = pendingTask /\ wake' = wake)
  BY DEF QueueTypes, PushAutoConvert, AutoConvertOver
<1> QED BY <1>1, <1>2 DEF QueueTypes, DistinctIds

(* The worker sleeps on: its task is as it was, or it is woken.            *)
LEMMA StillNoLostWakeup ==
    ASSUME NoLostWakeup, worker'.pc = "wait" => worker.pc = "wait",
           wake' \/ (UNCHANGED <<perReceive, pendingTask>> /\ wake' = wake)
    PROVE  NoLostWakeup'
BY DEF NoLostWakeup, WorkerAt, NextTask, Ready

(* What it takes for an event, another instance or a sweep to keep the     *)
(* invariant.                                                              *)
LEMMA EventKeeps ==
    ASSUME SBInv, UNCHANGED <<tokenVars, worker, user, sender>>,
           QueueTypes', FundTypes', EventTypes', StatusTypes', NoLostWakeup',
           \A p \in Payments : conversions[p] > 0 => conversions'[p] > 0,
           \A p \in Payments : status'[p] = "completed" => status[p] = "completed",
           persisted' = perReceive' \/ UNCHANGED <<perReceive, persisted>>
    PROVE  SBInv'
<1>1. SBTypes /\ WorkerOK /\ UserOK /\ CacheIsQueue /\ CompletedIsConverted
  BY DEF SBInv
<1>2. SBTypes'
  BY <1>1 DEF SBTypes, TokenTypes, TaskTypes, tokenVars
<1>3. worker.pc = "mark" => worker.task.of \in Payments
  BY <1>1, TaskFacts DEF SBTypes, TaskTypes, Workers, WorkerOK
<1>4. worker.pc = "mark" => conversions'[worker.task.of] = 1
  BY <1>1, <1>2, <1>3 DEF SBTypes, FundTypes, WorkerOK
<1>5. WorkerOK' /\ UserOK'
  BY <1>1, <1>4 DEF WorkerOK, UserOK
<1>6. CacheIsQueue' /\ CompletedIsConverted'
  BY <1>1 DEF CacheIsQueue, Recovered, CompletedIsConverted, WorkerAt
<1> QED BY <1>2, <1>5, <1>6 DEF SBInv

(* What it takes for a step of the worker that leaves the queue alone.     *)
LEMMA WorkerKeeps ==
    ASSUME SBInv, UNCHANGED <<queueVars, status, otherVars>>, Recovered,
           worker' \in Workers, WorkerOK', FundTypes',
           \A p \in Payments : conversions[p] > 0 => conversions'[p] > 0,
           worker'.pc = "wait" => NextTask = NoTask
    PROVE  SBInv'
<1>1. SBTypes /\ UserOK /\ CacheIsQueue /\ CompletedIsConverted
  BY DEF SBInv
<1>2. SBTypes'
  BY <1>1 DEF SBTypes, QueueTypes, DistinctIds, TokenTypes, EventTypes, StatusTypes, TaskTypes, queueVars,
              tokenVars, eventVars, otherVars
<1>3. UserOK' /\ CacheIsQueue' /\ CompletedIsConverted'
  BY <1>1 DEF UserOK, CacheIsQueue, Recovered, CompletedIsConverted, WorkerAt, queueVars, otherVars
<1>4. NoLostWakeup'
  BY DEF NoLostWakeup, WorkerAt, NextTask, Ready, queueVars
<1> QED BY <1>2, <1>3, <1>4 DEF SBInv

(* What it takes for a step of set_active_token. *)
LEMMA UserKeeps ==
    ASSUME SBInv, UNCHANGED <<fundVars, eventVars, worker, sender>>,
           QueueTypes', TokenTypes', StatusTypes', NoLostWakeup', user' \in Users, UserOK',
           \A p \in Payments : status'[p] = "completed" => status[p] = "completed",
           persisted' = perReceive' \/ UNCHANGED <<perReceive, persisted>>
    PROVE  SBInv'
<1>1. SBTypes /\ WorkerOK /\ CacheIsQueue /\ CompletedIsConverted
  BY DEF SBInv
<1>2. SBTypes'
  BY <1>1 DEF SBTypes, FundTypes, EventTypes, TaskTypes, fundVars, eventVars
<1>3. WorkerOK'
  BY <1>1 DEF WorkerOK, fundVars
<1>4. CacheIsQueue' /\ CompletedIsConverted'
  BY <1>1 DEF CacheIsQueue, Recovered, CompletedIsConverted, WorkerAt, fundVars
<1> QED BY <1>2, <1>3, <1>4 DEF SBInv
-----------------------------------------------------------------------------
(* A first start satisfies the invariant. *)
LEMMA SBInitInv == SBInit => SBInv
<1> SUFFICES ASSUME SBInit PROVE SBInv
  OBVIOUS
<1>1. QueueTypes
  <2>1. <<>> \in Seq(QueueEntries) /\ DistinctIds(<<>>)
    BY DEF DistinctIds
  <2> QED BY <2>1, TaskFacts DEF SBInit, QueueTypes
<1>2. TokenTypes /\ EventTypes
  BY StableBalanceAssumption DEF SBInit, TokenTypes, EventTypes, NoSweep
<1>3. FundTypes /\ StatusTypes
  BY DEF SBInit, FundTypes, StatusTypes
<1>4. TaskTypes
  BY TaskFacts, NoQueue DEF SBInit, TaskTypes, Workers, WorkerPcs, Users, WorkerStart, UserIdle
<1>5. WorkerOK /\ UserOK
  BY DEF SBInit, WorkerOK, UserOK, WorkerStart, UserIdle
<1>6. CacheIsQueue /\ CompletedIsConverted /\ NoLostWakeup
  BY DEF SBInit, CacheIsQueue, Recovered, CompletedIsConverted, NoLostWakeup, WorkerStart, WorkerAt
<1> QED BY <1>1, <1>2, <1>3, <1>4, <1>5, <1>6 DEF SBInv, SBTypes

(* A payment is received. *)
LEMMA PaymentReceivedInv ==
    ASSUME SBInv, NEW p \in Payments, PaymentReceived(p)
    PROVE  SBInv'
<1>0. QueueTypes /\ FundTypes /\ EventTypes /\ StatusTypes /\ NoLostWakeup
  BY DEF SBInv, SBTypes
<1>1. /\ received' = received \cup {p} /\ own' \in {own, own + 1}
      /\ UNCHANGED <<tokenVars, worker, user, sender, held, conversions, firstSync, aged, sweep, known>>
  BY DEF PaymentReceived
<1>2. FundTypes' /\ UNCHANGED <<worker, user, sender>>
  BY <1>0, <1>1 DEF FundTypes
<1>3. CASE Mark({p}, "pending") /\ handling' = handling \cup {p} /\ UNCHANGED queueVars
  <2>1. EventTypes'
    BY <1>0, <1>1, <1>3 DEF EventTypes
  <2>2. StatusTypes' /\ \A q \in Payments : status'[q] = "completed" => status[q] = "completed"
    BY <1>0, <1>3 DEF StatusTypes, Mark
  <2>3. QueueTypes' /\ NoLostWakeup'
    BY <1>0, <1>2, <1>3, StillNoLostWakeup DEF QueueTypes, DistinctIds, queueVars
  <2> QED BY <1>1, <1>2, <1>3, <2>1, <2>2, <2>3, EventKeeps DEF queueVars
<1>4. CASE PushAutoConvert /\ UNCHANGED <<status, handling, perReceive, persisted>>
  <2>1. EventTypes' /\ StatusTypes'
    BY <1>0, <1>1, <1>4 DEF EventTypes, StatusTypes
  <2>2. QueueTypes' /\ (wake' \/ (pendingTask' = pendingTask /\ wake' = wake))
    BY <1>0, <1>4, PushAutoConvertFacts
  <2>3. NoLostWakeup'
    BY <1>0, <1>2, <1>4, <2>2, StillNoLostWakeup
  <2> QED BY <1>1, <1>2, <1>4, <2>1, <2>2, <2>3, EventKeeps
<1> QED BY <1>3, <1>4 DEF PaymentReceived

(* push_per_receive *)
LEMMA QueueReceiveInv ==
    ASSUME SBInv, NEW p \in Payments, QueueReceive(p)
    PROVE  SBInv'
<1> DEFINE entry == [id |-> p, state |-> "ready"]
<1>0. QueueTypes /\ FundTypes /\ EventTypes /\ StatusTypes /\ NoLostWakeup
  BY DEF SBInv, SBTypes
<1>1. /\ handling' = handling \ {p} /\ PushPerReceive(p)
      /\ UNCHANGED <<tokenVars, taskVars, fundVars, status, firstSync, received, sweep, known>>
  BY DEF QueueReceive
<1>2. FundTypes' /\ StatusTypes' /\ UNCHANGED <<worker, user, sender, conversions>>
  BY <1>0, <1>1 DEF FundTypes, StatusTypes, taskVars, fundVars
<1>3. CASE p \in Ids(perReceive)
  <2>1. UNCHANGED <<queueVars, aged>>
    BY <1>1, <1>3 DEF PushPerReceive
  <2>2. EventTypes'
    BY <1>0, <1>1, <2>1 DEF EventTypes
  <2>3. QueueTypes' /\ NoLostWakeup'
    BY <1>0, <1>2, <2>1, StillNoLostWakeup DEF QueueTypes, DistinctIds, queueVars
  <2> QED BY <1>1, <1>2, <2>1, <2>2, <2>3, EventKeeps DEF queueVars
<1>4. CASE p \notin Ids(perReceive)
  <2>1. /\ perReceive' = Append(perReceive, entry) /\ persisted' = perReceive'
        /\ wake' = TRUE /\ aged' = aged \ {p} /\ UNCHANGED pendingTask
    BY <1>1, <1>4 DEF PushPerReceive, SetQueue
  <2>2. EventTypes'
    BY <1>0, <1>1, <2>1 DEF EventTypes
  <2>3. entry \in QueueEntries /\ entry.id = p
    BY DEF QueueEntries
  <2> HIDE DEF entry
  <2> DEFINE n == Len(perReceive)
  <2>4. /\ perReceive' \in Seq(QueueEntries) /\ n \in Nat
        /\ DOMAIN perReceive = 1..n /\ DOMAIN perReceive' = 1..(n + 1)
        /\ \A i \in 1..n : perReceive'[i] = perReceive[i]
        /\ perReceive'[n + 1] = entry
    BY <1>0, <2>1, <2>3, AppendProperties DEF QueueTypes
  <2> HIDE DEF n
  <2>5. \A i \in 1..n : perReceive[i].id # p
    BY <1>4, <2>4 DEF Ids
  <2>6. DistinctIds(perReceive')
    <3>1. \A i, j \in 1..n : perReceive[i].id = perReceive[j].id => i = j
      BY <1>0, <2>4 DEF QueueTypes, DistinctIds
    <3>2. \A i, j \in 1..(n + 1) : perReceive'[i].id = perReceive'[j].id => i = j
      BY <2>3, <2>4, <2>5, <3>1
    <3> QED BY <2>4, <3>2 DEF DistinctIds
  <2>7. QueueTypes'
    BY <1>0, <2>1, <2>4, <2>6 DEF QueueTypes, DistinctIds
  <2>8. NoLostWakeup'
    BY <1>0, <1>2, <2>1, StillNoLostWakeup
  <2> QED BY <1>1, <1>2, <2>1, <2>2, <2>7, <2>8, EventKeeps
<1> QED BY <1>3, <1>4

(* A queue some tasks have left, under the lock. *)
LEMMA SetQueueWithout ==
    ASSUME QueueTypes, NEW ids, SetQueue(Without(perReceive, ids)),
           pendingTask' \in Tasks, pendingTask'.kind # "receive", wake' \in BOOLEAN
    PROVE  QueueTypes' /\ persisted' = perReceive'
<1>1. Without(perReceive, ids) \in Seq(QueueEntries) /\ DistinctIds(Without(perReceive, ids))
  BY WithoutFacts DEF QueueTypes
<1>2. perReceive' = Without(perReceive, ids) /\ persisted' = Without(perReceive, ids)
  BY DEF SetQueue
<1> QED BY <1>1, <1>2 DEF QueueTypes, DistinctIds

(* The conversion payment of a task arrives. *)
LEMMA ConversionPaidInv ==
    ASSUME SBInv, NEW p \in Payments, ConversionPaid(p)
    PROVE  SBInv'
<1>0. QueueTypes /\ FundTypes /\ EventTypes /\ StatusTypes /\ NoLostWakeup
  BY DEF SBInv, SBTypes
<1>1. /\ known' = known \cup {p}
      /\ UNCHANGED <<tokenVars, taskVars, fundVars, status, firstSync, aged, received, handling, sweep>>
  BY DEF ConversionPaid
<1>2. FundTypes' /\ StatusTypes' /\ EventTypes' /\ UNCHANGED <<worker, user, sender, conversions>>
  BY <1>0, <1>1 DEF FundTypes, StatusTypes, EventTypes, taskVars, fundVars
<1>3. CASE IsDeferred(p)
  <2>1. SetQueue(Without(perReceive, {p})) /\ wake' = TRUE /\ UNCHANGED pendingTask
    BY <1>3 DEF ConversionPaid, ResolveByConversionPayment
  <2>2. QueueTypes' /\ persisted' = perReceive'
    <3>1. pendingTask' \in Tasks /\ pendingTask'.kind # "receive" /\ wake' \in BOOLEAN
      BY <1>0, <2>1 DEF QueueTypes
    <3> QED BY <1>0, <2>1, <3>1, SetQueueWithout
  <2>3. NoLostWakeup'
    BY <1>0, <1>2, <2>1, StillNoLostWakeup
  <2> QED BY <1>1, <1>2, <2>2, <2>3, EventKeeps
<1>4. CASE ~IsDeferred(p)
  <2>1. PushAutoConvert /\ UNCHANGED <<perReceive, persisted>>
    BY <1>4 DEF ConversionPaid
  <2>2. QueueTypes' /\ (wake' \/ (pendingTask' = pendingTask /\ wake' = wake))
    BY <1>0, <2>1, PushAutoConvertFacts
  <2>3. NoLostWakeup'
    BY <1>0, <1>2, <2>1, <2>2, StillNoLostWakeup
  <2> QED BY <1>1, <1>2, <2>1, <2>2, <2>3, EventKeeps
<1> QED BY <1>3, <1>4

(* Synced, up to the expired tasks leaving the queue *)
LEMMA ClearExpiredTasksInv ==
    ASSUME SBInv, ClearExpiredTasks
    PROVE  SBInv'
<1>0. QueueTypes /\ FundTypes /\ EventTypes /\ StatusTypes /\ NoLostWakeup
  BY DEF SBInv, SBTypes
<1>1. /\ sweep' = [on |-> TRUE, ids |-> Expired]
      /\ UNCHANGED <<pendingTask, tokenVars, taskVars, fundVars, status, firstSync, aged, received, handling, known>>
  BY DEF ClearExpiredTasks
<1>2. Expired \subseteq Payments
  BY <1>0 DEF Expired, EventTypes
<1>3. FundTypes' /\ StatusTypes' /\ EventTypes' /\ UNCHANGED <<worker, user, sender, conversions>>
  BY <1>0, <1>1, <1>2 DEF FundTypes, StatusTypes, EventTypes, taskVars, fundVars
<1>4. CASE Expired = {}
  <2>1. UNCHANGED <<perReceive, persisted, wake>>
    BY <1>4 DEF ClearExpiredTasks
  <2>2. QueueTypes'
    BY <1>0, <1>1, <2>1 DEF QueueTypes, DistinctIds
  <2>3. NoLostWakeup'
    BY <1>0, <1>1, <1>3, <2>1, StillNoLostWakeup
  <2> QED BY <1>1, <1>3, <2>1, <2>2, <2>3, EventKeeps
<1>5. CASE Expired # {}
  <2>1. SetQueue(Without(perReceive, Expired)) /\ wake' = TRUE
    BY <1>5 DEF ClearExpiredTasks
  <2>2. QueueTypes' /\ persisted' = perReceive'
    <3>1. pendingTask' \in Tasks /\ pendingTask'.kind # "receive" /\ wake' \in BOOLEAN
      BY <1>0, <1>1, <2>1 DEF QueueTypes
    <3> QED BY <1>0, <2>1, <3>1, SetQueueWithout
  <2>3. NoLostWakeup'
    BY <1>0, <1>3, <2>1, StillNoLostWakeup
  <2> QED BY <1>1, <1>3, <2>2, <2>3, EventKeeps
<1> QED BY <1>4, <1>5

(* Synced, from the marking on *)
LEMMA SyncedInv ==
    ASSUME SBInv, Synced
    PROVE  SBInv'
<1>0. QueueTypes /\ FundTypes /\ EventTypes /\ StatusTypes /\ NoLostWakeup
  BY DEF SBInv, SBTypes
<1>1. /\ sweep' = NoSweep /\ Mark(sweep.ids, "failed") /\ firstSync' = TRUE /\ PushAutoConvert
      /\ UNCHANGED <<perReceive, persisted, tokenVars, taskVars, fundVars, aged, received, handling, known>>
  BY DEF Synced
<1>2. FundTypes' /\ EventTypes' /\ UNCHANGED <<worker, user, sender, conversions>>
  BY <1>0, <1>1 DEF FundTypes, EventTypes, NoSweep, taskVars, fundVars
<1>3. StatusTypes' /\ \A q \in Payments : status'[q] = "completed" => status[q] = "completed"
  BY <1>0, <1>1 DEF StatusTypes, Mark
<1>4. QueueTypes' /\ (wake' \/ (pendingTask' = pendingTask /\ wake' = wake))
  BY <1>0, <1>1, PushAutoConvertFacts
<1>5. NoLostWakeup'
  BY <1>0, <1>1, <1>2, <1>4, StillNoLostWakeup
<1> QED BY <1>1, <1>2, <1>3, <1>4, <1>5, EventKeeps

(* Time passes, and another instance converts a payment. *)
LEMMA OutsideInv ==
    ASSUME SBInv, NEW p \in Payments, Age(p) \/ OtherConverts(p)
    PROVE  SBInv'
<1>0. QueueTypes /\ FundTypes /\ EventTypes /\ StatusTypes /\ NoLostWakeup
  BY DEF SBInv, SBTypes
<1>1. UNCHANGED <<queueVars, tokenVars, worker, user, sender, status>>
  BY DEF Age, OtherConverts, taskVars
<1>2. QueueTypes' /\ StatusTypes' /\ NoLostWakeup'
  BY <1>0, <1>1, StillNoLostWakeup DEF QueueTypes, DistinctIds, StatusTypes, queueVars
<1>3. EventTypes'
  BY <1>0 DEF EventTypes, Age, OtherConverts, eventVars
<1>4. FundTypes' /\ \A q \in Payments : conversions[q] > 0 => conversions'[q] > 0
  <2>1. CASE Age(p)
    BY <1>0, <2>1 DEF Age, FundTypes, fundVars
  <2>2. CASE OtherConverts(p)
    BY <1>0, <2>2 DEF OtherConverts, FundTypes
  <2> QED BY <2>1, <2>2
<1> QED BY <1>1, <1>2, <1>3, <1>4, EventKeeps DEF queueVars
-----------------------------------------------------------------------------
(* recover_pending_conversions, up to the queue's lock *)
LEMMA FetchPendingInv ==
    ASSUME SBInv, FetchPending
    PROVE  SBInv'
<1>0. SBTypes /\ QueueTypes /\ UserOK /\ CompletedIsConverted /\ worker \in Workers
  BY DEF SBInv, SBTypes, TaskTypes
<1>1. /\ worker' = [WorkerStart EXCEPT !.pc = "recover", !.cached = persisted]
      /\ UNCHANGED <<queueVars, fundVars, status, otherVars>>
  BY DEF FetchPending
<1>2. worker' \in Workers /\ worker'.pc = "recover"
  <2>1. persisted \in Queues
    BY <1>0 DEF QueueTypes, Queues
  <2> QED BY <1>1, <2>1, TaskFacts DEF WorkerStart, Workers, WorkerPcs
<1>3. SBTypes'
  BY <1>0, <1>1, <1>2 DEF SBTypes, QueueTypes, DistinctIds, TokenTypes, FundTypes, EventTypes, StatusTypes,
                          TaskTypes, queueVars, tokenVars, fundVars, eventVars, otherVars
<1>4. WorkerOK' /\ UserOK' /\ CacheIsQueue' /\ CompletedIsConverted' /\ NoLostWakeup'
  BY <1>0, <1>1, <1>2 DEF WorkerOK, UserOK, CacheIsQueue, Recovered, CompletedIsConverted, NoLostWakeup,
                          WorkerAt, fundVars, otherVars
<1> QED BY <1>3, <1>4 DEF SBInv

(* recover_pending_conversions: the cached tasks that are not queued yet.  *)
LEMMA RecoverPendingInv ==
    ASSUME SBInv, RecoverPending
    PROVE  SBInv'
<1> DEFINE cached == Without(worker.cached, Ids(perReceive))
           all == perReceive \o cached
           n == Len(perReceive)
<1>0. SBTypes /\ QueueTypes /\ UserOK /\ CompletedIsConverted /\ worker \in Workers
  BY DEF SBInv, SBTypes, TaskTypes
<1>1. /\ perReceive' = all /\ persisted' = all /\ worker' = [WorkerStart EXCEPT !.pc = "gate"]
      /\ UNCHANGED <<pendingTask, wake, fundVars, status, otherVars>>
  BY DEF RecoverPending, SetQueue
<1>2. /\ cached \in Seq(QueueEntries) /\ DistinctIds(cached)
      /\ \A i \in DOMAIN cached : cached[i].id \notin Ids(perReceive)
  <2>1. worker.cached \in Seq(QueueEntries) /\ DistinctIds(worker.cached)
    BY <1>0 DEF Workers, Queues
  <2> QED BY <2>1, WithoutFacts
<1> HIDE DEF cached
<1>3. /\ all \in Seq(QueueEntries) /\ Len(all) = n + Len(cached) /\ n \in Nat /\ Len(cached) \in Nat
      /\ DOMAIN perReceive = 1..n /\ DOMAIN cached = 1..Len(cached) /\ DOMAIN all = 1..Len(all)
      /\ \A i \in 1..Len(all) : all[i] = IF i <= n THEN perReceive[i] ELSE cached[i - n]
  <2>1. perReceive \in Seq(QueueEntries)
    BY <1>0 DEF QueueTypes
  <2> QED BY <1>2, <2>1, ConcatProperties
<1> HIDE DEF all, n
<1>4. DistinctIds(all)
  <2>1. \A i \in 1..n : \A j \in 1..Len(cached) : perReceive[i].id # cached[j].id
    BY <1>2, <1>3 DEF Ids
  <2>2. \A i, j \in 1..n : perReceive[i].id = perReceive[j].id => i = j
    BY <1>0, <1>3 DEF QueueTypes, DistinctIds
  <2>3. \A i, j \in 1..Len(cached) : cached[i].id = cached[j].id => i = j
    BY <1>2, <1>3 DEF DistinctIds
  <2> SUFFICES ASSUME NEW i \in 1..Len(all), NEW j \in 1..Len(all), all[i].id = all[j].id
               PROVE  i = j
    BY <1>3 DEF DistinctIds
  <2>4. CASE i <= n /\ j <= n
    BY <1>3, <2>2, <2>4
  <2>5. CASE i > n /\ j > n
    <3>1. i - n \in 1..Len(cached) /\ j - n \in 1..Len(cached)
      BY <1>3, <2>5
    <3>2. i - n = j - n
      BY <1>3, <2>3, <2>5, <3>1
    <3> QED BY <1>3, <3>2
  <2>6. CASE i <= n /\ j > n
    <3>1. i \in 1..n /\ j - n \in 1..Len(cached)
      BY <1>3, <2>6
    <3> QED BY <1>3, <2>1, <2>6, <3>1
  <2>7. CASE i > n /\ j <= n
    <3>1. j \in 1..n /\ i - n \in 1..Len(cached)
      BY <1>3, <2>7
    <3> QED BY <1>3, <2>1, <2>7, <3>1
  <2> QED BY <1>3, <2>4, <2>5, <2>6, <2>7
<1>5. worker' \in Workers /\ worker'.pc = "gate"
  BY <1>1, TaskFacts, NoQueue DEF WorkerStart, Workers, WorkerPcs
<1>6. QueueTypes'
  BY <1>0, <1>1, <1>3, <1>4 DEF QueueTypes, DistinctIds
<1>7. SBTypes'
  BY <1>0, <1>1, <1>5, <1>6 DEF SBTypes, TokenTypes, FundTypes, EventTypes, StatusTypes, TaskTypes,
                                tokenVars, fundVars, eventVars, otherVars
<1>8. WorkerOK' /\ UserOK' /\ CacheIsQueue' /\ CompletedIsConverted' /\ NoLostWakeup'
  BY <1>0, <1>1, <1>5 DEF WorkerOK, UserOK, CacheIsQueue, Recovered, CompletedIsConverted, NoLostWakeup, WorkerAt,
                          fundVars, otherVars
<1> QED BY <1>7, <1>8 DEF SBInv

(* What it takes for a step of the worker after which it is neither asleep *)
(* nor in the middle of a task.                                            *)
LEMMA WorkerDone ==
    ASSUME SBInv, worker' \in Workers, worker'.pc \in {"gate", "loop", "clear", "complete"},
           QueueTypes', EventTypes', persisted' = perReceive',
           UNCHANGED <<fundVars, status, tokenVars, user, sender>>
    PROVE  SBInv'
<1>1. SBTypes /\ UserOK /\ CompletedIsConverted
  BY DEF SBInv
<1>2. SBTypes'
  BY <1>1 DEF SBTypes, TokenTypes, FundTypes, StatusTypes, TaskTypes, tokenVars, fundVars
<1>3. WorkerOK' /\ NoLostWakeup'
  BY DEF WorkerOK, NoLostWakeup, WorkerAt
<1>4. UserOK' /\ CacheIsQueue' /\ CompletedIsConverted'
  BY <1>1 DEF UserOK, CacheIsQueue, Recovered, CompletedIsConverted, fundVars
<1> QED BY <1>2, <1>3, <1>4 DEF SBInv

(* The worker's gate, its loop and its sleep. *)
LEMMA PassGateInv ==
    ASSUME SBInv, PassGate
    PROVE  SBInv'
<1>0. QueueTypes /\ EventTypes /\ worker \in Workers /\ CacheIsQueue
  BY DEF SBInv, SBTypes, TaskTypes
<1>1. /\ WorkerAt("gate") /\ firstSync' = FALSE /\ PushAutoConvert /\ Goto("loop")
      /\ UNCHANGED <<perReceive, persisted, fundVars, status, tokenVars, aged, received, handling, sweep, known,
                     user, sender, events>>
  BY DEF PassGate
<1>2. worker' \in Workers /\ worker'.pc = "loop"
  BY <1>0, <1>1, GotoFacts DEF WorkerPcs
<1>3. QueueTypes'
  BY <1>0, <1>1, PushAutoConvertFacts
<1>4. EventTypes'
  BY <1>0, <1>1 DEF EventTypes
<1>5. persisted' = perReceive'
  BY <1>0, <1>1 DEF CacheIsQueue, Recovered, WorkerAt
<1> QED BY <1>1, <1>2, <1>3, <1>4, <1>5, WorkerDone

(* The worker takes the next task, and sleeps only when there is none. *)
LEMMA TakeTaskInv ==
    ASSUME SBInv, TakeTask
    PROVE  SBInv'
<1>0. QueueTypes /\ FundTypes
  BY DEF SBInv, SBTypes
<1>1. WorkerAt("loop") /\ UNCHANGED <<queueVars, fundVars, status, otherVars>>
  BY DEF TakeTask
<1>2. /\ NextTask \in Tasks /\ NextTask.kind \in {"none", "auto", "deactivation", "receive"}
      /\ NextTask.kind = "none" => NextTask = NoTask
  BY <1>0, NextTaskFacts, TaskFacts
<1> DEFINE first == FirstStep[NextTask.kind]
<1>3. /\ NextTask.kind = "none" => first = "wait"
      /\ NextTask.kind = "auto" => first = "lock"
      /\ NextTask.kind = "deactivation" => first = "deactivate"
      /\ NextTask.kind = "receive" => first = "prepare"
  BY DEF FirstStep
<1>4. worker' = [WorkerStart EXCEPT !.pc = first, !.task = NextTask]
  BY DEF TakeTask
<1> HIDE DEF first
<1>5. first \in WorkerPcs /\ first \in {"wait", "lock", "deactivate", "prepare"}
  BY <1>2, <1>3 DEF WorkerPcs
<1>6. worker' \in Workers /\ worker'.pc = first /\ worker'.task = NextTask
  BY <1>2, <1>4, <1>5, NoQueue DEF Workers, WorkerStart
<1>7. WorkerOK'
  BY <1>2, <1>3, <1>5, <1>6 DEF WorkerOK
<1>8. FundTypes' /\ UNCHANGED conversions
  BY <1>0, <1>1 DEF FundTypes, fundVars
<1>9. worker'.pc = "wait" => NextTask = NoTask
  BY <1>2, <1>3, <1>5, <1>6
<1>10. Recovered
  BY <1>1 DEF Recovered, WorkerAt
<1> QED BY <1>1, <1>6, <1>7, <1>8, <1>9, <1>10, WorkerKeeps

(* A permit is used up. *)
LEMMA WokenInv ==
    ASSUME SBInv, Woken
    PROVE  SBInv'
<1>0. QueueTypes /\ EventTypes /\ worker \in Workers /\ CacheIsQueue
  BY DEF SBInv, SBTypes, TaskTypes
<1>1. /\ WorkerAt("wait") /\ wake' = FALSE /\ Goto("loop")
      /\ UNCHANGED <<perReceive, pendingTask, persisted, fundVars, status, otherVars>>
  BY DEF Woken
<1>2. worker' \in Workers /\ worker'.pc = "loop"
  BY <1>0, <1>1, GotoFacts DEF WorkerPcs
<1>3. QueueTypes' /\ EventTypes'
  BY <1>0, <1>1 DEF QueueTypes, DistinctIds, EventTypes, otherVars, eventVars
<1>4. persisted' = perReceive'
  BY <1>0, <1>1 DEF CacheIsQueue, Recovered, WorkerAt
<1> QED BY <1>1, <1>2, <1>3, <1>4, WorkerDone DEF otherVars

(* per_receive_convert *)
LEMMA PreparePerReceiveInv ==
    ASSUME SBInv, PreparePerReceive
    PROVE  SBInv'
<1>0. SBTypes /\ FundTypes /\ TokenTypes /\ worker \in Workers /\ WorkerOK
  BY DEF SBInv, SBTypes, TaskTypes
<1>1. WorkerAt("prepare") /\ UNCHANGED <<queueVars, fundVars, status, otherVars>>
  BY DEF PreparePerReceive
<1>2. /\ worker' \in Workers /\ worker'.pc \in {"complete", "defer", "swap"}
      /\ worker'.task = worker.task
      /\ worker'.pc = "swap" => worker'.token \in Tokens
  <2>1. CASE activeToken = NoToken
    <3>1. Goto("complete")
      BY <2>1 DEF PreparePerReceive
    <3> QED BY <1>0, <3>1, GotoFacts DEF WorkerPcs
  <2>2. CASE activeToken # NoToken
    <3>1. PICK pc \in {"defer", "complete", "swap"} : worker' = [worker EXCEPT !.pc = pc, !.token = activeToken]
      BY <2>2 DEF PreparePerReceive
    <3>2. activeToken \in Tokens
      BY <1>0, <2>2 DEF TokenTypes
    <3> QED BY <1>0, <3>1, <3>2 DEF Workers, WorkerPcs
  <2> QED BY <2>1, <2>2
<1>3. WorkerOK'
  BY <1>0, <1>1, <1>2 DEF WorkerOK, WorkerAt
<1>4. FundTypes' /\ UNCHANGED conversions
  BY <1>0, <1>1 DEF FundTypes, fundVars
<1>5. Recovered /\ worker'.pc # "wait"
  BY <1>1, <1>2 DEF Recovered, WorkerAt
<1> QED BY <1>1, <1>2, <1>3, <1>4, <1>5, WorkerKeeps

(* The swap of a payment that is not converted yet. *)
LEMMA ConvertPerReceiveInv ==
    ASSUME SBInv, ConvertPerReceive
    PROVE  SBInv'
<1> DEFINE p == worker.task.of
<1>0. SBTypes /\ FundTypes /\ worker \in Workers /\ WorkerOK
  BY DEF SBInv, SBTypes, TaskTypes
<1>1. WorkerAt("swap") /\ UNCHANGED <<queueVars, status, otherVars>>
  BY DEF ConvertPerReceive
<1>2. PICK pc \in {"mark", "complete", "defer"} : SwapPerReceive(p, pc) /\ Goto(pc)
  BY DEF ConvertPerReceive
<1>3. worker' \in Workers /\ worker'.pc = pc /\ worker'.task = worker.task
  BY <1>0, <1>2, GotoFacts DEF WorkerPcs
<1>4. p \in Payments /\ worker.task.kind = "receive" /\ worker.token \in Tokens
  BY <1>0, <1>1, TaskFacts DEF WorkerOK, WorkerAt, Workers
<1> HIDE DEF p
<1>5. /\ FundTypes' /\ \A q \in Payments : conversions[q] > 0 => conversions'[q] > 0
      /\ pc = "mark" => conversions'[p] = 1
  <2>1. CASE UNCHANGED fundVars /\ pc # "mark"
    BY <1>0, <2>1 DEF FundTypes, fundVars
  <2>2. CASE /\ conversions[p] = 0 /\ own > 0
             /\ conversions' = [conversions EXCEPT ![p] = @ + 1]
             /\ own' = own - 1 /\ held' = [held EXCEPT ![worker.token] = @ + 1]
    BY <1>0, <1>4, <2>2 DEF FundTypes
  <2>3. conversions[p] \in 0..1
    BY <1>0, <1>4 DEF FundTypes
  <2> QED BY <1>2, <2>1, <2>2, <2>3 DEF SwapPerReceive
<1>6. WorkerOK'
  BY <1>3, <1>4, <1>5 DEF WorkerOK, p
<1>7. Recovered /\ worker'.pc # "wait"
  BY <1>1, <1>3 DEF Recovered, WorkerAt
<1> QED BY <1>1, <1>3, <1>5, <1>6, <1>7, WorkerKeeps

(* Only what the worker has converted is marked. *)
LEMMA MarkCompletedInv ==
    ASSUME SBInv, MarkCompleted
    PROVE  SBInv'
<1> DEFINE p == worker.task.of
<1>0. SBTypes /\ WorkerOK /\ UserOK /\ CacheIsQueue /\ CompletedIsConverted /\ worker \in Workers
  BY DEF SBInv, SBTypes, TaskTypes
<1>1. /\ WorkerAt("mark") /\ Mark({p}, "completed") /\ Goto("completeConverted")
      /\ UNCHANGED <<queueVars, fundVars, otherVars>>
  BY DEF MarkCompleted
<1>2. worker' \in Workers /\ worker'.pc = "completeConverted" /\ worker'.task = worker.task
  BY <1>0, <1>1, GotoFacts DEF WorkerPcs
<1>3. worker.task.kind = "receive" /\ conversions[p] = 1
  BY <1>0, <1>1 DEF WorkerOK, WorkerAt
<1> HIDE DEF p
<1>4. StatusTypes' /\ \A q \in Payments : status'[q] = "completed" => q = p \/ status[q] = "completed"
  BY <1>0, <1>1 DEF SBTypes, StatusTypes, Mark
<1>5. SBTypes'
  BY <1>0, <1>1, <1>2, <1>4 DEF SBTypes, QueueTypes, DistinctIds, TokenTypes, FundTypes, EventTypes, TaskTypes,
                                queueVars, tokenVars, fundVars, eventVars, otherVars
<1>6. WorkerOK' /\ NoLostWakeup'
  BY <1>2, <1>3 DEF WorkerOK, NoLostWakeup, WorkerAt
<1>7. UserOK' /\ CacheIsQueue'
  BY <1>0, <1>1, <1>2 DEF UserOK, CacheIsQueue, Recovered, WorkerAt, queueVars, otherVars
<1>8. CompletedIsConverted'
  BY <1>0, <1>1, <1>3, <1>4 DEF CompletedIsConverted, fundVars
<1> QED BY <1>5, <1>6, <1>7, <1>8 DEF SBInv

(* A deferred task keeps its place. *)
LEMMA DeferInv ==
    ASSUME SBInv, Defer
    PROVE  SBInv'
<1> DEFINE p == worker.task.of
           deferred == [i \in DOMAIN perReceive |->
                           IF perReceive[i].id = p THEN [perReceive[i] EXCEPT !.state = "deferred"]
                           ELSE perReceive[i]]
<1>0. QueueTypes /\ EventTypes /\ worker \in Workers
  BY DEF SBInv, SBTypes, TaskTypes
<1>1. /\ perReceive' = deferred /\ persisted' = deferred /\ Goto("loop")
      /\ UNCHANGED <<pendingTask, wake, fundVars, status, otherVars>>
  BY DEF Defer, DeferTask, SetQueue
<1>2. perReceive \in Seq(QueueEntries) /\ DOMAIN perReceive = 1..Len(perReceive) /\ Len(perReceive) \in Nat
  BY <1>0 DEF QueueTypes
<1>3. \A i \in DOMAIN perReceive : deferred[i] \in QueueEntries /\ deferred[i].id = perReceive[i].id
  <2>1. \A i \in DOMAIN perReceive : perReceive[i] \in QueueEntries
    BY <1>2
  <2> QED BY <2>1 DEF QueueEntries
<1>4. DOMAIN deferred = DOMAIN perReceive
  OBVIOUS
<1> HIDE DEF deferred
<1>5. deferred \in Seq(QueueEntries)
  <2>1. deferred \in [1..Len(perReceive) -> QueueEntries]
    BY <1>2, <1>3, <1>4 DEF deferred
  <2> QED BY <1>2, <2>1, SeqDef
<1>6. DistinctIds(deferred)
  BY <1>0, <1>3, <1>4 DEF DistinctIds, QueueTypes
<1>7. QueueTypes' /\ EventTypes'
  BY <1>0, <1>1, <1>5, <1>6 DEF QueueTypes, DistinctIds, EventTypes, otherVars, eventVars
<1>8. worker' \in Workers /\ worker'.pc = "loop"
  BY <1>0, <1>1, GotoFacts DEF WorkerPcs
<1> QED BY <1>1, <1>7, <1>8, WorkerDone DEF otherVars

(* complete_task *)
LEMMA CompleteInv ==
    ASSUME SBInv, Complete
    PROVE  SBInv'
<1>0. QueueTypes /\ EventTypes /\ worker \in Workers /\ CacheIsQueue
  BY DEF SBInv, SBTypes, TaskTypes
<1>1. /\ worker.pc \in {"complete", "completeConverted"} /\ CompleteTask(worker.task)
      /\ Goto(IF WorkerAt("complete") THEN "loop" ELSE "clear")
      /\ UNCHANGED <<wake, fundVars, status, otherVars>>
  BY DEF Complete
<1>2. worker' \in Workers /\ worker'.pc \in {"loop", "clear"}
  BY <1>0, <1>1, GotoFacts DEF WorkerPcs
<1>3. QueueTypes' /\ persisted' = perReceive'
  <2>1. CASE worker.task.kind = "receive"
    <3>1. SetQueue(Without(perReceive, {worker.task.of})) /\ UNCHANGED <<pendingTask, wake>>
      BY <1>1, <2>1 DEF CompleteTask
    <3>2. pendingTask' \in Tasks /\ pendingTask'.kind # "receive" /\ wake' \in BOOLEAN
      BY <1>0, <3>1 DEF QueueTypes
    <3> QED BY <1>0, <3>1, <3>2, SetQueueWithout
  <2>2. CASE worker.task.kind # "receive"
    <3>1. pendingTask' = NoTask /\ UNCHANGED <<perReceive, persisted, wake>>
      BY <1>1, <2>2 DEF CompleteTask
    <3>2. QueueTypes'
      BY <1>0, <3>1, TaskFacts DEF QueueTypes, DistinctIds
    <3> QED BY <1>0, <1>1, <3>1, <3>2 DEF CacheIsQueue, Recovered, WorkerAt
  <2> QED BY <2>1, <2>2
<1>4. EventTypes'
  BY <1>0, <1>1 DEF EventTypes, otherVars, eventVars
<1> QED BY <1>1, <1>2, <1>3, <1>4, WorkerDone DEF otherVars

(* The pending auto-convert goes after a conversion. *)
LEMMA ClearPendingAutoConvertInv ==
    ASSUME SBInv, ClearPendingAutoConvert
    PROVE  SBInv'
<1>0. QueueTypes /\ EventTypes /\ worker \in Workers /\ CacheIsQueue
  BY DEF SBInv, SBTypes, TaskTypes
<1>1. /\ WorkerAt("clear") /\ Goto("loop")
      /\ pendingTask' = IF pendingTask = AutoConvert THEN NoTask ELSE pendingTask
      /\ UNCHANGED <<perReceive, persisted, wake, fundVars, status, otherVars>>
  BY DEF ClearPendingAutoConvert
<1>2. worker' \in Workers /\ worker'.pc = "loop"
  BY <1>0, <1>1, GotoFacts DEF WorkerPcs
<1>3. QueueTypes' /\ EventTypes'
  BY <1>0, <1>1, TaskFacts DEF QueueTypes, DistinctIds, EventTypes, otherVars, eventVars
<1>4. persisted' = perReceive'
  BY <1>0, <1>1 DEF CacheIsQueue, Recovered, WorkerAt
<1> QED BY <1>1, <1>2, <1>3, <1>4, WorkerDone DEF otherVars
(* auto_convert, which counts the payments and reads the balance under     *)
(* payment_lock                                                            *)
LEMMA LockPaymentsInv ==
    ASSUME SBInv, LockPayments
    PROVE  SBInv'
<1>0. FundTypes /\ TokenTypes /\ worker \in Workers
  BY DEF SBInv, SBTypes, TaskTypes
<1>1. WorkerAt("lock") /\ UNCHANGED <<queueVars, fundVars, status, otherVars>>
  BY DEF LockPayments
<1>2. worker' \in Workers /\ worker'.pc \in {"complete", "count"} /\ (worker'.pc = "count" => worker'.token \in Tokens)
  <2>1. CASE activeToken = NoToken
    <3>1. Goto("complete")
      BY <2>1 DEF LockPayments
    <3> QED BY <1>0, <3>1, GotoFacts DEF WorkerPcs
  <2>2. CASE activeToken # NoToken
    <3>1. worker' = [worker EXCEPT !.pc = "count", !.token = activeToken]
      BY <2>2 DEF LockPayments
    <3>2. activeToken \in Tokens
      BY <1>0, <2>2 DEF TokenTypes
    <3> QED BY <1>0, <3>1, <3>2 DEF Workers, WorkerPcs
  <2> QED BY <2>1, <2>2
<1>3. WorkerOK'
  BY <1>2 DEF WorkerOK
<1>4. FundTypes' /\ UNCHANGED conversions
  BY <1>0, <1>1 DEF FundTypes, fundVars
<1>5. Recovered /\ worker'.pc # "wait"
  BY <1>1, <1>2 DEF Recovered, WorkerAt
<1> QED BY <1>1, <1>2, <1>3, <1>4, <1>5, WorkerKeeps

(* The senders that are in some state are finitely many. *)
LEMMA CountedSenders ==
    ASSUME NEW S, S \subseteq Senders
    PROVE  Cardinality(S) \in Nat /\ (Cardinality(S) = 0 <=> S = {})
BY StableBalanceAssumption, FS_Subset, FS_CardinalityType, FS_EmptySet

(* A counter of zero means that nobody sends. *)
LEMMA CountPaymentsInv ==
    ASSUME SBInv, CountPayments
    PROVE  SBInv'
<1> DEFINE sending == {s \in Senders : sender[s] # "idle"}
           pc == IF payment_counter > 0 THEN "complete" ELSE "read"
<1>0. FundTypes /\ WorkerOK /\ worker \in Workers
  BY DEF SBInv, SBTypes, TaskTypes
<1>1. WorkerAt("count") /\ Goto(pc) /\ UNCHANGED <<queueVars, fundVars, status, otherVars>>
  BY DEF CountPayments
<1>2. worker' \in Workers /\ worker'.pc = pc /\ worker'.task = worker.task /\ worker'.token = worker.token
  BY <1>0, <1>1, GotoFacts DEF WorkerPcs
<1>3. pc = "read" => \A s \in Senders : sender[s] = "idle"
  <2>1. Cardinality(sending) \in Nat /\ (Cardinality(sending) = 0 <=> sending = {})
    BY CountedSenders
  <2>2. pc = "read" => sending = {}
    BY <2>1 DEF payment_counter
  <2> QED BY <2>2
<1>4. pc \in {"complete", "read"}
  OBVIOUS
<1> HIDE DEF pc
<1>5. WorkerOK'
  BY <1>0, <1>1, <1>2, <1>3, <1>4 DEF WorkerOK, WorkerAt, otherVars
<1>6. FundTypes' /\ UNCHANGED conversions
  BY <1>0, <1>1 DEF FundTypes, fundVars
<1>7. Recovered /\ worker'.pc # "wait"
  BY <1>1, <1>2, <1>4 DEF Recovered, WorkerAt
<1> QED BY <1>1, <1>2, <1>5, <1>6, <1>7, WorkerKeeps

(* The balance that is read holds nothing of a send. *)
LEMMA ReadBalanceInv ==
    ASSUME SBInv, ReadBalance
    PROVE  SBInv'
<1>0. FundTypes /\ WorkerOK /\ worker \in Workers
  BY DEF SBInv, SBTypes, TaskTypes
<1>1. /\ WorkerAt("read") /\ UNCHANGED <<queueVars, fundVars, status, otherVars>>
      /\ worker' = [worker EXCEPT !.pc = "check", !.amount = own + swapped, !.swapped = swapped]
  BY DEF ReadBalance
<1>2. swapped = 0
  <2>1. {s \in Senders : sender[s] = "converted"} = {}
    BY <1>0, <1>1 DEF WorkerOK, WorkerAt
  <2> QED BY <2>1, FS_EmptySet DEF swapped
<1>3. worker' \in Workers /\ worker'.pc = "check" /\ worker'.token = worker.token
  <2>1. own + swapped = own /\ own \in Nat
    BY <1>0, <1>2 DEF FundTypes
  <2>2. worker' = [worker EXCEPT !.pc = "check", !.amount = own, !.swapped = 0]
    BY <1>1, <1>2, <2>1
  <2> QED BY <1>0, <2>1, <2>2 DEF Workers, WorkerPcs
<1>4. WorkerOK'
  BY <1>0, <1>1, <1>3 DEF WorkerOK, WorkerAt
<1>5. FundTypes' /\ UNCHANGED conversions
  BY <1>0, <1>1 DEF FundTypes, fundVars
<1>6. Recovered /\ worker'.pc # "wait"
  BY <1>1, <1>3 DEF Recovered, WorkerAt
<1> QED BY <1>1, <1>3, <1>4, <1>5, <1>6, WorkerKeeps

(* The conversions of the balance, either way. *)
LEMMA ConvertBalanceInv ==
    ASSUME SBInv, CheckBalance \/ ConvertBalance \/ Deactivate
    PROVE  SBInv'
<1>0. FundTypes /\ WorkerOK /\ worker \in Workers
  BY DEF SBInv, SBTypes, TaskTypes
<1>1. /\ worker.pc \in {"check", "autoSwap", "deactivate"}
      /\ UNCHANGED <<queueVars, status, otherVars>>
      /\ Goto("complete") \/ (worker.pc = "check" /\ Goto("autoSwap"))
  BY DEF CheckBalance, ConvertBalance, Deactivate, WorkerAt
<1>2. worker' \in Workers /\ worker'.pc \in {"complete", "autoSwap"} /\ worker'.token = worker.token
      /\ (worker'.pc = "autoSwap" => worker.pc = "check")
  BY <1>0, <1>1, GotoFacts DEF WorkerPcs
<1>3. WorkerOK'
  BY <1>0, <1>2 DEF WorkerOK
<1>4. FundTypes' /\ UNCHANGED conversions
  <2>1. CASE CheckBalance
    BY <1>0, <2>1 DEF CheckBalance, FundTypes, fundVars
  <2>2. CASE ConvertBalance
    <3>1. worker.token \in Tokens /\ worker.amount \in Nat
      BY <1>0, <2>2 DEF ConvertBalance, WorkerOK, WorkerAt, Workers
    <3> QED BY <1>0, <2>2, <3>1 DEF ConvertBalance, FundTypes, fundVars
  <2>3. CASE Deactivate
    <3> DEFINE token == worker.task.of
    <3>1. token \in Tokens
      BY <1>0, <2>3, TaskFacts DEF Deactivate, WorkerOK, WorkerAt, Workers
    <3>2. \/ held' = [held EXCEPT ![token] = 0] /\ own' = own + held[token] /\ UNCHANGED conversions
          \/ UNCHANGED fundVars
      BY <2>3 DEF Deactivate
    <3> HIDE DEF token
    <3> QED BY <1>0, <3>1, <3>2 DEF FundTypes, fundVars
  <2> QED BY <2>1, <2>2, <2>3
<1>5. Recovered /\ worker'.pc # "wait"
  BY <1>1, <1>2 DEF Recovered, WorkerAt
<1> QED BY <1>1, <1>2, <1>3, <1>4, <1>5, WorkerKeeps

-----------------------------------------------------------------------------
(* set_active_token *)
LEMMA ClearQueueInv ==
    ASSUME SBInv, NEW label \in Tokens \cup {NoToken, "unknown"}, ClearQueue(label)
    PROVE  SBInv'
<1>0. QueueTypes /\ TokenTypes /\ StatusTypes
  BY DEF SBInv, SBTypes
<1>1. /\ perReceive' = <<>> /\ persisted' = <<>> /\ pendingTask' = NoTask
      /\ user' = [pc |-> "mark", label |-> label, cleared |-> Ids(perReceive)]
      /\ UNCHANGED <<wake, tokenVars, fundVars, eventVars, status, worker, sender>>
  BY DEF ClearQueue, SetQueue
<1>2. QueueTypes'
  <2>1. <<>> \in Seq(QueueEntries) /\ DistinctIds(<<>>)
    BY DEF DistinctIds
  <2> QED BY <1>0, <1>1, <2>1, TaskFacts DEF QueueTypes
<1>3. Ids(perReceive) \subseteq Payments
  <2>1. \A i \in DOMAIN perReceive : perReceive[i] \in QueueEntries
    BY <1>0 DEF QueueTypes
  <2> QED BY <2>1 DEF Ids, QueueEntries
<1>4. user' \in Users /\ UserOK'
  BY <1>1, <1>3 DEF Users, UserOK
<1>5. NoLostWakeup'
  <2>1. Ready' = <<>>
    BY <1>1, SelectInEmpty DEF Ready
  <2> QED BY <1>1, <2>1 DEF NoLostWakeup, NextTask
<1>6. TokenTypes' /\ StatusTypes' /\ UNCHANGED status
  BY <1>0, <1>1 DEF TokenTypes, StatusTypes, tokenVars
<1> QED BY <1>1, <1>2, <1>4, <1>5, <1>6, UserKeeps

(* What was queued is marked failed. *)
LEMMA MarkClearedInv ==
    ASSUME SBInv, MarkCleared
    PROVE  SBInv'
<1>0. QueueTypes /\ TokenTypes /\ StatusTypes /\ NoLostWakeup /\ user \in Users
  BY DEF SBInv, SBTypes, TaskTypes
<1>1. /\ Mark(user.cleared, "failed")
      /\ user' = IF user.label = "unknown" THEN UserIdle ELSE [user EXCEPT !.pc = "save"]
      /\ UNCHANGED <<queueVars, tokenVars, fundVars, eventVars, worker, sender, events>>
  BY DEF MarkCleared
<1>2. QueueTypes' /\ TokenTypes' /\ NoLostWakeup'
  BY <1>0, <1>1, StillNoLostWakeup DEF QueueTypes, DistinctIds, TokenTypes, queueVars, tokenVars
<1>3. StatusTypes' /\ \A q \in Payments : status'[q] = "completed" => status[q] = "completed"
  BY <1>0, <1>1 DEF StatusTypes, Mark
<1>4. user' \in Users /\ UserOK'
  BY <1>0, <1>1 DEF Users, UserOK, UserIdle
<1> QED BY <1>1, <1>2, <1>3, <1>4, UserKeeps DEF queueVars

(* A deactivation is queued, or an auto-convert, and the worker woken. *)
LEMMA PushByUserInv ==
    ASSUME SBInv, PushDeactivation \/ PushAfterActivation
    PROVE  SBInv'
<1>0. QueueTypes /\ TokenTypes /\ StatusTypes /\ NoLostWakeup /\ user \in Users /\ UserOK
  BY DEF SBInv, SBTypes, TaskTypes
<1>1. UNCHANGED <<perReceive, persisted, tokenVars, fundVars, eventVars, status, worker, sender, events>>
  BY DEF PushDeactivation, PushAfterActivation
<1>2. user' \in Users /\ UserOK'
  BY <1>0 DEF PushDeactivation, PushAfterActivation, UserGoto, UserAt, Users, UserOK, UserIdle
<1>3. QueueTypes' /\ (wake' \/ (pendingTask' = pendingTask /\ wake' = wake))
  <2>1. CASE PushAfterActivation
    BY <1>0, <1>1, <2>1, PushAutoConvertFacts DEF PushAfterActivation
  <2>2. CASE PushDeactivation /\ activeToken = NoToken
    BY <1>0, <1>1, <2>2 DEF PushDeactivation, QueueTypes, DistinctIds
  <2>3. CASE PushDeactivation /\ activeToken # NoToken
    <3>1. pendingTask' = Deactivation(activeToken) /\ wake' = TRUE
      BY <2>3 DEF PushDeactivation
    <3>2. activeToken \in Tokens
      BY <1>0, <2>3 DEF TokenTypes
    <3>3. pendingTask' \in Tasks /\ pendingTask'.kind # "receive"
      BY <3>1, <3>2, TaskFacts
    <3> QED BY <1>0, <1>1, <3>1, <3>3 DEF QueueTypes, DistinctIds
  <2> QED BY <2>1, <2>2, <2>3
<1>4. NoLostWakeup'
  BY <1>0, <1>1, <1>3, StillNoLostWakeup
<1>5. TokenTypes' /\ StatusTypes'
  BY <1>0, <1>1 DEF TokenTypes, StatusTypes, tokenVars
<1> QED BY <1>1, <1>2, <1>3, <1>4, <1>5, UserKeeps

(* The label is saved and set. *)
LEMMA SetTokenInv ==
    ASSUME SBInv, SaveLabel \/ SetActiveToken
    PROVE  SBInv'
<1>0. QueueTypes /\ TokenTypes /\ StatusTypes /\ NoLostWakeup /\ user \in Users /\ UserOK
  BY DEF SBInv, SBTypes, TaskTypes
<1>1. UNCHANGED <<queueVars, fundVars, eventVars, status, worker, sender, events>>
  BY DEF SaveLabel, SetActiveToken
<1>2. user.label \in Tokens \cup {NoToken}
  BY <1>0 DEF SaveLabel, SetActiveToken, UserAt, UserOK
<1>3. TokenTypes'
  BY <1>0, <1>2 DEF SaveLabel, SetActiveToken, TokenTypes
<1>4. user' \in Users /\ UserOK'
  BY <1>0, <1>2 DEF SaveLabel, SetActiveToken, UserGoto, Users, UserOK, UserIdle
<1>5. QueueTypes' /\ StatusTypes' /\ NoLostWakeup'
  BY <1>0, <1>1, StillNoLostWakeup DEF QueueTypes, DistinctIds, StatusTypes, queueVars
<1> QED BY <1>1, <1>3, <1>4, <1>5, UserKeeps DEF queueVars

-----------------------------------------------------------------------------
(* A payment with conversion: no guard is acquired under payment_lock.     *)
LEMMA SenderInv ==
    ASSUME SBInv, NEW s \in Senders, AcquirePaymentGuard(s) \/ ConvertForSend(s) \/ DropPaymentGuard(s)
    PROVE  SBInv'
<1>0. SBTypes /\ QueueTypes /\ FundTypes /\ TaskTypes /\ NoLostWakeup /\ WorkerOK /\ UserOK /\ CacheIsQueue
      /\ CompletedIsConverted
  BY DEF SBInv, SBTypes
<1>1. UNCHANGED <<perReceive, pendingTask, persisted, tokenVars, conversions, eventVars, status, worker, user>>
  BY DEF AcquirePaymentGuard, ConvertForSend, DropPaymentGuard, queueVars, fundVars
<1>2. wake' = TRUE \/ wake' = wake
  BY DEF AcquirePaymentGuard, ConvertForSend, DropPaymentGuard, queueVars
<1>3. QueueTypes' /\ NoLostWakeup'
  BY <1>0, <1>1, <1>2, StillNoLostWakeup DEF QueueTypes, DistinctIds
<1>4. FundTypes'
  <2>1. CASE AcquirePaymentGuard(s)
    BY <1>0, <2>1 DEF AcquirePaymentGuard, FundTypes, fundVars
  <2>2. CASE ConvertForSend(s)
    <3>1. PICK t \in Tokens : held[t] > 0 /\ held' = [held EXCEPT ![t] = @ - 1]
      BY <2>2 DEF ConvertForSend
    <3> QED BY <1>0, <1>1, <2>2, <3>1 DEF ConvertForSend, FundTypes
  <2>3. CASE DropPaymentGuard(s)
    BY <1>0, <2>3 DEF DropPaymentGuard, FundTypes
  <2> QED BY <2>1, <2>2, <2>3
<1>5. sender' \in [Senders -> {"idle", "guarded", "converted"}]
  BY <1>0 DEF AcquirePaymentGuard, ConvertForSend, DropPaymentGuard, TaskTypes
<1>6. worker.pc = "read" => \A z \in Senders : sender'[z] = "idle"
  <2> SUFFICES ASSUME worker.pc = "read", NEW z \in Senders PROVE sender'[z] = "idle"
    OBVIOUS
  <2>1. \A z1 \in Senders : sender[z1] = "idle"
    BY <1>0 DEF WorkerOK
  <2>2. ~AcquirePaymentGuard(s) /\ ~ConvertForSend(s)
    BY <2>1 DEF AcquirePaymentGuard, PaymentLockFree, ConvertForSend
  <2>3. sender' = [sender EXCEPT ![s] = "idle"]
    BY <2>2 DEF DropPaymentGuard
  <2> QED BY <1>0, <2>1, <2>3 DEF TaskTypes
<1>7. SBTypes'
  BY <1>0, <1>1, <1>3, <1>4, <1>5 DEF SBTypes, TokenTypes, EventTypes, StatusTypes, TaskTypes, tokenVars, eventVars
<1>8. WorkerOK' /\ UserOK' /\ CacheIsQueue' /\ CompletedIsConverted'
  BY <1>0, <1>1, <1>6 DEF WorkerOK, UserOK, CacheIsQueue, Recovered, CompletedIsConverted, WorkerAt
<1> QED BY <1>3, <1>7, <1>8 DEF SBInv

(* The process ends and starts again. *)
LEMMA RestartInv ==
    ASSUME SBInv, Restart
    PROVE  SBInv'
<1>0. QueueTypes /\ TokenTypes /\ FundTypes /\ EventTypes /\ StatusTypes /\ CompletedIsConverted
  BY DEF SBInv, SBTypes
<1>1. /\ perReceive' = <<>> /\ pendingTask' = NoTask /\ wake' = FALSE
      /\ activeToken' = ResolveInitialToken
      /\ firstSync' = FALSE /\ handling' = {} /\ sweep' = NoSweep
      /\ worker' = WorkerStart /\ user' = UserIdle
      /\ sender' = [s \in Senders |-> "idle"]
      /\ own' \in own..(own + swapped)
      /\ UNCHANGED <<persisted, savedLabel, held, conversions, aged, received, known, status>>
  BY DEF Restart
<1>2. QueueTypes'
  <2>1. <<>> \in Seq(QueueEntries) /\ DistinctIds(<<>>)
    BY DEF DistinctIds
  <2> QED BY <1>0, <1>1, <2>1, TaskFacts DEF QueueTypes, DistinctIds
<1>3. TokenTypes' /\ EventTypes' /\ StatusTypes'
  BY <1>0, <1>1, StableBalanceAssumption
  DEF TokenTypes, EventTypes, StatusTypes, ResolveInitialToken, NoSweep
<1>4. FundTypes'
  <2>1. swapped \in Nat
    BY CountedSenders DEF swapped
  <2> QED BY <1>0, <1>1, <2>1 DEF FundTypes
<1>5. TaskTypes'
  BY <1>1, TaskFacts, NoQueue DEF TaskTypes, Workers, WorkerPcs, Users, WorkerStart, UserIdle
<1>6. worker'.pc = "start" /\ user'.pc = "idle"
  BY <1>1 DEF WorkerStart, UserIdle
<1>7. WorkerOK' /\ UserOK' /\ CacheIsQueue' /\ NoLostWakeup'
  BY <1>6 DEF WorkerOK, UserOK, CacheIsQueue, Recovered, NoLostWakeup, WorkerAt
<1>8. CompletedIsConverted'
  BY <1>0, <1>1 DEF CompletedIsConverted
<1> QED BY <1>2, <1>3, <1>4, <1>5, <1>7, <1>8 DEF SBInv, SBTypes

(* Steps that leave all of it alone. *)
LEMMA SBStutterInv ==
    ASSUME SBInv, UNCHANGED sbVars
    PROVE  SBInv'
<1>0. SBTypes /\ QueueTypes /\ FundTypes /\ EventTypes /\ StatusTypes /\ NoLostWakeup
  BY DEF SBInv, SBTypes
<1>1. UNCHANGED <<queueVars, tokenVars, worker, user, sender, status, fundVars, eventVars>>
  BY DEF sbVars, taskVars
<1>2. QueueTypes' /\ StatusTypes' /\ NoLostWakeup' /\ EventTypes' /\ FundTypes'
  BY <1>0, <1>1, StillNoLostWakeup
  DEF QueueTypes, DistinctIds, StatusTypes, EventTypes, FundTypes, queueVars, fundVars, eventVars
<1> QED BY <1>1, <1>2, EventKeeps DEF queueVars, fundVars

(* Every step of the stable balance keeps the invariant. *)
LEMMA SBNextInv == SBInv /\ [SBNext]_sbVars => SBInv'
<1> SUFFICES ASSUME SBInv, [SBNext]_sbVars PROVE SBInv'
  OBVIOUS
<1>1. CASE \E p \in Payments : PaymentReceived(p) \/ QueueReceive(p) \/ ConversionPaid(p) \/ Age(p) \/ OtherConverts(p)
  BY <1>1, PaymentReceivedInv, QueueReceiveInv, ConversionPaidInv, OutsideInv
<1>2. CASE ClearExpiredTasks \/ Synced
  BY <1>2, ClearExpiredTasksInv, SyncedInv
<1>3. CASE WorkerStep
  BY <1>3, FetchPendingInv, RecoverPendingInv, PassGateInv, TakeTaskInv, WokenInv, PreparePerReceiveInv, ConvertPerReceiveInv,
     MarkCompletedInv, DeferInv, CompleteInv, ClearPendingAutoConvertInv, LockPaymentsInv, CountPaymentsInv,
     ReadBalanceInv, ConvertBalanceInv DEF WorkerStep
<1>4. CASE \E label \in Tokens \cup {NoToken, "unknown"} : ClearQueue(label)
  BY <1>4, ClearQueueInv
<1>5. CASE UserStep
  BY <1>5, MarkClearedInv, PushByUserInv, SetTokenInv DEF UserStep
<1>6. CASE \E s \in Senders : AcquirePaymentGuard(s) \/ ConvertForSend(s) \/ DropPaymentGuard(s)
  BY <1>6, SenderInv
<1>7. CASE Restart
  BY <1>7, RestartInv
<1>8. CASE UNCHANGED sbVars
  BY <1>8, SBStutterInv
<1> QED BY <1>1, <1>2, <1>3, <1>4, <1>5, <1>6, <1>7, <1>8 DEF SBNext

(* What the invariant is for. *)
LEMMA SBInvImplies == SBInv => SBTypeOK /\ SnapshotIsOwn
<1> SUFFICES ASSUME SBInv PROVE SBTypeOK /\ SnapshotIsOwn
  OBVIOUS
<1>1. QueueTypes /\ TokenTypes /\ FundTypes /\ EventTypes /\ StatusTypes /\ TaskTypes
  BY DEF SBInv, SBTypes
<1>2. Cardinality(Ids(perReceive)) = Len(perReceive)
  <2> DEFINE n == Len(perReceive)
             id == [i \in 1..n |-> perReceive[i].id]
  <2>1. n \in Nat /\ DOMAIN perReceive = 1..n
    BY <1>1 DEF QueueTypes
  <2>2. id \in [1..n -> Ids(perReceive)] /\ \A v \in Ids(perReceive) : \E i \in 1..n : id[i] = v
    BY <2>1 DEF Ids
  <2>3. \A i, j \in 1..n : id[i] = id[j] => i = j
    BY <1>1, <2>1 DEF QueueTypes, DistinctIds
  <2> HIDE DEF id
  <2> QED BY <2>1, <2>2, <2>3, DistinctCount
<1>3. SnapshotIsOwn
  BY <1>1 DEF TaskTypes, Workers, SnapshotIsOwn
<1>4. worker.task \in Tasks /\ worker.token \in Tokens \cup {NoToken}
  BY <1>1 DEF TaskTypes, Workers
<1>5. sweep.ids \subseteq Payments /\ conversions \in [Payments -> Nat]
  BY <1>1 DEF EventTypes, FundTypes
<1>6. SBTypeOK
  BY <1>1, <1>2, <1>4, <1>5 DEF SBTypeOK, QueueTypes, TokenTypes, FundTypes, EventTypes, StatusTypes
<1> QED BY <1>3, <1>6

(* queue.notify, for any queue: the worker never sleeps while there is a   *)
(* task it could take and no permit is stored.                             *)
THEOREM WorkerIsWoken == SBSpec => []NoLostWakeup
<1>1. SBInv => NoLostWakeup
  BY DEF SBInv
<1> QED BY <1>1, SBInitInv, SBNextInv, PTL DEF SBSpec

(* payment_lock, for any number of senders: the balance that is about to   *)
(* be converted holds no sats a send has converted for itself.             *)
THEOREM BalanceIsOwn == SBSpec => []SnapshotIsOwn
BY SBInitInv, SBNextInv, SBInvImplies, PTL DEF SBSpec

-----------------------------------------------------------------------------
(* Both tasks side by side: every behaviour keeps the types, the cached    *)
(* queue equal to the queue, converted what is shown as converted, and one *)
(* sync loop at a time.                                                    *)
THEOREM TasksStayOK == Spec => []TasksOK
<1>1. Init => SBInv /\ SCInv
  BY SBInitInv, SCInitInv DEF Init
<1>2. ASSUME SBInv, SCInv, [Next]_<<part, sbVars, scVars>>
      PROVE  SBInv' /\ SCInv'
  <2>1. [SBNext]_sbVars /\ [SCNext]_scVars
    BY <1>2 DEF Next
  <2> QED BY <1>2, <2>1, SBNextInv, SCNextInv
<1>3. SBInv /\ SCInv => TasksOK
  BY SBInvImplies, SCInvImplies DEF TasksOK, SBInv
<1> QED BY <1>1, <1>2, <1>3, PTL DEF Spec
=============================================================================
