# Spark SDK: TLA+ specifications

Specifications of the parts of the Spark SDK, and of its LNURL server, that keep
money, names and notifications consistent while several tasks, several SDK
instances and several servers work on them at the same time. TLC checks them on
small instances; TLAPS proves most of the safety properties for every size.
`PROJECT.json` lists the components, the runs, the
lines each definition translates, the findings, the hazards and the theorems.

    cd tla
    tlc -config LeafWalletMemory.cfg MCLeafWallet     # any run: -config <cfg> <module>
    tlapm TreeStoreProofs.tla

## 1. The system

The wallet owns *leaves* (fixed-value outputs of Spark trees, jointly held with
the Spark operators). A payment has to hand over leaves whose values add up to
the exact amount; when it cannot, it first *swaps* leaves with the service
provider (SSP). The operators are the authority on who owns a leaf; the wallet
keeps its own copy, the leaf store, and reserves leaves in it so that two
payments do not use the same ones. Periodically, and after events, the wallet
asks the operators for its leaves and refreshes the store from the answer.

| Component (crate path) | State | Operations | Hard behaviours | What makes it correct |
|---|---|---|---|---|
| In-memory leaf store `spark/src/tree/store.rs` | pool, reservations with permits, spent markers, last swap time, exit chains | commands of one processor task: add, set (refresh), reserve, reserve by ids, cancel, finalize, update, store ancestors | callers are concurrent; a refresh is applied long after it was asked for; permits travel with commands | a leaf is in one place; permits are conserved; spent leaves stay out; new leaves are not lost |
| SQL leaf store `spark-postgres/src/tree_store.rs` (and `spark-mysql`) | the same in tables shared by several instances; no permits; reservations expire | the same, one transaction each, all but add_leaves under an advisory lock | instances die holding reservations; reservations expire under a live payment; marker cleanup | the same, and dead instances' reservations are released |
| Leaf selection `spark/src/tree/select_helper.rs` | none | exact amount, exact denominations, minimum amount; SQL candidate pre-filter | arbitrary map order, values that are not powers of two | complete for powers of two; pre-filter loses nothing |
| Tree service `spark/src/tree/service.rs` | none of its own | select_leaves (with wait and swap), cancel with verification, finalize, refresh, insert | every await is an interleaving point; each network call can fail before or after taking effect | no reservation forgotten, no leaf used twice, the pool converges to the operators' view |
| Leaf swap `spark/src/services/swap.rs`, optimizer `spark/src/tree/leaf_optimizer.rs` | optimizer's round state | submit_swap, execute_one_swap, plan/start/cancel | outputs exist at the operators before the store knows them | balance is never counted twice |
| Wallet facade `spark-wallet/src/wallet.rs` | background tasks | claim_pending_transfers, event processing, retries | claims race refreshes and swaps | claimed leaves appear once |
| Exit chains `spark/src/tree/chain.rs`, `exit_chain_resolver.rs`, `breez-sdk/core/.../exit_chain_downloader.rs` | stored ancestors per leaf | resolve, store, prune | a leaf changes its parent while its chain is downloaded | every stored leaf eventually has a chain that backs its exit |
| Token outputs `spark/src/token/*` | pool, reservations with a purpose, spent markers, last swap time | reserve, reserve by outpoints, update, set (refresh), cancel, finalize | a transaction's outputs are reported by the payer, the event handler and the refresh, in any order; a broadcast's answer is lost | reservations end with their payment; refreshes put the store right |
| Real-time sync `breez-sdk/common/src/sync/*`, `breez-sdk/core/src/realtime_sync/*` | sync state, outgoing and incoming records with revisions | push, pull, merge, backoff, lock | several clients write the same record; crash between the outgoing row and the data row | no local change lost; clients converge |
| Wallet sync `breez-sdk/core/src/sdk/{sync_coordinator,runtime/client}.rs` | queued waiters, a running flag, the time of the last sync | trigger and wait, trigger, the sync loop, the runtime loop | requests arrive while one runs; the future that runs the loop is dropped; shutdown | an answer is of a sync that started after the call; one loop at a time; every caller is answered |
| Stable balance `breez-sdk/core/src/stable_balance/*` | conversion queue with a cached copy, active token, conversion status of payments, payment guard | events, worker, set_active_token, sends with conversion, recovery | lost answers, retries, restarts, another instance of the wallet, sends in flight | no receive converted twice, no task forgotten, a send's sats are left alone |
| LNURL server `breez-sdk/lnurl/src/{routes,repository,postgresql/repository}.rs` | users, released names, used signed messages, registration log | register, unregister, transfer, pruning | concurrent requests at READ COMMITTED, lock order, messages that come twice, seconds at a boundary | a name is its holder's; a message acts once; the limit holds |
| LNURL webhooks `breez-sdk/lnurl/src/{invoice_paid,webhook_notify}.rs`, `webhooks/*` | preimages, zap receipts, delivery table, configuration and its caches | handle a paid invoice, take, deliver, retry, park, unclaim, clean up | duplicated notifications, statements that fail, servers that die holding claims, claims that run out | delivered, and once unless something was lost |

How they interact: services call the store through the `TreeStore` trait
(async calls, one command each); the store notifies balance changes on a watch
channel; swaps and sends are calls to the SSP and the operators; refreshes and
claims are started by timers and by events of the operators. Above the wallet
the SDK emits events (a payment, a finished sync) that feed the stable balance
queue, and asks for syncs through the coordinator. The LNURL server shares only
the SSP with the wallet: the SSP tells it of paid invoices. `PROJECT.json`
lists every component, including the ones left out (signers, bindings, network
clients, Flashnet, cross-chain, ...), with the reason.

## 2. Modules

    LeafSelection      which leaves may pay a target (operators)
      SelectHelper     the selection loop, step by step
      TreeState        state and queries shared by both stores
        MemoryTreeStore    the in-memory store's commands
        SqlTreeStore       the SQL store's transactions
          SqlLeafLedger    ... as an implementation of LeafLedger
          LeafWallet       the concurrent callers of either store, and the operators
    LeafLedger         what the TreeStore trait promises (abstract)
    TokenOutputs       the token output store, its payers, refreshes and events
    RealtimeSync       the sync loop of several SDK instances, and the sync server
    StableBalance      the conversion queue, its worker and everyone who feeds it
    SyncCoordinator    the coalescing of wallet syncs and the loop that runs them
    LnurlNames         names: register, unregister, transfer, pruning
    LnurlNotify        paid invoices and the delivery of webhooks
    Subsequences       what is left of a queue when entries are removed (SelectIn), of
                       StableBalance, SyncCoordinator and RealtimeSync
    CollectionProofs                     facts on sequences and sums
      SelectionProofs                    the selection loop, the SQL candidates
      TreeStoreProofs                    both stores, the refinement
        LeafWalletProofs                 the wallet above them
      RealtimeSyncProofs, SdkTasksProofs, LnurlProofs
    TokenOutputsProofs
    MCSelectHelper, MCMemoryTreeStore, MCSqlTreeStore, MCLeafWallet, MCRealtimeSync,
    MCTokenOutputs, MCSdkTasks (StableBalance and SyncCoordinator),
    MCLnurl (LnurlNames and LnurlNotify)

`MCSdkTasks` and `MCLnurl` each hold two components that share no state; the
variable `part` says which of the two a behaviour is of, so that neither
multiplies the states of the other.

Definitions marked *faulty* (or *faulty variant*) are plausible mistakes in the definition
below them. No specification uses them: each shows that some property really
depends on the code it replaces.

**TreeState.** `pool`, `resv`, `spent`, `ancestors` are partial functions, as
the maps (or tables) of the code; `lastSwap` is `last_swap_completed_at`,
`permits`/`inflight` the semaphore. A `TreeNode` is reduced to what the store
looks at: is its status Available, and which node is its parent. `clock` stands
for `SystemTime` (memory) and `NOW()` (SQL); several commands may read the same
tick, which is where `>=` and `>` differ.

**MemoryTreeStore.** The processor task handles one command at a time, so a
command is one action. A caller first waits for a permit (`MemAcquirePermit`)
and its command is processed later. `Holders`/`Refreshed` translate the loops
that update a reserved leaf "in the first reservation found". `MemSpec` lets any
caller send any command with any argument.

**SqlTreeStore.** Each transaction takes effect in one action. `NOW()` is the time
a transaction began at, before it waited for the advisory lock, so a command has
it as its parameter `now`, which may be behind the clock. add_leaves takes no
lock: `unmarked` are the leaves whose markers its first statement saw and
deleted, which a finalize may have added to before the upsert. A row with
`reservation_id = r` is in `resv[r].leaves`, a row with NULL in `pool`. The differences from the memory store are in the code and are kept: the
upsert that keeps `reservation_id`, expiry before the skip test, markers kept
until `SPENT_MARKER_CLEANUP_THRESHOLD`, markers on swapped leaves,
`ON CONFLICT DO NOTHING` on markers, selection from pre-filtered candidates.
`SqlSpec` lets any caller run any transaction; `CarefulSpec` is the same but for
update_reservation, which brings no leaf that another reservation holds.

**LeafLedger, SqlLeafLedger.** What callers rely on whatever the backend: which
leaves are free and which reservation holds which. A step dissolves some
reservations and leaves the others exactly as they are, reserves free leaves, or
exchanges the leaves of a live reservation for leaves no other one holds; free
leaves are held by nobody. The mapping: `free` is `DOMAIN pool`, `held[r]` is
`DOMAIN resv[r].leaves`. Neither store keeps this contract against an update that
brings a leaf somebody else holds (finding 1); the SQL store keeps it otherwise
(`CarefulSpec`). One sentence of the trait is left out: that finalizing an unknown
reservation is an error (tree/mod.rs:691-695). No backend does so, both answer Ok
(store.rs:858, tree_store.rs:762).

**LeafWallet.** One process per payment or optimization round (`pc`), per
refresh (`rpc`) and per claimer (`cpc`); an action is what happens between two
awaits. `Backend` chooses the store. The operators and the SSP are `owner`:
absent, inbound, mine, locked (in a swap that failed), gone.

| `pc` | code |
|---|---|
| idle, queued, waiting | `select_leaves`: permit, try_reserve, wait_for_pending_balance |
| reserved | renew_reservation_timelocks, reservation_matches_target |
| swap, claim, update | perform_swap_and_update_reservation: submit_swap up to the counter transfer, its claim, update_reservation |
| send, finalize | with_reserved_leaves |
| verify, cancel | cancel_reservation with verify_leaves_against_coordinator |
| oswap, oclaim, ofinalize | execute_one_swap |
| done, failed, leaked, dead | returned; *leaked*: returned an error with the reservation still stored (`Renew`: a `?` of the store at service.rs:994, 1004, 1022; the swap: service.rs:690); the instance died |

When a swap's claim fails, or its answer is lost, its outputs stay inbound or
become ours without the store knowing, and whoever claims next finds them.

**SelectHelper.** The loop of `select_leaves_by_exact_amount`, compared with
the declarative operators of LeafSelection that the stores use.

**RealtimeSync.** `outgoing`, `state`, `incoming`, `cursor` are the tables
sync_outgoing, sync_state, sync_incoming and sync_revision of each client, `rel`
its payment_metadata table. A record's data maps fields to values; only columns
that are set are written (skip_serializing_if, COALESCE). `pc` is where the sync
loop is, `mode` why it pulls:

| `pc` | code |
|---|---|
| idle | the select of sync_loop |
| fetch, local | pull_sync_once: list_changes with insert_incoming_records, then the reads of pull_sync_once_local |
| record, apply, remove | its loop: update_record_from_incoming, on_incoming_change, delete_incoming_record |
| push, send, complete | push_sync_once: the reads of push_sync_batch, set_record, complete_outgoing_sync |
| down | not started yet, or dead; `Start` replays the latest queued change, then pulls locally and remotely (mode init) and resubscribes to the triggers |

The server is external. How the client uses it fixes what it does: one cursor
serves all records, so revisions are global; set_record sends the revision of
the record's own parent, so a conflict is per record. A query with ORDER BY
revision answers any listing of the rows that is sorted (`ByRevision`: rows of
equal revision come in any order); `Merged` gives every field the last value that
sets it.

**TokenOutputs.** `pool` and `reservations` are the maps of
`TokenOutputsState`; `unspent` is the operators' ledger, `toNotify` the
transaction events on their way. The code compares timestamps of outputs, spent
markers and the last swap with the start of a refresh and with nothing else, so
each refresh in flight records which of them are not older than its start; there
is no clock. A payer's `pc` follows with_reserved_token_outputs: submit
(prepared, not reserved), broadcast, finalize or cancel, update
(update_token_outputs with the new outputs), or leaked: a consolidation whose
signer call fails between the reservation and with_reserved_token_outputs
(`IdentityFails`). An answer of the operators may be lost after they have
committed, or be malformed, so that no new output is reported.

**StableBalance.** `perReceive`, `pendingTask` are the queue's state under its
mutex, `persisted` the cached copy, `wake` the permit of `Notify`. `worker.pc`:

| `worker.pc` | code |
|---|---|
| start, recover, gate | recover_pending_conversions (the cached tasks are read, then merged under the queue's lock), the wait for the first Synced |
| loop, wait | next_task, notified().await |
| prepare, swap, mark, defer | per_receive_convert, with the status written after it |
| complete, completeConverted, clear | complete_task, then clear_pending_auto_convert after a conversion |
| lock, count, read, check, autoSwap | auto_convert: payment_lock is held at count and read |
| deactivate | deactivation_convert |

The middleware's handling of an event is one step per critical section
(`PaymentReceived` then `QueueReceive`, once per event and events repeat;
`ClearExpiredTasks` then `Synced`),
set_active_token is `user.pc`, a send with conversion `sender`. `Restart` keeps
what is in storage. The SSP (external) knows a conversion by its transfer id:
`SwapPerReceive` refuses the second one with the same id. `OtherConverts` is
another instance of the same wallet.

**SyncCoordinator.** `waiters` and `syncRunning` are `Inner`; a caller that finds
no loop running runs it (`loop[c]`), in its own future when it waits, so
`DropCaller` ends the loop with it. `runtime` is the loop of runtime/client.rs
that serves the broadcast channel; `recent` says whether the last full sync is
within the interval.

**LnurlNames.** One domain. `users`, `released`, `claims`, `log` are its tables;
the advisory locks are explicit. A request is a `handler` whose `pc` is the next
statement that can wait or that reads what others write: claim, find, lock, read,
upsert, index, check, delete, transfer, commit. At READ COMMITTED a read sees
committed rows only; an insert of a name another transaction has touched in the
unique index waits for its end (`Busy`), after the row itself is written: the
upsert and the entry in the index are two steps. A request that waits, directly
or through others, for itself is `Deadlocked`, and PostgreSQL (external) aborts
it. `Drop` ends a request anywhere. Statements are the signed messages,
timed or not; one of them is accepted by two routes.

**LnurlNotify.** A database statement is a step and may fail. Of a delivery's
times the model keeps whether a retry is due and whether a claim is older than
five minutes. A task in flight is the holder of a permit of its domain's
semaphore; a server that crashes loses its tasks and leaves the claims. A row has
an `id`, new with every insert: what a task records at the end of its attempt goes
to the row it took, not to one inserted since. A failed statement at the end of an
attempt (`RecordFails`, `GiveUpFails`) leaves row and claim as they are.

## 3. Properties and runs

| Run | Shows |
|---|---|
| `memory_store` | Any sequence of commands: `PermitsConserved`, `ChainsHaveLeaves`, `PendingBelowReserved`. One reservation id and two permits, two leaves of different value, two clock values. |
| `sql_store` | Any sequence of transactions, each applied any time after it began, with reservations that expire at once and updates that bring no leaf another reservation holds (`CarefulSpec`): every one of them is a step of LeafLedger (`ImplementsTreeStore`). 104,000 states. |
| `select_helper` | Every subset of seven leaves and every amount up to their sum: `SelectionCorrect` (the loop finds what the definition says, and powers of two suffice), `SlimLosesNothing`. |
| `wallet_memory` | A payment, an optimization round and a repeating refresh, with one leaf an operator may not report: `FinalizedStaysOut`, `NoOrphanReservation` (no path but those of finding 3 returns with the reservation stored), `CallersOK` (types, and what a process believes it holds is reserved for it), `BalanceNotInflated`, `RefreshKeepsNewLeaves`. |
| `wallet_contention` | Two payments of 1 over one leaf of 2: the second waits for the first one's change. `ProcessesEnd`, and `NoOrphanReservation` where payments swap. |
| `wallet_sql` | A payment that swaps and two overlapping refreshes over SQL: `FinalizedStaysOut`, which fails in memory. |
| `wallet_crash` | An SQL instance dies or outlives its timeout during an optimization round, a claimer inserts what it left: `ReservationsEnd`, `PoolConverges`. |
| `realtime_sync` | Two clients start and write different fields of one record, one of them twice, under failed calls, lost replies and notifications, refusing handlers and crashes; 356,000 states: `ClientsOK` (types, and sync_state is a version the server had), `NoRegress`, `AppliedOrQueued`, `PushKeepsOtherFields`, `Converges`. |
| `token_outputs` | Two payers of any kind, a refresh, the event handler: `ReservationsOK` (no reservation but that of finding 4 outlives its payment, no refresh touches a swap's), `RefreshRepairs`, `StoreSettles`. 854,000 states. |
| `sdk_tasks` | Stable balance: `NoLostWakeup`, `SnapshotIsOwn`, `QueueDrains`. Coordinator: `AnswerIsFresh`, `CallersAnswered`. Both: `TasksOK` (types, nothing queued twice, the cache is the queue, completed is converted, one loop). 742,000 states. |
| `lnurl_server` | Names: `NamesStayTheirs`, `ClaimedOnceWhileFresh`, `WithinLimit`, `OnlyNamesDeadlock`. Webhooks: `AcceptedOnce`, `SuccessStays`, `PaidIsDelivered`. Both: `TablesOK` (types, no hold on a name somebody has, a receipt for every answered notification). 320,000 states. |
| `swap_output_grabbed` | *violation*, memory: a refresh between a swap's claim and update_reservation lets two payments reserve one leaf (`ReservedOnce`, finding 1). |

*Why these bounds.* The races are between one reader (a refresh) and one or two
writers about one leaf; a swap needs one input and two outputs of half its
value, hence values 1, 1, 2. Three clock values give before, during and after a
refresh, and any number of commands may share one. `MaxWaits` bounds how often
a payment waits, standing for `max_wait_for_pending`. `ReservationTimeout` is
longer than modelled time (9) where expiry is not the subject, and 0 where it
is: a reservation expires in the next tick. `MaxEvents` bounds local writes and
faults of RealtimeSync taken together: three are two writes of one client
against one of the other, or one of each and a fault at any point, or one write
and two faults. `token_outputs`: one output at first and one that a transaction
creates are enough for every order of report, reservation and spending of one
output; two payers, one refresh under way at a time. `sdk_tasks`: one payment,
one token, one sender; at most two of {send, change of token, restart}, no kind
twice; three callers, so that one can wait behind a batch that is running, with
one dropped future and a shutdown. `lnurl_server`: two pubkeys that exchange
their two names, two requests at a time, messages accepted for a second either
way, a counting window of three seconds and four seconds of time: a claim can be
pruned at the first instant it may be, the window moves past a registration, the
pruner takes it, and the same pubkey registers again in the next window; one invoice, notified twice at a time, two servers, and two faults out
of failed statements, crashes, overrun claims, clean-ups and changes of
configuration.

*Deadlock* is not checked: payments and rounds end, and with no refresher
nothing more happens.

*Fairness* (`FairSpec`). WF of a process: an async task is polled until it
returns. WF of `RefreshStart`: the background sync calls refresh_leaves on a
timer. SF of `RefreshQuery` and `RefreshApply`: a refresh may fail any number
of times, but one retried for ever succeeds some time; without it nothing can
be promised of a wallet that never reaches its operators. WF of `InsertLeaves`,
the clock and `LockExpires` (operators return leaves of an abandoned swap). No
fairness of `Claim` or `Crash`. In RealtimeSync the loop of a client runs (it is
one task, and its calls end in an answer or an error) and a notification that is
not lost is delivered; nobody has to write. `Converges` excludes crashes, missed
notifications, refused records and a change queued during the initial pull
(`TriggerAtRisk`; its trigger is lost with the resubscription,
background.rs:237): the loop waits for the next signal after them, and nothing in
the code promises one. TLC refutes it without the last of these.
TokenOutputs: a payment that has begun goes on, events are handled, refreshes
recur with every sync; nobody has to begin a payment. StableBalance: the worker
and a call of set_active_token run, a guard is dropped, syncs recur and the
timeout of a deferred task passes; no fairness of payments, of the conversion
payment's arrival, of the SSP or of a restart. SyncCoordinator: loops run and a
sync ends. LnurlNotify: WF of the SSP's repetition, of the tasks and of time; SF
of `Take`, because the delivery due longest is taken first and a failed one
becomes due later, so none is passed over for ever; SF of `Send`: a partner asked
again and again accepts at last; without it nothing is delivered to a dead one.

*What the passing runs leave out.* `wallet_memory` has one refresher and targets a
payment can meet without a swap, `wallet_sql` one payment, so that the races of
findings 1 and 2 cannot occur in them; `sql_store` has the discipline of
`CarefulSpec` for the same reason. `NoOrphanReservation` and `ReservationsOK` name
the paths of findings 3 and 4 and exempt them, and `StoreSettles` asks that no
consolidation has leaked; `ClaimedOnceWhileFresh` speaks of claims made while the
message is fresh, and so exempts a request that was fresh when it arrived and
claims after the pruning (finding 5). `realtime_sync` has one record, so that the
cursor of finding 6 cannot jump over another one. The properties of `sdk_tasks`
and `token_outputs` do not promise what findings 7 to 10 show to fail:
`CallersAnswered` exempts a dropped loop, and `RefreshRepairs` and `StoreSettles`
speak of the state after a refresh.

### Findings

Each is shown by a configuration that TLC refutes
(`tlc -config <cfg> <module>`); the first one is the run `swap_output_grabbed`.

1. `LeafWalletGrab.cfg`, MCLeafWallet, `ReservedOnce` (tree/store.rs:917). The
   operators list a swap's outputs as ours before update_reservation runs. A
   refresh puts them in the pool, another payment reserves them, and
   update_reservation adds them to its own reservation without looking, against
   service.rs:704-706. Over SQL (`LeafWalletGrabSql.cfg`, `HeldIsReserved`,
   tree_store.rs:1157) the same race moves the leaf out of the second payment's
   reservation while that one goes on to send it, against tree/mod.rs:546-548.
2. `LeafWalletOverlap.cfg`, MCLeafWallet, `FinalizedStaysOut` (tree/store.rs:582).
   process_set_leaves drops every spent marker older than its own start, although
   the field's comment says it is kept until the leaf "is no longer in refresh
   data AND was spent before the refresh started". A refresh that began earlier
   and is applied later re-adds the leaf.
3. `LeafWalletOrphan.cfg`, MCLeafWallet, `SwapEndsReservation` (service.rs:690).
   submit_swap answers an unclaimed swap with an empty list "so the caller
   finalizes the reservation" (swap.rs:376-378); the caller's selection over the
   empty list fails and `?` returns, so the reservation, its permit and its pending
   change stay. In memory, where nothing expires, such a reservation with purpose
   Swap makes every later refresh skip. The other errors that leave a reservation
   behind are those of the store in renew_reservation_timelocks (service.rs:994,
   1004, 1022), although its comment says that on failure the reservation is
   cancelled (service.rs:985-986). `NoOrphanReservation` says that these are all.
4. `TokenOutputsLeak.cfg`, MCTokenOutputs, `SwapReservationEnds`
   (token/token_service.rs:1297). optimize_token_outputs reserves with purpose Swap
   and asks the signer for the identity key before it enters
   with_reserved_token_outputs, which is what cancels on an error. When that call
   fails the outputs stay reserved for a swap nobody makes, and has_active_swap
   (token/store/mod.rs:141-148) skips every later refresh. Without that step the
   property holds.
5. `LnurlClaims.cfg`, MCLnurl, `ClaimableOnce` (routes.rs:214). "A statement is
   claimable once, whichever route presents it" (routes.rs:1846). A request passes
   the freshness check (routes.rs:205, 414), the pruner deletes the claim another
   request made of the same message, which is fresh no longer, and the first one
   claims (214, 423) and acts again.
6. `RealtimeSyncCursor.cfg`, MCRealtimeSync, `CursorNeverSkips` (sqlite.rs:1291).
   complete_outgoing_sync raises the pull cursor to the revision of the client's
   own push. A record that another client pushed just before, not pulled yet, has
   a smaller revision and is not listed to it until somebody changes that record
   again.
7. `StableBalanceDeactivation.cfg`, MCSdkTasks, `DeactivationStays` (queue.rs:203).
   complete_task of an auto-convert clears whatever is pending by then. A
   deactivation queued while it ran ("Overrides any pending auto-convert",
   queue.rs:121) is dropped, and the tokens stay tokens.
8. `StableBalanceRestart.cfg`, MCSdkTasks, `SettingSurvivesRestart` (mod.rs:417).
   Deactivating deletes the cached label, which a restart cannot tell from never
   having had one: default_active_label is active again, although "if a user
   setting is cached locally, it takes precedence over this default"
   (models/mod.rs:961-963).
9. `SyncCoordinatorDropped.cfg`, MCSdkTasks, `RequestsAreServed`
   (sync_coordinator.rs:64). The caller that runs the loop runs it in its own
   future. When that is dropped `sync_running` stays set, nobody runs the loop
   again and later requests wait for ever, although they "share a single NEW
   sync" (sync_coordinator.rs:3-5).
10. `TokenOutputsPool.cfg`, MCTokenOutputs, `PoolIsUnreserved`
    (token/store/mod.rs:402). update_token_outputs inserts the new outputs without
    asking whether they are reserved: a refresh has brought an output in, another
    payment has reserved it, and the payer's own report or the event puts it in the
    pool of "available (unreserved) token outputs" (mod.rs:70) as well. The next
    refresh repairs it.

Related behaviour of the wallet, with the same causes: a payment's swapped inputs
get no spent marker in memory (store.rs:899), so a refresh under way re-adds them
(`LeafWalletOverlap.cfg` with one refresher, `Leaf = {a, b, c}` and
`ChangeTargets`); and add_leaves drops the marker of a leaf that was found by a
refresh, spent and finalized before the claimer inserted it (store.rs:411).

### Further hazards

Besides the hazards of `PROJECT.json`. *Reached by the models, about which the
code promises nothing, so that there is no property to state:*

- RealtimeSync: a row of sync_incoming that a handler refused twice may be applied
  after a newer version of its record (background.rs:633; three writes of one
  client and `MaxEvents = 5` reach it, which is why `AppliedOrQueued` allows one
  refusal); a local write between the snapshot of the pending changes and
  on_incoming_change is overwritten in the client's own table by an older value
  (background.rs:557), as it is when two writers of one payment queue in one order
  and write in the other (realtime_sync/storage.rs:555); a change queued during the
  initial pull is not pushed before the next one (background.rs:237); of two changes queued
  before a crash only the latest is replayed (background.rs:121), and none is
  pushed before the next local write; a lost notification is
  not made up for (background.rs:193).
- StableBalance: a crash between clearing the queue, or expiring its tasks, and
  marking their payments failed leaves them pending (mod.rs:381); a receive queued
  before the recovery overwrites the cached tasks (mod.rs:706); an unknown label is
  refused after the queue has been cleared (mod.rs:397); cached tasks that the recovery has read come back at the merge when
  set_active_token has cleared the queue in between (queue.rs:434, 441); a repeated
  event of a payment already converted queues it again, and its status is pending
  from then on, since the SSP refuses the second conversion. That a payment is
  converted at most once is that refusal and nothing in the client, so it is not a
  property here.
- SyncCoordinator: the time of a sync is recorded before it runs, so after a failed
  one the next that is not forced is skipped (runtime/client.rs:262).
- LNURL: register and unregister use up the message even when what follows fails
  (routes.rs:1852); an error of queueing a webhook is logged and the SSP answered
  (invoice_paid.rs:74); a server with a stale configuration cache deletes or parks
  the delivery of a configured domain (webhooks/background.rs:200).

*Outside the models:* callers of the leaf store and token payments whose future is
dropped between a reservation and its end (tree/store.rs:314, token/mod.rs:133);
a refresh that renews
the timelocks of leaves a payment is about to sign (service.rs:483); two calls of
set_active_token at once (mod.rs:370).

## 4. Proofs

Every theorem is about a specification as the runs check it, without fairness,
and holds for all values of the constants that satisfy the named ASSUMEs: any
finite sets of leaves, reservations, payers and senders; any clients, records,
callers, pubkeys, names, servers; any number of permits, any limits, any bounds
on time and on faults. What is assumed beyond the types of the constants: leaves
are worth something (`ValueAssumption`), there is a permit (`PermitAssumption`),
`NoParent` is not a node, a process reserves under its own id (`ProcAssumption`),
instances die only where the store survives them (`MortalAssumption`), an output
is created once (`TokenOutputsAssumption`).

| Module | Theorem | Property |
|---|---|---|
| SelectionProofs | `LoopSelectsCorrectly` | `SelectionCorrect` |
| | `CandidatesLoseNothing` | `SlimLosesNothing` |
| TreeStoreProofs | `MemTypeCorrect`, `PermitsAlwaysConserved`, `ChainsAlwaysHaveLeaves`, `PendingAlwaysBelow` | the in-memory store under any commands |
| | `SqlTypeCorrect` | the SQL store under any transactions |
| | `SqlImplementsTreeStore` | `CarefulSpec` refines LeafLedger |
| LeafWalletProofs | `StoreKeepsPromises` | the store invariants under the wallet, on either backend |
| | `CallersStayOK` | `TypeOK`, and `CallersOK` in memory (over SQL expiry makes it false) |
| | `OnlyTheLeaksOrphan` | `NoOrphanReservation`: the paths of finding 3 are the only ones |
| | `RefreshLosesNothingNew` | `RefreshKeepsNewLeaves`, on both backends |
| | `FinalizedStaysOutOfSql` | `FinalizedStaysOut` over SQL, under the conditions `Benign` |
| RealtimeSyncProofs | `VersionsAreTrue` | `ClientsOK` |
| | `NoLostUpdate` | `PushKeepsOtherFields` |
| | `QueueOrderKept` | `NoRegress`, where every field of a record has one writer |
| | `NothingSeenIsLost` | `AppliedOrQueued`, which promises something up to one refusal of a handler |
| SdkTasksProofs | `SyncAnswersAreFresh`, `WorkerIsWoken`, `BalanceIsOwn`, `TasksStayOK` | `AnswerIsFresh`, `NoLostWakeup`, `SnapshotIsOwn`, `TasksOK` |
| TokenOutputsProofs | `ReservationsStayOK`, `RefreshesRepair` | `ReservationsOK`, `RefreshRepairs` |
| LnurlProofs | `NamesStay`, `LocksDoNotDeadlock`, `ClaimedOnce`, `LimitHolds` | `NamesStayTheirs`, `OnlyNamesDeadlock`, `ClaimedOnceWhileFresh`, `WithinLimit` |
| | `DeliveredOnce`, `SuccessIsKept`, `TablesStayOK` | `AcceptedOnce`, `SuccessStays`, `TablesOK` |

Each rests on an inductive invariant, with one lemma per action (or per command
of a store, which several actions send).

*Selection*, `SelInv`: the set taken so far is what some greedy pass over the
leaves already visited takes, and the rest is still to be visited in descending
order. Two facts carry it. All greedy selections are worth the same, in whatever
order equal values are visited (look at the largest value where two of them
differ). And among powers of two greed misses nothing: a larger value is a
multiple of a smaller one, so at the largest value where a set that adds up and
the greedy one differ, what the greedy one lacks is less than that value. For the
SQL candidates: a leaf above the amount takes part in no exact selection, and one
such leaf is enough for a minimum selection to exist.

*In-memory store*, `MemInv`: the type, `PermitsConserved`, `ChainsHaveLeaves`.
The count of reservations needs finiteness, from the type; chain pruning needs
to know where each leaf goes. `PendingBelowReserved` is proved on top of it: what
reserve_internal promises is less than what it takes, and whatever changes a
reservation's leaves ends its promise.
`ReservedOnce` is not a theorem of this store: it is false (finding 1).

*SQL store*, `SqlInv`: the types, and that a leaf is in one place. The key of the
table gives the latter to the code; the model keeps pool and reservations apart,
so here it is part of the invariant, not a result. It is carried over tables given
as parameters (`TablesOK(p, e)`) so that the intermediate states of a transaction
can be reasoned about: delete reservations (`DeleteReservations`,
`ReleasedTables`), delete rows (`DeleteRows`), upsert (`UpsertTables`). Nothing is
said of rows being newer than markers, or of chains having leaves: with `NOW()`
taken when a transaction begins and add_leaves outside the lock neither holds. The
refinement uses `SqlInv` for one thing only, that a free leaf is in no
reservation, and has one lemma per transaction (`LedgerSteps`); that an update
takes nothing from another reservation is the discipline of `CarefulSpec`.

*Wallet*, `WalletInv`: the type, the invariant of the backend's store, refreshes
that began in the past (`StoreTime`), and for every reservation `OwnOK`: a stored
one has a process that is between reserving and returning, or returned on a path
of finding 3, or died, and in memory what a
process believes it holds is what is reserved for it. The store lemmas are cited, not repeated: a step of the wallet is
a command of the store. That a refresh loses nothing new needs no more than the
times: a leaf kept in the pool is kept by the comparison of its own time.

*Finalized leaves over SQL*, `FinInv`. `FinalizedStaysOut` is false in general over
SQL as well, so its theorem has three conditions (`Benign`), each a thing the code
does not exclude but leaves to its time limits and to the operators:
`OnlyTheDeadExpire`, no reservation is older than the timeout while its holder
still works (otherwise another caller reserves and spends the same leaves, and the
first one's cancel_reservation or renewal puts them back); `NobodyAhead`, no one
has reserved a claimed leaf that the claimer has yet to store (the race of finding
1; add_leaves then deletes the marker); `RefreshesInTime`, no refresh is applied
later than SPENT_MARKER_CLEANUP_THRESHOLD after its start. TLC refutes the property
when any one of the three is dropped, and with the three `FinInv` holds in the
instances it was tried on (up to two callers or two refreshes, a claim, crashes). The
invariant says of a caller that what it holds is what is reserved for it, gone once
sent or swapped, and that what its swap gave it is inbound to it alone or ours; of
the store that finalized leaves are gone and only they are marked; and of a refresh
that a finalized leaf its answer still lists has a marker not older than its start.
Every store command is summarised once (`AddMoves`, `SetMoves`, `ReserveMoves`,
`CancelMoves`, `FinalizeMoves`, `UpdateMoves`: where leaves go, which markers
stay), and `OwnersKept`/`StoreStep` say what a step may do without disturbing the
others.

*Real-time sync*, `SyncInv`: per client (`ClientOK`), what it has stored, fetched
or been told of a record is what the server's log says; the queue is ordered by
local revision and, per field, by value; the batch under way consists of queued
changes in queue order and none overtakes an earlier one of its record. A push
then replaces exactly the version it was merged from. `OrderInv` adds `Behind`:
the server's value of a field is not newer than what its writer wrote, nor than
any change of it still queued; that makes a repeated push harmless. Without a
single writer per field `NoRegress` is not expected: the last one wins.
`AppliedInv` follows a row from the pull to the handler: no row is older than the
version seen, the rows still to process are stored and in order, and the one being
applied is the version seen. Before any refusal there is one row per record and
each is on its way to the handler; the first refusal may leave one behind, which
is then the only one of its record in that pull. On the push side, no row of the
record waits, and what the server accepts was merged from the version seen, so
complete_outgoing_sync changes it in the client's own fields only.

*SDK tasks*, `SCInv`: who waits is queued once, a batch consists of callers that
wait, one loop runs, and everyone in the batch of a sync that has started is fresh,
or does not insist. `SBInv`: the kind of the worker's task at each `pc`, a
payment it is about to mark has been converted, no send is in flight where it
reads the balance under `payment_lock`, the cache is the queue (once what was
cached before the restart is merged), completed means converted, and a sleeping worker without a permit faces nothing it could take.

*Token outputs*, `TOInv`: what a refresh in flight has recorded as added or held is
still there, what is marked as spent or will be is gone at the operators for good,
nobody knows of an output before it exists, each reservation belongs to a payment
that goes on or to a consolidation that leaked, and a swap's is intact.

*LNURL names*, `NamesInv`: a name has one owner, a held name has none, and per
request (`RequestOK`) which locks it has, always taken in order, that what it read
under them is still so, and which names it has touched in the unique index, each
touched by one request. A cycle of requests that wait for locks only would
contradict the order. `ClaimsInv`: a message once recorded is recorded still or too
old to be accepted again. `LogInv`: no row of the window is ever pruned.
*Webhooks*, `NoticesInv` and `DeliveriesInv`: a delivery that nothing was lost of
has one holder, whose task is on the row as it is now and not on one deleted
since, and an accepted one is recorded or about to be.

*Induction over data.* What the proofs need of queues, sums and sets is shown by
a least counterexample (`CollectionProofs`: filtering keeps the order and exactly
the entries it should; a sum over a finite set exists, is a natural number, and
splits into the sums of its parts). The operators themselves are recursive
functions or folds.

*Only proved*: the types of the two stores and the store invariants under the
wallet; no run repeats them.

*Only model-checked*:

- liveness (`ProcessesEnd`, `ReservationsEnd`, `PoolConverges`, `Converges`,
  `QueueDrains`, `CallersAnswered`, `StoreSettles`, `PaidIsDelivered`): fairness
  and ENABLED are outside the prover's reach;
- `FinalizedStaysOut` in memory, false in general (finding 2), and over SQL without
  the conditions of its theorem: the runs check it where those races are excluded by
  the instance;
- `BalanceNotInflated`: false in general, on both backends. A swap that could not
  claim its outputs keeps its inputs reserved, or drops them without a marker, so
  they are counted, or brought back by a refresh that began before, together with
  the outputs someone else claims. The run checks it without claims.

## 5. Abstractions

- Time is a counter. Each SQL command takes effect at once, with the time it began
  at; of add_leaves, which takes no lock, the statements are apart as far as the
  markers go. LeafWallet sends its SQL commands with the time of the step that
  applies them, and add_leaves sees all markers: the delay of a transaction that
  waits for its lock is a subject of `sql_store` only.
- Database errors (other than those of renewal) and channel errors, caller cancellation, serialisation, migrations
  and paged operator queries are left out. Network calls fail before or after
  taking effect.
- Timelock renewal is a write-back of the same leaves, a failure that cancels, or an
  error of the store that does not.
- A process makes one reservation; its id is the process.
- Operators other than the coordinator appear as the set of leaves one of them
  may not report (`Unreported`).
- RealtimeSync has one record type, payment metadata. The two reads at the start
  of pull_sync_once_local are one step, and so are those of push_sync_batch: only
  the loop itself writes sync_incoming and sync_state. `backoff` stands for any
  backoff still running or already in the channel; its duration is left out, and
  so is a lagging trigger channel (a lagging receiver still gets the last ones).
- TokenOutputs has one token and no amounts: a selection is any nonempty part of
  the pool. An answer "commit processing" (token_service.rs:1028-1047) is taken for
  a commit, which the operators then carry out.
- StableBalance: limits, thresholds, dust and failing calls are checks that may go
  either way; amounts count receives. Writes to storage succeed (the code logs and
  ignores their failure). One call of set_active_token at a time. A deferred task
  has its creation time: one cached without it (`created_at` 0) never expires in the
  code (queue.rs:233).
- SyncCoordinator: what a sync reads and writes is a call that succeeds or fails;
  a caller calls once.
- LnurlNames: signatures are valid, names are well-formed; a statement of a
  transaction that neither waits nor reads what others write is part of the next
  one. Certificate checks are before it all and have no state.
- LnurlNotify: deliveries of different domains do not touch each other, so a batch
  is taken one at a time; zap receipts are queued, their publishing is left out.

### Not modelled

`PROJECT.json` gives the reason of each component. Most of the repository is not
state shared by concurrent tasks: generated and hand-written bindings for other
languages, the command line and examples; protocol clients of the operators, the
SSP, Flashnet and the cross-chain services, which translate a call into a request;
signers and transaction construction (FROST, adaptor signatures, timelocks,
unilateral exit), where correctness is cryptographic; storage backends whose
methods are single statements; request and response types. What of it takes part
in the behaviours above appears as an outcome of a call. The MySQL leaf store and
the SQL token store have the transactions of SqlTreeStore and TokenOutputs in
another dialect and would repeat these modules.

## 6. Plan

In this order; what is above is done.

1. *More proofs*: `FinalizedStaysOut` in memory, where a swap's inputs get no marker
   and the conditions are others; the refinement of an abstract sync server.
2. *Exit chains*: resolve, download, store and prune, with a leaf that changes
   its parent during the download. *Leaf optimizer*: plan, start, cancel and the
   rounds' state machine. The retry layer of wallet.rs.
3. *Finer SQL*: transactions that wait for their lock under LeafWallet, and callers
   whose future is dropped.
4. *RealtimeSync*: contacts, whose handler deletes; the sync lock's lease.
   *Deposits*, *Lightning* and *HTLCs* above LeafWallet.
