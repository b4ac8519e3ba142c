----------------------------- MODULE LnurlNames -----------------------------
(***************************************************************************)
(* The names (lightning addresses) the LNURL server keeps for one domain:  *)
(* the routes register, unregister and transfer of lnurl/src/routes.rs,    *)
(* with the transactions of lnurl/src/postgresql/repository.rs they run    *)
(* and the background pruner of lnurl/src/repository.rs.                   *)
(*                                                                         *)
(* A statement of a transaction that can wait, or that reads what another  *)
(* transaction writes, is a step.  PostgreSQL runs them at READ COMMITTED: *)
(* a read sees what is committed; what a transaction has written shows at  *)
(* its commit; a name it has inserted, deleted or replaced in the unique   *)
(* index (domain, name) makes an inserter of that name wait for its end;   *)
(* a deadlock ends with the abortion of a transaction.                     *)
(***************************************************************************)
EXTENDS Integers, FiniteSets, FiniteSetsExt

CONSTANTS
    Pubkeys,        \* a set of numbers: the order of their advisory-lock keys
    Names,
    Nobody,
    NoName,
    Registered,     \* the names the pubkeys have at first
    Statements,     \* signed messages: [routes, key, name, to, timed, time];
                    \* a legacy transfer has no timestamp, a bare legacy
                    \* message is accepted by two routes
    Handlers,       \* requests being served
    Accept,         \* ACCEPTABLE_TIME_DIFF_SECS
    Window,         \* RegistrationLimit.window_secs
    MaxPerWindow,   \* RegistrationLimit.max_per_window
    MaxTime         \* bound: the last second

ASSUME LnurlNamesAssumption ==
    /\ Pubkeys \subseteq Nat /\ {Accept, Window, MaxPerWindow, MaxTime} \subseteq Nat
    /\ Nobody \notin Pubkeys \cup Handlers /\ NoName \notin Names
    /\ Registered \in [Pubkeys -> Names \cup {NoName}]
    /\ \A j, k \in Pubkeys : Registered[j] = Registered[k] => j = k \/ Registered[j] = NoName
    /\ \A s \in Statements :
          /\ s.routes \subseteq {"register", "unregister", "transfer"}
          /\ s.key \in Pubkeys /\ s.name \in Names /\ s.time \in Int
          /\ "transfer" \in s.routes => s.to \in Pubkeys

VARIABLES
    users,          \* the name of each pubkey
    released,       \* released_names: for whom a name is held
    claims,         \* used_signed_messages
    log,            \* address_registrations: <<created_at, id>> of each
                    \* pubkey's rows
    locks,          \* advisory locks: the handler that holds each key
    handler,        \* where each request is
    clock,
    everClaimed,    \* history: the statements recorded so far
    everLogged      \* history: log without the pruning

tables == <<users, released, log, everLogged>>
lnVars == <<tables, claims, locks, handler, clock, everClaimed>>

Times == 0..MaxTime
Idle == [pc |-> "idle"]

LNInit ==
    /\ users = Registered
    /\ released = [n \in Names |-> Nobody]
    /\ claims = {} /\ everClaimed = {}
    /\ log = [k \in Pubkeys |-> {}] /\ everLogged = log
    /\ locks = [k \in Pubkeys |-> Nobody]
    /\ handler = [h \in Handlers |-> Idle]
    /\ clock = 0

-----------------------------------------------------------------------------
At(h, pc) == handler[h].pc = pc
Goto(h, pc) == handler' = [handler EXCEPT ![h].pc = pc]
Statement(h) == handler[h].statement
Key(h) == Statement(h).key
Name(h) == Statement(h).name

(* is_fresh_at, and an unbounded message is always accepted. *)
Fresh(s) == s.timed => (s.time - clock <= Accept /\ clock - s.time <= Accept)

(* Faulty: a claim is kept for the time of the message only. *)
PrunableAtOnce(s) == s.timed /\ s.time < clock

(* ClaimExpiry.expires_at < now *)
Prunable(s) == s.timed /\ s.time + Accept < clock

(* Commit, rollback or drop: the request ends, its locks are free. *)
EndTransaction(h) ==
    /\ handler' = [handler EXCEPT ![h] = Idle]
    /\ locks' = [k \in Pubkeys |-> IF locks[k] = h THEN Nobody ELSE locks[k]]

Rollback(h) == EndTransaction(h) /\ UNCHANGED <<tables, claims, everClaimed>>

(* A request arrives with a statement that is still fresh. *)
Arrive(h, s, route) ==
    /\ At(h, "idle") /\ route \in s.routes /\ Fresh(s)
    /\ handler' = [handler EXCEPT ![h] = [pc |-> IF route = "transfer" THEN "lock" ELSE "claim", route |-> route,
                                          statement |-> s, prev |-> NoName, touched |-> {}]]
    /\ UNCHANGED <<tables, claims, locks, clock, everClaimed>>

(* claim_statement: recorded at once, in a transaction of its own. *)
Claim(h) ==
    /\ At(h, "claim")
    /\ IF Statement(h) \in claims
       THEN handler' = [handler EXCEPT ![h] = Idle] /\ UNCHANGED <<claims, everClaimed>>
       ELSE /\ claims' = claims \cup {Statement(h)} /\ everClaimed' = everClaimed \cup {Statement(h)}
            /\ Goto(h, IF handler[h].route = "register" THEN "lock" ELSE "find")
    /\ UNCHANGED <<tables, locks, clock>>

(* unregister reads what is registered before its transaction, and only    *)
(* goes on for the name that was signed (unregister_action).               *)
FindUser(h) ==
    /\ At(h, "find")
    /\ IF users[Key(h)] = Name(h) THEN Goto(h, "lock") ELSE handler' = [handler EXCEPT ![h] = Idle]
    /\ UNCHANGED <<tables, claims, locks, clock, everClaimed>>

-----------------------------------------------------------------------------
(* lock_registrations: one key after the other, in their order. *)
LockKeys(h) == IF handler[h].route = "transfer" THEN {Key(h), Statement(h).to} ELSE {Key(h)}
Missing(h) == {k \in LockKeys(h) : locks[k] # h}

(* Faulty: in the order in which the request names them. *)
NextKeyAsNamed(h) == IF Key(h) \in Missing(h) THEN Key(h) ELSE Statement(h).to

NextKey(h) == IF Missing(h) = {} THEN Key(h) ELSE Min(Missing(h))

AfterLock == [register |-> "read", unregister |-> "delete", transfer |-> "transfer"]

Lock(h) ==
    /\ At(h, "lock") /\ locks[NextKey(h)] \in {Nobody, h}
    /\ locks' = [locks EXCEPT ![NextKey(h)] = h]
    /\ Goto(h, IF Missing(h) \subseteq {NextKey(h)} THEN AfterLock[handler[h].route] ELSE "lock")
    /\ UNCHANGED <<tables, claims, clock, everClaimed>>

Touch(h, pc, prev, names) ==
    handler' = [handler EXCEPT ![h].pc = pc, ![h].prev = prev, ![h].touched = names \ {NoName}]

(***************************************************************************)
(* upsert_user                                                             *)
(***************************************************************************)
(* name_of *)
ReadName(h) ==
    /\ At(h, "read")
    /\ Touch(h, "upsert", users[Key(h)], {})
    /\ UNCHANGED <<tables, claims, locks, clock, everClaimed>>

Busy(h, n) == {g \in Handlers \ {h} : ~At(g, "idle") /\ n \in handler[g].touched}
TakenByOther(h, n) == \E k \in Pubkeys \ {Key(h)} : users[k] = n

(* The new version of the pubkey's row replaces the old one, ...           *)
Upsert(h) ==
    /\ At(h, "upsert")
    /\ Touch(h, "index", handler[h].prev, {handler[h].prev})
    /\ UNCHANGED <<tables, claims, locks, clock, everClaimed>>

(* ... and its entry in the index waits for whoever is changing the name's *)
(* entry; then the name is taken (NameTaken) or this transaction's.        *)
TakeName(h) ==
    /\ At(h, "index") /\ Busy(h, Name(h)) = {}
    /\ IF TakenByOther(h, Name(h))
       THEN Rollback(h)
       ELSE Touch(h, "check", handler[h].prev, {Name(h), handler[h].prev}) /\ UNCHANGED <<tables, claims, locks, everClaimed>>
    /\ UNCHANGED clock

(* Faulty: the hold on the name is not looked at. *)
CheckHoldNever(h) ==
    /\ At(h, "check") /\ Goto(h, "commit")
    /\ UNCHANGED <<tables, claims, locks, clock, everClaimed>>

(* reserved_for_other: NameReserved *)
CheckHold(h) ==
    /\ At(h, "check")
    /\ IF released[Name(h)] \in {Nobody, Key(h)}
       THEN Goto(h, "commit") /\ UNCHANGED <<tables, claims, locks, everClaimed>>
       ELSE Rollback(h)
    /\ UNCHANGED clock

(* reserve_name: the previous name of a pubkey that takes another. *)
Reserve(held, prev, name, key) == IF prev \in {NoName, name} THEN held ELSE [held EXCEPT ![prev] = key]

(* Faulty: the hold stays when its holder takes the name back. *)
HoldsAfterKeeping(h) == Reserve(released, handler[h].prev, Name(h), Key(h))

HoldsAfter(h) == Reserve([released EXCEPT ![Name(h)] = Nobody], handler[h].prev, Name(h), Key(h))

(* Rows of the pubkey in the counting window. *)
Counted(rows) == Cardinality({row \in rows : row[1] > clock - Window})

(* record_registration: the row counts itself. *)
CommitRegister(h) ==
    /\ At(h, "commit") /\ handler[h].route = "register"
    /\ LET changed == handler[h].prev # Name(h)
           row == <<clock, Cardinality(everLogged[Key(h)])>>
           logged(rows) == IF changed THEN [rows EXCEPT ![Key(h)] = @ \cup {row}] ELSE rows
       IN  IF changed /\ Counted(logged(log)[Key(h)]) > MaxPerWindow
           THEN Rollback(h)
           ELSE /\ users' = [users EXCEPT ![Key(h)] = Name(h)]
                /\ released' = HoldsAfter(h)
                /\ log' = logged(log) /\ everLogged' = logged(everLogged)
                /\ EndTransaction(h) /\ UNCHANGED <<claims, everClaimed>>
    /\ UNCHANGED clock

-----------------------------------------------------------------------------
(* delete_user: nothing is given up unless the pubkey still has the name. *)
Delete(h) ==
    /\ At(h, "delete")
    /\ IF users[Key(h)] = Name(h)
       THEN Touch(h, "commit", NoName, {Name(h)}) /\ UNCHANGED <<tables, claims, locks, everClaimed>>
       ELSE Rollback(h)
    /\ UNCHANGED clock

CommitUnregister(h) ==
    /\ At(h, "commit") /\ handler[h].route = "unregister"
    /\ users' = [users EXCEPT ![Key(h)] = NoName]
    /\ released' = [released EXCEPT ![Name(h)] = Key(h)]
    /\ EndTransaction(h)
    /\ UNCHANGED <<claims, log, clock, everClaimed, everLogged>>

(* transfer_username: StatementAlreadyUsed, SourceNotOwner, or the name is *)
(* moved, and what the target had is held for it.  The claim is part of    *)
(* the transaction.                                                        *)
Transfer(h) ==
    /\ At(h, "transfer")
    /\ IF Statement(h) \notin claims /\ users[Key(h)] = Name(h)
       THEN /\ Touch(h, "commit", users[Statement(h).to], {Name(h), users[Statement(h).to]})
            /\ UNCHANGED <<tables, claims, locks, everClaimed>>
       ELSE Rollback(h)
    /\ UNCHANGED clock

CommitTransfer(h) ==
    /\ At(h, "commit") /\ handler[h].route = "transfer"
    /\ claims' = claims \cup {Statement(h)} /\ everClaimed' = everClaimed \cup {Statement(h)}
    /\ users' = [users EXCEPT ![Key(h)] = NoName, ![Statement(h).to] = Name(h)]
    /\ released' = Reserve(released, handler[h].prev, Name(h), Statement(h).to)
    /\ EndTransaction(h)
    /\ UNCHANGED <<log, clock, everLogged>>

-----------------------------------------------------------------------------
(* For whom a handler waits: a lock's holder, or who changes its name. *)
WaitsFor(h) ==
    CASE At(h, "lock") -> {locks[NextKey(h)]} \ {Nobody, h}
      [] At(h, "index") -> Busy(h, Name(h))
      [] OTHER -> {}

(* Requests in a circle: each of them waits for one and one waits for it.  *)
Deadlocked(h) ==
    \E S \in SUBSET Handlers :
       h \in S /\ \A g \in S : WaitsFor(g) \cap S # {} /\ \E f \in S : g \in WaitsFor(f)

(* PostgreSQL aborts a transaction of a deadlock. *)
AbortDeadlock(h) == Deadlocked(h) /\ Rollback(h) /\ UNCHANGED clock

(* The server stops, the connection is lost or the client goes away. *)
Drop(h) == ~At(h, "idle") /\ Rollback(h) /\ UNCHANGED clock

(* Faulty: registrations are pruned as early as claims. *)
OldRegistrationSooner(t) == t + Accept < clock

OldRegistration(t) == t < clock - Window

(* start_claim_cleanup_processor *)
Prune ==
    /\ claims' = {s \in claims : ~Prunable(s)}
    /\ log' = [k \in Pubkeys |-> {row \in log[k] : ~OldRegistration(row[1])}]
    /\ UNCHANGED <<users, released, locks, handler, clock, everClaimed, everLogged>>

Tick ==
    /\ clock < MaxTime /\ clock' = clock + 1
    /\ UNCHANGED <<tables, claims, locks, handler, everClaimed>>

HandlerStep(h) ==
    \/ Claim(h) \/ FindUser(h) \/ Lock(h)
    \/ ReadName(h) \/ Upsert(h) \/ TakeName(h) \/ CheckHold(h) \/ CommitRegister(h)
    \/ Delete(h) \/ CommitUnregister(h)
    \/ Transfer(h) \/ CommitTransfer(h)
    \/ AbortDeadlock(h)

LNNext ==
    \/ \E h \in Handlers : HandlerStep(h) \/ Drop(h)
    \/ \E h \in Handlers, s \in Statements : \E route \in s.routes : Arrive(h, s, route)
    \/ Prune \/ Tick

LNSpec == LNInit /\ [][LNNext]_lnVars

-----------------------------------------------------------------------------
Owners(n) == {k \in Pubkeys : users[k] = n}

(* The tables' keys: every pubkey has at most one name, every name at most *)
(* one pubkey.                                                             *)
LNTypeOK ==
    /\ users \in [Pubkeys -> Names \cup {NoName}] /\ \A n \in Names : Cardinality(Owners(n)) <= 1
    /\ released \in [Names -> Pubkeys \cup {Nobody}]
    /\ claims \subseteq Statements
    /\ log \in [Pubkeys -> SUBSET (Times \X Nat)]
    /\ locks \in [Pubkeys -> Handlers \cup {Nobody}]
    /\ clock \in Times

(* upsert_user: a hold only stands on a name that nobody has, however      *)
(* releases, registrations and transfers of the name interleave.           *)
HeldIsUnowned == \A n \in Names : released[n] # Nobody => Owners(n) = {}

(* reserved_for_other: a name that was given up is only taken by the       *)
(* pubkey that gave it up.                                                 *)
NameGoesToHolder ==
    [][\A n \in Names, k \in Pubkeys :
          (users[k] # n /\ users'[k] = n) => released[n] \in {Nobody, k}]_lnVars

(* reserve_name: whenever a pubkey loses its name and nobody gets it, the  *)
(* name is held for that pubkey; no other request makes it disappear.      *)
GivenUpIsHeld ==
    [][\A n \in Names, k \in Pubkeys :
          (users[k] = n /\ \A g \in Pubkeys : users'[g] # n) => released'[n] = k]_lnVars

(* A name is its holder's: taken by no other and never lost, whatever      *)
(* requests for it interleave.                                             *)
NamesStayTheirs == NameGoesToHolder /\ GivenUpIsHeld

(* claim_statement: as long as its timestamp is accepted no statement is   *)
(* recorded a second time, by whichever route, handler or pruning.  Once   *)
(* it is not, the pruner forgets the claim, and a request that arrived     *)
(* while the statement was fresh and claims it only now records it again:  *)
(* see ClaimableOnce.                                                      *)
ClaimedOnceWhileFresh ==
    [][\A s \in everClaimed : (s \in claims' \ claims) => ~Fresh(s)]_lnVars

(* routes.rs:1846, of claim_statement: "A statement is claimable once,     *)
(* whichever route presents it".  It is not: freshness is checked before   *)
(* the claim (routes.rs:205, 414) and not again with it (214, 423), and    *)
(* the pruner may have deleted the first claim in between.                 *)
ClaimableOnce == [][\A s \in everClaimed : s \notin claims' \ claims]_lnVars

(* record_registration: no pubkey has taken more names within the window   *)
(* than the limit allows.                                                  *)
WithinLimit == \A k \in Pubkeys : Counted(everLogged[k]) <= MaxPerWindow

(* lock_registrations: two requests wait for each other only when they     *)
(* exchange names, never for their locks.                                  *)
OnlyNamesDeadlock == \A h \in Handlers : Deadlocked(h) => At(h, "index")

=============================================================================
