---------------------------- MODULE LnurlProofs -----------------------------
(***************************************************************************)
(* Proofs about the LNURL server: the names, for any pubkeys, statements   *)
(* and requests, and the webhooks, for any invoices, servers and faults.   *)
(***************************************************************************)
EXTENDS MCLnurl, CollectionProofs

(***************************************************************************)
(* Names.                                                                  *)
(***************************************************************************)
Request == [pc : {"claim", "find", "lock", "read", "upsert", "index", "check", "delete", "transfer", "commit"},
            route : {"register", "unregister", "transfer"}, statement : Statements,
            prev : Names \cup {NoName}, touched : SUBSET Names]

(* The registrations a request locks, and the statements it runs with all  *)
(* of the locks.                                                           *)
KeysOf(x) == IF x.route = "transfer" THEN {x.statement.key, x.statement.to} ELSE {x.statement.key}
IsPastLocks(x) == x.pc \in {"read", "upsert", "index", "check", "delete", "transfer", "commit"}

RouteOK(x) ==
    /\ x.route \in x.statement.routes
    /\ x.route = "register" => x.pc \in {"claim", "lock", "read", "upsert", "index", "check", "commit"}
    /\ x.route = "unregister" => x.pc \in {"claim", "find", "lock", "delete", "commit"}
    /\ x.route = "transfer" => x.pc \in {"lock", "transfer", "commit"}

(* A request has its own locks only, all of them where it writes, and has  *)
(* taken them in their order.                                              *)
HeldBy(h, x, lk) ==
    /\ IsPastLocks(x) => \A k \in KeysOf(x) : lk[k] = h
    /\ \A k \in Pubkeys : lk[k] = h => k \in KeysOf(x) /\ x.pc \notin {"claim", "find"}
    /\ \A k, m \in KeysOf(x) : lk[k] = h /\ lk[m] # h => k < m

(* What a request has read is still so, and nobody else has a name that it *)
(* is changing.                                                            *)
ReadOK(x, u, r) ==
    /\ (x.route = "register" /\ x.pc \in {"upsert", "index", "check", "commit"}) => x.prev = u[x.statement.key]
    /\ (x.route # "register" /\ x.pc = "commit") => u[x.statement.key] = x.statement.name
    /\ (x.route = "transfer" /\ x.pc = "commit") => x.prev = u[x.statement.to]
    /\ (x.route = "register" /\ x.pc = "commit") => r[x.statement.name] \in {Nobody, x.statement.key}

TouchedOK(x, u) ==
    /\ x.pc \notin {"index", "check", "commit"} => x.touched = {}
    /\ x.pc \in {"check", "commit"} => x.statement.name \in x.touched
    /\ (x.route # "unregister" /\ x.pc \in {"index", "check", "commit"}) => x.prev = NoName \/ x.prev \in x.touched
    /\ \A n \in x.touched, k \in Pubkeys : u[k] = n => k \in KeysOf(x)

NamesTypes ==
    /\ users \in [Pubkeys -> Names \cup {NoName}]
    /\ released \in [Names -> Pubkeys \cup {Nobody}]
    /\ locks \in [Pubkeys -> Handlers \cup {Nobody}]
    /\ handler \in [Handlers -> {Idle} \cup Request]

OneOwner == \A j, k \in Pubkeys : users[j] = users[k] => j = k \/ users[j] = NoName

RequestOK(h) ==
    IF At(h, "idle") THEN \A k \in Pubkeys : locks[k] # h
    ELSE /\ RouteOK(handler[h]) /\ HeldBy(h, handler[h], locks)
         /\ ReadOK(handler[h], users, released) /\ TouchedOK(handler[h], users)

(* No two requests change the same name. *)
TouchedOnce ==
    \A g, h \in Handlers : (g # h /\ ~At(g, "idle") /\ ~At(h, "idle")) => handler[g].touched \cap handler[h].touched = {}

NamesInv ==
    /\ NamesTypes /\ OneOwner /\ HeldIsUnowned
    /\ (\A h \in Handlers : RequestOK(h)) /\ TouchedOnce

(* The types of a request. *)
LEMMA RequestFacts ==
    ASSUME NamesTypes, NEW h \in Handlers
    PROVE  /\ At(h, "idle") => handler[h] = Idle
           /\ ~At(h, "idle") => handler[h] \in Request
<1>1. handler[h] = Idle \/ handler[h] \in Request
  BY DEF NamesTypes
<1>2. Idle.pc = "idle" /\ \A x \in Request : x.pc # "idle"
  BY DEF Idle, Request
<1> QED BY <1>1, <1>2 DEF At

LEMMA KeysFacts ==
    ASSUME NEW x \in Request, x.route \in x.statement.routes
    PROVE  /\ x.statement.key \in Pubkeys /\ x.statement.name \in Names
           /\ x.route = "transfer" => x.statement.to \in Pubkeys
           /\ KeysOf(x) \subseteq Pubkeys /\ x.statement.key \in KeysOf(x)
<1>1. x.statement \in Statements
  BY DEF Request
<1> QED BY <1>1, LnurlNamesAssumption DEF KeysOf

(* A request goes on and leaves the tables alone. *)
LEMMA MoveInv ==
    ASSUME NamesInv, NEW h \in Handlers, NEW x \in Request, handler' = [handler EXCEPT ![h] = x],
           UNCHANGED <<users, released>>, locks' \in [Pubkeys -> Handlers \cup {Nobody}],
           \A g \in Handlers, k \in Pubkeys : g # h => (locks'[k] = g <=> locks[k] = g),
           RouteOK(x), HeldBy(h, x, locks'), ReadOK(x, users, released), TouchedOK(x, users),
           \A g \in Handlers : (g # h /\ ~At(g, "idle")) => x.touched \cap handler[g].touched = {}
    PROVE  NamesInv'
<1>0. NamesTypes /\ OneOwner /\ HeldIsUnowned /\ TouchedOnce
  BY DEF NamesInv
<1>1. /\ handler' \in [Handlers -> {Idle} \cup Request]
      /\ \A g \in Handlers : handler'[g] = IF g = h THEN x ELSE handler[g]
  BY <1>0 DEF NamesTypes
<1>2. NamesTypes' /\ OneOwner' /\ HeldIsUnowned'
  BY <1>0, <1>1 DEF NamesTypes, OneOwner, HeldIsUnowned, Owners
<1>3. x.pc # "idle"
  BY DEF Request
<1>4. ASSUME NEW g \in Handlers PROVE RequestOK(g)'
  <2>1. CASE g = h
    BY <1>1, <1>3, <2>1 DEF RequestOK, At
  <2>2. CASE g # h
    <3>1. handler'[g] = handler[g] /\ RequestOK(g)
      BY <1>1, <2>2 DEF NamesInv
    <3>2. CASE At(g, "idle")
      BY <2>2, <3>1, <3>2 DEF RequestOK, At
    <3>3. CASE ~At(g, "idle")
      <4>1. handler[g] \in Request /\ RouteOK(handler[g])
        BY <1>0, <3>1, <3>3, RequestFacts DEF RequestOK
      <4>2. KeysOf(handler[g]) \subseteq Pubkeys
        BY <4>1, KeysFacts DEF RouteOK
      <4>3. HeldBy(g, handler[g], locks')
        <5>1. HeldBy(g, handler[g], locks)
          BY <3>1, <3>3 DEF RequestOK
        <5> QED BY <2>2, <4>2, <5>1 DEF HeldBy
      <4> QED BY <3>1, <3>3, <4>1, <4>3 DEF RequestOK, At
    <3> QED BY <3>2, <3>3
  <2> QED BY <2>1, <2>2
<1>5. TouchedOnce'
  BY <1>0, <1>1 DEF TouchedOnce, At
<1> QED BY <1>2, <1>4, <1>5 DEF NamesInv

(* A request ends; what it has changed nobody else has read.               *)
LEMMA EndInv ==
    ASSUME NamesInv, NEW h \in Handlers, EndTransaction(h),
           users' \in [Pubkeys -> Names \cup {NoName}], released' \in [Names -> Pubkeys \cup {Nobody}],
           OneOwner', HeldIsUnowned',
           \A g \in Handlers, k \in Pubkeys : (g # h /\ locks[k] = g) => users'[k] = users[k],
           \A g \in Handlers, k \in Pubkeys :
              (g # h /\ ~At(g, "idle") /\ users'[k] \in handler[g].touched) => users'[k] = users[k],
           \A g \in Handlers, n \in Names :
              (g # h /\ ~At(g, "idle") /\ n \in handler[g].touched) => released'[n] = released[n]
    PROVE  NamesInv'
<1>0. NamesTypes /\ TouchedOnce
  BY DEF NamesInv
<1>1. /\ handler' \in [Handlers -> {Idle} \cup Request]
      /\ \A g \in Handlers : handler'[g] = IF g = h THEN Idle ELSE handler[g]
  BY <1>0 DEF NamesTypes, EndTransaction
<1>2. \A k \in Pubkeys : locks'[k] = IF locks[k] = h THEN Nobody ELSE locks[k]
  BY DEF EndTransaction
<1>3. locks' \in [Pubkeys -> Handlers \cup {Nobody}]
  BY <1>0 DEF NamesTypes, EndTransaction
<1>4. NamesTypes'
  BY <1>1, <1>3 DEF NamesTypes
<1>5. Nobody \notin Handlers
  BY LnurlNamesAssumption
<1>6. ASSUME NEW g \in Handlers PROVE RequestOK(g)'
  <2>1. CASE g = h
    BY <1>1, <1>2, <1>5, <2>1 DEF RequestOK, At, Idle
  <2>2. CASE g # h
    <3>1. handler'[g] = handler[g] /\ RequestOK(g)
      BY <1>1, <2>2 DEF NamesInv
    <3>2. \A k \in Pubkeys : locks'[k] = g <=> locks[k] = g
      BY <1>2, <1>5, <2>2
    <3>3. CASE At(g, "idle")
      BY <3>1, <3>2, <3>3 DEF RequestOK, At
    <3>4. CASE ~At(g, "idle")
      <4> DEFINE x == handler[g]
      <4>1. x \in Request /\ RouteOK(x) /\ HeldBy(g, x, locks) /\ ReadOK(x, users, released) /\ TouchedOK(x, users)
        BY <1>0, <3>1, <3>4, RequestFacts DEF RequestOK
      <4>2. /\ x.statement.key \in Pubkeys /\ x.statement.name \in Names
            /\ x.route = "transfer" => x.statement.to \in Pubkeys /\ x.statement.to \in KeysOf(x)
            /\ KeysOf(x) \subseteq Pubkeys /\ x.statement.key \in KeysOf(x)
        BY <4>1, KeysFacts DEF RouteOK, KeysOf
      <4>3. HeldBy(g, x, locks')
        BY <3>2, <4>1, <4>2 DEF HeldBy
      <4>4. \A n \in Names : n \in x.touched => released'[n] = released[n]
        BY <2>2, <3>4
      <4>5. \A k \in KeysOf(x) : IsPastLocks(x) => users'[k] = users[k]
        BY <2>2, <4>1, <4>2 DEF HeldBy
      <4>6. \A k \in Pubkeys : users'[k] \in x.touched => users'[k] = users[k]
        BY <2>2, <3>4
      <4> HIDE DEF x
      <4>7. TouchedOK(x, users')
        BY <4>1, <4>6 DEF TouchedOK
      <4>8. ReadOK(x, users', released')
        BY <4>1, <4>2, <4>4, <4>5 DEF ReadOK, TouchedOK, IsPastLocks
      <4> QED BY <3>1, <3>4, <4>1, <4>3, <4>7, <4>8 DEF RequestOK, At, x
    <3> QED BY <3>3, <3>4
  <2> QED BY <2>1, <2>2
<1>7. TouchedOnce'
  BY <1>0, <1>1 DEF TouchedOnce, At, Idle
<1> QED BY <1>4, <1>6, <1>7 DEF NamesInv

(* A rollback. *)
LEMMA RollbackInv ==
    ASSUME NamesInv, NEW h \in Handlers, EndTransaction(h), UNCHANGED <<users, released>>
    PROVE  NamesInv'
<1>1. users' \in [Pubkeys -> Names \cup {NoName}] /\ released' \in [Names -> Pubkeys \cup {Nobody}]
  BY DEF NamesInv, NamesTypes
<1>2. OneOwner' /\ HeldIsUnowned'
  BY DEF NamesInv, OneOwner, HeldIsUnowned, Owners
<1> QED BY <1>1, <1>2, EndInv

-----------------------------------------------------------------------------
(* What is known of a request at one of its statements. *)
LEMMA RequestAt ==
    ASSUME NamesInv, NEW h \in Handlers, ~At(h, "idle")
    PROVE  /\ handler[h] \in Request /\ RouteOK(handler[h]) /\ HeldBy(h, handler[h], locks)
           /\ ReadOK(handler[h], users, released) /\ TouchedOK(handler[h], users)
           /\ Key(h) \in Pubkeys /\ Name(h) \in Names /\ Key(h) \in KeysOf(handler[h])
           /\ KeysOf(handler[h]) \subseteq Pubkeys
           /\ handler[h].route = "transfer" => Statement(h).to \in Pubkeys /\ Statement(h).to \in KeysOf(handler[h])
<1>1. RequestOK(h) /\ NamesTypes
  BY DEF NamesInv
<1>2. handler[h] \in Request /\ RouteOK(handler[h])
  BY <1>1, RequestFacts DEF RequestOK
<1> QED BY <1>1, <1>2, KeysFacts DEF RequestOK, RouteOK, KeysOf, Key, Name, Statement

(* A name of a registration that a request has locked is changed by nobody *)
(* else.                                                                   *)
LEMMA OwnedIsNotTouched ==
    ASSUME NamesInv, NEW h \in Handlers, ~At(h, "idle"), IsPastLocks(handler[h]),
           NEW k \in KeysOf(handler[h]), NEW g \in Handlers, g # h, ~At(g, "idle")
    PROVE  users[k] \notin handler[g].touched
<1>1. /\ HeldBy(h, handler[h], locks) /\ k \in Pubkeys /\ HeldBy(g, handler[g], locks)
      /\ TouchedOK(handler[g], users)
  BY RequestAt
<1>2. locks[k] = h
  BY <1>1 DEF HeldBy
<1>3. ASSUME users[k] \in handler[g].touched PROVE FALSE
  <2>1. k \in KeysOf(handler[g]) /\ IsPastLocks(handler[g])
    BY <1>1, <1>3 DEF TouchedOK, IsPastLocks
  <2> QED BY <1>1, <1>2, <2>1 DEF HeldBy
<1> QED BY <1>3

(* A request with its next statement, ... *)
LEMMA GotoFacts ==
    ASSUME NamesTypes, NEW h \in Handlers, ~At(h, "idle"), NEW pc, Goto(h, pc),
           pc \in {"claim", "find", "lock", "read", "upsert", "index", "check", "delete", "transfer", "commit"}
    PROVE  \E x \in Request : /\ handler' = [handler EXCEPT ![h] = x]
                              /\ x.pc = pc /\ x.route = handler[h].route /\ x.statement = handler[h].statement
                              /\ x.prev = handler[h].prev /\ x.touched = handler[h].touched
                              /\ KeysOf(x) = KeysOf(handler[h])
<1> DEFINE x == [handler[h] EXCEPT !.pc = pc]
<1>1. handler[h] \in Request /\ handler' = [handler EXCEPT ![h] = x]
  BY RequestFacts DEF Goto, NamesTypes
<1>2. /\ x \in Request /\ x.pc = pc /\ x.route = handler[h].route /\ x.statement = handler[h].statement
      /\ x.prev = handler[h].prev /\ x.touched = handler[h].touched
  BY <1>1 DEF Request
<1> HIDE DEF x
<1> QED BY <1>1, <1>2 DEF KeysOf

(* ... and with the names it is changing. *)
LEMMA TouchFacts ==
    ASSUME NamesTypes, NEW h \in Handlers, ~At(h, "idle"), NEW pc, NEW prev, NEW names, Touch(h, pc, prev, names),
           pc \in {"claim", "find", "lock", "read", "upsert", "index", "check", "delete", "transfer", "commit"},
           prev \in Names \cup {NoName}, names \subseteq Names \cup {NoName}
    PROVE  \E x \in Request : /\ handler' = [handler EXCEPT ![h] = x]
                              /\ x.pc = pc /\ x.route = handler[h].route /\ x.statement = handler[h].statement
                              /\ x.prev = prev /\ x.touched = names \ {NoName}
                              /\ KeysOf(x) = KeysOf(handler[h])
<1> DEFINE t == names \ {NoName}
           x == [handler[h] EXCEPT !.pc = pc, !.prev = prev, !.touched = t]
<1>1. handler[h] \in Request /\ handler' = [handler EXCEPT ![h] = x]
  BY RequestFacts DEF Touch, NamesTypes
<1>2. t \in SUBSET Names
  OBVIOUS
<1> HIDE DEF t
<1>3. /\ x \in Request /\ x.pc = pc /\ x.route = handler[h].route /\ x.statement = handler[h].statement
      /\ x.prev = prev /\ x.touched = t
  BY <1>1, <1>2 DEF Request
<1> HIDE DEF x
<1> QED BY <1>1, <1>3 DEF KeysOf, t

(* A request that moves on with the same locks. *)
LEMMA StepInv ==
    ASSUME NamesInv, NEW h \in Handlers, ~At(h, "idle"), NEW x \in Request, handler' = [handler EXCEPT ![h] = x],
           UNCHANGED <<users, released, locks>>,
           x.route = handler[h].route, x.statement = handler[h].statement, KeysOf(x) = KeysOf(handler[h]),
           IsPastLocks(x) => IsPastLocks(handler[h]), x.pc \notin {"claim", "find"} \/ x.pc = handler[h].pc
                                                      \/ handler[h].pc = "claim",
           RouteOK(x), ReadOK(x, users, released), TouchedOK(x, users),
           \A g \in Handlers : (g # h /\ ~At(g, "idle")) => x.touched \cap handler[g].touched = {}
    PROVE  NamesInv'
<1>1. HeldBy(h, handler[h], locks)
  BY RequestAt
<1>2. HeldBy(h, x, locks')
  BY <1>1 DEF HeldBy
<1>3. locks' \in [Pubkeys -> Handlers \cup {Nobody}]
  BY DEF NamesInv, NamesTypes
<1> QED BY <1>2, <1>3, MoveInv

(* A request arrives. *)
LEMMA ArriveInv ==
    ASSUME NamesInv, NEW h \in Handlers, NEW t \in Statements, NEW route \in t.routes, Arrive(h, t, route)
    PROVE  NamesInv'
<1> DEFINE x == [pc |-> IF route = "transfer" THEN "lock" ELSE "claim", route |-> route,
                 statement |-> t, prev |-> NoName, touched |-> {}]
<1>1. /\ At(h, "idle") /\ handler' = [handler EXCEPT ![h] = x] /\ UNCHANGED <<users, released, locks>>
  BY DEF Arrive, tables
<1>2. route \in {"register", "unregister", "transfer"}
  BY LnurlNamesAssumption
<1>3. /\ x \in Request /\ x.pc = (IF route = "transfer" THEN "lock" ELSE "claim") /\ x.route = route
      /\ x.statement = t /\ x.prev = NoName /\ x.touched = {}
  BY <1>2 DEF Request
<1> HIDE DEF x
<1>4. RouteOK(x)
  BY <1>2, <1>3 DEF RouteOK
<1>5. \A k \in Pubkeys : locks[k] # h
  BY <1>1 DEF NamesInv, RequestOK
<1>6. KeysOf(x) \subseteq Pubkeys
  BY <1>3, KeysFacts
<1>7. HeldBy(h, x, locks')
  BY <1>1, <1>3, <1>5, <1>6 DEF HeldBy, IsPastLocks
<1>8. ReadOK(x, users, released) /\ TouchedOK(x, users)
  BY <1>3 DEF ReadOK, TouchedOK
<1>9. locks' \in [Pubkeys -> Handlers \cup {Nobody}]
  BY <1>1 DEF NamesInv, NamesTypes
<1> QED BY <1>1, <1>3, <1>4, <1>7, <1>8, <1>9, MoveInv

(* A request that has no lock yet ends. *)
LEMMA LeaveInv ==
    ASSUME NamesInv, NEW h \in Handlers, handler[h].pc \in {"claim", "find"},
           handler' = [handler EXCEPT ![h] = Idle], UNCHANGED <<users, released, locks>>
    PROVE  NamesInv'
<1>1. HeldBy(h, handler[h], locks)
  BY RequestAt DEF At
<1>2. \A k \in Pubkeys : locks[k] # h
  BY <1>1 DEF HeldBy
<1>3. locks' = [k \in Pubkeys |-> IF locks[k] = h THEN Nobody ELSE locks[k]]
  BY <1>2 DEF NamesInv, NamesTypes
<1> QED BY <1>3, RollbackInv DEF EndTransaction

(* claim_statement *)
LEMMA ClaimInv ==
    ASSUME NamesInv, NEW h \in Handlers, Claim(h)
    PROVE  NamesInv'
<1>1. handler[h].pc = "claim" /\ UNCHANGED <<users, released, locks>> /\ ~At(h, "idle")
  BY DEF Claim, At, tables
<1>2. CASE Statement(h) \in claims
  BY <1>1, <1>2, LeaveInv DEF Claim
<1>3. CASE Statement(h) \notin claims
  <2> DEFINE pc == IF handler[h].route = "register" THEN "lock" ELSE "find"
  <2>1. Goto(h, pc) /\ pc \in {"lock", "find"}
    BY <1>3 DEF Claim
  <2> HIDE DEF pc
  <2>2. PICK x \in Request : /\ handler' = [handler EXCEPT ![h] = x]
                             /\ x.pc = pc /\ x.route = handler[h].route /\ x.statement = handler[h].statement
                             /\ x.prev = handler[h].prev /\ x.touched = handler[h].touched
                             /\ KeysOf(x) = KeysOf(handler[h])
    BY <1>1, <2>1, GotoFacts DEF NamesInv
  <2>3. RouteOK(handler[h]) /\ TouchedOK(handler[h], users) /\ handler[h] \in Request
    BY <1>1, RequestAt
  <2>4. RouteOK(x)
    BY <1>1, <2>2, <2>3 DEF RouteOK, pc, Request
  <2>5. ReadOK(x, users, released) /\ TouchedOK(x, users)
    BY <1>1, <2>1, <2>2, <2>3 DEF ReadOK, TouchedOK
  <2>6. x.touched = {}
    BY <1>1, <2>2, <2>3 DEF TouchedOK
  <2> QED BY <1>1, <2>1, <2>2, <2>4, <2>5, <2>6, StepInv DEF IsPastLocks
<1> QED BY <1>2, <1>3

(* unregister reads what is registered. *)
LEMMA FindUserInv ==
    ASSUME NamesInv, NEW h \in Handlers, FindUser(h)
    PROVE  NamesInv'
<1>1. handler[h].pc = "find" /\ UNCHANGED <<users, released, locks>> /\ ~At(h, "idle")
  BY DEF FindUser, At, tables
<1>2. CASE users[Key(h)] # Name(h)
  BY <1>1, <1>2, LeaveInv DEF FindUser
<1>3. CASE users[Key(h)] = Name(h)
  <2>1. Goto(h, "lock")
    BY <1>3 DEF FindUser
  <2>2. PICK x \in Request : /\ handler' = [handler EXCEPT ![h] = x]
                             /\ x.pc = "lock" /\ x.route = handler[h].route /\ x.statement = handler[h].statement
                             /\ x.prev = handler[h].prev /\ x.touched = handler[h].touched
                             /\ KeysOf(x) = KeysOf(handler[h])
    BY <1>1, <2>1, GotoFacts DEF NamesInv
  <2>3. RouteOK(handler[h]) /\ TouchedOK(handler[h], users)
    BY <1>1, RequestAt
  <2>4. RouteOK(x) /\ ReadOK(x, users, released) /\ TouchedOK(x, users) /\ x.touched = {}
    BY <1>1, <2>2, <2>3 DEF RouteOK, ReadOK, TouchedOK
  <2> QED BY <1>1, <2>2, <2>4, StepInv DEF IsPastLocks
<1> QED BY <1>2, <1>3

(* name_of *)
LEMMA ReadNameInv ==
    ASSUME NamesInv, NEW h \in Handlers, ReadName(h)
    PROVE  NamesInv'
<1>1. handler[h].pc = "read" /\ UNCHANGED <<users, released, locks>> /\ ~At(h, "idle")
      /\ Touch(h, "upsert", users[Key(h)], {})
  BY DEF ReadName, At, tables
<1>2. RouteOK(handler[h]) /\ TouchedOK(handler[h], users) /\ Key(h) \in Pubkeys /\ handler[h] \in Request
  BY <1>1, RequestAt
<1>3. users[Key(h)] \in Names \cup {NoName} /\ NamesTypes
  BY <1>2 DEF NamesInv, NamesTypes
<1>4. PICK x \in Request : /\ handler' = [handler EXCEPT ![h] = x]
                           /\ x.pc = "upsert" /\ x.route = handler[h].route /\ x.statement = handler[h].statement
                           /\ x.prev = users[Key(h)] /\ x.touched = {} \ {NoName}
                           /\ KeysOf(x) = KeysOf(handler[h])
  BY <1>1, <1>3, TouchFacts
<1>5. RouteOK(x)
  BY <1>1, <1>2, <1>4 DEF RouteOK, Request
<1>6. ReadOK(x, users, released) /\ TouchedOK(x, users)
  BY <1>4 DEF ReadOK, TouchedOK, Key, Statement
<1> QED BY <1>1, <1>4, <1>5, <1>6, StepInv DEF IsPastLocks

(* The new version of the row replaces the old one. *)
LEMMA UpsertInv ==
    ASSUME NamesInv, NEW h \in Handlers, Upsert(h)
    PROVE  NamesInv'
<1>1. handler[h].pc = "upsert" /\ UNCHANGED <<users, released, locks>> /\ ~At(h, "idle")
      /\ Touch(h, "index", handler[h].prev, {handler[h].prev})
  BY DEF Upsert, At, tables
<1>2. RouteOK(handler[h]) /\ ReadOK(handler[h], users, released) /\ Key(h) \in Pubkeys
      /\ Key(h) \in KeysOf(handler[h]) /\ handler[h] \in Request
  BY <1>1, RequestAt
<1>3. handler[h].prev \in Names \cup {NoName} /\ handler[h].route = "register" /\ handler[h].prev = users[Key(h)]
  BY <1>1, <1>2 DEF Request, RouteOK, ReadOK, Key, Statement
<1>4. PICK x \in Request : /\ handler' = [handler EXCEPT ![h] = x]
                           /\ x.pc = "index" /\ x.route = handler[h].route /\ x.statement = handler[h].statement
                           /\ x.prev = handler[h].prev /\ x.touched = {handler[h].prev} \ {NoName}
                           /\ KeysOf(x) = KeysOf(handler[h])
  BY <1>1, <1>3, TouchFacts DEF NamesInv
<1>5. RouteOK(x) /\ ReadOK(x, users, released)
  BY <1>1, <1>2, <1>3, <1>4 DEF RouteOK, ReadOK
<1>6. TouchedOK(x, users)
  <2>1. \A k \in Pubkeys : users[k] = handler[h].prev => k = Key(h) \/ handler[h].prev = NoName
    BY <1>2, <1>3 DEF NamesInv, OneOwner
  <2> QED BY <1>2, <1>4, <2>1 DEF TouchedOK
<1>7. \A g \in Handlers : (g # h /\ ~At(g, "idle")) => x.touched \cap handler[g].touched = {}
  BY <1>1, <1>2, <1>3, <1>4, OwnedIsNotTouched DEF IsPastLocks
<1> QED BY <1>1, <1>4, <1>5, <1>6, <1>7, StepInv DEF IsPastLocks

(* The name is taken, or this transaction's. *)
LEMMA TakeNameInv ==
    ASSUME NamesInv, NEW h \in Handlers, TakeName(h)
    PROVE  NamesInv'
<1>1. handler[h].pc = "index" /\ Busy(h, Name(h)) = {} /\ ~At(h, "idle")
  BY DEF TakeName, At
<1>2. CASE TakenByOther(h, Name(h))
  BY <1>2, RollbackInv DEF TakeName, Rollback, tables
<1>3. CASE ~TakenByOther(h, Name(h))
  <2>1. /\ Touch(h, "check", handler[h].prev, {Name(h), handler[h].prev})
        /\ UNCHANGED <<users, released, locks>>
    BY <1>3 DEF TakeName, tables
  <2>2. /\ RouteOK(handler[h]) /\ ReadOK(handler[h], users, released) /\ TouchedOK(handler[h], users)
        /\ Key(h) \in Pubkeys /\ Name(h) \in Names /\ Key(h) \in KeysOf(handler[h]) /\ handler[h] \in Request
    BY <1>1, RequestAt
  <2>3. /\ handler[h].prev \in Names \cup {NoName} /\ handler[h].route = "register"
        /\ handler[h].prev = NoName \/ handler[h].prev \in handler[h].touched
    BY <1>1, <2>2 DEF Request, RouteOK, TouchedOK
  <2>4. PICK x \in Request : /\ handler' = [handler EXCEPT ![h] = x]
                             /\ x.pc = "check" /\ x.route = handler[h].route /\ x.statement = handler[h].statement
                             /\ x.prev = handler[h].prev /\ x.touched = {Name(h), handler[h].prev} \ {NoName}
                             /\ KeysOf(x) = KeysOf(handler[h])
    BY <1>1, <2>1, <2>2, <2>3, TouchFacts DEF NamesInv
  <2>5. NoName \notin Names
    BY LnurlNamesAssumption
  <2>6. RouteOK(x) /\ ReadOK(x, users, released)
    BY <1>1, <2>2, <2>3, <2>4 DEF RouteOK, ReadOK
  <2>7. TouchedOK(x, users)
    <3>1. \A k \in Pubkeys : users[k] = Name(h) => k = Key(h)
      BY <1>3 DEF TakenByOther
    <3>2. \A n \in x.touched, k \in Pubkeys : users[k] = n => k \in KeysOf(x)
      BY <2>2, <2>3, <2>4, <3>1 DEF TouchedOK
    <3> QED BY <2>2, <2>4, <2>5, <3>2 DEF TouchedOK, Name, Statement
  <2>8. ASSUME NEW g \in Handlers, g # h, ~At(g, "idle") PROVE x.touched \cap handler[g].touched = {}
    <3>1. Name(h) \notin handler[g].touched
      BY <1>1, <2>8 DEF Busy
    <3>2. handler[h].touched \cap handler[g].touched = {}
      BY <1>1, <2>8 DEF NamesInv, TouchedOnce
    <3> QED BY <2>3, <2>4, <3>1, <3>2
  <2> QED BY <1>1, <2>1, <2>4, <2>6, <2>7, <2>8, StepInv DEF IsPastLocks
<1> QED BY <1>2, <1>3

(* reserved_for_other *)
LEMMA CheckHoldInv ==
    ASSUME NamesInv, NEW h \in Handlers, CheckHold(h)
    PROVE  NamesInv'
<1>1. handler[h].pc = "check" /\ ~At(h, "idle")
  BY DEF CheckHold, At
<1>2. CASE released[Name(h)] \notin {Nobody, Key(h)}
  BY <1>2, RollbackInv DEF CheckHold, Rollback, tables
<1>3. CASE released[Name(h)] \in {Nobody, Key(h)}
  <2>1. Goto(h, "commit") /\ UNCHANGED <<users, released, locks>>
    BY <1>3 DEF CheckHold, tables
  <2>2. /\ RouteOK(handler[h]) /\ ReadOK(handler[h], users, released) /\ TouchedOK(handler[h], users)
        /\ handler[h] \in Request
    BY <1>1, RequestAt
  <2>3. PICK x \in Request : /\ handler' = [handler EXCEPT ![h] = x]
                             /\ x.pc = "commit" /\ x.route = handler[h].route /\ x.statement = handler[h].statement
                             /\ x.prev = handler[h].prev /\ x.touched = handler[h].touched
                             /\ KeysOf(x) = KeysOf(handler[h])
    BY <1>1, <2>1, GotoFacts DEF NamesInv
  <2>4. handler[h].route = "register"
    BY <1>1, <2>2 DEF RouteOK, Request
  <2>5. RouteOK(x) /\ ReadOK(x, users, released)
    BY <1>1, <1>3, <2>2, <2>3, <2>4 DEF RouteOK, ReadOK, Name, Key, Statement
  <2>6. TouchedOK(x, users)
    BY <1>1, <2>2, <2>3, <2>4 DEF TouchedOK
  <2>7. \A g \in Handlers : (g # h /\ ~At(g, "idle")) => x.touched \cap handler[g].touched = {}
    BY <1>1, <2>3 DEF NamesInv, TouchedOnce
  <2> QED BY <1>1, <2>1, <2>3, <2>5, <2>6, <2>7, StepInv DEF IsPastLocks
<1> QED BY <1>2, <1>3

(* delete_user *)
LEMMA DeleteInv ==
    ASSUME NamesInv, NEW h \in Handlers, Delete(h)
    PROVE  NamesInv'
<1>1. handler[h].pc = "delete" /\ ~At(h, "idle")
  BY DEF Delete, At
<1>2. CASE users[Key(h)] # Name(h)
  BY <1>2, RollbackInv DEF Delete, Rollback, tables
<1>3. CASE users[Key(h)] = Name(h)
  <2>1. Touch(h, "commit", NoName, {Name(h)}) /\ UNCHANGED <<users, released, locks>>
    BY <1>3 DEF Delete, tables
  <2>2. /\ RouteOK(handler[h]) /\ handler[h] \in Request
        /\ Key(h) \in Pubkeys /\ Name(h) \in Names /\ Key(h) \in KeysOf(handler[h])
    BY <1>1, RequestAt
  <2>3. PICK x \in Request : /\ handler' = [handler EXCEPT ![h] = x]
                             /\ x.pc = "commit" /\ x.route = handler[h].route /\ x.statement = handler[h].statement
                             /\ x.prev = NoName /\ x.touched = {Name(h)} \ {NoName}
                             /\ KeysOf(x) = KeysOf(handler[h])
    BY <1>1, <2>1, <2>2, TouchFacts DEF NamesInv
  <2>4. handler[h].route = "unregister" /\ NoName \notin Names
    BY <1>1, <2>2, LnurlNamesAssumption DEF RouteOK, Request
  <2>5. RouteOK(x) /\ ReadOK(x, users, released)
    BY <1>1, <1>3, <2>2, <2>3, <2>4 DEF RouteOK, ReadOK, Name, Key, Statement
  <2>6. TouchedOK(x, users)
    <3>1. \A k \in Pubkeys : users[k] = Name(h) => k = Key(h)
      BY <1>3, <2>2, <2>4 DEF NamesInv, OneOwner
    <3> QED BY <2>2, <2>3, <2>4, <3>1 DEF TouchedOK, Name, Statement
  <2>7. \A g \in Handlers : (g # h /\ ~At(g, "idle")) => x.touched \cap handler[g].touched = {}
    BY <1>1, <1>3, <2>2, <2>3, OwnedIsNotTouched DEF IsPastLocks
  <2> QED BY <1>1, <2>1, <2>3, <2>5, <2>6, <2>7, StepInv DEF IsPastLocks
<1> QED BY <1>2, <1>3

(* transfer_username *)
LEMMA TransferInv ==
    ASSUME NamesInv, NEW h \in Handlers, Transfer(h)
    PROVE  NamesInv'
<1>1. handler[h].pc = "transfer" /\ ~At(h, "idle")
  BY DEF Transfer, At
<1>2. CASE ~(Statement(h) \notin claims /\ users[Key(h)] = Name(h))
  BY <1>2, RollbackInv DEF Transfer, Rollback, tables
<1>3. CASE Statement(h) \notin claims /\ users[Key(h)] = Name(h)
  <2> DEFINE to == Statement(h).to
  <2>1. Touch(h, "commit", users[to], {Name(h), users[to]}) /\ UNCHANGED <<users, released, locks>>
    BY <1>3 DEF Transfer, tables
  <2>2. /\ RouteOK(handler[h]) /\ handler[h] \in Request
        /\ Key(h) \in Pubkeys /\ Name(h) \in Names /\ Key(h) \in KeysOf(handler[h])
        /\ handler[h].route = "transfer" => to \in Pubkeys /\ to \in KeysOf(handler[h])
    BY <1>1, RequestAt
  <2>3. handler[h].route = "transfer" /\ NoName \notin Names
    BY <1>1, <2>2, LnurlNamesAssumption DEF RouteOK, Request
  <2>4. users[to] \in Names \cup {NoName}
    BY <2>2, <2>3 DEF NamesInv, NamesTypes
  <2>5. PICK x \in Request : /\ handler' = [handler EXCEPT ![h] = x]
                             /\ x.pc = "commit" /\ x.route = handler[h].route /\ x.statement = handler[h].statement
                             /\ x.prev = users[to] /\ x.touched = {Name(h), users[to]} \ {NoName}
                             /\ KeysOf(x) = KeysOf(handler[h])
    BY <1>1, <2>1, <2>2, <2>4, TouchFacts DEF NamesInv
  <2>6. RouteOK(x) /\ ReadOK(x, users, released)
    BY <1>1, <1>3, <2>2, <2>3, <2>5 DEF RouteOK, ReadOK, Name, Key, Statement
  <2>7. TouchedOK(x, users)
    <3>1. \A k \in Pubkeys : (users[k] = Name(h) => k = Key(h)) /\ (users[k] = users[to] => k = to \/ users[to] = NoName)
      BY <1>3, <2>2, <2>3 DEF NamesInv, OneOwner
    <3> QED BY <2>2, <2>3, <2>5, <3>1 DEF TouchedOK, Name, Statement
  <2>8. \A g \in Handlers : (g # h /\ ~At(g, "idle")) => x.touched \cap handler[g].touched = {}
    BY <1>1, <1>3, <2>2, <2>3, <2>5, OwnedIsNotTouched DEF IsPastLocks
  <2> QED BY <1>1, <2>1, <2>5, <2>6, <2>7, <2>8, StepInv DEF IsPastLocks
<1> QED BY <1>2, <1>3

-----------------------------------------------------------------------------
(* The least of the keys a request has yet to lock. *)
LEMMA MinIsLeast ==
    ASSUME NEW T, T \subseteq Nat, T # {}
    PROVE  Min(T) \in T /\ \A y \in T : Min(T) <= y
<1>1. \E n \in T : \A m \in T : n <= m
  BY NatMin
<1> QED BY <1>1 DEF Min

LEMMA NextKeyFacts ==
    ASSUME NamesInv, NEW h \in Handlers, ~At(h, "idle")
    PROVE  /\ NextKey(h) \in KeysOf(handler[h]) /\ LockKeys(h) = KeysOf(handler[h])
           /\ Missing(h) # {} => NextKey(h) \in Missing(h) /\ \A k \in Missing(h) : NextKey(h) <= k
<1>1. KeysOf(handler[h]) \subseteq Pubkeys /\ Key(h) \in KeysOf(handler[h])
  BY RequestAt
<1>2. LockKeys(h) = KeysOf(handler[h])
  BY DEF LockKeys, KeysOf, Key, Statement
<1>3. Missing(h) \subseteq KeysOf(handler[h]) /\ Missing(h) \subseteq Nat
  BY <1>1, <1>2, LnurlNamesAssumption DEF Missing
<1> QED BY <1>1, <1>2, <1>3, MinIsLeast DEF NextKey

(* lock_registrations *)
LEMMA LockInv ==
    ASSUME NamesInv, NEW h \in Handlers, Lock(h)
    PROVE  NamesInv'
<1> DEFINE next == NextKey(h)
           pc == IF Missing(h) \subseteq {next} THEN AfterLock[handler[h].route] ELSE "lock"
           keys == KeysOf(handler[h])
<1>1. /\ handler[h].pc = "lock" /\ ~At(h, "idle") /\ locks[next] \in {Nobody, h}
      /\ locks' = [locks EXCEPT ![next] = h] /\ Goto(h, pc) /\ UNCHANGED <<users, released>>
  BY DEF Lock, At, tables
<1>2. /\ handler[h] \in Request /\ RouteOK(handler[h]) /\ HeldBy(h, handler[h], locks)
      /\ TouchedOK(handler[h], users) /\ keys \subseteq Pubkeys
  BY <1>1, RequestAt
<1>3. /\ next \in keys /\ LockKeys(h) = keys
      /\ Missing(h) # {} => next \in Missing(h) /\ \A k \in Missing(h) : next <= k
  BY <1>1, NextKeyFacts
<1>4. Missing(h) = {k \in keys : locks[k] # h}
  BY <1>3 DEF Missing
<1>5. /\ \/ handler[h].route = "register" /\ pc = "read"
         \/ handler[h].route = "unregister" /\ pc = "delete"
         \/ handler[h].route = "transfer" /\ pc = "transfer"
         \/ pc = "lock"
      /\ pc # "lock" => Missing(h) \subseteq {next}
  <2>1. handler[h].route \in {"register", "unregister", "transfer"}
    BY <1>2 DEF Request
  <2>2. AfterLock["register"] = "read" /\ AfterLock["unregister"] = "delete" /\ AfterLock["transfer"] = "transfer"
    BY DEF AfterLock
  <2>3. CASE Missing(h) \subseteq {next}
    BY <2>1, <2>2, <2>3
  <2>4. CASE ~(Missing(h) \subseteq {next})
    BY <2>4
  <2> QED BY <2>3, <2>4
<1> HIDE DEF next, pc
<1>6. PICK x \in Request : /\ handler' = [handler EXCEPT ![h] = x]
                           /\ x.pc = pc /\ x.route = handler[h].route /\ x.statement = handler[h].statement
                           /\ x.prev = handler[h].prev /\ x.touched = handler[h].touched
                           /\ KeysOf(x) = keys
  BY <1>1, <1>5, GotoFacts DEF NamesInv
<1> HIDE DEF keys
<1>7. /\ locks' \in [Pubkeys -> Handlers \cup {Nobody}]
      /\ \A k \in Pubkeys : locks'[k] = IF k = next THEN h ELSE locks[k]
  BY <1>1 DEF NamesInv, NamesTypes
<1>8. \A g \in Handlers, k \in Pubkeys : g # h => (locks'[k] = g <=> locks[k] = g)
  BY <1>1, <1>7, LnurlNamesAssumption
<1>9. RouteOK(x) /\ ReadOK(x, users, released) /\ TouchedOK(x, users) /\ x.touched = {}
  BY <1>1, <1>2, <1>5, <1>6 DEF RouteOK, ReadOK, TouchedOK
<1>10. HeldBy(h, x, locks')
  <2>1. IsPastLocks(x) => \A k \in keys : locks'[k] = h
    BY <1>2, <1>4, <1>5, <1>6, <1>7 DEF IsPastLocks
  <2>2. \A k \in Pubkeys : locks'[k] = h => k \in keys /\ x.pc \notin {"claim", "find"}
    BY <1>2, <1>3, <1>5, <1>6, <1>7 DEF HeldBy, keys
  <2>3. ASSUME NEW k \in keys, NEW m \in keys, locks'[k] = h, locks'[m] # h PROVE k < m
    <3>1. m \in Missing(h) /\ m # next /\ next <= m /\ k \in Nat /\ m \in Nat
      <4>1. Pubkeys \subseteq Nat /\ keys \subseteq Pubkeys
        BY <1>2, LnurlNamesAssumption
      <4>2. m # next /\ locks[m] # h
        BY <1>7, <2>3, <4>1
      <4> QED BY <1>3, <1>4, <4>1, <4>2
    <3>2. CASE k = next
      BY <3>1, <3>2
    <3>3. CASE k # next
      BY <1>2, <1>4, <1>7, <2>3, <3>1, <3>3 DEF HeldBy, keys
    <3> QED BY <3>2, <3>3
  <2> QED BY <1>6, <2>1, <2>2, <2>3 DEF HeldBy
<1>11. \A g \in Handlers : (g # h /\ ~At(g, "idle")) => x.touched \cap handler[g].touched = {}
  BY <1>9
<1>12. UNCHANGED <<users, released>> /\ handler' = [handler EXCEPT ![h] = x]
  BY <1>1, <1>6
<1>13. locks' \in [Pubkeys -> Handlers \cup {Nobody}]
  BY <1>7
<1> QED BY <1>8, <1>9, <1>10, <1>11, <1>12, <1>13, MoveInv

-----------------------------------------------------------------------------
(* What a commit changes is its own: the registrations it has locked get   *)
(* no name or one that it is changing, holds only change on such names.    *)
LEMMA CommitInv ==
    ASSUME NamesInv, NEW h \in Handlers, ~At(h, "idle"), EndTransaction(h),
           users' \in [Pubkeys -> Names \cup {NoName}], released' \in [Names -> Pubkeys \cup {Nobody}],
           OneOwner', HeldIsUnowned', IsPastLocks(handler[h]),
           \A k \in Pubkeys : \/ users'[k] = users[k]
                              \/ k \in KeysOf(handler[h]) /\ users'[k] \in handler[h].touched \cup {NoName},
           \A n \in Names : released'[n] = released[n] \/ n \in handler[h].touched
    PROVE  NamesInv'
<1>1. HeldBy(h, handler[h], locks)
  BY RequestAt
<1>2. \A g \in Handlers, k \in Pubkeys : (g # h /\ locks[k] = g) => users'[k] = users[k]
  BY <1>1 DEF HeldBy
<1>3. ASSUME NEW g \in Handlers, g # h, ~At(g, "idle")
      PROVE  handler[g].touched \cap handler[h].touched = {} /\ NoName \notin handler[g].touched
  <2>1. handler[g] \in Request
    BY <1>3, RequestAt
  <2> QED BY <1>3, <2>1, LnurlNamesAssumption DEF NamesInv, TouchedOnce, Request
<1>4. \A g \in Handlers, k \in Pubkeys :
         (g # h /\ ~At(g, "idle") /\ users'[k] \in handler[g].touched) => users'[k] = users[k]
  BY <1>3
<1>5. \A g \in Handlers, n \in Names :
         (g # h /\ ~At(g, "idle") /\ n \in handler[g].touched) => released'[n] = released[n]
  BY <1>3
<1> QED BY <1>2, <1>4, <1>5, EndInv

(* What is known at a commit. *)
LEMMA AtCommit ==
    ASSUME NamesInv, NEW h \in Handlers, At(h, "commit")
    PROVE  /\ ~At(h, "idle") /\ IsPastLocks(handler[h])
           /\ Key(h) \in Pubkeys /\ Name(h) \in Names /\ Key(h) \in KeysOf(handler[h]) /\ Name(h) \in handler[h].touched
           /\ handler[h].prev \in Names \cup {NoName}
           /\ handler[h].route # "unregister" => handler[h].prev = NoName \/ handler[h].prev \in handler[h].touched
           /\ handler[h].route = "register" => /\ handler[h].prev = users[Key(h)]
                                               /\ released[Name(h)] \in {Nobody, Key(h)}
                                               /\ \A k \in Pubkeys : users[k] = Name(h) => k = Key(h)
           /\ handler[h].route # "register" => users[Key(h)] = Name(h)
           /\ handler[h].route = "transfer" => /\ handler[h].prev = users[Statement(h).to]
                                               /\ Statement(h).to \in Pubkeys /\ Statement(h).to \in KeysOf(handler[h])
           /\ users \in [Pubkeys -> Names \cup {NoName}] /\ released \in [Names -> Pubkeys \cup {Nobody}]
           /\ OneOwner /\ HeldIsUnowned /\ NoName \notin Names /\ Nobody \notin Pubkeys
<1>1. ~At(h, "idle") /\ handler[h].pc = "commit"
  BY DEF At
<1>2. /\ handler[h] \in Request /\ ReadOK(handler[h], users, released) /\ TouchedOK(handler[h], users)
      /\ Key(h) \in Pubkeys /\ Name(h) \in Names /\ Key(h) \in KeysOf(handler[h])
      /\ handler[h].route = "transfer" => Statement(h).to \in Pubkeys /\ Statement(h).to \in KeysOf(handler[h])
  BY <1>1, RequestAt
<1>3. /\ Name(h) \in handler[h].touched /\ handler[h].prev \in Names \cup {NoName}
      /\ handler[h].route # "unregister" => handler[h].prev = NoName \/ handler[h].prev \in handler[h].touched
  BY <1>1, <1>2 DEF Request, TouchedOK, Name, Statement
<1>4. /\ handler[h].route = "register" => /\ handler[h].prev = users[Key(h)]
                                          /\ released[Name(h)] \in {Nobody, Key(h)}
      /\ handler[h].route # "register" => users[Key(h)] = Name(h)
      /\ handler[h].route = "transfer" => handler[h].prev = users[Statement(h).to]
  BY <1>1, <1>2 DEF ReadOK, Key, Name, Statement
<1>5. handler[h].route = "register" => \A k \in Pubkeys : users[k] = Name(h) => k = Key(h)
  BY <1>2, <1>3 DEF TouchedOK, KeysOf, Key, Statement
<1> QED BY <1>1, <1>2, <1>3, <1>4, <1>5, LnurlNamesAssumption DEF NamesInv, NamesTypes, IsPastLocks

(* What a registration leaves of the tables, *)
LEMMA RegisterFacts ==
    ASSUME NamesInv, NEW h \in Handlers, CommitRegister(h)
    PROVE  /\ EndTransaction(h)
           /\ \/ UNCHANGED <<users, released>>
              \/ /\ \A k \in Pubkeys : users'[k] = IF k = Key(h) THEN Name(h) ELSE users[k]
                 /\ \A n \in Names : released'[n] =
                       IF n = handler[h].prev /\ n # Name(h) THEN Key(h)
                       ELSE IF n = Name(h) THEN Nobody ELSE released[n]
                 /\ users' \in [Pubkeys -> Names \cup {NoName}] /\ released' \in [Names -> Pubkeys \cup {Nobody}]
<1> DEFINE changed == handler[h].prev # Name(h)
           row == <<clock, Cardinality(everLogged[Key(h)])>>
           logged(rows_) == IF changed THEN [rows_ EXCEPT ![Key(h)] = @ \cup {row}] ELSE rows_
           refused == changed /\ Counted(logged(log)[Key(h)]) > MaxPerWindow
<1>1. At(h, "commit") /\ IF refused THEN Rollback(h)
                         ELSE /\ users' = [users EXCEPT ![Key(h)] = Name(h)]
                              /\ released' = HoldsAfter(h)
                              /\ EndTransaction(h)
  BY DEF CommitRegister
<1> HIDE DEF refused
<1>2. CASE refused
  BY <1>1, <1>2 DEF Rollback, tables
<1>3. CASE ~refused
  <2>1. /\ Key(h) \in Pubkeys /\ Name(h) \in Names /\ handler[h].prev \in Names \cup {NoName} /\ NoName \notin Names
        /\ users \in [Pubkeys -> Names \cup {NoName}] /\ released \in [Names -> Pubkeys \cup {Nobody}]
    BY <1>1, AtCommit
  <2>2. users' = [users EXCEPT ![Key(h)] = Name(h)] /\ released' = HoldsAfter(h) /\ EndTransaction(h)
    BY <1>1, <1>3
  <2>3. released' = IF handler[h].prev \in {NoName, Name(h)} THEN [released EXCEPT ![Name(h)] = Nobody]
                    ELSE [[released EXCEPT ![Name(h)] = Nobody] EXCEPT ![handler[h].prev] = Key(h)]
    BY <2>2 DEF HoldsAfter, Reserve
  <2>4. users' \in [Pubkeys -> Names \cup {NoName}] /\ \A k \in Pubkeys : users'[k] = IF k = Key(h) THEN Name(h) ELSE users[k]
    BY <2>1, <2>2
  <2>5. released' \in [Names -> Pubkeys \cup {Nobody}]
    BY <2>1, <2>3
  <2>6. \A n \in Names : released'[n] = IF n = handler[h].prev /\ n # Name(h) THEN Key(h)
                                        ELSE IF n = Name(h) THEN Nobody ELSE released[n]
    BY <2>1, <2>3
  <2> QED BY <2>2, <2>4, <2>5, <2>6
<1> QED BY <1>2, <1>3

(* ... a release, *)
LEMMA UnregisterFacts ==
    ASSUME NamesInv, NEW h \in Handlers, CommitUnregister(h)
    PROVE  /\ EndTransaction(h)
           /\ \A k \in Pubkeys : users'[k] = IF k = Key(h) THEN NoName ELSE users[k]
           /\ \A n \in Names : released'[n] = IF n = Name(h) THEN Key(h) ELSE released[n]
           /\ users' \in [Pubkeys -> Names \cup {NoName}] /\ released' \in [Names -> Pubkeys \cup {Nobody}]
<1>1. /\ At(h, "commit") /\ EndTransaction(h) /\ users' = [users EXCEPT ![Key(h)] = NoName]
      /\ released' = [released EXCEPT ![Name(h)] = Key(h)]
  BY DEF CommitUnregister
<1>2. /\ Key(h) \in Pubkeys /\ Name(h) \in Names
      /\ users \in [Pubkeys -> Names \cup {NoName}] /\ released \in [Names -> Pubkeys \cup {Nobody}]
  BY <1>1, AtCommit
<1> QED BY <1>1, <1>2

(* ... and a transfer. *)
LEMMA TransferFacts ==
    ASSUME NamesInv, NEW h \in Handlers, CommitTransfer(h)
    PROVE  /\ EndTransaction(h)
           /\ \A k \in Pubkeys : users'[k] = IF k = Statement(h).to THEN Name(h) ELSE IF k = Key(h) THEN NoName ELSE users[k]
           /\ \A n \in Names : released'[n] =
                 IF n = handler[h].prev /\ n # Name(h) THEN Statement(h).to ELSE released[n]
           /\ users' \in [Pubkeys -> Names \cup {NoName}] /\ released' \in [Names -> Pubkeys \cup {Nobody}]
<1> DEFINE to == Statement(h).to
<1>1. /\ At(h, "commit") /\ handler[h].route = "transfer" /\ EndTransaction(h)
      /\ users' = [users EXCEPT ![Key(h)] = NoName, ![to] = Name(h)]
      /\ released' = IF handler[h].prev \in {NoName, Name(h)} THEN released ELSE [released EXCEPT ![handler[h].prev] = to]
  BY DEF CommitTransfer, Reserve
<1>2. /\ Key(h) \in Pubkeys /\ Name(h) \in Names /\ to \in Pubkeys
      /\ handler[h].prev \in Names \cup {NoName} /\ NoName \notin Names
      /\ users \in [Pubkeys -> Names \cup {NoName}] /\ released \in [Names -> Pubkeys \cup {Nobody}]
  BY <1>1, AtCommit
<1> HIDE DEF to
<1>3. users' \in [Pubkeys -> Names \cup {NoName}]
      /\ \A k \in Pubkeys : users'[k] = IF k = to THEN Name(h) ELSE IF k = Key(h) THEN NoName ELSE users[k]
  BY <1>1, <1>2
<1>4. released' \in [Names -> Pubkeys \cup {Nobody}]
      /\ \A n \in Names : released'[n] = IF n = handler[h].prev /\ n # Name(h) THEN to ELSE released[n]
  BY <1>1, <1>2
<1> QED BY <1>1, <1>3, <1>4 DEF to

LEMMA CommitRegisterInv ==
    ASSUME NamesInv, NEW h \in Handlers, CommitRegister(h)
    PROVE  NamesInv'
<1>1. At(h, "commit") /\ handler[h].route = "register"
  BY DEF CommitRegister
<1>2. CASE UNCHANGED <<users, released>>
  BY <1>2, RegisterFacts, RollbackInv
<1>3. CASE ~UNCHANGED <<users, released>>
  <2> DEFINE key == Key(h)
             name == Name(h)
             prev == handler[h].prev
  <2>1. /\ EndTransaction(h)
        /\ \A k \in Pubkeys : users'[k] = IF k = key THEN name ELSE users[k]
        /\ \A n \in Names : released'[n] = IF n = prev /\ n # name THEN key
                                           ELSE IF n = name THEN Nobody ELSE released[n]
        /\ users' \in [Pubkeys -> Names \cup {NoName}] /\ released' \in [Names -> Pubkeys \cup {Nobody}]
    BY <1>3, RegisterFacts
  <2>2. /\ ~At(h, "idle") /\ IsPastLocks(handler[h])
        /\ key \in Pubkeys /\ name \in Names /\ key \in KeysOf(handler[h]) /\ name \in handler[h].touched
        /\ prev \in Names \cup {NoName} /\ (prev = NoName \/ prev \in handler[h].touched)
        /\ prev = users[key] /\ \A k \in Pubkeys : users[k] = name => k = key
        /\ OneOwner /\ HeldIsUnowned /\ NoName \notin Names
    BY <1>1, AtCommit
  <2> HIDE DEF key, name, prev
  <2>3. OneOwner'
    BY <2>1, <2>2 DEF OneOwner
  <2>4. HeldIsUnowned'
    <3> SUFFICES ASSUME NEW n \in Names, released'[n] # Nobody, NEW k \in Pubkeys, users'[k] = n PROVE FALSE
      BY DEF HeldIsUnowned, Owners
    <3>1. CASE n = prev /\ n # name
      BY <2>1, <2>2, <3>1 DEF OneOwner
    <3>2. CASE n # prev /\ n # name
      BY <2>1, <2>2, <3>2 DEF HeldIsUnowned, Owners
    <3> QED BY <2>1, <3>1, <3>2
  <2>5. \A k \in Pubkeys : \/ users'[k] = users[k]
                           \/ k \in KeysOf(handler[h]) /\ users'[k] \in handler[h].touched \cup {NoName}
    BY <2>1, <2>2
  <2>6. \A n \in Names : released'[n] = released[n] \/ n \in handler[h].touched
    BY <2>1, <2>2
  <2> QED BY <2>1, <2>2, <2>3, <2>4, <2>5, <2>6, CommitInv
<1> QED BY <1>2, <1>3

LEMMA CommitUnregisterInv ==
    ASSUME NamesInv, NEW h \in Handlers, CommitUnregister(h)
    PROVE  NamesInv'
<1> DEFINE key == Key(h)
           name == Name(h)
<1>1. At(h, "commit") /\ handler[h].route = "unregister"
  BY DEF CommitUnregister
<1>2. /\ EndTransaction(h)
      /\ \A k \in Pubkeys : users'[k] = IF k = key THEN NoName ELSE users[k]
      /\ \A n \in Names : released'[n] = IF n = name THEN key ELSE released[n]
      /\ users' \in [Pubkeys -> Names \cup {NoName}] /\ released' \in [Names -> Pubkeys \cup {Nobody}]
  BY UnregisterFacts
<1>3. /\ ~At(h, "idle") /\ IsPastLocks(handler[h])
      /\ key \in Pubkeys /\ name \in Names /\ key \in KeysOf(handler[h]) /\ name \in handler[h].touched
      /\ users[key] = name /\ OneOwner /\ HeldIsUnowned /\ NoName \notin Names
  BY <1>1, AtCommit
<1> HIDE DEF key, name
<1>4. OneOwner'
  BY <1>2, <1>3 DEF OneOwner
<1>5. HeldIsUnowned'
  <2> SUFFICES ASSUME NEW n \in Names, released'[n] # Nobody, NEW k \in Pubkeys, users'[k] = n PROVE FALSE
    BY DEF HeldIsUnowned, Owners
  <2>1. CASE n = name
    BY <1>2, <1>3, <2>1 DEF OneOwner
  <2>2. CASE n # name
    BY <1>2, <1>3, <2>2 DEF HeldIsUnowned, Owners
  <2> QED BY <2>1, <2>2
<1> QED BY <1>2, <1>3, <1>4, <1>5, CommitInv

LEMMA CommitTransferInv ==
    ASSUME NamesInv, NEW h \in Handlers, CommitTransfer(h)
    PROVE  NamesInv'
<1> DEFINE key == Key(h)
           name == Name(h)
           prev == handler[h].prev
           to == Statement(h).to
<1>1. At(h, "commit") /\ handler[h].route = "transfer"
  BY DEF CommitTransfer
<1>2. /\ EndTransaction(h)
      /\ \A k \in Pubkeys : users'[k] = IF k = to THEN name ELSE IF k = key THEN NoName ELSE users[k]
      /\ \A n \in Names : released'[n] = IF n = prev /\ n # name THEN to ELSE released[n]
      /\ users' \in [Pubkeys -> Names \cup {NoName}] /\ released' \in [Names -> Pubkeys \cup {Nobody}]
  BY TransferFacts
<1>3. /\ ~At(h, "idle") /\ IsPastLocks(handler[h])
      /\ key \in Pubkeys /\ name \in Names /\ key \in KeysOf(handler[h]) /\ name \in handler[h].touched
      /\ users[key] = name /\ prev = users[to] /\ to \in Pubkeys /\ to \in KeysOf(handler[h])
      /\ prev = NoName \/ prev \in handler[h].touched
      /\ OneOwner /\ HeldIsUnowned /\ NoName \notin Names
  BY <1>1, AtCommit
<1> HIDE DEF key, name, prev, to
<1>4. OneOwner'
  BY <1>2, <1>3 DEF OneOwner
<1>5. HeldIsUnowned'
  <2> SUFFICES ASSUME NEW n \in Names, released'[n] # Nobody, NEW k \in Pubkeys, users'[k] = n PROVE FALSE
    BY DEF HeldIsUnowned, Owners
  <2>1. CASE n = name
    BY <1>2, <1>3, <2>1 DEF HeldIsUnowned, Owners
  <2>2. CASE n # name /\ n = prev
    BY <1>2, <1>3, <2>2 DEF OneOwner
  <2>3. CASE n # name /\ n # prev
    BY <1>2, <1>3, <2>3 DEF HeldIsUnowned, Owners
  <2> QED BY <2>1, <2>2, <2>3
<1>6. \A k \in Pubkeys : \/ users'[k] = users[k]
                         \/ k \in KeysOf(handler[h]) /\ users'[k] \in handler[h].touched \cup {NoName}
  BY <1>2, <1>3
<1> QED BY <1>2, <1>3, <1>4, <1>5, <1>6, CommitInv

-----------------------------------------------------------------------------
LEMMA NamesInit == LNInit => NamesInv
<1> SUFFICES ASSUME LNInit PROVE NamesInv
  OBVIOUS
<1>1. NamesTypes /\ OneOwner /\ HeldIsUnowned
  BY LnurlNamesAssumption DEF LNInit, NamesTypes, OneOwner, HeldIsUnowned
<1>2. ASSUME NEW h \in Handlers PROVE RequestOK(h) /\ At(h, "idle")
  BY <1>2, LnurlNamesAssumption DEF LNInit, RequestOK, At, Idle
<1> QED BY <1>1, <1>2 DEF NamesInv, TouchedOnce

LEMMA NamesStutter ==
    ASSUME NamesInv, UNCHANGED <<users, released, locks, handler>>
    PROVE  NamesInv'
<1>1. NamesTypes' /\ OneOwner' /\ HeldIsUnowned' /\ TouchedOnce'
  BY DEF NamesInv, NamesTypes, OneOwner, HeldIsUnowned, Owners, TouchedOnce, At
<1>2. \A h \in Handlers : RequestOK(h)'
  BY DEF NamesInv, RequestOK, At
<1> QED BY <1>1, <1>2 DEF NamesInv

(* Every step of the routes, the pruner and the clock keeps it. *)
LEMMA NamesNext == NamesInv /\ [LNNext]_lnVars => NamesInv'
<1> SUFFICES ASSUME NamesInv, [LNNext]_lnVars PROVE NamesInv'
  OBVIOUS
<1>1. ASSUME NEW h \in Handlers, HandlerStep(h) PROVE NamesInv'
  <2>1. CASE AbortDeadlock(h)
    BY <2>1, RollbackInv DEF AbortDeadlock, Rollback, tables
  <2>2. CASE Claim(h) \/ FindUser(h) \/ Lock(h) \/ ReadName(h) \/ Upsert(h) \/ TakeName(h) \/ CheckHold(h)
    BY <2>2, ClaimInv, FindUserInv, LockInv, ReadNameInv, UpsertInv, TakeNameInv, CheckHoldInv
  <2>3. CASE CommitRegister(h) \/ Delete(h) \/ CommitUnregister(h) \/ Transfer(h) \/ CommitTransfer(h)
    BY <2>3, CommitRegisterInv, DeleteInv, CommitUnregisterInv, TransferInv, CommitTransferInv
  <2> QED BY <1>1, <2>1, <2>2, <2>3 DEF HandlerStep
<1>2. ASSUME NEW h \in Handlers, Drop(h) PROVE NamesInv'
  BY <1>2, RollbackInv DEF Drop, Rollback, tables
<1>3. CASE Prune \/ Tick \/ UNCHANGED lnVars
  BY <1>3, NamesStutter DEF Prune, Tick, tables, lnVars
<1> QED BY <1>1, <1>2, <1>3, ArriveInv DEF LNNext

LEMMA NamesAlways == LNSpec => []NamesInv
<1> QED BY NamesInit, NamesNext, PTL DEF LNSpec

-----------------------------------------------------------------------------
(* Only commits change the names and the holds. *)
LEMMA OnlyCommits ==
    ASSUME NamesInv, [LNNext]_lnVars, ~UNCHANGED <<users, released>>
    PROVE  \E h \in Handlers : CommitRegister(h) \/ CommitUnregister(h) \/ CommitTransfer(h)
<1>1. LNNext /\ ~UNCHANGED tables
  BY DEF lnVars, tables
<1>2. ASSUME NEW h \in Handlers, HandlerStep(h) PROVE CommitRegister(h) \/ CommitUnregister(h) \/ CommitTransfer(h)
  BY <1>1, <1>2 DEF HandlerStep, Claim, FindUser, Lock, ReadName, Upsert, TakeName, CheckHold, Delete, Transfer,
                    AbortDeadlock, Rollback
<1>3. \A h \in Handlers : ~Drop(h)
  BY <1>1 DEF Drop, Rollback
<1>4. ~Prune /\ ~Tick /\ \A h \in Handlers, t \in Statements : \A route \in t.routes : ~Arrive(h, t, route)
  BY <1>1 DEF Prune, Tick, Arrive, tables
<1> QED BY <1>1, <1>2, <1>3, <1>4 DEF LNNext

(* A name is its holder's: a name that was given up is only taken by the   *)
(* pubkey that gave it up, and a name a pubkey loses is held for it unless *)
(* somebody gets it, whatever registrations, releases and transfers of the *)
(* name and of the pubkey interleave.                                      *)
THEOREM NamesStay == LNSpec => NamesStayTheirs
<1> DEFINE Goes(n, k) == (users[k] # n /\ users'[k] = n) => released[n] \in {Nobody, k}
           Held(n, k) == (users[k] = n /\ \A g \in Pubkeys : users'[g] # n) => released'[n] = k
<1>1. ASSUME NamesInv, [LNNext]_lnVars, NEW n \in Names, NEW k \in Pubkeys PROVE Goes(n, k) /\ Held(n, k)
  <2>1. CASE UNCHANGED <<users, released>>
    BY <2>1
  <2>2. CASE ~UNCHANGED <<users, released>>
    <3>1. PICK h \in Handlers : CommitRegister(h) \/ CommitUnregister(h) \/ CommitTransfer(h)
      BY <1>1, <2>2, OnlyCommits
    <3> DEFINE key == Key(h)
               name == Name(h)
               prev == handler[h].prev
               to == Statement(h).to
    <3>2. CASE CommitRegister(h)
      <4>1. At(h, "commit") /\ handler[h].route = "register"
        BY <3>2 DEF CommitRegister
      <4>2. key \in Pubkeys /\ prev = users[key] /\ released[name] \in {Nobody, key} /\ OneOwner /\ NoName \notin Names
        BY <1>1, <4>1, AtCommit
      <4>3. /\ \A j \in Pubkeys : users'[j] = IF j = key THEN name ELSE users[j]
            /\ \A m \in Names : released'[m] = IF m = prev /\ m # name THEN key
                                               ELSE IF m = name THEN Nobody ELSE released[m]
        BY <1>1, <2>2, <3>2, RegisterFacts
      <4> HIDE DEF key, name, prev, to
      <4> QED BY <4>2, <4>3
    <3>3. CASE CommitUnregister(h)
      <4>1. At(h, "commit") /\ handler[h].route = "unregister"
        BY <3>3 DEF CommitUnregister
      <4>2. key \in Pubkeys /\ users[key] = name /\ NoName \notin Names
        BY <1>1, <4>1, AtCommit
      <4>3. /\ \A j \in Pubkeys : users'[j] = IF j = key THEN NoName ELSE users[j]
            /\ \A m \in Names : released'[m] = IF m = name THEN key ELSE released[m]
        BY <1>1, <3>3, UnregisterFacts
      <4> HIDE DEF key, name, prev, to
      <4> QED BY <4>2, <4>3
    <3>4. CASE CommitTransfer(h)
      <4>1. At(h, "commit") /\ handler[h].route = "transfer"
        BY <3>4 DEF CommitTransfer
      <4>2. /\ key \in Pubkeys /\ name \in Names /\ users[key] = name /\ to \in Pubkeys /\ prev = users[to]
            /\ NoName \notin Names /\ HeldIsUnowned
        BY <1>1, <4>1, AtCommit
      <4>3. /\ \A j \in Pubkeys : users'[j] = IF j = to THEN name ELSE IF j = key THEN NoName ELSE users[j]
            /\ \A m \in Names : released'[m] = IF m = prev /\ m # name THEN to ELSE released[m]
        BY <1>1, <3>4, TransferFacts
      <4> HIDE DEF key, name, prev, to
      <4>4. released[name] = Nobody
        BY <4>2 DEF HeldIsUnowned, Owners
      <4> QED BY <4>2, <4>3, <4>4
    <3> QED BY <3>1, <3>2, <3>3, <3>4
  <2> QED BY <2>1, <2>2
<1>2. NamesInv /\ [LNNext]_lnVars =>
         /\ [\A n \in Names, k \in Pubkeys : Goes(n, k)]_lnVars
         /\ [\A n \in Names, k \in Pubkeys : Held(n, k)]_lnVars
  BY <1>1
<1> QED BY <1>2, NamesAlways, PTL DEF LNSpec, NamesStayTheirs, NameGoesToHolder, GivenUpIsHeld

-----------------------------------------------------------------------------
(* A request that waits for its locks. *)
LEMMA WaitingFacts ==
    ASSUME NamesInv, NEW h \in Handlers, NEW S, S \subseteq Handlers, h \in S, At(h, "lock"),
           \A g \in S : WaitsFor(g) \cap S # {} /\ \E f \in S : g \in WaitsFor(f)
    PROVE  \E f \in S : At(f, "lock") /\ NextKey(f) \in Nat /\ NextKey(h) \in Nat /\ NextKey(f) < NextKey(h)
<1>1. PICK f \in S : h \in WaitsFor(f)
  OBVIOUS
<1>2. ~At(h, "idle") /\ TouchedOK(handler[h], users) /\ HeldBy(h, handler[h], locks) /\ KeysOf(handler[h]) \subseteq Pubkeys
  BY RequestAt DEF At
<1>3. At(f, "lock") \/ At(f, "index")
  BY <1>1 DEF WaitsFor
<1>4. ASSUME At(f, "index") PROVE FALSE
  <2>1. h \in Busy(f, Name(f))
    BY <1>1, <1>4 DEF WaitsFor, At
  <2> QED BY <1>2, <2>1 DEF Busy, TouchedOK, At
<1>5. At(f, "lock") /\ f \in Handlers /\ ~At(f, "idle")
  BY <1>3, <1>4 DEF At
<1>6. locks[NextKey(f)] = h
  BY <1>1, <1>5 DEF WaitsFor, At
<1>7. NextKey(f) \in Pubkeys
  <2>1. NextKey(f) \in KeysOf(handler[f])
    BY <1>5, NextKeyFacts
  <2> QED BY <1>5, <2>1, RequestAt
<1>8. NextKey(f) \in KeysOf(handler[h])
  BY <1>2, <1>6, <1>7 DEF HeldBy
<1>9. NextKey(h) \in KeysOf(handler[h])
  BY <1>2, NextKeyFacts
<1>10. locks[NextKey(h)] # h
  <2>1. WaitsFor(h) = {locks[NextKey(h)]} \ {Nobody, h}
    BY DEF WaitsFor, At
  <2>2. WaitsFor(h) # {}
    OBVIOUS
  <2> QED BY <2>1, <2>2
<1>11. NextKey(f) < NextKey(h)
  BY <1>2, <1>6, <1>8, <1>9, <1>10 DEF HeldBy
<1> QED BY <1>2, <1>5, <1>7, <1>9, <1>11, LnurlNamesAssumption

(* In a circle of waiting requests whoever waits for a lock is waited for  *)
(* by one that waits for a lesser key: there is none of them.              *)
LEMMA NoLockDeadlock ==
    ASSUME NamesInv, NEW h \in Handlers, Deadlocked(h)
    PROVE  At(h, "index")
<1>1. PICK S \in SUBSET Handlers :
         h \in S /\ \A g \in S : WaitsFor(g) \cap S # {} /\ \E f \in S : g \in WaitsFor(f)
  BY DEF Deadlocked
<1> DEFINE Waiting == {g \in S : At(g, "lock")}
           T == {k \in Nat : \E g \in Waiting : NextKey(g) = k}
<1>2. ASSUME NEW g \in Waiting
      PROVE  \E f \in Waiting : NextKey(f) \in T /\ NextKey(g) \in T /\ NextKey(f) < NextKey(g)
  <2>1. \E f \in S : At(f, "lock") /\ NextKey(f) \in Nat /\ NextKey(g) \in Nat /\ NextKey(f) < NextKey(g)
    BY <1>1, <1>2, WaitingFacts
  <2> QED BY <1>2, <2>1
<1>3. T = {}
  <2>1. ASSUME T # {} PROVE FALSE
    <3>1. PICK k \in T : \A m \in T : k <= m
      BY <2>1, NatMin
    <3>2. PICK g \in Waiting : NextKey(g) = k
      OBVIOUS
    <3>3. PICK f \in Waiting : NextKey(f) \in T /\ NextKey(f) < NextKey(g)
      BY <1>2
    <3>4. k \in Nat /\ NextKey(f) \in Nat
      BY <3>3
    <3> QED BY <3>1, <3>2, <3>3, <3>4
  <2> QED BY <2>1
<1>4. h \notin Waiting
  BY <1>2, <1>3
<1>5. WaitsFor(h) # {}
  BY <1>1
<1>6. At(h, "lock") \/ At(h, "index")
  BY <1>5 DEF WaitsFor
<1> QED BY <1>1, <1>4, <1>6

(* lock_registrations: keys in one order.  Two requests wait for each      *)
(* other only in the unique index, where they exchange names.              *)
THEOREM LocksDoNotDeadlock == LNSpec => []OnlyNamesDeadlock
<1>1. NamesInv => OnlyNamesDeadlock
  BY NoLockDeadlock DEF OnlyNamesDeadlock
<1> QED BY <1>1, NamesAlways, PTL

-----------------------------------------------------------------------------
(* A statement that was recorded is recorded still, or too old for good. *)
ClaimsInv ==
    /\ claims \subseteq Statements /\ everClaimed \subseteq Statements /\ clock \in Times
    /\ \A t \in everClaimed : t \in claims \/ Prunable(t)

LEMMA ClaimsInit == LNInit => ClaimsInv
BY LnurlNamesAssumption DEF LNInit, ClaimsInv, Times

LEMMA ClaimsNext ==
    ASSUME NamesInv, ClaimsInv, [LNNext]_lnVars
    PROVE  ClaimsInv'
<1>1. CASE UNCHANGED <<claims, everClaimed, clock>>
  BY <1>1 DEF ClaimsInv, Prunable
<1>2. ASSUME NEW t \in Statements, claims' = claims \cup {t}, everClaimed' = everClaimed \cup {t}, UNCHANGED clock
      PROVE  ClaimsInv'
  BY <1>2 DEF ClaimsInv, Prunable
<1>3. ASSUME NEW h \in Handlers, HandlerStep(h) PROVE ClaimsInv'
  <2>1. ASSUME ~At(h, "idle") PROVE Statement(h) \in Statements
    BY <2>1, RequestAt DEF Statement, Request
  <2>2. CASE Claim(h)
    BY <1>1, <1>2, <2>1, <2>2 DEF Claim, At
  <2>3. CASE CommitTransfer(h)
    BY <1>2, <2>1, <2>3 DEF CommitTransfer, At
  <2>4. CASE ~Claim(h) /\ ~CommitTransfer(h)
    BY <1>1, <1>3, <2>4
       DEF HandlerStep, FindUser, Lock, ReadName, Upsert, TakeName, CheckHold, CommitRegister, Delete, CommitUnregister,
           Transfer, AbortDeadlock, Rollback
  <2> QED BY <2>2, <2>3, <2>4
<1>4. ASSUME NEW h \in Handlers, Drop(h) PROVE ClaimsInv'
  BY <1>1, <1>4 DEF Drop, Rollback
<1>5. ASSUME NEW h \in Handlers, NEW t \in Statements, NEW route \in t.routes, Arrive(h, t, route) PROVE ClaimsInv'
  BY <1>1, <1>5 DEF Arrive
<1>6. CASE Prune
  BY <1>6 DEF Prune, ClaimsInv, Prunable
<1>7. CASE Tick
  <2>1. clock \in Nat /\ clock' = clock + 1 /\ clock' \in Times /\ UNCHANGED <<claims, everClaimed>>
    BY <1>7, LnurlNamesAssumption DEF Tick, ClaimsInv, Times
  <2>2. ASSUME NEW t \in Statements, Prunable(t) PROVE Prunable(t)'
    <3>1. t.time \in Int /\ Accept \in Nat
      BY LnurlNamesAssumption
    <3> QED BY <2>1, <2>2, <3>1 DEF Prunable
  <2> QED BY <2>1, <2>2 DEF ClaimsInv
<1>8. CASE UNCHANGED lnVars
  BY <1>1, <1>8 DEF lnVars
<1> QED BY <1>3, <1>4, <1>5, <1>6, <1>7, <1>8 DEF LNNext

LEMMA ClaimsAlways == LNSpec => []ClaimsInv
<1>1. NamesInv /\ ClaimsInv /\ [LNNext]_lnVars => ClaimsInv'
  BY ClaimsNext
<1> QED BY <1>1, ClaimsInit, NamesAlways, PTL DEF LNSpec

(* Whatever is pruned, no statement is recorded a second time while its    *)
(* timestamp is accepted.                                                  *)
THEOREM ClaimedOnce == LNSpec => ClaimedOnceWhileFresh
<1> DEFINE Once(s) == (s \in claims' \ claims) => ~Fresh(s)
<1>1. ASSUME ClaimsInv, NEW t \in everClaimed PROVE Once(t)
  <2> SUFFICES ASSUME t \in claims' \ claims PROVE ~Fresh(t)
    OBVIOUS
  <2>1. Prunable(t) /\ t \in Statements /\ clock \in Nat
    BY <1>1, LnurlNamesAssumption DEF ClaimsInv, Times
  <2>2. t.time \in Int /\ Accept \in Nat
    BY <2>1, LnurlNamesAssumption
  <2> QED BY <2>1, <2>2 DEF Prunable, Fresh
<1>2. ClaimsInv /\ [LNNext]_lnVars => [\A s \in everClaimed : Once(s)]_lnVars
  BY <1>1
<1> QED BY <1>2, ClaimsAlways, PTL DEF LNSpec, ClaimedOnceWhileFresh

-----------------------------------------------------------------------------
InWindow(logged, now) == {row \in logged : row[1] > now - Window}

(* No row of the counting window is pruned. *)
LogInv ==
    /\ log \in [Pubkeys -> SUBSET (Times \X Nat)] /\ everLogged \in [Pubkeys -> SUBSET (Times \X Nat)]
    /\ \A k \in Pubkeys : /\ IsFiniteSet(everLogged[k])
                          /\ InWindow(log[k], clock) = InWindow(everLogged[k], clock)
    /\ WithinLimit

LEMMA LogInit == LNInit => LogInv
<1> SUFFICES ASSUME LNInit PROVE LogInv
  OBVIOUS
<1>1. \A k \in Pubkeys : log[k] = {} /\ everLogged[k] = {}
  BY DEF LNInit
<1>2. Cardinality({}) = 0 /\ IsFiniteSet({})
  BY FS_EmptySet
<1>3. WithinLimit
  <2>1. ASSUME NEW k \in Pubkeys PROVE Counted(everLogged[k]) <= MaxPerWindow
    <3>1. {row \in everLogged[k] : row[1] > clock - Window} = {}
      BY <1>1
    <3>2. MaxPerWindow \in Nat
      BY LnurlNamesAssumption
    <3>3. Counted(everLogged[k]) = 0
      BY <1>2, <3>1 DEF Counted
    <3> QED BY <3>2, <3>3
  <2> QED BY <2>1 DEF WithinLimit
<1> QED BY <1>1, <1>2, <1>3 DEF LNInit, LogInv, InWindow

(* A registration: the row counts itself. *)
LEMMA LogCommit ==
    ASSUME NamesInv, ClaimsInv, LogInv, NEW h \in Handlers, CommitRegister(h)
    PROVE  LogInv'
<1> DEFINE key == Key(h)
           changed == handler[h].prev # Name(h)
           row == <<clock, Cardinality(everLogged[Key(h)])>>
           logged(rows_) == IF changed THEN [rows_ EXCEPT ![Key(h)] = @ \cup {row}] ELSE rows_
           refused == changed /\ Counted(logged(log)[Key(h)]) > MaxPerWindow
<1>1. /\ At(h, "commit") /\ UNCHANGED clock
      /\ IF refused THEN UNCHANGED <<log, everLogged>>
         ELSE log' = logged(log) /\ everLogged' = logged(everLogged)
  BY DEF CommitRegister, Rollback, tables
<1>2. CASE UNCHANGED <<log, everLogged>>
  BY <1>1, <1>2 DEF LogInv, WithinLimit, Counted, InWindow
<1>3. CASE ~UNCHANGED <<log, everLogged>>
  <2>1. changed /\ ~refused
    BY <1>1, <1>3
  <2>2. key \in Pubkeys /\ IsFiniteSet(everLogged[key]) /\ clock \in Times
    BY <1>1, AtCommit DEF LogInv, ClaimsInv
  <2>3. row \in Times \X Nat
    BY <2>2, FS_CardinalityType
  <2>4. /\ log' = [log EXCEPT ![key] = @ \cup {row}] /\ everLogged' = [everLogged EXCEPT ![key] = @ \cup {row}]
        /\ ~(Counted(log'[key]) > MaxPerWindow)
    BY <1>1, <2>1
  <2> HIDE DEF row, key
  <2>5. /\ log' \in [Pubkeys -> SUBSET (Times \X Nat)] /\ everLogged' \in [Pubkeys -> SUBSET (Times \X Nat)]
        /\ \A k \in Pubkeys : /\ log'[k] = IF k = key THEN log[k] \cup {row} ELSE log[k]
                              /\ everLogged'[k] = IF k = key THEN everLogged[k] \cup {row} ELSE everLogged[k]
    BY <2>2, <2>3, <2>4 DEF LogInv
  <2>6. ASSUME NEW k \in Pubkeys
        PROVE  IsFiniteSet(everLogged'[k]) /\ InWindow(log'[k], clock') = InWindow(everLogged'[k], clock')
    <3>1. IsFiniteSet(everLogged[k]) /\ InWindow(log[k], clock) = InWindow(everLogged[k], clock)
      BY DEF LogInv
    <3>2. IsFiniteSet(everLogged[k] \cup {row})
      BY <3>1, FS_AddElement
    <3>3. IsFiniteSet(everLogged'[k])
      BY <2>5, <3>1, <3>2
    <3>4. \A L : InWindow(L \cup {row}, clock) = InWindow(L, clock) \cup InWindow({row}, clock)
      BY DEF InWindow
    <3>5. InWindow(log[k] \cup {row}, clock) = InWindow(everLogged[k] \cup {row}, clock)
      BY <3>1, <3>4
    <3>6. InWindow(log'[k], clock) = InWindow(everLogged'[k], clock)
      <4>1. CASE k = key
        BY <2>5, <3>5, <4>1
      <4>2. CASE k # key
        BY <2>5, <3>1, <4>2
      <4> QED BY <4>1, <4>2
    <3> QED BY <1>1, <3>3, <3>6
  <2>7. WithinLimit'
    <3>1. \A L : Counted(L) = Cardinality(InWindow(L, clock)) /\ Counted(L)' = Cardinality(InWindow(L, clock))
      BY <1>1 DEF Counted, InWindow
    <3>2. ASSUME NEW k \in Pubkeys PROVE Cardinality(InWindow(everLogged'[k], clock)) <= MaxPerWindow
      <4>1. CASE k = key
        <5>1. InWindow(log'[k], clock) = InWindow(everLogged'[k], clock) /\ IsFiniteSet(everLogged'[k])
          BY <1>1, <2>6
        <5>2. IsFiniteSet(InWindow(everLogged'[k], clock))
          BY <5>1, FS_Subset DEF InWindow
        <5>3. Cardinality(InWindow(everLogged'[k], clock)) \in Nat /\ MaxPerWindow \in Nat
          BY <5>2, FS_CardinalityType, LnurlNamesAssumption
        <5>4. ~(Cardinality(InWindow(log'[k], clock)) > MaxPerWindow)
          BY <2>4, <4>1 DEF Counted, InWindow
        <5> QED BY <5>1, <5>3, <5>4
      <4>2. CASE k # key
        BY <2>5, <4>2 DEF LogInv, WithinLimit, Counted, InWindow
      <4> QED BY <4>1, <4>2
    <3> QED BY <1>1, <3>2 DEF WithinLimit, Counted, InWindow
  <2> QED BY <2>5, <2>6, <2>7 DEF LogInv
<1> QED BY <1>2, <1>3

LEMMA LogNext ==
    ASSUME NamesInv, ClaimsInv, LogInv, [LNNext]_lnVars
    PROVE  LogInv'
<1>1. CASE UNCHANGED <<log, everLogged, clock>>
  BY <1>1 DEF LogInv, WithinLimit, Counted, InWindow
<1>2. ASSUME NEW h \in Handlers, HandlerStep(h) PROVE LogInv'
  <2>1. CASE CommitRegister(h)
    BY <2>1, LogCommit
  <2>2. CASE ~CommitRegister(h)
    BY <1>1, <1>2, <2>2
       DEF HandlerStep, Claim, FindUser, Lock, ReadName, Upsert, TakeName, CheckHold, Delete, CommitUnregister,
           Transfer, CommitTransfer, AbortDeadlock, Rollback, tables
  <2> QED BY <2>1, <2>2
<1>3. ASSUME NEW h \in Handlers, Drop(h) PROVE LogInv'
  BY <1>1, <1>3 DEF Drop, Rollback, tables
<1>4. ASSUME NEW h \in Handlers, NEW t \in Statements, NEW route \in t.routes, Arrive(h, t, route) PROVE LogInv'
  BY <1>1, <1>4 DEF Arrive, tables
<1>5. clock \in Nat /\ Window \in Nat /\ \A row \in Times \X Nat : row[1] \in Nat
  BY LnurlNamesAssumption DEF ClaimsInv, Times
<1>6. CASE Prune
  <2>1. log' = [k \in Pubkeys |-> {row \in log[k] : ~OldRegistration(row[1])}] /\ UNCHANGED <<everLogged, clock>>
    BY <1>6 DEF Prune
  <2>2. log' \in [Pubkeys -> SUBSET (Times \X Nat)]
    BY <2>1 DEF LogInv
  <2>3. ASSUME NEW k \in Pubkeys PROVE InWindow(log'[k], clock) = InWindow(log[k], clock)
    <3>1. log[k] \subseteq Times \X Nat /\ log'[k] = {row \in log[k] : ~OldRegistration(row[1])}
      BY <2>1 DEF LogInv
    <3>2. \A row \in log[k] : row[1] > clock - Window => ~OldRegistration(row[1])
      BY <1>5, <3>1 DEF OldRegistration
    <3> QED BY <3>1, <3>2 DEF InWindow
  <2> QED BY <2>1, <2>2, <2>3 DEF LogInv, WithinLimit, Counted, InWindow
<1>7. CASE Tick
  <2>1. clock' = clock + 1 /\ UNCHANGED <<log, everLogged>>
    BY <1>7 DEF Tick, tables
  <2>2. ASSUME NEW k \in Pubkeys, NEW L, L \subseteq Times \X Nat
        PROVE  InWindow(L, clock') = {row \in InWindow(L, clock) : row[1] > clock' - Window}
    BY <1>5, <2>1, <2>2 DEF InWindow
  <2>3. ASSUME NEW k \in Pubkeys
        PROVE  /\ InWindow(log[k], clock') = InWindow(everLogged[k], clock')
               /\ Cardinality(InWindow(everLogged[k], clock')) <= MaxPerWindow
    <3>1. log[k] \subseteq Times \X Nat /\ everLogged[k] \subseteq Times \X Nat /\ IsFiniteSet(everLogged[k])
          /\ InWindow(log[k], clock) = InWindow(everLogged[k], clock)
      BY DEF LogInv
    <3>2. InWindow(everLogged[k], clock') \subseteq InWindow(everLogged[k], clock)
      BY <2>2, <3>1
    <3>3. IsFiniteSet(InWindow(everLogged[k], clock))
      BY <3>1, FS_Subset DEF InWindow
    <3>4. /\ Cardinality(InWindow(everLogged[k], clock')) <= Cardinality(InWindow(everLogged[k], clock))
          /\ Cardinality(InWindow(everLogged[k], clock')) \in Nat /\ Cardinality(InWindow(everLogged[k], clock)) \in Nat
      BY <3>2, <3>3, FS_Subset, FS_CardinalityType
    <3>5. Cardinality(InWindow(everLogged[k], clock)) <= MaxPerWindow
      BY DEF LogInv, WithinLimit, Counted, InWindow
    <3>6. MaxPerWindow \in Nat
      BY LnurlNamesAssumption
    <3>7. Cardinality(InWindow(everLogged[k], clock')) <= MaxPerWindow
      BY <3>4, <3>5, <3>6
    <3>8. /\ InWindow(log[k], clock') = {row \in InWindow(log[k], clock) : row[1] > clock' - Window}
          /\ InWindow(everLogged[k], clock') = {row \in InWindow(everLogged[k], clock) : row[1] > clock' - Window}
      BY <2>2, <3>1
    <3>9. InWindow(log[k], clock') = InWindow(everLogged[k], clock')
      BY <3>1, <3>8, Zenon
    <3> QED BY <3>7, <3>9
  <2>4. WithinLimit'
    BY <2>1, <2>3 DEF WithinLimit, Counted, InWindow
  <2> QED BY <2>1, <2>3, <2>4 DEF LogInv
<1>8. CASE UNCHANGED lnVars
  BY <1>1, <1>8 DEF lnVars, tables
<1> QED BY <1>2, <1>3, <1>4, <1>6, <1>7, <1>8 DEF LNNext

LEMMA LogAlways == LNSpec => []LogInv
<1>1. NamesInv /\ ClaimsInv /\ LogInv /\ [LNNext]_lnVars => LogInv'
  BY LogNext
<1> QED BY <1>1, LogInit, NamesAlways, ClaimsAlways, PTL DEF LNSpec

(* record_registration: no pubkey takes more names within the window than  *)
(* the limit allows, however its registrations interleave with the pruner. *)
THEOREM LimitHolds == LNSpec => []WithinLimit
<1>1. LogInv => WithinLimit
  BY DEF LogInv
<1> QED BY <1>1, LogAlways, PTL

(* The tables' types and keys. *)
LEMMA LNInvImplies == NamesInv /\ ClaimsInv /\ LogInv => LNTypeOK /\ HeldIsUnowned
<1> SUFFICES ASSUME NamesInv, ClaimsInv, LogInv PROVE LNTypeOK /\ HeldIsUnowned
  OBVIOUS
<1>1. ASSUME NEW n \in Names PROVE Cardinality(Owners(n)) <= 1
  <2>1. \A j, k \in Owners(n) : j = k
    BY <1>1, LnurlNamesAssumption DEF NamesInv, OneOwner, Owners
  <2>2. CASE Owners(n) = {}
    BY <2>2, FS_EmptySet
  <2>3. CASE Owners(n) # {}
    <3>1. PICK k \in Owners(n) : Owners(n) = {k}
      BY <2>1, <2>3
    <3> QED BY <3>1, FS_Singleton
  <2> QED BY <2>2, <2>3
<1> QED BY <1>1 DEF LNTypeOK, NamesInv, NamesTypes, ClaimsInv, LogInv

-----------------------------------------------------------------------------
(***************************************************************************)
(* Webhooks: the handlers of notifications.                                *)
(***************************************************************************)
Notice == [invoice : Invoices, stored : BOOLEAN, pc : {"store", "receipt", "enqueue", "answer"}]

(* A handler has stored the preimage before it queues the receipt, and has *)
(* queued the receipt before it goes on, or another one has.               *)
NoticeOK(h) ==
    ~Handling(h, "idle") =>
        /\ handling[h].pc # "store" => Invoice(h) \in preimages
        /\ handling[h].pc \in {"enqueue", "answer"} => Invoice(h) \in receipts

NoticesInv ==
    /\ preimages \subseteq Invoices /\ receipts \subseteq Invoices /\ AnsweredHasReceipt
    /\ handling \in [Notices -> {NotHandling} \cup Notice]
    /\ \A h \in Notices : NoticeOK(h)

LEMMA NoticeFacts ==
    ASSUME NoticesInv, NEW h \in Notices, ~Handling(h, "idle")
    PROVE  handling[h] \in Notice /\ Invoice(h) \in Invoices /\ NoticeOK(h)
<1>1. handling[h] = NotHandling \/ handling[h] \in Notice
  BY DEF NoticesInv
<1>2. NotHandling.pc = "idle"
  BY DEF NotHandling
<1>3. handling[h] \in Notice
  BY <1>1, <1>2 DEF Handling
<1> QED BY <1>3 DEF NoticesInv, Notice, Invoice

(* What a step of one handler leaves of the others. *)
LEMMA NoticeMoves ==
    ASSUME NoticesInv, NEW h \in Notices, NEW x \in {NotHandling} \cup Notice, handling' = [handling EXCEPT ![h] = x],
           preimages \subseteq preimages', preimages' \subseteq Invoices,
           receipts \subseteq receipts', receipts' \subseteq Invoices, acked' \subseteq receipts' \cap preimages',
           x.pc # "idle" => /\ x.pc # "store" => x.invoice \in preimages'
                            /\ x.pc \in {"enqueue", "answer"} => x.invoice \in receipts'
    PROVE  NoticesInv'
<1>1. /\ handling' \in [Notices -> {NotHandling} \cup Notice]
      /\ \A g \in Notices : handling'[g] = IF g = h THEN x ELSE handling[g]
  BY DEF NoticesInv
<1>2. ASSUME NEW g \in Notices PROVE NoticeOK(g)'
  <2>1. CASE g = h
    BY <1>1, <2>1 DEF NoticeOK, Handling, Invoice
  <2>2. CASE g # h
    <3>1. NoticeOK(g) /\ handling'[g] = handling[g]
      BY <1>1, <2>2 DEF NoticesInv
    <3> QED BY <3>1 DEF NoticeOK, Handling, Invoice
  <2> QED BY <2>1, <2>2
<1> QED BY <1>1, <1>2 DEF NoticesInv, AnsweredHasReceipt

LEMMA NoticesStutter ==
    ASSUME NoticesInv, UNCHANGED <<handling, preimages, receipts, acked>>
    PROVE  NoticesInv'
<1>1. \A h \in Notices : NoticeOK(h)'
  BY DEF NoticesInv, NoticeOK, Handling, Invoice
<1> QED BY <1>1 DEF NoticesInv, AnsweredHasReceipt

(* A handler goes on. *)
LEMMA NoticeGoes ==
    ASSUME NoticesInv, NEW h \in Notices, ~Handling(h, "idle"), NEW pc \in {"store", "receipt", "enqueue", "answer"},
           HandlingGoto(h, pc)
    PROVE  \E x \in Notice : handling' = [handling EXCEPT ![h] = x] /\ x.pc = pc /\ x.invoice = Invoice(h)
<1> DEFINE x == [handling[h] EXCEPT !.pc = pc]
<1>1. handling[h] \in Notice
  BY NoticeFacts
<1>2. x \in Notice /\ x.pc = pc /\ x.invoice = Invoice(h)
  BY <1>1 DEF Notice, Invoice
<1>3. handling' = [handling EXCEPT ![h] = x]
  BY DEF HandlingGoto, NoticesInv
<1> HIDE DEF x
<1> QED BY <1>2, <1>3

LEMMA NoticesNext ==
    ASSUME NoticesInv, [NFNext]_nfVars
    PROVE  NoticesInv'
<1>0. /\ preimages \subseteq Invoices /\ receipts \subseteq Invoices /\ acked \subseteq receipts \cap preimages
  BY DEF NoticesInv, AnsweredHasReceipt
<1>1. ASSUME NEW h \in Notices, NEW i \in Invoices, Notify(h, i) PROVE NoticesInv'
  <2> DEFINE pc == IF i \in preimages THEN "receipt" ELSE "store"
             st == i \in preimages
             x == [invoice |-> i, stored |-> st, pc |-> pc]
  <2>1. handling' = [handling EXCEPT ![h] = x] /\ UNCHANGED <<preimages, receipts, acked>>
    BY <1>1 DEF Notify, tableVars
  <2>2. st \in BOOLEAN /\ pc \in {"store", "receipt"} /\ (pc = "receipt" => i \in preimages)
    OBVIOUS
  <2> HIDE DEF st, pc
  <2>3. x \in Notice /\ x.pc = pc /\ x.invoice = i
    BY <2>2 DEF Notice
  <2> HIDE DEF x
  <2> QED BY <1>0, <2>1, <2>2, <2>3, NoticeMoves
<1>2. ASSUME NEW h \in Notices, StorePreimage(h) PROVE NoticesInv'
  <2>1. ~Handling(h, "idle") /\ HandlingGoto(h, "receipt") /\ preimages' = preimages \cup {Invoice(h)} /\ UNCHANGED <<receipts, acked>>
    BY <1>2 DEF StorePreimage, Handling
  <2>2. Invoice(h) \in Invoices
    BY <2>1, NoticeFacts
  <2>3. PICK x \in Notice : handling' = [handling EXCEPT ![h] = x] /\ x.pc = "receipt" /\ x.invoice = Invoice(h)
    BY <2>1, NoticeGoes
  <2> QED BY <1>0, <2>1, <2>2, <2>3, NoticeMoves
<1>3. ASSUME NEW h \in Notices, EnqueueReceipt(h) PROVE NoticesInv'
  <2>1. ~Handling(h, "idle") /\ handling[h].pc = "receipt" /\ HandlingGoto(h, "enqueue")
        /\ receipts' = receipts \cup {Invoice(h)} /\ UNCHANGED <<preimages, acked>>
    BY <1>3 DEF EnqueueReceipt, Handling
  <2>2. Invoice(h) \in Invoices /\ Invoice(h) \in preimages
    BY <2>1, NoticeFacts DEF NoticeOK
  <2>3. PICK x \in Notice : handling' = [handling EXCEPT ![h] = x] /\ x.pc = "enqueue" /\ x.invoice = Invoice(h)
    BY <2>1, NoticeGoes
  <2> QED BY <1>0, <2>1, <2>2, <2>3, NoticeMoves
<1>4. ASSUME NEW h \in Notices, EnqueueWebhook(h) \/ EnqueueWebhookFails(h) PROVE NoticesInv'
  <2>1. ~Handling(h, "idle") /\ handling[h].pc = "enqueue" /\ HandlingGoto(h, "answer") /\ UNCHANGED <<preimages, receipts, acked>>
    BY <1>4 DEF EnqueueWebhook, EnqueueWebhookFails, Handling, tableVars
  <2>2. Invoice(h) \in preimages /\ Invoice(h) \in receipts
    BY <2>1, NoticeFacts DEF NoticeOK
  <2>3. PICK x \in Notice : handling' = [handling EXCEPT ![h] = x] /\ x.pc = "answer" /\ x.invoice = Invoice(h)
    BY <2>1, NoticeGoes
  <2> QED BY <1>0, <2>1, <2>2, <2>3, NoticeMoves
<1>5. NotHandling.pc = "idle"
  BY DEF NotHandling
<1>6. ASSUME NEW h \in Notices, Answer(h) PROVE NoticesInv'
  <2>1. /\ ~Handling(h, "idle") /\ handling[h].pc = "answer" /\ handling' = [handling EXCEPT ![h] = NotHandling]
        /\ acked' = acked \cup {Invoice(h)} /\ UNCHANGED <<preimages, receipts>>
    BY <1>6 DEF Answer, Handling, tableVars
  <2>2. Invoice(h) \in preimages /\ Invoice(h) \in receipts
    BY <2>1, NoticeFacts DEF NoticeOK
  <2> QED BY <1>0, <1>5, <2>1, <2>2, NoticeMoves
<1>7. ASSUME NEW h \in Notices, HandlingFails(h) PROVE NoticesInv'
  <2>1. handling' = [handling EXCEPT ![h] = NotHandling] /\ UNCHANGED <<preimages, receipts, acked>>
    BY <1>7 DEF HandlingFails, tableVars
  <2> QED BY <1>0, <1>5, <2>1, NoticeMoves
<1>8. CASE UNCHANGED nfVars
  BY <1>8, NoticesStutter DEF nfVars, tableVars
<1>9. ASSUME NEW sv \in Servers, (\E i \in Invoices : Take(sv, i)) \/ Unclaim(sv) \/ UnclaimFails(sv) \/ RefreshConfig(sv) \/ Crash(sv)
      PROVE  NoticesInv'
  BY <1>9, NoticesStutter DEF Take, Unclaim, UnclaimFails, RefreshConfig, Crash, tableVars
<1>10. ASSUME NEW t \in Permits, TaskStep(t) \/ GiveUpFails(t) \/ SendUnanswered(t) \/ SendFails(t) \/ RecordFails(t) PROVE NoticesInv'
  BY <1>10, NoticesStutter
     DEF TaskStep, GiveUp, GiveUpFails, Send, RecordSuccess, RecordFailure, SendUnanswered, SendFails, RecordFails, tableVars
<1>11. ASSUME NEW i \in Invoices, RetryDue(i) \/ ClaimStale(i) \/ ClaimOverrun(i) \/ Cleanup(i) PROVE NoticesInv'
  BY <1>11, NoticesStutter DEF RetryDue, ClaimStale, ClaimOverrun, Cleanup
<1>12. ASSUME NEW d \in Domains, ChangeConfig(d) PROVE NoticesInv'
  BY <1>12, NoticesStutter DEF ChangeConfig
<1>13. ASSUME NFNext PROVE NoticesInv'
  BY <1>1, <1>2, <1>3, <1>4, <1>6, <1>7, <1>9, <1>10, <1>11, <1>12, <1>13 DEF NFNext, NoticeStep
<1> QED BY <1>8, <1>13

-----------------------------------------------------------------------------
(***************************************************************************)
(* Webhooks: the deliveries.                                               *)
(***************************************************************************)
Row == [id : Nat, state : {"none", "pending", "succeeded", "parked"}, due : BOOLEAN,
        claim : {"free", "held", "stale"}, attempted : BOOLEAN]
Task == [pc : {"config", "success", "failure"}, invoice : Invoices, id : Nat, attempted : BOOLEAN]

DeliveryTypes ==
    /\ rows \in [Invoices -> Row] /\ sends \in [Invoices -> 0..2]
    /\ repeated \subseteq Invoices /\ gone \subseteq Invoices
    /\ config \subseteq Domains /\ cache \in [Servers -> SUBSET Domains]
    /\ task \in [Permits -> {Free} \cup Task]
    /\ unclaiming \in [Servers -> SUBSET (Invoices \X Nat)]
    /\ faults \in 0..MaxFaults

IsOn(t, i) == task[t].pc # "free" /\ task[t].invoice = i
Unclaims(sv, i) == \E n \in Nat : <<i, n>> \in unclaiming[sv]
Holding(i) == (\E t \in Permits : IsOn(t, i)) \/ (\E sv \in Servers : Unclaims(sv, i))

(* A delivery whose claim no fault has undone has one holder at most, a    *)
(* task or a server that found no permit; while it has one its row, the    *)
(* one that was taken, is claimed and pending; and what the partner has    *)
(* accepted is recorded or about to be.                                    *)
DeliveryOK(i) ==
    /\ \A t, u \in Permits : IsOn(t, i) /\ IsOn(u, i) => t = u
    /\ \A t \in Permits, sv \in Servers : ~(IsOn(t, i) /\ Unclaims(sv, i))
    /\ \A sv, sw \in Servers : Unclaims(sv, i) /\ Unclaims(sw, i) => sv = sw
    /\ Holding(i) => rows[i].claim = "held" /\ rows[i].state = "pending"
    /\ \A t \in Permits : IsOn(t, i) => task[t].id = rows[i].id
    /\ \A sv \in Servers, n \in Nat : <<i, n>> \in unclaiming[sv] => n = rows[i].id
    /\ \/ sends[i] = 0
       \/ /\ sends[i] = 1
          /\ rows[i].state = "succeeded" \/ \E t \in Permits : IsOn(t, i) /\ task[t].pc = "success"

DeliveriesInv ==
    /\ DeliveryTypes
    /\ \A i \in Invoices : i \notin repeated => DeliveryOK(i)

(* Rows and tasks. *)
LEMMA RowFacts ==
    /\ NoRow \in Row /\ Free.pc = "free" /\ \A x \in Task : x.pc # "free"
    /\ \A i \in Invoices : rows[i] \in Row => Inserted(i) \in Row /\ Deleted(i) \in Row
<1>1. NoRow \in Row /\ Free.pc = "free" /\ \A x \in Task : x.pc # "free"
  BY DEF NoRow, Row, Free, Task
<1>2. ASSUME NEW i \in Invoices, rows[i] \in Row PROVE Inserted(i) \in Row /\ Deleted(i) \in Row
  <2>1. rows[i].id \in Nat /\ rows[i].id + 1 \in Nat
    BY <1>2 DEF Row
  <2> QED BY <2>1 DEF Inserted, Deleted, NoRow, Row
<1> QED BY <1>1, <1>2

LEMMA TaskFacts ==
    ASSUME DeliveryTypes, NEW t \in Permits
    PROVE  /\ task[t].pc = "free" => task[t] = Free
           /\ task[t].pc # "free" => task[t] \in Task /\ task[t].invoice \in Invoices
<1>1. task[t] = Free \/ task[t] \in Task
  BY DEF DeliveryTypes
<1> QED BY <1>1, RowFacts DEF Task

(* A step that takes no claim and sends nothing. *)
LEMMA DeliveryKeeps ==
    ASSUME NEW i \in Invoices, DeliveryOK(i),
           \A t \in Permits : IsOn(t, i)' => IsOn(t, i) /\ task'[t].id = task[t].id,
           \A sv \in Servers, n \in Nat : <<i, n>> \in unclaiming'[sv] => <<i, n>> \in unclaiming[sv],
           Holding(i)' => /\ rows'[i].claim = rows[i].claim /\ rows'[i].state = rows[i].state
                          /\ rows'[i].id = rows[i].id,
           sends'[i] = sends[i],
           rows[i].state = "succeeded" => rows'[i].state = "succeeded",
           \A t \in Permits : (IsOn(t, i) /\ task[t].pc = "success") =>
              rows'[i].state = "succeeded" \/ (IsOn(t, i)' /\ task'[t].pc = "success")
    PROVE  DeliveryOK(i)'
<1>0. \A sv \in Servers : Unclaims(sv, i)' => Unclaims(sv, i)
  BY DEF Unclaims
<1>1. Holding(i)' => Holding(i)
  BY <1>0 DEF Holding
<1>2. \A t, u \in Permits : IsOn(t, i)' /\ IsOn(u, i)' => t = u
  BY DEF DeliveryOK
<1>3. \A t \in Permits, sv \in Servers : ~(IsOn(t, i)' /\ Unclaims(sv, i)')
  BY <1>0 DEF DeliveryOK
<1>6. \A sv, sw \in Servers : Unclaims(sv, i)' /\ Unclaims(sw, i)' => sv = sw
  BY <1>0 DEF DeliveryOK
<1>7. ASSUME NEW t \in Permits, IsOn(t, i)' PROVE task'[t].id = rows'[i].id
  BY <1>7 DEF DeliveryOK, Holding
<1>8. ASSUME NEW sv \in Servers, NEW n \in Nat, <<i, n>> \in unclaiming'[sv] PROVE n = rows'[i].id
  <2>1. Holding(i)' /\ <<i, n>> \in unclaiming[sv]
    BY <1>8 DEF Holding, Unclaims
  <2> QED BY <2>1 DEF DeliveryOK
<1>4. Holding(i)' => rows'[i].claim = "held" /\ rows'[i].state = "pending"
  BY <1>1 DEF DeliveryOK
<1>5. \/ sends'[i] = 0
      \/ /\ sends'[i] = 1
         /\ rows'[i].state = "succeeded" \/ \E t \in Permits : IsOn(t, i)' /\ task'[t].pc = "success"
  BY DEF DeliveryOK
<1> QED BY <1>2, <1>3, <1>4, <1>5, <1>6, <1>7, <1>8 DEF DeliveryOK

(* One of the invoices is at issue, the others are left alone. *)
LEMMA DeliveriesKeep ==
    ASSUME DeliveriesInv, DeliveryTypes', repeated \subseteq repeated',
           \A i \in Invoices : i \notin repeated' =>
              \/ DeliveryOK(i)'
              \/ /\ \A t \in Permits : IsOn(t, i)' => IsOn(t, i) /\ task'[t].id = task[t].id
                 /\ \A sv \in Servers, n \in Nat : <<i, n>> \in unclaiming'[sv] => <<i, n>> \in unclaiming[sv]
                 /\ Holding(i)' => /\ rows'[i].claim = rows[i].claim /\ rows'[i].state = rows[i].state
                                   /\ rows'[i].id = rows[i].id
                 /\ sends'[i] = sends[i]
                 /\ rows[i].state = "succeeded" => rows'[i].state = "succeeded"
                 /\ \A t \in Permits : (IsOn(t, i) /\ task[t].pc = "success") =>
                       rows'[i].state = "succeeded" \/ (IsOn(t, i)' /\ task'[t].pc = "success")
    PROVE  DeliveriesInv'
<1>1. ASSUME NEW i \in Invoices, i \notin repeated' PROVE DeliveryOK(i)'
  <2>1. DeliveryOK(i)
    BY <1>1 DEF DeliveriesInv
  <2> QED BY <1>1, <2>1, DeliveryKeeps
<1> QED BY <1>1 DEF DeliveriesInv

(* Faults are counted. *)
LEMMA FaultFacts == DeliveryTypes /\ Fault => faults' \in 0..MaxFaults
BY LnurlNotifyAssumption DEF DeliveryTypes, Fault

(* The rows change, the tasks do not. *)
LEMMA RowsKeep ==
    ASSUME DeliveriesInv, NEW j \in Invoices, NEW x \in Row, rows' = [rows EXCEPT ![j] = x],
           UNCHANGED <<config, cache, task, unclaiming, sends>>, faults' \in 0..MaxFaults,
           repeated \subseteq repeated', repeated' \subseteq Invoices, gone' \subseteq Invoices,
           \/ j \in repeated'
           \/ /\ Holding(j) => x.claim = rows[j].claim /\ x.state = rows[j].state /\ x.id = rows[j].id
              /\ rows[j].state = "succeeded" => x.state = "succeeded"
    PROVE  DeliveriesInv'
<1>1. rows' \in [Invoices -> Row] /\ \A i \in Invoices : rows'[i] = IF i = j THEN x ELSE rows[i]
  BY DEF DeliveriesInv, DeliveryTypes
<1>2. DeliveryTypes'
  BY <1>1 DEF DeliveriesInv, DeliveryTypes
<1>3. \A i \in Invoices : (Holding(i)' <=> Holding(i)) /\ \A t \in Permits : IsOn(t, i)' <=> IsOn(t, i)
  BY DEF Holding, IsOn, Unclaims
<1> QED BY <1>1, <1>2, <1>3, DeliveriesKeep

(* One task changes. *)
LEMMA OneTask ==
    ASSUME DeliveryTypes, NEW u \in Permits, NEW x \in {Free} \cup Task, task' = [task EXCEPT ![u] = x]
    PROVE  /\ task' \in [Permits -> {Free} \cup Task]
           /\ \A t \in Permits : task'[t] = IF t = u THEN x ELSE task[t]
           /\ \A t \in Permits, i \in Invoices : IsOn(t, i)' <=> IF t = u THEN x.pc # "free" /\ x.invoice = i ELSE IsOn(t, i)
<1>1. task' \in [Permits -> {Free} \cup Task] /\ \A t \in Permits : task'[t] = IF t = u THEN x ELSE task[t]
  BY DEF DeliveryTypes
<1> QED BY <1>1 DEF IsOn

LEMMA DeliveriesInit == NFInit => NoticesInv /\ DeliveriesInv
<1> SUFFICES ASSUME NFInit PROVE NoticesInv /\ DeliveriesInv
  OBVIOUS
<1>1. NoticesInv
  BY DEF NFInit, NoticesInv, NoticeOK, Handling, NotHandling, AnsweredHasReceipt
<1>2. rows \in [Invoices -> Row] /\ sends \in [Invoices -> 0..2] /\ task \in [Permits -> {Free} \cup Task]
  BY RowFacts DEF NFInit
<1>3. DeliveryTypes
  BY <1>2, LnurlNotifyAssumption DEF NFInit, DeliveryTypes
<1>4. ASSUME NEW i \in Invoices PROVE DeliveryOK(i)
  <2>1. (\A t \in Permits : ~IsOn(t, i)) /\ (\A sv \in Servers : ~Unclaims(sv, i)) /\ sends[i] = 0
    BY RowFacts DEF NFInit, IsOn, Unclaims
  <2> QED BY <2>1 DEF DeliveryOK, Holding, Unclaims
<1> QED BY <1>1, <1>3, <1>4 DEF DeliveriesInv

(* Steps of no delivery. *)
LEMMA DeliveriesStutter ==
    ASSUME DeliveriesInv, UNCHANGED <<rows, task, unclaiming, sends, repeated>>, gone' \subseteq Invoices,
           config' \subseteq Domains, cache' \in [Servers -> SUBSET Domains], faults' \in 0..MaxFaults
    PROVE  DeliveriesInv'
<1>1. DeliveryTypes'
  BY DEF DeliveriesInv, DeliveryTypes
<1>2. \A i \in Invoices : (Holding(i)' <=> Holding(i)) /\ \A t \in Permits : IsOn(t, i)' <=> IsOn(t, i)
  BY DEF Holding, IsOn, Unclaims
<1> QED BY <1>1, <1>2, DeliveriesKeep

(* The task that has a delivery nothing has gone wrong with has it alone. *)
LEMMA SoleHolder ==
    ASSUME NEW j \in Invoices, DeliveryOK(j), NEW u \in Permits, IsOn(u, j)
    PROVE  /\ rows[j].claim = "held" /\ rows[j].state = "pending"
           /\ task[u].pc # "success" => sends[j] = 0
           /\ task[u].pc = "success" => sends[j] \in {0, 1}
           /\ \A t \in Permits : IsOn(t, j) => t = u
           /\ \A sv \in Servers : ~Unclaims(sv, j)
           /\ task[u].id = rows[j].id
<1>1. rows[j].claim = "held" /\ rows[j].state = "pending"
  BY DEF DeliveryOK, Holding
<1>2. \A t \in Permits : IsOn(t, j) => t = u
  BY DEF DeliveryOK
<1>3. \A sv \in Servers : ~Unclaims(sv, j)
  BY DEF DeliveryOK
<1> QED BY <1>1, <1>2, <1>3 DEF DeliveryOK

(* A step of a task: it goes on, or it writes its row and is done. *)
LEMMA TaskMoves ==
    ASSUME DeliveriesInv, NEW u \in Permits, NEW j \in Invoices, IsOn(u, j),
           NEW x \in {Free} \cup Task, x.pc # "free" => x.invoice = j /\ x.id = task[u].id, task' = [task EXCEPT ![u] = x],
           NEW r \in Row, rows' = [rows EXCEPT ![j] = r],
           NEW n \in 0..2, sends' = [sends EXCEPT ![j] = n],
           UNCHANGED <<config, cache, unclaiming>>, faults' \in 0..MaxFaults, gone' \subseteq Invoices,
           repeated \subseteq repeated', repeated' \subseteq Invoices,
           \/ j \in repeated'
           \/ DeliveryOK(j) => /\ x.pc = "free" \/ r = rows[j]
                               /\ \/ n = 0
                                  \/ n = 1 /\ (x.pc = "success" \/ r.state = "succeeded")
    PROVE  DeliveriesInv'
<1>0. DeliveryTypes
  BY DEF DeliveriesInv
<1>1. rows' \in [Invoices -> Row] /\ \A i \in Invoices : rows'[i] = IF i = j THEN r ELSE rows[i]
  BY <1>0 DEF DeliveryTypes
<1>2. sends' \in [Invoices -> 0..2] /\ \A i \in Invoices : sends'[i] = IF i = j THEN n ELSE sends[i]
  BY <1>0 DEF DeliveryTypes
<1>3. /\ task' \in [Permits -> {Free} \cup Task]
      /\ \A t \in Permits : task'[t] = IF t = u THEN x ELSE task[t]
      /\ \A t \in Permits, i \in Invoices : IsOn(t, i)' <=> IF t = u THEN x.pc # "free" /\ x.invoice = i ELSE IsOn(t, i)
  BY <1>0, OneTask
<1>4. DeliveryTypes'
  BY <1>0, <1>1, <1>2, <1>3 DEF DeliveryTypes
<1>5. ASSUME NEW i \in Invoices, i \notin repeated', i = j PROVE DeliveryOK(i)'
  <2>1. DeliveryOK(j) /\ j \notin repeated'
    BY <1>5 DEF DeliveriesInv
  <2>2. /\ rows[j].claim = "held" /\ rows[j].state = "pending"
        /\ \A t \in Permits : IsOn(t, j) => t = u
        /\ \A sv \in Servers : ~Unclaims(sv, j)
        /\ task[u].id = rows[j].id
    BY <2>1, SoleHolder
  <2>3. \A t \in Permits : IsOn(t, j)' <=> (t = u /\ x.pc # "free")
    BY <1>3, <2>2
  <2>4. \A sv \in Servers : ~Unclaims(sv, j)'
    BY <2>2 DEF Unclaims
  <2>9. \A t \in Permits : IsOn(t, j)' => task'[t].id = rows'[j].id
    BY <1>1, <1>3, <2>1, <2>2, <2>3
  <2>5. Holding(j)' => x.pc # "free"
    BY <2>3, <2>4 DEF Holding
  <2>6. Holding(j)' => rows'[j].claim = "held" /\ rows'[j].state = "pending"
    BY <1>1, <2>1, <2>2, <2>5
  <2>7. x.pc = "success" => IsOn(u, j)' /\ task'[u].pc = "success"
    BY <1>3, <2>3
  <2>8. \/ sends'[j] = 0
        \/ /\ sends'[j] = 1
           /\ rows'[j].state = "succeeded" \/ \E t \in Permits : IsOn(t, j)' /\ task'[t].pc = "success"
    BY <1>1, <1>2, <2>1, <2>7
  <2> QED BY <1>5, <2>3, <2>4, <2>6, <2>8, <2>9 DEF DeliveryOK, Unclaims
<1>6. ASSUME NEW i \in Invoices, i # j
      PROVE  /\ \A t \in Permits : IsOn(t, i)' <=> IsOn(t, i)
             /\ \A t \in Permits : IsOn(t, i) => task'[t] = task[t]
             /\ rows'[i] = rows[i] /\ sends'[i] = sends[i]
  <2>1. ~IsOn(u, i)
    BY <1>6 DEF IsOn
  <2> QED BY <1>1, <1>2, <1>3, <1>6, <2>1
<1> QED BY <1>4, <1>5, <1>6, DeliveriesKeep

(* process_webhook_delivery *)
LEMMA TaskSteps ==
    ASSUME DeliveriesInv, NEW u \in Permits, TaskStep(u) \/ GiveUpFails(u) \/ SendUnanswered(u) \/ SendFails(u) \/ RecordFails(u)
    PROVE  DeliveriesInv'
<1> DEFINE j == task[u].invoice
<1>0. DeliveryTypes
  BY DEF DeliveriesInv
<1>1. task[u].pc \in {"config", "success", "failure"}
  BY DEF TaskStep, GiveUp, GiveUpFails, Send, RecordSuccess, RecordFailure, SendUnanswered, SendFails, RecordFails, Doing
<1>2. task[u].pc # "free" /\ task[u] \in Task /\ j \in Invoices
  BY <1>0, <1>1, TaskFacts
<1>3. IsOn(u, j)
  BY <1>2 DEF IsOn
<1>4. rows[j] \in Row /\ sends[j] \in 0..2 /\ faults \in 0..MaxFaults /\ gone \subseteq Invoices /\ repeated \subseteq Invoices
  BY <1>0, <1>2 DEF DeliveryTypes
<1>5. rows = [rows EXCEPT ![j] = rows[j]] /\ sends = [sends EXCEPT ![j] = sends[j]]
  BY <1>0, <1>2 DEF DeliveryTypes
<1>6. ASSUME DeliveryOK(j) PROVE /\ rows[j].state = "pending" /\ rows[j].id = task[u].id
                                 /\ task[u].pc # "success" => sends[j] = 0
                                 /\ sends[j] \in {0, 1}
  BY <1>2, <1>3, <1>6, SoleHolder
<1>7. ASSUME NEW pc \in {"success", "failure"}, TaskGoto(u, pc)
      PROVE  \E x \in Task : task' = [task EXCEPT ![u] = x] /\ x.pc = pc /\ x.invoice = j /\ x.id = task[u].id
  <2> DEFINE x == [task[u] EXCEPT !.pc = pc]
  <2>1. x \in Task /\ x.pc = pc /\ x.invoice = j /\ x.id = task[u].id
    BY <1>2 DEF Task
  <2>2. task' = [task EXCEPT ![u] = x]
    BY <1>0, <1>7 DEF TaskGoto, DeliveryTypes
  <2> HIDE DEF x
  <2> QED BY <2>1, <2>2
<1>8. Release(u) => task' = [task EXCEPT ![u] = Free]
  BY DEF Release
<1>9. Free.pc = "free" /\ Deleted(j) \in Row
  BY <1>2, <1>4, RowFacts
<1>10. ASSUME NEW row \in Row, UpdateRow(u, row)
       PROVE  \E r \in Row : rows' = [rows EXCEPT ![j] = r] /\ (rows[j].id = task[u].id => r = row)
  <2> DEFINE r == IF rows[j].id = task[u].id THEN row ELSE rows[j]
  <2>1. rows' = [rows EXCEPT ![j] = r] /\ r \in Row /\ (rows[j].id = task[u].id => r = row)
    BY <1>0, <1>2, <1>4, <1>10 DEF UpdateRow, DeliveryTypes
  <2> HIDE DEF r
  <2> QED BY <2>1
<1> HIDE DEF j
<1>11. CASE GiveUp(u)
  <2> DEFINE row == IF task[u].attempted
                    THEN [rows[j] EXCEPT !.state = IF @ = "pending" THEN "parked" ELSE @, !.claim = "free"]
                    ELSE Deleted(j)
  <2>1. /\ task[u].pc = "config" /\ UpdateRow(u, row) /\ Release(u) /\ gone' = gone \cup {j}
        /\ UNCHANGED <<config, cache, unclaiming, sends, repeated, faults>>
    BY <1>11 DEF GiveUp, Doing, j, Deleted
  <2>2. row \in Row
    BY <1>4, <1>9 DEF Row
  <2> HIDE DEF row
  <2>3. PICK r \in Row : rows' = [rows EXCEPT ![j] = r]
    BY <1>10, <2>1, <2>2
  <2> DEFINE n == sends[j]
  <2>4. /\ sends' = [sends EXCEPT ![j] = n] /\ n \in 0..2 /\ task' = [task EXCEPT ![u] = Free]
        /\ UNCHANGED <<config, cache, unclaiming, repeated, faults>> /\ gone' \subseteq Invoices
    BY <1>2, <1>4, <1>5, <1>8, <2>1
  <2>5. DeliveryOK(j) => n = 0
    BY <1>6, <2>1
  <2> HIDE DEF n
  <2> QED BY <1>2, <1>3, <1>4, <1>9, <2>3, <2>4, <2>5, TaskMoves
<1>12. CASE Send(u)
  <2> DEFINE n == IF sends[j] = 2 THEN 2 ELSE sends[j] + 1
  <2>1. /\ task[u].pc = "config" /\ TaskGoto(u, "success") /\ sends' = [sends EXCEPT ![j] = n]
        /\ UNCHANGED <<rows, config, cache, unclaiming, repeated, gone, faults>>
    BY <1>0, <1>2, <1>12 DEF Send, Doing, j, tableVars, DeliveryTypes
  <2>2. n \in 0..2 /\ (sends[j] = 0 => n = 1)
    BY <1>4
  <2> HIDE DEF n
  <2>3. PICK x \in Task : task' = [task EXCEPT ![u] = x] /\ x.pc = "success" /\ x.invoice = j /\ x.id = task[u].id
    BY <1>7, <2>1
  <2> QED BY <1>2, <1>3, <1>4, <1>5, <1>6, <2>1, <2>2, <2>3, TaskMoves
<1>13. CASE SendUnanswered(u)
  <2> DEFINE n == IF sends[j] = 2 THEN 2 ELSE sends[j] + 1
  <2>1. /\ TaskGoto(u, "failure") /\ sends' = [sends EXCEPT ![j] = n] /\ repeated' = repeated \cup {j} /\ Fault
        /\ UNCHANGED <<rows, config, cache, unclaiming, gone>>
    BY <1>0, <1>2, <1>13 DEF SendUnanswered, j, tableVars, DeliveryTypes
  <2>2. n \in 0..2
    BY <1>4
  <2> HIDE DEF n
  <2>3. PICK x \in Task : task' = [task EXCEPT ![u] = x] /\ x.pc = "failure" /\ x.invoice = j /\ x.id = task[u].id
    BY <1>7, <2>1
  <2>4. faults' \in 0..MaxFaults
    BY <1>0, <2>1, FaultFacts
  <2> QED BY <1>2, <1>3, <1>4, <1>5, <2>1, <2>2, <2>3, <2>4, TaskMoves
<1>14. CASE SendFails(u)
  <2>1. /\ task[u].pc = "config" /\ TaskGoto(u, "failure")
        /\ UNCHANGED <<rows, config, cache, unclaiming, sends, repeated, gone, faults>>
    BY <1>14 DEF SendFails, Doing, tableVars, historyVars
  <2>2. PICK x \in Task : task' = [task EXCEPT ![u] = x] /\ x.pc = "failure" /\ x.invoice = j /\ x.id = task[u].id
    BY <1>7, <2>1
  <2> DEFINE n == sends[j]
             r == rows[j]
  <2>3. /\ sends' = [sends EXCEPT ![j] = n] /\ n \in 0..2 /\ rows' = [rows EXCEPT ![j] = r] /\ r \in Row /\ r = rows[j]
        /\ UNCHANGED <<config, cache, unclaiming, repeated, gone, faults>>
    BY <1>4, <1>5, <2>1
  <2>4. DeliveryOK(j) => n = 0
    BY <1>6, <2>1
  <2> HIDE DEF n, r
  <2> QED BY <1>2, <1>3, <1>4, <2>2, <2>3, <2>4, TaskMoves
<1>15. CASE RecordSuccess(u)
  <2> DEFINE row == [rows[j] EXCEPT !.state = "succeeded", !.attempted = TRUE]
  <2>1. /\ UpdateRow(u, row) /\ Release(u)
        /\ UNCHANGED <<config, cache, unclaiming, sends, repeated, gone, faults>>
    BY <1>15 DEF RecordSuccess, j, historyVars
  <2>2. row \in Row /\ row.state = "succeeded"
    BY <1>4 DEF Row
  <2> HIDE DEF row
  <2>3. PICK r \in Row : rows' = [rows EXCEPT ![j] = r] /\ (rows[j].id = task[u].id => r = row)
    BY <1>10, <2>1, <2>2
  <2> DEFINE n == sends[j]
  <2>4. /\ sends' = [sends EXCEPT ![j] = n] /\ n \in 0..2 /\ task' = [task EXCEPT ![u] = Free]
        /\ UNCHANGED <<config, cache, unclaiming, repeated, faults>> /\ gone' \subseteq Invoices
    BY <1>2, <1>4, <1>5, <1>8, <2>1
  <2>5. DeliveryOK(j) => r.state = "succeeded" /\ n \in {0, 1}
    BY <1>6, <2>2, <2>3
  <2> HIDE DEF n
  <2> QED BY <1>2, <1>3, <1>4, <1>9, <2>3, <2>4, <2>5, TaskMoves
<1>16. CASE RecordFailure(u)
  <2>1. /\ task[u].pc = "failure" /\ UpdateRow(u, Failed(j)) /\ Release(u)
        /\ UNCHANGED <<config, cache, unclaiming, sends, repeated, gone, faults>>
    BY <1>16 DEF RecordFailure, Doing, j, historyVars
  <2>2. Failed(j) \in Row
    BY <1>4 DEF Row, Failed
  <2>3. PICK r \in Row : rows' = [rows EXCEPT ![j] = r]
    BY <1>10, <2>1, <2>2
  <2> DEFINE n == sends[j]
  <2>4. /\ sends' = [sends EXCEPT ![j] = n] /\ n \in 0..2 /\ task' = [task EXCEPT ![u] = Free]
        /\ UNCHANGED <<config, cache, unclaiming, repeated, faults>> /\ gone' \subseteq Invoices
    BY <1>2, <1>4, <1>5, <1>8, <2>1
  <2>5. DeliveryOK(j) => n = 0
    BY <1>6, <2>1
  <2> HIDE DEF n
  <2> QED BY <1>2, <1>3, <1>4, <1>9, <2>3, <2>4, <2>5, TaskMoves
<1>17. CASE RecordFails(u)
  <2>1. /\ Release(u) /\ Fault /\ repeated' = repeated \cup {j}
        /\ UNCHANGED <<rows, config, cache, unclaiming, sends, gone>>
    BY <1>17 DEF RecordFails, j, tableVars
  <2>2. faults' \in 0..MaxFaults
    BY <1>0, <2>1, FaultFacts
  <2> QED BY <1>2, <1>3, <1>4, <1>5, <1>8, <1>9, <2>1, <2>2, TaskMoves
<1>18. CASE GiveUpFails(u)
  <2>1. /\ task[u].pc = "config" /\ Release(u) /\ Fault
        /\ UNCHANGED <<rows, config, cache, unclaiming, sends, repeated, gone>>
    BY <1>18 DEF GiveUpFails, Doing, tableVars, historyVars
  <2> DEFINE n == sends[j]
             r == rows[j]
  <2>2. /\ sends' = [sends EXCEPT ![j] = n] /\ n \in 0..2 /\ rows' = [rows EXCEPT ![j] = r] /\ r \in Row /\ r = rows[j]
        /\ task' = [task EXCEPT ![u] = Free] /\ UNCHANGED <<config, cache, unclaiming, repeated, gone>>
    BY <1>4, <1>5, <1>8, <2>1
  <2>3. faults' \in 0..MaxFaults
    BY <1>0, <2>1, FaultFacts
  <2>4. DeliveryOK(j) => n = 0
    BY <1>6, <2>1
  <2> HIDE DEF n, r
  <2> QED BY <1>2, <1>3, <1>4, <1>9, <2>2, <2>3, <2>4, TaskMoves
<1> QED BY <1>11, <1>12, <1>13, <1>14, <1>15, <1>16, <1>17, <1>18 DEF TaskStep

(* The rows, by the handlers, by time and by the cleanup. *)
LEMMA RowSteps ==
    ASSUME NoticesInv, DeliveriesInv,
           \/ \E h \in Notices : EnqueueWebhook(h)
           \/ \E i \in Invoices : RetryDue(i) \/ ClaimStale(i) \/ ClaimOverrun(i) \/ Cleanup(i)
    PROVE  DeliveriesInv'
<1>0. DeliveryTypes
  BY DEF DeliveriesInv
<1>1. /\ \A i \in Invoices : rows[i] \in Row
      /\ repeated \subseteq Invoices /\ gone \subseteq Invoices /\ faults \in 0..MaxFaults
  BY <1>0 DEF DeliveryTypes
<1>2. ASSUME NEW i \in Invoices, i \notin repeated, Holding(i) PROVE rows[i].claim = "held" /\ rows[i].state = "pending"
  BY <1>2 DEF DeliveriesInv, DeliveryOK
<1>3. ASSUME NEW h \in Notices, EnqueueWebhook(h) PROVE DeliveriesInv'
  <2> DEFINE j == Invoice(h)
             x == Enqueued(h)
  <2>1. j \in Invoices
    BY <1>3, NoticeFacts DEF EnqueueWebhook, Handling
  <2>2. x \in Row /\ (rows[j].state # "none" => x = rows[j])
    BY <1>1, <2>1, RowFacts DEF Enqueued
  <2>3. rows' = [rows EXCEPT ![j] = x] /\ UNCHANGED <<config, cache, task, unclaiming, sends, repeated, gone, faults>>
    BY <1>3 DEF EnqueueWebhook, serverVars, historyVars
  <2> HIDE DEF j, x
  <2>4. j \in repeated' \/ (/\ Holding(j) => x.claim = rows[j].claim /\ x.state = rows[j].state /\ x.id = rows[j].id
                            /\ rows[j].state = "succeeded" => x.state = "succeeded")
    BY <1>2, <2>1, <2>2, <2>3
  <2> QED BY <1>1, <2>1, <2>2, <2>3, <2>4, RowsKeep
<1>4. ASSUME NEW i \in Invoices, RetryDue(i) PROVE DeliveriesInv'
  <2> DEFINE x == [rows[i] EXCEPT !.due = TRUE]
  <2>1. x \in Row /\ x.claim = rows[i].claim /\ x.state = rows[i].state /\ x.id = rows[i].id
    BY <1>1, <1>4 DEF Row
  <2>2. rows' = [rows EXCEPT ![i] = x] /\ UNCHANGED <<config, cache, task, unclaiming, sends, repeated, gone, faults>>
    BY <1>0, <1>4 DEF RetryDue, serverVars, historyVars, DeliveryTypes
  <2> HIDE DEF x
  <2> QED BY <1>1, <1>4, <2>1, <2>2, RowsKeep
<1>5. ASSUME NEW i \in Invoices, ClaimStale(i) \/ ClaimOverrun(i) PROVE DeliveriesInv'
  <2> DEFINE x == [rows[i] EXCEPT !.claim = "stale"]
  <2>1. x \in Row /\ x.state = rows[i].state
    BY <1>1, <1>5 DEF Row
  <2>2. rows' = [rows EXCEPT ![i] = x] /\ UNCHANGED <<config, cache, task, unclaiming, sends, gone>>
    BY <1>0, <1>5 DEF ClaimStale, ClaimOverrun, serverVars, historyVars, DeliveryTypes
  <2> HIDE DEF x
  <2>3. CASE ClaimStale(i)
    <3>1. UNCHANGED <<repeated, faults>>
      BY <2>3 DEF ClaimStale, historyVars
    <3>2. i \notin repeated => ~Holding(i)
      <4> SUFFICES ASSUME DeliveryOK(i), Holding(i) PROVE FALSE
        BY <1>5 DEF DeliveriesInv
      <4>1. ASSUME NEW t \in Permits, IsOn(t, i) PROVE FALSE
        BY <2>3, <4>1 DEF ClaimStale, Delivering, DeliveryOK, IsOn
      <4>2. ASSUME NEW sv \in Servers, Unclaims(sv, i) PROVE FALSE
        BY <2>3, <4>2 DEF ClaimStale, DeliveryOK, Unclaims
      <4> QED BY <4>1, <4>2 DEF Holding
    <3> QED BY <1>1, <1>5, <2>1, <2>2, <3>1, <3>2, RowsKeep
  <2>4. CASE ClaimOverrun(i)
    <3>1. repeated' = repeated \cup {i} /\ faults' \in 0..MaxFaults
      BY <1>0, <2>4, FaultFacts DEF ClaimOverrun
    <3> QED BY <1>1, <1>5, <2>1, <2>2, <3>1, RowsKeep
  <2> QED BY <1>5, <2>3, <2>4
<1>6. ASSUME NEW i \in Invoices, Cleanup(i) PROVE DeliveriesInv'
  <2>1. /\ rows' = [rows EXCEPT ![i] = Deleted(i)] /\ repeated' = repeated \cup {i} /\ gone' = gone \cup {i}
        /\ UNCHANGED <<config, cache, task, unclaiming, sends>> /\ faults' \in 0..MaxFaults
    BY <1>0, <1>6, FaultFacts DEF Cleanup, serverVars
  <2> QED BY <1>1, <1>6, <2>1, RowFacts, RowsKeep
<1> QED BY <1>3, <1>4, <1>5, <1>6

(* take_pending_webhook_deliveries: what it takes nobody has. *)
LEMMA TakeStep ==
    ASSUME DeliveriesInv, NEW sv \in Servers, NEW j \in Invoices, Take(sv, j)
    PROVE  DeliveriesInv'
<1> DEFINE r == [rows[j] EXCEPT !.claim = "held"]
           x == [pc |-> "config", invoice |-> j, id |-> rows[j].id, attempted |-> rows[j].attempted]
<1>0. DeliveryTypes
  BY DEF DeliveriesInv
<1>1. rows[j] \in Row /\ rows[j].state = "pending" /\ rows[j].claim # "held"
  BY <1>0 DEF Take, Takeable, DeliveryTypes
<1>2. r \in Row /\ r.claim = "held" /\ r.state = "pending" /\ r.id = rows[j].id /\ r.id \in Nat
  BY <1>1 DEF Row
<1>3. x \in Task /\ x.pc = "config" /\ x.pc # "free" /\ x.invoice = j /\ x.id = rows[j].id
  BY <1>1 DEF Row, Task
<1>4. rows' = [rows EXCEPT ![j] = r] /\ UNCHANGED <<config, cache, sends, repeated, gone, faults>>
  BY <1>0 DEF Take, historyVars, DeliveryTypes
<1>5. /\ \/ unclaiming' = [unclaiming EXCEPT ![sv] = {<<j, rows[j].id>>}] /\ UNCHANGED task
         \/ UNCHANGED unclaiming /\ \E t \in Permits : task[t].pc = "free" /\ task' = [task EXCEPT ![t] = x]
      /\ unclaiming[sv] = {}
  BY DEF Take, FreePermits
<1> HIDE DEF r, x
<1>6. rows' \in [Invoices -> Row] /\ \A i \in Invoices : rows'[i] = IF i = j THEN r ELSE rows[i]
  BY <1>0, <1>2, <1>4 DEF DeliveryTypes
<1>7. /\ task' \in [Permits -> {Free} \cup Task] /\ unclaiming' \in [Servers -> SUBSET (Invoices \X Nat)]
      /\ \A i \in Invoices : i # j => /\ \A t \in Permits : IsOn(t, i)' <=> IsOn(t, i)
                                      /\ \A t \in Permits : IsOn(t, i) => task'[t] = task[t]
                                      /\ \A sw \in Servers, n \in Nat : <<i, n>> \in unclaiming'[sw] => <<i, n>> \in unclaiming[sw]
      /\ ~Holding(j) => /\ \A t, u \in Permits : IsOn(t, j)' /\ IsOn(u, j)' => t = u
                        /\ \A t \in Permits, sw \in Servers : ~(IsOn(t, j)' /\ Unclaims(sw, j)')
                        /\ \A sw, sx \in Servers : Unclaims(sw, j)' /\ Unclaims(sx, j)' => sw = sx
                        /\ \A t \in Permits : IsOn(t, j)' => task'[t].id = rows[j].id
                        /\ \A sw \in Servers, n \in Nat : <<j, n>> \in unclaiming'[sw] => n = rows[j].id
  <2>1. CASE unclaiming' = [unclaiming EXCEPT ![sv] = {<<j, rows[j].id>>}] /\ UNCHANGED task
    <3>1. unclaiming' \in [Servers -> SUBSET (Invoices \X Nat)] /\ \A sw \in Servers : unclaiming'[sw] = IF sw = sv THEN {<<j, rows[j].id>>} ELSE unclaiming[sw]
      BY <1>0, <1>2, <2>1 DEF DeliveryTypes
    <3>2. task' \in [Permits -> {Free} \cup Task] /\ \A t \in Permits, i \in Invoices : IsOn(t, i)' <=> IsOn(t, i)
      BY <1>0, <2>1 DEF DeliveryTypes, IsOn
    <3>3. \A t \in Permits, i \in Invoices : IsOn(t, i) => task'[t] = task[t]
      BY <2>1
    <3> QED BY <2>1, <3>1, <3>2, <3>3 DEF Holding, Unclaims
  <2>2. ASSUME UNCHANGED unclaiming, NEW u \in Permits, task[u].pc = "free", task' = [task EXCEPT ![u] = x]
        PROVE  <1>7!:
    <3>1. /\ task' \in [Permits -> {Free} \cup Task]
          /\ \A t \in Permits : task'[t] = IF t = u THEN x ELSE task[t]
          /\ \A t \in Permits, i \in Invoices : IsOn(t, i)' <=> IF t = u THEN x.pc # "free" /\ x.invoice = i ELSE IsOn(t, i)
      BY <1>0, <1>3, <2>2, OneTask
    <3>2. \A i \in Invoices : ~IsOn(u, i)
      BY <2>2 DEF IsOn
    <3>3. unclaiming' \in [Servers -> SUBSET (Invoices \X Nat)]
      BY <1>0, <2>2 DEF DeliveryTypes
    <3> QED BY <1>3, <2>2, <3>1, <3>2, <3>3 DEF Holding, Unclaims
  <2> QED BY <1>5, <2>1, <2>2
<1>8. DeliveryTypes'
  BY <1>0, <1>4, <1>6, <1>7 DEF DeliveryTypes
<1>9. ASSUME j \notin repeated' PROVE DeliveryOK(j)'
  <2>1. DeliveryOK(j) /\ ~Holding(j)
    BY <1>1, <1>4, <1>9 DEF DeliveriesInv, DeliveryOK
  <2>2. sends[j] = 0
    BY <1>1, <2>1 DEF DeliveryOK, Holding
  <2>3. rows'[j].claim = "held" /\ rows'[j].state = "pending" /\ rows'[j].id = rows[j].id /\ sends'[j] = 0
    BY <1>2, <1>4, <1>6, <2>2
  <2> QED BY <1>7, <2>1, <2>3 DEF DeliveryOK
<1> QED BY <1>4, <1>6, <1>7, <1>8, <1>9, DeliveriesKeep

(* unclaim_webhook_deliveries: the claim it gives up is its own. *)
LEMMA UnclaimSteps ==
    ASSUME DeliveriesInv, NEW sv \in Servers, Unclaim(sv) \/ UnclaimFails(sv)
    PROVE  DeliveriesInv'
<1>0. DeliveryTypes
  BY DEF DeliveriesInv
<1>1. unclaiming' = [unclaiming EXCEPT ![sv] = {}] /\ UNCHANGED <<config, cache, task, sends, repeated, gone>>
  BY DEF Unclaim, UnclaimFails, tableVars, historyVars
<1>2. faults' \in 0..MaxFaults
  BY <1>0, FaultFacts DEF Unclaim, UnclaimFails, DeliveryTypes
<1>3. /\ unclaiming' \in [Servers -> SUBSET (Invoices \X Nat)]
      /\ \A sw \in Servers : unclaiming'[sw] = IF sw = sv THEN {} ELSE unclaiming[sw]
  BY <1>0, <1>1 DEF DeliveryTypes
<1>4. \A i \in Invoices, t \in Permits : IsOn(t, i)' <=> IsOn(t, i)
  BY <1>1 DEF IsOn
<1>5. /\ rows' \in [Invoices -> Row]
      /\ \A i \in Invoices : rows'[i].state = rows[i].state /\ (~Unclaims(sv, i) => rows'[i] = rows[i]) /\ rows'[i].id = rows[i].id
  <2>1. CASE UnclaimFails(sv)
    BY <1>0, <2>1 DEF UnclaimFails, tableVars, DeliveryTypes
  <2>2. CASE Unclaim(sv)
    <3>1. rows' = [i \in Invoices |-> IF <<i, rows[i].id>> \in unclaiming[sv] THEN [rows[i] EXCEPT !.claim = "free"] ELSE rows[i]]
      BY <2>2 DEF Unclaim
    <3>2. ASSUME NEW i \in Invoices PROVE rows'[i] \in Row /\ rows'[i].state = rows[i].state /\ (~Unclaims(sv, i) => rows'[i] = rows[i]) /\ rows'[i].id = rows[i].id
      <4>1. rows[i] \in Row /\ rows[i].id \in Nat
        BY <1>0 DEF DeliveryTypes, Row
      <4> QED BY <3>1, <4>1 DEF Row, Unclaims
    <3>3. rows' \in [Invoices -> Row]
      BY <3>1, <3>2
    <3> QED BY <3>2, <3>3
  <2> QED BY <2>1, <2>2
<1>6. DeliveryTypes'
  BY <1>0, <1>1, <1>2, <1>3, <1>5 DEF DeliveryTypes
<1>7. ASSUME NEW i \in Invoices, i \notin repeated', Holding(i)' PROVE rows'[i] = rows[i]
  <2>1. DeliveryOK(i)
    BY <1>1, <1>7 DEF DeliveriesInv
  <2>2. ~Unclaims(sv, i)
    BY <1>3, <1>4, <1>7, <2>1 DEF DeliveryOK, Holding, Unclaims
  <2> QED BY <1>5, <2>2
<1> QED BY <1>1, <1>3, <1>4, <1>5, <1>6, <1>7, DeliveriesKeep

(* A server stops: what it was delivering nobody has, and a delivery whose *)
(* acceptance it did not record counts as repeated.                        *)
LEMMA CrashStep ==
    ASSUME DeliveriesInv, NEW sv \in Servers, Crash(sv)
    PROVE  DeliveriesInv'
<1> DEFINE lost == {task[t].invoice : t \in {p \in Permits : ServerOf(p) = sv /\ Doing(p, "success")}}
<1>0. DeliveryTypes
  BY DEF DeliveriesInv
<1>1. /\ task' = [t \in Permits |-> IF ServerOf(t) = sv THEN Free ELSE task[t]]
      /\ unclaiming' = [unclaiming EXCEPT ![sv] = {}] /\ cache' = [cache EXCEPT ![sv] = config]
      /\ repeated' = repeated \cup lost /\ UNCHANGED <<rows, config, sends, gone>> /\ faults' \in 0..MaxFaults
  BY <1>0, FaultFacts DEF Crash, tableVars
<1>2. /\ unclaiming' \in [Servers -> SUBSET (Invoices \X Nat)]
      /\ \A sw \in Servers : unclaiming'[sw] = IF sw = sv THEN {} ELSE unclaiming[sw]
  BY <1>0, <1>1 DEF DeliveryTypes
<1>3. cache' \in [Servers -> SUBSET Domains]
  BY <1>0, <1>1 DEF DeliveryTypes
<1>4. task' \in [Permits -> {Free} \cup Task]
  BY <1>0, <1>1 DEF DeliveryTypes
<1>5. lost \subseteq Invoices
  <2>1. ASSUME NEW t \in Permits, Doing(t, "success") PROVE task[t].invoice \in Invoices
    BY <1>0, <2>1, TaskFacts DEF Doing
  <2> QED BY <2>1
<1>6. DeliveryTypes'
  BY <1>0, <1>1, <1>2, <1>3, <1>4, <1>5 DEF DeliveryTypes
<1>7. ASSUME NEW i \in Invoices, NEW t \in Permits, IsOn(t, i)' PROVE IsOn(t, i) /\ task'[t].id = task[t].id
  BY <1>1, <1>7, RowFacts DEF IsOn
<1>8. ASSUME NEW i \in Invoices, i \notin repeated', NEW t \in Permits, IsOn(t, i), task[t].pc = "success"
      PROVE  IsOn(t, i)' /\ task'[t].pc = "success"
  <2>1. ServerOf(t) # sv
    BY <1>1, <1>8 DEF IsOn, Doing
  <2> QED BY <1>1, <1>8, <2>1 DEF IsOn
<1> HIDE DEF lost
<1> QED BY <1>1, <1>2, <1>6, <1>7, <1>8, DeliveriesKeep

LEMMA DeliveriesNext ==
    ASSUME NoticesInv, DeliveriesInv, [NFNext]_nfVars
    PROVE  DeliveriesInv'
<1>0. DeliveryTypes /\ gone \subseteq Invoices /\ config \subseteq Domains /\ cache \in [Servers -> SUBSET Domains] /\ faults \in 0..MaxFaults
  BY DEF DeliveriesInv, DeliveryTypes
<1>1. ASSUME NEW h \in Notices, (\E i \in Invoices : Notify(h, i)) \/ StorePreimage(h) \/ EnqueueReceipt(h) \/ Answer(h) PROVE DeliveriesInv'
  BY <1>0, <1>1, DeliveriesStutter DEF Notify, StorePreimage, EnqueueReceipt, Answer, tableVars, serverVars, historyVars
<1>2. ASSUME NEW h \in Notices, HandlingFails(h) PROVE DeliveriesInv'
  BY <1>0, <1>2, FaultFacts, DeliveriesStutter DEF HandlingFails, tableVars, serverVars, historyVars
<1>3. ASSUME NEW h \in Notices, EnqueueWebhookFails(h) PROVE DeliveriesInv'
  <2>1. Invoice(h) \in Invoices
    BY <1>3, NoticeFacts DEF EnqueueWebhookFails, Handling
  <2>2. UNCHANGED <<rows, config, cache, task, unclaiming, sends, repeated>> /\ gone' = gone \cup {Invoice(h)} /\ faults' \in 0..MaxFaults
    BY <1>0, <1>3, FaultFacts DEF EnqueueWebhookFails, tableVars, serverVars
  <2> QED BY <1>0, <2>1, <2>2, DeliveriesStutter
<1>4. ASSUME NEW d \in Domains, ChangeConfig(d) PROVE DeliveriesInv'
  <2>1. UNCHANGED <<rows, cache, task, unclaiming, sends, repeated, gone>> /\ config' \subseteq Domains /\ faults' \in 0..MaxFaults
    BY <1>0, <1>4, FaultFacts DEF ChangeConfig, serverVars, historyVars
  <2> QED BY <1>0, <2>1, DeliveriesStutter
<1>5. ASSUME NEW sv \in Servers, RefreshConfig(sv) PROVE DeliveriesInv'
  <2>1. UNCHANGED <<rows, config, task, unclaiming, sends, repeated, gone, faults>> /\ cache' \in [Servers -> SUBSET Domains]
    BY <1>0, <1>5 DEF RefreshConfig, tableVars, historyVars
  <2> QED BY <1>0, <2>1, DeliveriesStutter
<1>6. CASE UNCHANGED nfVars
  BY <1>0, <1>6, DeliveriesStutter DEF nfVars, tableVars, serverVars, historyVars
<1>7. CASE NFNext
  BY <1>1, <1>2, <1>3, <1>4, <1>5, <1>7, RowSteps, TakeStep, UnclaimSteps, CrashStep, TaskSteps DEF NFNext, NoticeStep
<1> QED BY <1>6, <1>7

LEMMA DeliveriesAlways == NFSpec => [](NoticesInv /\ DeliveriesInv)
<1>1. (NoticesInv /\ DeliveriesInv) /\ [NFNext]_nfVars => (NoticesInv /\ DeliveriesInv)'
  BY NoticesNext, DeliveriesNext
<1> QED BY <1>1, DeliveriesInit, PTL DEF NFSpec

(* With all the duplicates of a notification and all the servers, the      *)
(* partner accepts a delivery once, unless its answer, the record of it or *)
(* the row was lost or the claim ran out.                                  *)
THEOREM DeliveredOnce == NFSpec => []AcceptedOnce
<1>1. DeliveriesInv => AcceptedOnce
  <2> SUFFICES ASSUME DeliveriesInv, NEW i \in Invoices, sends[i] > 1, i \notin repeated PROVE FALSE
    BY DEF AcceptedOnce
  <2>1. sends[i] = 0 \/ sends[i] = 1
    BY DEF DeliveriesInv, DeliveryOK
  <2> QED BY <2>1
<1> QED BY <1>1, DeliveriesAlways, PTL

(* The partner's acceptance, once recorded, is not undone by what other    *)
(* attempts, unclaims and retries write to the row later.                  *)
THEOREM SuccessIsKept == NFSpec => SuccessStays
<1> DEFINE Keeps == \A i \in Invoices : rows[i].state = "succeeded" => rows'[i].state = "succeeded" \/ i \in gone'
<1>1. ASSUME NoticesInv, DeliveriesInv, NFNext PROVE Keeps
  <2> SUFFICES ASSUME NEW i \in Invoices, rows[i].state = "succeeded" PROVE rows'[i].state = "succeeded" \/ i \in gone'
    OBVIOUS
  <2>0. DeliveryTypes /\ rows[i] \in Row /\ \A k \in Invoices : rows[k] \in Row
    BY <1>1 DEF DeliveriesInv, DeliveryTypes
  <2>1. CASE UNCHANGED rows
    BY <2>1
  <2>2. ASSUME NEW j \in Invoices, NEW x, rows' = [rows EXCEPT ![j] = x], i # j PROVE rows'[i].state = "succeeded"
    BY <2>0, <2>2 DEF DeliveryTypes
  <2>3. ASSUME NEW j \in Invoices, NEW x, rows' = [rows EXCEPT ![j] = x], i = j => x.state = "succeeded" \/ i \in gone'
        PROVE  rows'[i].state = "succeeded" \/ i \in gone'
    BY <2>0, <2>2, <2>3 DEF DeliveryTypes
  <2>4. ASSUME NEW h \in Notices, EnqueueWebhook(h) PROVE rows'[i].state = "succeeded" \/ i \in gone'
    <3>1. Invoice(h) \in Invoices /\ rows' = [rows EXCEPT ![Invoice(h)] = Enqueued(h)]
      BY <1>1, <2>4, NoticeFacts DEF EnqueueWebhook, Handling
    <3>2. i = Invoice(h) => Enqueued(h).state = "succeeded"
      BY DEF Enqueued
    <3> QED BY <2>3, <3>1, <3>2
  <2>5. ASSUME NEW j \in Invoices, RetryDue(j) \/ ClaimStale(j) \/ ClaimOverrun(j) \/ Cleanup(j)
        PROVE  rows'[i].state = "succeeded" \/ i \in gone'
    <3>1. CASE RetryDue(j)
      BY <2>0, <3>1 DEF RetryDue, DeliveryTypes, Row
    <3>2. CASE ClaimStale(j) \/ ClaimOverrun(j)
      BY <2>0, <3>2 DEF ClaimStale, ClaimOverrun, DeliveryTypes, Row
    <3>3. CASE Cleanup(j)
      BY <2>3, <2>5, <3>3 DEF Cleanup
    <3> QED BY <2>5, <3>1, <3>2, <3>3
  <2>6. ASSUME NEW sv \in Servers, NEW j \in Invoices, Take(sv, j) PROVE rows'[i].state = "succeeded" \/ i \in gone'
    BY <2>0, <2>6 DEF Take, DeliveryTypes, Row
  <2>7. ASSUME NEW sv \in Servers, Unclaim(sv) PROVE rows'[i].state = "succeeded" \/ i \in gone'
    BY <2>0, <2>7 DEF Unclaim, Row
  <2>8. ASSUME NEW t \in Permits, GiveUp(t) \/ RecordSuccess(t) \/ RecordFailure(t)
        PROVE  rows'[i].state = "succeeded" \/ i \in gone'
    <3> DEFINE j == task[t].invoice
    <3>1. j \in Invoices
      BY <2>0, <2>8, TaskFacts DEF GiveUp, RecordSuccess, RecordFailure, Doing
    <3>2. ASSUME NEW row, UpdateRow(t, row), i = j => row.state = "succeeded" \/ i \in gone'
          PROVE  rows'[i].state = "succeeded" \/ i \in gone'
      <4> DEFINE x == IF rows[j].id = task[t].id THEN row ELSE rows[j]
      <4>1. rows' = [rows EXCEPT ![j] = x] /\ (i = j => x = row \/ x = rows[i])
        BY <2>0, <3>1, <3>2 DEF UpdateRow, DeliveryTypes
      <4> HIDE DEF x
      <4> QED BY <2>3, <3>1, <3>2, <4>1
    <3>3. CASE GiveUp(t)
      <4>1. (i = j => i \in gone') /\ \E row : UpdateRow(t, row)
        BY <3>3 DEF GiveUp
      <4> QED BY <3>2, <4>1
    <3>4. CASE RecordSuccess(t)
      <4> DEFINE row == [rows[j] EXCEPT !.state = "succeeded", !.attempted = TRUE]
      <4>1. UpdateRow(t, row)
        BY <3>4 DEF RecordSuccess
      <4>2. row.state = "succeeded"
        BY <2>0, <3>1 DEF Row
      <4> HIDE DEF row
      <4> QED BY <3>2, <4>1, <4>2
    <3>5. CASE RecordFailure(t)
      <4>1. UpdateRow(t, Failed(j))
        BY <3>5 DEF RecordFailure
      <4>2. i = j => Failed(j).state = "succeeded"
        BY <2>0 DEF Failed, Row
      <4> QED BY <3>2, <4>1, <4>2
    <3> QED BY <2>8, <3>3, <3>4, <3>5
  <2>9. ASSUME NEW h \in Notices, (\E k \in Invoices : Notify(h, k)) \/ StorePreimage(h) \/ EnqueueReceipt(h) \/ Answer(h)
                                  \/ EnqueueWebhookFails(h) \/ HandlingFails(h)
        PROVE  UNCHANGED rows
    BY <2>9 DEF Notify, StorePreimage, EnqueueReceipt, Answer, EnqueueWebhookFails, HandlingFails, tableVars
  <2>10. ASSUME NEW sv \in Servers, UnclaimFails(sv) \/ RefreshConfig(sv) \/ Crash(sv) PROVE UNCHANGED rows
    BY <2>10 DEF UnclaimFails, RefreshConfig, Crash, tableVars
  <2>11. ASSUME NEW t \in Permits, GiveUpFails(t) \/ Send(t) \/ SendUnanswered(t) \/ SendFails(t) \/ RecordFails(t) PROVE UNCHANGED rows
    BY <2>11 DEF GiveUpFails, Send, SendUnanswered, SendFails, RecordFails, tableVars
  <2>12. ASSUME NEW d \in Domains, ChangeConfig(d) PROVE UNCHANGED rows
    BY <2>12 DEF ChangeConfig
  <2> QED
    BY <1>1, <2>1, <2>4, <2>5, <2>6, <2>7, <2>8, <2>9, <2>10, <2>11, <2>12 DEF NFNext, NoticeStep, TaskStep
<1>2. NoticesInv /\ DeliveriesInv /\ [NFNext]_nfVars => [Keeps]_nfVars
  BY <1>1
<1>3. NFSpec => [][NFNext]_nfVars
  BY DEF NFSpec
<1>4. SuccessStays <=> [][Keeps]_nfVars
  BY DEF SuccessStays
<1> HIDE DEF Keeps
<1> QED BY <1>2, <1>3, <1>4, DeliveriesAlways, PTL

-----------------------------------------------------------------------------
(* The two parts side by side: the tables' types, holds only on names      *)
(* nobody has, and a zap receipt for every notification that was answered. *)
THEOREM TablesStayOK == Spec => []TablesOK
<1> DEFINE Inv == NamesInv /\ ClaimsInv /\ LogInv /\ NoticesInv /\ DeliveriesInv
<1>1. Init => Inv
  BY NamesInit, ClaimsInit, LogInit, DeliveriesInit DEF Init
<1>2. [Next]_<<part, lnVars, nfVars>> => [LNNext]_lnVars /\ [NFNext]_nfVars
  BY DEF Next
<1>3. Inv /\ [Next]_<<part, lnVars, nfVars>> => Inv'
  BY <1>2, NamesNext, ClaimsNext, LogNext, NoticesNext, DeliveriesNext
<1>4. Inv => TablesOK
  <2> SUFFICES ASSUME Inv PROVE TablesOK
    OBVIOUS
  <2>1. LNTypeOK /\ HeldIsUnowned
    BY LNInvImplies
  <2>2. DeliveryTypes /\ AnsweredHasReceipt /\ preimages \subseteq Invoices /\ receipts \subseteq Invoices
    BY DEF DeliveriesInv, NoticesInv
  <2>3. acked \subseteq Invoices
    BY <2>2 DEF AnsweredHasReceipt
  <2>4. ASSUME NEW t \in Permits PROVE task[t].pc \in {"free", "config", "success", "failure"}
    <3>1. task[t].pc # "free" => task[t] \in Task
      BY <2>2, TaskFacts
    <3> QED BY <3>1 DEF Task
  <2>5. NFTypeOK
    BY <2>2, <2>3, <2>4 DEF NFTypeOK, DeliveryTypes, Row
  <2> QED BY <2>1, <2>2, <2>5 DEF TablesOK
<1> QED BY <1>1, <1>3, <1>4, PTL DEF Spec
=============================================================================
