------------------------- MODULE RealtimeSyncProofs -------------------------
(***************************************************************************)
(* Proofs about real-time sync for any clients, records, fields, local     *)
(* writes and faults: what a client takes for a version of a record is the *)
(* server's, no push undoes what another client wrote, a field with one    *)
(* writer never goes back to an older value at the server, and what a      *)
(* client has seen is in its relational table or queued for it.            *)
(***************************************************************************)
EXTENDS RealtimeSync, CollectionProofs

-----------------------------------------------------------------------------
(* Data, versions, rows and changes as sets. *)
Data == UNION {[S -> Nat] : S \in SUBSET Field}

Version == [rev : Nat, data : Data]
Entry   == [id : Record, data : Data]
Row     == [id : Record, rev : Nat, data : Data]
Change  == [id : Record, lrev : Nat, fields : Data]
Pending == [change : Change, parent : Version]

LEMMA DataIntro ==
    ASSUME NEW S, S \subseteq Field, NEW d \in [S -> Nat]
    PROVE  d \in Data
<1> QED BY DEF Data

LEMMA DataElim ==
    ASSUME NEW d \in Data
    PROVE  DOMAIN d \subseteq Field /\ d \in [DOMAIN d -> Nat] /\ IsData(d)
<1>1. PICK S \in SUBSET Field : d \in [S -> Nat]
  BY DEF Data
<1>2. DOMAIN d = S
  BY <1>1
<1> QED BY <1>1, <1>2 DEF IsData

LEMMA NoDataFacts == NoData \in Data /\ DOMAIN NoData = {} /\ NoVersion \in Version
<1>1. NoData \in [{} -> Nat] /\ DOMAIN NoData = {}
  BY DEF NoData
<1>2. NoData \in Data
  BY <1>1, DataIntro
<1> QED BY <1>1, <1>2 DEF NoVersion, Version

LEMMA OverlayFacts ==
    ASSUME NEW d \in Data, NEW e \in Data
    PROVE  /\ Overlay(d, e) \in Data
           /\ DOMAIN Overlay(d, e) = DOMAIN d \cup DOMAIN e
           /\ \A f \in DOMAIN e : Overlay(d, e)[f] = e[f]
           /\ \A f \in DOMAIN d \ DOMAIN e : Overlay(d, e)[f] = d[f]
<1> DEFINE S == DOMAIN d \cup DOMAIN e
<1>1. S \subseteq Field
  BY DataElim
<1>2. Overlay(d, e) \in [S -> Nat]
  BY DataElim DEF Overlay
<1>3. Overlay(d, e) \in Data
  BY <1>1, <1>2, DataIntro
<1>4. DOMAIN Overlay(d, e) = S
  BY DEF Overlay
<1> QED BY <1>3, <1>4 DEF Overlay

(* The maximum of a bounded set of naturals. *)
LEMMA MaxBounded ==
    ASSUME NEW S, S \subseteq Nat, S # {}, NEW u \in Nat, \A y \in S : y <= u
    PROVE  Max(S) \in S /\ \A y \in S : y <= Max(S)
<1> DEFINE U == {v \in Nat : \A y \in S : y <= v}
<1>1. PICK m \in U : \A v \in U : m <= v
  <2>1. U \subseteq Nat /\ U # {}
    OBVIOUS
  <2> HIDE DEF U
  <2> QED BY <2>1, NatMin
<1>2. m \in S
  <2> SUFFICES ASSUME m \notin S PROVE FALSE
    OBVIOUS
  <2>1. m \in Nat /\ \A y \in S : y \in Nat /\ y <= m /\ y # m
    BY <1>1
  <2>2. \A y \in S : y <= m - 1
    BY <2>1
  <2>3. m - 1 \in Nat
    <3>1. PICK y \in S : TRUE
      OBVIOUS
    <3>2. y \in Nat /\ y <= m /\ y # m /\ m \in Nat
      BY <2>1, <3>1
    <3> QED BY <3>2
  <2>4. m - 1 \in U
    BY <2>2, <2>3
  <2> QED BY <1>1, <2>1, <2>4
<1>3. \A y \in S : m >= y
  BY <1>1
<1>4. \E x \in S : \A y \in S : x >= y
  BY <1>2, <1>3
<1>5. Max(S) \in S /\ \A y \in S : Max(S) >= y
  BY <1>4 DEF Max
<1> QED BY <1>5

LEMMA MaxOfTwo ==
    ASSUME NEW m \in Nat, NEW n \in Nat
    PROVE  Max({m, n}) \in Nat
<1> DEFINE S == {m, n}
<1>1. S \subseteq Nat /\ S # {} /\ m + n \in Nat /\ \A y \in S : y <= m + n
  OBVIOUS
<1> HIDE DEF S
<1>2. Max(S) \in S
  BY <1>1, MaxBounded
<1> QED BY <1>1, <1>2 DEF S

-----------------------------------------------------------------------------
(* What the latest version of a record is. *)
Revs(r) == {i \in DOMAIN log : log[i].id = r}

LEMMA LatestFacts ==
    ASSUME log \in Seq(Entry), NEW r
    PROVE  \/ Revs(r) = {} /\ Latest(r) = NoVersion
           \/ /\ Latest(r).rev \in DOMAIN log
              /\ log[Latest(r).rev] = [id |-> r, data |-> Latest(r).data]
              /\ Latest(r).rev > 0
              /\ \A i \in DOMAIN log : log[i].id = r => i <= Latest(r).rev
              /\ Latest(r) \in Version
<1> DEFINE S == Revs(r)
<1>0. Len(log) \in Nat /\ DOMAIN log = 1 .. Len(log)
  OBVIOUS
<1>1. CASE S = {}
  BY <1>1 DEF Latest, Revs
<1>2. CASE S # {}
  <2>1. S \subseteq Nat /\ \A y \in S : y <= Len(log)
    BY <1>0 DEF Revs
  <2>2. Max(S) \in S /\ \A y \in S : y <= Max(S)
    <3> HIDE DEF S
    <3> QED BY <1>0, <1>2, <2>1, MaxBounded
  <2>3. Latest(r) = [rev |-> Max(S), data |-> log[Max(S)].data]
    BY <1>2 DEF Latest, Revs
  <2> DEFINE m == Max(S)
  <2>4. m \in 1 .. Len(log) /\ log[m].id = r /\ \A i \in DOMAIN log : log[i].id = r => i <= m
    BY <1>0, <2>2 DEF Revs
  <2> HIDE DEF m
  <2>5. Latest(r).rev = m /\ Latest(r).data = log[m].data
    BY <2>3 DEF m
  <2>6. log[m] \in Entry
    BY <2>4
  <2>7. log[m] = [id |-> r, data |-> log[m].data]
    BY <2>4, <2>6 DEF Entry
  <2>8. Latest(r) \in Version
    BY <2>3, <2>4, <2>6 DEF Version, Entry, m
  <2> QED BY <1>0, <2>4, <2>5, <2>7, <2>8
<1> QED BY <1>1, <1>2

-----------------------------------------------------------------------------
(* The types of all variables but the counters of faults. *)
TablesType ==
    /\ log \in Seq(Entry)
    /\ outgoing \in [Client -> Seq(Change)]
    /\ state \in [Client -> [Record -> Version]]
    /\ incoming \in [Client -> SUBSET Row]
    /\ \A c \in Client : IsFiniteSet(incoming[c])
    /\ cursor \in [Client -> Nat]
    /\ rel \in [Client -> [Record -> Data]]

LocalType ==
    /\ writing \in [Client -> SUBSET [id : Record, fields : Data]]
    /\ writes \in [Client -> Nat]

SignalsType ==
    /\ triggers \in [Client -> Nat]
    /\ note \in [Client -> BOOLEAN]
    /\ notified \in [Client -> BOOLEAN]
    /\ backoff \in [Client -> BOOLEAN]

PcSet == {"idle", "fetch", "local", "record", "apply", "remove", "push", "send", "complete", "down"}
ModeSet == {"none", "start", "init", "notify", "push", "backoff"}

LoopType ==
    /\ pc \in [Client -> PcSet]
    /\ mode \in [Client -> ModeSet]
    /\ todo \in [Client -> Seq(Row)]
    /\ overlay \in [Client -> Seq(Change)]
    /\ batch \in [Client -> Seq(Pending)]
    /\ reply \in [Client -> Nat]

SyncType == TablesType /\ LocalType /\ SignalsType /\ LoopType

(***************************************************************************)
(* What ties the loop of a client to the server's log.  A version, a row   *)
(* or a parent the client holds is the server's at that revision.          *)
(***************************************************************************)
TrueVersion(lg, v, r) ==
    \/ v = NoVersion
    \/ v.rev \in DOMAIN lg /\ lg[v.rev] = [id |-> r, data |-> v.data]

TrueRow(lg, i) == i.rev \in DOMAIN lg /\ lg[i.rev] = [id |-> i.id, data |-> i.data]

Shape(p, td, bt) ==
    /\ p \in {"record", "apply", "remove"} => td # <<>>
    /\ p \in {"send", "complete"} => bt # <<>>

Versions(lg, st, inc, td, bt) ==
    /\ \A r \in Record : TrueVersion(lg, st[r], r)
    /\ \A i \in inc : TrueRow(lg, i)
    /\ \A k \in DOMAIN td : TrueRow(lg, td[k])
    /\ \A k \in DOMAIN bt : TrueVersion(lg, bt[k].parent, bt[k].change.id)

Replied(lg, p, bt, rp) ==
    p = "complete" =>
        rp \in DOMAIN lg /\ lg[rp] = [id |-> Head(bt).change.id, data |-> Merge(Head(bt)).data]

(* The queue has its changes in the order of their numbers and of their    *)
(* values; a client writes only what it writes.                            *)
Queue(c, out, w) ==
    /\ \A i, j \in DOMAIN out : i < j => out[i].lrev < out[j].lrev
    /\ \A i \in DOMAIN out : \A f \in DOMAIN out[i].fields :
          <<c, out[i].id, f>> \in Writes /\ out[i].fields[f] <= w
    /\ \A i, j \in DOMAIN out : i < j =>
          \A f \in DOMAIN out[i].fields, g \in DOMAIN out[j].fields : out[i].fields[f] < out[j].fields[g]

(* What is still to push is queued, in the order of the queue, and no      *)
(* change of a record overtakes an earlier one of the same record.         *)
Batch(bt, out) ==
    /\ \A k \in DOMAIN bt : \E i \in DOMAIN out : out[i] = bt[k].change
    /\ \A j, k \in DOMAIN bt : j < k => bt[j].change.lrev < bt[k].change.lrev
    /\ \A k \in DOMAIN bt : \A i \in DOMAIN out :
          out[i].id = bt[k].change.id /\ out[i].lrev < bt[k].change.lrev =>
              \E j \in DOMAIN bt : j < k /\ bt[j].change = out[i]

ClientOK(c) ==
    /\ Shape(pc[c], todo[c], batch[c])
    /\ Versions(log, state[c], incoming[c], todo[c], batch[c])
    /\ Replied(log, pc[c], batch[c], reply[c])
    /\ Queue(c, outgoing[c], writes[c])
    /\ Batch(batch[c], outgoing[c])

SyncInv == SyncType /\ \A c \in Client : ClientOK(c)

(* The invariant contains what the run checks. *)
LEMMA SyncInvFacts ==
    ASSUME SyncInv
    PROVE  ClientsOK
<1> USE DEF SyncInv, SyncType, TablesType, LocalType, SignalsType, LoopType
<1>1. ASSUME NEW i \in DOMAIN log PROVE log[i].id \in Record /\ IsData(log[i].data)
  <2>1. log[i] \in Entry
    OBVIOUS
  <2> QED BY <2>1, DataElim DEF Entry
<1>2. ASSUME NEW c \in Client, NEW i \in DOMAIN outgoing[c]
      PROVE  outgoing[c][i].id \in Record /\ outgoing[c][i].lrev \in Nat /\ IsData(outgoing[c][i].fields)
  <2>1. outgoing[c][i] \in Change
    OBVIOUS
  <2> QED BY <2>1, DataElim DEF Change
<1>3. ASSUME NEW c \in Client, NEW r \in Record
      PROVE  state[c][r].rev \in Nat /\ IsData(state[c][r].data) /\ IsData(rel[c][r])
  <2>1. state[c][r] \in Version /\ rel[c][r] \in Data
    OBVIOUS
  <2> QED BY <2>1, DataElim DEF Version
<1>4. ASSUME NEW c \in Client, NEW i \in incoming[c]
      PROVE  i.id \in Record /\ i.rev \in Nat /\ IsData(i.data)
  <2>1. i \in Row
    OBVIOUS
  <2> QED BY <2>1, DataElim DEF Row
<1>5. TypeOK
  BY <1>1, <1>2, <1>3, <1>4 DEF TypeOK, PcSet, ModeSet
<1>6. StateIsServerVersion
  <2> SUFFICES ASSUME NEW c \in Client, NEW r \in Record, state[c][r].rev > 0
               PROVE  /\ state[c][r].rev \in DOMAIN log
                      /\ log[state[c][r].rev] = [id |-> r, data |-> state[c][r].data]
    BY DEF StateIsServerVersion
  <2>1. TrueVersion(log, state[c][r], r)
    BY DEF ClientOK, Versions
  <2>2. state[c][r] # NoVersion
    BY DEF NoVersion
  <2> QED BY <2>1, <2>2 DEF TrueVersion
<1> QED BY <1>5, <1>6 DEF ClientsOK

(* The initial state. *)
LEMMA SyncInit == Init => SyncInv
<1> SUFFICES ASSUME Init PROVE SyncInv
  OBVIOUS
<1> USE DEF Init
<1>1. TablesType
  BY NoDataFacts, FS_EmptySet DEF TablesType
<1>2. LocalType /\ SignalsType /\ LoopType
  BY DEF LocalType, SignalsType, LoopType, PcSet, ModeSet
<1>3. ASSUME NEW c \in Client PROVE ClientOK(c)
  <2>1. /\ pc[c] = "down" /\ todo[c] = <<>> /\ batch[c] = <<>> /\ incoming[c] = {} /\ outgoing[c] = <<>>
        /\ \A r \in Record : state[c][r] = NoVersion
    OBVIOUS
  <2> QED BY <2>1 DEF ClientOK, Shape, Versions, TrueVersion, Replied, Queue, Batch
<1> QED BY <1>1, <1>2, <1>3 DEF SyncInv, SyncType

-----------------------------------------------------------------------------
(* The other clients: nothing of theirs changes but their notification,    *)
(* and the log only grows.                                                 *)
Grows == log' = log \/ \E e \in Entry : log' = Append(log, e)

Frame(c) ==
    \A d \in Client \ {c} :
        /\ pc'[d] = pc[d] /\ todo'[d] = todo[d] /\ batch'[d] = batch[d] /\ reply'[d] = reply[d]
        /\ state'[d] = state[d] /\ incoming'[d] = incoming[d] /\ outgoing'[d] = outgoing[d]
        /\ writes'[d] = writes[d]

LEMMA GrowsFacts ==
    ASSUME log \in Seq(Entry), Grows
    PROVE  \A n \in DOMAIN log : n \in DOMAIN log' /\ log'[n] = log[n]
<1>1. CASE log' = log
  BY <1>1
<1>2. ASSUME NEW e \in Entry, log' = Append(log, e)
      PROVE  \A n \in DOMAIN log : n \in DOMAIN log' /\ log'[n] = log[n]
  BY <1>2
<1> QED BY <1>1, <1>2 DEF Grows

LEMMA VersionsGrow ==
    ASSUME NEW lg, NEW lg2, \A n \in DOMAIN lg : n \in DOMAIN lg2 /\ lg2[n] = lg[n],
           NEW st, NEW inc, NEW td, NEW bt, Versions(lg, st, inc, td, bt)
    PROVE  Versions(lg2, st, inc, td, bt)
<1>1. \A v, r : TrueVersion(lg, v, r) => TrueVersion(lg2, v, r)
  BY DEF TrueVersion
<1>2. \A i : TrueRow(lg, i) => TrueRow(lg2, i)
  BY DEF TrueRow
<1> QED BY <1>1, <1>2 DEF Versions

LEMMA OthersKeep ==
    ASSUME SyncInv, NEW c \in Client, Frame(c), Grows, ClientOK(c)', SyncType'
    PROVE  SyncInv'
<1>1. \A n \in DOMAIN log : n \in DOMAIN log' /\ log'[n] = log[n]
  BY GrowsFacts DEF SyncInv, SyncType, TablesType
<1>2. ASSUME NEW d \in Client, d # c PROVE ClientOK(d)'
  <2>1. ClientOK(d)
    BY DEF SyncInv
  <2>2. /\ pc'[d] = pc[d] /\ todo'[d] = todo[d] /\ batch'[d] = batch[d] /\ reply'[d] = reply[d]
        /\ state'[d] = state[d] /\ incoming'[d] = incoming[d] /\ outgoing'[d] = outgoing[d]
        /\ writes'[d] = writes[d]
    BY <1>2 DEF Frame
  <2>3. Versions(log', state'[d], incoming'[d], todo'[d], batch'[d])
    BY <1>1, <2>1, <2>2, VersionsGrow DEF ClientOK
  <2>4. Replied(log', pc'[d], batch'[d], reply'[d])
    BY <1>1, <2>1, <2>2 DEF ClientOK, Replied
  <2>5. Shape(pc'[d], todo'[d], batch'[d]) /\ Queue(d, outgoing'[d], writes'[d]) /\ Batch(batch'[d], outgoing'[d])
    BY <2>1, <2>2 DEF ClientOK
  <2> QED BY <2>3, <2>4, <2>5 DEF ClientOK
<1> QED BY <1>2 DEF SyncInv

-----------------------------------------------------------------------------
(* Steps that only read signals. *)
LEMMA SignalSteps ==
    ASSUME SyncInv, NEW c \in Client, OnNotification(c) \/ OnBackoff(c) \/ OnPush(c)
    PROVE  SyncInv'
<1> USE DEF SyncInv, SyncType, Set
<1>1. UNCHANGED <<tables, localVars, todo, overlay, batch, reply, log>> /\ pc'[c] \in {"fetch", "push"}
  BY DEF OnNotification, OnBackoff, OnPush, LoopType, tables, localVars
<1>2. TablesType' /\ LocalType'
  BY <1>1 DEF TablesType, LocalType, tables, localVars
<1>3. SignalsType'
  <2>1. CASE OnNotification(c)
    BY <2>1 DEF OnNotification, SignalsType
  <2>2. CASE OnBackoff(c)
    BY <2>2 DEF OnBackoff, SignalsType
  <2>3. CASE OnPush(c)
    <3>1. triggers[c] - 1 \in Nat /\ triggers' = [triggers EXCEPT ![c] = triggers[c] - 1]
      BY <2>3 DEF OnPush, SignalsType
    <3> QED BY <2>3, <3>1 DEF OnPush, SignalsType
  <2> QED BY <2>1, <2>2, <2>3
<1>4. LoopType'
  BY <1>1 DEF OnNotification, OnBackoff, OnPush, LoopType, PcSet, ModeSet
<1>5. Frame(c) /\ Grows
  BY <1>1 DEF OnNotification, OnBackoff, OnPush, LoopType, tables, localVars, Frame, Grows
<1>6. ClientOK(c)'
  BY <1>1 DEF ClientOK, tables, localVars, Shape, Replied
<1> QED BY <1>2, <1>3, <1>4, <1>5, <1>6, OthersKeep

(* What PullRest does, whatever the rows. *)
LEMMA PullRestFacts ==
    ASSUME LoopType, SignalsType, NEW c \in Client, NEW rest \in Seq(Row), NEW pending \in Seq(Change),
           PullRest(c, rest, pending)
    PROVE  /\ pc' \in [Client -> PcSet] /\ mode' \in [Client -> ModeSet]
           /\ todo' \in [Client -> Seq(Row)] /\ overlay' \in [Client -> Seq(Change)]
           /\ triggers' \in [Client -> Nat]
           /\ \A d \in Client \ {c} : pc'[d] = pc[d] /\ todo'[d] = todo[d]
           /\ todo'[c] = rest
           /\ pc'[c] \in {"record", "fetch", "idle", "push"}
           /\ pc'[c] = "record" => rest # <<>>
<1> USE DEF LoopType, SignalsType, Set, PcSet, ModeSet, PullRest
<1>0. todo' = [todo EXCEPT ![c] = rest] /\ todo' \in [Client -> Seq(Row)]
  OBVIOUS
<1>1. overlay' \in [Client -> Seq(Change)]
  <2>1. <<>> \in Seq(Change)
    OBVIOUS
  <2> QED BY <2>1
<1>2. CASE rest # <<>>
  <2>1. pc' = [pc EXCEPT ![c] = "record"] /\ mode' = mode /\ triggers' = triggers
    BY <1>2
  <2>2. pc' \in [Client -> PcSet] /\ pc'[c] = "record" /\ \A d \in Client \ {c} : pc'[d] = pc[d]
    BY <2>1
  <2>3. mode' \in [Client -> ModeSet] /\ triggers' \in [Client -> Nat]
    BY <2>1
  <2>4. todo'[c] = rest /\ \A d \in Client \ {c} : todo'[d] = todo[d]
    BY <1>0
  <2> QED BY <1>0, <1>1, <1>2, <2>2, <2>3, <2>4
<1>3. CASE rest = <<>>
  <2>1. pc' = [pc EXCEPT ![c] = CASE mode[c] = "start"              -> "fetch"
                                  [] mode[c] \in {"init", "notify"} -> "idle"
                                  [] OTHER                          -> "push"]
    BY <1>3
  <2>2. mode' = [mode EXCEPT ![c] = CASE mode[c] = "start"              -> "init"
                                      [] mode[c] \in {"init", "notify"} -> "none"
                                      [] OTHER                          -> mode[c]]
    BY <1>3
  <2>3. triggers' \in [Client -> Nat]
    <3>1. CASE mode[c] = "init"
      <4>1. triggers' = [triggers EXCEPT ![c] = 0]
        BY <1>3, <3>1
      <4> QED BY <4>1
    <3>2. CASE mode[c] # "init"
      <4>1. triggers' = triggers
        BY <1>3, <3>2
      <4> QED BY <4>1
    <3> QED BY <3>1, <3>2
  <2>4. mode[c] \in ModeSet /\ (mode[c] = "start" \/ mode[c] \in {"init", "notify"} \/ mode[c] \notin {"start", "init", "notify"})
    OBVIOUS
  <2>5. pc' \in [Client -> PcSet] /\ pc'[c] \in {"fetch", "idle", "push"} /\ \A d \in Client \ {c} : pc'[d] = pc[d]
    BY <2>1, <2>4
  <2>6. mode' \in [Client -> ModeSet]
    BY <2>2, <2>4
  <2> QED BY <1>0, <1>1, <2>3, <2>5, <2>6
<1> QED BY <1>2, <1>3

(* The latest version of a record is a row. *)
LEMMA ChangesFacts ==
    ASSUME log \in Seq(Entry), cursor \in [Client -> Nat], NEW c \in Client
    PROVE  /\ Changes(c) \subseteq Row
           /\ IsFiniteSet(Changes(c))
           /\ \A i \in Changes(c) : TrueRow(log, i)
<1>1. ASSUME NEW i \in Changes(c)
      PROVE  i \in Row /\ TrueRow(log, i)
  <2>1. PICK r \in Record : /\ Latest(r).rev > cursor[c]
                            /\ i = [id |-> r, rev |-> Latest(r).rev, data |-> Latest(r).data]
    BY DEF Changes
  <2>2. Latest(r) # NoVersion
    BY <2>1 DEF NoVersion
  <2>3. /\ Latest(r).rev \in DOMAIN log
        /\ log[Latest(r).rev] = [id |-> r, data |-> Latest(r).data]
        /\ Latest(r) \in Version
    BY <2>2, LatestFacts
  <2> QED BY <2>1, <2>3 DEF Row, Version, TrueRow
<1>2. IsFiniteSet(Changes(c))
  <2> DEFINE row(n) == [id |-> log[n].id, rev |-> n, data |-> log[n].data]
             D == {n \in DOMAIN log : row(n) \in Changes(c)}
             h == [n \in D |-> row(n)]
  <2>1. IsFiniteSet(DOMAIN log)
    <3>1. DOMAIN log = 1 .. Len(log) /\ Len(log) \in Nat
      OBVIOUS
    <3> QED BY <3>1, FS_Interval
  <2>2. IsFiniteSet(D)
    BY <2>1, FS_Subset
  <2>3. ASSUME NEW i \in Changes(c) PROVE \E n \in D : h[n] = i
    <3>1. i \in Row /\ i.rev \in DOMAIN log /\ log[i.rev] = [id |-> i.id, data |-> i.data]
      BY <1>1 DEF TrueRow
    <3>2. row(i.rev) = [id |-> i.id, rev |-> i.rev, data |-> i.data]
      BY <3>1
    <3>3. i = [id |-> i.id, rev |-> i.rev, data |-> i.data]
      BY <3>1 DEF Row
    <3>4. row(i.rev) = i
      BY <3>2, <3>3
    <3> QED BY <3>1, <3>4
  <2>4. h \in Surjection(D, Changes(c))
    BY <2>3 DEF Surjection
  <2> HIDE DEF D, h
  <2> QED BY <2>2, <2>4, FS_Surjection
<1> QED BY <1>1, <1>2

LEMMA FetchStep ==
    ASSUME SyncInv, NEW c \in Client, Fetch(c)
    PROVE  SyncInv'
<1> USE DEF SyncInv, SyncType, Set
<1> DEFINE new == Changes(c)
<1>0. new \subseteq Row /\ IsFiniteSet(new) /\ \A i \in new : TrueRow(log, i)
  BY ChangesFacts DEF TablesType
<1>00. incoming' = [incoming EXCEPT ![c] = incoming[c] \cup new]
  BY DEF Fetch
<1> HIDE DEF new
<1>1. UNCHANGED <<log, outgoing, state, cursor, rel, localVars, signals, mode, todo, overlay, batch, reply>>
  BY DEF Fetch
<1>2. pc' = [pc EXCEPT ![c] = "local"]
  BY DEF Fetch
<1>3. TablesType'
  <2>1. IsFiniteSet(incoming[c] \cup new)
    BY <1>0, FS_Union DEF TablesType
  <2>2. incoming' \in [Client -> SUBSET Row]
    BY <1>0, <1>00 DEF TablesType
  <2>3. \A d \in Client : IsFiniteSet(incoming'[d])
    BY <1>00, <2>1 DEF TablesType
  <2> QED BY <1>1, <2>2, <2>3 DEF TablesType
<1>4. LocalType' /\ SignalsType'
  BY <1>1 DEF LocalType, SignalsType, localVars, signals
<1>5. LoopType'
  BY <1>1, <1>2 DEF LoopType, PcSet
<1>6. Frame(c) /\ Grows
  BY <1>00, <1>1, <1>2 DEF LoopType, TablesType, localVars, Frame, Grows
<1>7. ClientOK(c)'
  <2>1. incoming'[c] = incoming[c] \cup new /\ pc'[c] = "local"
    BY <1>00, <1>2 DEF TablesType, LoopType
  <2>2. ClientOK(c)
    OBVIOUS
  <2>3. Versions(log, state[c], incoming'[c], todo[c], batch[c])
    BY <1>0, <2>1, <2>2 DEF ClientOK, Versions
  <2> QED BY <1>1, <2>1, <2>2, <2>3 DEF ClientOK, localVars, Shape, Replied
<1> QED BY <1>3, <1>4, <1>5, <1>6, <1>7, OthersKeep

LEMMA FetchFailsStep ==
    ASSUME SyncInv, NEW c \in Client, FetchFails(c)
    PROVE  SyncInv'
<1> USE DEF SyncInv, SyncType, Set
<1>1. UNCHANGED <<log, tables, localVars, note, notified, todo, overlay, batch, reply>>
  BY DEF FetchFails
<1>2. pc' = [pc EXCEPT ![c] = "idle"] /\ mode' = [mode EXCEPT ![c] = "none"]
  BY DEF FetchFails
<1>3. TablesType' /\ LocalType'
  BY <1>1 DEF TablesType, LocalType, tables, localVars
<1>4. SignalsType'
  <2>1. backoff' = [backoff EXCEPT ![c] = TRUE] \/ backoff' = backoff
    BY DEF FetchFails
  <2>2. triggers' = [triggers EXCEPT ![c] = 0] \/ triggers' = triggers
    BY DEF FetchFails
  <2>3. backoff' \in [Client -> BOOLEAN]
    BY <2>1 DEF SignalsType
  <2>4. triggers' \in [Client -> Nat]
    BY <2>2 DEF SignalsType
  <2> QED BY <1>1, <2>3, <2>4 DEF SignalsType
<1>5. LoopType'
  BY <1>1, <1>2 DEF LoopType, PcSet, ModeSet
<1>6. Frame(c) /\ Grows
  BY <1>1, <1>2 DEF LoopType, tables, localVars, Frame, Grows
<1>7. ClientOK(c)'
  BY <1>1, <1>2 DEF LoopType, ClientOK, tables, localVars, Shape, Replied
<1> QED BY <1>3, <1>4, <1>5, <1>6, <1>7, OthersKeep

(* A listing of finite rows is a sequence of them. *)
LEMMA ByRevisionFacts ==
    ASSUME NEW S, S \subseteq Row, IsFiniteSet(S), NEW s \in ByRevision(S)
    PROVE  s \in Seq(Row) /\ \A k \in DOMAIN s : s[k] \in S
<1>1. s \in SetToSeqs(S)
  BY DEF ByRevision
<1>2. Cardinality(S) \in Nat
  BY FS_CardinalityType
<1>3. s \in [1..Cardinality(S) -> S]
  BY <1>1 DEF SetToSeqs
<1> QED BY <1>2, <1>3

(* The rows that are left in memory are the server's. *)
LEMMA PullStep ==
    ASSUME SyncInv, NEW c \in Client, NEW rest \in Seq(Row), NEW pending \in Seq(Change),
           PullRest(c, rest, pending), \A k \in DOMAIN rest : TrueRow(log, rest[k]),
           UNCHANGED <<log, outgoing, state, cursor, rel, localVars, note, notified, backoff, batch, reply>>,
           incoming' = incoming \/ \E i : incoming' = [incoming EXCEPT ![c] = @ \ {i}]
    PROVE  SyncInv'
<1> USE DEF SyncInv, SyncType
<1>1. /\ pc' \in [Client -> PcSet] /\ mode' \in [Client -> ModeSet]
      /\ todo' \in [Client -> Seq(Row)] /\ overlay' \in [Client -> Seq(Change)]
      /\ triggers' \in [Client -> Nat]
      /\ \A d \in Client \ {c} : pc'[d] = pc[d] /\ todo'[d] = todo[d]
      /\ todo'[c] = rest
      /\ pc'[c] \in {"record", "fetch", "idle", "push"}
      /\ pc'[c] = "record" => rest # <<>>
  BY PullRestFacts
<1>2. /\ incoming' \in [Client -> SUBSET Row]
      /\ \A d \in Client : incoming'[d] \subseteq incoming[d]
      /\ \A d \in Client \ {c} : incoming'[d] = incoming[d]
  <2>1. CASE incoming' = incoming
    BY <2>1 DEF TablesType
  <2>2. ASSUME NEW i, incoming' = [incoming EXCEPT ![c] = @ \ {i}]
        PROVE  /\ incoming' \in [Client -> SUBSET Row]
               /\ \A d \in Client : incoming'[d] \subseteq incoming[d]
               /\ \A d \in Client \ {c} : incoming'[d] = incoming[d]
    BY <2>2 DEF TablesType
  <2> QED BY <2>1, <2>2
<1>3. TablesType'
  <2>1. \A d \in Client : IsFiniteSet(incoming'[d])
    BY <1>2, FS_Subset DEF TablesType
  <2> QED BY <1>2, <2>1 DEF TablesType
<1>4. LocalType' /\ SignalsType'
  BY <1>1 DEF LocalType, SignalsType, localVars
<1>5. LoopType'
  BY <1>1 DEF LoopType
<1>6. Frame(c) /\ Grows
  BY <1>1, <1>2 DEF localVars, Frame, Grows
<1>7. ClientOK(c)'
  <2>1. ClientOK(c)
    OBVIOUS
  <2>2. Versions(log', state'[c], incoming'[c], todo'[c], batch'[c])
    BY <1>1, <1>2, <2>1 DEF ClientOK, Versions
  <2>3. Shape(pc'[c], todo'[c], batch'[c]) /\ Replied(log', pc'[c], batch'[c], reply'[c])
    BY <1>1 DEF Shape, Replied
  <2> QED BY <2>1, <2>2, <2>3 DEF ClientOK, localVars
<1> QED BY <1>3, <1>4, <1>5, <1>6, <1>7, OthersKeep

LEMMA ReadIncomingStep ==
    ASSUME SyncInv, NEW c \in Client, ReadIncoming(c)
    PROVE  SyncInv'
<1> USE DEF SyncInv, SyncType
<1>1. PICK rows \in ByRevision(incoming[c]) : PullRest(c, rows, outgoing[c])
  BY DEF ReadIncoming
<1>2. rows \in Seq(Row) /\ \A k \in DOMAIN rows : rows[k] \in incoming[c]
  BY ByRevisionFacts DEF TablesType
<1>3. \A k \in DOMAIN rows : TrueRow(log, rows[k])
  BY <1>2 DEF ClientOK, Versions
<1>4. outgoing[c] \in Seq(Change)
  BY DEF TablesType
<1>5. UNCHANGED <<log, outgoing, state, cursor, rel, localVars, note, notified, backoff, batch, reply>>
      /\ incoming' = incoming
  BY DEF ReadIncoming, tables
<1> QED BY <1>1, <1>2, <1>3, <1>4, <1>5, PullStep

(* KeepIncoming and DeleteIncoming go on with the rest of the rows. *)
LEMMA NextRowSteps ==
    ASSUME SyncInv, NEW c \in Client, KeepIncoming(c) \/ DeleteIncoming(c)
    PROVE  SyncInv'
<1> USE DEF SyncInv, SyncType
<1> DEFINE rest == Tail(todo[c])
<1>1. todo[c] \in Seq(Row) /\ todo[c] # <<>> /\ overlay[c] \in Seq(Change)
  BY DEF KeepIncoming, DeleteIncoming, ClientOK, Shape, LoopType
<1>2. rest \in Seq(Row) /\ \A k \in DOMAIN rest : k + 1 \in DOMAIN todo[c] /\ rest[k] = todo[c][k + 1]
  BY <1>1
<1>3. \A k \in DOMAIN rest : TrueRow(log, rest[k])
  BY <1>2 DEF ClientOK, Versions
<1>4. PullRest(c, rest, overlay[c])
  BY DEF KeepIncoming, DeleteIncoming
<1>5. UNCHANGED <<log, outgoing, state, cursor, rel, localVars, note, notified, backoff, batch, reply>>
  BY DEF KeepIncoming, DeleteIncoming, tables
<1>6. incoming' = incoming \/ incoming' = [incoming EXCEPT ![c] = @ \ {Head(todo[c])}]
  BY DEF KeepIncoming, DeleteIncoming, tables
<1> HIDE DEF rest
<1> QED BY <1>1, <1>2, <1>3, <1>4, <1>5, <1>6, PullStep

LEMMA UpdateStateStep ==
    ASSUME SyncInv, NEW c \in Client, UpdateState(c)
    PROVE  SyncInv'
<1> USE DEF SyncInv, SyncType, Set
<1> DEFINE i == Head(todo[c])
           v == [rev |-> i.rev, data |-> i.data]
<1>1. UNCHANGED <<log, outgoing, incoming, rel, localVars, signals, mode, todo, overlay, batch, reply>>
  BY DEF UpdateState
<1>2. pc' = [pc EXCEPT ![c] = "apply"] /\ pc[c] = "record"
  BY DEF UpdateState
<1>3. todo[c] \in Seq(Row) /\ todo[c] # <<>> /\ ClientOK(c)
  BY <1>2 DEF ClientOK, Shape, LoopType
<1>4. i \in Row /\ TrueRow(log, i)
  <2>1. i = todo[c][1] /\ 1 \in DOMAIN todo[c] /\ todo[c][1] \in Row
    BY <1>3
  <2> QED BY <1>3, <2>1 DEF ClientOK, Versions
<1>5. /\ state' \in [Client -> [Record -> Version]]
      /\ \A d \in Client \ {c} : state'[d] = state[d]
      /\ \A r \in Record : state'[c][r] = state[c][r] \/ (r = i.id /\ state'[c][r] = v)
      /\ cursor' \in [Client -> Nat]
  <2>1. i.id \in Record /\ i.rev \in Nat /\ v \in Version
    BY <1>4 DEF Row, Version
  <2>2. CASE state[c][i.id].rev < i.rev
    <3>1. state' = [state EXCEPT ![c][i.id] = v]
      BY <2>2 DEF UpdateState
    <3>2. cursor' = [cursor EXCEPT ![c] = Max({cursor[c], i.rev})]
      BY <2>2 DEF UpdateState
    <3>3. Max({cursor[c], i.rev}) \in Nat
      BY <2>1, MaxOfTwo DEF TablesType
    <3> HIDE DEF v, i
    <3>4. cursor' \in [Client -> Nat]
      BY <3>2, <3>3 DEF TablesType
    <3> QED BY <2>1, <3>1, <3>4 DEF TablesType
  <2>3. CASE ~(state[c][i.id].rev < i.rev)
    <3>1. state' = state /\ cursor' = cursor
      BY <2>3 DEF UpdateState
    <3> QED BY <3>1 DEF TablesType
  <2> QED BY <2>2, <2>3
<1>6. TablesType' /\ LocalType' /\ SignalsType'
  BY <1>1, <1>5 DEF TablesType, LocalType, SignalsType, localVars, signals
<1>7. LoopType'
  BY <1>1, <1>2 DEF LoopType, PcSet
<1>8. Frame(c) /\ Grows
  BY <1>1, <1>2, <1>5 DEF LoopType, localVars, Frame, Grows
<1>9. ClientOK(c)'
  <2>1. ASSUME NEW r \in Record PROVE TrueVersion(log, state'[c][r], r)
    <3>1. CASE state'[c][r] = state[c][r]
      BY <1>3, <3>1 DEF ClientOK, Versions
    <3>2. CASE r = i.id /\ state'[c][r] = v
      BY <1>4, <3>2 DEF TrueRow, TrueVersion
    <3> QED BY <1>5, <3>1, <3>2
  <2>2. Versions(log, state'[c], incoming[c], todo[c], batch[c])
    BY <1>3, <2>1 DEF ClientOK, Versions
  <2>3. pc'[c] = "apply"
    BY <1>2 DEF LoopType
  <2> QED BY <1>1, <1>3, <2>2, <2>3 DEF ClientOK, localVars, Shape, Replied
<1> QED BY <1>6, <1>7, <1>8, <1>9, OthersKeep

(* Steps that write the relational table and move the loop. *)
LEMMA RelationalStep ==
    ASSUME SyncInv, NEW c \in Client, NEW r \in Record, NEW data \in Data, WriteTo(c, r, data)
    PROVE  rel' \in [Client -> [Record -> Data]]
<1>1. rel \in [Client -> [Record -> Data]]
  BY DEF SyncInv, SyncType, TablesType
<1> DEFINE o == Overlay(rel[c][r], data)
<1>2. o \in Data
  BY <1>1, OverlayFacts
<1>3. rel' = [rel EXCEPT ![c][r] = o]
  BY DEF WriteTo
<1> HIDE DEF o
<1> QED BY <1>1, <1>2, <1>3

LEMMA MergedFacts ==
    ASSUME NEW c \in Client, overlay[c] \in Seq(Change), NEW i \in Row
    PROVE  Merged(c, i) \in Data
<1> DEFINE setters(f) == {k \in DOMAIN overlay[c] : /\ overlay[c][k].id = i.id
                                                    /\ f \in DOMAIN overlay[c][k].fields}
           S == DOMAIN i.data \cup {f \in Field : setters(f) # {}}
           m == [f \in S |-> IF setters(f) = {} THEN i.data[f] ELSE overlay[c][Max(setters(f))].fields[f]]
<1>1. S \subseteq Field /\ i.data \in [DOMAIN i.data -> Nat]
  BY DataElim DEF Row
<1>2. ASSUME NEW f \in S PROVE m[f] \in Nat
  <2>1. CASE setters(f) = {}
    BY <1>1, <2>1
  <2>2. CASE setters(f) # {}
    <3>1. setters(f) \subseteq Nat /\ Len(overlay[c]) \in Nat /\ \A y \in setters(f) : y <= Len(overlay[c])
      OBVIOUS
    <3> DEFINE T == setters(f)
    <3>2. Max(T) \in T
      <4>1. T \subseteq Nat /\ T # {} /\ \A y \in T : y <= Len(overlay[c])
        BY <2>2, <3>1
      <4> HIDE DEF T
      <4> QED BY <3>1, <4>1, MaxBounded
    <3> DEFINE k == Max(T)
    <3>3. k \in DOMAIN overlay[c] /\ f \in DOMAIN overlay[c][k].fields
      BY <3>2
    <3> HIDE DEF k
    <3>4. overlay[c][k] \in Change
      BY <3>3
    <3>5. overlay[c][k].fields[f] \in Nat
      BY <3>3, <3>4, DataElim DEF Change
    <3>6. m[f] = overlay[c][k].fields[f]
      BY <2>2 DEF k
    <3> QED BY <3>5, <3>6
  <2> QED BY <2>1, <2>2
<1>3. Merged(c, i) = m
  BY DEF Merged
<1>4. m \in [S -> Nat]
  <2>1. m = [f \in S |-> m[f]]
    OBVIOUS
  <2> HIDE DEF m
  <2> QED BY <1>2, <2>1
<1> HIDE DEF S, m
<1> QED BY <1>1, <1>3, <1>4, DataIntro

LEMMA ApplyIncomingStep ==
    ASSUME SyncInv, NEW c \in Client, ApplyIncoming(c)
    PROVE  SyncInv'
<1> USE DEF SyncInv, SyncType, Set
<1> DEFINE i == Head(todo[c])
<1>1. UNCHANGED <<log, outgoing, state, incoming, cursor, localVars, signals, mode, todo, overlay, batch, reply>>
  BY DEF ApplyIncoming
<1>2. pc' = [pc EXCEPT ![c] = "remove"] /\ pc[c] = "apply" /\ WriteTo(c, i.id, Merged(c, i))
  BY DEF ApplyIncoming
<1>3. todo[c] \in Seq(Row) /\ todo[c] # <<>> /\ overlay[c] \in Seq(Change) /\ ClientOK(c)
  BY <1>2 DEF ClientOK, Shape, LoopType
<1>4. i \in Row /\ i.id \in Record
  <2>1. i \in Row
    BY <1>3, HeadTailProperties
  <2> QED BY <2>1 DEF Row
<1>5. rel' \in [Client -> [Record -> Data]]
  <2> HIDE DEF i
  <2>1. Merged(c, i) \in Data
    BY <1>3, <1>4, MergedFacts
  <2> QED BY <1>2, <1>4, <2>1, RelationalStep
<1>6. TablesType' /\ LocalType' /\ SignalsType'
  BY <1>1, <1>5 DEF TablesType, LocalType, SignalsType, localVars, signals
<1>7. LoopType'
  BY <1>1, <1>2 DEF LoopType, PcSet
<1>8. Frame(c) /\ Grows
  BY <1>1, <1>2 DEF LoopType, localVars, Frame, Grows
<1>9. ClientOK(c)'
  <2>1. pc'[c] = "remove"
    BY <1>2 DEF LoopType
  <2> QED BY <1>1, <1>3, <2>1 DEF ClientOK, localVars, Shape, Replied
<1> QED BY <1>6, <1>7, <1>8, <1>9, OthersKeep

LEMMA WriteRelationalStep ==
    ASSUME SyncInv, NEW c \in Client, NEW w, WriteRelational(c, w)
    PROVE  SyncInv'
<1> USE DEF SyncInv, SyncType
<1>1. UNCHANGED <<log, outgoing, state, incoming, cursor, writes, signals, loopVars>>
  BY DEF WriteRelational
<1>2. w \in writing[c] /\ WriteTo(c, w.id, w.fields) /\ writing' = [writing EXCEPT ![c] = writing[c] \ {w}]
  BY DEF WriteRelational
<1>3. w.id \in Record /\ w.fields \in Data
  <2>1. w \in [id : Record, fields : Data]
    BY <1>2 DEF LocalType
  <2> QED BY <2>1
<1>4. rel' \in [Client -> [Record -> Data]]
  BY <1>2, <1>3, RelationalStep
<1>5. TablesType' /\ LocalType' /\ SignalsType' /\ LoopType'
  BY <1>1, <1>2, <1>4 DEF TablesType, LocalType, SignalsType, LoopType, signals, loopVars
<1>6. Frame(c) /\ Grows /\ ClientOK(c)'
  BY <1>1 DEF loopVars, Frame, Grows, ClientOK
<1> QED BY <1>5, <1>6, OthersKeep

LEMMA StartStep ==
    ASSUME SyncInv, NEW c \in Client, Start(c)
    PROVE  SyncInv'
<1> USE DEF SyncInv, SyncType, Set
<1>1. UNCHANGED <<log, outgoing, state, incoming, cursor, localVars, signals, todo, overlay, batch, reply>>
  BY DEF Start
<1>2. pc' = [pc EXCEPT ![c] = "local"] /\ mode' = [mode EXCEPT ![c] = "start"]
  BY DEF Start
<1>3. rel' \in [Client -> [Record -> Data]]
  <2>1. CASE outgoing[c] = <<>>
    BY <2>1 DEF Start, TablesType
  <2>2. CASE outgoing[c] # <<>>
    <3> DEFINE o == Last(outgoing[c])
    <3>1. WriteTo(c, o.id, o.fields)
      BY <2>2 DEF Start
    <3>2. o \in Change
      <4>1. outgoing[c] \in Seq(Change)
        BY DEF TablesType
      <4>2. Len(outgoing[c]) \in DOMAIN outgoing[c]
        BY <2>2, <4>1
      <4> QED BY <4>1, <4>2 DEF Last
    <3> HIDE DEF o
    <3>3. o.id \in Record /\ o.fields \in Data
      BY <3>2 DEF Change
    <3> QED BY <3>1, <3>3, RelationalStep
  <2> QED BY <2>1, <2>2
<1>4. TablesType' /\ LocalType' /\ SignalsType'
  BY <1>1, <1>3 DEF TablesType, LocalType, SignalsType, localVars, signals
<1>5. LoopType'
  BY <1>1, <1>2 DEF LoopType, PcSet, ModeSet
<1>6. Frame(c) /\ Grows
  BY <1>1, <1>2 DEF LoopType, localVars, Frame, Grows
<1>7. ClientOK(c)'
  BY <1>1, <1>2 DEF LoopType, ClientOK, localVars, Shape, Replied
<1> QED BY <1>4, <1>5, <1>6, <1>7, OthersKeep

-----------------------------------------------------------------------------
(* The loop begins with, or goes on with, rest. *)
LEMMA PushRestFacts ==
    ASSUME LoopType, NEW c \in Client, NEW rest \in Seq(Pending), PushRest(c, rest)
    PROVE  /\ pc' \in [Client -> PcSet] /\ mode' \in [Client -> ModeSet] /\ batch' \in [Client -> Seq(Pending)]
           /\ \A d \in Client \ {c} : pc'[d] = pc[d] /\ batch'[d] = batch[d]
           /\ batch'[c] = rest
           /\ pc'[c] \in {"idle", "send"}
           /\ pc'[c] = "send" => rest # <<>>
<1> USE DEF LoopType, Set, PcSet, ModeSet, PushRest
<1>1. batch' = [batch EXCEPT ![c] = rest]
  OBVIOUS
<1>2. CASE rest = <<>>
  <2>1. pc' = [pc EXCEPT ![c] = "idle"] /\ mode' = [mode EXCEPT ![c] = "none"]
    BY <1>2
  <2> QED BY <1>1, <1>2, <2>1
<1>3. CASE rest # <<>>
  <2>1. pc' = [pc EXCEPT ![c] = "send"] /\ mode' = mode
    BY <1>3
  <2> QED BY <1>1, <1>3, <2>1
<1> QED BY <1>2, <1>3

(* s is the queue with the parents, T does not tell apart two changes of   *)
(* one record.                                                             *)
IsPending(s, out, st) ==
    /\ s \in Seq(Pending) /\ Len(s) = Len(out)
    /\ \A i \in DOMAIN out : s[i].change = out[i] /\ s[i].parent = st[out[i].id]

ByRecord(T, s, out) ==
    \A i, j \in DOMAIN out : out[i].id = out[j].id /\ s[i] \in T => s[j] \in T

(* A selection by record of the queue. *)
LEMMA SelectionIsBatch ==
    ASSUME NEW c, NEW w, NEW out \in Seq(Change), Queue(c, out, w),
           NEW s, NEW st, IsPending(s, out, st), NEW T, ByRecord(T, s, out),
           NEW q \in Seq(Pending), SelectedOK(q, s, T, Len(s))
    PROVE  /\ Batch(q, out)
           /\ \A k \in DOMAIN q : q[k].parent = st[q[k].change.id] /\ q[k].change.id \in Record
<1>0. DOMAIN out = 1 .. Len(out) /\ Len(out) \in Nat /\ \A i \in DOMAIN out : out[i] \in Change
  OBVIOUS
<1>1. \A i \in DOMAIN out : out[i].id \in Record /\ out[i].lrev \in Nat
  BY <1>0 DEF Change
<1>5. DOMAIN q = 1 .. Len(q) /\ Len(q) \in Nat
  OBVIOUS
<1>2. Len(s) = Len(out) /\ \A i \in DOMAIN out : s[i].change = out[i] /\ s[i].parent = st[out[i].id]
  BY DEF IsPending
<1>3. \A i, j \in DOMAIN out : i < j => out[i].lrev < out[j].lrev
  BY DEF Queue
<1>4. \A x, y \in 1 .. Len(q) : x < y => \E a, b \in 1 .. Len(s) : a < b /\ q[x] = s[a] /\ q[y] = s[b]
  BY DEF SelectedOK
<1>6. \A k \in DOMAIN q : q[k] \in T /\ \E i \in DOMAIN out : q[k] = s[i]
  BY <1>0, <1>2, <1>5 DEF SelectedOK
<1>7. ASSUME NEW j \in DOMAIN q, NEW k \in DOMAIN q, j < k
      PROVE  q[j].change.lrev < q[k].change.lrev
  <2>1. PICK a, b \in 1 .. Len(s) : a < b /\ q[j] = s[a] /\ q[k] = s[b]
    <3>1. j \in 1 .. Len(q) /\ k \in 1 .. Len(q)
      BY <1>5
    <3> QED BY <1>4, <1>7, <3>1
  <2>2. a \in DOMAIN out /\ b \in DOMAIN out
    BY <1>0, <1>2, <2>1
  <2> QED BY <1>2, <1>3, <2>1, <2>2
<1>8. ASSUME NEW k \in DOMAIN q, NEW i \in DOMAIN out,
             out[i].id = q[k].change.id, out[i].lrev < q[k].change.lrev
      PROVE  \E j \in DOMAIN q : j < k /\ q[j].change = out[i]
  <2>1. PICK a \in DOMAIN out : q[k] = s[a] /\ s[a] \in T
    BY <1>6
  <2>2. s[i] \in T
    BY <1>2, <1>8, <2>1 DEF ByRecord
  <2>3. PICK j \in 1 .. Len(q) : q[j] = s[i]
    BY <1>0, <1>2, <2>2 DEF SelectedOK
  <2>4. q[j].change = out[i] /\ j \in DOMAIN q
    BY <1>2, <1>5, <2>3
  <2>5. q[j].change.lrev \in Nat /\ q[k].change.lrev \in Nat
    BY <1>1, <1>2, <2>1, <2>4
  <2>6. ~(k < j) /\ k # j
    BY <1>7, <1>8, <2>4, <2>5
  <2>7. j < k
    BY <1>5, <2>4, <2>6
  <2> QED BY <2>4, <2>7
<1>9. \A k \in DOMAIN q : /\ \E i \in DOMAIN out : out[i] = q[k].change
                          /\ q[k].parent = st[q[k].change.id] /\ q[k].change.id \in Record
  BY <1>1, <1>2, <1>6
<1> QED BY <1>7, <1>8, <1>9 DEF Batch

LEMMA PendingFacts ==
    ASSUME NEW c \in Client, outgoing[c] \in Seq(Change), state[c] \in [Record -> Version]
    PROVE  IsPending(PendingChanges(c), outgoing[c], state[c])
<1> DEFINE out == outgoing[c]
           st == state[c]
           s == PendingChanges(c)
<1>0. s = [i \in DOMAIN out |-> [change |-> out[i], parent |-> st[out[i].id]]]
  BY DEF PendingChanges
<1>1. DOMAIN out = 1 .. Len(out) /\ Len(out) \in Nat /\ out \in Seq(Change) /\ st \in [Record -> Version]
  OBVIOUS
<1> HIDE DEF out, st, s
<1>2. ASSUME NEW i \in DOMAIN out
      PROVE  s[i] \in Pending /\ s[i].change = out[i] /\ s[i].parent = st[out[i].id]
  <2>1. out[i] \in Change
    BY <1>1
  <2>2. st[out[i].id] \in Version
    BY <1>1, <2>1 DEF Change
  <2> QED BY <1>0, <2>1, <2>2 DEF Pending
<1>3. s \in Seq(Pending) /\ Len(s) = Len(out)
  BY <1>0, <1>1, <1>2
<1>4. IsPending(s, out, st)
  BY <1>2, <1>3 DEF IsPending
<1> QED BY <1>4 DEF s, out, st

LEMMA ReadOutgoingStep ==
    ASSUME SyncInv, NEW c \in Client, ReadOutgoing(c)
    PROVE  SyncInv'
<1> USE DEF SyncInv, SyncType
<1> DEFINE s == PendingChanges(c)
           T == {o \in ToSet(s) : \A i \in incoming[c] : i.id # o.change.id}
           q == SelectIn(s, T)
<1>1. UNCHANGED <<log, tables, localVars, signals, todo, overlay, reply>> /\ PushRest(c, q)
  BY DEF ReadOutgoing
<1>2. ClientOK(c) /\ outgoing[c] \in Seq(Change) /\ state[c] \in [Record -> Version]
  BY DEF TablesType
<1>3. IsPending(s, outgoing[c], state[c])
  BY <1>2, PendingFacts
<1>4. ByRecord(T, s, outgoing[c])
  <2> SUFFICES ASSUME NEW i \in DOMAIN outgoing[c], NEW j \in DOMAIN outgoing[c],
                      outgoing[c][i].id = outgoing[c][j].id, s[i] \in T
               PROVE  s[j] \in T
    BY DEF ByRecord
  <2>1. s[i].change = outgoing[c][i] /\ s[j].change = outgoing[c][j]
    BY <1>3 DEF IsPending
  <2>2. j \in DOMAIN s
    BY <1>2, <1>3 DEF IsPending
  <2>3. s[j] \in ToSet(s)
    BY <2>2 DEF ToSet
  <2> QED BY <2>1, <2>3
<1> HIDE DEF s, T
<1>5. q \in Seq(Pending) /\ SelectedOK(q, s, T, Len(s))
  <2>1. s \in Seq(Pending)
    BY <1>3 DEF IsPending
  <2> QED BY <2>1, SelectInFacts
<1> HIDE DEF q
<1>6. /\ Batch(q, outgoing[c])
      /\ \A k \in DOMAIN q : q[k].parent = state[c][q[k].change.id] /\ q[k].change.id \in Record
  <2>1. Queue(c, outgoing[c], writes[c])
    BY <1>2 DEF ClientOK
  <2> QED BY <1>2, <1>3, <1>4, <1>5, <2>1, SelectionIsBatch
<1>7. /\ pc' \in [Client -> PcSet] /\ mode' \in [Client -> ModeSet] /\ batch' \in [Client -> Seq(Pending)]
      /\ \A d \in Client \ {c} : pc'[d] = pc[d] /\ batch'[d] = batch[d]
      /\ batch'[c] = q
      /\ pc'[c] \in {"idle", "send"}
      /\ pc'[c] = "send" => q # <<>>
  BY <1>1, <1>5, PushRestFacts
<1>8. TablesType' /\ LocalType' /\ SignalsType' /\ LoopType'
  BY <1>1, <1>7 DEF TablesType, LocalType, SignalsType, LoopType, tables, localVars, signals
<1>9. Frame(c) /\ Grows
  BY <1>1, <1>7 DEF tables, localVars, Frame, Grows
<1>10. ClientOK(c)'
  <2>1. Versions(log, state[c], incoming[c], todo[c], q)
    BY <1>2, <1>6 DEF ClientOK, Versions
  <2> QED BY <1>1, <1>2, <1>6, <1>7, <2>1 DEF ClientOK, tables, localVars, Shape, Replied
<1> QED BY <1>8, <1>9, <1>10, OthersKeep

(* The first change of the batch, merged. *)
LEMMA HeadFacts ==
    ASSUME SyncInv, NEW c \in Client, pc[c] \in {"send", "complete"}, NEW o, o = Head(batch[c])
    PROVE  /\ batch[c] \in Seq(Pending) /\ batch[c] # <<>> /\ 1 \in DOMAIN batch[c] /\ o = batch[c][1]
           /\ o \in Pending /\ o.change \in Change /\ o.change.id \in Record /\ o.change.lrev \in Nat
           /\ o.change.fields \in Data /\ o.parent \in Version /\ o.parent.data \in Data
           /\ Merge(o).id = o.change.id /\ Merge(o).rev = o.parent.rev
           /\ Merge(o).data = Overlay(o.parent.data, o.change.fields)
           /\ Merge(o).data \in Data
<1>1. batch[c] \in Seq(Pending) /\ batch[c] # <<>>
  BY DEF SyncInv, SyncType, LoopType, ClientOK, Shape
<1>2. 1 \in DOMAIN batch[c] /\ o = batch[c][1] /\ o \in Pending
  BY <1>1
<1>3. o.change \in Change /\ o.parent \in Version
  BY <1>2 DEF Pending
<1>4. /\ o.change.id \in Record /\ o.change.lrev \in Nat /\ o.change.fields \in Data
      /\ o.parent.data \in Data
  BY <1>3 DEF Change, Version
<1>5. Merge(o).id = o.change.id /\ Merge(o).rev = o.parent.rev
      /\ Merge(o).data = Overlay(o.parent.data, o.change.fields)
  BY DEF Merge
<1>6. Overlay(o.parent.data, o.change.fields) \in Data
  BY <1>4, OverlayFacts
<1> QED BY <1>1, <1>2, <1>3, <1>4, <1>5, <1>6

(* What the server's acceptance does. *)
LEMMA AcceptFacts ==
    ASSUME SyncInv, NEW c \in Client, pc[c] = "send", NEW o, o = Head(batch[c]), Accept(c, Merge(o))
    PROVE  /\ log' = Append(log, [id |-> o.change.id, data |-> Merge(o).data])
           /\ [id |-> o.change.id, data |-> Merge(o).data] \in Entry
           /\ o.parent.rev = Latest(o.change.id).rev
           /\ Grows /\ log' \in Seq(Entry) /\ note' \in [Client -> BOOLEAN]
<1>1. o.change.id \in Record /\ Merge(o).data \in Data /\ Merge(o).id = o.change.id /\ Merge(o).rev = o.parent.rev
  BY HeadFacts
<1> DEFINE e == [id |-> o.change.id, data |-> Merge(o).data]
<1>2. log' = Append(log, e) /\ o.parent.rev = Latest(o.change.id).rev
  BY <1>1 DEF Accept
<1>3. e \in Entry
  BY <1>1 DEF Entry
<1>4. note' \in [Client -> BOOLEAN]
  BY DEF Accept
<1> HIDE DEF e
<1>5. Grows
  BY <1>2, <1>3 DEF Grows
<1>6. log' \in Seq(Entry)
  BY <1>2, <1>3 DEF SyncInv, SyncType, TablesType
<1> QED BY <1>2, <1>3, <1>4, <1>5, <1>6 DEF e

(* The push ends with an error. *)
LEMMA PushEndsStep ==
    ASSUME SyncInv, NEW c \in Client, Grows, log' \in Seq(Entry), note' \in [Client -> BOOLEAN],
           PushFails(c), UNCHANGED <<tables, localVars, triggers, notified, todo, overlay>>
    PROVE  SyncInv'
<1> USE DEF SyncInv, SyncType
<1> DEFINE none == <<>>
<1>1. PushRest(c, none) /\ none \in Seq(Pending) /\ reply' = reply /\ none = <<>>
  BY DEF PushFails
<1> HIDE DEF none
<1>2. /\ pc' \in [Client -> PcSet] /\ mode' \in [Client -> ModeSet] /\ batch' \in [Client -> Seq(Pending)]
      /\ \A d \in Client \ {c} : pc'[d] = pc[d] /\ batch'[d] = batch[d]
      /\ batch'[c] = none
      /\ pc'[c] = "idle"
  BY <1>1, PushRestFacts
<1>3. backoff' \in [Client -> BOOLEAN]
  BY DEF PushFails, Set, SignalsType
<1>4. TablesType' /\ LocalType' /\ SignalsType' /\ LoopType'
  BY <1>1, <1>2, <1>3 DEF TablesType, LocalType, SignalsType, LoopType, tables, localVars
<1>5. Frame(c)
  BY <1>1, <1>2 DEF tables, localVars, Frame
<1>6. ClientOK(c)'
  <2>1. ClientOK(c) /\ batch'[c] = <<>> /\ pc'[c] = "idle"
    BY <1>1, <1>2
  <2>2. Versions(log', state[c], incoming[c], todo[c], batch[c])
    <3>1. \A n \in DOMAIN log : n \in DOMAIN log' /\ log'[n] = log[n]
      BY GrowsFacts DEF TablesType
    <3> QED BY <2>1, <3>1, VersionsGrow DEF ClientOK
  <2>3. Versions(log', state[c], incoming[c], todo[c], batch'[c])
    BY <2>1, <2>2 DEF Versions
  <2>4. Batch(batch'[c], outgoing[c])
    BY <2>1 DEF Batch
  <2> QED BY <2>1, <2>3, <2>4 DEF ClientOK, tables, localVars, Shape, Replied
<1> QED BY <1>4, <1>5, <1>6, OthersKeep

LEMMA PushRecordStep ==
    ASSUME SyncInv, NEW c \in Client, PushRecord(c)
    PROVE  SyncInv'
<1> USE DEF SyncInv, SyncType
<1> DEFINE o == Head(batch[c])
<1>1. UNCHANGED <<tables, localVars, triggers, notified, todo, overlay>> /\ pc[c] = "send"
  BY DEF PushRecord
<1>2. CASE /\ Accept(c, Merge(o))
           /\ reply' = Set(reply, c, Len(log'))
           /\ pc' = Set(pc, c, "complete")
           /\ UNCHANGED <<backoff, mode, batch, faults>>
  <2> DEFINE e == [id |-> o.change.id, data |-> Merge(o).data]
  <2>1. log' = Append(log, e) /\ e \in Entry /\ Grows /\ log' \in Seq(Entry) /\ note' \in [Client -> BOOLEAN]
    BY <1>1, <1>2, AcceptFacts
  <2>2. Len(log') \in DOMAIN log' /\ log'[Len(log')] = e /\ Len(log') \in Nat
    <3> HIDE DEF e
    <3> QED BY <2>1 DEF TablesType
  <2>3. TablesType' /\ LocalType' /\ SignalsType'
    BY <1>1, <1>2, <2>1 DEF TablesType, LocalType, SignalsType, tables, localVars
  <2>4. LoopType'
    BY <1>1, <1>2, <2>2 DEF LoopType, PcSet, Set
  <2>5. Frame(c)
    BY <1>1, <1>2 DEF LoopType, Set, tables, localVars, Frame
  <2>6. ClientOK(c)'
    <3>1. ClientOK(c) /\ pc'[c] = "complete" /\ reply'[c] = Len(log') /\ batch[c] # <<>>
      BY <1>1, <1>2 DEF LoopType, Set, ClientOK, Shape
    <3>2. Versions(log', state[c], incoming[c], todo[c], batch[c])
      <4>1. \A n \in DOMAIN log : n \in DOMAIN log' /\ log'[n] = log[n]
        BY <2>1, GrowsFacts DEF TablesType
      <4> QED BY <3>1, <4>1, VersionsGrow DEF ClientOK
    <3>3. Replied(log', pc'[c], batch[c], reply'[c])
      BY <2>2, <3>1 DEF Replied
    <3>4. Shape(pc'[c], todo[c], batch[c])
      BY <3>1 DEF Shape
    <3> QED BY <1>1, <1>2, <3>1, <3>2, <3>3, <3>4 DEF ClientOK, tables, localVars
  <2> QED BY <2>1, <2>3, <2>4, <2>5, <2>6, OthersKeep
<1>3. CASE Accept(c, Merge(o)) /\ Fault("retried") /\ PushFails(c)
  <2>1. Grows /\ log' \in Seq(Entry) /\ note' \in [Client -> BOOLEAN]
    BY <1>1, <1>3, AcceptFacts
  <2> QED BY <1>1, <1>3, <2>1, PushEndsStep
<1>4. CASE Fault("retried") /\ PushFails(c) /\ UNCHANGED <<log, note>>
  <2>1. Grows /\ log' \in Seq(Entry) /\ note' \in [Client -> BOOLEAN]
    BY <1>4 DEF Grows, TablesType, SignalsType
  <2> QED BY <1>1, <1>4, <2>1, PushEndsStep
<1> QED BY <1>2, <1>3, <1>4 DEF PushRecord

LEMMA PushConflictStep ==
    ASSUME SyncInv, NEW c \in Client, PushConflict(c)
    PROVE  SyncInv'
<1>1. /\ PushFails(c) /\ log' = log /\ note' = note
      /\ UNCHANGED <<tables, localVars, triggers, notified, todo, overlay>>
  BY DEF PushConflict
<1>2. Grows /\ log' \in Seq(Entry) /\ note' \in [Client -> BOOLEAN]
  BY <1>1 DEF Grows, SyncInv, SyncType, TablesType, SignalsType
<1> QED BY <1>1, <1>2, PushEndsStep

(* q has the changes of out but x. *)
Removed(q, out, x) ==
    /\ \A i \in DOMAIN q : /\ \E j \in DOMAIN out : q[i] = out[j]
                           /\ q[i].id # x.id \/ q[i].lrev # x.lrev
    /\ \A j \in DOMAIN out : out[j].id # x.id \/ out[j].lrev # x.lrev => \E i \in DOMAIN q : q[i] = out[j]

(* Deleting a change keeps the order of the queue and its other changes. *)
LEMMA WithoutChangeFacts ==
    ASSUME NEW c, NEW w, NEW out \in Seq(Change), Queue(c, out, w), NEW x
    PROVE  /\ WithoutChange(out, x) \in Seq(Change)
           /\ Queue(c, WithoutChange(out, x), w)
           /\ Removed(WithoutChange(out, x), out, x)
<1> DEFINE T == {y \in ToSet(out) : y.id # x.id \/ y.lrev # x.lrev}
           q == WithoutChange(out, x)
<1>0. q = SelectIn(out, T)
  BY DEF WithoutChange
<1>1. /\ \A y \in T : y.id # x.id \/ y.lrev # x.lrev
      /\ \A j \in DOMAIN out : out[j].id # x.id \/ out[j].lrev # x.lrev => out[j] \in T
  BY DEF ToSet
<1> HIDE DEF T, q
<1>2. q \in Seq(Change) /\ SelectedOK(q, out, T, Len(out))
  BY <1>0, SelectInFacts
<1>3. DOMAIN q = 1 .. Len(q) /\ DOMAIN out = 1 .. Len(out)
  BY <1>2
<1>4. \A i \in DOMAIN q : q[i] \in T /\ \E j \in DOMAIN out : q[i] = out[j]
  BY <1>2, <1>3 DEF SelectedOK
<1>5. \A j \in DOMAIN out : out[j] \in T => \E i \in DOMAIN q : q[i] = out[j]
  BY <1>2, <1>3 DEF SelectedOK
<1>6. \A i, j \in DOMAIN q : i < j => \E a, b \in DOMAIN out : a < b /\ q[i] = out[a] /\ q[j] = out[b]
  <2>1. \A i, j \in 1 .. Len(q) : i < j => \E a, b \in 1 .. Len(out) : a < b /\ q[i] = out[a] /\ q[j] = out[b]
    BY <1>2 DEF SelectedOK
  <2> SUFFICES ASSUME NEW i \in DOMAIN q, NEW j \in DOMAIN q, i < j
               PROVE  \E a, b \in DOMAIN out : a < b /\ q[i] = out[a] /\ q[j] = out[b]
    OBVIOUS
  <2>2. i \in 1 .. Len(q) /\ j \in 1 .. Len(q)
    BY <1>3
  <2>3. PICK a, b \in 1 .. Len(out) : a < b /\ q[i] = out[a] /\ q[j] = out[b]
    BY <2>1, <2>2
  <2> QED BY <1>3, <2>3
<1>7. Queue(c, q, w)
  <2>1. ASSUME NEW i \in DOMAIN q, NEW j \in DOMAIN q, i < j
        PROVE  /\ q[i].lrev < q[j].lrev
               /\ \A f \in DOMAIN q[i].fields, g \in DOMAIN q[j].fields : q[i].fields[f] < q[j].fields[g]
    <3>1. PICK a, b \in DOMAIN out : a < b /\ q[i] = out[a] /\ q[j] = out[b]
      BY <1>6, <2>1
    <3>2. /\ out[a].lrev < out[b].lrev
          /\ \A f \in DOMAIN out[a].fields, g \in DOMAIN out[b].fields : out[a].fields[f] < out[b].fields[g]
      BY <3>1 DEF Queue
    <3> QED BY <3>1, <3>2
  <2>2. ASSUME NEW i \in DOMAIN q, NEW f \in DOMAIN q[i].fields
        PROVE  <<c, q[i].id, f>> \in Writes /\ q[i].fields[f] <= w
    <3>1. PICK j \in DOMAIN out : q[i] = out[j]
      BY <1>4
    <3> QED BY <3>1 DEF Queue
  <2> QED BY <2>1, <2>2 DEF Queue
<1>8. Removed(q, out, x)
  BY <1>1, <1>4, <1>5 DEF Removed
<1> QED BY <1>2, <1>7, <1>8 DEF q

(* The rest of the batch is still in the queue without the first change. *)
LEMMA BatchTail ==
    ASSUME NEW bt \in Seq(Pending), bt # <<>>, NEW out, NEW q,
           Batch(bt, out), Removed(q, out, bt[1].change)
    PROVE  Batch(Tail(bt), q)
<1> DEFINE tl == Tail(bt)
           x == bt[1].change
<1>00. /\ \A i \in DOMAIN q : /\ \E j \in DOMAIN out : q[i] = out[j]
                              /\ q[i].id # x.id \/ q[i].lrev # x.lrev
       /\ \A j \in DOMAIN out : out[j].id # x.id \/ out[j].lrev # x.lrev => \E i \in DOMAIN q : q[i] = out[j]
  BY DEF Removed
<1>0. /\ 1 \in DOMAIN bt /\ Len(bt) \in Nat /\ DOMAIN bt = 1 .. Len(bt)
      /\ \A k \in DOMAIN bt : bt[k] \in Pending
      /\ tl \in Seq(Pending)
      /\ \A k \in DOMAIN tl : k \in Nat /\ k + 1 \in DOMAIN bt /\ 1 < k + 1 /\ tl[k] = bt[k + 1]
      /\ \A k \in DOMAIN bt : k # 1 => k - 1 \in DOMAIN tl /\ tl[k - 1] = bt[k]
  OBVIOUS
<1> HIDE DEF tl
<1>1. /\ \A k \in DOMAIN bt : \E i \in DOMAIN out : out[i] = bt[k].change
      /\ \A j, k \in DOMAIN bt : j < k => bt[j].change.lrev < bt[k].change.lrev
      /\ \A k \in DOMAIN bt : \A i \in DOMAIN out :
            out[i].id = bt[k].change.id /\ out[i].lrev < bt[k].change.lrev =>
                \E j \in DOMAIN bt : j < k /\ bt[j].change = out[i]
  BY DEF Batch
<1>2. \A k \in DOMAIN bt : bt[k].change.lrev \in Nat
  BY <1>0 DEF Pending, Change
<1>3. ASSUME NEW k \in DOMAIN tl PROVE \E i \in DOMAIN q : q[i] = tl[k].change
  <2>1. PICK i \in DOMAIN out : out[i] = bt[k + 1].change
    BY <1>0, <1>1
  <2>2. x.lrev < out[i].lrev /\ x.lrev \in Nat /\ out[i].lrev \in Nat
    BY <1>0, <1>1, <1>2, <2>1
  <2>3. out[i].lrev # x.lrev
    BY <2>2
  <2> QED BY <1>0, <1>00, <2>1, <2>3
<1>4. ASSUME NEW j \in DOMAIN tl, NEW k \in DOMAIN tl, j < k
      PROVE  tl[j].change.lrev < tl[k].change.lrev
  <2>1. j + 1 < k + 1
    BY <1>0, <1>4
  <2> QED BY <1>0, <1>1, <2>1
<1>5. ASSUME NEW k \in DOMAIN tl, NEW i \in DOMAIN q,
             q[i].id = tl[k].change.id, q[i].lrev < tl[k].change.lrev
      PROVE  \E j \in DOMAIN tl : j < k /\ tl[j].change = q[i]
  <2>1. PICK n \in DOMAIN out : q[i] = out[n]
    BY <1>00
  <2>2. k + 1 \in DOMAIN bt /\ tl[k] = bt[k + 1]
    BY <1>0
  <2>3. PICK j \in DOMAIN bt : j < k + 1 /\ bt[j].change = out[n]
    BY <1>1, <1>5, <2>1, <2>2
  <2>4. j # 1
    BY <1>00, <2>1, <2>3
  <2>5. j - 1 \in DOMAIN tl /\ tl[j - 1] = bt[j]
    BY <1>0, <2>3, <2>4
  <2>6. j - 1 < k
    BY <1>0, <2>3
  <2> QED BY <2>1, <2>3, <2>5, <2>6
<1>6. Batch(tl, q)
  BY <1>3, <1>4, <1>5 DEF Batch
<1> QED BY <1>6 DEF tl

LEMMA CompleteStep ==
    ASSUME SyncInv, NEW c \in Client, CompleteOutgoingSync(c)
    PROVE  SyncInv'
<1> USE DEF SyncInv, SyncType, Set
<1> DEFINE o == Head(batch[c])
           q == WithoutChange(outgoing[c], o.change)
           v == [rev |-> reply[c], data |-> Merge(o).data]
           rest == Tail(batch[c])
<1>1. /\ pc[c] = "complete"
      /\ outgoing' = [outgoing EXCEPT ![c] = q]
      /\ state' = [state EXCEPT ![c][o.change.id] = v]
      /\ cursor' = [cursor EXCEPT ![c] = Max({cursor[c], reply[c]})]
      /\ PushRest(c, rest)
      /\ reply' = [reply EXCEPT ![c] = 0]
      /\ UNCHANGED <<log, incoming, rel, localVars, signals, todo, overlay>>
  BY DEF CompleteOutgoingSync
<1>2. ClientOK(c) /\ outgoing[c] \in Seq(Change) /\ Queue(c, outgoing[c], writes[c])
  BY DEF TablesType, ClientOK
<1>3. /\ batch[c] \in Seq(Pending) /\ batch[c] # <<>> /\ 1 \in DOMAIN batch[c] /\ o = batch[c][1]
      /\ o.change \in Change /\ o.change.id \in Record /\ Merge(o).data \in Data
  BY <1>1, HeadFacts
<1>4. reply[c] \in DOMAIN log /\ log[reply[c]] = [id |-> o.change.id, data |-> Merge(o).data]
  BY <1>1, <1>2 DEF ClientOK, Replied
<1>5. /\ q \in Seq(Change)
      /\ Queue(c, q, writes[c])
      /\ Removed(q, outgoing[c], o.change)
  BY <1>2, WithoutChangeFacts
<1> HIDE DEF q
<1>6. Batch(rest, q)
  <2>1. Batch(batch[c], outgoing[c]) /\ o.change = batch[c][1].change
    BY <1>2, <1>3 DEF ClientOK
  <2> HIDE DEF o
  <2> QED BY <1>3, <1>5, <2>1, BatchTail
<1>7. rest \in Seq(Pending) /\ \A k \in DOMAIN rest : k + 1 \in DOMAIN batch[c] /\ rest[k] = batch[c][k + 1]
  BY <1>3
<1>8. v \in Version /\ TrueVersion(log, v, o.change.id) /\ Max({cursor[c], reply[c]}) \in Nat
  <2>1. reply[c] \in Nat /\ cursor[c] \in Nat
    BY DEF LoopType, TablesType
  <2>2. v \in Version
    BY <1>3, <2>1 DEF Version
  <2>3. TrueVersion(log, v, o.change.id)
    BY <1>4 DEF TrueVersion
  <2> HIDE DEF v
  <2> QED BY <2>1, <2>2, <2>3, MaxOfTwo
<1> DEFINE m == Max({cursor[c], reply[c]})
           id == o.change.id
<1>9. /\ m \in Nat /\ cursor' = [cursor EXCEPT ![c] = m] /\ state' = [state EXCEPT ![c][id] = v]
      /\ id \in Record /\ TrueVersion(log, v, id)
  BY <1>1, <1>3, <1>8
<1> HIDE DEF m, v, id, rest, o
<1>10. /\ pc' \in [Client -> PcSet] /\ mode' \in [Client -> ModeSet] /\ batch' \in [Client -> Seq(Pending)]
       /\ \A d \in Client \ {c} : pc'[d] = pc[d] /\ batch'[d] = batch[d]
       /\ batch'[c] = rest
       /\ pc'[c] \in {"idle", "send"}
       /\ pc'[c] = "send" => rest # <<>>
  BY <1>1, <1>7, PushRestFacts
<1>11. TablesType' /\ LocalType' /\ SignalsType'
  <2>1. outgoing' \in [Client -> Seq(Change)] /\ cursor' \in [Client -> Nat]
    BY <1>1, <1>5, <1>9 DEF TablesType
  <2>2. state' \in [Client -> [Record -> Version]]
    BY <1>8, <1>9 DEF TablesType
  <2> QED BY <1>1, <2>1, <2>2 DEF TablesType, LocalType, SignalsType, localVars, signals
<1>12. LoopType'
  BY <1>1, <1>10 DEF LoopType
<1>13. Frame(c) /\ Grows
  BY <1>1, <1>9, <1>10 DEF TablesType, LoopType, localVars, Frame, Grows
<1>14. ClientOK(c)'
  <2>1. outgoing'[c] = q /\ writes' = writes /\ log' = log /\ incoming' = incoming /\ todo' = todo
    BY <1>1 DEF TablesType, localVars
  <2>2. ASSUME NEW r \in Record PROVE TrueVersion(log, state'[c][r], r)
    <3>1. CASE r = id
      BY <1>9, <3>1 DEF TablesType
    <3>2. CASE r # id
      <4>1. state'[c][r] = state[c][r]
        BY <1>9, <3>2 DEF TablesType
      <4> QED BY <1>2, <4>1 DEF ClientOK, Versions
    <3> QED BY <3>1, <3>2
  <2>3. Versions(log, state'[c], incoming[c], todo[c], rest)
    BY <1>2, <1>7, <2>2 DEF ClientOK, Versions
  <2>4. Shape(pc'[c], todo[c], rest) /\ Replied(log, pc'[c], rest, reply'[c])
    BY <1>10 DEF Shape, Replied
  <2> QED BY <1>5, <1>6, <1>10, <2>1, <2>3, <2>4 DEF ClientOK
<1> QED BY <1>11, <1>12, <1>13, <1>14, OthersKeep

-----------------------------------------------------------------------------
(* A new change gets a number above all numbers of the queue. *)
LEMMA NextLocalRevisionFacts ==
    ASSUME NEW c \in Client, outgoing[c] \in Seq(Change), NEW w, Queue(c, outgoing[c], w)
    PROVE  /\ NextLocalRevision(c) \in Nat
           /\ \A i \in DOMAIN outgoing[c] : outgoing[c][i].lrev < NextLocalRevision(c)
<1> DEFINE out == outgoing[c]
           S == {0} \cup {out[i].lrev : i \in DOMAIN out}
<1>1. DOMAIN out = 1 .. Len(out) /\ Len(out) \in Nat /\ \A i \in DOMAIN out : out[i] \in Change
  OBVIOUS
<1>2. \A i \in DOMAIN out : out[i].lrev \in Nat
  BY <1>1 DEF Change
<1>3. \A i, j \in DOMAIN out : i < j => out[i].lrev < out[j].lrev
  BY DEF Queue
<1>4. NextLocalRevision(c) = 1 + Max(S)
  BY DEF NextLocalRevision
<1> HIDE DEF out
<1>5. S \subseteq Nat /\ S # {} /\ \A i \in DOMAIN out : out[i].lrev \in S
  BY <1>2
<1>6. \E u \in Nat : \A y \in S : y <= u
  <2>1. CASE Len(out) = 0
    <3>1. \A y \in S : y <= 0
      BY <1>1, <2>1
    <3> QED BY <3>1
  <2>2. CASE Len(out) # 0
    <3> DEFINE u == out[Len(out)].lrev
    <3>1. Len(out) \in DOMAIN out /\ u \in Nat
      BY <1>1, <1>2, <2>2
    <3>2. ASSUME NEW i \in DOMAIN out PROVE out[i].lrev <= u
      <4>1. CASE i = Len(out)
        BY <3>1, <4>1
      <4>2. CASE i < Len(out)
        BY <1>2, <1>3, <3>1, <4>2
      <4> QED BY <1>1, <4>1, <4>2
    <3> HIDE DEF u
    <3>3. \A y \in S : y <= u
      BY <3>1, <3>2
    <3> QED BY <3>1, <3>3
  <2> QED BY <2>1, <2>2
<1> HIDE DEF S
<1>7. PICK u \in Nat : \A y \in S : y <= u
  BY <1>6
<1>8. Max(S) \in S /\ \A y \in S : y <= Max(S)
  BY <1>5, <1>7, MaxBounded
<1>9. Max(S) \in Nat /\ \A i \in DOMAIN out : out[i].lrev \in Nat /\ out[i].lrev <= Max(S)
  BY <1>2, <1>5, <1>8
<1>10. 1 + Max(S) \in Nat /\ \A i \in DOMAIN out : out[i].lrev < 1 + Max(S)
  BY <1>9
<1> QED BY <1>4, <1>10 DEF out

(* A queued change is the last one, of the largest number and value. *)
LEMMA QueueAppend ==
    ASSUME NEW c, NEW w \in Nat, NEW out \in Seq(Change), Queue(c, out, w), NEW n \in Nat,
           \A i \in DOMAIN out : out[i].lrev < n,
           NEW x \in Change, x.lrev = n,
           \A f \in DOMAIN x.fields : <<c, x.id, f>> \in Writes /\ x.fields[f] = w + 1,
           NEW bt, Batch(bt, out), bt \in Seq(Pending)
    PROVE  Queue(c, Append(out, x), w + 1) /\ Batch(bt, Append(out, x))
<1> DEFINE q == Append(out, x)
<1>1. /\ DOMAIN out = 1 .. Len(out) /\ Len(out) \in Nat /\ \A i \in DOMAIN out : out[i] \in Change
      /\ q \in Seq(Change) /\ DOMAIN q = 1 .. (Len(out) + 1) /\ q[Len(out) + 1] = x
      /\ \A i \in DOMAIN out : i \in DOMAIN q /\ q[i] = out[i] /\ i < Len(out) + 1
      /\ \A i \in DOMAIN q : i \in DOMAIN out \/ i = Len(out) + 1
  OBVIOUS
<1> HIDE DEF q
<1>2. \A i \in DOMAIN out : \A f \in DOMAIN out[i].fields : out[i].fields[f] \in Nat
  <2> SUFFICES ASSUME NEW i \in DOMAIN out, NEW f \in DOMAIN out[i].fields PROVE out[i].fields[f] \in Nat
    OBVIOUS
  <2>1. out[i].fields \in Data
    BY <1>1 DEF Change
  <2> QED BY <2>1, DataElim
<1>3. /\ \A i, j \in DOMAIN out : i < j => out[i].lrev < out[j].lrev
      /\ \A i \in DOMAIN out : \A f \in DOMAIN out[i].fields :
            <<c, out[i].id, f>> \in Writes /\ out[i].fields[f] <= w
      /\ \A i, j \in DOMAIN out : i < j =>
            \A f \in DOMAIN out[i].fields, g \in DOMAIN out[j].fields : out[i].fields[f] < out[j].fields[g]
  BY DEF Queue
<1>4. ASSUME NEW i \in DOMAIN q, NEW j \in DOMAIN q, i < j
      PROVE  /\ q[i].lrev < q[j].lrev
             /\ \A f \in DOMAIN q[i].fields, g \in DOMAIN q[j].fields : q[i].fields[f] < q[j].fields[g]
  <2>1. i \in DOMAIN out
    BY <1>1, <1>4
  <2>2. CASE j \in DOMAIN out
    BY <1>1, <1>3, <1>4, <2>1, <2>2
  <2>3. CASE j = Len(out) + 1
    <3>1. q[j] = x /\ q[i] = out[i]
      BY <1>1, <2>1, <2>3
    <3>2. ASSUME NEW f \in DOMAIN q[i].fields, NEW g \in DOMAIN q[j].fields
          PROVE  q[i].fields[f] < q[j].fields[g]
      <4>1. out[i].fields[f] <= w /\ out[i].fields[f] \in Nat /\ x.fields[g] = w + 1
        BY <1>2, <1>3, <2>1, <3>1, <3>2
      <4>2. out[i].fields[f] < w + 1
        BY <4>1
      <4> QED BY <3>1, <4>1, <4>2
    <3> QED BY <2>1, <3>1, <3>2
  <2> QED BY <1>1, <2>2, <2>3
<1>5. ASSUME NEW i \in DOMAIN q, NEW f \in DOMAIN q[i].fields
      PROVE  <<c, q[i].id, f>> \in Writes /\ q[i].fields[f] <= w + 1
  <2>1. CASE i \in DOMAIN out
    <3>1. q[i] = out[i] /\ out[i].fields[f] <= w /\ out[i].fields[f] \in Nat /\ <<c, out[i].id, f>> \in Writes
      BY <1>1, <1>2, <1>3, <1>5, <2>1
    <3>2. out[i].fields[f] <= w + 1
      BY <3>1
    <3> QED BY <3>1, <3>2
  <2>2. CASE i = Len(out) + 1
    <3>1. q[i] = x
      BY <1>1, <2>2
    <3>2. <<c, x.id, f>> \in Writes /\ x.fields[f] = w + 1
      BY <1>5, <3>1
    <3> QED BY <3>1, <3>2
  <2> QED BY <1>1, <2>1, <2>2
<1>6. Queue(c, q, w + 1)
  BY <1>4, <1>5 DEF Queue
<1>7. Batch(bt, q)
  <2>1. /\ \A k \in DOMAIN bt : \E i \in DOMAIN out : out[i] = bt[k].change
        /\ \A j, k \in DOMAIN bt : j < k => bt[j].change.lrev < bt[k].change.lrev
        /\ \A k \in DOMAIN bt : \A i \in DOMAIN out :
              out[i].id = bt[k].change.id /\ out[i].lrev < bt[k].change.lrev =>
                  \E j \in DOMAIN bt : j < k /\ bt[j].change = out[i]
    BY DEF Batch
  <2>2. ASSUME NEW k \in DOMAIN bt, NEW i \in DOMAIN q,
               q[i].id = bt[k].change.id, q[i].lrev < bt[k].change.lrev
        PROVE  \E j \in DOMAIN bt : j < k /\ bt[j].change = q[i]
    <3>1. i # Len(out) + 1
      <4> SUFFICES ASSUME i = Len(out) + 1 PROVE FALSE
        OBVIOUS
      <4>1. q[i].lrev = n
        BY <1>1
      <4>2. PICK m \in DOMAIN out : out[m] = bt[k].change
        BY <2>1
      <4>3. out[m].lrev < n /\ n < out[m].lrev /\ out[m].lrev \in Nat
        BY <1>1, <2>2, <4>1, <4>2 DEF Change
      <4> QED BY <4>3
    <3>2. i \in DOMAIN out /\ q[i] = out[i]
      BY <1>1, <3>1
    <3> QED BY <2>1, <2>2, <3>2
  <2>3. \A k \in DOMAIN bt : \E i \in DOMAIN q : q[i] = bt[k].change
    BY <1>1, <2>1
  <2> QED BY <2>1, <2>2, <2>3 DEF Batch
<1> QED BY <1>6, <1>7 DEF q

LEMMA SetOutgoingRecordStep ==
    ASSUME SyncInv, NEW c \in Client, NEW r \in Record, NEW f \in Field, SetOutgoingRecord(c, r, f)
    PROVE  SyncInv'
<1> USE DEF SyncInv, SyncType
<1> DEFINE w == writes[c]
           fields == [g \in {f} |-> w + 1]
           x == [id |-> r, lrev |-> NextLocalRevision(c), fields |-> fields]
           q == Append(outgoing[c], x)
<1>1. /\ <<c, r, f>> \in Writes
      /\ outgoing' = [outgoing EXCEPT ![c] = q]
      /\ writes' = [writes EXCEPT ![c] = w + 1]
      /\ writing' = [writing EXCEPT ![c] = @ \cup {[id |-> r, fields |-> fields]}]
      /\ triggers' = [triggers EXCEPT ![c] = @ + 1]
      /\ UNCHANGED <<log, state, incoming, cursor, rel, note, notified, backoff, loopVars>>
  BY DEF SetOutgoingRecord
<1>2. ClientOK(c) /\ outgoing[c] \in Seq(Change) /\ w \in Nat /\ Queue(c, outgoing[c], w)
  BY DEF TablesType, LocalType, ClientOK
<1>3. /\ NextLocalRevision(c) \in Nat
      /\ \A i \in DOMAIN outgoing[c] : outgoing[c][i].lrev < NextLocalRevision(c)
  <2> HIDE DEF w
  <2> QED BY <1>2, NextLocalRevisionFacts
<1>4. fields \in Data /\ DOMAIN fields = {f} /\ fields[f] = w + 1
  <2>1. fields \in [{f} -> Nat] /\ {f} \subseteq Field
    BY <1>2
  <2> HIDE DEF fields
  <2>2. fields \in Data
    BY <2>1, DataIntro
  <2> QED BY <2>2 DEF fields
<1>5. x \in Change /\ [id |-> r, fields |-> fields] \in [id : Record, fields : Data]
  <2> HIDE DEF fields
  <2> QED BY <1>3, <1>4 DEF Change
<1>6. x.id = r /\ x.lrev = NextLocalRevision(c) /\ x.fields = fields
  OBVIOUS
<1> HIDE DEF x, fields
<1>7. Queue(c, q, w + 1) /\ Batch(batch[c], q)
  <2>1. \A g \in DOMAIN x.fields : <<c, x.id, g>> \in Writes /\ x.fields[g] = w + 1
    BY <1>1, <1>4, <1>6
  <2>2. Batch(batch[c], outgoing[c]) /\ batch[c] \in Seq(Pending)
    BY <1>2 DEF ClientOK, LoopType
  <2> HIDE DEF w
  <2> QED BY <1>2, <1>3, <1>5, <1>6, <2>1, <2>2, QueueAppend
<1>8. q \in Seq(Change)
  BY <1>2, <1>5
<1> HIDE DEF q
<1>9. TablesType' /\ LocalType' /\ SignalsType' /\ LoopType'
  <2>1. TablesType'
    BY <1>1, <1>8 DEF TablesType
  <2>2. writes' \in [Client -> Nat]
    BY <1>1, <1>2 DEF LocalType
  <2>3. writing' \in [Client -> SUBSET [id : Record, fields : Data]]
    BY <1>1, <1>5 DEF LocalType
  <2>4. SignalsType' /\ LoopType'
    BY <1>1 DEF SignalsType, LoopType, loopVars
  <2> QED BY <2>1, <2>2, <2>3, <2>4 DEF LocalType
<1>10. Frame(c) /\ Grows
  BY <1>1 DEF TablesType, LocalType, loopVars, Frame, Grows
<1>11. ClientOK(c)'
  <2>1. outgoing'[c] = q /\ writes'[c] = w + 1
    BY <1>1 DEF TablesType, LocalType
  <2> HIDE DEF w
  <2> QED BY <1>1, <1>2, <1>7, <2>1 DEF ClientOK, loopVars
<1> QED BY <1>9, <1>10, <1>11, OthersKeep

-----------------------------------------------------------------------------
(* Notifications and crashes. *)
LEMMA NoteSteps ==
    ASSUME SyncInv, NEW c \in Client, Deliver(c) \/ LoseNotification(c)
    PROVE  SyncInv'
<1> USE DEF SyncInv, SyncType, Set
<1>1. UNCHANGED <<log, tables, localVars, triggers, backoff, loopVars>>
  BY DEF Deliver, LoseNotification
<1>2. note' = [note EXCEPT ![c] = FALSE] /\ (notified' = notified \/ notified' = [notified EXCEPT ![c] = TRUE])
  BY DEF Deliver, LoseNotification
<1>3. notified' \in [Client -> BOOLEAN] /\ note' \in [Client -> BOOLEAN]
  BY <1>2 DEF SignalsType
<1>4. TablesType' /\ LocalType' /\ SignalsType' /\ LoopType'
  BY <1>1, <1>3 DEF TablesType, LocalType, SignalsType, LoopType, tables, localVars, loopVars
<1>5. Frame(c) /\ Grows /\ ClientOK(c)'
  BY <1>1 DEF tables, localVars, loopVars, Frame, Grows, ClientOK
<1> QED BY <1>4, <1>5, OthersKeep

LEMMA CrashStep ==
    ASSUME SyncInv, NEW c \in Client, Crash(c)
    PROVE  SyncInv'
<1> USE DEF SyncInv, SyncType, Set
<1>1. UNCHANGED <<log, tables, writes>>
  BY DEF Crash
<1>2. LocalType' /\ SignalsType'
  BY DEF Crash, LocalType, SignalsType
<1>3. LoopType'
  BY DEF Crash, LoopType, PcSet, ModeSet
<1>4. TablesType'
  BY <1>1 DEF TablesType, tables
<1>5. /\ pc' = [pc EXCEPT ![c] = "down"] /\ todo' = [todo EXCEPT ![c] = <<>>]
      /\ batch' = [batch EXCEPT ![c] = <<>>] /\ reply' = [reply EXCEPT ![c] = 0]
  BY DEF Crash
<1>6. Frame(c) /\ Grows
  BY <1>1, <1>5 DEF LoopType, tables, Frame, Grows
<1>7. ClientOK(c)'
  <2>1. pc'[c] = "down" /\ todo'[c] = <<>> /\ batch'[c] = <<>> /\ ClientOK(c)
    BY <1>5 DEF LoopType
  <2>2. Versions(log, state[c], incoming[c], todo'[c], batch'[c])
    BY <2>1 DEF ClientOK, Versions
  <2>3. Batch(batch'[c], outgoing[c])
    BY <2>1 DEF Batch
  <2> QED BY <1>1, <2>1, <2>2, <2>3 DEF ClientOK, tables, Shape, Replied
<1> QED BY <1>2, <1>3, <1>4, <1>6, <1>7, OthersKeep

(* Every step keeps the invariant. *)
LEMMA SyncStep == SyncInv /\ [Next]_vars => SyncInv'
<1> SUFFICES ASSUME SyncInv, [Next]_vars PROVE SyncInv'
  OBVIOUS
<1>1. CASE UNCHANGED vars
  BY <1>1 DEF vars, tables, localVars, signals, loopVars, SyncInv, SyncType, TablesType, LocalType,
              SignalsType, LoopType, ClientOK
<1>2. ASSUME NEW c \in Client, LoopStep(c) PROVE SyncInv'
  BY <1>2, SignalSteps, FetchStep, FetchFailsStep, ReadIncomingStep, UpdateStateStep, ApplyIncomingStep,
     NextRowSteps, ReadOutgoingStep, PushRecordStep, PushConflictStep, CompleteStep, StartStep DEF LoopStep
<1>3. ASSUME NEW c \in Client, WriteStep(c) PROVE SyncInv'
  BY <1>3, SetOutgoingRecordStep, WriteRelationalStep DEF WriteStep
<1>4. ASSUME NEW c \in Client, Deliver(c) \/ LoseNotification(c) \/ Crash(c) PROVE SyncInv'
  BY <1>4, NoteSteps, CrashStep
<1> QED BY <1>1, <1>2, <1>3, <1>4 DEF Next

LEMMA SyncInvariant == Spec => []SyncInv
<1> QED BY SyncInit, SyncStep, PTL DEF Spec

(* What a client takes for the version of a record is the server's at that *)
(* revision, for any number of clients, records and writes, whatever       *)
(* replies are lost and wherever clients crash.                            *)
THEOREM VersionsAreTrue == Spec => []ClientsOK
<1>1. SyncInv => ClientsOK
  BY SyncInvFacts
<1> QED BY <1>1, SyncInvariant, PTL

-----------------------------------------------------------------------------
(* The server's versions after it has accepted e. *)
LEMMA LatestAppend ==
    ASSUME log \in Seq(Entry), NEW e \in Entry, log' = Append(log, e), NEW r
    PROVE  /\ r # e.id => Latest(r)' = Latest(r)
           /\ r = e.id => Latest(r)' = [rev |-> Len(log) + 1, data |-> e.data]
<1> DEFINE n == Len(log) + 1
           S == Revs(r)
           S2 == {i \in DOMAIN log' : log'[i].id = r}
<1>1. /\ Len(log) \in Nat /\ DOMAIN log = 1 .. Len(log) /\ DOMAIN log' = 1 .. n
      /\ log'[n] = e /\ \A i \in DOMAIN log : log'[i] = log[i]
  OBVIOUS
<1>2. Latest(r) = IF S = {} THEN NoVersion ELSE [rev |-> Max(S), data |-> log[Max(S)].data]
  BY DEF Latest, Revs
<1>3. Latest(r)' = IF S2 = {} THEN NoVersion ELSE [rev |-> Max(S2), data |-> log'[Max(S2)].data]
  BY DEF Latest
<1>4. S \subseteq DOMAIN log
  BY DEF Revs
<1>5. ASSUME r # e.id PROVE Latest(r)' = Latest(r)
  <2>1. S2 = S
    BY <1>1, <1>5 DEF Revs
  <2>2. ASSUME S # {} PROVE Max(S) \in DOMAIN log
    <3>1. S \subseteq Nat /\ \A y \in S : y <= Len(log)
      BY <1>1, <1>4
    <3> HIDE DEF S
    <3> QED BY <1>1, <1>4, <2>2, <3>1, MaxBounded
  <2> HIDE DEF S, S2
  <2> QED BY <1>1, <1>2, <1>3, <2>1, <2>2
<1>6. ASSUME r = e.id PROVE Latest(r)' = [rev |-> n, data |-> e.data]
  <2>1. n \in S2 /\ S2 \subseteq Nat /\ n \in Nat /\ \A y \in S2 : y <= n
    BY <1>1, <1>6
  <2> HIDE DEF S2, n
  <2>2. Max(S2) \in S2 /\ \A y \in S2 : y <= Max(S2)
    BY <2>1, MaxBounded
  <2>3. Max(S2) = n
    <3> DEFINE m == Max(S2)
    <3>1. m \in Nat /\ n \in Nat /\ n <= m /\ m <= n
      BY <2>1, <2>2
    <3> HIDE DEF m
    <3>2. m = n
      BY <3>1
    <3> QED BY <3>2 DEF m
  <2> QED BY <1>1, <1>3, <2>1, <2>3
<1> QED BY <1>5, <1>6

(* A parent of the latest revision is the latest version. *)
LEMMA ParentIsLatest ==
    ASSUME SyncInv, NEW c \in Client, pc[c] = "send", NEW o, o = Head(batch[c]),
           o.parent.rev = Latest(o.change.id).rev
    PROVE  /\ o.parent.data = Latest(o.change.id).data
           /\ \E k \in DOMAIN outgoing[c] :
                 /\ outgoing[c][k] = o.change
                 /\ \A i \in DOMAIN outgoing[c] :
                       outgoing[c][i].id = o.change.id => ~(outgoing[c][i].lrev < o.change.lrev)
<1> DEFINE r == o.change.id
<1>1. o = batch[c][1] /\ 1 \in DOMAIN batch[c] /\ ClientOK(c) /\ batch[c] \in Seq(Pending) /\ log \in Seq(Entry)
  BY HeadFacts DEF SyncInv, SyncType, TablesType
<1>2. TrueVersion(log, o.parent, r)
  BY <1>1 DEF ClientOK, Versions
<1>3. o.parent.data = Latest(r).data
  <2>1. CASE Revs(r) = {} /\ Latest(r) = NoVersion
    <3>1. o.parent.rev = 0
      BY <2>1 DEF NoVersion
    <3>2. 0 \notin DOMAIN log
      BY <1>1
    <3>3. o.parent = NoVersion
      BY <1>2, <3>1, <3>2 DEF TrueVersion
    <3> QED BY <2>1, <3>3
  <2>2. CASE /\ Latest(r).rev \in DOMAIN log
             /\ log[Latest(r).rev] = [id |-> r, data |-> Latest(r).data]
             /\ Latest(r).rev > 0
    <3>1. o.parent # NoVersion
      BY <2>2 DEF NoVersion
    <3>2. log[o.parent.rev] = [id |-> r, data |-> o.parent.data]
      BY <1>2, <3>1 DEF TrueVersion
    <3> QED BY <2>2, <3>2
  <2> QED BY <1>1, <2>1, <2>2, LatestFacts
<1>4. PICK k \in DOMAIN outgoing[c] : outgoing[c][k] = o.change
  BY <1>1 DEF ClientOK, Batch
<1>5. ASSUME NEW i \in DOMAIN outgoing[c], outgoing[c][i].id = o.change.id, outgoing[c][i].lrev < o.change.lrev
      PROVE  FALSE
  <2>1. \E j \in DOMAIN batch[c] : j < 1 /\ batch[c][j].change = outgoing[c][i]
    BY <1>1, <1>5 DEF ClientOK, Batch
  <2>2. \A j \in DOMAIN batch[c] : ~(j < 1)
    BY <1>1
  <2> QED BY <2>1, <2>2
<1> QED BY <1>3, <1>4, <1>5

(* Only an accepted push changes the log. *)
LEMMA LogSteps ==
    ASSUME SyncInv, [Next]_vars
    PROVE  \/ log' = log
           \/ \E c \in Client :
                 /\ pc[c] = "send" /\ Accept(c, Merge(Head(batch[c])))
                 /\ UNCHANGED <<outgoing, writes>>
<1>1. CASE UNCHANGED vars
  BY <1>1 DEF vars
<1>2. ASSUME NEW c \in Client, LoopStep(c), ~PushRecord(c) PROVE log' = log
  BY <1>2 DEF LoopStep, OnNotification, OnBackoff, OnPush, Fetch, FetchFails, ReadIncoming, UpdateState,
              ApplyIncoming, KeepIncoming, DeleteIncoming, ReadOutgoing, PushConflict, CompleteOutgoingSync,
              Start
<1>3. ASSUME NEW c \in Client, WriteStep(c) \/ Deliver(c) \/ LoseNotification(c) \/ Crash(c) PROVE log' = log
  BY <1>3 DEF WriteStep, SetOutgoingRecord, WriteRelational, Deliver, LoseNotification, Crash
<1>4. ASSUME NEW c \in Client, PushRecord(c)
      PROVE  \/ log' = log
             \/ pc[c] = "send" /\ Accept(c, Merge(Head(batch[c]))) /\ UNCHANGED <<outgoing, writes>>
  BY <1>4 DEF PushRecord, tables, localVars
<1> QED BY <1>1, <1>2, <1>3, <1>4 DEF Next

(* A push changes only fields its client has queued a change of. *)
THEOREM NoLostUpdate == Spec => PushKeepsOtherFields
<1> DEFINE Body == \A r \in Record :
                      Latest(r)' # Latest(r) =>
                         \E c \in Client : \E i \in DOMAIN outgoing[c] :
                            /\ outgoing[c][i].id = r
                            /\ Latest(r)'.data = Overlay(Latest(r).data, outgoing[c][i].fields)
<1>1. SyncInv /\ [Next]_vars => [Body]_vars
  <2> SUFFICES ASSUME SyncInv, [Next]_vars, NEW r \in Record, Latest(r)' # Latest(r)
               PROVE  \E c \in Client : \E i \in DOMAIN outgoing[c] :
                            /\ outgoing[c][i].id = r
                            /\ Latest(r)'.data = Overlay(Latest(r).data, outgoing[c][i].fields)
    OBVIOUS
  <2>1. log' # log
    BY DEF Latest
  <2>2. PICK c \in Client : pc[c] = "send" /\ Accept(c, Merge(Head(batch[c])))
    BY <2>1, LogSteps
  <2> DEFINE o == Head(batch[c])
             e == [id |-> o.change.id, data |-> Merge(o).data]
  <2>3. log' = Append(log, e) /\ e \in Entry /\ o.parent.rev = Latest(o.change.id).rev
    BY <2>2, AcceptFacts
  <2>4. Merge(o).data = Overlay(o.parent.data, o.change.fields)
    BY <2>2, HeadFacts
  <2>5. o.parent.data = Latest(o.change.id).data /\ \E k \in DOMAIN outgoing[c] : outgoing[c][k] = o.change
    BY <2>2, <2>3, ParentIsLatest
  <2>6. e.id = o.change.id /\ e.data = Merge(o).data
    OBVIOUS
  <2> HIDE DEF e, o
  <2>7. log \in Seq(Entry)
    BY DEF SyncInv, SyncType, TablesType
  <2>8. r = e.id
    BY <2>3, <2>7, LatestAppend
  <2>9. Latest(r)'.data = e.data
    BY <2>3, <2>7, <2>8, LatestAppend
  <2> QED BY <2>4, <2>5, <2>6, <2>8, <2>9
<1> QED BY <1>1, SyncInvariant, PTL DEF Spec, PushKeepsOtherFields

-----------------------------------------------------------------------------
(***************************************************************************)
(* The order of the queue at the server.  NoRegress holds where no field   *)
(* of a record has two writers, and is inductive with: what the server has *)
(* of a client's field is not newer than the client's writes and than any  *)
(* change of that field the client still has in its queue.                 *)
(***************************************************************************)
SingleWriter ==
    \A c, d \in Client : \A r \in Record, f \in Field :
        <<c, r, f>> \in Writes /\ <<d, r, f>> \in Writes => c = d

Behind(lg, c, out, w) ==
    \A n \in DOMAIN lg : \A f \in DOMAIN lg[n].data :
        <<c, lg[n].id, f>> \in Writes =>
            /\ lg[n].data[f] <= w
            /\ \A i \in DOMAIN out : out[i].id = lg[n].id /\ f \in DOMAIN out[i].fields =>
                  lg[n].data[f] <= out[i].fields[f]

OrderInv == NoRegress /\ \A c \in Client : Behind(log, c, outgoing[c], writes[c])

LEMMA OrderInit == Init => OrderInv
<1> SUFFICES ASSUME Init PROVE OrderInv
  OBVIOUS
<1>1. log = <<>>
  BY DEF Init
<1>2. NoRegress
  BY <1>1 DEF NoRegress
<1>3. \A c \in Client : Behind(log, c, outgoing[c], writes[c])
  BY <1>1 DEF Behind
<1> QED BY <1>2, <1>3 DEF OrderInv

(* The values in the log and in the queues are numbers. *)
LEMMA ValueFacts ==
    ASSUME SyncInv
    PROVE  /\ \A n \in DOMAIN log : /\ log[n].data \in Data
                                    /\ \A f \in DOMAIN log[n].data : f \in Field /\ log[n].data[f] \in Nat
           /\ \A c \in Client : \A i \in DOMAIN outgoing[c] :
                 \A f \in DOMAIN outgoing[c][i].fields : f \in Field /\ outgoing[c][i].fields[f] \in Nat
<1> USE DEF SyncInv, SyncType, TablesType
<1>1. ASSUME NEW n \in DOMAIN log
      PROVE  log[n].data \in Data /\ \A f \in DOMAIN log[n].data : f \in Field /\ log[n].data[f] \in Nat
  <2>1. log[n] \in Entry
    OBVIOUS
  <2>2. log[n].data \in Data
    BY <2>1 DEF Entry
  <2> QED BY <2>2, DataElim
<1>2. ASSUME NEW c \in Client, NEW i \in DOMAIN outgoing[c]
      PROVE  \A f \in DOMAIN outgoing[c][i].fields : f \in Field /\ outgoing[c][i].fields[f] \in Nat
  <2>1. outgoing[c][i] \in Change
    OBVIOUS
  <2>2. outgoing[c][i].fields \in Data
    BY <2>1 DEF Change
  <2> QED BY <2>2, DataElim
<1> QED BY <1>1, <1>2

(* A new change is newer than everything the server has. *)
LEMMA OrderSetOutgoing ==
    ASSUME SyncInv, OrderInv, NEW c \in Client, NEW r \in Record, NEW f \in Field, SetOutgoingRecord(c, r, f)
    PROVE  OrderInv'
<1> DEFINE w == writes[c]
           fields == [g \in {f} |-> w + 1]
           x == [id |-> r, lrev |-> NextLocalRevision(c), fields |-> fields]
           out == outgoing[c]
           q == Append(out, x)
<1>1. outgoing' = [outgoing EXCEPT ![c] = q] /\ writes' = [writes EXCEPT ![c] = w + 1] /\ log' = log
  BY DEF SetOutgoingRecord
<1>2. w \in Nat /\ outgoing'[c] = q /\ writes'[c] = w + 1
      /\ \A d \in Client \ {c} : outgoing'[d] = outgoing[d] /\ writes'[d] = writes[d]
  BY <1>1 DEF SyncInv, SyncType, TablesType, LocalType
<1>3. DOMAIN x.fields = {f} /\ x.fields[f] = w + 1
  OBVIOUS
<1>4. \A i \in DOMAIN q : (i \in DOMAIN out /\ q[i] = out[i]) \/ q[i] = x
  <2>1. out \in Seq(Change)
    BY DEF SyncInv, SyncType, TablesType
  <2> HIDE DEF x, out
  <2> QED BY <2>1
<1>5. Behind(log, c, q, w + 1)
  <2> SUFFICES ASSUME NEW n \in DOMAIN log, NEW g \in DOMAIN log[n].data, <<c, log[n].id, g>> \in Writes
               PROVE  /\ log[n].data[g] <= w + 1
                      /\ \A i \in DOMAIN q : q[i].id = log[n].id /\ g \in DOMAIN q[i].fields =>
                            log[n].data[g] <= q[i].fields[g]
    BY DEF Behind
  <2>1. /\ log[n].data[g] <= w /\ log[n].data[g] \in Nat
        /\ \A i \in DOMAIN out : out[i].id = log[n].id /\ g \in DOMAIN out[i].fields =>
              log[n].data[g] <= out[i].fields[g]
    BY ValueFacts DEF OrderInv, Behind
  <2> HIDE DEF x, out, q, w
  <2>2. log[n].data[g] <= w + 1
    BY <1>2, <2>1
  <2>3. ASSUME NEW i \in DOMAIN q, q[i].id = log[n].id, g \in DOMAIN q[i].fields
        PROVE  log[n].data[g] <= q[i].fields[g]
    <3>1. CASE i \in DOMAIN out /\ q[i] = out[i]
      BY <2>1, <2>3, <3>1
    <3>2. CASE q[i] = x
      BY <1>3, <2>2, <2>3, <3>2
    <3> QED BY <1>4, <3>1, <3>2
  <2> QED BY <2>2, <2>3
<1> HIDE DEF q, w
<1>6. ASSUME NEW d \in Client PROVE Behind(log', d, outgoing'[d], writes'[d])
  <2>1. CASE d = c
    BY <1>1, <1>2, <1>5, <2>1
  <2>2. CASE d # c
    BY <1>1, <1>2, <2>2 DEF OrderInv
  <2> QED BY <2>1, <2>2
<1>7. NoRegress'
  BY <1>1 DEF OrderInv, NoRegress
<1> QED BY <1>6, <1>7 DEF OrderInv

(* A shorter queue. *)
LEMMA OrderComplete ==
    ASSUME SyncInv, OrderInv, NEW c \in Client, CompleteOutgoingSync(c)
    PROVE  OrderInv'
<1> DEFINE x == Head(batch[c]).change
           out == outgoing[c]
           q == WithoutChange(out, x)
<1>1. outgoing' = [outgoing EXCEPT ![c] = q] /\ log' = log /\ writes' = writes
  BY DEF CompleteOutgoingSync, localVars
<1>2. outgoing'[c] = q /\ \A d \in Client \ {c} : outgoing'[d] = outgoing[d]
  BY <1>1 DEF SyncInv, SyncType, TablesType
<1>3. out \in Seq(Change) /\ Queue(c, out, writes[c])
  BY DEF SyncInv, SyncType, TablesType, ClientOK
<1> HIDE DEF x, out
<1>4. \A i \in DOMAIN q : \E j \in DOMAIN out : q[i] = out[j]
  BY <1>3, WithoutChangeFacts DEF Removed
<1> HIDE DEF q
<1>5. Behind(log, c, q, writes[c])
  <2>1. Behind(log, c, out, writes[c])
    BY DEF OrderInv, out
  <2> QED BY <1>4, <2>1 DEF Behind
<1>6. ASSUME NEW d \in Client PROVE Behind(log', d, outgoing'[d], writes'[d])
  <2>1. CASE d = c
    BY <1>1, <1>2, <1>5, <2>1
  <2>2. CASE d # c
    BY <1>1, <1>2, <2>2 DEF OrderInv
  <2> QED BY <2>1, <2>2
<1>7. NoRegress'
  BY <1>1 DEF OrderInv, NoRegress
<1> QED BY <1>6, <1>7 DEF OrderInv

(* The accepted version: its fields are the change's, or the latest ones. *)
LEMMA AcceptedFields ==
    ASSUME SyncInv, NEW c \in Client, pc[c] = "send", NEW o, o = Head(batch[c]), Accept(c, Merge(o)),
           NEW e, e = [id |-> o.change.id, data |-> Merge(o).data]
    PROVE  /\ log' = Append(log, e) /\ log \in Seq(Entry) /\ e.data \in Data
           /\ DOMAIN e.data = DOMAIN Latest(e.id).data \cup DOMAIN o.change.fields
           /\ \A f \in DOMAIN o.change.fields : e.data[f] = o.change.fields[f]
           /\ \A f \in DOMAIN Latest(e.id).data \ DOMAIN o.change.fields : e.data[f] = Latest(e.id).data[f]
<1>1. log' = Append(log, e) /\ o.parent.rev = Latest(o.change.id).rev /\ log \in Seq(Entry)
  BY AcceptFacts DEF SyncInv, SyncType, TablesType
<1>2. /\ o.change.fields \in Data /\ o.parent.data \in Data
      /\ Merge(o).data = Overlay(o.parent.data, o.change.fields) /\ Merge(o).data \in Data
  BY HeadFacts
<1>3. o.parent.data = Latest(o.change.id).data
  BY <1>1, ParentIsLatest
<1>4. e.id = o.change.id /\ e.data = Merge(o).data
  OBVIOUS
<1> DEFINE p == o.parent.data
           m == o.change.fields
           y == e.data
<1>5. p \in Data /\ m \in Data /\ y = Overlay(p, m) /\ p = Latest(e.id).data
  BY <1>2, <1>3, <1>4
<1> HIDE DEF p, m, y
<1>6. /\ DOMAIN y = DOMAIN p \cup DOMAIN m
      /\ \A f \in DOMAIN m : y[f] = m[f]
      /\ \A f \in DOMAIN p \ DOMAIN m : y[f] = p[f]
  <2> DEFINE z == Overlay(p, m)
  <2>1. /\ DOMAIN z = DOMAIN p \cup DOMAIN m
        /\ \A f \in DOMAIN m : z[f] = m[f]
        /\ \A f \in DOMAIN p \ DOMAIN m : z[f] = p[f]
    <3>1. p \in Data /\ m \in Data
      BY <1>5
    <3> QED BY <3>1, OverlayFacts, Zenon
  <2>2. y = z
    BY <1>5
  <2> HIDE DEF z
  <2> QED BY <2>1, <2>2
<1> QED BY <1>1, <1>2, <1>4, <1>5, <1>6 DEF m, y

(* The pushed change is the oldest the client has of the record. *)
LEMMA OldestChange ==
    ASSUME NEW c, NEW w, NEW out \in Seq(Change), Queue(c, out, w), NEW x, NEW k \in DOMAIN out, out[k] = x,
           \A i \in DOMAIN out : out[i].id = x.id => ~(out[i].lrev < x.lrev)
    PROVE  /\ \A f \in DOMAIN x.fields : <<c, x.id, f>> \in Writes /\ x.fields[f] <= w
           /\ \A i \in DOMAIN out : out[i].id = x.id =>
                 \A f \in DOMAIN x.fields \cap DOMAIN out[i].fields :
                     i = k \/ x.fields[f] < out[i].fields[f]
<1>1. DOMAIN out = 1 .. Len(out)
  OBVIOUS
<1>2. \A f \in DOMAIN x.fields : <<c, x.id, f>> \in Writes /\ x.fields[f] <= w
  BY DEF Queue
<1>3. ASSUME NEW i \in DOMAIN out, out[i].id = x.id, NEW f \in DOMAIN x.fields \cap DOMAIN out[i].fields, i # k
      PROVE  x.fields[f] < out[i].fields[f]
  <2>1. ~(i < k)
    BY <1>3 DEF Queue
  <2>2. k < i
    BY <1>1, <1>3, <2>1
  <2> QED BY <1>3, <2>2 DEF Queue
<1> QED BY <1>2, <1>3

LEMMA OrderPush ==
    ASSUME SyncInv, OrderInv, SingleWriter, NEW c \in Client, pc[c] = "send",
           Accept(c, Merge(Head(batch[c]))), UNCHANGED <<outgoing, writes>>
    PROVE  OrderInv'
<1> DEFINE o == Head(batch[c])
           x == o.change
           e == [id |-> o.change.id, data |-> Merge(o).data]
           out == outgoing[c]
           w == writes[c]
           n == Len(log) + 1
           last == Latest(e.id)
<1>1. /\ log' = Append(log, e) /\ log \in Seq(Entry) /\ e.data \in Data
      /\ DOMAIN e.data = DOMAIN last.data \cup DOMAIN x.fields
      /\ \A f \in DOMAIN x.fields : e.data[f] = x.fields[f]
      /\ \A f \in DOMAIN last.data \ DOMAIN x.fields : e.data[f] = last.data[f]
  BY AcceptedFields
<1>2. e.id = x.id /\ x.id \in Record /\ w \in Nat /\ out \in Seq(Change) /\ Queue(c, out, w)
  BY HeadFacts DEF SyncInv, SyncType, TablesType, LocalType, ClientOK
<1>3. PICK k \in DOMAIN out : /\ out[k] = x
                              /\ \A i \in DOMAIN out : out[i].id = x.id => ~(out[i].lrev < x.lrev)
  <2>1. o.parent.rev = Latest(o.change.id).rev
    BY AcceptFacts
  <2> QED BY <2>1, ParentIsLatest
<1>4. /\ Len(log) \in Nat /\ DOMAIN log = 1 .. Len(log) /\ DOMAIN log' = 1 .. n
      /\ log'[n] = e /\ \A i \in DOMAIN log : log'[i] = log[i] /\ i < n
      /\ \A i \in DOMAIN log' : i \in DOMAIN log \/ i = n
  <2> HIDE DEF e
  <2> QED BY <1>1
<1>5. /\ \A d \in Client : Behind(log, d, outgoing[d], writes[d])
      /\ NoRegress
  BY DEF OrderInv
<1>6. /\ \A i \in DOMAIN log : \A f \in DOMAIN log[i].data : f \in Field /\ log[i].data[f] \in Nat
      /\ \A d \in Client : \A i \in DOMAIN outgoing[d] :
            \A f \in DOMAIN outgoing[d][i].fields : f \in Field /\ outgoing[d][i].fields[f] \in Nat
  BY ValueFacts
<1>7. \/ Revs(e.id) = {} /\ last = NoVersion
      \/ /\ last.rev \in DOMAIN log
         /\ log[last.rev] = [id |-> e.id, data |-> last.data]
         /\ \A i \in DOMAIN log : log[i].id = e.id => i <= last.rev
  <2> HIDE DEF e
  <2> QED BY <1>1, LatestFacts
<1> HIDE DEF e, o, x, n, last
(* what the change sets is not older than the log, and the oldest queued *)
<1>8. /\ \A f \in DOMAIN x.fields : <<c, e.id, f>> \in Writes /\ x.fields[f] <= w /\ x.fields[f] \in Nat
      /\ \A i \in DOMAIN out : out[i].id = e.id =>
            \A f \in DOMAIN x.fields \cap DOMAIN out[i].fields : x.fields[f] <= out[i].fields[f]
  <2>1. /\ \A f \in DOMAIN x.fields : <<c, x.id, f>> \in Writes /\ x.fields[f] <= w
        /\ \A i \in DOMAIN out : out[i].id = x.id =>
              \A f \in DOMAIN x.fields \cap DOMAIN out[i].fields :
                  i = k \/ x.fields[f] < out[i].fields[f]
    <3> HIDE DEF out, w
    <3> QED BY <1>2, <1>3, OldestChange
  <2>2. /\ \A f \in DOMAIN x.fields : x.fields[f] \in Nat
        /\ \A i \in DOMAIN out : \A f \in DOMAIN out[i].fields : out[i].fields[f] \in Nat
    BY <1>3, <1>6
  <2> HIDE DEF out, w
  <2>3. ASSUME NEW i \in DOMAIN out, out[i].id = e.id, NEW f \in DOMAIN x.fields \cap DOMAIN out[i].fields
        PROVE  x.fields[f] <= out[i].fields[f]
    <3>1. i = k \/ x.fields[f] < out[i].fields[f]
      BY <1>2, <2>1, <2>3
    <3>2. x.fields[f] \in Nat /\ out[i].fields[f] \in Nat
      BY <2>2
    <3> QED BY <1>3, <3>1, <3>2
  <2> QED BY <1>2, <2>1, <2>2, <2>3
<1>9. ASSUME NEW i \in DOMAIN log, log[i].id = e.id, NEW f \in DOMAIN log[i].data
      PROVE  f \in DOMAIN e.data /\ log[i].data[f] <= e.data[f]
  <2>1. CASE f \in DOMAIN x.fields
    <3>1. log[i].data[f] <= out[k].fields[f]
      <4>1. <<c, log[i].id, f>> \in Writes /\ out[k].id = log[i].id /\ f \in DOMAIN out[k].fields
        BY <1>2, <1>3, <1>8, <1>9, <2>1
      <4> QED BY <1>5, <4>1 DEF Behind
    <3> QED BY <1>1, <1>3, <2>1, <3>1
  <2>2. CASE f \notin DOMAIN x.fields
    <3>1. i \in Revs(e.id)
      BY <1>9 DEF Revs
    <3>2. /\ last.rev \in DOMAIN log /\ log[last.rev].id = e.id /\ log[last.rev].data = last.data
          /\ i <= last.rev
      BY <1>7, <1>9, <3>1
    <3>3. f \in DOMAIN last.data /\ log[i].data[f] <= last.data[f]
      <4>1. CASE i = last.rev
        <5>1. log[i].data[f] \in Nat
          BY <1>6
        <5> QED BY <3>2, <4>1, <5>1
      <4>2. CASE i < last.rev
        BY <1>5, <1>9, <3>2, <4>2 DEF NoRegress
      <4> QED BY <1>4, <3>2, <4>1, <4>2
    <3> QED BY <1>1, <2>2, <3>3
  <2> QED BY <2>1, <2>2
<1>10. NoRegress'
  <2> SUFFICES ASSUME NEW i \in DOMAIN log', NEW j \in DOMAIN log', i < j, log'[i].id = log'[j].id,
                      NEW f \in DOMAIN log'[i].data
               PROVE  f \in DOMAIN log'[j].data /\ log'[i].data[f] <= log'[j].data[f]
    BY DEF NoRegress
  <2>1. i \in DOMAIN log
    BY <1>4
  <2>2. CASE j \in DOMAIN log
    BY <1>4, <1>5, <2>1, <2>2 DEF NoRegress
  <2>3. CASE j = n
    BY <1>4, <1>9, <2>1, <2>3
  <2> QED BY <1>4, <2>2, <2>3
<1>11. ASSUME NEW d \in Client PROVE Behind(log', d, outgoing[d], writes[d])
  <2> SUFFICES ASSUME NEW j \in DOMAIN log', NEW f \in DOMAIN log'[j].data, <<d, log'[j].id, f>> \in Writes
               PROVE  /\ log'[j].data[f] <= writes[d]
                      /\ \A i \in DOMAIN outgoing[d] :
                            outgoing[d][i].id = log'[j].id /\ f \in DOMAIN outgoing[d][i].fields =>
                                log'[j].data[f] <= outgoing[d][i].fields[f]
    BY DEF Behind
  <2>1. CASE j \in DOMAIN log
    BY <1>4, <1>5, <2>1 DEF Behind
  <2>2. CASE j = n
    <3>1. log'[j] = e
      BY <1>4, <2>2
    <3>2. CASE f \in DOMAIN x.fields
      <4>1. f \in Field
        BY <1>3, <1>6, <3>2
      <4>2. d = c
        BY <1>2, <1>8, <3>1, <3>2, <4>1 DEF SingleWriter
      <4> QED BY <1>1, <1>8, <3>1, <3>2, <4>2
    <3>3. CASE f \notin DOMAIN x.fields
      <4>1. f \in DOMAIN last.data /\ e.data[f] = last.data[f]
        BY <1>1, <3>1, <3>3
      <4>2. last # NoVersion
        BY <4>1, NoDataFacts DEF NoVersion
      <4>3. last.rev \in DOMAIN log /\ log[last.rev].id = e.id /\ log[last.rev].data = last.data
        BY <1>7, <4>2
      <4> QED BY <1>5, <3>1, <4>1, <4>3 DEF Behind
    <3> QED BY <3>2, <3>3
  <2> QED BY <1>4, <2>1, <2>2
<1>12. \A d \in Client : Behind(log', d, outgoing'[d], writes'[d])
  BY <1>11
<1> QED BY <1>10, <1>12 DEF OrderInv

LEMMA OrderStep ==
    ASSUME SyncInv, OrderInv, SingleWriter, [Next]_vars
    PROVE  OrderInv'
<1>1. ASSUME UNCHANGED <<log, outgoing, writes>> PROVE OrderInv'
  BY <1>1 DEF OrderInv, NoRegress, Behind
<1>2. CASE UNCHANGED vars
  BY <1>1, <1>2 DEF vars, tables, localVars
<1>3. ASSUME NEW c \in Client, LoopStep(c), ~PushRecord(c), ~CompleteOutgoingSync(c) PROVE OrderInv'
  <2>1. UNCHANGED <<log, outgoing, writes>>
    BY <1>3 DEF LoopStep, OnNotification, OnBackoff, OnPush, Fetch, FetchFails, ReadIncoming, UpdateState,
                ApplyIncoming, KeepIncoming, DeleteIncoming, ReadOutgoing, PushConflict, Start,
                tables, localVars
  <2> QED BY <1>1, <2>1
<1>4. ASSUME NEW c \in Client, CompleteOutgoingSync(c) PROVE OrderInv'
  BY <1>4, OrderComplete
<1>5. ASSUME NEW c \in Client, PushRecord(c) PROVE OrderInv'
  <2>1. UNCHANGED <<outgoing, writes>> /\ pc[c] = "send" /\ (log' = log \/ Accept(c, Merge(Head(batch[c]))))
    BY <1>5 DEF PushRecord, tables, localVars
  <2> QED BY <1>1, <2>1, OrderPush
<1>6. ASSUME NEW c \in Client, WriteStep(c) PROVE OrderInv'
  <2>1. ASSUME NEW w, WriteRelational(c, w) PROVE OrderInv'
    BY <1>1, <2>1 DEF WriteRelational
  <2> QED BY <1>6, <2>1, OrderSetOutgoing DEF WriteStep
<1>7. ASSUME NEW c \in Client, Deliver(c) \/ LoseNotification(c) \/ Crash(c) PROVE OrderInv'
  <2>1. UNCHANGED <<log, outgoing, writes>>
    BY <1>7 DEF Deliver, LoseNotification, Crash, tables, localVars
  <2> QED BY <1>1, <2>1
<1> QED BY <1>2, <1>3, <1>4, <1>5, <1>6, <1>7 DEF Next

(* Where each field of a record has one writer, the server never goes back *)
(* to an older value of it, over retries of pushes it had accepted,        *)
(* conflicts and restarts.                                                 *)
THEOREM QueueOrderKept == SingleWriter => (Spec => []NoRegress)
<1> SUFFICES ASSUME SingleWriter PROVE Spec => []NoRegress
  OBVIOUS
<1>1. Init => SyncInv /\ OrderInv
  BY SyncInit, OrderInit
<1>2. (SyncInv /\ OrderInv) /\ [Next]_vars => (SyncInv /\ OrderInv)'
  BY SyncStep, OrderStep
<1>3. OrderInv => NoRegress
  BY DEF OrderInv
<1> QED BY <1>1, <1>2, <1>3, PTL DEF Spec

-----------------------------------------------------------------------------
(* What a client has seen is in its relational table or queued for it.     *)
(* AppliedInv follows a row from the pull to the handler, and a pushed     *)
(* change from the version it was merged from to complete_outgoing_sync.   *)

(* The fields of c's own change of record r. *)
OwnFields(c, r, d) == \A f \in DOMAIN d : <<c, r, f>> \in Writes

(* What c has in its table of the fields others write is what is in d. *)
Agrees(c, r, table, d) ==
    \A f \in DOMAIN d : <<c, r, f>> \notin Writes => f \in DOMAIN table /\ table[f] = d[f]

(* Where the loop is while it processes the rows it has listed. *)
Pulling == {"record", "apply", "remove"}

(* A client writes only fields it is a writer of. *)
Own(c) ==
    /\ \A w \in writing[c] : OwnFields(c, w.id, w.fields)
    /\ \A k \in DOMAIN overlay[c] : OwnFields(c, overlay[c][k].id, overlay[c][k].fields)

(* The cursor is not behind any version seen. *)
Passed(c) == \A r \in Record : state[c][r].rev <= cursor[c]

(* No row is older than the version seen.  The rows still to process are   *)
(* stored, in order; one that is stored and not to be processed (it was    *)
(* refused) has no other version of its record among them.                 *)
InOrder(st, inc, td, p) ==
    /\ \A i \in inc : st[i.id].rev <= i.rev
    /\ p \in Pulling =>
          /\ \A k \in DOMAIN td : td[k] \in inc
          /\ \A j, k \in DOMAIN td : j < k => td[j].rev <= td[k].rev /\ td[j] # td[k]
          /\ \A i \in inc : (\E k \in DOMAIN td : td[k] = i) \/ (\A k \in DOMAIN td : td[k].id # i.id)

(* Before any refusal there is one row per record, all of them on their    *)
(* way to the handler, and none left once the pull is over.                *)
AllProcessed(inc, td, p) ==
    /\ \A i, j \in inc : i.id = j.id => i = j
    /\ p \in {"idle", "fetch", "push", "send", "complete"} => inc = {}
    /\ p \in Pulling => \A i \in inc : \E k \in DOMAIN td : td[k] = i

(* The row being applied is the version seen; once applied, its values are *)
(* in the relational table.                                                *)
HeadSeen(c, st, td, table, p) ==
    /\ p \in {"apply", "remove"} => st[Head(td).id] = [rev |-> Head(td).rev, data |-> Head(td).data]
    /\ p = "remove" => Agrees(c, Head(td).id, table[Head(td).id], Head(td).data)

(* With no row left of a record, its table has what was seen of it. *)
Settled(c, st, inc, table) ==
    \A r \in Record : (\A i \in inc : i.id # r) => Agrees(c, r, table[r], st[r].data)

(* A change is pushed only when no row of its record is waiting, and what  *)
(* the server accepts was merged from the version seen.                    *)
PushBase(st, inc, bt, rp, p) ==
    /\ p \in {"send", "complete"} =>
          \A k \in DOMAIN bt : /\ \A i \in inc : i.id # bt[k].change.id
                               /\ \/ bt[k].parent = st[bt[k].change.id]
                                  \/ bt[k].parent.rev < st[bt[k].change.id].rev
    /\ p = "complete" => /\ Head(bt).parent = st[Head(bt).change.id]
                         /\ st[Head(bt).change.id].rev < rp

AppliedOK(c) ==
    /\ InOrder(state[c], incoming[c], todo[c], pc[c])
    /\ faults["handler"] = 0 => AllProcessed(incoming[c], todo[c], pc[c])
    /\ HeadSeen(c, state[c], todo[c], rel[c], pc[c])
    /\ Settled(c, state[c], incoming[c], rel[c])
    /\ PushBase(state[c], incoming[c], batch[c], reply[c], pc[c])

AppliedInv ==
    /\ faults \in [FaultKind -> Nat]
    /\ \A c \in Client : Own(c) /\ Passed(c)
    /\ faults["handler"] <= 1 => \A c \in Client : AppliedOK(c)

(* A table that agrees with d, after c has written fields of its own. *)
LEMMA OwnWriteAgrees ==
    ASSUME NEW c, NEW r, NEW table \in Data, NEW own \in Data, OwnFields(c, r, own),
           NEW d, Agrees(c, r, table, d)
    PROVE  Agrees(c, r, Overlay(table, own), d)
<1> SUFFICES ASSUME NEW f \in DOMAIN d, <<c, r, f>> \notin Writes
             PROVE  f \in DOMAIN Overlay(table, own) /\ Overlay(table, own)[f] = d[f]
  BY DEF Agrees
<1>1. f \in DOMAIN table /\ table[f] = d[f] /\ f \notin DOMAIN own
  BY DEF Agrees, OwnFields
<1> QED BY <1>1, OverlayFacts

(* The initial state. *)
LEMMA AppliedInit == Init => AppliedInv
<1> SUFFICES ASSUME Init PROVE AppliedInv
  OBVIOUS
<1> USE DEF Init
<1>1. faults \in [FaultKind -> Nat]
  OBVIOUS
<1>2. ASSUME NEW c \in Client PROVE Own(c) /\ Passed(c) /\ AppliedOK(c)
  <2>1. /\ writing[c] = {} /\ overlay[c] = <<>> /\ pc[c] = "down" /\ incoming[c] = {} /\ cursor[c] = 0
        /\ \A r \in Record : state[c][r] = NoVersion
    OBVIOUS
  <2>2. Own(c) /\ Passed(c)
    BY <2>1 DEF Own, Passed, NoVersion
  <2>3. Settled(c, state[c], incoming[c], rel[c])
    BY <2>1, NoDataFacts DEF Settled, Agrees, NoVersion
  <2>4. /\ InOrder(state[c], incoming[c], todo[c], pc[c]) /\ AllProcessed(incoming[c], todo[c], pc[c])
        /\ HeadSeen(c, state[c], todo[c], rel[c], pc[c])
        /\ PushBase(state[c], incoming[c], batch[c], reply[c], pc[c])
    BY <2>1 DEF InOrder, AllProcessed, HeadSeen, PushBase, Pulling
  <2> QED BY <2>2, <2>3, <2>4 DEF AppliedOK
<1> QED BY <1>1, <1>2 DEF AppliedInv

(* Everything of the other clients that the invariant speaks of. *)
AppliedFrame(c) ==
    \A d \in Client \ {c} :
        /\ pc'[d] = pc[d] /\ todo'[d] = todo[d] /\ batch'[d] = batch[d] /\ reply'[d] = reply[d]
        /\ state'[d] = state[d] /\ incoming'[d] = incoming[d] /\ cursor'[d] = cursor[d] /\ rel'[d] = rel[d]
        /\ overlay'[d] = overlay[d] /\ writing'[d] = writing[d]

FaultsGrow == faults' \in [FaultKind -> Nat] /\ faults["handler"] <= faults'["handler"]

LEMMA FaultFacts ==
    ASSUME AppliedInv, NEW kind \in FaultKind, Fault(kind)
    PROVE  /\ FaultsGrow
           /\ kind # "handler" => faults'["handler"] = faults["handler"]
           /\ kind = "handler" => faults'["handler"] = faults["handler"] + 1
<1>1. faults \in [FaultKind -> Nat] /\ faults' = [faults EXCEPT ![kind] = faults[kind] + 1]
  BY DEF AppliedInv, Fault
<1>2. "handler" \in FaultKind
  BY DEF FaultKind
<1> QED BY <1>1, <1>2 DEF FaultsGrow

LEMMA NoFaultFacts ==
    ASSUME AppliedInv, faults' = faults
    PROVE  FaultsGrow /\ faults["handler"] \in Nat
<1>1. "handler" \in FaultKind
  BY DEF FaultKind
<1> QED BY <1>1 DEF FaultsGrow, AppliedInv

LEMMA AppliedOthers ==
    ASSUME AppliedInv, NEW c \in Client, AppliedFrame(c), FaultsGrow, Own(c)', Passed(c)',
           faults'["handler"] <= 1 /\ AppliedOK(c) => AppliedOK(c)'
    PROVE  AppliedInv'
<1>0. faults["handler"] \in Nat /\ faults'["handler"] \in Nat /\ faults["handler"] <= faults'["handler"]
  BY DEF FaultsGrow, AppliedInv, FaultKind
<1>1. ASSUME NEW d \in Client, d # c PROVE Own(d)' /\ Passed(d)'
  BY <1>1 DEF AppliedFrame, AppliedInv, Own, Passed
<1>2. ASSUME NEW d \in Client, d # c, faults'["handler"] <= 1 PROVE AppliedOK(d)'
  <2>1. AppliedOK(d) /\ (faults'["handler"] = 0 => faults["handler"] = 0)
    BY <1>0, <1>2 DEF AppliedInv
  <2> QED BY <1>2, <2>1 DEF AppliedFrame, AppliedOK
<1>3. faults'["handler"] <= 1 => AppliedOK(c)
  BY <1>0 DEF AppliedInv
<1> QED BY <1>1, <1>2, <1>3 DEF AppliedInv, FaultsGrow

-----------------------------------------------------------------------------
(* Steps that leave the tables and the loop alone. *)
LEMMA AppliedSameLoop ==
    ASSUME AppliedInv, NEW c \in Client, UNCHANGED <<state, incoming, cursor, rel, loopVars>>,
           FaultsGrow, faults'["handler"] = faults["handler"], Own(c)',
           \A d \in Client \ {c} : writing'[d] = writing[d]
    PROVE  AppliedInv'
<1>1. AppliedFrame(c) /\ Passed(c)'
  BY DEF AppliedFrame, loopVars, AppliedInv, Passed
<1>2. AppliedOK(c) => AppliedOK(c)'
  BY DEF AppliedOK, loopVars
<1> QED BY <1>1, <1>2, AppliedOthers

(* Steps that leave the tables alone and end what the loop was doing. *)
LEMMA AppliedEnds ==
    ASSUME AppliedInv, NEW c \in Client, UNCHANGED <<state, incoming, cursor, rel>>,
           AppliedFrame(c), FaultsGrow, faults'["handler"] = faults["handler"], Own(c)',
           \/ pc'[c] = "down"
           \/ pc[c] \in {"idle", "fetch", "push", "send", "complete"} /\ pc'[c] \in {"idle", "fetch", "push"}
    PROVE  AppliedInv'
<1>1. Passed(c)'
  BY DEF AppliedInv, Passed
<1>2. ASSUME AppliedOK(c) PROVE AppliedOK(c)'
  <2>1. pc'[c] \notin Pulling \cup {"send", "complete"}
    BY DEF Pulling
  <2>2. InOrder(state[c], incoming[c], todo'[c], pc'[c]) /\ PushBase(state[c], incoming[c], batch'[c], reply'[c], pc'[c])
        /\ HeadSeen(c, state[c], todo'[c], rel[c], pc'[c])
    BY <1>2, <2>1 DEF AppliedOK, InOrder, PushBase, HeadSeen, Pulling
  <2>3. faults["handler"] = 0 => AllProcessed(incoming[c], todo'[c], pc'[c])
    BY <1>2, <2>1 DEF AppliedOK, AllProcessed, Pulling
  <2> QED BY <1>2, <2>2, <2>3 DEF AppliedOK
<1> QED BY <1>1, <1>2, AppliedOthers

LEMMA AppliedSignals ==
    ASSUME SyncInv, AppliedInv, NEW c \in Client, OnNotification(c) \/ OnBackoff(c) \/ OnPush(c)
    PROVE  AppliedInv'
<1>1. UNCHANGED <<tables, localVars, todo, overlay, batch, reply, faults>>
  BY DEF OnNotification, OnBackoff, OnPush
<1>2. pc[c] = "idle" /\ pc'[c] \in {"fetch", "push"} /\ \A d \in Client \ {c} : pc'[d] = pc[d]
  BY DEF OnNotification, OnBackoff, OnPush, Set, SyncInv, SyncType, LoopType
<1>3. AppliedFrame(c) /\ Own(c)'
  BY <1>1, <1>2 DEF AppliedFrame, tables, localVars, AppliedInv, Own
<1> QED BY <1>1, <1>2, <1>3, NoFaultFacts, AppliedEnds DEF tables

LEMMA AppliedFetchFails ==
    ASSUME SyncInv, AppliedInv, NEW c \in Client, FetchFails(c)
    PROVE  AppliedInv'
<1> DEFINE kind == IF mode[c] \in {"push", "backoff"} THEN "retried" ELSE "left"
<1>1. UNCHANGED <<tables, localVars, todo, overlay, batch, reply>> /\ Fault(kind)
  BY DEF FetchFails
<1>2. pc[c] = "fetch" /\ pc'[c] = "idle" /\ \A d \in Client \ {c} : pc'[d] = pc[d]
  BY DEF FetchFails, Set, SyncInv, SyncType, LoopType
<1>3. AppliedFrame(c) /\ Own(c)'
  BY <1>1, <1>2 DEF AppliedFrame, tables, localVars, AppliedInv, Own
<1>4. kind \in FaultKind /\ kind # "handler"
  BY DEF FaultKind
<1> HIDE DEF kind
<1> QED BY <1>1, <1>2, <1>3, <1>4, FaultFacts, AppliedEnds DEF tables

LEMMA AppliedCrash ==
    ASSUME SyncInv, AppliedInv, NEW c \in Client, Crash(c)
    PROVE  AppliedInv'
<1>1. UNCHANGED tables /\ Fault("left")
  BY DEF Crash
<1>2. /\ pc'[c] = "down" /\ writing'[c] = {} /\ overlay'[c] = <<>>
      /\ \A d \in Client \ {c} : /\ pc'[d] = pc[d] /\ todo'[d] = todo[d] /\ batch'[d] = batch[d]
                                 /\ reply'[d] = reply[d] /\ overlay'[d] = overlay[d] /\ writing'[d] = writing[d]
  BY DEF Crash, Set, SyncInv, SyncType, LoopType, LocalType
<1>3. AppliedFrame(c) /\ Own(c)'
  BY <1>1, <1>2 DEF AppliedFrame, tables, Own
<1>4. "left" \in FaultKind
  BY DEF FaultKind
<1> QED BY <1>1, <1>2, <1>3, <1>4, FaultFacts, AppliedEnds DEF tables

LEMMA AppliedNotes ==
    ASSUME SyncInv, AppliedInv, NEW c \in Client, Deliver(c) \/ LoseNotification(c)
    PROVE  AppliedInv'
<1>1. UNCHANGED <<tables, localVars, loopVars>> /\ (faults' = faults \/ Fault("left"))
  BY DEF Deliver, LoseNotification
<1>2. "left" \in FaultKind
  BY DEF FaultKind
<1>3. FaultsGrow /\ faults'["handler"] = faults["handler"]
  BY <1>1, <1>2, FaultFacts, NoFaultFacts
<1>4. Own(c)'
  BY <1>1 DEF AppliedInv, Own, localVars, loopVars
<1> QED BY <1>1, <1>3, <1>4, AppliedSameLoop DEF tables, localVars

LEMMA AppliedSetOutgoing ==
    ASSUME SyncInv, AppliedInv, NEW c \in Client, NEW r, NEW f, SetOutgoingRecord(c, r, f)
    PROVE  AppliedInv'
<1> DEFINE fields == [g \in {f} |-> writes[c] + 1]
           w == [id |-> r, fields |-> fields]
<1>1. /\ UNCHANGED <<state, incoming, cursor, rel, loopVars, faults>> /\ <<c, r, f>> \in Writes
      /\ writing' = [writing EXCEPT ![c] = writing[c] \cup {w}]
  BY DEF SetOutgoingRecord
<1>2. OwnFields(c, w.id, w.fields)
  BY <1>1 DEF OwnFields
<1> HIDE DEF w
<1>3. writing'[c] = writing[c] \cup {w} /\ \A d \in Client \ {c} : writing'[d] = writing[d]
  BY <1>1 DEF SyncInv, SyncType, LocalType
<1>4. Own(c)'
  BY <1>1, <1>2, <1>3 DEF AppliedInv, Own, loopVars
<1> QED BY <1>1, <1>3, <1>4, NoFaultFacts, AppliedSameLoop

-----------------------------------------------------------------------------
(* The relational table, written by the client's own writers. *)
LEMMA AppliedOwnWrite ==
    ASSUME SyncInv, AppliedInv, NEW c \in Client, NEW r \in Record, NEW own \in Data, OwnFields(c, r, own),
           WriteTo(c, r, own), UNCHANGED <<state, incoming, cursor, todo, overlay, batch, reply, faults>>,
           Own(c)', \A d \in Client \ {c} : pc'[d] = pc[d] /\ writing'[d] = writing[d],
           pc'[c] = pc[c] \/ (pc[c] = "down" /\ pc'[c] = "local")
    PROVE  AppliedInv'
<1>0. rel \in [Client -> [Record -> Data]]
  BY DEF SyncInv, SyncType, TablesType
<1> DEFINE t == Overlay(rel[c][r], own)
<1>1. rel' = [rel EXCEPT ![c][r] = t]
  BY DEF WriteTo
<1>2. rel[c][r] \in Data /\ \A d : Agrees(c, r, rel[c][r], d) => Agrees(c, r, t, d)
  BY <1>0, OwnWriteAgrees
<1> HIDE DEF t
<1>3. rel'[c][r] = t /\ \A s \in Record \ {r} : rel'[c][s] = rel[c][s]
  BY <1>0, <1>1
<1>4. \A s \in Record : \A d : Agrees(c, s, rel[c][s], d) => Agrees(c, s, rel'[c][s], d)
  BY <1>2, <1>3
<1>5. AppliedFrame(c) /\ Passed(c)'
  BY <1>0, <1>1 DEF AppliedFrame, AppliedInv, Passed
<1>6. ASSUME AppliedOK(c) PROVE AppliedOK(c)'
  <2>1. Settled(c, state[c], incoming[c], rel'[c])
    BY <1>4, <1>6 DEF AppliedOK, Settled
  <2>2. HeadSeen(c, state[c], todo[c], rel'[c], pc'[c])
    <3> SUFFICES ASSUME pc'[c] \in {"apply", "remove"} PROVE HeadSeen(c, state[c], todo[c], rel'[c], pc'[c])
      BY DEF HeadSeen
    <3>1. pc'[c] = pc[c] /\ HeadSeen(c, state[c], todo[c], rel[c], pc[c])
      BY <1>6 DEF AppliedOK
    <3>2. Head(todo[c]).id \in Record
      <4>1. todo[c] \in Seq(Row) /\ todo[c] # <<>>
        BY <3>1 DEF SyncInv, SyncType, LoopType, ClientOK, Shape
      <4>2. Head(todo[c]) \in Row
        BY <4>1
      <4> QED BY <4>2 DEF Row
    <3> QED BY <1>4, <3>1, <3>2 DEF HeadSeen
  <2>3. /\ InOrder(state[c], incoming[c], todo[c], pc'[c])
        /\ faults["handler"] = 0 => AllProcessed(incoming[c], todo[c], pc'[c])
        /\ PushBase(state[c], incoming[c], batch[c], reply[c], pc'[c])
    BY <1>6 DEF AppliedOK, InOrder, AllProcessed, PushBase, Pulling
  <2> QED BY <2>1, <2>2, <2>3 DEF AppliedOK
<1> QED BY <1>5, <1>6, NoFaultFacts, AppliedOthers

LEMMA AppliedWriteRelational ==
    ASSUME SyncInv, AppliedInv, NEW c \in Client, NEW w, WriteRelational(c, w)
    PROVE  AppliedInv'
<1>1. /\ w \in writing[c] /\ WriteTo(c, w.id, w.fields) /\ writing' = [writing EXCEPT ![c] = writing[c] \ {w}]
      /\ UNCHANGED <<state, incoming, cursor, loopVars, faults>>
  BY DEF WriteRelational
<1>2. w.id \in Record /\ w.fields \in Data /\ OwnFields(c, w.id, w.fields)
  <2>1. w \in [id : Record, fields : Data]
    BY <1>1 DEF SyncInv, SyncType, LocalType
  <2> QED BY <1>1, <2>1 DEF AppliedInv, Own
<1>3. writing'[c] = writing[c] \ {w} /\ \A d \in Client \ {c} : writing'[d] = writing[d]
  BY <1>1 DEF SyncInv, SyncType, LocalType
<1>4. Own(c)'
  BY <1>1, <1>3 DEF AppliedInv, Own, loopVars
<1> QED BY <1>1, <1>2, <1>3, <1>4, AppliedOwnWrite DEF loopVars

LEMMA AppliedStart ==
    ASSUME SyncInv, AppliedInv, NEW c \in Client, Start(c)
    PROVE  AppliedInv'
<1>1. UNCHANGED <<state, incoming, cursor, localVars, todo, overlay, batch, reply, faults>>
  BY DEF Start
<1>2. pc[c] = "down" /\ pc'[c] = "local" /\ \A d \in Client \ {c} : pc'[d] = pc[d]
  BY DEF Start, Set, SyncInv, SyncType, LoopType
<1>3. Own(c)'
  BY <1>1 DEF AppliedInv, Own, localVars
<1>4. CASE outgoing[c] = <<>>
  <2>1. rel' = rel
    BY <1>4 DEF Start
  <2>2. AppliedFrame(c) /\ Passed(c)'
    BY <1>1, <1>2, <2>1 DEF AppliedFrame, AppliedInv, Passed, localVars
  <2>3. ASSUME AppliedOK(c) PROVE AppliedOK(c)'
    BY <1>1, <1>2, <2>1, <2>3 DEF AppliedOK, InOrder, AllProcessed, HeadSeen, PushBase, Pulling
  <2> QED BY <1>1, <1>3, <2>2, <2>3, NoFaultFacts, AppliedOthers
<1>5. CASE outgoing[c] # <<>>
  <2> DEFINE o == Last(outgoing[c])
  <2>1. WriteTo(c, o.id, o.fields)
    BY <1>5 DEF Start
  <2>2. o \in Change /\ \E i \in DOMAIN outgoing[c] : o = outgoing[c][i]
    <3>1. outgoing[c] \in Seq(Change)
      BY DEF SyncInv, SyncType, TablesType
    <3>2. Len(outgoing[c]) \in DOMAIN outgoing[c]
      BY <1>5, <3>1
    <3> QED BY <3>1, <3>2 DEF Last
  <2> HIDE DEF o
  <2>3. o.id \in Record /\ o.fields \in Data /\ OwnFields(c, o.id, o.fields)
    BY <2>2 DEF Change, SyncInv, ClientOK, Queue, OwnFields
  <2> QED BY <1>1, <1>2, <1>3, <2>1, <2>3, AppliedOwnWrite DEF localVars
<1> QED BY <1>4, <1>5

-----------------------------------------------------------------------------
(* list_changes: what it lists is newer than anything seen. *)
LEMMA AppliedFetch ==
    ASSUME SyncInv, AppliedInv, NEW c \in Client, Fetch(c)
    PROVE  AppliedInv'
<1> DEFINE new == Changes(c)
<1>0. \A i \in new : i.id \in Record /\ i.rev = Latest(i.id).rev /\ i.data = Latest(i.id).data /\ i.rev > cursor[c]
  BY DEF Changes
<1>1. /\ incoming' = [incoming EXCEPT ![c] = incoming[c] \cup new]
      /\ UNCHANGED <<state, cursor, rel, localVars, todo, overlay, batch, reply, faults>>
  BY DEF Fetch
<1>2. pc[c] = "fetch" /\ pc'[c] = "local" /\ \A d \in Client \ {c} : pc'[d] = pc[d]
  BY DEF Fetch, Set, SyncInv, SyncType, LoopType
<1>3. /\ new \subseteq Row /\ cursor[c] \in Nat /\ \A r \in Record : state[c][r].rev \in Nat
      /\ incoming'[c] = incoming[c] \cup new /\ \A d \in Client \ {c} : incoming'[d] = incoming[d]
  BY <1>1, ChangesFacts DEF SyncInv, SyncType, TablesType, Version
<1> HIDE DEF new
<1>4. AppliedFrame(c) /\ Own(c)' /\ Passed(c)'
  BY <1>1, <1>2, <1>3 DEF AppliedFrame, localVars, AppliedInv, Own, Passed
<1>5. ASSUME AppliedOK(c) PROVE AppliedOK(c)'
  <2>1. ASSUME NEW i \in incoming'[c] PROVE state[c][i.id].rev <= i.rev
    <3>1. CASE i \in incoming[c]
      BY <1>5, <3>1 DEF AppliedOK, InOrder
    <3>2. CASE i \in new
      <4>1. i.rev \in Nat /\ i.rev > cursor[c] /\ i.id \in Record
        BY <1>0, <1>3, <3>2 DEF Row
      <4>2. state[c][i.id].rev <= cursor[c] /\ state[c][i.id].rev \in Nat
        BY <1>3, <4>1 DEF AppliedInv, Passed
      <4> QED BY <1>3, <4>1, <4>2
    <3> QED BY <1>3, <3>1, <3>2
  <2>2. faults["handler"] = 0 => AllProcessed(incoming'[c], todo[c], pc'[c])
    <3> SUFFICES ASSUME faults["handler"] = 0 PROVE AllProcessed(incoming'[c], todo[c], pc'[c])
      OBVIOUS
    <3>1. incoming[c] = {}
      BY <1>2, <1>5 DEF AppliedOK, AllProcessed
    <3>2. ASSUME NEW i \in new, NEW j \in new, i.id = j.id PROVE i = j
      <4>1. i \in Row /\ j \in Row
        BY <1>3
      <4> QED BY <1>0, <3>2, <4>1 DEF Row
    <3> QED BY <1>2, <1>3, <3>1, <3>2 DEF AllProcessed, Pulling
  <2>3. Settled(c, state[c], incoming'[c], rel[c])
    BY <1>3, <1>5 DEF AppliedOK, Settled
  <2>4. /\ InOrder(state[c], incoming'[c], todo[c], pc'[c])
        /\ HeadSeen(c, state[c], todo[c], rel[c], pc'[c])
        /\ PushBase(state[c], incoming'[c], batch[c], reply[c], pc'[c])
    BY <1>2, <2>1 DEF InOrder, HeadSeen, PushBase, Pulling
  <2> QED BY <1>1, <2>2, <2>3, <2>4 DEF AppliedOK
<1> QED BY <1>1, <1>4, <1>5, NoFaultFacts, AppliedOthers

(* A listing by revision has every row once, in order. *)
LEMMA ListingFacts ==
    ASSUME NEW S, S \subseteq Row, IsFiniteSet(S), NEW s \in ByRevision(S)
    PROVE  /\ s \in Seq(Row)
           /\ \A k \in DOMAIN s : s[k] \in S
           /\ \A i \in S : \E k \in DOMAIN s : s[k] = i
           /\ \A j, k \in DOMAIN s : j < k => s[j].rev <= s[k].rev /\ s[j] # s[k]
<1>1. s \in Seq(Row) /\ \A k \in DOMAIN s : s[k] \in S
  BY ByRevisionFacts
<1> DEFINE n == Cardinality(S)
<1>2. n \in Nat /\ s \in [1..n -> S] /\ \A j, k \in 1..n : j # k => s[j] # s[k]
  BY FS_CardinalityType DEF ByRevision, SetToSeqs
<1>3. \A i \in S : \E k \in DOMAIN s : s[k] = i
  <2>1. s \in Injection(1..n, S)
    BY <1>2 DEF Injection, IsInjective
  <2>2. Cardinality(1..n) = n
    BY <1>2, FS_Interval
  <2>3. s \in Surjection(1..n, S)
    BY <2>1, <2>2, FS_Injection
  <2> QED BY <1>2, <2>3 DEF Surjection
<1>4. \A j, k \in DOMAIN s : j < k => s[j].rev <= s[k].rev
  BY DEF ByRevision
<1>5. \A j, k \in DOMAIN s : j < k => s[j] # s[k]
  BY <1>2
<1> QED BY <1>1, <1>3, <1>4, <1>5

(* Where PullRest leaves the loop. *)
LEMMA PullRestLoop ==
    ASSUME SyncInv, NEW c \in Client, NEW rest \in Seq(Row), NEW pending, PullRest(c, rest, pending)
    PROVE  /\ todo'[c] = rest /\ overlay'[c] \in {<<>>, pending}
           /\ rest # <<>> => pc'[c] = "record"
           /\ rest = <<>> => pc'[c] \in {"idle", "fetch", "push"}
           /\ \A d \in Client \ {c} : todo'[d] = todo[d] /\ overlay'[d] = overlay[d] /\ pc'[d] = pc[d]
<1> USE DEF SyncInv, SyncType, LoopType, Set, PullRest
<1>1. /\ todo'[c] = rest /\ overlay'[c] \in {<<>>, pending}
      /\ \A d \in Client \ {c} : todo'[d] = todo[d] /\ overlay'[d] = overlay[d]
  OBVIOUS
<1>2. CASE rest # <<>>
  BY <1>1, <1>2
<1>3. CASE rest = <<>>
  <2>1. pc' = [pc EXCEPT ![c] = CASE mode[c] = "start"              -> "fetch"
                                  [] mode[c] \in {"init", "notify"} -> "idle"
                                  [] OTHER                          -> "push"]
    BY <1>3
  <2>2. mode[c] = "start" \/ mode[c] \in {"init", "notify"} \/ mode[c] \notin {"start", "init", "notify"}
    OBVIOUS
  <2> QED BY <1>1, <1>3, <2>1, <2>2
<1> QED BY <1>2, <1>3

LEMMA AppliedReadIncoming ==
    ASSUME SyncInv, AppliedInv, NEW c \in Client, ReadIncoming(c)
    PROVE  AppliedInv'
<1>1. PICK rows \in ByRevision(incoming[c]) : PullRest(c, rows, outgoing[c])
  BY DEF ReadIncoming
<1>2. UNCHANGED <<tables, localVars, batch, reply, faults>> /\ pc[c] = "local"
  BY DEF ReadIncoming
<1>3. /\ rows \in Seq(Row)
      /\ \A k \in DOMAIN rows : rows[k] \in incoming[c]
      /\ \A i \in incoming[c] : \E k \in DOMAIN rows : rows[k] = i
      /\ \A j, k \in DOMAIN rows : j < k => rows[j].rev <= rows[k].rev /\ rows[j] # rows[k]
  BY ListingFacts DEF SyncInv, SyncType, TablesType
<1>4. /\ todo'[c] = rows /\ overlay'[c] \in {<<>>, outgoing[c]}
      /\ rows # <<>> => pc'[c] = "record"
      /\ rows = <<>> => pc'[c] \in {"idle", "fetch", "push"}
      /\ \A d \in Client \ {c} : todo'[d] = todo[d] /\ overlay'[d] = overlay[d] /\ pc'[d] = pc[d]
  BY <1>1, <1>3, PullRestLoop
<1>5. Own(c)'
  <2>1. \A k \in DOMAIN outgoing[c] : OwnFields(c, outgoing[c][k].id, outgoing[c][k].fields)
    BY DEF SyncInv, ClientOK, Queue, OwnFields
  <2>2. \A k \in DOMAIN overlay'[c] : OwnFields(c, overlay'[c][k].id, overlay'[c][k].fields)
    BY <1>4, <2>1
  <2> QED BY <1>2, <2>2 DEF AppliedInv, Own, localVars
<1>6. AppliedFrame(c) /\ Passed(c)'
  BY <1>2, <1>4 DEF AppliedFrame, tables, localVars, AppliedInv, Passed
<1>7. ASSUME AppliedOK(c) PROVE AppliedOK(c)'
  <2>1. InOrder(state[c], incoming[c], rows, pc'[c])
    BY <1>3, <1>7 DEF AppliedOK, InOrder
  <2>2. faults["handler"] = 0 => AllProcessed(incoming[c], rows, pc'[c])
    BY <1>3, <1>4, <1>7 DEF AppliedOK, AllProcessed
  <2>3. HeadSeen(c, state[c], rows, rel[c], pc'[c]) /\ PushBase(state[c], incoming[c], batch[c], reply[c], pc'[c])
    BY <1>4 DEF HeadSeen, PushBase
  <2> QED BY <1>2, <1>4, <1>7, <2>1, <2>2, <2>3 DEF AppliedOK, tables
<1> QED BY <1>2, <1>5, <1>6, <1>7, NoFaultFacts, AppliedOthers

(* The row the loop is at. *)
LEMMA RowFacts ==
    ASSUME SyncInv, NEW c \in Client, pc[c] \in Pulling, NEW i, i = Head(todo[c])
    PROVE  /\ todo[c] \in Seq(Row) /\ todo[c] # <<>> /\ i = todo[c][1] /\ 1 \in DOMAIN todo[c]
           /\ DOMAIN todo[c] = 1 .. Len(todo[c]) /\ Len(todo[c]) \in Nat
           /\ i \in Row /\ i.id \in Record /\ i.rev \in Nat /\ i.data \in Data /\ TrueRow(log, i)
<1>1. todo[c] \in Seq(Row) /\ todo[c] # <<>>
  BY DEF SyncInv, SyncType, LoopType, ClientOK, Shape, Pulling
<1>2. i = todo[c][1] /\ 1 \in DOMAIN todo[c] /\ todo[c][1] \in Row
  BY <1>1
<1>3. TrueRow(log, i)
  BY <1>2 DEF SyncInv, ClientOK, Versions
<1> QED BY <1>1, <1>2, <1>3 DEF Row

(* The other rows of the record are not older than the one the loop is at. *)
LEMMA HeadIsOldest ==
    ASSUME SyncInv, NEW c \in Client, pc[c] \in Pulling, NEW i, i = Head(todo[c]),
           InOrder(state[c], incoming[c], todo[c], pc[c]), NEW x \in incoming[c], x.id = i.id
    PROVE  i.rev <= x.rev
<1>1. /\ todo[c] \in Seq(Row) /\ i = todo[c][1] /\ 1 \in DOMAIN todo[c] /\ i.rev \in Nat
      /\ DOMAIN todo[c] = 1 .. Len(todo[c]) /\ Len(todo[c]) \in Nat
  BY RowFacts
<1>2. PICK k \in DOMAIN todo[c] : todo[c][k] = x
  BY <1>1 DEF InOrder
<1>3. CASE k = 1
  BY <1>1, <1>2, <1>3
<1>4. CASE k # 1
  <2>1. 1 < k
    BY <1>1, <1>4
  <2> QED BY <1>1, <1>2, <2>1 DEF InOrder
<1> QED BY <1>3, <1>4

LEMMA MaxAtLeast ==
    ASSUME NEW m \in Nat, NEW n \in Nat
    PROVE  Max({m, n}) \in Nat /\ m <= Max({m, n}) /\ n <= Max({m, n})
<1> DEFINE S == {m, n}
<1>1. S \subseteq Nat /\ S # {} /\ m + n \in Nat /\ m \in S /\ n \in S /\ \A y \in S : y <= m + n
  OBVIOUS
<1> HIDE DEF S
<1>2. Max(S) \in S /\ \A y \in S : y <= Max(S)
  BY <1>1, MaxBounded
<1> QED BY <1>1, <1>2 DEF S

LEMMA AppliedUpdateState ==
    ASSUME SyncInv, AppliedInv, NEW c \in Client, UpdateState(c)
    PROVE  AppliedInv'
<1> DEFINE i == Head(todo[c])
           v == [rev |-> i.rev, data |-> i.data]
<1>1. UNCHANGED <<incoming, rel, localVars, todo, overlay, batch, reply, faults>> /\ pc[c] = "record"
  BY DEF UpdateState
<1>2. pc'[c] = "apply" /\ \A d \in Client \ {c} : pc'[d] = pc[d]
  BY DEF UpdateState, Set, SyncInv, SyncType, LoopType
<1>3. /\ i.id \in Record /\ i.rev \in Nat /\ i.data \in Data /\ TrueRow(log, i) /\ pc[c] \in Pulling
      /\ todo[c] # <<>> /\ i = todo[c][1] /\ 1 \in DOMAIN todo[c]
  BY <1>1, RowFacts DEF Pulling
<1>4. CASE state[c][i.id].rev < i.rev
  <2> DEFINE m == Max({cursor[c], i.rev})
  <2>1. state' = [state EXCEPT ![c][i.id] = v] /\ cursor' = [cursor EXCEPT ![c] = m]
    BY <1>4 DEF UpdateState
  <2>2. cursor[c] \in Nat /\ \A r \in Record : state[c][r].rev \in Nat
    BY DEF SyncInv, SyncType, TablesType, Version
  <2>3. m \in Nat /\ cursor[c] <= m /\ i.rev <= m
    BY <1>3, <2>2, MaxAtLeast
  <2> HIDE DEF m, v, i
  <2>4. /\ state'[c][i.id] = v /\ cursor'[c] = m
        /\ \A r \in Record \ {i.id} : state'[c][r] = state[c][r]
        /\ \A d \in Client \ {c} : state'[d] = state[d] /\ cursor'[d] = cursor[d]
    BY <1>3, <2>1 DEF SyncInv, SyncType, TablesType
  <2>5. v.rev = i.rev /\ v = [rev |-> i.rev, data |-> i.data]
    BY DEF v
  <2>6. Passed(c)'
    <3> SUFFICES ASSUME NEW r \in Record PROVE state'[c][r].rev <= m
      BY <2>4 DEF Passed
    <3>1. CASE r = i.id
      BY <2>3, <2>4, <2>5, <3>1
    <3>2. CASE r # i.id
      <4>1. state[c][r].rev <= cursor[c] /\ state[c][r].rev \in Nat
        BY <2>2 DEF AppliedInv, Passed
      <4> QED BY <2>2, <2>3, <2>4, <3>2, <4>1
    <3> QED BY <3>1, <3>2
  <2>7. AppliedFrame(c) /\ Own(c)'
    BY <1>1, <1>2, <2>4 DEF AppliedFrame, localVars, AppliedInv, Own
  <2>8. ASSUME AppliedOK(c) PROVE AppliedOK(c)'
    <3>1. InOrder(state[c], incoming[c], todo[c], pc[c])
      BY <2>8 DEF AppliedOK
    <3>2. ASSUME NEW x \in incoming[c] PROVE state'[c][x.id].rev <= x.rev
      <4>1. CASE x.id = i.id
        <5>1. i.rev <= x.rev
          BY <1>3, <3>1, <4>1, HeadIsOldest DEF i
        <5> QED BY <2>4, <2>5, <4>1, <5>1
      <4>2. CASE x.id # i.id
        <5>1. x.id \in Record
          BY DEF SyncInv, SyncType, TablesType, Row
        <5> QED BY <2>4, <3>1, <4>2, <5>1 DEF InOrder
      <4> QED BY <4>1, <4>2
    <3>3. InOrder(state'[c], incoming[c], todo[c], pc'[c])
      BY <1>2, <1>3, <3>1, <3>2 DEF InOrder
    <3>4. faults["handler"] = 0 => AllProcessed(incoming[c], todo[c], pc'[c])
      BY <1>1, <1>2, <2>8 DEF AppliedOK, AllProcessed, Pulling
    <3>5. HeadSeen(c, state'[c], todo[c], rel[c], pc'[c])
      BY <1>2, <2>4, <2>5 DEF HeadSeen, i
    <3>6. Settled(c, state'[c], incoming[c], rel[c])
      <4>1. i \in incoming[c]
        BY <1>3, <3>1 DEF InOrder
      <4> QED BY <2>4, <2>8, <4>1 DEF AppliedOK, Settled
    <3>7. PushBase(state'[c], incoming[c], batch[c], reply[c], pc'[c])
      BY <1>2 DEF PushBase
    <3> QED BY <1>1, <3>3, <3>4, <3>5, <3>6, <3>7 DEF AppliedOK
  <2> QED BY <1>1, <2>6, <2>7, <2>8, NoFaultFacts, AppliedOthers
<1>5. CASE ~(state[c][i.id].rev < i.rev)
  <2>1. state' = state /\ cursor' = cursor
    BY <1>5 DEF UpdateState
  <2> HIDE DEF v, i
  <2>2. AppliedFrame(c) /\ Own(c)' /\ Passed(c)'
    BY <1>1, <1>2, <2>1 DEF AppliedFrame, localVars, AppliedInv, Own, Passed
  <2>3. ASSUME AppliedOK(c) PROVE AppliedOK(c)'
    <3>1. InOrder(state[c], incoming[c], todo[c], pc[c])
      BY <2>3 DEF AppliedOK
    <3>2. state[c][i.id] = v
      <4> DEFINE u == state[c][i.id]
      <4>1. u.rev <= i.rev
        BY <1>3, <3>1 DEF InOrder
      <4>2. u \in Version
        BY <1>3 DEF SyncInv, SyncType, TablesType
      <4>3. TrueVersion(log, u, i.id)
        BY <1>3 DEF SyncInv, ClientOK, Versions
      <4> HIDE DEF u
      <4>4. u.rev \in Nat /\ u = [rev |-> u.rev, data |-> u.data]
        BY <4>2 DEF Version
      <4>5. u.rev = i.rev
        BY <1>3, <1>5, <4>1, <4>4 DEF u
      <4>6. u # NoVersion
        <5>1. i.rev # 0
          <6>1. i.rev \in DOMAIN log /\ log \in Seq(Entry)
            BY <1>3 DEF TrueRow, SyncInv, SyncType, TablesType
          <6> QED BY <6>1
        <5> QED BY <4>5, <5>1 DEF NoVersion
      <4>7. log[u.rev] = [id |-> i.id, data |-> u.data] /\ log[i.rev] = [id |-> i.id, data |-> i.data]
        BY <1>3, <4>3, <4>6 DEF TrueVersion, TrueRow
      <4>8. u.data = i.data
        BY <4>5, <4>7
      <4> QED BY <4>4, <4>5, <4>8 DEF u, v
    <3>3. InOrder(state[c], incoming[c], todo[c], pc'[c])
      BY <1>2, <1>3, <3>1 DEF InOrder
    <3>4. faults["handler"] = 0 => AllProcessed(incoming[c], todo[c], pc'[c])
      BY <1>1, <1>2, <2>3 DEF AppliedOK, AllProcessed, Pulling
    <3>5. HeadSeen(c, state[c], todo[c], rel[c], pc'[c])
      BY <1>2, <3>2 DEF HeadSeen, i, v
    <3>6. PushBase(state[c], incoming[c], batch[c], reply[c], pc'[c])
      BY <1>2 DEF PushBase
    <3> QED BY <1>1, <2>1, <2>3, <3>3, <3>4, <3>5, <3>6 DEF AppliedOK
  <2> QED BY <1>1, <2>2, <2>3, NoFaultFacts, AppliedOthers
<1> QED BY <1>4, <1>5

(* What on_incoming_change writes: the row's fields, and the client's own. *)
LEMMA MergedAgrees ==
    ASSUME NEW c \in Client, Own(c), NEW i \in Row, NEW table \in Data, Merged(c, i) \in Data
    PROVE  Agrees(c, i.id, Overlay(table, Merged(c, i)), i.data)
<1> SUFFICES ASSUME NEW f \in DOMAIN i.data, <<c, i.id, f>> \notin Writes
             PROVE  /\ f \in DOMAIN Overlay(table, Merged(c, i))
                    /\ Overlay(table, Merged(c, i))[f] = i.data[f]
  BY DEF Agrees
<1> DEFINE setters(g) == {k \in DOMAIN overlay[c] : /\ overlay[c][k].id = i.id
                                                    /\ g \in DOMAIN overlay[c][k].fields}
           S == DOMAIN i.data \cup {g \in Field : setters(g) # {}}
           m == [g \in S |-> IF setters(g) = {} THEN i.data[g] ELSE overlay[c][Max(setters(g))].fields[g]]
<1>1. setters(f) = {}
  BY DEF Own, OwnFields
<1>2. Merged(c, i) = m
  BY DEF Merged
<1>3. f \in S /\ m[f] = i.data[f] /\ DOMAIN m = S
  BY <1>1
<1> HIDE DEF S, m
<1>4. f \in DOMAIN Merged(c, i) /\ Merged(c, i)[f] = i.data[f]
  BY <1>2, <1>3
<1> DEFINE e == Merged(c, i)
<1>5. e \in Data /\ f \in DOMAIN e /\ e[f] = i.data[f]
  BY <1>4
<1> HIDE DEF e
<1>6. DOMAIN Overlay(table, e) = DOMAIN table \cup DOMAIN e /\ \A g \in DOMAIN e : Overlay(table, e)[g] = e[g]
  BY <1>5, OverlayFacts
<1>7. f \in DOMAIN Overlay(table, e) /\ Overlay(table, e)[f] = i.data[f]
  BY <1>5, <1>6
<1> QED BY <1>7 DEF e

LEMMA AppliedApply ==
    ASSUME SyncInv, AppliedInv, NEW c \in Client, ApplyIncoming(c)
    PROVE  AppliedInv'
<1> DEFINE i == Head(todo[c])
           t == Overlay(rel[c][i.id], Merged(c, i))
<1>1. /\ UNCHANGED <<state, incoming, cursor, localVars, todo, overlay, batch, reply, faults>>
      /\ pc[c] = "apply" /\ rel' = [rel EXCEPT ![c][i.id] = t]
  BY DEF ApplyIncoming, WriteTo
<1>2. pc'[c] = "remove" /\ \A d \in Client \ {c} : pc'[d] = pc[d]
  BY DEF ApplyIncoming, Set, SyncInv, SyncType, LoopType
<1>3. i \in Row /\ i.id \in Record /\ pc[c] \in Pulling /\ i = todo[c][1] /\ 1 \in DOMAIN todo[c]
  BY <1>1, RowFacts DEF Pulling
<1> HIDE DEF i
<1>4. Agrees(c, i.id, t, i.data)
  <2>1. Merged(c, i) \in Data /\ rel[c][i.id] \in Data
    BY <1>3, MergedFacts DEF SyncInv, SyncType, LoopType, TablesType
  <2> QED BY <1>3, <2>1, MergedAgrees DEF AppliedInv
<1> HIDE DEF t
<1>5. /\ rel'[c][i.id] = t /\ \A r \in Record \ {i.id} : rel'[c][r] = rel[c][r]
      /\ \A d \in Client \ {c} : rel'[d] = rel[d]
  BY <1>1, <1>3 DEF SyncInv, SyncType, TablesType
<1>6. AppliedFrame(c) /\ Own(c)' /\ Passed(c)'
  BY <1>1, <1>2, <1>5 DEF AppliedFrame, localVars, AppliedInv, Own, Passed
<1>7. ASSUME AppliedOK(c) PROVE AppliedOK(c)'
  <2>1. InOrder(state[c], incoming[c], todo[c], pc'[c])
    BY <1>2, <1>3, <1>7 DEF AppliedOK, InOrder
  <2>2. faults["handler"] = 0 => AllProcessed(incoming[c], todo[c], pc'[c])
    BY <1>1, <1>2, <1>7 DEF AppliedOK, AllProcessed, Pulling
  <2>3. HeadSeen(c, state[c], todo[c], rel'[c], pc'[c])
    BY <1>1, <1>2, <1>4, <1>5, <1>7 DEF AppliedOK, HeadSeen, i
  <2>4. Settled(c, state[c], incoming[c], rel'[c])
    <3>1. i \in incoming[c]
      BY <1>3, <1>7 DEF AppliedOK, InOrder
    <3> QED BY <1>5, <1>7, <3>1 DEF AppliedOK, Settled
  <2>5. PushBase(state[c], incoming[c], batch[c], reply[c], pc'[c])
    BY <1>2 DEF PushBase
  <2> QED BY <1>1, <2>1, <2>2, <2>3, <2>4, <2>5 DEF AppliedOK
<1> QED BY <1>1, <1>6, <1>7, NoFaultFacts, AppliedOthers

(* The rows after the first one. *)
LEMMA TailFacts ==
    ASSUME NEW td \in Seq(Row), td # <<>>, NEW rest, rest = Tail(td)
    PROVE  /\ rest \in Seq(Row)
           /\ \A k \in DOMAIN rest : k \in Nat /\ k + 1 \in DOMAIN td /\ 1 < k + 1 /\ rest[k] = td[k + 1]
           /\ \A k \in DOMAIN td : k # 1 => k - 1 \in DOMAIN rest /\ rest[k - 1] = td[k]
           /\ 1 \in DOMAIN td /\ Head(td) = td[1]
<1>1. Len(td) \in Nat /\ DOMAIN td = 1 .. Len(td) /\ Len(td) # 0
  OBVIOUS
<1>2. rest \in Seq(Row) /\ Len(rest) = Len(td) - 1 /\ DOMAIN rest = 1 .. Len(rest)
  <2>1. Tail(td) \in Seq(Row) /\ Len(Tail(td)) = Len(td) - 1
    OBVIOUS
  <2> QED BY <2>1
<1>3. \A k \in 1 .. Len(rest) : rest[k] = td[k + 1]
  BY <1>1, <1>2
<1> QED BY <1>1, <1>2, <1>3

(* The rows that are left when the first one is done with, whether it is   *)
(* deleted or, for the first time, kept.                                   *)
LEMMA RestInOrder ==
    ASSUME NEW st, NEW inc, NEW td \in Seq(Row), td # <<>>, NEW p \in Pulling, InOrder(st, inc, td, p),
           NEW inc2, NEW q,
           inc2 = inc \ {Head(td)} \/ (inc2 = inc /\ AllProcessed(inc, td, p))
    PROVE  InOrder(st, inc2, Tail(td), q)
<1> DEFINE rest == Tail(td)
           i == td[1]
<1>1. /\ rest \in Seq(Row)
      /\ \A k \in DOMAIN rest : k \in Nat /\ k + 1 \in DOMAIN td /\ 1 < k + 1 /\ rest[k] = td[k + 1]
      /\ \A k \in DOMAIN td : k # 1 => k - 1 \in DOMAIN rest /\ rest[k - 1] = td[k]
      /\ 1 \in DOMAIN td /\ Head(td) = i
  BY TailFacts
<1> HIDE DEF rest
<1>2. /\ \A x \in inc : st[x.id].rev <= x.rev
      /\ \A k \in DOMAIN td : td[k] \in inc
      /\ \A j, k \in DOMAIN td : j < k => td[j].rev <= td[k].rev /\ td[j] # td[k]
      /\ \A x \in inc : (\E k \in DOMAIN td : td[k] = x) \/ (\A k \in DOMAIN td : td[k].id # x.id)
  BY DEF InOrder
<1>3. inc2 \subseteq inc /\ \A x \in inc : x # i => x \in inc2
  BY <1>1
<1>4. ASSUME NEW k \in DOMAIN rest PROVE rest[k] \in inc /\ rest[k] # i
  <2>1. k + 1 \in DOMAIN td /\ 1 < k + 1 /\ rest[k] = td[k + 1] /\ 1 \in DOMAIN td
    BY <1>1
  <2> QED BY <1>2, <2>1
<1>5. ASSUME NEW j \in DOMAIN rest, NEW k \in DOMAIN rest, j < k
      PROVE  rest[j].rev <= rest[k].rev /\ rest[j] # rest[k]
  <2>1. j + 1 < k + 1 /\ j + 1 \in DOMAIN td /\ k + 1 \in DOMAIN td
    BY <1>1, <1>5
  <2> QED BY <1>1, <1>2, <2>1
<1>6. ASSUME NEW x \in inc2 PROVE (\E k \in DOMAIN rest : rest[k] = x) \/ (\A k \in DOMAIN rest : rest[k].id # x.id)
  <2>1. CASE \E k \in DOMAIN td : td[k] = x /\ k # 1
    BY <1>1, <2>1
  <2>2. CASE x = i
    <3>1. AllProcessed(inc, td, p)
      BY <1>1, <1>6, <2>2
    <3> QED BY <1>3, <1>4, <1>6, <2>2, <3>1 DEF AllProcessed
  <2>3. CASE \A k \in DOMAIN td : td[k].id # x.id
    BY <1>1, <2>3
  <2> QED BY <1>2, <1>3, <1>6, <2>1, <2>2, <2>3
<1>7. InOrder(st, inc2, rest, q)
  BY <1>2, <1>3, <1>4, <1>5, <1>6 DEF InOrder
<1> QED BY <1>7 DEF rest

LEMMA AppliedDelete ==
    ASSUME SyncInv, AppliedInv, NEW c \in Client, DeleteIncoming(c)
    PROVE  AppliedInv'
<1> DEFINE i == Head(todo[c])
           rest == Tail(todo[c])
<1>1. /\ UNCHANGED <<state, cursor, rel, localVars, batch, reply, faults>> /\ pc[c] = "remove"
      /\ incoming' = [incoming EXCEPT ![c] = incoming[c] \ {i}] /\ PullRest(c, rest, overlay[c])
  BY DEF DeleteIncoming
<1>2. /\ todo[c] \in Seq(Row) /\ todo[c] # <<>> /\ i.id \in Record /\ pc[c] \in Pulling
      /\ i = todo[c][1] /\ 1 \in DOMAIN todo[c]
  BY <1>1, RowFacts DEF Pulling
<1>3. /\ rest \in Seq(Row)
      /\ \A k \in DOMAIN todo[c] : k # 1 => k - 1 \in DOMAIN rest /\ rest[k - 1] = todo[c][k]
  BY <1>2, TailFacts
<1>4. incoming'[c] = incoming[c] \ {i} /\ \A d \in Client \ {c} : incoming'[d] = incoming[d]
  BY <1>1 DEF SyncInv, SyncType, TablesType
<1>5. /\ todo'[c] = rest /\ overlay'[c] \in {<<>>, overlay[c]}
      /\ rest # <<>> => pc'[c] = "record"
      /\ rest = <<>> => pc'[c] \in {"idle", "fetch", "push"}
      /\ \A d \in Client \ {c} : todo'[d] = todo[d] /\ overlay'[d] = overlay[d] /\ pc'[d] = pc[d]
  <2> HIDE DEF rest
  <2> QED BY <1>1, <1>3, PullRestLoop
<1>6. AppliedFrame(c) /\ Own(c)' /\ Passed(c)'
  <2> HIDE DEF rest, i
  <2> QED BY <1>1, <1>4, <1>5 DEF AppliedFrame, localVars, AppliedInv, Own, Passed
<1>7. ASSUME AppliedOK(c) PROVE AppliedOK(c)'
  <2>1. InOrder(state[c], incoming'[c], rest, pc'[c])
    BY <1>2, <1>4, <1>7, RestInOrder DEF AppliedOK
  <2>2. faults["handler"] = 0 => AllProcessed(incoming'[c], rest, pc'[c])
    <3> SUFFICES ASSUME faults["handler"] = 0 PROVE AllProcessed(incoming'[c], rest, pc'[c])
      OBVIOUS
    <3>1. AllProcessed(incoming[c], todo[c], pc[c])
      BY <1>7 DEF AppliedOK
    <3> HIDE DEF rest, i
    <3>2. ASSUME NEW x \in incoming'[c] PROVE \E k \in DOMAIN rest : rest[k] = x
      <4>1. PICK k \in DOMAIN todo[c] : todo[c][k] = x
        BY <1>2, <1>4, <3>1 DEF AllProcessed
      <4>2. k # 1
        BY <1>2, <1>4, <4>1
      <4> QED BY <1>3, <4>1, <4>2
    <3> QED BY <1>4, <1>5, <3>1, <3>2 DEF AllProcessed
  <2>3. Settled(c, state[c], incoming'[c], rel[c])
    <3> SUFFICES ASSUME NEW r \in Record, \A x \in incoming'[c] : x.id # r
                 PROVE  Agrees(c, r, rel[c][r], state[c][r].data)
      BY DEF Settled
    <3>1. CASE r = i.id
      <4>1. Agrees(c, i.id, rel[c][i.id], i.data) /\ state[c][i.id] = [rev |-> i.rev, data |-> i.data]
        BY <1>1, <1>7 DEF AppliedOK, HeadSeen
      <4> QED BY <3>1, <4>1
    <3>2. CASE r # i.id
      BY <1>4, <1>7, <3>2 DEF AppliedOK, Settled
    <3> QED BY <3>1, <3>2
  <2>4. HeadSeen(c, state[c], rest, rel[c], pc'[c]) /\ PushBase(state[c], incoming'[c], batch[c], reply[c], pc'[c])
    BY <1>5 DEF HeadSeen, PushBase
  <2> QED BY <1>1, <1>5, <2>1, <2>2, <2>3, <2>4 DEF AppliedOK
<1> QED BY <1>1, <1>6, <1>7, NoFaultFacts, AppliedOthers

(* A refusal, the first one where the property still promises something. *)
LEMMA AppliedKeep ==
    ASSUME SyncInv, AppliedInv, NEW c \in Client, KeepIncoming(c)
    PROVE  AppliedInv'
<1> DEFINE rest == Tail(todo[c])
<1>1. /\ UNCHANGED <<tables, localVars, batch, reply>> /\ pc[c] = "apply" /\ Fault("handler")
      /\ PullRest(c, rest, overlay[c])
  BY DEF KeepIncoming
<1>2. todo[c] \in Seq(Row) /\ todo[c] # <<>> /\ pc[c] \in Pulling
  BY <1>1, RowFacts DEF Pulling
<1>3. rest \in Seq(Row)
  BY <1>2, TailFacts
<1>4. /\ todo'[c] = rest /\ overlay'[c] \in {<<>>, overlay[c]}
      /\ rest # <<>> => pc'[c] = "record"
      /\ rest = <<>> => pc'[c] \in {"idle", "fetch", "push"}
      /\ \A d \in Client \ {c} : todo'[d] = todo[d] /\ overlay'[d] = overlay[d] /\ pc'[d] = pc[d]
  <2> HIDE DEF rest
  <2> QED BY <1>1, <1>3, PullRestLoop
<1>5. AppliedFrame(c) /\ Own(c)' /\ Passed(c)'
  <2> HIDE DEF rest
  <2> QED BY <1>1, <1>4 DEF AppliedFrame, tables, localVars, AppliedInv, Own, Passed
<1>6. FaultsGrow /\ faults'["handler"] = faults["handler"] + 1 /\ faults["handler"] \in Nat
  <2>1. "handler" \in FaultKind
    BY DEF FaultKind
  <2> QED BY <1>1, <2>1, FaultFacts DEF AppliedInv
<1>7. ASSUME AppliedOK(c), faults'["handler"] <= 1 PROVE AppliedOK(c)'
  <2>1. faults["handler"] = 0 /\ faults'["handler"] # 0
    BY <1>6, <1>7
  <2>2. InOrder(state[c], incoming[c], rest, pc'[c])
    BY <1>2, <1>7, <2>1, RestInOrder DEF AppliedOK
  <2>3. HeadSeen(c, state[c], rest, rel[c], pc'[c]) /\ PushBase(state[c], incoming[c], batch[c], reply[c], pc'[c])
    BY <1>4 DEF HeadSeen, PushBase
  <2> QED BY <1>1, <1>4, <1>7, <2>1, <2>2, <2>3 DEF AppliedOK, tables
<1> QED BY <1>5, <1>6, <1>7, AppliedOthers

-----------------------------------------------------------------------------
LEMMA AppliedReadOutgoing ==
    ASSUME SyncInv, AppliedInv, NEW c \in Client, ReadOutgoing(c)
    PROVE  AppliedInv'
<1> DEFINE s == PendingChanges(c)
           T == {o \in ToSet(s) : \A i \in incoming[c] : i.id # o.change.id}
           q == SelectIn(s, T)
<1>1. UNCHANGED <<tables, localVars, todo, overlay, reply, faults>> /\ PushRest(c, q) /\ pc[c] = "push"
  BY DEF ReadOutgoing
<1>2. IsPending(s, outgoing[c], state[c])
  BY PendingFacts DEF SyncInv, SyncType, TablesType
<1>3. \A o \in T : \A i \in incoming[c] : i.id # o.change.id
  OBVIOUS
<1>0. outgoing[c] \in Seq(Change)
  BY DEF SyncInv, SyncType, TablesType
<1> HIDE DEF s, T
<1>4. q \in Seq(Pending) /\ SelectedOK(q, s, T, Len(s))
  <2>1. s \in Seq(Pending)
    BY <1>2 DEF IsPending
  <2> QED BY <2>1, SelectInFacts
<1> HIDE DEF q
<1>5. \A k \in DOMAIN q : /\ \A i \in incoming[c] : i.id # q[k].change.id
                          /\ q[k].parent = state[c][q[k].change.id]
  <2> SUFFICES ASSUME NEW k \in DOMAIN q
               PROVE  /\ \A i \in incoming[c] : i.id # q[k].change.id
                      /\ q[k].parent = state[c][q[k].change.id]
    OBVIOUS
  <2>1. q[k] \in T /\ \E j \in 1 .. Len(s) : q[k] = s[j]
    <3>1. k \in 1 .. Len(q)
      BY <1>4
    <3> QED BY <1>4, <3>1 DEF SelectedOK
  <2>2. PICK j \in DOMAIN outgoing[c] : q[k] = s[j]
    BY <1>0, <1>2, <2>1 DEF IsPending
  <2>3. q[k].change = outgoing[c][j] /\ q[k].parent = state[c][outgoing[c][j].id]
    BY <1>2, <2>2 DEF IsPending
  <2> QED BY <1>3, <2>1, <2>3
<1>6. /\ \A d \in Client \ {c} : pc'[d] = pc[d] /\ batch'[d] = batch[d]
      /\ batch'[c] = q
      /\ pc'[c] \in {"idle", "send"}
  BY <1>1, <1>4, PushRestFacts DEF SyncInv, SyncType
<1>7. AppliedFrame(c) /\ Own(c)' /\ Passed(c)'
  BY <1>1, <1>6 DEF AppliedFrame, tables, localVars, AppliedInv, Own, Passed
<1>8. ASSUME AppliedOK(c) PROVE AppliedOK(c)'
  <2>1. /\ InOrder(state[c], incoming[c], todo[c], pc'[c])
        /\ HeadSeen(c, state[c], todo[c], rel[c], pc'[c])
    BY <1>6, <1>8 DEF AppliedOK, InOrder, HeadSeen, Pulling
  <2>2. faults["handler"] = 0 => AllProcessed(incoming[c], todo[c], pc'[c])
    BY <1>1, <1>6, <1>8 DEF AppliedOK, AllProcessed, Pulling
  <2>3. PushBase(state[c], incoming[c], q, reply[c], pc'[c])
    BY <1>5, <1>6 DEF PushBase
  <2> QED BY <1>1, <1>6, <1>8, <2>1, <2>2, <2>3 DEF AppliedOK, tables
<1> QED BY <1>1, <1>7, <1>8, NoFaultFacts, AppliedOthers

(* The push ends with an error, or with a fault. *)
LEMMA AppliedPushFails ==
    ASSUME SyncInv, AppliedInv, NEW c \in Client, pc[c] = "send", PushFails(c),
           UNCHANGED <<tables, localVars, todo, overlay>>, faults' = faults \/ Fault("retried")
    PROVE  AppliedInv'
<1> DEFINE none == <<>>
<1>1. PushRest(c, none) /\ none \in Seq(Pending) /\ reply' = reply /\ none = <<>>
  BY DEF PushFails
<1>2. pc'[c] = "idle" /\ \A d \in Client \ {c} : pc'[d] = pc[d] /\ batch'[d] = batch[d]
  <2> HIDE DEF none
  <2> QED BY <1>1, PushRestFacts DEF SyncInv, SyncType
<1>3. FaultsGrow /\ faults'["handler"] = faults["handler"]
  <2>1. "retried" \in FaultKind
    BY DEF FaultKind
  <2> QED BY <2>1, FaultFacts, NoFaultFacts
<1>4. AppliedFrame(c) /\ Own(c)'
  BY <1>1, <1>2 DEF AppliedFrame, tables, localVars, AppliedInv, Own
<1> QED BY <1>2, <1>3, <1>4, AppliedEnds DEF tables

(* What is accepted was merged from the version the client has seen. *)
LEMMA AcceptedParent ==
    ASSUME SyncInv, NEW c \in Client, pc[c] = "send", NEW o, o = Head(batch[c]),
           o.parent.rev = Latest(o.change.id).rev,
           PushBase(state[c], incoming[c], batch[c], reply[c], pc[c])
    PROVE  o.parent = state[c][o.change.id] /\ state[c][o.change.id].rev < Len(log) + 1
<1> DEFINE r == o.change.id
           u == state[c][r]
<1>1. o = batch[c][1] /\ 1 \in DOMAIN batch[c] /\ r \in Record /\ o.parent \in Version
  BY HeadFacts
<1>2. o.parent = u \/ o.parent.rev < u.rev
  BY <1>1 DEF PushBase
<1>3. /\ u \in Version /\ TrueVersion(log, u, r) /\ log \in Seq(Entry)
  BY <1>1 DEF SyncInv, SyncType, TablesType, ClientOK, Versions
<1>4. Len(log) \in Nat /\ DOMAIN log = 1 .. Len(log) /\ u.rev \in Nat /\ o.parent.rev \in Nat
  BY <1>1, <1>3 DEF Version
<1> HIDE DEF u, r
<1>5. u.rev <= Latest(r).rev /\ u.rev <= Len(log)
  <2>1. CASE u = NoVersion
    BY <1>4, <2>1 DEF NoVersion, r
  <2>2. CASE u.rev \in DOMAIN log /\ log[u.rev] = [id |-> r, data |-> u.data]
    <3>1. log[u.rev].id = r
      BY <2>2
    <3>2. Revs(r) # {}
      BY <2>2, <3>1 DEF Revs
    <3>3. u.rev <= Latest(r).rev
      BY <1>3, <2>2, <3>1, <3>2, LatestFacts
    <3> QED BY <1>4, <2>2, <3>3
  <2> QED BY <1>3, <2>1, <2>2 DEF TrueVersion
<1>6. ~(o.parent.rev < u.rev)
  BY <1>4, <1>5 DEF r
<1>7. o.parent = u /\ u.rev < Len(log) + 1
  BY <1>2, <1>4, <1>5, <1>6
<1> QED BY <1>7 DEF u, r

LEMMA AppliedPushRecord ==
    ASSUME SyncInv, AppliedInv, NEW c \in Client, PushRecord(c)
    PROVE  AppliedInv'
<1> DEFINE o == Head(batch[c])
<1>1. pc[c] = "send" /\ UNCHANGED <<tables, localVars, todo, overlay>>
  BY DEF PushRecord
<1>2. \/ Accept(c, Merge(o)) /\ reply' = Set(reply, c, Len(log')) /\ pc' = Set(pc, c, "complete")
         /\ UNCHANGED <<batch, faults>>
      \/ Fault("retried") /\ PushFails(c)
  BY DEF PushRecord
<1>3. CASE Fault("retried") /\ PushFails(c)
  BY <1>1, <1>3, AppliedPushFails
<1>4. CASE Accept(c, Merge(o)) /\ reply' = Set(reply, c, Len(log')) /\ pc' = Set(pc, c, "complete")
           /\ UNCHANGED <<batch, faults>>
  <2>1. o.parent.rev = Latest(o.change.id).rev /\ Len(log') = Len(log) + 1
    <3>1. /\ log' = Append(log, [id |-> o.change.id, data |-> Merge(o).data])
          /\ [id |-> o.change.id, data |-> Merge(o).data] \in Entry
          /\ o.parent.rev = Latest(o.change.id).rev
      BY <1>1, <1>4, AcceptFacts
    <3>2. log \in Seq(Entry)
      BY DEF SyncInv, SyncType, TablesType
    <3> QED BY <3>1, <3>2
  <2>2. /\ pc'[c] = "complete" /\ reply'[c] = Len(log) + 1
        /\ \A d \in Client \ {c} : pc'[d] = pc[d] /\ reply'[d] = reply[d]
    BY <1>4, <2>1 DEF Set, SyncInv, SyncType, LoopType
  <2>3. AppliedFrame(c) /\ Own(c)' /\ Passed(c)'
    BY <1>1, <1>4, <2>2 DEF AppliedFrame, tables, localVars, AppliedInv, Own, Passed
  <2>4. ASSUME AppliedOK(c) PROVE AppliedOK(c)'
    <3>1. /\ InOrder(state[c], incoming[c], todo[c], pc'[c])
          /\ HeadSeen(c, state[c], todo[c], rel[c], pc'[c])
      BY <2>2, <2>4 DEF AppliedOK, InOrder, HeadSeen, Pulling
    <3>2. faults["handler"] = 0 => AllProcessed(incoming[c], todo[c], pc'[c])
      BY <1>1, <2>2, <2>4 DEF AppliedOK, AllProcessed, Pulling
    <3>3. PushBase(state[c], incoming[c], batch[c], reply'[c], pc'[c])
      <4>1. PushBase(state[c], incoming[c], batch[c], reply[c], pc[c])
        BY <2>4 DEF AppliedOK
      <4>2. o.parent = state[c][o.change.id] /\ state[c][o.change.id].rev < Len(log) + 1
        BY <1>1, <2>1, <4>1, AcceptedParent
      <4> QED BY <1>1, <2>2, <4>1, <4>2 DEF PushBase
    <3> QED BY <1>1, <1>4, <2>4, <3>1, <3>2, <3>3 DEF AppliedOK, tables
  <2> QED BY <1>4, <2>3, <2>4, NoFaultFacts, AppliedOthers
<1> QED BY <1>2, <1>3, <1>4

LEMMA AppliedPushConflict ==
    ASSUME SyncInv, AppliedInv, NEW c \in Client, PushConflict(c)
    PROVE  AppliedInv'
BY AppliedPushFails DEF PushConflict

(* complete_outgoing_sync: the new version differs from the one seen only  *)
(* in the client's own fields.                                             *)
LEMMA AppliedComplete ==
    ASSUME SyncInv, AppliedInv, NEW c \in Client, CompleteOutgoingSync(c)
    PROVE  AppliedInv'
<1> DEFINE o == Head(batch[c])
           v == [rev |-> reply[c], data |-> Merge(o).data]
           rest == Tail(batch[c])
           m == Max({cursor[c], reply[c]})
           id == o.change.id
<1>1. /\ pc[c] = "complete"
      /\ state' = [state EXCEPT ![c][id] = v] /\ cursor' = [cursor EXCEPT ![c] = m]
      /\ PushRest(c, rest) /\ reply' = [reply EXCEPT ![c] = 0]
      /\ UNCHANGED <<incoming, rel, localVars, todo, overlay, faults>>
  BY DEF CompleteOutgoingSync, Set
<1>2. /\ batch[c] \in Seq(Pending) /\ batch[c] # <<>> /\ 1 \in DOMAIN batch[c] /\ o = batch[c][1]
      /\ o.change \in Change /\ id \in Record /\ o.change.fields \in Data /\ o.parent.data \in Data
      /\ Merge(o).data = Overlay(o.parent.data, o.change.fields)
  BY <1>1, HeadFacts
<1>3. rest \in Seq(Pending) /\ \A k \in DOMAIN rest : k + 1 \in DOMAIN batch[c] /\ rest[k] = batch[c][k + 1]
  BY <1>2
<1>4. reply[c] \in Nat /\ cursor[c] \in Nat /\ (\A r \in Record : state[c][r].rev \in Nat)
      /\ v.rev = reply[c] /\ v.data = Overlay(o.parent.data, o.change.fields)
  BY <1>2 DEF SyncInv, SyncType, LoopType, TablesType, Version
<1>5. m \in Nat /\ cursor[c] <= m /\ reply[c] <= m
  BY <1>4, MaxAtLeast
<1>6. OwnFields(c, id, o.change.fields)
  <2>1. PICK j \in DOMAIN outgoing[c] : outgoing[c][j] = o.change
    BY <1>2 DEF SyncInv, ClientOK, Batch
  <2>2. \A f \in DOMAIN outgoing[c][j].fields : <<c, outgoing[c][j].id, f>> \in Writes
    BY <2>1 DEF SyncInv, ClientOK, Queue
  <2> QED BY <2>1, <2>2 DEF OwnFields
<1>9. o = Head(batch[c]) /\ id = o.change.id
  OBVIOUS
<1> HIDE DEF o, v, rest, m, id
<1>7. /\ state'[c][id] = v /\ cursor'[c] = m
      /\ \A r \in Record \ {id} : state'[c][r] = state[c][r]
      /\ \A d \in Client \ {c} : state'[d] = state[d] /\ cursor'[d] = cursor[d] /\ reply'[d] = reply[d]
  BY <1>1, <1>2 DEF SyncInv, SyncType, TablesType, LoopType
<1>8. /\ \A d \in Client \ {c} : pc'[d] = pc[d] /\ batch'[d] = batch[d]
      /\ batch'[c] = rest
      /\ pc'[c] \in {"idle", "send"}
  BY <1>1, <1>3, PushRestFacts DEF SyncInv, SyncType
<1>10. Passed(c)'
  <2> SUFFICES ASSUME NEW r \in Record PROVE state'[c][r].rev <= m
    BY <1>7 DEF Passed
  <2>1. CASE r = id
    BY <1>4, <1>5, <1>7, <2>1
  <2>2. CASE r # id
    <3>1. state[c][r].rev <= cursor[c] /\ state[c][r].rev \in Nat
      BY <1>4 DEF AppliedInv, Passed
    <3> QED BY <1>4, <1>5, <1>7, <2>2, <3>1
  <2> QED BY <2>1, <2>2
<1>11. AppliedFrame(c) /\ Own(c)'
  BY <1>1, <1>7, <1>8 DEF AppliedFrame, localVars, AppliedInv, Own
<1>12. ASSUME AppliedOK(c) PROVE AppliedOK(c)'
  <2>1. /\ \A k \in DOMAIN batch[c] : /\ \A i \in incoming[c] : i.id # batch[c][k].change.id
                                      /\ \/ batch[c][k].parent = state[c][batch[c][k].change.id]
                                         \/ batch[c][k].parent.rev < state[c][batch[c][k].change.id].rev
        /\ o.parent = state[c][id] /\ state[c][id].rev < reply[c]
    BY <1>1, <1>9, <1>12 DEF AppliedOK, PushBase
  <2>2. \A i \in incoming[c] : i.id # id /\ i.id \in Record
    BY <1>2, <1>9, <2>1 DEF SyncInv, SyncType, TablesType, Row
  <2>3. InOrder(state'[c], incoming[c], todo[c], pc'[c])
    BY <1>7, <1>8, <1>12, <2>2 DEF AppliedOK, InOrder, Pulling
  <2>4. faults["handler"] = 0 => AllProcessed(incoming[c], todo[c], pc'[c])
    BY <1>1, <1>8, <1>12 DEF AppliedOK, AllProcessed, Pulling
  <2>5. Settled(c, state'[c], incoming[c], rel[c])
    <3> SUFFICES ASSUME NEW r \in Record, \A i \in incoming[c] : i.id # r
                 PROVE  Agrees(c, r, rel[c][r], state'[c][r].data)
      BY DEF Settled
    <3>1. Agrees(c, r, rel[c][r], state[c][r].data)
      BY <1>12 DEF AppliedOK, Settled
    <3>2. CASE r # id
      BY <1>7, <3>1, <3>2
    <3>3. CASE r = id
      <4> SUFFICES ASSUME NEW f \in DOMAIN v.data, <<c, id, f>> \notin Writes
                   PROVE  f \in DOMAIN rel[c][id] /\ rel[c][id][f] = v.data[f]
        BY <1>7, <3>3 DEF Agrees
      <4>1. f \notin DOMAIN o.change.fields
        BY <1>6 DEF OwnFields
      <4>2. f \in DOMAIN o.parent.data /\ v.data[f] = o.parent.data[f]
        <5> DEFINE d == o.parent.data
                   e == o.change.fields
        <5>1. d \in Data /\ e \in Data /\ v.data = Overlay(d, e)
          BY <1>2, <1>4
        <5>2. f \in DOMAIN v.data /\ f \notin DOMAIN e
          BY <4>1
        <5> HIDE DEF d, e
        <5>3. /\ DOMAIN Overlay(d, e) = DOMAIN d \cup DOMAIN e
              /\ \A g \in DOMAIN d \ DOMAIN e : Overlay(d, e)[g] = d[g]
          BY <5>1, OverlayFacts
        <5>4. f \in DOMAIN d /\ v.data[f] = d[f]
          BY <5>1, <5>2, <5>3
        <5> QED BY <5>4 DEF d
      <4> QED BY <2>1, <3>1, <3>3, <4>2 DEF Agrees
    <3> QED BY <3>2, <3>3
  <2>6. HeadSeen(c, state'[c], todo[c], rel[c], pc'[c])
    BY <1>8 DEF HeadSeen
  <2>7. ASSUME NEW k \in DOMAIN rest
        PROVE  /\ \A i \in incoming[c] : i.id # rest[k].change.id
               /\ \/ rest[k].parent = state'[c][rest[k].change.id]
                  \/ rest[k].parent.rev < state'[c][rest[k].change.id].rev
    <3> DEFINE x == rest[k]
    <3>1. k + 1 \in DOMAIN batch[c] /\ x = batch[c][k + 1]
      BY <1>3
    <3> HIDE DEF x
    <3>2. /\ \A i \in incoming[c] : i.id # x.change.id
          /\ x.parent = state[c][x.change.id] \/ x.parent.rev < state[c][x.change.id].rev
      BY <2>1, <3>1
    <3>3. x.change.id \in Record /\ x.parent.rev \in Nat
      <4>1. x \in Pending
        BY <1>2, <3>1
      <4> QED BY <4>1 DEF Pending, Change, Version
    <3>4. CASE x.change.id # id
      BY <1>7, <3>2, <3>3, <3>4 DEF x
    <3>5. CASE x.change.id = id
      <4>1. x.parent.rev <= state[c][id].rev /\ state[c][id].rev \in Nat
        BY <1>2, <1>4, <3>2, <3>3, <3>5
      <4>2. x.parent.rev < v.rev
        BY <1>4, <2>1, <3>3, <4>1
      <4> QED BY <1>7, <3>2, <3>5, <4>2 DEF x
    <3> QED BY <3>4, <3>5
  <2>8. PushBase(state'[c], incoming[c], rest, reply'[c], pc'[c])
    BY <1>8, <2>7 DEF PushBase
  <2> QED BY <1>1, <1>8, <2>3, <2>4, <2>5, <2>6, <2>8 DEF AppliedOK
<1> QED BY <1>1, <1>10, <1>11, <1>12, NoFaultFacts, AppliedOthers

-----------------------------------------------------------------------------
LEMMA AppliedStep == SyncInv /\ AppliedInv /\ [Next]_vars => AppliedInv'
<1> SUFFICES ASSUME SyncInv, AppliedInv, [Next]_vars PROVE AppliedInv'
  OBVIOUS
<1>1. CASE UNCHANGED vars
  BY <1>1 DEF vars, tables, localVars, signals, loopVars, AppliedInv, AppliedOK, Own, Passed
<1>2. ASSUME NEW c \in Client, LoopStep(c) PROVE AppliedInv'
  BY <1>2, AppliedSignals, AppliedFetch, AppliedFetchFails, AppliedReadIncoming, AppliedUpdateState,
     AppliedApply, AppliedKeep, AppliedDelete, AppliedReadOutgoing, AppliedPushRecord, AppliedPushConflict,
     AppliedComplete, AppliedStart DEF LoopStep
<1>3. ASSUME NEW c \in Client, WriteStep(c) PROVE AppliedInv'
  BY <1>3, AppliedSetOutgoing, AppliedWriteRelational DEF WriteStep
<1>4. ASSUME NEW c \in Client, Deliver(c) \/ LoseNotification(c) \/ Crash(c) PROVE AppliedInv'
  BY <1>4, AppliedNotes, AppliedCrash
<1> QED BY <1>1, <1>2, <1>3, <1>4 DEF Next

(* As long as at most one record was refused, what a client has seen of a  *)
(* field that others write is in its relational table or in a row still    *)
(* queued for it: for any number of clients and records, over crashes      *)
(* between any two transactions, lost replies and conflicts.               *)
THEOREM NothingSeenIsLost == Spec => []AppliedOrQueued
<1>1. AppliedInv => AppliedOrQueued
  BY DEF AppliedInv, AppliedOK, AppliedOrQueued, Settled, Agrees
<1> QED BY <1>1, SyncInit, SyncStep, AppliedInit, AppliedStep, PTL DEF Spec

=============================================================================
