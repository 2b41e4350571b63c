------------------------- MODULE TypeRegistryProofs -------------------------
(***************************************************************************)
(* The metadata rows, the data tables and the schema history stay together *)
(* whatever the number of clients, names and requests, and no evolution    *)
(* overwrites one that its author had not seen.                            *)
(***************************************************************************)
EXTENDS TypeRegistry, SequenceTheorems, FiniteSetTheorems, TLAPS

Steps == {"idle", "insert", "history", "update", "reread", "look", "mark", "commit", "read"}

Requests == [op : {"none", "register", "evolve", "deprecate"}, name : Names \cup {"none"},
             schema : Schemas \cup {NoSchema}, version : Nat]

Transactions == [cur : Definition \cup {NoDef}, write : Definition \cup {NoDef},
                 entry : Entry \cup {NoEntry}]

Codes == {"none", "ok", "exists", "notFound", "deprecated", "conflict", "internal", "lost"}

Replies == [code : Codes, def : Definition \cup {NoDef}]

ClientsTyped ==
    /\ pc \in [Procs -> Steps] /\ req \in [Procs -> Requests]
    /\ tx \in [Procs -> Transactions] /\ reply \in [Procs -> Replies]
    /\ served \in Nat

StoreTyped ==
    /\ DOMAIN types \subseteq Names /\ types \in [DOMAIN types -> Definition]
    /\ tables = DOMAIN types
    /\ history \in Seq(Entry) /\ historyID \in Nat

Typed == ClientsTyped /\ StoreTyped

(* What an uncommitted write makes of the row, which nobody else can       *)
(* change until then.                                                      *)
Pending(p) ==
    LET n == req[p].name
        w == tx[p].write
    IN  \/ /\ req[p].op = "register" /\ n \in Names \ DOMAIN types
           /\ w.status = "active" /\ w.version = 1
        \/ /\ req[p].op = "evolve" /\ n \in DOMAIN types /\ types[n].status = "active"
           /\ types[n].version = req[p].version
           /\ w.schema = req[p].schema /\ w.status = "active"
           /\ w.version = types[n].version + 1
        \/ /\ req[p].op = "deprecate" /\ n \in DOMAIN types /\ types[n].status = "active"
           /\ w.schema = types[n].schema /\ w.status = "deprecated"
           /\ w.version = types[n].version

(* The entry that will be committed with the write.                        *)
Entered(p) ==
    LET e == tx[p].entry IN
    /\ e \in Entry /\ e.name = req[p].name /\ e.op = req[p].op
    /\ e.schema = tx[p].write.schema
    /\ e.id < historyID /\ \A i \in Entries(req[p].name) : history[i].id < e.id

Known(p) == req[p].name \in DOMAIN types

Writing(p) == tx[p].write # NoDef

Stage(p) ==
    /\ Writing(p) => pc[p] \in {"history", "commit"} /\ Pending(p)
    /\ pc[p] = "history" => Writing(p)
    /\ pc[p] = "commit" /\ Writing(p) => Entered(p)
    /\ pc[p] = "commit" /\ ~Writing(p) => Known(p)
    /\ pc[p] \in {"reread", "mark", "read"} => Known(p)
    /\ pc[p] = "insert" => /\ req[p].op = "register" /\ req[p].name \in Names
                           /\ req[p].schema \in Schemas
    /\ pc[p] = "update" => /\ req[p].op = "evolve" /\ Known(p)
                           /\ req[p].schema \in Schemas
    /\ pc[p] \in {"look", "mark"} => req[p].op = "deprecate"

Exclusive ==
    \A p, q \in Procs : Writing(p) /\ Writing(q) /\ p # q => req[p].name # req[q].name

HistoryInv ==
    /\ \A i \in 1..Len(history) : history[i].id < historyID /\ history[i].name \in DOMAIN types
    /\ HistoryIDsInOrder
    /\ HistoryMatchesType

Inv == Typed /\ (\A p \in Procs : Stage(p)) /\ Exclusive /\ HistoryInv

-----------------------------------------------------------------------------
LEMMA NoDefIsNone == NoDef \notin Definition
  BY DEF NoDef, Definition

LEMMA NothingsTyped ==
    NoTx \in Transactions /\ NoReq \in Requests /\ NoReply \in Replies /\ NoTx.write = NoDef
<1>1. NoTx \in Transactions /\ NoTx.write = NoDef
  BY DEF NoTx, Transactions
<1>2. NoReq \in Requests
  BY DEF NoReq, Requests
<1>3. NoReply \in Replies
  BY DEF NoReply, Replies, Codes
<1> QED
  BY <1>1, <1>2, <1>3

(* A step of one client that leaves the store alone.                       *)
Others(p) == \A q \in Procs \ {p} : pc'[q] = pc[q] /\ req'[q] = req[q] /\ tx'[q] = tx[q]

LEMMA QuietStep ==
    ASSUME Inv, NEW p \in Procs, UNCHANGED <<types, tables, history>>,
           historyID' \in Nat, historyID <= historyID',
           ClientsTyped', Others(p), Stage(p)',
           Writing(p)' => /\ req'[p].name = req[p].name
                          /\ Writing(p) \/ NameFree(p, req[p].name)
    PROVE  Inv'
<1>1. Typed'
  BY DEF Inv, Typed, StoreTyped
<1>2. ASSUME NEW q \in Procs PROVE Stage(q)'
  <2>1. CASE q = p
    BY <2>1
  <2>2. CASE q # p
    <3>1. pc'[q] = pc[q] /\ req'[q] = req[q] /\ tx'[q] = tx[q]
      BY <2>2 DEF Others
    <3>2. Stage(q)
      BY DEF Inv
    <3>3. (Writing(q)' <=> Writing(q)) /\ (Pending(q)' <=> Pending(q)) /\ (Known(q)' <=> Known(q))
      BY <3>1 DEF Writing, Pending, Known
    <3>4. Entered(q) => Entered(q)'
      <4>1. Entries(req[q].name)' = Entries(req'[q].name)
        BY <3>1 DEF Entries
      <4>2. Entries(req'[q].name) = Entries(req[q].name)
        BY <3>1
      <4>3. tx[q].entry \in Entry => tx[q].entry.id \in Nat
        BY DEF Entry
      <4>4. historyID \in Nat
        BY DEF Inv, Typed, StoreTyped
      <4>5. ASSUME Entered(q) PROVE tx[q].entry.id < historyID'
        BY <4>3, <4>4, <4>5 DEF Entered
      <4> QED
        BY <3>1, <4>1, <4>2, <4>5 DEF Entered
    <3> QED
      BY <3>1, <3>2, <3>3, <3>4 DEF Stage
  <2> QED
    BY <2>1, <2>2
<1>3. Exclusive'
  <2>1. ASSUME NEW q \in Procs, NEW r \in Procs, Writing(q)', Writing(r)', q # r
        PROVE  req'[q].name # req'[r].name
    <3>1. \A s \in Procs \ {p} : req'[s] = req[s] /\ tx'[s] = tx[s] /\ (Writing(s)' <=> Writing(s))
      BY DEF Others, Writing
    <3>2. \A s \in Procs \ {p} : Writing(s) /\ Writing(p)' => req'[p].name # req[s].name
      BY DEF Inv, Exclusive, NameFree, Writing
    <3> QED
      BY <2>1, <3>1, <3>2 DEF Inv, Exclusive
  <2> QED
    BY <2>1 DEF Exclusive
<1>4. HistoryInv'
  <2>1. \A i \in 1..Len(history) : history[i].id < historyID'
    <3>1. \A i \in 1..Len(history) : history[i].id \in Nat /\ history[i].id < historyID
      <4>1. \A i \in 1..Len(history) : history[i] \in Entry
        BY ElementOfSeq DEF Inv, Typed, StoreTyped
      <4> QED
        BY <4>1 DEF Inv, HistoryInv, Entry
    <3> QED
      BY <3>1 DEF Inv, Typed, StoreTyped
  <2>2. HistoryIDsInOrder' <=> HistoryIDsInOrder
    BY DEF HistoryIDsInOrder
  <2>3. HistoryMatchesType' <=> HistoryMatchesType
    BY DEF HistoryMatchesType, Entries, EntriesOf
  <2> QED
    BY <2>1, <2>2, <2>3 DEF Inv, HistoryInv
<1> QED
  BY <1>1, <1>2, <1>3, <1>4 DEF Inv

(* An answer without a write: the deferred Rollback, if any.               *)
LEMMA FailPreserves ==
    ASSUME Inv, NEW p \in Procs, NEW code \in Codes, NEW def \in Definition \cup {NoDef},
           Answer(p, code, def), UNCHANGED <<types, tables, history, historyID, served>>
    PROVE  Inv'
<1>1. /\ pc' = [pc EXCEPT ![p] = "idle"] /\ req' = [req EXCEPT ![p] = NoReq]
      /\ tx' = [tx EXCEPT ![p] = NoTx]
      /\ reply' = [reply EXCEPT ![p] = [code |-> code, def |-> def]]
  BY DEF Answer, Goto
<1>2. ClientsTyped
  BY DEF Inv, Typed
<1>3. pc'[p] = "idle" /\ tx'[p] = NoTx /\ Others(p)
  BY <1>1, <1>2 DEF ClientsTyped, Others
<1>4. ClientsTyped'
  BY <1>1, <1>2, NothingsTyped DEF ClientsTyped, Steps, Replies
<1>5. ~Writing(p)'
  BY <1>3, NothingsTyped DEF Writing
<1>6. Stage(p)'
  BY <1>3, <1>5 DEF Stage
<1>7. historyID' \in Nat /\ historyID <= historyID'
  BY DEF Inv, Typed, StoreTyped
<1> QED
  BY <1>3, <1>4, <1>5, <1>6, <1>7, QuietStep

(* A new request.                                                          *)
LEMMA ArrivePreserves ==
    ASSUME Inv, NEW p \in Procs, NEW r \in Requests, NEW step \in {"insert", "update", "look"},
           Arrive(p, r, step),
           step = "insert" => r.op = "register" /\ r.name \in Names /\ r.schema \in Schemas,
           step = "update" => r.op = "evolve" /\ r.name \in DOMAIN types /\ r.schema \in Schemas,
           step = "look" => r.op = "deprecate"
    PROVE  Inv'
<1>1. /\ pc' = [pc EXCEPT ![p] = step] /\ req' = [req EXCEPT ![p] = r] /\ tx' = tx
      /\ reply' = [reply EXCEPT ![p] = NoReply] /\ served' = served + 1
      /\ UNCHANGED <<types, tables, history, historyID>> /\ pc[p] = "idle"
  BY DEF Arrive, Goto
<1>2. ClientsTyped
  BY DEF Inv, Typed
<1>3. pc'[p] = step /\ req'[p] = r /\ Others(p)
  BY <1>1, <1>2 DEF ClientsTyped, Others
<1>4. ClientsTyped'
  BY <1>1, <1>2, NothingsTyped DEF ClientsTyped, Steps
<1>5. ~Writing(p) /\ ~Writing(p)'
  BY <1>1 DEF Inv, Stage, Writing
<1>6. Stage(p)'
  BY <1>1, <1>3, <1>5 DEF Stage, Known
<1>7. historyID' \in Nat /\ historyID <= historyID'
  BY <1>1 DEF Inv, Typed, StoreTyped
<1> QED
  BY <1>1, <1>3, <1>4, <1>5, <1>6, <1>7, QuietStep

(* A statement of a transaction, up to its COMMIT.                         *)
LEMMA AdvancePreserves ==
    ASSUME Inv, NEW p \in Procs, NEW step \in Steps, NEW t \in Transactions,
           Advance(p, step, t), historyID' \in Nat, historyID <= historyID',
           (req[p] = req'[p] /\ tx'[p] = t /\ pc'[p] = step) => Stage(p)',
           t.write # NoDef => Writing(p) \/ NameFree(p, req[p].name)
    PROVE  Inv'
<1>1. /\ pc' = [pc EXCEPT ![p] = step] /\ tx' = [tx EXCEPT ![p] = t]
      /\ UNCHANGED <<types, tables, history, req, reply, served>>
  BY DEF Advance, Goto
<1>2. ClientsTyped
  BY DEF Inv, Typed
<1>3. pc'[p] = step /\ tx'[p] = t /\ Others(p)
  BY <1>1, <1>2 DEF ClientsTyped, Others
<1>4. ClientsTyped'
  BY <1>1, <1>2 DEF ClientsTyped
<1> QED
  BY <1>1, <1>3, <1>4, QuietStep DEF Writing

-----------------------------------------------------------------------------
(* COMMIT                                                                  *)

LEMMA AppendEntry ==
    ASSUME NEW h \in Seq(Entry), NEW e \in Entry
    PROVE  /\ Append(h, e) \in Seq(Entry) /\ Len(Append(h, e)) = Len(h) + 1
           /\ Len(h) \in Nat /\ Append(h, e)[Len(h) + 1] = e
           /\ \A i \in 1..Len(h) : Append(h, e)[i] = h[i] /\ h[i] \in Entry
<1>1. /\ Append(h, e) \in Seq(Entry) /\ Len(Append(h, e)) = Len(h) + 1
      /\ Len(h) \in Nat /\ Append(h, e)[Len(h) + 1] = e
      /\ \A i \in 1..Len(h) : Append(h, e)[i] = h[i]
  BY AppendProperties, LenProperties
<1> QED
  BY <1>1, ElementOfSeq

(* What COMMIT makes visible when there was a write.                       *)
LEMMA Published ==
    ASSUME Inv, NEW p \in Procs, pc[p] = "commit", Writing(p), Publish(p),
           NEW n, n = req[p].name, NEW l, l = Len(history) + 1
    PROVE  /\ n \in Names /\ Pending(p) /\ Entered(p) /\ tx[p].write \in Definition
           /\ DOMAIN types' = DOMAIN types \cup {n} /\ types'[n] = tx[p].write
           /\ \A m \in DOMAIN types \ {n} : types'[m] = types[m]
           /\ tables' = tables \cup {n}
           /\ history' = Append(history, tx[p].entry)
           /\ Len(history) \in Nat /\ Len(history') = l /\ history'[l] = tx[p].entry
           /\ \A i \in 1..Len(history) : history'[i] = history[i] /\ history[i] \in Entry
<1>1. /\ types' = [m \in DOMAIN types \cup {n} |-> IF m = n THEN tx[p].write ELSE types[m]]
      /\ tables' = tables \cup {n} /\ history' = Append(history, tx[p].entry)
  BY DEF Publish, Writing
<1>2. Pending(p) /\ Entered(p)
  BY DEF Inv, Stage
<1>3. n \in Names
  BY <1>2 DEF Pending, Inv, Typed, StoreTyped
<1>4. tx[p].write \in Definition
  BY DEF Inv, Typed, ClientsTyped, Transactions, Writing
<1>5. /\ Len(history) \in Nat /\ Len(history') = l /\ history'[l] = tx[p].entry
      /\ \A i \in 1..Len(history) : history'[i] = history[i] /\ history[i] \in Entry
  BY <1>1, <1>2, AppendEntry DEF Entered, Inv, Typed, StoreTyped
<1> QED
  BY <1>1, <1>2, <1>3, <1>4, <1>5

LEMMA PublishedEntries ==
    ASSUME Inv, NEW p \in Procs, pc[p] = "commit", Writing(p), Publish(p),
           NEW n, n = req[p].name, NEW l, l = Len(history) + 1, NEW m
    PROVE  Entries(m)' = Entries(m) \cup (IF m = n THEN {l} ELSE {})
<1>1. /\ Entered(p) /\ Len(history) \in Nat /\ Len(history') = l
      /\ history'[l] = tx[p].entry
      /\ \A i \in 1..Len(history) : history'[i] = history[i]
  BY Published
<1>2. tx[p].entry.name = n /\ tx[p].entry.op = req[p].op
  BY <1>1 DEF Entered
<1>3. 1..Len(history') = 1..Len(history) \cup {l} /\ l \notin 1..Len(history)
  BY <1>1
<1> QED
  BY <1>1, <1>2, <1>3 DEF Entries

LEMMA PublishedEntriesOf ==
    ASSUME Inv, NEW p \in Procs, pc[p] = "commit", Writing(p), Publish(p),
           NEW n, n = req[p].name, NEW l, l = Len(history) + 1, NEW m, NEW op
    PROVE  EntriesOf(m, op)' =
              EntriesOf(m, op) \cup (IF m = n /\ req[p].op = op THEN {l} ELSE {})
<1>1. /\ Entered(p) /\ Len(history) \in Nat /\ Len(history') = l
      /\ history'[l] = tx[p].entry
      /\ \A i \in 1..Len(history) : history'[i] = history[i]
  BY Published
<1>2. tx[p].entry.name = n /\ tx[p].entry.op = req[p].op
  BY <1>1 DEF Entered
<1>3. 1..Len(history') = 1..Len(history) \cup {l} /\ l \notin 1..Len(history)
  BY <1>1
<1>4. Entries(m)' = Entries(m) \cup (IF m = n THEN {l} ELSE {})
  BY <1>1, <1>2, <1>3 DEF Entries
<1> QED
  BY <1>1, <1>2, <1>3, <1>4 DEF EntriesOf, Entries

LEMMA EntriesInRange ==
    ASSUME NEW m, NEW op
    PROVE  Entries(m) \subseteq 1..Len(history) /\ EntriesOf(m, op) \subseteq Entries(m)
  BY DEF Entries, EntriesOf

LEMMA OtherEntries ==
    ASSUME Inv, NEW p \in Procs, pc[p] = "commit", Writing(p), Publish(p),
           NEW k, k # req[p].name
    PROVE  Entries(k)' = Entries(k)
<1>1. ASSUME NEW n, n = req[p].name, NEW l, l = Len(history) + 1
      PROVE  Entries(k)' = Entries(k)
  <2>1. Entries(k)' = Entries(k) \cup (IF k = n THEN {l} ELSE {})
    BY <1>1, PublishedEntries
  <2> QED
    BY <1>1, <2>1
<1> QED
  BY <1>1

LEMMA PublishKeepsHistory ==
    ASSUME Inv, NEW p \in Procs, pc[p] = "commit", Writing(p), Publish(p), historyID' = historyID,
           NEW n, n = req[p].name, NEW l, l = Len(history) + 1
    PROVE  HistoryInv'
<1> DEFINE e == tx[p].entry
           w == tx[p].write
<1>1. /\ n \in Names /\ Pending(p) /\ Entered(p) /\ tx[p].write \in Definition
      /\ DOMAIN types' = DOMAIN types \cup {n} /\ types'[n] = tx[p].write
      /\ \A m \in DOMAIN types \ {n} : types'[m] = types[m]
      /\ Len(history) \in Nat /\ Len(history') = l /\ history'[l] = tx[p].entry
      /\ \A i \in 1..Len(history) : history'[i] = history[i] /\ history[i] \in Entry
      /\ \A m : Entries(m)' = Entries(m) \cup (IF m = n THEN {l} ELSE {})
      /\ \A m, op : EntriesOf(m, op)' =
            EntriesOf(m, op) \cup (IF m = n /\ req[p].op = op THEN {l} ELSE {})
  <2>1. n \in Names /\ Pending(p) /\ Entered(p) /\ tx[p].write \in Definition
    BY Published
  <2>2. DOMAIN types' = DOMAIN types \cup {n} /\ types'[n] = tx[p].write
    BY Published
  <2>3. \A m \in DOMAIN types \ {n} : types'[m] = types[m]
    BY Published
  <2>4. Len(history) \in Nat /\ Len(history') = l /\ history'[l] = tx[p].entry
    BY Published
  <2>5. \A i \in 1..Len(history) : history'[i] = history[i] /\ history[i] \in Entry
    BY Published
  <2>6. \A m : Entries(m)' = Entries(m) \cup (IF m = n THEN {l} ELSE {})
    BY PublishedEntries
  <2>7. \A m, op : EntriesOf(m, op)' =
            EntriesOf(m, op) \cup (IF m = n /\ req[p].op = op THEN {l} ELSE {})
    BY PublishedEntriesOf
  <2> QED
    BY <2>1, <2>2, <2>3, <2>4, <2>5, <2>6, <2>7
<1>n. n = req[p].name
  OBVIOUS
<1>l. l = Len(history) + 1
  OBVIOUS
<1>2. e.name = n /\ e.op = req[p].op /\ e.schema = w.schema /\ e.id < historyID
      /\ \A i \in Entries(n) : history[i].id < e.id
  BY <1>n, <1>1 DEF Entered
<1>3. \A i \in 1..Len(history) : history[i].id < historyID /\ history[i].name \in DOMAIN types
  BY DEF Inv, HistoryInv
<1>4. \A i \in 1..Len(history') : i \in 1..Len(history) \/ i = l
  BY <1>l, <1>1
<1>5. \A i \in 1..Len(history') : history'[i].id < historyID' /\ history'[i].name \in DOMAIN types'
  BY <1>1, <1>2, <1>3, <1>4
<1>6. HistoryIDsInOrder'
  <2>1. ASSUME NEW i \in 1..Len(history'), NEW j \in 1..Len(history'),
               i < j, history'[i].name = history'[j].name
        PROVE  history'[i].id < history'[j].id
    <3>1. CASE j \in 1..Len(history)
      <4>1. i \in 1..Len(history)
        BY <1>l, <1>1, <2>1, <3>1
      <4> QED
        BY <1>1, <2>1, <3>1, <4>1 DEF Inv, HistoryInv, HistoryIDsInOrder
    <3>2. CASE j = l
      <4>1. i \in 1..Len(history)
        BY <1>l, <1>1, <2>1, <3>2
      <4>2. i \in Entries(n)
        BY <1>1, <1>2, <2>1, <3>2, <4>1 DEF Entries
      <4> QED
        BY <1>1, <1>2, <3>2, <4>1, <4>2
    <3> QED
      BY <1>4, <3>1, <3>2
  <2> QED
    BY <2>1 DEF HistoryIDsInOrder
<1>7. HistoryMatchesType'
  <2> DEFINE Match(m) ==
        /\ Cardinality(EntriesOf(m, "evolve")) = types[m].version - 1
        /\ \E first \in Entries(m) : /\ EntriesOf(m, "register") = {first}
                                     /\ \A i \in Entries(m) : first <= i
        /\ \E last \in Entries(m) :
              /\ \A i \in Entries(m) : i <= last
              /\ history[last].schema = types[m].schema
              /\ EntriesOf(m, "deprecate") =
                    IF types[m].status = "deprecated" THEN {last} ELSE {}
  <2>1. \A m \in DOMAIN types : Match(m)
    BY DEF Inv, HistoryInv, HistoryMatchesType
  <2>2. \A m : Entries(m) \subseteq 1..Len(history)
    BY EntriesInRange
  <2>3. ASSUME NEW m \in DOMAIN types \ {n} PROVE Match(m)'
    <3>1. Entries(m)' = Entries(m) /\ \A op : EntriesOf(m, op)' = EntriesOf(m, op)
      BY <1>1, <2>3
    <3>2. types'[m] = types[m] /\ \A i \in Entries(m) : history'[i] = history[i]
      BY <1>1, <2>2, <2>3
    <3> QED
      BY <2>1, <2>3, <3>1, <3>2
  <2>4. Match(n)'
    <3>1. l \notin 1..Len(history) /\ \A i \in 1..Len(history) : i <= l
      BY <1>l, <1>1
    <3>2. l \in Entries(n)' /\ \A i \in Entries(n)' : i <= l
      BY <1>1, <2>2, <3>1
    <3>3. history'[l].schema = types'[n].schema
      BY <1>1, <1>2
    <3>4. CASE req[p].op = "register"
      <4>1. n \notin DOMAIN types /\ w.version = 1 /\ w.status = "active"
        BY <1>n, <1>1, <3>4 DEF Pending
      <4>2. Entries(n) = {}
        BY <1>3, <4>1 DEF Entries
      <4>3. \A op : EntriesOf(n, op) = {}
        BY <4>2, EntriesInRange
      <4>4. /\ Entries(n)' = {l} /\ EntriesOf(n, "register")' = {l}
            /\ EntriesOf(n, "evolve")' = {} /\ EntriesOf(n, "deprecate")' = {}
        BY <1>1, <3>4, <4>2, <4>3
      <4>5. Cardinality(EntriesOf(n, "evolve")') = types'[n].version - 1
        <5>1. Cardinality(EntriesOf(n, "evolve")') = 0
          BY <4>4, FS_EmptySet
        <5>2. types'[n].version = 1
          BY <1>1, <4>1
        <5> QED
          BY <5>1, <5>2
      <4> QED
        BY <1>1, <3>2, <3>3, <4>1, <4>4, <4>5
    <3>5. CASE req[p].op # "register"
      <4>1. /\ n \in DOMAIN types /\ types[n].status = "active"
            /\ \/ /\ req[p].op = "evolve" /\ w.version = types[n].version + 1
                  /\ w.status = "active"
               \/ /\ req[p].op = "deprecate" /\ w.version = types[n].version
                  /\ w.status = "deprecated"
        BY <1>n, <1>1, <3>5 DEF Pending
      <4>2. Match(n)
        BY <2>1, <4>1
      <4>3. EntriesOf(n, "register")' = EntriesOf(n, "register")
        BY <1>1, <3>5
      <4>4. PICK first \in Entries(n) : /\ EntriesOf(n, "register") = {first}
                                        /\ \A i \in Entries(n) : first <= i
        BY <4>2
      <4>5. first \in Entries(n)' /\ \A i \in Entries(n)' : first <= i
        BY <1>1, <2>2, <3>1, <4>4
      <4>6. EntriesOf(n, "deprecate") = {}
        BY <4>1, <4>2
      <4>7. EntriesOf(n, "deprecate")' = IF types'[n].status = "deprecated" THEN {l} ELSE {}
        BY <1>1, <4>1, <4>6
      <4>8. Cardinality(EntriesOf(n, "evolve")') = types'[n].version - 1
        <5>1. Cardinality(EntriesOf(n, "evolve")) = types[n].version - 1 /\ types[n].version \in Nat
          BY <4>1, <4>2 DEF Inv, Typed, StoreTyped, Definition
        <5>2. IsFiniteSet(EntriesOf(n, "evolve")) /\ l \notin EntriesOf(n, "evolve")
          <6>1. IsFiniteSet(1..Len(history))
            BY <1>1, FS_Interval
          <6>2. EntriesOf(n, "evolve") \subseteq 1..Len(history)
            BY EntriesInRange
          <6> QED
            BY <3>1, <6>1, <6>2, FS_Subset
        <5>3. CASE req[p].op = "evolve"
          <6>1. EntriesOf(n, "evolve")' = EntriesOf(n, "evolve") \cup {l}
            BY <1>1, <5>3
          <6>2. Cardinality(EntriesOf(n, "evolve") \cup {l})
                   = Cardinality(EntriesOf(n, "evolve")) + 1
            BY <5>2, FS_AddElement
          <6>3. types'[n].version = types[n].version + 1
            BY <1>1, <4>1, <5>3
          <6>4. Cardinality(EntriesOf(n, "evolve")') = types[n].version - 1 + 1
            BY <5>1, <6>1, <6>2
          <6> QED
            BY <5>1, <6>3, <6>4
        <5>4. CASE req[p].op = "deprecate"
          BY <1>1, <4>1, <5>1, <5>4
        <5> QED
          BY <4>1, <5>3, <5>4
      <4> QED
        BY <3>2, <3>3, <4>3, <4>4, <4>5, <4>7, <4>8
    <3> QED
      BY <3>4, <3>5
  <2>5. \A m \in DOMAIN types' : Match(m)'
    BY <1>1, <2>3, <2>4
  <2> QED
    BY <2>5 DEF HistoryMatchesType
<1> QED
  BY <1>5, <1>6, <1>7 DEF HistoryInv

(* COMMIT, whatever its answer: the write, if any, becomes visible.        *)
LEMMA PublishPreserves ==
    ASSUME Inv, NEW p \in Procs, pc[p] = "commit", Publish(p), historyID' = historyID,
           ClientsTyped', Others(p), tx'[p] = NoTx, pc'[p] \in {"idle", "read"},
           pc'[p] = "read" => req'[p] = req[p]
    PROVE  Inv'
<1>1. ~Writing(p)'
  BY NothingsTyped DEF Writing
<1>2. CASE ~Writing(p)
  <2>1. UNCHANGED <<types, tables, history>>
    BY <1>2 DEF Publish, Writing
  <2>2. Known(p)
    BY <1>2 DEF Inv, Stage
  <2>3. Stage(p)'
    BY <1>1, <2>1, <2>2 DEF Stage, Known
  <2>4. historyID' \in Nat /\ historyID <= historyID'
    BY DEF Inv, Typed, StoreTyped
  <2> QED
    BY <1>1, <2>1, <2>3, <2>4, QuietStep
<1>3. CASE Writing(p)
  <2> DEFINE n == req[p].name
  <2>1. /\ n \in Names /\ Entered(p) /\ tx[p].write \in Definition
        /\ DOMAIN types' = DOMAIN types \cup {n} /\ types'[n] = tx[p].write
        /\ \A m \in DOMAIN types \ {n} : types'[m] = types[m]
        /\ tables' = tables \cup {n}
        /\ history' = Append(history, tx[p].entry)
        /\ \A i \in 1..Len(history) : history'[i] = history[i]
    BY <1>3, Published
  <2>2. Typed'
    <3>1. history' \in Seq(Entry)
      BY <2>1, AppendEntry DEF Inv, Typed, StoreTyped, Entered
    <3>2. types' \in [DOMAIN types' -> Definition]
      <4>1. types' = [m \in DOMAIN types' |-> types'[m]]
        BY <1>3 DEF Publish, Writing
      <4>2. \A m \in DOMAIN types' : types'[m] \in Definition
        BY <2>1 DEF Inv, Typed, StoreTyped
      <4> QED
        BY <4>1, <4>2
    <3> QED
      BY <2>1, <3>1, <3>2 DEF Inv, Typed, StoreTyped
  <2>3. ASSUME NEW q \in Procs \ {p} PROVE Stage(q)'
    <3>1. pc'[q] = pc[q] /\ req'[q] = req[q] /\ tx'[q] = tx[q] /\ Stage(q)
      BY DEF Others, Inv
    <3>2. Writing(q)' <=> Writing(q)
      BY <3>1 DEF Writing
    <3>3. Known(q) => Known(q)'
      BY <2>1, <3>1 DEF Known
    <3>4. Writing(q) => req[q].name # n
      BY <1>3, <2>3 DEF Inv, Exclusive
    <3>5. Writing(q) /\ Pending(q) => Pending(q)'
      <4>1. ASSUME Writing(q)
            PROVE  /\ req[q].name \in DOMAIN types' <=> req[q].name \in DOMAIN types
                   /\ req[q].name \in DOMAIN types => types'[req[q].name] = types[req[q].name]
        BY <2>1, <3>4, <4>1
      <4> QED
        BY <3>1, <4>1 DEF Pending
    <3>6. Writing(q) /\ Entered(q) => Entered(q)'
      <4>1. ASSUME Writing(q) PROVE \A i \in Entries(req[q].name)' : i \in Entries(req[q].name)
                                       /\ history'[i] = history[i]
        <5>1. ASSUME NEW k, k = req[q].name
              PROVE  /\ Entries(k)' = Entries(k) /\ Entries(req[q].name)' = Entries(k)'
                     /\ Entries(k) \subseteq 1..Len(history)
          <6>1. k # n
            BY <3>4, <4>1, <5>1
          <6>2. Entries(k)' = Entries(k)
            BY <1>3, <6>1, OtherEntries
          <6>3. Entries(req[q].name)' = Entries(k)'
            BY <3>1, <5>1 DEF Entries
          <6> QED
            BY <6>2, <6>3, EntriesInRange
        <5>2. /\ Entries(req[q].name)' = Entries(req[q].name)
              /\ Entries(req[q].name) \subseteq 1..Len(history)
          BY <5>1
        <5> QED
          BY <2>1, <5>2
      <4> QED
        BY <3>1, <4>1 DEF Entered
    <3> QED
      BY <3>1, <3>2, <3>3, <3>5, <3>6 DEF Stage
  <2>4. Stage(p)'
    BY <1>1, <2>1 DEF Stage, Known
  <2>5. Exclusive'
    <3>1. ASSUME NEW q \in Procs, NEW r \in Procs, Writing(q)', Writing(r)', q # r
          PROVE  req'[q].name # req'[r].name
      <4>1. q # p /\ r # p
        BY <1>1, <3>1
      <4>2. /\ req'[q] = req[q] /\ req'[r] = req[r]
            /\ (Writing(q)' <=> Writing(q)) /\ (Writing(r)' <=> Writing(r))
        BY <4>1 DEF Others, Writing
      <4> QED
        BY <3>1, <4>2 DEF Inv, Exclusive
    <3> QED
      BY <3>1 DEF Exclusive
  <2>6. HistoryInv'
    BY <1>3, PublishKeepsHistory
  <2> QED
    BY <2>2, <2>3, <2>4, <2>5, <2>6 DEF Inv
<1> QED
  BY <1>2, <1>3

-----------------------------------------------------------------------------
(* The inductive invariant                                                 *)

LEMMA InitInv == Init => Inv
<1> SUFFICES ASSUME Init PROVE Inv
  OBVIOUS
<1>1. types = [m \in {} |-> NoDef] /\ DOMAIN types = {} /\ tables = {} /\ history = <<>>
  BY DEF Init
<1>2. Typed
  <2>1. ClientsTyped
    BY NothingsTyped DEF Init, ClientsTyped, Steps
  <2>2. types \in [DOMAIN types -> Definition]
    BY <1>1
  <2>3. history \in Seq(Entry) /\ historyID \in Nat
    BY <1>1, EmptySeq DEF Init
  <2> QED
    BY <1>1, <2>1, <2>2, <2>3 DEF Typed, StoreTyped
<1>3. \A p \in Procs : pc[p] = "idle" /\ ~Writing(p)
  BY NothingsTyped DEF Init, Writing
<1>4. HistoryInv
  <2>1. Len(history) = 0
    BY <1>1, EmptySeq
  <2> QED
    BY <1>1, <2>1 DEF HistoryInv, HistoryIDsInOrder, HistoryMatchesType
<1> QED
  BY <1>2, <1>3, <1>4 DEF Inv, Stage, Exclusive

LEMMA InTyped ==
    ASSUME Inv, NEW p \in Procs
    PROVE  /\ req[p] \in Requests /\ tx[p] \in Transactions /\ Stage(p)
           /\ historyID \in Nat /\ historyID + 1 \in Nat /\ historyID <= historyID + 1
           /\ \A m \in DOMAIN types : types[m] \in Definition /\ m \in Names
  BY DEF Inv, Typed, ClientsTyped, StoreTyped

(* A new write keeps the invariant when it fits the row and the name is    *)
(* free.                                                                   *)
LEMMA WritePreserves ==
    ASSUME Inv, NEW p \in Procs, NEW w \in Definition, NameFree(p, req[p].name),
           Advance(p, "history", [tx[p] EXCEPT !.write = w]), historyID' = historyID,
           LET n == req[p].name IN
              \/ /\ req[p].op = "register" /\ n \in Names \ DOMAIN types
                 /\ w.status = "active" /\ w.version = 1
              \/ /\ req[p].op = "evolve" /\ n \in DOMAIN types /\ types[n].status = "active"
                 /\ types[n].version = req[p].version
                 /\ w.schema = req[p].schema /\ w.status = "active"
                 /\ w.version = types[n].version + 1
              \/ /\ req[p].op = "deprecate" /\ n \in DOMAIN types
                 /\ types[n].status = "active"
                 /\ w.schema = types[n].schema /\ w.status = "deprecated"
                 /\ w.version = types[n].version
    PROVE  Inv'
<1> DEFINE t == [tx[p] EXCEPT !.write = w]
<1>1. t \in Transactions /\ t.write = w
  BY InTyped DEF Transactions
<1>2. "history" \in Steps /\ historyID' \in Nat /\ historyID <= historyID'
  BY InTyped DEF Steps
<1>3. types' = types
  BY DEF Advance
<1>4. ASSUME req[p] = req'[p], tx'[p] = t, pc'[p] = "history" PROVE Stage(p)'
  <2>1. Pending(p)'
    BY <1>1, <1>3, <1>4 DEF Pending
  <2>2. Writing(p)'
    BY <1>1, <1>4, NoDefIsNone DEF Writing
  <2> QED
    BY <1>4, <2>1, <2>2 DEF Stage
<1> HIDE DEF t
<1> QED
  BY <1>1, <1>2, <1>4, AdvancePreserves DEF t

(* A statement that writes nothing.                                        *)
LEMMA LookPreserves ==
    ASSUME Inv, NEW p \in Procs, NEW t \in Transactions, t.write = NoDef,
           NEW step \in {"reread", "mark", "read", "commit"}, Known(p),
           Advance(p, step, t), historyID' = historyID,
           step = "mark" => req[p].op = "deprecate"
    PROVE  Inv'
<1>1. step \in Steps /\ historyID' \in Nat /\ historyID <= historyID'
  BY InTyped DEF Steps
<1>2. ASSUME req[p] = req'[p], tx'[p] = t, pc'[p] = step PROVE Stage(p)'
  <2>1. ~Writing(p)' /\ Known(p)'
    BY <1>2 DEF Writing, Known, Advance
  <2> QED
    BY <1>2, <2>1 DEF Stage
<1> QED
  BY <1>1, <1>2, AdvancePreserves

LEMMA RequestPreserves == ASSUME Inv, NEW p \in Procs, Request(p) PROVE Inv'
<1>1. CASE StartRegister(p)
  <2>1. PICK name \in Names, s \in Schemas :
           Arrive(p, [op |-> "register", name |-> name, schema |-> s, version |-> 0], "insert")
    BY <1>1 DEF StartRegister
  <2>2. [op |-> "register", name |-> name, schema |-> s, version |-> 0] \in Requests
    BY DEF Requests
  <2> QED
    BY <2>1, <2>2, ArrivePreserves
<1>2. CASE StartEvolve(p)
  <2>1. PICK name \in Names, s \in Schemas, v \in Versions :
           IF name \in DOMAIN types /\ types[name].status = "active"
           THEN Arrive(p, [op |-> "evolve", name |-> name, schema |-> s, version |-> v], "update")
           ELSE /\ pc[p] = "idle" /\ served < MaxRequests
                /\ served' = served + 1
                /\ reply' = [reply EXCEPT ![p] =
                       [code |-> IF name \in DOMAIN types THEN "deprecated" ELSE "notFound",
                        def  |-> NoDef]]
                /\ UNCHANGED <<types, tables, history, historyID, pc, req, tx>>
    BY <1>2 DEF StartEvolve
  <2>2. CASE name \in DOMAIN types /\ types[name].status = "active"
    <3>1. [op |-> "evolve", name |-> name, schema |-> s, version |-> v] \in Requests
      BY TypeRegistryAssumption DEF Requests
    <3> QED
      BY <2>1, <2>2, <3>1, ArrivePreserves
  <2>3. CASE ~(name \in DOMAIN types /\ types[name].status = "active")
    <3>1. PICK c \in Codes : /\ served' = served + 1
                            /\ reply' = [reply EXCEPT ![p] = [code |-> c, def |-> NoDef]]
                            /\ UNCHANGED <<types, tables, history, historyID, pc, req, tx>>
      <4>1. (IF name \in DOMAIN types THEN "deprecated" ELSE "notFound") \in Codes
        BY DEF Codes
      <4> QED
        BY <2>1, <2>3, <4>1
    <3>2. ClientsTyped'
      <4>1. [code |-> c, def |-> NoDef] \in Replies
        BY DEF Replies
      <4> QED
        BY <3>1, <4>1 DEF Inv, Typed, ClientsTyped
    <3>3. Stage(p)' /\ Others(p) /\ (Writing(p)' <=> Writing(p)) /\ req' = req
      <4>1. (Stage(p)' <=> Stage(p)) /\ (Writing(p)' <=> Writing(p))
        BY <3>1 DEF Stage, Writing, Pending, Entered, Known, Entries
      <4> QED
        BY <3>1, <4>1, InTyped DEF Others
    <3> QED
      BY <3>1, <3>2, <3>3, InTyped, QuietStep
  <2> QED
    BY <2>2, <2>3
<1>3. CASE StartDeprecate(p)
  <2>1. PICK name \in Names :
           Arrive(p, [op |-> "deprecate", name |-> name, schema |-> NoSchema, version |-> 0],
                  "look")
    BY <1>3 DEF StartDeprecate
  <2>2. [op |-> "deprecate", name |-> name, schema |-> NoSchema, version |-> 0] \in Requests
    BY DEF Requests
  <2> QED
    BY <2>1, <2>2, ArrivePreserves
<1>4. CASE GetType(p)
  <2>1. PICK r \in Replies :
           /\ reply' = [reply EXCEPT ![p] = r]
           /\ UNCHANGED <<types, tables, history, historyID, pc, req, tx, served>>
    <3>1. PICK name \in Names :
             /\ reply' = [reply EXCEPT ![p] = IF name \in DOMAIN types
                                             THEN [code |-> "ok", def |-> types[name]]
                                             ELSE [code |-> "notFound", def |-> NoDef]]
             /\ UNCHANGED <<types, tables, history, historyID, pc, req, tx, served>>
      BY <1>4 DEF GetType
    <3>2. name \in DOMAIN types => types[name] \in Definition
      BY InTyped
    <3>3. (IF name \in DOMAIN types THEN [code |-> "ok", def |-> types[name]]
           ELSE [code |-> "notFound", def |-> NoDef]) \in Replies
      BY <3>2 DEF Replies, Codes
    <3> QED
      BY <3>1, <3>3
  <2>2. ClientsTyped'
    BY <2>1 DEF Inv, Typed, ClientsTyped
  <2>3. (Stage(p)' <=> Stage(p)) /\ (Writing(p)' <=> Writing(p))
    BY <2>1 DEF Stage, Writing, Pending, Entered, Known, Entries
  <2>4. Others(p) /\ req' = req
    BY <2>1 DEF Others
  <2> QED
    BY <2>1, <2>2, <2>3, <2>4, InTyped, QuietStep
<1> QED
  BY <1>1, <1>2, <1>3, <1>4 DEF Request

LEMMA ServePreserves == ASSUME Inv, NEW p \in Procs, Serve(p) PROVE Inv'
<1>1. CASE InsertType(p)
  <2>1. CASE req[p].name \in DOMAIN types
    BY <1>1, <2>1, FailPreserves DEF InsertType, Fail, Codes
  <2>2. CASE req[p].name \notin DOMAIN types
    <3> DEFINE w == [schema |-> req[p].schema, status |-> "active", version |-> 1]
    <3>1. /\ NameFree(p, req[p].name) /\ Advance(p, "history", [tx[p] EXCEPT !.write = w])
          /\ historyID' = historyID /\ pc[p] = "insert"
      BY <1>1, <2>2 DEF InsertType
    <3>2. req[p].op = "register" /\ req[p].name \in Names /\ req[p].schema \in Schemas
      BY <3>1, InTyped DEF Stage
    <3>3. w \in Definition /\ w.status = "active" /\ w.version = 1
      BY <3>2 DEF Definition, Status
    <3> HIDE DEF w
    <3> QED
      BY <2>2, <3>1, <3>2, <3>3, WritePreserves
  <2> QED
    BY <2>1, <2>2
<1>2. CASE UpdateSchema(p)
  <2>1. /\ pc[p] = "update" /\ historyID' = historyID /\ req[p].op = "evolve" /\ Known(p)
        /\ req[p].schema \in Schemas /\ ~Writing(p)
    BY <1>2, InTyped DEF UpdateSchema, Stage
  <2>2. types[req[p].name] \in Definition
    BY <2>1, InTyped DEF Known
  <2>3. CASE SchemaMatches(p)
    <3> DEFINE w == [schema |-> req[p].schema, status |-> types[req[p].name].status,
                     version |-> types[req[p].name].version + 1]
    <3>1. NameFree(p, req[p].name) /\ Advance(p, "history", [tx[p] EXCEPT !.write = w])
      BY <1>2, <2>3 DEF UpdateSchema
    <3>2. types[req[p].name].version = req[p].version /\ types[req[p].name].status = "active"
      BY <2>3 DEF SchemaMatches
    <3>3. /\ w \in Definition /\ w.schema = req[p].schema /\ w.status = "active"
          /\ w.version = types[req[p].name].version + 1
      BY <2>1, <2>2, <3>2 DEF Definition
    <3> HIDE DEF w
    <3> QED
      BY <2>1, <3>1, <3>2, <3>3, WritePreserves DEF Known
  <2>4. CASE ~SchemaMatches(p)
    <3>1. Advance(p, "reread", tx[p])
      BY <1>2, <2>4 DEF UpdateSchema
    <3> QED
      BY <2>1, <3>1, InTyped, LookPreserves DEF Writing
  <2> QED
    BY <2>3, <2>4
<1>3. CASE EvolveRefused(p)
  BY <1>3, FailPreserves DEF EvolveRefused, Fail, Codes
<1>4. CASE DeprecateLook(p)
  <2>1. pc[p] = "look" /\ ~Writing(p) /\ req[p].op = "deprecate"
    BY <1>4, InTyped DEF DeprecateLook, Stage
  <2>2. CASE req[p].name \notin DOMAIN types
    BY <1>4, <2>2, FailPreserves DEF DeprecateLook, Fail, Codes
  <2>3. CASE req[p].name \in DOMAIN types
    <3> DEFINE t == [tx[p] EXCEPT !.cur = types[req[p].name]]
               step == IF types[req[p].name].status = "active" THEN "mark" ELSE "read"
    <3>1. Advance(p, step, t) /\ historyID' = historyID
      BY <1>4, <2>3 DEF DeprecateLook
    <3>2. types[req[p].name] \in Definition
      BY <2>3, InTyped
    <3>3. t \in Transactions /\ t.write = NoDef
      BY <2>1, <3>2, InTyped DEF Transactions, Writing
    <3>4. step \in {"reread", "mark", "read", "commit"}
      OBVIOUS
    <3> HIDE DEF t, step
    <3> QED
      BY <2>1, <2>3, <3>1, <3>3, <3>4, LookPreserves DEF Known
  <2> QED
    BY <2>2, <2>3
<1>5. CASE DeprecateMark(p)
  <2>1. /\ pc[p] = "mark" /\ historyID' = historyID /\ req[p].op = "deprecate" /\ Known(p)
        /\ ~Writing(p)
    BY <1>5, InTyped DEF DeprecateMark, Stage
  <2>2. types[req[p].name] \in Definition
    BY <2>1, InTyped DEF Known
  <2>3. CASE types[req[p].name].status = "active"
    <3> DEFINE w == [types[req[p].name] EXCEPT !.status = "deprecated"]
    <3>1. NameFree(p, req[p].name) /\ Advance(p, "history", [tx[p] EXCEPT !.write = w])
      BY <1>5, <2>3 DEF DeprecateMark
    <3>2. /\ w \in Definition /\ w.schema = types[req[p].name].schema
          /\ w.status = "deprecated" /\ w.version = types[req[p].name].version
      BY <2>2 DEF Definition, Status
    <3> HIDE DEF w
    <3> QED
      BY <2>1, <2>3, <3>1, <3>2, WritePreserves DEF Known
  <2>4. CASE types[req[p].name].status # "active"
    <3>1. Advance(p, "commit", tx[p])
      BY <1>5, <2>4 DEF DeprecateMark
    <3> QED
      BY <2>1, <3>1, InTyped, LookPreserves DEF Writing
  <2> QED
    BY <2>3, <2>4
<1>6. CASE InsertHistory(p)
  <2> DEFINE e == [name |-> req[p].name, op |-> req[p].op, schema |-> tx[p].write.schema,
                   id |-> historyID]
             t == [tx[p] EXCEPT !.entry = e]
  <2>1. pc[p] = "history" /\ Advance(p, "commit", t) /\ historyID' = historyID + 1
    BY <1>6 DEF InsertHistory, RecordedSchema
  <2>2. Writing(p) /\ Pending(p)
    BY <2>1, InTyped DEF Stage
  <2>3. /\ tx[p].write \in Definition /\ req[p].name \in Names
        /\ req[p].op \in {"register", "evolve", "deprecate"}
    BY <2>2, InTyped DEF Transactions, Writing, Pending
  <2>4. /\ e \in Entry /\ e.name = req[p].name /\ e.op = req[p].op
        /\ e.schema = tx[p].write.schema /\ e.id = historyID
    BY <2>3, InTyped DEF Entry, Definition
  <2> HIDE DEF e
  <2>5. t \in Transactions /\ t.entry = e /\ t.write = tx[p].write
    BY <2>4, InTyped DEF Transactions
  <2>6. types' = types /\ history' = history
    BY <2>1 DEF Advance
  <2> HIDE DEF t
  <2>7. ASSUME req[p] = req'[p], tx'[p] = t, pc'[p] = "commit" PROVE Stage(p)'
    <3>1. Writing(p)' /\ Pending(p)'
      BY <2>2, <2>5, <2>6, <2>7 DEF Writing, Pending
    <3>2. Entered(p)'
      <4>1. \A i \in 1..Len(history) : history[i].id < historyID
        BY DEF Inv, HistoryInv
      <4>2. \A i \in Entries(req[p].name)' : history'[i].id < historyID
        BY <2>6, <4>1 DEF Entries
      <4>3. historyID < historyID'
        BY <2>1, InTyped
      <4> QED
        BY <2>4, <2>5, <2>7, <4>2, <4>3 DEF Entered
    <3> QED
      BY <2>7, <3>1, <3>2 DEF Stage
  <2>8. "commit" \in Steps /\ historyID' \in Nat /\ historyID <= historyID'
    BY <2>1, InTyped DEF Steps
  <2> QED
    BY <2>1, <2>2, <2>5, <2>7, <2>8, AdvancePreserves
<1>7. CASE Commit(p)
  <2>1. /\ pc[p] = "commit" /\ Publish(p) /\ pc' = [pc EXCEPT ![p] = "read"]
        /\ tx' = [tx EXCEPT ![p] = NoTx] /\ UNCHANGED <<historyID, req, reply, served>>
    BY <1>7 DEF Commit, Goto
  <2>2. ClientsTyped' /\ Others(p) /\ tx'[p] = NoTx /\ pc'[p] = "read"
    BY <2>1, NothingsTyped DEF Inv, Typed, ClientsTyped, Others, Steps
  <2> QED
    BY <2>1, <2>2, PublishPreserves
<1>8. CASE ReadBack(p)
  <2>1. Known(p)
    BY <1>8, InTyped DEF ReadBack, Stage
  <2> QED
    BY <1>8, <2>1, InTyped, FailPreserves DEF ReadBack, Known, Codes
<1> QED
  BY <1>1, <1>2, <1>3, <1>4, <1>5, <1>6, <1>7, <1>8 DEF Serve

LEMMA FaultPreserves == ASSUME Inv, NEW p \in Procs, Fault(p) PROVE Inv'
<1>1. CASE CommitApplied(p)
  <2>1. /\ pc[p] = "commit" /\ Publish(p) /\ pc' = [pc EXCEPT ![p] = "idle"]
        /\ req' = [req EXCEPT ![p] = NoReq] /\ tx' = [tx EXCEPT ![p] = NoTx]
        /\ reply' = [reply EXCEPT ![p] = [code |-> "internal", def |-> NoDef]]
        /\ UNCHANGED <<historyID, served>>
    BY <1>1 DEF CommitApplied, Answer, Goto
  <2>2. [code |-> "internal", def |-> NoDef] \in Replies
    BY DEF Replies, Codes
  <2>3. ClientsTyped' /\ Others(p) /\ tx'[p] = NoTx /\ pc'[p] = "idle"
    BY <2>1, <2>2, NothingsTyped DEF Inv, Typed, ClientsTyped, Others, Steps
  <2> QED
    BY <2>1, <2>3, PublishPreserves
<1>2. CASE CommitAborted(p)
  BY <1>2, FailPreserves DEF CommitAborted, Fail, Codes
<1>3. CASE ReadFailed(p)
  BY <1>3, FailPreserves DEF ReadFailed, Fail, Codes
<1>4. CASE Disconnect(p)
  BY <1>4, FailPreserves DEF Disconnect, Fail, Codes
<1> QED
  BY <1>1, <1>2, <1>3, <1>4 DEF Fault

LEMMA StutterPreserves == ASSUME Inv, UNCHANGED vars PROVE Inv'
<1>1. UNCHANGED <<types, tables, history, historyID, pc, req, tx, reply, served>>
  BY DEF vars
<1>2. Typed'
  BY <1>1 DEF Inv, Typed, ClientsTyped, StoreTyped
<1>3. \A p \in Procs : Stage(p)'
  BY <1>1 DEF Inv, Stage, Writing, Pending, Entered, Known, Entries
<1>4. Exclusive'
  BY <1>1 DEF Inv, Exclusive, Writing
<1>5. HistoryInv'
  <2>1. HistoryIDsInOrder' <=> HistoryIDsInOrder
    BY <1>1 DEF HistoryIDsInOrder
  <2>2. HistoryMatchesType' <=> HistoryMatchesType
    BY <1>1 DEF HistoryMatchesType, Entries, EntriesOf
  <2> QED
    BY <1>1, <2>1, <2>2 DEF Inv, HistoryInv
<1> QED
  BY <1>2, <1>3, <1>4, <1>5 DEF Inv

LEMMA InvAlways == Spec => []Inv
<1>1. Inv /\ [Next]_vars => Inv'
  BY RequestPreserves, ServePreserves, FaultPreserves, StutterPreserves DEF Next
<1> QED
  BY InitInv, <1>1, PTL DEF Spec

-----------------------------------------------------------------------------
(* Every registered type has its data table, and every data table its type *)
(* (type_service.go:49-60).                                                *)
THEOREM TypeCorrect == Spec => []TypeOK
<1>1. Inv => TypeOK
  <2> SUFFICES ASSUME Inv PROVE TypeOK
    OBVIOUS
  <2>1. \A i \in 1..Len(history) : history[i] \in Entry
    BY ElementOfSeq DEF Inv, Typed, StoreTyped
  <2>2. ASSUME NEW p \in Procs
        PROVE  /\ req[p].name \in Names \cup {"none"}
               /\ tx[p].write \in Definition \cup {NoDef}
               /\ tx[p].entry \in Entry \cup {NoEntry}
               /\ reply[p].def \in Definition \cup {NoDef}
    BY DEF Inv, Typed, ClientsTyped, Requests, Transactions, Replies
  <2>3. \A m \in DOMAIN types : types[m] \in Definition
    BY InTyped DEF Inv, Typed, StoreTyped
  <2> QED
    BY <2>1, <2>2, <2>3 DEF Inv, Typed, ClientsTyped, StoreTyped, TypeOK
<1> QED
  BY <1>1, InvAlways, PTL

(* The history tells what happened to each type, for any number of clients *)
(* whose changes wait for one another and whose COMMITs fail.              *)
THEOREM HistoryIsTrue == Spec => []HistoryMatchesType
<1>1. Inv => HistoryMatchesType
  BY DEF Inv, HistoryInv
<1> QED
  BY <1>1, InvAlways, PTL

(* The ids of a type's history rise in the order of its changes.           *)
THEOREM HistoryIsOrdered == Spec => []HistoryIDsInOrder
<1>1. Inv => HistoryIDsInOrder
  BY DEF Inv, HistoryInv
<1> QED
  BY <1>1, InvAlways, PTL

-----------------------------------------------------------------------------
(* Types change only by a COMMIT.                                          *)
LEMMA TypesChange ==
    ASSUME [Next]_vars
    PROVE  \/ types' = types
           \/ \E p \in Procs : pc[p] = "commit" /\ Publish(p)
<1>1. CASE UNCHANGED vars
  BY <1>1 DEF vars
<1>2. ASSUME NEW p \in Procs, Request(p) PROVE types' = types
  BY <1>2 DEF Request, StartRegister, StartEvolve, StartDeprecate, GetType, Arrive
<1>3. ASSUME NEW p \in Procs, Serve(p)
      PROVE  types' = types \/ (pc[p] = "commit" /\ Publish(p))
  <2>1. InsertType(p) \/ UpdateSchema(p) \/ EvolveRefused(p) => types' = types
    BY DEF InsertType, UpdateSchema, EvolveRefused, Fail, Advance
  <2>2. DeprecateLook(p) \/ DeprecateMark(p) \/ InsertHistory(p) \/ ReadBack(p)
           => types' = types
    BY DEF DeprecateLook, DeprecateMark, InsertHistory, ReadBack, Fail, Advance
  <2> QED
    BY <1>3, <2>1, <2>2 DEF Serve, Commit
<1>4. ASSUME NEW p \in Procs, Fault(p)
      PROVE  types' = types \/ (pc[p] = "commit" /\ Publish(p))
  BY <1>4 DEF Fault, CommitApplied, CommitAborted, ReadFailed, Disconnect, Fail
<1> QED
  BY <1>1, <1>2, <1>3, <1>4 DEF Next

(* No evolution overwrites one that its author had not seen, and a         *)
(* deprecated type is frozen (meta.go:141-157, 279-290).                   *)
THEOREM NoEvolutionIsLost == Spec => NoLostEvolution
<1>1. Inv /\ [Next]_vars
         => [\A m \in DOMAIN types :
               /\ m \in DOMAIN types'
               /\ types[m].status = "deprecated" => types'[m] = types[m]
               /\ types'[m].schema # types[m].schema =>
                     \E p \in Procs :
                        /\ pc[p] = "commit" /\ req[p].op = "evolve" /\ req[p].name = m
                        /\ req[p].version = types[m].version
                        /\ req[p].schema = types'[m].schema
                        /\ types'[m].version = types[m].version + 1]_vars
  <2> SUFFICES ASSUME Inv, [Next]_vars, NEW m \in DOMAIN types
               PROVE  /\ m \in DOMAIN types'
                      /\ types[m].status = "deprecated" => types'[m] = types[m]
                      /\ types'[m].schema # types[m].schema =>
                            \E p \in Procs :
                               /\ pc[p] = "commit" /\ req[p].op = "evolve" /\ req[p].name = m
                               /\ req[p].version = types[m].version
                               /\ req[p].schema = types'[m].schema
                               /\ types'[m].version = types[m].version + 1
    OBVIOUS
  <2>1. CASE types' = types
    BY <2>1
  <2>2. ASSUME NEW p \in Procs, pc[p] = "commit", Publish(p), types' # types
        PROVE  /\ m \in DOMAIN types'
               /\ types[m].status = "deprecated" => types'[m] = types[m]
               /\ types'[m].schema # types[m].schema =>
                        /\ pc[p] = "commit" /\ req[p].op = "evolve" /\ req[p].name = m
                        /\ req[p].version = types[m].version
                        /\ req[p].schema = types'[m].schema
                        /\ types'[m].version = types[m].version + 1
    <3>1. Writing(p)
      BY <2>2 DEF Publish, Writing
    <3>2. /\ Pending(p)
          /\ DOMAIN types' = DOMAIN types \cup {req[p].name}
          /\ types'[req[p].name] = tx[p].write
          /\ \A k \in DOMAIN types \ {req[p].name} : types'[k] = types[k]
      BY <2>2, <3>1, Published
    <3> QED
      BY <2>2, <3>2 DEF Pending
  <2> QED
    BY <2>1, <2>2, TypesChange
<1> QED
  BY <1>1, InvAlways, PTL DEF Spec, NoLostEvolution

=============================================================================
