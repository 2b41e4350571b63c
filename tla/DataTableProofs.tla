-------------------------- MODULE DataTableProofs --------------------------
(***************************************************************************)
(* Theorems about DataTable, for any number of requests, rows, files and   *)
(* schemas.  TypeOK and LockDiscipline are inductive together; the other   *)
(* properties follow from them.                                            *)
(***************************************************************************)
EXTENDS DataTable, FiniteSetTheorems, WellFoundedInduction, TLAPS

(* The inductive invariant.                                                *)
Inv == TypeOK /\ LockDiscipline

-----------------------------------------------------------------------------
(* Lemmas about the helpers                                                *)

(* A finite, non-empty set of naturals has a greatest element; SetSequence- *)
(* AfterImport relies on it (MAX(id)).                                     *)
LEMMA GreatestElement ==
    ASSUME NEW S \in SUBSET Nat, IsFiniteSet(S), S # {}
    PROVE  \E m \in S : \A i \in S : i <= m
<1> DEFINE R        == StrictSubsetOrdering(S)
           HasMax(U) == \E m \in U : \A i \in U : i <= m
           Bad      == {U \in SUBSET S : U # {} /\ ~HasMax(U)}
<1>1. IsWellFoundedOn(R, SUBSET S)
  BY FS_StrictSubsetOrderingWellFounded, FS_FiniteSubsetsOfFinite
<1>2. Bad = {}
  <2> SUFFICES ASSUME Bad # {} PROVE FALSE
    OBVIOUS
  <2>1. PICK U \in Bad : \A V \in Bad : <<V, U>> \notin R
    <3> HIDE DEF R
    <3> QED
      BY <1>1, WFMin
  <2>2. PICK x \in U : TRUE
    OBVIOUS
  <2>3. U \ {x} \notin Bad
    BY <2>1, <2>2 DEF StrictSubsetOrdering
  <2>4. CASE U \ {x} = {}
    BY <2>2, <2>4
  <2>5. CASE U \ {x} # {}
    <3>1. PICK m \in U \ {x} : \A i \in U \ {x} : i <= m
      BY <2>3, <2>5
    <3>2. HasMax(U)
      <4>1. CASE x <= m
        BY <3>1, <4>1
      <4>2. CASE m <= x
        BY <3>1, <2>2, <4>2
      <4> QED
        BY <3>1, <2>2, <4>1, <4>2
    <3> QED
      BY <3>2
  <2> QED
    BY <2>4, <2>5
<1> QED
  BY <1>2

(* setval always leaves a positive sequence value above every id.          *)
LEMMA NextIDAbove ==
    ASSUME NEW t, IsTable(t)
    PROVE  NextID(t) \in Nat \ {0} /\ \A i \in DOMAIN t : i < NextID(t)
<1> DEFINE IsTop(m) == \A i \in DOMAIN t : i <= m
           top      == CHOOSE m \in DOMAIN t : IsTop(m)
<1>1. CASE DOMAIN t = {}
  BY <1>1 DEF NextID
<1>2. CASE DOMAIN t # {}
  <2>1. \E m \in DOMAIN t : IsTop(m)
    BY <1>2, GreatestElement DEF IsTable
  <2>2. top \in DOMAIN t /\ IsTop(top)
    BY <2>1
  <2>3. NextID(t) = 1 + top
    BY <1>2 DEF NextID
  <2> QED
    BY <2>2, <2>3 DEF IsTable
<1> QED
  BY <1>1, <1>2

(* A patch merged onto a row's data is data of the declared fields.        *)
LEMMA MergeType ==
    ASSUME NEW old \in Data, NEW b \in Body
    PROVE  Merge(old, b) \in Data
BY DEF Merge, Data, Body

(* An INSERT starts from an object with every field missing.               *)
LEMMA BlankType == Blank \in Data
BY DEF Blank, Data

(* A transaction's view of the table is a table.                           *)
LEMMA ViewType ==
    ASSUME TypeOK, NEW p \in Procs
    PROVE  IsTable(View(p))
<1> DEFINE w == tx[p].writes
           D == (DOMAIN rows \ Deleted(p)) \cup DOMAIN w
<1>1. IsTable(rows) /\ IsTable(w)
  BY DEF TypeOK, IsTx
<1>2. IsFiniteSet(D)
  BY <1>1, FS_Difference, FS_Subset, FS_Union DEF IsTable
<1>3. View(p) = [i \in D |-> IF i \in DOMAIN w THEN w[i] ELSE rows[i]]
  BY DEF View
<1> QED
  BY <1>1, <1>2, <1>3 DEF IsTable

(* A line of the file that is accepted becomes a row with a positive id.   *)
LEMMA ImportedType ==
    ASSUME NEW d \in FileDoc, NEW schema, RowAccepted(schema, d)
    PROVE  d.id \in Nat \ {0} /\ Imported(d) \in Row
<1>1. d.id \in Int /\ d.id > 0 /\ d.data \in Data
  BY DEF FileDoc, RowAccepted
<1> DEFINE st == IF d.status = "" THEN "active" ELSE d.status
<1>2. st \in RowStatus
  BY DEF RowAccepted, RowStatus
<1>3. Imported(d) = [version |-> 1, status |-> st, data |-> d.data]
  BY DEF Imported
<1> HIDE DEF st
<1>4. d.id \in Nat \ {0}
  BY <1>1
<1>5. Imported(d) \in Row
  BY <1>1, <1>2, <1>3 DEF Row
<1> QED
  BY <1>4, <1>5

(* The accepted prefix of a file is a table.                               *)
LEMMA FileTableType ==
    ASSUME NEW f \in File, NEW n \in 0..Len(f.docs), NEW schema,
           \A k \in 1..n : RowAccepted(schema, f.docs[k])
    PROVE  IsTable(FileTable(f.docs, n))
<1> DEFINE docs   == f.docs
           IDs    == {docs[k].id : k \in 1..n}
           At(i)  == CHOOSE k \in 1..n : docs[k].id = i
           g      == [k \in 1..n |-> docs[k].id]
<1>1. \A k \in 1..n : docs[k].id \in Nat \ {0} /\ Imported(docs[k]) \in Row
  <2> TAKE k \in 1..n
  <2>1. docs[k] \in FileDoc /\ RowAccepted(schema, docs[k])
    BY DEF File
  <2> QED
    BY <2>1, ImportedType
<1>2. IsFiniteSet(IDs)
  <2>1. g \in Surjection(1..n, IDs)
    BY DEF Surjection
  <2>2. IsFiniteSet(1..n)
    BY FS_Interval
  <2> QED
    BY <2>1, <2>2, FS_Surjection
<1>3. \A i \in IDs : At(i) \in 1..n
  OBVIOUS
<1>4. FileTable(docs, n) = [i \in IDs |-> Imported(docs[At(i)])]
  BY DEF FileTable
<1> QED
  BY <1>1, <1>2, <1>3, <1>4 DEF IsTable

(* A file whose ids are distinct stands for as many rows as it has lines.  *)
LEMMA FileTableSize ==
    ASSUME NEW docs, NEW n \in Nat, \A j, k \in 1..n : docs[j].id = docs[k].id => j = k
    PROVE  Cardinality(DOMAIN FileTable(docs, n)) = n
<1> DEFINE IDs == {docs[k].id : k \in 1..n}
           g   == [k \in 1..n |-> docs[k].id]
<1>1. DOMAIN FileTable(docs, n) = IDs
  BY DEF FileTable
<1>2. g \in [1..n -> IDs] /\ \A j, k \in 1..n : g[j] = g[k] => j = k
  OBVIOUS
<1>3. \A i \in IDs : \E k \in 1..n : g[k] = i
  OBVIOUS
<1> HIDE DEF g, IDs
<1>4. g \in Bijection(1..n, IDs)
  BY <1>2, <1>3 DEF Bijection, Injection, IsInjective, Surjection
<1>5. IsFiniteSet(1..n) /\ Cardinality(1..n) = n
  BY FS_Interval
<1>6. Cardinality(IDs) = n
  BY <1>4, <1>5, FS_Bijection DEF ExistsBijection
<1> QED
  BY <1>1, <1>6

-----------------------------------------------------------------------------
(* The invariant under the two shapes of step: one that touches only the   *)
(* request's own state, and one that publishes its writes.                 *)

(* A request whose own state, and the table, stay the same stays sound;    *)
(* the sequence may move back only when no INSERT is in flight.            *)
LEMMA OthersStaySound ==
    ASSUME NEW q \in Procs, Sound(q), UNCHANGED <<rows, epoch>>,
           pc'[q] = pc[q], req'[q] = req[q], tx'[q] = tx[q],
           seq \in Nat, seq' \in Nat, req[q].id \in Nat,
           seq <= seq' \/ tx[q].held = "none"
    PROVE  Sound(q)'
<1>1. InsertSound(q) => InsertSound(q)'
  BY DEF InsertSound, Unwritten
<1>2. RowWriterSound(q) => RowWriterSound(q)'
  BY DEF RowWriterSound, Unwritten, RowStep
<1>3. ImportSound(q) => ImportSound(q)'
  BY DEF ImportSound, Unwritten
<1> QED
  BY <1>1, <1>2, <1>3 DEF Sound, StepsOf, NewTx, NoRow, Blank

(* A step that changes only p's own request keeps the invariant if it      *)
(* leaves p sound and compatible with the others; the sequence may move    *)
(* back only under the import's table lock.                                *)
LEMMA QuietStep ==
    ASSUME Inv, NEW p \in Procs,
           NEW r \in Request, NEW t, IsTx(t), NEW step \in Steps, NEW code \in Codes,
           UNCHANGED <<rows, epoch, seen>>,
           def' \in Definition, seq' \in Nat \ {0}, served' \in Nat,
           pc'    = [pc EXCEPT ![p] = step],
           req'   = [req EXCEPT ![p] = r],
           tx'    = [tx EXCEPT ![p] = t],
           reply' = [reply EXCEPT ![p] = code],
           seq <= seq' \/ t.held = "shareRowExclusive",
           Sound(p)',
           \A q \in Procs \ {p} : Compatible(p, q)' /\ Compatible(q, p)'
    PROVE  Inv'
<1>1. /\ pc'[p] = step /\ req'[p] = r /\ tx'[p] = t
      /\ \A q \in Procs \ {p} : pc'[q] = pc[q] /\ req'[q] = req[q] /\ tx'[q] = tx[q]
  BY DEF Inv, TypeOK
<1>2. TypeOK'
  <2>1. /\ tx' = [q \in Procs |-> tx'[q]]
        /\ \A q \in Procs : IsTx(tx'[q])
    BY <1>1 DEF Inv, TypeOK
  <2>2. IsTable(rows')
    BY DEF Inv, TypeOK
  <2> QED
    BY <2>1, <2>2 DEF Inv, TypeOK
<1>3. \A q \in Procs \ {p} : Sound(q)'
  <2> TAKE q \in Procs \ {p}
  <2>1. seq <= seq' \/ tx[q].held = "none"
    BY <1>1 DEF Compatible
  <2>2. Sound(q) /\ req[q].id \in Nat /\ seq \in Nat /\ seq' \in Nat
    BY DEF Inv, LockDiscipline, TypeOK, Request
  <2> QED
    BY <1>1, <2>1, <2>2, OthersStaySound
<1>4. \A q1, q2 \in Procs : q1 # q2 => Compatible(q1, q2)'
  <2> TAKE q1, q2 \in Procs
  <2>1. CASE p \notin {q1, q2} /\ q1 # q2
    <3>1. Compatible(q1, q2)
      BY <2>1 DEF Inv, LockDiscipline
    <3> QED
      BY <1>1, <2>1, <3>1 DEF Compatible
  <2> QED
    BY <2>1
<1> QED
  BY <1>2, <1>3, <1>4 DEF Inv, LockDiscipline

(* A request without a body carries the empty patch.                       *)
LEMMA EmptyBodyType == EmptyBody \in Body
<1>1. EmptyBody \in [{} -> Values \cup {Null}]
  BY DEF EmptyBody
<1> QED
  BY <1>1 DEF Body

(* The record of no request has the type of a request.                     *)
LEMMA NoReqType == NoReq \in Request
<1>1. NoFile \in File
  BY DEF NoFile, File
<1> QED
  BY <1>1, EmptyBodyType DEF NoReq, Request, Definition, Schema

(* A transaction that has done nothing: no locks, no writes.               *)
LEMMA NewTxType ==
    /\ IsTx(NewTx) /\ Unwritten(NewTx)
    /\ NewTx.held = "none" /\ NewTx.locks = {} /\ NewTx.loaded = 0 /\ NewTx.snap = 0
    /\ NewTx.writes = [i \in {} |-> NoRow] /\ NewTx.row = NoRow
<1>1. IsTable([i \in {} |-> NoRow])
  BY FS_EmptySet DEF IsTable
<1> QED
  BY <1>1 DEF IsTx, NewTx, LockModes, Unwritten

(* A request that ends without publishing anything.                        *)
LEMMA FailStep ==
    ASSUME Inv, NEW p \in Procs, NEW code \in Codes, Fail(p, code)
    PROVE  Inv'
<1>1. /\ pc' = [pc EXCEPT ![p] = "idle"] /\ req' = [req EXCEPT ![p] = NoReq]
      /\ tx' = [tx EXCEPT ![p] = NewTx] /\ reply' = [reply EXCEPT ![p] = code]
      /\ UNCHANGED <<def, rows, seq, epoch, seen, served>>
  BY DEF Fail, Answer, Goto
<1>2. /\ pc'[p] = "idle" /\ req'[p] = NoReq /\ tx'[p] = NewTx
      /\ \A q \in Procs \ {p} : pc'[q] = pc[q] /\ req'[q] = req[q] /\ tx'[q] = tx[q]
  BY <1>1 DEF Inv, TypeOK
<1>3. NoReq.op = "None" /\ "idle" \in Steps
  BY DEF NoReq, Steps
<1>4. Sound(p)'
  <2>1. "idle" \in StepsOf("None")
    BY DEF StepsOf
  <2> QED
    BY <1>1, <1>2, <1>3, <2>1, NewTxType DEF Sound, Inv, TypeOK
<1>5. \A q \in Procs \ {p} : Compatible(p, q)' /\ Compatible(q, p)'
  BY <1>2, <1>3, NewTxType DEF Compatible
<1>6. def \in Definition /\ seq \in Nat \ {0} /\ seq <= seq /\ served \in Nat
  BY DEF Inv, TypeOK
<1> QED
  BY <1>1, <1>3, <1>4, <1>5, <1>6, QuietStep, NoReqType, NewTxType

-----------------------------------------------------------------------------
(* One lemma per action                                                    *)

(* Init establishes the invariant.                                         *)
LEMMA InitInv == Init => Inv
<1> SUFFICES ASSUME Init PROVE Inv
  OBVIOUS
<1>1. TypeOK
  <2>1. def \in Definition
    BY SchemasAssumption DEF Init, Definition
  <2>2. IsTable(rows) /\ seq \in Nat \ {0}
    BY InitialAssumption, NextIDAbove DEF Init
  <2>3. "idle" \in Steps /\ "none" \in Codes
    BY DEF Steps, Codes
  <2>4. \A p \in Procs : IsTx(tx[p])
    BY NewTxType DEF Init
  <2> QED
    BY <2>1, <2>2, <2>3, <2>4, NoReqType DEF Init, TypeOK
<1>2. LockDiscipline
  <2>1. NoReq.op = "None" /\ "idle" \in StepsOf("None")
    BY DEF NoReq, StepsOf
  <2>2. \A p \in Procs : Sound(p)
    BY <2>1, NewTxType DEF Sound, Init
  <2>3. \A p, q \in Procs : Compatible(p, q)
    BY <2>1, NewTxType DEF Compatible, Init
  <2> QED
    BY <2>2, <2>3 DEF LockDiscipline
<1> QED
  BY <1>1, <1>2 DEF Inv

(* A request arrives: it is refused, or becomes the request in flight.     *)
LEMMA ArriveStep ==
    ASSUME Inv, NEW p \in Procs, NEW r \in Request, NEW step, NEW code \in Codes,
           \/ /\ r.op = "Insert" /\ step = "check"
              /\ code = "ok" => Valid(r.def.schema, Merge(Blank, r.body))
           \/ r.op \in {"Update", "SoftDelete", "Restore"} /\ step = "lockRow"
           \/ r.op = "Import" /\ step = "lockTable",
           Arrive(p, r, step, code)
    PROVE  Inv'
<1>1. tx[p] = NewTx /\ req[p].op = "None" /\ pc[p] = "idle" /\ step \in Steps
  BY DEF Inv, TypeOK, LockDiscipline, Sound, StepsOf, Request, DataOps, Arrive, Steps
<1>2. /\ UNCHANGED <<def, rows, seq, epoch, tx, seen>>
      /\ served' \in Nat /\ seq \in Nat \ {0} /\ seq <= seq /\ def \in Definition
      /\ tx' = [tx EXCEPT ![p] = NewTx] /\ tx' = [q \in Procs |-> tx'[q]]
  BY <1>1 DEF Inv, TypeOK, Arrive
<1>3. CASE GateOpen(r.op) /\ code = "ok"
  <2>1. /\ pc' = [pc EXCEPT ![p] = step] /\ req' = [req EXCEPT ![p] = r]
        /\ reply' = [reply EXCEPT ![p] = "none"] /\ "none" \in Codes
    BY <1>3 DEF Arrive, Goto, Codes
  <2>2. pc'[p] = step /\ req'[p] = r /\ tx'[p] = NewTx
    BY <1>2, <2>1 DEF Inv, TypeOK
  <2>3. Sound(p)'
    <3>1. tx'[p].snap <= epoch' /\ step \in StepsOf(r.op)
      BY <1>2, <2>2, NewTxType DEF Inv, TypeOK, StepsOf
    <3>2. r.op = "Insert" => InsertSound(p)'
      BY <1>3, <2>2, NewTxType DEF InsertSound
    <3>3. r.op \in {"Update", "SoftDelete", "Restore"} => RowWriterSound(p)'
      BY <2>2, NewTxType DEF RowWriterSound
    <3>4. r.op = "Import" => ImportSound(p)'
      BY <2>2, NewTxType DEF ImportSound
    <3> QED
      BY <2>2, <3>1, <3>2, <3>3, <3>4 DEF Sound
  <2>4. \A q \in Procs \ {p} : Compatible(p, q)' /\ Compatible(q, p)'
    BY <1>2, <2>1, <2>2, NewTxType DEF Compatible, Inv, TypeOK
  <2> QED
    BY <1>1, <1>2, <2>1, <2>3, <2>4, QuietStep, NewTxType
<1>4. CASE ~(GateOpen(r.op) /\ code = "ok")
  <2>1. /\ UNCHANGED <<pc, req>>
        /\ reply' = [reply EXCEPT ![p] = IF GateOpen(r.op) THEN code ELSE "deprecated"]
    BY <1>4 DEF Arrive
  <2>2. reply' \in [Procs -> Codes]
    BY <2>1 DEF Inv, TypeOK, Codes
  <2>3. TypeOK'
    BY <1>2, <2>1, <2>2 DEF Inv, TypeOK
  <2>4. LockDiscipline'
    <3>1. \A q \in Procs : Sound(q)'
      <4> TAKE q \in Procs
      <4>1. Sound(q) /\ req[q].id \in Nat
        BY DEF Inv, LockDiscipline, TypeOK, Request
      <4> QED
        BY <1>2, <2>1, <4>1, OthersStaySound
    <3>2. \A q1, q2 \in Procs : Compatible(q1, q2) => Compatible(q1, q2)'
      BY <1>2, <2>1 DEF Compatible
    <3> QED
      BY <3>1, <3>2 DEF Inv, LockDiscipline
  <2> QED
    BY <2>3, <2>4 DEF Inv
<1> QED
  BY <1>3, <1>4

(* A step that leaves the requests and the table alone.                    *)
LEMMA AsideStep ==
    ASSUME Inv, UNCHANGED <<rows, seq, epoch, pc, req, tx>>,
           def' \in Definition, served' \in Nat, reply' \in [Procs -> Codes],
           seen' \in [Procs -> [id : Nat, row : Row, epoch : Nat] \cup {NoDoc}]
    PROVE  Inv'
<1>1. TypeOK'
  BY DEF Inv, TypeOK
<1>2. \A q \in Procs : Sound(q)'
  <2> TAKE q \in Procs
  <2>1. Sound(q) /\ req[q].id \in Nat /\ seq \in Nat /\ seq <= seq
    BY DEF Inv, LockDiscipline, TypeOK, Request
  <2> QED
    BY <2>1, OthersStaySound
<1>3. \A q1, q2 \in Procs : Compatible(q1, q2) => Compatible(q1, q2)'
  BY DEF Compatible
<1> QED
  BY <1>1, <1>2, <1>3 DEF Inv, LockDiscipline

(* The arrivals.                                                           *)
LEMMA AskStep ==
    ASSUME Inv, NEW p \in Procs, Ask(p)
    PROVE  Inv'
<1> USE DEF DataOps
<1>1. def \in Definition /\ "ok" \in Codes /\ "invalid" \in Codes
  BY DEF Inv, TypeOK, Codes
<1>2. NoReq \in Request
  BY NoReqType
<1>3. CASE StartInsert(p)
  <2>1. PICK b \in Bodies :
          Arrive(p, [NoReq EXCEPT !.op = "Insert", !.body = b, !.def = def], "check",
                 IF Valid(def.schema, Merge(Blank, b)) THEN "ok" ELSE "invalid")
    BY <1>3 DEF StartInsert
  <2> DEFINE r == [NoReq EXCEPT !.op = "Insert", !.body = b, !.def = def]
  <2>2. r \in Request /\ r.op = "Insert" /\ r.body = b /\ r.def = def
    BY <1>1, <1>2, BodiesAssumption DEF Request
  <2> HIDE DEF r
  <2> QED
    BY <1>1, <2>1, <2>2, ArriveStep DEF r
<1>4. CASE StartUpdate(p)
  <2>1. PICK b \in Bodies, i \in AskedIDs, v \in AskedVersions :
          Arrive(p, [NoReq EXCEPT !.op = "Update", !.id = i, !.version = v,
                                  !.body = b, !.def = def], "lockRow",
                 IF v >= 1 THEN "ok" ELSE "invalid")
    BY <1>4 DEF StartUpdate
  <2> DEFINE r == [NoReq EXCEPT !.op = "Update", !.id = i, !.version = v,
                                !.body = b, !.def = def]
  <2>2. r \in Request /\ r.op = "Update"
    BY <1>1, <1>2, BodiesAssumption, AskedAssumption DEF Request
  <2> HIDE DEF r
  <2> QED
    BY <1>1, <2>1, <2>2, ArriveStep DEF r
<1>5. CASE StartStatusChange(p)
  <2>1. PICK op \in {"SoftDelete", "Restore"}, i \in AskedIDs :
          Arrive(p, [NoReq EXCEPT !.op = op, !.id = i, !.def = def], "lockRow", "ok")
    BY <1>5 DEF StartStatusChange
  <2> DEFINE r == [NoReq EXCEPT !.op = op, !.id = i, !.def = def]
  <2>2. r \in Request /\ r.op = op
    BY <1>1, <1>2, AskedAssumption DEF Request
  <2> HIDE DEF r
  <2> QED
    BY <1>1, <2>1, <2>2, ArriveStep DEF r
<1>6. CASE StartImport(p)
  <2>1. PICK f \in Files :
          Arrive(p, [NoReq EXCEPT !.op = "Import", !.file = f, !.def = def],
                 "lockTable", "ok")
    BY <1>6 DEF StartImport
  <2> DEFINE r == [NoReq EXCEPT !.op = "Import", !.file = f, !.def = def]
  <2>2. r \in Request /\ r.op = "Import"
    BY <1>1, <1>2, FilesAssumption DEF Request
  <2> HIDE DEF r
  <2> QED
    BY <1>1, <2>1, <2>2, ArriveStep DEF r
<1>7. CASE Get(p)
  <2>1. UNCHANGED <<def, rows, seq, epoch, pc, req, tx, served>> /\ served \in Nat
    BY <1>7 DEF Get, Inv, TypeOK
  <2>2. PICK i \in AskedIDs :
          IF i \in DOMAIN rows
          THEN /\ seen'  = [seen EXCEPT ![p] = Document(i, rows[i])]
               /\ reply' = [reply EXCEPT ![p] = "ok"]
          ELSE /\ reply' = [reply EXCEPT ![p] = "notFound"]
               /\ UNCHANGED seen
    BY <1>7 DEF Get
  <2>3. reply' \in [Procs -> Codes]
    BY <2>2 DEF Inv, TypeOK, Codes
  <2>4. i \in DOMAIN rows => Document(i, rows[i]) \in [id : Nat, row : Row, epoch : Nat]
    BY AskedAssumption DEF Document, Inv, TypeOK, IsTable
  <2>5. seen' \in [Procs -> [id : Nat, row : Row, epoch : Nat] \cup {NoDoc}]
    BY <2>2, <2>4 DEF Inv, TypeOK
  <2> QED
    BY <1>1, <2>1, <2>3, <2>5, AsideStep
<1> QED
  BY <1>3, <1>4, <1>5, <1>6, <1>7 DEF Ask

(* The owner of the type changes its schema or deprecates it.              *)
LEMMA TypeStep ==
    ASSUME Inv, Evolve \/ Deprecate
    PROVE  Inv'
<1>1. UNCHANGED <<rows, seq, epoch, pc, req, tx, reply, seen, served>>
  BY DEF Evolve, Deprecate
<1>2. def' \in Definition
  BY SchemasAssumption DEF Evolve, Deprecate, Inv, TypeOK, Definition
<1>3. served \in Nat /\ reply \in [Procs -> Codes]
      /\ seen \in [Procs -> [id : Nat, row : Row, epoch : Nat] \cup {NoDoc}]
  BY DEF Inv, TypeOK
<1> QED
  BY <1>1, <1>2, <1>3, AsideStep

(* A request that moves on to its next statement keeps the invariant if it *)
(* is sound there and gets in nobody's way.                                *)
LEMMA AdvanceStep ==
    ASSUME Inv, NEW p \in Procs, NEW t, IsTx(t), NEW step \in Steps,
           Advance(p, step, t), UNCHANGED req,
           seq' \in Nat \ {0}, seq <= seq' \/ t.held = "shareRowExclusive",
           Sound(p)',
           \A q \in Procs \ {p} : Compatible(p, q)' /\ Compatible(q, p)'
    PROVE  Inv'
<1>1. /\ req' = [req EXCEPT ![p] = req[p]] /\ req[p] \in Request
      /\ reply' = [reply EXCEPT ![p] = reply[p]] /\ reply[p] \in Codes
      /\ pc' = [pc EXCEPT ![p] = step] /\ tx' = [tx EXCEPT ![p] = t]
      /\ UNCHANGED <<def, rows, epoch, seen, served>>
      /\ def \in Definition /\ served \in Nat
  BY DEF Inv, TypeOK, Advance, Goto
<1> QED
  BY <1>1, QuietStep

(* What Advance leaves alone, seen from each request.                      *)
LEMMA Advanced ==
    ASSUME Inv, NEW p \in Procs, NEW t, NEW step, Advance(p, step, t)
    PROVE  /\ pc'[p] = step /\ tx'[p] = t
           /\ \A q \in Procs \ {p} : pc'[q] = pc[q] /\ tx'[q] = tx[q]
           /\ UNCHANGED <<rows, epoch>>
BY DEF Inv, TypeOK, Advance, Goto

(* FOR UPDATE returns the row: the request is refused, or goes on with the *)
(* row locked and its copy current.                                        *)
LEMMA RowLockedStep ==
    ASSUME Inv, NEW p \in Procs, pc[p] \in {"lockRow", "waitRow"},
           req[p].id \in DOMAIN rows, RowFree(p, req[p].id), RowLocked(p)
    PROVE  Inv'
<1> DEFINE r    == req[p]
           row  == rows[r.id]
           t    == [tx[p] EXCEPT !.locks = {r.id}, !.row = row]
           step == NextStep(r.op, row.status)
<1>1. CASE \E code \in Codes : Fail(p, code)
  BY <1>1, FailStep
<1>2. CASE /\ ~Refused(r, row) /\ Advance(p, step, t) /\ UNCHANGED <<seq, req>>
           /\ r.op = "Update" => Valid(r.def.schema, Merge(row.data, r.body))
  <2>1. /\ r.op \in {"Update", "SoftDelete", "Restore"} /\ tx[p].locks = {}
        /\ tx[p].held = "none" /\ DOMAIN tx[p].writes = {} /\ tx[p].snap <= epoch
        /\ r.id \in Nat /\ row \in Row /\ IsTx(tx[p])
    BY DEF Inv, TypeOK, Request, DataOps, LockDiscipline, Sound, StepsOf, RowWriterSound,
           Unwritten, IsTable
  <2>2. IsTx(t) /\ t.held = "none" /\ t.writes = tx[p].writes /\ t.locks = {r.id}
        /\ t.row = row /\ t.snap = tx[p].snap
    BY <2>1 DEF IsTx
  <2>3. step \in Steps /\ seq \in Nat \ {0} /\ seq <= seq
    BY <2>1 DEF NextStep, Steps, Inv, TypeOK
  <2> HIDE DEF t
  <2>4. /\ pc'[p] = step /\ tx'[p] = t /\ req' = req /\ seq' = seq
        /\ \A q \in Procs \ {p} : pc'[q] = pc[q] /\ tx'[q] = tx[q]
        /\ UNCHANGED <<rows, epoch>>
    BY <1>2, Advanced
  <2>5. row.status \in RowStatus
    BY <2>1 DEF Row
  <2>6. Sound(p)'
    <3>1. step \in StepsOf(r.op) /\ step \in {"check", "write", "commit"}
      BY <2>1, <2>5 DEF NextStep, StepsOf
    <3>2. Unwritten(t)
      BY <2>1, <2>2 DEF Unwritten
    <3>3. /\ r.op = "Update" => row.status = "active" /\ row.version = r.version
          /\ step \in {"check", "write"} /\ r.op = "SoftDelete" => row.status = "active"
          /\ step \in {"check", "write"} /\ r.op = "Restore" => row.status = "deleted"
          /\ step = "commit" => Already(r, row)
      BY <1>2, <2>1, <2>5 DEF NextStep, Refused, RowStatus, Already
    <3>4. RowWriterSound(p)'
      BY <1>2, <2>2, <2>4, <3>1, <3>2, <3>3 DEF RowWriterSound
    <3> QED
      BY <2>1, <2>2, <2>4, <3>1, <3>4 DEF Sound
  <2>7. \A q \in Procs \ {p} : Compatible(p, q)' /\ Compatible(q, p)'
    <3> TAKE q \in Procs \ {p}
    <3>1. r.id \notin tx[q].locks /\ Compatible(q, p)
      BY DEF RowFree, Inv, LockDiscipline
    <3> QED
      BY <2>1, <2>2, <2>4, <3>1 DEF Compatible
  <2> QED
    BY <1>2, <2>2, <2>3, <2>4, <2>6, <2>7, AdvanceStep
<1> QED
  <2>1. "conflict" \in Codes /\ "invalid" \in Codes
    BY DEF Codes
  <2> QED
    BY <1>1, <1>2, <2>1 DEF RowLocked

(* SELECT ... FOR UPDATE, with and without a wait.                         *)
LEMMA ForUpdateStep ==
    ASSUME Inv, NEW p \in Procs, GetDocForUpdate(p) \/ RowGranted(p)
    PROVE  Inv'
<1>1. CASE \E code \in Codes : Fail(p, code)
  BY <1>1, FailStep
<1>2. CASE /\ pc[p] \in {"lockRow", "waitRow"} /\ RowFree(p, req[p].id) /\ RowLocked(p)
           /\ req[p].id \in DOMAIN rows
  BY <1>2, RowLockedStep
<1>3. CASE /\ pc[p] = "lockRow" /\ req[p].id \in DOMAIN rows
           /\ Advance(p, "waitRow", [tx[p] EXCEPT !.snap = epoch])
           /\ UNCHANGED <<seq, req>>
  <2> DEFINE t == [tx[p] EXCEPT !.snap = epoch]
  <2>1. /\ req[p].op \in {"Update", "SoftDelete", "Restore"} /\ tx[p].locks = {}
        /\ tx[p].held = "none" /\ Unwritten(tx[p]) /\ epoch \in Nat /\ IsTx(tx[p])
    <3>1. Sound(p) /\ IsTx(tx[p]) /\ epoch \in Nat /\ req[p] \in Request
      BY DEF Inv, TypeOK, LockDiscipline
    <3>2. req[p].op \in {"Update", "SoftDelete", "Restore"}
      <4>1. req[p].op \in DataOps \cup {"Import", "None"}
        BY <3>1 DEF Request
      <4> QED
        BY <1>3, <3>1, <4>1 DEF Sound, StepsOf, DataOps
    <3>3. RowWriterSound(p)
      BY <3>1, <3>2 DEF Sound
    <3>4. tx[p].locks = {} /\ Unwritten(tx[p])
      BY <1>3, <3>3 DEF RowWriterSound
    <3> QED
      BY <3>1, <3>2, <3>4 DEF Unwritten
  <2>2. IsTx(t) /\ t.held = "none" /\ t.locks = {} /\ t.snap = epoch /\ Unwritten(t)
    BY <2>1 DEF IsTx, Unwritten
  <2>3. "waitRow" \in Steps /\ seq \in Nat \ {0} /\ seq <= seq /\ epoch <= epoch
    BY DEF Steps, Inv, TypeOK
  <2> HIDE DEF t
  <2>4. /\ pc'[p] = "waitRow" /\ tx'[p] = t /\ req' = req /\ seq' = seq
        /\ \A q \in Procs \ {p} : pc'[q] = pc[q] /\ tx'[q] = tx[q]
        /\ UNCHANGED <<rows, epoch>>
    BY <1>3, Advanced DEF t
  <2>5. RowWriterSound(p)'
    BY <1>3, <2>2, <2>4 DEF RowWriterSound
  <2>6. Sound(p)'
    BY <2>1, <2>2, <2>3, <2>4, <2>5 DEF Sound, StepsOf
  <2>7. \A q \in Procs \ {p} : Compatible(p, q)' /\ Compatible(q, p)'
    <3> TAKE q \in Procs \ {p}
    <3>1. Compatible(q, p)
      BY DEF Inv, LockDiscipline
    <3> QED
      BY <2>1, <2>2, <2>4, <3>1 DEF Compatible
  <2> QED
    BY <1>3, <2>2, <2>3, <2>4, <2>6, <2>7, AdvanceStep DEF t
<1> QED
  <2>1. "notFound" \in Codes
    BY DEF Codes
  <2>2. pc[p] = "waitRow" /\ tx[p].snap = epoch => req[p].id \in DOMAIN rows
    BY DEF Inv, LockDiscipline, Sound, TypeOK, Request, DataOps, StepsOf, RowWriterSound
  <2> QED
    BY <1>1, <1>2, <1>3, <2>1, <2>2 DEF GetDocForUpdate, RowGranted

(* The duplicate check only reads.                                         *)
LEMMA CheckStep ==
    ASSUME Inv, NEW p \in Procs, CheckUniqueDup(p)
    PROVE  Inv'
<1> DEFINE step == IF req[p].op = "Insert" THEN "insert" ELSE "write"
<1>1. CASE Fail(p, "conflict")
  <2>1. "conflict" \in Codes
    BY DEF Codes
  <2> QED
    BY <1>1, <2>1, FailStep
<1>2. CASE Advance(p, step, tx[p]) /\ UNCHANGED <<seq, req>>
  <2>1. /\ pc[p] = "check" /\ req[p].op \in {"Insert", "Update", "Restore"}
        /\ Sound(p) /\ IsTx(tx[p])
    BY DEF CheckUniqueDup, Inv, TypeOK, Request, DataOps, LockDiscipline, Sound, StepsOf
  <2>2. step \in Steps /\ seq \in Nat \ {0} /\ seq <= seq
    BY DEF Steps, Inv, TypeOK
  <2>3. /\ pc'[p] = step /\ tx'[p] = tx[p] /\ req' = req /\ seq' = seq
        /\ \A q \in Procs \ {p} : pc'[q] = pc[q] /\ tx'[q] = tx[q]
        /\ UNCHANGED <<rows, epoch>>
    BY <1>2, Advanced
  <2>4. req[p].op = "Insert" => InsertSound(p)'
    BY <2>1, <2>3 DEF Sound, InsertSound, Unwritten
  <2>5. req[p].op # "Insert" => RowWriterSound(p)'
    BY <2>1, <2>3 DEF Sound, RowWriterSound, Unwritten, RowStep
  <2>6. Sound(p)'
    BY <2>1, <2>3, <2>4, <2>5 DEF Sound, StepsOf
  <2>7. \A q \in Procs \ {p} : Compatible(p, q)' /\ Compatible(q, p)'
    <3> TAKE q \in Procs \ {p}
    <3>1. Compatible(p, q) /\ Compatible(q, p)
      BY DEF Inv, LockDiscipline
    <3> QED
      BY <2>3, <3>1 DEF Compatible
  <2> QED
    BY <1>2, <2>1, <2>2, <2>3, <2>6, <2>7, AdvanceStep
<1> QED
  BY <1>1, <1>2 DEF CheckUniqueDup

(* INSERT takes an id of its own below the sequence.                       *)
LEMMA InsertStep ==
    ASSUME Inv, NEW p \in Procs, InsertDoc(p)
    PROVE  Inv'
<1>1. /\ pc[p] = "insert" /\ req[p].op = "Insert" /\ tx[p].locks = {} /\ IsTx(tx[p])
      /\ tx[p].snap <= epoch /\ req[p] \in Request /\ reply[p] \in Codes
      /\ seq \in Nat \ {0} /\ seq' = seq + 1 /\ seq' \in Nat \ {0} /\ seq <= seq'
      /\ def \in Definition /\ served \in Nat
      /\ Valid(req[p].def.schema, Merge(Blank, req[p].body))
  BY DEF InsertDoc, Inv, TypeOK, Request, DataOps, LockDiscipline, Sound, StepsOf, InsertSound
<1>2. \A q \in Procs \ {p} : tx[q].held # "shareRowExclusive"
  BY DEF InsertDoc, TableFree, Conflicts
<1>3. CASE seq \in DOMAIN rows
  <2>1. /\ pc' = [pc EXCEPT ![p] = "idle"] /\ req' = [req EXCEPT ![p] = NoReq]
        /\ tx' = [tx EXCEPT ![p] = NewTx] /\ reply' = [reply EXCEPT ![p] = "internal"]
        /\ UNCHANGED <<def, rows, epoch, seen, served>>
    BY <1>3 DEF InsertDoc, Answer, Goto
  <2>2. /\ pc'[p] = "idle" /\ req'[p] = NoReq /\ tx'[p] = NewTx
        /\ \A q \in Procs \ {p} : pc'[q] = pc[q] /\ req'[q] = req[q] /\ tx'[q] = tx[q]
    BY <2>1 DEF Inv, TypeOK
  <2>3. NoReq.op = "None" /\ "idle" \in Steps /\ "internal" \in Codes /\ "idle" \in StepsOf("None")
    BY DEF NoReq, Steps, Codes, StepsOf
  <2>4. Sound(p)'
    BY <2>1, <2>2, <2>3, NewTxType DEF Sound, Inv, TypeOK
  <2>5. \A q \in Procs \ {p} : Compatible(p, q)' /\ Compatible(q, p)'
    BY <2>2, <2>3, NewTxType DEF Compatible
  <2> QED
    BY <1>1, <2>1, <2>3, <2>4, <2>5, QuietStep, NoReqType, NewTxType
<1>4. CASE seq \notin DOMAIN rows
  <2> DEFINE row == [version |-> 1, status |-> "active", data |-> WrittenData(p)]
             w   == [i \in {seq} |-> row]
             t   == [tx[p] EXCEPT !.held = "rowExclusive", !.writes = w]
             r   == [req[p] EXCEPT !.id = seq]
  <2>1. row \in Row
    <3>1. WrittenData(p) \in Data
      BY <1>1, MergeType, BlankType DEF WrittenData, Request
    <3> QED
      BY <3>1 DEF Row, RowStatus
  <2>2. IsTable(w)
    BY <1>1, <2>1, FS_Singleton DEF IsTable
  <2>3. DOMAIN w = {seq} /\ w[seq] = FirstRow(req[p])
    BY <1>1 DEF FirstRow, WrittenData
  <2> HIDE DEF row, w
  <2>4. /\ IsTx(t) /\ t.held = "rowExclusive" /\ t.writes = w /\ t.locks = {}
        /\ t.snap = tx[p].snap
    BY <1>1, <2>2 DEF IsTx, LockModes
  <2>5. /\ r \in Request /\ r.op = "Insert" /\ r.id = seq
        /\ r.body = req[p].body /\ r.def = req[p].def
    BY <1>1 DEF Request
  <2> HIDE DEF t
  <2>6. /\ pc' = [pc EXCEPT ![p] = "commit"] /\ req' = [req EXCEPT ![p] = r]
        /\ tx' = [tx EXCEPT ![p] = t] /\ reply' = [reply EXCEPT ![p] = reply[p]]
        /\ UNCHANGED <<def, rows, epoch, seen, served>>
    BY <1>4 DEF InsertDoc, Advance, Goto, Inv, TypeOK, t, w, row
  <2> HIDE DEF r
  <2>7. /\ pc'[p] = "commit" /\ req'[p] = r /\ tx'[p] = t
        /\ \A q \in Procs \ {p} : pc'[q] = pc[q] /\ req'[q] = req[q] /\ tx'[q] = tx[q]
    BY <2>6 DEF Inv, TypeOK
  <2>8. "commit" \in Steps /\ "commit" \in StepsOf("Insert")
    BY DEF Steps, StepsOf
  <2>9. Sound(p)'
    <3>1. InsertSound(p)'
      BY <1>1, <1>4, <2>3, <2>4, <2>5, <2>6, <2>7 DEF InsertSound, FirstRow
    <3> QED
      BY <1>1, <2>4, <2>5, <2>6, <2>7, <2>8, <3>1 DEF Sound
  <2>10. \A q \in Procs \ {p} : Compatible(p, q)' /\ Compatible(q, p)'
    <3> TAKE q \in Procs \ {p}
    <3>1. req[q].op = "Insert" /\ pc[q] = "commit" => req[q].id # seq
      BY <1>1 DEF Inv, TypeOK, Request, LockDiscipline, Sound, InsertSound
    <3> QED
      BY <1>2, <2>4, <2>5, <2>7, <3>1 DEF Compatible
  <2> QED
    BY <1>1, <2>4, <2>5, <2>6, <2>8, <2>9, <2>10, QuietStep
<1> QED
  BY <1>3, <1>4

(* UPDATE by id writes a row that the request has locked.                  *)
LEMMA UpdateStep ==
    ASSUME Inv, NEW p \in Procs, UpdateDoc(p)
    PROVE  Inv'
<1> DEFINE r   == req[p]
           old == rows[r.id]
           hit == IF r.op = "Update" THEN old.version = r.version
                                     ELSE old.status = tx[p].row.status
           new == [version |-> NewVersion(old.version),
                   status  |-> IF r.op = "SoftDelete" THEN "deleted" ELSE "active",
                   data    |-> IF r.op = "Update" THEN WrittenData(p) ELSE old.data]
           w   == [i \in {r.id} |-> new]
           t   == [tx[p] EXCEPT !.held = "rowExclusive", !.writes = w]
<1>1. /\ pc[p] = "write" /\ r.op \in {"Update", "SoftDelete", "Restore"}
      /\ IsTx(tx[p]) /\ tx[p].snap <= epoch /\ r \in Request /\ RowWriterSound(p)
      /\ IsTable(rows) /\ seq \in Nat \ {0} /\ seq <= seq
  BY DEF UpdateDoc, Inv, TypeOK, Request, DataOps, LockDiscipline, Sound, StepsOf
<1>2. /\ r.id \in DOMAIN rows /\ tx[p].locks = {r.id} /\ tx[p].row = old /\ old \in Row
      /\ r.id \in Nat \ {0}
      /\ r.op = "Update" => /\ old.status = "active" /\ old.version = r.version
                            /\ Valid(r.def.schema, Merge(old.data, r.body))
      /\ r.op = "SoftDelete" => old.status = "active"
      /\ r.op = "Restore" => old.status = "deleted"
  BY <1>1 DEF RowWriterSound, IsTable
<1>3. hit /\ new \in Row /\ new = NextRow(r, old) /\ ~Already(r, old)
  <2>1. WrittenData(p) \in Data \/ r.op # "Update"
    BY <1>1, <1>2, MergeType DEF WrittenData, Row, Request
  <2>2. old.version \in Nat /\ old.data \in Data
    BY <1>2 DEF Row
  <2>3. NewVersion(old.version) = old.version + 1
    BY DEF NewVersion
  <2> QED
    BY <1>1, <1>2, <2>1, <2>2, <2>3 DEF NextRow, Already, Row, RowStatus, WrittenData
<1>4. IsTable(w) /\ DOMAIN w = {r.id} /\ w[r.id] = new
  BY <1>2, <1>3, FS_Singleton DEF IsTable
<1>5. Advance(p, "commit", t) /\ UNCHANGED <<seq, req>>
  BY <1>3 DEF UpdateDoc
<1> HIDE DEF hit, new, w
<1>6. /\ IsTx(t) /\ t.held = "rowExclusive" /\ t.writes = w /\ t.locks = {r.id}
      /\ t.snap = tx[p].snap /\ t.row = old
  BY <1>1, <1>2, <1>4 DEF IsTx, LockModes
<1> HIDE DEF t
<1>7. /\ pc'[p] = "commit" /\ tx'[p] = t /\ req' = req /\ seq' = seq
      /\ \A q \in Procs \ {p} : pc'[q] = pc[q] /\ tx'[q] = tx[q]
      /\ UNCHANGED <<rows, epoch>>
  BY <1>5, Advanced
<1>8. RowWriterSound(p)'
  <2>1. /\ pc'[p] = "commit" /\ req'[p] = r /\ rows'[r.id] = old /\ r.id \in DOMAIN rows'
        /\ DOMAIN tx'[p].writes = {r.id} /\ tx'[p].writes[r.id] = NextRow(r, tx'[p].row)
        /\ ~Already(r, tx'[p].row)
    BY <1>2, <1>3, <1>4, <1>6, <1>7
  <2> QED
    BY <1>2, <1>6, <1>7, <2>1 DEF RowWriterSound
<1>9. Sound(p)'
  BY <1>1, <1>6, <1>7, <1>8 DEF Sound, StepsOf
<1>10. \A q \in Procs \ {p} : Compatible(p, q)' /\ Compatible(q, p)'
  <2> TAKE q \in Procs \ {p}
  <2>1. Compatible(p, q) /\ Compatible(q, p) /\ tx[q].held # "shareRowExclusive"
    BY DEF Inv, LockDiscipline, UpdateDoc, TableFree, Conflicts
  <2> QED
    BY <1>1, <1>2, <1>6, <1>7, <2>1 DEF Compatible
<1> QED
  <2>1. "commit" \in Steps
    BY DEF Steps
  <2> QED
    BY <1>1, <1>5, <1>6, <1>7, <1>9, <1>10, <2>1, AdvanceStep

(* What an import is known to hold before each of its statements.          *)
LEMMA Importing ==
    ASSUME Inv, NEW p \in Procs, pc[p] \in {"lockTable", "delete", "setval"}
    PROVE  /\ req[p].op = "Import" /\ req[p].file \in File /\ ImportSound(p) /\ IsTx(tx[p])
           /\ tx[p].snap <= epoch /\ tx[p].loaded \in Nat /\ IsTable(rows)
           /\ seq \in Nat \ {0} /\ seq <= seq
           /\ {"delete", "setval", "commit"} \subseteq Steps
           /\ {"delete", "setval", "commit"} \subseteq StepsOf("Import")
BY DEF Inv, TypeOK, Request, DataOps, LockDiscipline, Sound, StepsOf, Steps, IsTx

(* LOCK TABLE is granted when no other request writes.                     *)
LEMMA LockTableStep ==
    ASSUME Inv, NEW p \in Procs, LockForReplace(p)
    PROVE  Inv'
<1> DEFINE t == [tx[p] EXCEPT !.held = LockTableMode]
<1>1. /\ pc[p] = "lockTable" /\ Advance(p, "delete", t) /\ UNCHANGED <<seq, req>>
      /\ LockTableMode = "shareRowExclusive"
      /\ \A q \in Procs \ {p} : tx[q].held = "none"
  BY DEF LockForReplace, TableFree, Conflicts, LockTableMode
<1>2. /\ tx[p].locks = {} /\ tx[p].loaded = 0 /\ DOMAIN tx[p].writes = {}
      /\ Len(req[p].file.docs) \in Nat
  BY <1>1, Importing DEF ImportSound, Unwritten, File
<1>3. FileTable(req[p].file.docs, 0) = tx[p].writes
  <2>1. IsTable(tx[p].writes) /\ 1..0 = {}
    BY <1>1, Importing DEF IsTx
  <2> QED
    BY <1>2, <2>1 DEF FileTable, IsTable
<1>4. /\ IsTx(t) /\ t.held = "shareRowExclusive" /\ t.locks = {} /\ t.loaded = 0
      /\ t.writes = tx[p].writes /\ t.snap = tx[p].snap
  BY <1>1, <1>2, Importing DEF IsTx, LockModes
<1> HIDE DEF t
<1>5. /\ pc'[p] = "delete" /\ tx'[p] = t /\ req' = req /\ seq' = seq
      /\ \A q \in Procs \ {p} : pc'[q] = pc[q] /\ tx'[q] = tx[q]
      /\ UNCHANGED <<rows, epoch>>
  BY <1>1, Advanced
<1>6. ImportSound(p)'
  BY <1>2, <1>3, <1>4, <1>5 DEF ImportSound
<1>7. Sound(p)'
  BY <1>1, <1>4, <1>5, <1>6, Importing DEF Sound
<1>8. \A q \in Procs \ {p} : Compatible(p, q)' /\ Compatible(q, p)'
  BY <1>1, <1>4, <1>5 DEF Compatible
<1> QED
  BY <1>1, <1>4, <1>5, <1>7, <1>8, AdvanceStep, Importing

(* DELETE locks one more row.                                              *)
LEMMA DeleteStep ==
    ASSUME Inv, NEW p \in Procs, DeleteAllDocs(p)
    PROVE  Inv'
<1>1. PICK i \in Remaining(p) :
        /\ pc[p] = "delete" /\ RowFree(p, i)
        /\ Advance(p, "delete", [tx[p] EXCEPT !.locks = @ \cup {i}])
        /\ UNCHANGED <<seq, req>>
  BY DEF DeleteAllDocs
<1> DEFINE t == [tx[p] EXCEPT !.locks = @ \cup {i}]
<1>2. /\ i \in DOMAIN rows /\ i \in Nat /\ tx[p].locks \subseteq DOMAIN rows
      /\ \A q \in Procs \ {p} : i \notin tx[q].locks
  BY <1>1, Importing DEF Remaining, RowFree, IsTable, ImportSound
<1>3. /\ IsTx(t) /\ t.locks = tx[p].locks \cup {i} /\ t.held = tx[p].held
      /\ t.loaded = tx[p].loaded /\ t.writes = tx[p].writes /\ t.snap = tx[p].snap
  BY <1>1, <1>2, Importing DEF IsTx
<1> HIDE DEF t
<1>4. /\ pc'[p] = "delete" /\ tx'[p] = t /\ req' = req /\ seq' = seq
      /\ \A q \in Procs \ {p} : pc'[q] = pc[q] /\ tx'[q] = tx[q]
      /\ UNCHANGED <<rows, epoch>>
  BY <1>1, Advanced DEF t
<1>5. ImportSound(p)'
  BY <1>1, <1>2, <1>3, <1>4, Importing DEF ImportSound
<1>6. Sound(p)'
  BY <1>1, <1>3, <1>4, <1>5, Importing DEF Sound
<1>7. \A q \in Procs \ {p} : Compatible(p, q)' /\ Compatible(q, p)'
  <2> TAKE q \in Procs \ {p}
  <2>1. Compatible(p, q) /\ Compatible(q, p)
    BY DEF Inv, LockDiscipline
  <2> QED
    BY <1>1, <1>2, <1>3, <1>4, <2>1, Importing DEF Compatible
<1> QED
  BY <1>1, <1>3, <1>4, <1>6, <1>7, AdvanceStep, Importing DEF t

(* One batch of the file is loaded, or the file is refused.                *)
LEMMA BatchStep ==
    ASSUME Inv, NEW p \in Procs, ImportBatch(p)
    PROVE  Inv'
<1> DEFINE file  == req[p].file
           docs  == file.docs
           from  == tx[p].loaded
           upto  == MinOf(from + BatchRows, Len(docs))
           batch == (from + 1)..upto
           last  == upto = Len(docs)
           step  == IF last THEN "setval" ELSE "delete"
           t     == [tx[p] EXCEPT !.loaded = upto, !.writes = FileTable(docs, upto)]
           schema == req[p].def.schema
<1>1. CASE Fail(p, "invalid")
  <2>1. "invalid" \in Codes
    BY DEF Codes
  <2> QED
    BY <1>1, <2>1, FailStep
<1>2. CASE /\ \A k \in batch : RowAccepted(schema, docs[k])
           /\ \A k \in batch : \A j \in 1..(k - 1) : docs[j].id # docs[k].id
           /\ last => file.sound
           /\ Advance(p, step, t) /\ UNCHANGED <<seq, req>>
  <2>1. /\ pc[p] = "delete" /\ file \in File /\ from \in Nat /\ Len(docs) \in Nat
        /\ from <= Len(docs) /\ tx[p].held = "shareRowExclusive"
        /\ tx[p].locks = DOMAIN rows
        /\ \A k \in 1..from : RowAccepted(schema, docs[k])
        /\ \A j, k \in 1..from : docs[j].id = docs[k].id => j = k
    <3>1. pc[p] = "delete" /\ DOMAIN rows \ tx[p].locks = {}
      BY DEF ImportBatch, Remaining
    <3>2. ImportSound(p) /\ file \in File /\ from \in Nat
      BY <3>1, Importing
    <3>3. Len(docs) \in Nat
      BY <3>2 DEF File
    <3> QED
      BY <3>1, <3>2, <3>3 DEF ImportSound
  <2>2. upto \in Nat /\ from <= upto /\ upto <= Len(docs)
    BY <2>1, BoundsAssumption DEF MinOf
  <2> HIDE DEF upto
  <2>3. \A k \in 1..upto : RowAccepted(schema, docs[k])
    <3> TAKE k \in 1..upto
    <3>1. k \in 1..from \/ k \in batch
      BY <2>1, <2>2
    <3> QED
      BY <1>2, <2>1, <3>1
  <2>4. \A j, k \in 1..upto : docs[j].id = docs[k].id => j = k
    <3>1. \A k \in 1..upto : \A j \in 1..(k - 1) : docs[j].id # docs[k].id
      <4> TAKE k \in 1..upto
      <4>1. CASE k \in 1..from
        BY <2>1, <4>1
      <4>2. CASE k \in batch
        BY <1>2, <4>2
      <4> QED
        BY <2>1, <2>2, <4>1, <4>2
    <3> QED
      BY <2>2, <3>1
  <2>5. IsTable(FileTable(docs, upto))
    <3>1. file \in File /\ upto \in 0..Len(file.docs)
      BY <2>1, <2>2
    <3> QED
      BY <2>3, <3>1, FileTableType
  <2>6. /\ IsTx(t) /\ t.locks = tx[p].locks /\ t.held = tx[p].held
        /\ t.loaded = upto /\ t.writes = FileTable(docs, upto) /\ t.snap = tx[p].snap
    BY <2>1, <2>2, <2>5, Importing DEF IsTx
  <2> HIDE DEF t
  <2>7. /\ pc'[p] = step /\ tx'[p] = t /\ req' = req /\ seq' = seq
        /\ \A q \in Procs \ {p} : pc'[q] = pc[q] /\ tx'[q] = tx[q]
        /\ UNCHANGED <<rows, epoch>>
    BY <1>2, Advanced
  <2>8. ImportSound(p)'
    BY <1>2, <2>1, <2>2, <2>3, <2>4, <2>6, <2>7 DEF ImportSound
  <2>9. Sound(p)'
    BY <2>1, <2>6, <2>7, <2>8, Importing DEF Sound
  <2>10. \A q \in Procs \ {p} : Compatible(p, q)' /\ Compatible(q, p)'
    <3> TAKE q \in Procs \ {p}
    <3>1. Compatible(p, q) /\ Compatible(q, p)
      BY DEF Inv, LockDiscipline
    <3> QED
      BY <2>1, <2>6, <2>7, <3>1, Importing DEF Compatible
  <2> QED
    BY <1>2, <2>1, <2>6, <2>7, <2>9, <2>10, AdvanceStep, Importing
<1> QED
  BY <1>1, <1>2 DEF ImportBatch

(* setval moves the sequence while the import holds the table alone.       *)
LEMMA SequenceStep ==
    ASSUME Inv, NEW p \in Procs, SetSequenceAfterImport(p)
    PROVE  Inv'
<1>1. /\ pc[p] = "setval" /\ Advance(p, "commit", tx[p]) /\ UNCHANGED req
      /\ seq' = NextID(View(p))
  BY DEF SetSequenceAfterImport
<1>2. seq' \in Nat \ {0}
  BY <1>1, ViewType, NextIDAbove DEF Inv
<1>3. /\ pc'[p] = "commit" /\ tx'[p] = tx[p] /\ req' = req
      /\ \A q \in Procs \ {p} : pc'[q] = pc[q] /\ tx'[q] = tx[q]
      /\ UNCHANGED <<rows, epoch>>
  BY <1>1, Advanced
<1>4. tx[p].held = "shareRowExclusive"
  BY <1>1, Importing DEF ImportSound
<1>5. ImportSound(p)'
  <2>1. ImportSound(p) /\ pc[p] \in {"setval", "commit"} /\ pc[p] # "lockTable"
    BY <1>1, Importing
  <2>2. pc'[p] # "lockTable" /\ tx'[p] = tx[p] /\ req' = req /\ rows' = rows
    BY <1>3
  <2> QED
    BY <2>1, <2>2, Zenon DEF ImportSound
<1>6. Sound(p)'
  BY <1>1, <1>3, <1>5, Importing DEF Sound
<1>7. \A q \in Procs \ {p} : Compatible(p, q)' /\ Compatible(q, p)'
  <2> TAKE q \in Procs \ {p}
  <2>1. Compatible(p, q) /\ Compatible(q, p)
    BY DEF Inv, LockDiscipline
  <2> QED
    BY <1>1, <1>3, <2>1, Importing DEF Compatible
<1> QED
  BY <1>1, <1>2, <1>3, <1>4, <1>6, <1>7, AdvanceStep, Importing

(* The row an update or a status change writes follows the one it read.    *)
LEMMA NextRowStep ==
    ASSUME NEW r \in Request, r.op \in {"Update", "SoftDelete", "Restore"}, NEW row \in Row,
           r.op = "Update" => row.status = "active", ~Already(r, row)
    PROVE  RowStep(row, NextRow(r, row))
BY DEF RowStep, NextRow, Already, Row, RowStatus

(* What the COMMIT of a data request makes of the table: every row stays,  *)
(* changed by one version or not at all, and only where it was locked; a   *)
(* new row has the id of the INSERT.                                       *)
LEMMA CommittedWrite ==
    ASSUME Inv, NEW p \in Procs, pc[p] = "commit", req[p].op # "Import"
    PROVE  /\ DOMAIN rows \subseteq DOMAIN View(p)
           /\ \A i \in DOMAIN rows : RowStep(rows[i], View(p)[i])
           /\ \A i \in DOMAIN rows \ tx[p].locks : View(p)[i] = rows[i]
           /\ \A i \in DOMAIN View(p) \ DOMAIN rows : req[p].op = "Insert" /\ i = req[p].id
           /\ View(p) = rows \/ tx[p].held = "rowExclusive"
<1> DEFINE w == tx[p].writes
<1>1. /\ Deleted(p) = {} /\ DOMAIN View(p) = DOMAIN rows \cup DOMAIN w
      /\ \A i \in DOMAIN View(p) : View(p)[i] = IF i \in DOMAIN w THEN w[i] ELSE rows[i]
  BY DEF Deleted, View
<1>2. \A i \in DOMAIN rows : RowStep(rows[i], rows[i])
  BY DEF RowStep
<1>3. CASE req[p].op = "Insert"
  <2>1. DOMAIN w = {req[p].id} /\ req[p].id \notin DOMAIN rows /\ tx[p].held = "rowExclusive"
    BY <1>3 DEF Inv, LockDiscipline, Sound, InsertSound
  <2> QED
    BY <1>1, <1>2, <1>3, <2>1
<1>4. CASE req[p].op # "Insert"
  <2>1. /\ req[p].id \in DOMAIN rows /\ tx[p].locks = {req[p].id}
        /\ tx[p].row = rows[req[p].id]
        /\ \/ Unwritten(tx[p])
           \/ /\ tx[p].held = "rowExclusive" /\ DOMAIN w = {req[p].id}
              /\ RowStep(tx[p].row, w[req[p].id])
    <3>1. req[p].op \in {"Update", "SoftDelete", "Restore"}
      BY <1>4 DEF Inv, TypeOK, Request, DataOps, LockDiscipline, Sound, StepsOf
    <3>2. RowWriterSound(p)
      BY <3>1 DEF Inv, LockDiscipline, Sound
    <3>3. req[p].id \in DOMAIN rows /\ tx[p].row = rows[req[p].id] /\ tx[p].row \in Row
      BY <3>2 DEF Inv, TypeOK, IsTable, RowWriterSound
    <3>4. /\ tx[p].locks = {req[p].id}
          /\ req[p].op = "Update" => tx[p].row.status = "active"
          /\ \/ Unwritten(tx[p])
             \/ /\ tx[p].held = "rowExclusive" /\ DOMAIN w = {req[p].id}
                /\ ~Already(req[p], tx[p].row)
                /\ w[req[p].id] = NextRow(req[p], tx[p].row)
      BY <3>2, Zenon DEF RowWriterSound
    <3>5. req[p] \in Request
      BY DEF Inv, TypeOK
    <3> QED
      BY <3>1, <3>3, <3>4, <3>5, NextRowStep
  <2>2. CASE DOMAIN w = {}
    <3>1. View(p) = [i \in DOMAIN rows |-> rows[i]]
      BY <1>1, <2>2 DEF View
    <3>2. View(p) = rows
      BY <3>1 DEF Inv, TypeOK, IsTable
    <3> QED
      BY <1>2, <3>2
  <2>3. CASE DOMAIN w # {}
    BY <1>1, <1>2, <2>1, <2>3 DEF Unwritten
  <2> QED
    BY <2>2, <2>3
<1> QED
  BY <1>3, <1>4

(* The COMMIT of an import replaces the table by its file, while no other  *)
(* request holds a lock on the table or on any of its rows.                *)
LEMMA CommittedImport ==
    ASSUME Inv, NEW p \in Procs, pc[p] = "commit", req[p].op = "Import"
    PROVE  LET docs == req[p].file.docs IN
           /\ View(p) = FileTable(docs, Len(docs))
           /\ \A j, k \in 1..Len(docs) : docs[j].id = docs[k].id => j = k
           /\ \A q \in Procs \ {p} : tx[q].held = "none" /\ tx[q].locks \cap DOMAIN rows = {}
<1> DEFINE docs == req[p].file.docs
<1>1. /\ tx[p].held = "shareRowExclusive" /\ tx[p].locks = DOMAIN rows
      /\ tx[p].writes = FileTable(docs, Len(docs))
      /\ \A j, k \in 1..Len(docs) : docs[j].id = docs[k].id => j = k
  <2>1. ImportSound(p)
    BY DEF Inv, LockDiscipline, Sound
  <2> QED
    BY <2>1 DEF ImportSound
<1>2. View(p) = [i \in DOMAIN tx[p].writes |-> tx[p].writes[i]]
  BY <1>1 DEF View, Deleted
<1>3. View(p) = tx[p].writes
  BY <1>2 DEF Inv, TypeOK, IsTx, IsTable
<1>4. \A q \in Procs \ {p} : tx[q].held = "none" /\ tx[q].locks \cap DOMAIN rows = {}
  <2> TAKE q \in Procs \ {p}
  <2>1. Compatible(p, q)
    BY DEF Inv, LockDiscipline
  <2> QED
    BY <1>1, <2>1 DEF Compatible
<1> QED
  BY <1>1, <1>3, <1>4

(* A COMMIT, however it is answered.                                       *)
LEMMA PublishStep ==
    ASSUME Inv, NEW p \in Procs, NEW code \in Codes, pc[p] = "commit",
           Publish(p), Answer(p, code), UNCHANGED <<def, seq, served>>,
           seen' \in [Procs -> [id : Nat, row : Row, epoch : Nat] \cup {NoDoc}]
    PROVE  Inv'
<1>1. /\ pc'[p] = "idle" /\ req'[p] = NoReq /\ tx'[p] = NewTx
      /\ \A q \in Procs \ {p} : pc'[q] = pc[q] /\ req'[q] = req[q]
      /\ rows' = View(p)
      /\ epoch' = (IF req[p].op = "Import" THEN epoch + 1 ELSE epoch)
  BY DEF Inv, TypeOK, Publish, Answer, Goto
<1>2. \A q \in Procs \ {p} :
         /\ IsTx(tx'[q]) /\ tx'[q].held = tx[q].held /\ tx'[q].locks = tx[q].locks
         /\ tx'[q].row = tx[q].row /\ tx'[q].snap = tx[q].snap
         /\ tx'[q].writes = tx[q].writes /\ tx'[q].loaded = tx[q].loaded
         /\ req[q].op = "None" => tx'[q] = tx[q]
  <2> TAKE q \in Procs \ {p}
  <2>1. tx'[q] = IF AfterCheck(q)
                 THEN [tx[q] EXCEPT !.missed = @ \cup DOMAIN tx[p].writes]
                 ELSE tx[q]
    BY DEF Publish
  <2>2. IsTx(tx[q]) /\ DOMAIN tx[p].writes \subseteq Nat
    BY DEF Inv, TypeOK, IsTx, IsTable
  <2>3. CASE ~AfterCheck(q)
    BY <2>1, <2>2, <2>3
  <2>4. CASE AfterCheck(q)
    <3>1. tx'[q] = [tx[q] EXCEPT !.missed = @ \cup DOMAIN tx[p].writes]
      BY <2>1, <2>4
    <3>2. req[q].op # "None"
      BY <2>4 DEF AfterCheck
    <3> QED
      BY <2>2, <3>1, <3>2 DEF IsTx
  <2> QED
    BY <2>3, <2>4
<1>3. TypeOK'
  <2>1. IsTable(rows') /\ epoch' \in Nat
    BY <1>1, ViewType DEF Inv, TypeOK
  <2>2. tx' = [q \in Procs |-> tx'[q]] /\ \A q \in Procs : IsTx(tx'[q])
    BY <1>1, <1>2, NewTxType DEF Publish
  <2>3. pc' \in [Procs -> Steps] /\ reply' \in [Procs -> Codes] /\ req' \in [Procs -> Request]
    BY NoReqType DEF Answer, Goto, Inv, TypeOK, Steps
  <2> QED
    BY <2>1, <2>2, <2>3 DEF Inv, TypeOK
<1>4. Sound(p)'
  <2>1. NoReq.op = "None" /\ "idle" \in StepsOf("None")
    BY DEF NoReq, StepsOf
  <2> QED
    BY <1>1, <1>3, <2>1, NewTxType DEF Sound, TypeOK
<1>5. ASSUME NEW q \in Procs \ {p} PROVE Sound(q)'
  <2>1. /\ Sound(q) /\ Compatible(p, q) /\ Compatible(q, p)
        /\ epoch \in Nat /\ tx[q].snap \in Nat
    BY DEF Inv, TypeOK, IsTx, LockDiscipline
  <2>2. tx'[q].snap <= epoch' /\ pc'[q] \in StepsOf(req'[q].op)
    BY <1>1, <1>2, <2>1 DEF Sound
  <2>3. req[q].op = "Insert" => InsertSound(q)'
    <3>1. CASE req[p].op = "Import"
      <4>1. tx[q].held = "none"
        BY <3>1, CommittedImport
      <4> QED
        BY <1>1, <1>2, <2>1, <4>1 DEF Sound, InsertSound, Unwritten
    <3>2. CASE req[p].op # "Import"
      <4>1. \A i \in DOMAIN View(p) \ DOMAIN rows : req[p].op = "Insert" /\ i = req[p].id
        BY <3>2, CommittedWrite
      <4> QED
        BY <1>1, <1>2, <2>1, <4>1 DEF Sound, InsertSound, Unwritten, Compatible
    <3> QED
      BY <3>1, <3>2
  <2>4. req[q].op \in {"Update", "SoftDelete", "Restore"} => RowWriterSound(q)'
    <3> SUFFICES ASSUME req[q].op \in {"Update", "SoftDelete", "Restore"}
                 PROVE  RowWriterSound(q)'
      OBVIOUS
    <3>0. RowWriterSound(q)
      BY <2>1 DEF Sound
    <3>1. CASE req[p].op = "Import"
      <4>1. tx[q].locks \cap DOMAIN rows = {}
        BY <3>1, CommittedImport
      <4>2. pc[q] \in {"lockRow", "waitRow"} /\ tx'[q].snap # epoch'
        BY <1>1, <1>2, <2>1, <3>0, <3>1, <4>1 DEF RowWriterSound, Sound
      <4> QED
        BY <1>1, <1>2, <3>0, <4>2 DEF RowWriterSound, Unwritten
    <3>2. CASE req[p].op # "Import"
      <4>1. /\ DOMAIN rows \subseteq DOMAIN View(p)
            /\ \A i \in DOMAIN rows \ tx[p].locks : View(p)[i] = rows[i]
        BY <3>2, CommittedWrite
      <4>2. tx[p].locks \cap tx[q].locks = {}
        BY <2>1 DEF Compatible
      <4>3. rows' = View(p) /\ epoch' = epoch /\ pc'[q] = pc[q] /\ req'[q] = req[q]
        BY <1>1, <3>2
      <4>4. CASE pc[q] \in {"lockRow", "waitRow"}
        BY <1>2, <3>0, <4>1, <4>3, <4>4 DEF RowWriterSound, Unwritten
      <4>5. CASE pc[q] \notin {"lockRow", "waitRow"}
        <5>1. /\ req[q].id \in DOMAIN rows /\ tx[q].locks = {req[q].id}
              /\ tx[q].row = rows[req[q].id]
          BY <3>0, <4>5 DEF RowWriterSound
        <5>2. req[q].id \in DOMAIN rows' /\ rows'[req[q].id] = rows[req[q].id]
          BY <4>1, <4>2, <4>3, <5>1
        <5> QED
          BY <1>2, <3>0, <4>3, <4>5, <5>1, <5>2 DEF RowWriterSound, Unwritten
      <4> QED
        BY <4>4, <4>5
    <3> QED
      BY <3>1, <3>2
  <2>5. req[q].op = "Import" => ImportSound(q)'
    <3> SUFFICES ASSUME req[q].op = "Import"
                 PROVE  ImportSound(q)'
      OBVIOUS
    <3>0. ImportSound(q)
      BY <2>1 DEF Sound
    <3>1. CASE View(p) = rows
      <4>1. rows' = rows /\ pc'[q] = pc[q] /\ req'[q] = req[q]
        BY <1>1, <3>1
      <4>2. /\ tx'[q].held = tx[q].held /\ tx'[q].locks = tx[q].locks
            /\ tx'[q].writes = tx[q].writes /\ tx'[q].loaded = tx[q].loaded
        BY <1>2
      <4> QED
        BY <3>0, <4>1, <4>2 DEF ImportSound, Unwritten
    <3>2. CASE View(p) # rows
      <4>1. tx[p].held # "none"
        <5>1. CASE req[p].op = "Import"
          BY <5>1 DEF Inv, LockDiscipline, Sound, ImportSound
        <5>2. CASE req[p].op # "Import"
          BY <3>2, <5>2, CommittedWrite
        <5> QED
          BY <5>1, <5>2
      <4>2. pc[q] = "lockTable"
        BY <2>1, <3>0, <4>1 DEF Compatible, ImportSound
      <4> QED
        BY <1>1, <1>2, <3>0, <4>2 DEF ImportSound, Unwritten
    <3> QED
      BY <3>1, <3>2
  <2>6. req[q].op = "None" => req[q] = NoReq /\ tx'[q] = NewTx
    BY <1>2, <2>1 DEF Sound
  <2> QED
    BY <1>1, <2>2, <2>3, <2>4, <2>5, <2>6 DEF Sound
<1>6. \A q1, q2 \in Procs : q1 # q2 => Compatible(q1, q2)'
  <2> TAKE q1, q2 \in Procs
  <2>1. NoReq.op = "None"
    BY DEF NoReq
  <2>2. CASE p \in {q1, q2} /\ q1 # q2
    BY <1>1, <2>1, <2>2, NewTxType DEF Compatible
  <2>3. CASE p \notin {q1, q2} /\ q1 # q2
    <3>1. Compatible(q1, q2)
      BY <2>3 DEF Inv, LockDiscipline
    <3> QED
      BY <1>1, <1>2, <2>3, <3>1 DEF Compatible
  <2> QED
    BY <2>2, <2>3
<1> QED
  BY <1>3, <1>4, <1>5, <1>6 DEF Inv, LockDiscipline

(* The row a data request answers with is in the table it committed.       *)
LEMMA CommittedID ==
    ASSUME Inv, NEW p \in Procs, pc[p] = "commit", req[p].op # "Import"
    PROVE  req[p].id \in DOMAIN View(p)
<1>1. CASE req[p].op = "Insert"
  <2>1. DOMAIN tx[p].writes = {req[p].id}
    BY <1>1 DEF Inv, LockDiscipline, Sound, InsertSound
  <2> QED
    BY <2>1 DEF View
<1>2. CASE req[p].op # "Insert"
  <2>1. req[p].id \in DOMAIN rows
    BY <1>2 DEF Inv, TypeOK, Request, DataOps, LockDiscipline, Sound, StepsOf, RowWriterSound
  <2>2. DOMAIN rows \subseteq DOMAIN View(p)
    BY CommittedWrite
  <2> QED
    BY <2>1, <2>2
<1> QED
  BY <1>1, <1>2

(* COMMIT answers the document the request wrote.                          *)
LEMMA CommitStep ==
    ASSUME Inv, NEW p \in Procs, Commit(p) \/ CommitApplied(p)
    PROVE  Inv'
<1>1. "ok" \in Codes /\ "internal" \in Codes
  BY DEF Codes
<1>2. seen \in [Procs -> [id : Nat, row : Row, epoch : Nat] \cup {NoDoc}]
  BY DEF Inv, TypeOK
<1>3. CASE Commit(p)
  <2>1. CASE req[p].op = "Import"
    BY <1>1, <1>2, <1>3, <2>1, PublishStep DEF Commit
  <2>2. CASE req[p].op # "Import"
    <3> DEFINE doc == Document(req[p].id, View(p)[req[p].id])
    <3>1. req[p].id \in DOMAIN View(p)
      BY <1>3, <2>2, CommittedID DEF Commit
    <3>2. doc \in [id : Nat, row : Row, epoch : Nat]
      <4>1. IsTable(View(p)) /\ epoch \in Nat
        BY ViewType DEF Inv, TypeOK
      <4> QED
        BY <3>1, <4>1 DEF Document, IsTable
    <3>3. seen' = [seen EXCEPT ![p] = doc]
      BY <1>3, <2>2 DEF Commit
    <3>4. seen' \in [Procs -> [id : Nat, row : Row, epoch : Nat] \cup {NoDoc}]
      BY <1>2, <3>2, <3>3
    <3> QED
      BY <1>1, <1>3, <3>4, PublishStep DEF Commit
  <2> QED
    BY <2>1, <2>2
<1>4. CASE CommitApplied(p)
  BY <1>1, <1>2, <1>4, PublishStep DEF CommitApplied
<1> QED
  BY <1>3, <1>4

-----------------------------------------------------------------------------
(* The theorems                                                            *)

(* Every step keeps types and lock discipline.                             *)
LEMMA NextInv == Inv /\ [Next]_vars => Inv'
<1> SUFFICES ASSUME Inv, [Next]_vars PROVE Inv'
  OBVIOUS
<1>1. CASE UNCHANGED vars
  <2>1. /\ UNCHANGED <<rows, seq, epoch, pc, req, tx>>
        /\ def' \in Definition /\ served' \in Nat /\ reply' \in [Procs -> Codes]
        /\ seen' \in [Procs -> [id : Nat, row : Row, epoch : Nat] \cup {NoDoc}]
    BY <1>1 DEF vars, Inv, TypeOK
  <2> QED
    BY <2>1, AsideStep
<1>2. CASE Evolve \/ Deprecate
  BY <1>2, TypeStep
<1>3. ASSUME NEW p \in Procs, Ask(p) \/ Serve(p) \/ ImportBatch(p) \/ Fault(p)
      PROVE  Inv'
  <2>1. CASE Ask(p)
    BY <2>1, AskStep
  <2>2. CASE GetDocForUpdate(p) \/ RowGranted(p)
    BY <2>2, ForUpdateStep
  <2>3. CASE CheckUniqueDup(p)
    BY <2>3, CheckStep
  <2>4. CASE InsertDoc(p)
    BY <2>4, InsertStep
  <2>5. CASE UpdateDoc(p)
    BY <2>5, UpdateStep
  <2>6. CASE LockForReplace(p)
    BY <2>6, LockTableStep
  <2>7. CASE DeleteAllDocs(p)
    BY <2>7, DeleteStep
  <2>8. CASE ImportBatch(p)
    BY <2>8, BatchStep
  <2>9. CASE SetSequenceAfterImport(p)
    BY <2>9, SequenceStep
  <2>10. CASE Commit(p) \/ CommitApplied(p)
    BY <2>10, CommitStep
  <2>11. CASE LockTimeout(p) \/ DeadlockVictim(p) \/ CommitAborted(p) \/ Disconnect(p)
    <3>1. \E code \in Codes : Fail(p, code)
      BY <2>11 DEF LockTimeout, DeadlockVictim, CommitAborted, Disconnect, Codes
    <3> QED
      BY <3>1, FailStep
  <2> QED
    BY <1>3, <2>1, <2>2, <2>3, <2>4, <2>5, <2>6, <2>7, <2>8, <2>9, <2>10, <2>11
    DEF Serve, Fault
<1> QED
  BY <1>1, <1>2, <1>3 DEF Next

(* The inductive invariant holds throughout.                               *)
LEMMA SpecInv == Spec => []Inv
BY InitInv, NextInv, PTL DEF Spec

(* The type invariant, for any number of clients, rows, files and schemas. *)
THEOREM TypeCorrect == Spec => []TypeOK
<1>1. Inv => TypeOK
  BY DEF Inv
<1> QED
  BY <1>1, SpecInv, PTL

(* No two requests ever lock one row or insert one id, nobody writes       *)
(* beside an import, and every request's copy of its row is the committed  *)
(* row until its own COMMIT (data_service.go:185-310, transfer.go:43-54).  *)
THEOREM LockDisciplineHolds == Spec => []LockDiscipline
<1>1. Inv => LockDiscipline
  BY DEF Inv
<1> QED
  BY <1>1, SpecInv, PTL


-----------------------------------------------------------------------------
(* Action properties and what clients were sent                            *)

(* The table changes only by the COMMIT of one request; what clients were  *)
(* sent changes only by a read or by that COMMIT's answer.                 *)
LEMMA TableChanges ==
    ASSUME Inv, [Next]_vars
    PROVE  \/ UNCHANGED <<rows, epoch, seen>>
           \/ /\ UNCHANGED <<rows, epoch>>
              /\ \E p \in Procs, i \in DOMAIN rows :
                    seen' = [seen EXCEPT ![p] = Document(i, rows[i])]
           \/ \E p \in Procs : Commit(p)
           \/ \E p \in Procs : CommitApplied(p)
<1>1. CASE UNCHANGED vars
  BY <1>1 DEF vars
<1>2. CASE Evolve \/ Deprecate
  BY <1>2 DEF Evolve, Deprecate
<1>3. ASSUME NEW p \in Procs, Ask(p) PROVE
         \/ UNCHANGED <<rows, epoch, seen>>
         \/ /\ UNCHANGED <<rows, epoch>>
            /\ \E i \in DOMAIN rows : seen' = [seen EXCEPT ![p] = Document(i, rows[i])]
  BY <1>3 DEF Ask, StartInsert, StartUpdate, StartStatusChange, StartImport, Arrive, Get
<1>4. ASSUME NEW p \in Procs, Serve(p) \/ ImportBatch(p) \/ Fault(p) PROVE
         UNCHANGED <<rows, epoch, seen>> \/ Commit(p) \/ CommitApplied(p)
  <2>1. (\E code \in Codes : Fail(p, code)) => UNCHANGED <<rows, epoch, seen>>
    BY DEF Fail
  <2>2. \A step, t : Advance(p, step, t) => UNCHANGED <<rows, epoch, seen>>
    BY DEF Advance
  <2>3. RowLocked(p) => UNCHANGED <<rows, epoch, seen>>
    BY DEF RowLocked, Fail, Advance
  <2>4. GetDocForUpdate(p) \/ RowGranted(p) => UNCHANGED <<rows, epoch, seen>>
    BY <2>3 DEF GetDocForUpdate, RowGranted, Fail, Advance
  <2>5. CheckUniqueDup(p) \/ InsertDoc(p) => UNCHANGED <<rows, epoch, seen>>
    BY DEF CheckUniqueDup, InsertDoc, Fail, Advance
  <2>6. UpdateDoc(p) => UNCHANGED <<rows, epoch, seen>>
    BY DEF UpdateDoc, Fail, Advance
  <2>7. LockForReplace(p) \/ DeleteAllDocs(p) \/ SetSequenceAfterImport(p)
           => UNCHANGED <<rows, epoch, seen>>
    BY DEF LockForReplace, DeleteAllDocs, SetSequenceAfterImport, Advance
  <2>8. ImportBatch(p) => UNCHANGED <<rows, epoch, seen>>
    BY DEF ImportBatch, Fail, Advance
  <2>9. LockTimeout(p) \/ DeadlockVictim(p) \/ CommitAborted(p) \/ Disconnect(p)
           => UNCHANGED <<rows, epoch, seen>>
    BY DEF LockTimeout, DeadlockVictim, CommitAborted, Disconnect, Fail
  <2> QED
    BY <1>4, <2>4, <2>5, <2>6, <2>7, <2>8, <2>9 DEF Serve, Fault
<1> QED
  BY <1>1, <1>2, <1>3, <1>4 DEF Next

(* What a COMMIT, however answered, does to the table.                     *)
LEMMA Published ==
    ASSUME Inv, NEW p \in Procs, Commit(p) \/ CommitApplied(p)
    PROVE  /\ pc[p] = "commit" /\ rows' = View(p) /\ epoch \in Nat
           /\ \A q \in Procs \ {p} : pc'[q] = pc[q]
           /\ req[p].op = "Import" => epoch' = epoch + 1
           /\ req[p].op # "Import" => epoch' = epoch
BY DEF Commit, CommitApplied, Publish, Answer, Goto, Inv, TypeOK

(* Between imports no row disappears, versions rise one by one and a       *)
(* soft-deleted row's data is frozen (data.go:157-197).                    *)
THEOREM RowsAreVersioned == Spec => VersionedStep
<1>1. Inv /\ [Next]_vars
         => [epoch' = epoch =>
               \A i \in DOMAIN rows : i \in DOMAIN rows' /\ RowStep(rows[i], rows'[i])]_vars
  <2> SUFFICES ASSUME Inv, [Next]_vars, epoch' = epoch
               PROVE  \A i \in DOMAIN rows : i \in DOMAIN rows' /\ RowStep(rows[i], rows'[i])
    OBVIOUS
  <2>1. CASE UNCHANGED rows
    BY <2>1 DEF RowStep
  <2>2. ASSUME NEW p \in Procs, Commit(p) \/ CommitApplied(p)
        PROVE  \A i \in DOMAIN rows : i \in DOMAIN rows' /\ RowStep(rows[i], rows'[i])
    <3>1. pc[p] = "commit" /\ rows' = View(p) /\ req[p].op # "Import"
      BY <2>2, Published
    <3> QED
      BY <3>1, CommittedWrite
  <2> QED
    BY <2>1, <2>2, TableChanges
<1> QED
  BY <1>1, SpecInv, PTL DEF Spec, VersionedStep

(* A committed import leaves exactly the rows of its file: no row inserted *)
(* beside it survives, none is lost or doubled (transfer.go:43-46).        *)
THEOREM ImportsReplaceAll == Spec => ImportReplacesAll
<1>1. Inv /\ [Next]_vars
         => [epoch' # epoch =>
               \E p \in Procs :
                  LET docs == req[p].file.docs IN
                  /\ pc[p] = "commit" /\ req[p].op = "Import"
                  /\ rows' = FileTable(docs, Len(docs))
                  /\ Cardinality(DOMAIN rows') = Len(docs)]_vars
  <2> SUFFICES ASSUME Inv, [Next]_vars, epoch' # epoch
               PROVE  \E p \in Procs :
                         LET docs == req[p].file.docs IN
                         /\ pc[p] = "commit" /\ req[p].op = "Import"
                         /\ rows' = FileTable(docs, Len(docs))
                         /\ Cardinality(DOMAIN rows') = Len(docs)
    OBVIOUS
  <2>1. PICK p \in Procs : Commit(p) \/ CommitApplied(p)
    BY TableChanges
  <2> DEFINE docs == req[p].file.docs
             n    == Len(docs)
  <2>2. pc[p] = "commit" /\ req[p].op = "Import" /\ rows' = View(p)
    BY <2>1, Published
  <2>3. /\ View(p) = FileTable(docs, n)
        /\ \A j, k \in 1..n : docs[j].id = docs[k].id => j = k
    BY <2>2, CommittedImport
  <2>4. n \in Nat
    BY DEF Inv, TypeOK, Request, File
  <2>5. Cardinality(DOMAIN FileTable(docs, n)) = n
    BY <2>3, <2>4, FileTableSize
  <2> QED
    BY <2>2, <2>3, <2>5
<1> QED
  BY <1>1, SpecInv, PTL DEF Spec, ImportReplacesAll

(* What clients were sent is never younger than the table.                 *)
SeenPast == \A p \in Procs : seen[p].epoch <= epoch

SeenInv == SeenPast /\ VersionIdentifiesContent

(* What clients were sent stays a faithful, possibly old, picture.         *)
LEMMA SeenStep == Inv /\ Inv' /\ SeenInv /\ [Next]_vars => SeenInv'
<1> SUFFICES ASSUME Inv, Inv', SeenInv, [Next]_vars PROVE SeenInv'
  OBVIOUS
<1> DEFINE Holds(d, table, e) ==
             d # NoDoc /\ d.epoch = e =>
                /\ d.id \in DOMAIN table
                /\ table[d.id].version >= d.row.version
                /\ table[d.id].version = d.row.version => table[d.id] = d.row
<1>1. /\ epoch \in Nat /\ IsTable(rows) /\ IsTable(rows') /\ epoch' \in Nat
      /\ seen \in [Procs -> [id : Nat, row : Row, epoch : Nat] \cup {NoDoc}]
  BY DEF Inv, TypeOK
<1>2. \A p \in Procs : seen[p].epoch <= epoch /\ Holds(seen[p], rows, epoch)
  BY DEF SeenInv, SeenPast, VersionIdentifiesContent
<1>3. \A i \in DOMAIN rows : LET d == Document(i, rows[i]) IN
         d.epoch = epoch /\ Holds(d, rows, epoch)
  BY <1>1 DEF Document, IsTable, Row
<1>4. SUFFICES \A p \in Procs : seen'[p].epoch <= epoch' /\ Holds(seen'[p], rows', epoch')
  BY <1>4 DEF SeenInv, SeenPast, VersionIdentifiesContent
<1> HIDE DEF Holds
<1>5. CASE UNCHANGED <<rows, epoch, seen>>
  BY <1>2, <1>5
<1>6. CASE /\ UNCHANGED <<rows, epoch>>
           /\ \E p \in Procs, i \in DOMAIN rows :
                 seen' = [seen EXCEPT ![p] = Document(i, rows[i])]
  BY <1>1, <1>2, <1>3, <1>6
<1>7. ASSUME NEW p \in Procs, Commit(p) \/ CommitApplied(p)
      PROVE  \A q \in Procs : seen'[q].epoch <= epoch' /\ Holds(seen'[q], rows', epoch')
  <2>1. pc[p] = "commit" /\ rows' = View(p)
    BY <1>7, Published
  <2>2. CASE req[p].op = "Import"
    <3>1. epoch' = epoch + 1 /\ seen' = seen
      BY <1>7, <2>2, Published DEF Commit, CommitApplied
    <3>2. \A q \in Procs : seen[q].epoch \in Int
      BY <1>1 DEF NoDoc
    <3> QED
      BY <1>1, <1>2, <3>1, <3>2 DEF Holds
  <2>3. CASE req[p].op # "Import"
    <3>1. /\ epoch' = epoch
          /\ \A i \in DOMAIN rows : i \in DOMAIN rows' /\ RowStep(rows[i], rows'[i])
      BY <1>7, <2>1, <2>3, Published, CommittedWrite
    <3>2. \A q \in Procs : Holds(seen[q], rows', epoch')
      <4> SUFFICES ASSUME NEW q \in Procs, seen[q] # NoDoc, seen[q].epoch = epoch
                   PROVE  LET d == seen[q] IN
                          /\ d.id \in DOMAIN rows'
                          /\ rows'[d.id].version >= d.row.version
                          /\ rows'[d.id].version = d.row.version => rows'[d.id] = d.row
        BY <3>1 DEF Holds
      <4> DEFINE d   == seen[q]
                 old == rows[d.id]
                 new == rows'[d.id]
      <4>1. /\ d.id \in DOMAIN rows /\ old.version >= d.row.version
            /\ old.version = d.row.version => old = d.row
        BY <1>2 DEF Holds
      <4>2. d.id \in DOMAIN rows' /\ (new = old \/ new.version = old.version + 1)
        BY <3>1, <4>1 DEF RowStep
      <4>3. old.version \in Nat /\ d.row.version \in Nat
        BY <1>1, <4>1 DEF IsTable, Row
      <4> QED
        BY <4>1, <4>2, <4>3
    <3>3. \A q \in Procs : seen'[q] = seen[q]
             \/ (seen'[q].epoch = epoch' /\ Holds(seen'[q], rows', epoch'))
      <4> DEFINE doc == Document(req[p].id, rows'[req[p].id])
      <4>1. seen' = seen \/ seen' = [seen EXCEPT ![p] = doc]
        BY <1>7, <2>1, <2>3 DEF Commit, CommitApplied
      <4>2. CASE seen' = seen
        BY <4>2
      <4>3. CASE Commit(p)
        <5>1. req[p].id \in DOMAIN rows'
          BY <2>1, <2>3, <4>3, CommittedID
        <5>2. rows'[req[p].id].version \in Nat
          BY <1>1, <5>1 DEF IsTable, Row
        <5>3. doc.epoch = epoch' /\ Holds(doc, rows', epoch')
          BY <3>1, <5>1, <5>2 DEF Document, Holds
        <5> QED
          BY <1>1, <4>1, <5>3
      <4>4. CASE CommitApplied(p)
        BY <4>4 DEF CommitApplied
      <4> QED
        BY <1>7, <4>3, <4>4
    <3> QED
      BY <1>1, <1>2, <3>1, <3>2, <3>3
  <2> QED
    BY <2>2, <2>3
<1> QED
  BY <1>5, <1>6, <1>7, TableChanges

(* What clients were sent stays faithful throughout.                       *)
LEMMA SeenAlways == Spec => []SeenInv
<1>1. Init => SeenInv
  <2> SUFFICES ASSUME Init PROVE SeenInv
    OBVIOUS
  <2>1. \A p \in Procs : seen[p] = NoDoc
    BY DEF Init
  <2>2. NoDoc.epoch = 0 /\ epoch = 0
    BY DEF NoDoc, Init
  <2> QED
    BY <2>1, <2>2 DEF SeenInv, SeenPast, VersionIdentifiesContent
<1> QED
  BY <1>1, SeenStep, SpecInv, PTL DEF Spec

(* Between imports a version names one content of a row and no row goes    *)
(* back: what the optimistic lock of Update relies on.                     *)
THEOREM VersionsIdentifyContent == Spec => []VersionIdentifiesContent
<1>1. SeenInv => VersionIdentifiesContent
  BY DEF SeenInv
<1> QED
  BY <1>1, SeenAlways, PTL

(* An update that succeeds with the version its client read merges onto    *)
(* what that client read, unless an import came between.                   *)
THEOREM NoUpdateIsLost == Spec => NoLostUpdate
<1> DEFINE Kept == \A p \in Procs :
             LET r == req[p] IN
             /\ Commits(p) /\ r.op = "Update"
             /\ seen[p].id = r.id /\ seen[p].row.version = r.version
             /\ seen[p].epoch = epoch
             => /\ seen[p].row = rows[r.id] /\ seen[p].row.status = "active"
                /\ rows'[r.id].data = Merge(seen[p].row.data, r.body)
<1>1. Inv /\ SeenInv /\ [Next]_vars => [Kept]_vars
  <2> SUFFICES ASSUME Inv, SeenInv, [Next]_vars, NEW p \in Procs,
                      Commits(p), req[p].op = "Update",
                      seen[p].id = req[p].id, seen[p].row.version = req[p].version,
                      seen[p].epoch = epoch
               PROVE  /\ seen[p].row = rows[req[p].id] /\ seen[p].row.status = "active"
                      /\ rows'[req[p].id].data = Merge(seen[p].row.data, req[p].body)
    OBVIOUS
  <2> DEFINE r == req[p]
             t == tx[p]
  <2>1. pc[p] = "commit" /\ pc'[p] = "idle" /\ rows' # rows
    BY DEF Commits
  <2>2. Commit(p) \/ CommitApplied(p)
    <3>1. PICK q \in Procs : Commit(q) \/ CommitApplied(q)
      BY <2>1, TableChanges
    <3>2. pc'[p] = pc[p] \/ p = q
      BY <3>1, Published
    <3> QED
      BY <2>1, <3>1, <3>2
  <2>3. /\ r.id \in DOMAIN rows /\ t.row = rows[r.id] /\ IsTable(rows)
        /\ t.row.status = "active" /\ t.row.version = r.version
        /\ \/ Unwritten(t)
           \/ DOMAIN t.writes = {r.id} /\ t.writes[r.id].data = Merge(t.row.data, r.body)
    <3>1. RowWriterSound(p) /\ IsTable(rows)
      BY DEF Inv, TypeOK, LockDiscipline, Sound
    <3>2. /\ r.id \in DOMAIN rows /\ t.row = rows[r.id]
          /\ t.row.status = "active" /\ t.row.version = r.version
          /\ \/ Unwritten(t)
             \/ DOMAIN t.writes = {r.id} /\ t.writes[r.id] = NextRow(r, t.row)
      BY <2>1, <3>1 DEF RowWriterSound
    <3> QED
      BY <3>1, <3>2 DEF NextRow
  <2>4. rows' = View(p) /\ Deleted(p) = {}
    BY <2>2, Published DEF Deleted
  <2>5. ~Unwritten(t)
    <3> SUFFICES ASSUME Unwritten(t) PROVE FALSE
      OBVIOUS
    <3>1. View(p) = [i \in DOMAIN rows |-> rows[i]]
      BY <2>4 DEF Unwritten, View
    <3> QED
      BY <2>1, <2>3, <2>4, <3>1 DEF IsTable
  <2>6. rows'[r.id].data = Merge(t.row.data, r.body)
    BY <2>3, <2>4, <2>5 DEF View
  <2>7. seen[p] # NoDoc
    BY <2>3 DEF NoDoc, IsTable
  <2>8. seen[p].row = rows[r.id]
    BY <2>3, <2>7 DEF SeenInv, VersionIdentifiesContent
  <2> QED
    BY <2>3, <2>6, <2>8
<1> QED
  BY <1>1, SpecInv, SeenAlways, PTL DEF Spec, NoLostUpdate

-----------------------------------------------------------------------------
(* The sequence, when no COMMIT fails and no connection is lost            *)

AtCommit(p) == pc[p] = "commit" /\ req[p].op = "Import"

SeqInv ==
    /\ (\A p \in Procs : ~AtCommit(p)) => \A i \in DOMAIN rows : i < seq
    /\ \A p \in Procs : AtCommit(p) => \A i \in DOMAIN tx[p].writes : i < seq

(* p neither was nor comes to the COMMIT of an import, nor writes.         *)
Quiet(p) == ~AtCommit(p) /\ ~AtCommit(p)' /\ UNCHANGED <<rows, seq>>

Alone(p) == \A q \in Procs \ {p} : pc'[q] = pc[q] /\ req'[q] = req[q] /\ tx'[q] = tx[q]

LEMMA FailQuiet ==
    ASSUME NEW p \in Procs, NEW code, Fail(p, code), ~AtCommit(p), Inv
    PROVE  Quiet(p) /\ Alone(p)
BY DEF Quiet, Alone, AtCommit, Fail, Answer, Goto, Inv, TypeOK

LEMMA AdvanceQuiet ==
    ASSUME NEW p \in Procs, NEW step, NEW t, Advance(p, step, t), UNCHANGED <<seq, req>>,
           ~AtCommit(p), step # "commit" \/ req[p].op # "Import", Inv
    PROVE  Quiet(p) /\ Alone(p)
BY DEF Quiet, Alone, AtCommit, Advance, Goto, Inv, TypeOK

LEMMA OpOf ==
    ASSUME Inv, NEW p \in Procs, req[p].op = "Import"
    PROVE  pc[p] \in {"lockTable", "delete", "setval", "commit"}
BY DEF Inv, LockDiscipline, Sound, StepsOf

LEMMA AskQuiet ==
    ASSUME Inv, NEW p \in Procs, Ask(p)
    PROVE  Quiet(p) /\ Alone(p)
<1>1. CASE Get(p)
  BY <1>1 DEF Get, Quiet, Alone, AtCommit
<1>2. ASSUME NEW r, NEW step \in {"check", "lockRow", "lockTable"}, NEW code,
             Arrive(p, r, step, code)
      PROVE  Quiet(p) /\ Alone(p)
  BY <1>2 DEF Arrive, Goto, Quiet, Alone, AtCommit, Inv, TypeOK
<1>3. CASE StartInsert(p)
  BY <1>2, <1>3 DEF StartInsert
<1>4. CASE StartUpdate(p)
  BY <1>2, <1>4 DEF StartUpdate
<1>5. CASE StartStatusChange(p)
  BY <1>2, <1>5 DEF StartStatusChange
<1>6. CASE StartImport(p)
  BY <1>2, <1>6 DEF StartImport
<1> QED
  BY <1>1, <1>3, <1>4, <1>5, <1>6 DEF Ask

LEMMA ServeQuiet ==
    ASSUME Inv, NEW p \in Procs, Serve(p) \/ ImportBatch(p)
    PROVE  \/ Quiet(p) /\ Alone(p)
           \/ InsertDoc(p) \/ SetSequenceAfterImport(p) \/ Commit(p)
<1>1. ASSUME pc[p] \in {"lockRow", "waitRow"}, RowLocked(p) PROVE Quiet(p) /\ Alone(p)
  <2>1. req[p].op # "Import" /\ ~AtCommit(p)
    BY <1>1, OpOf DEF AtCommit
  <2> QED
    BY <1>1, <2>1, FailQuiet, AdvanceQuiet DEF RowLocked
<1>2. CASE GetDocForUpdate(p)
  <2>1. req[p].op # "Import" /\ ~AtCommit(p)
    BY <1>2, OpOf DEF AtCommit, GetDocForUpdate
  <2> QED
    BY <1>1, <1>2, <2>1, FailQuiet, AdvanceQuiet DEF GetDocForUpdate
<1>3. CASE RowGranted(p)
  BY <1>1, <1>3, FailQuiet DEF RowGranted, AtCommit
<1>4. CASE CheckUniqueDup(p)
  BY <1>4, FailQuiet, AdvanceQuiet DEF CheckUniqueDup, AtCommit
<1>5. CASE UpdateDoc(p)
  <2>1. req[p].op # "Import" /\ ~AtCommit(p)
    BY <1>5, OpOf DEF AtCommit, UpdateDoc
  <2> QED
    BY <1>5, <2>1, FailQuiet, AdvanceQuiet DEF UpdateDoc
<1>6. CASE LockForReplace(p)
  BY <1>6, AdvanceQuiet DEF LockForReplace, AtCommit
<1>7. CASE DeleteAllDocs(p)
  BY <1>7, AdvanceQuiet DEF DeleteAllDocs, AtCommit
<1>8. CASE LockTimeout(p)
  BY <1>8, FailQuiet DEF LockTimeout, Blocked, AtCommit
<1>9. CASE DeadlockVictim(p)
  BY <1>9, FailQuiet DEF DeadlockVictim, WaitsFor, AtCommit
<1>10. CASE ImportBatch(p)
  <2>1. ~AtCommit(p)
    BY <1>10 DEF ImportBatch, AtCommit
  <2>2. \/ Fail(p, "invalid")
        \/ /\ UNCHANGED <<seq, req>>
           /\ \E step \in {"setval", "delete"}, t \in {tx'[p]} : Advance(p, step, t)
    <3>1. ASSUME NEW step, NEW t, Advance(p, step, t)
          PROVE  Advance(p, step, tx'[p])
      BY <3>1 DEF Advance, Inv, TypeOK
    <3> QED
      BY <1>10, <3>1 DEF ImportBatch
  <2> QED
    BY <2>1, <2>2, FailQuiet, AdvanceQuiet
<1> QED
  BY <1>2, <1>3, <1>4, <1>5, <1>6, <1>7, <1>8, <1>9, <1>10 DEF Serve

LEMMA QuietKeepsSequence ==
    ASSUME SeqInv, NEW p \in Procs, Quiet(p), Alone(p)
    PROVE  SeqInv'
<1>1. \A q \in Procs : AtCommit(q)' <=> AtCommit(q)
  BY DEF Quiet, Alone, AtCommit
<1>2. \A q \in Procs : AtCommit(q) => tx'[q] = tx[q]
  BY DEF Quiet, Alone
<1> QED
  BY <1>1, <1>2 DEF SeqInv, Quiet

(* An import about to commit keeps everybody else from writing.            *)
LEMMA CommittingAlone ==
    ASSUME Inv, NEW p \in Procs, pc[p] \in {"setval", "commit"}, req[p].op = "Import"
    PROVE  /\ tx[p].held = "shareRowExclusive" /\ DOMAIN View(p) = DOMAIN tx[p].writes
           /\ \A q \in Procs \ {p} : tx[q].held = "none" /\ ~AtCommit(q)
<1>1. \A q \in Procs : /\ pc[q] \in {"setval", "commit"} /\ req[q].op = "Import"
                      => tx[q].held = "shareRowExclusive" /\ tx[q].locks = DOMAIN rows
  BY DEF Inv, LockDiscipline, Sound, ImportSound
<1>2. DOMAIN View(p) = DOMAIN tx[p].writes
  BY <1>1 DEF View, Deleted
<1>3. \A q \in Procs \ {p} : tx[q].held = "none"
  BY <1>1 DEF Inv, LockDiscipline, Compatible
<1> QED
  BY <1>1, <1>2, <1>3 DEF AtCommit

LEMMA InsertKeepsSequence ==
    ASSUME Inv, SeqInv, NEW p \in Procs, InsertDoc(p)
    PROVE  SeqInv'
<1>1. pc[p] = "insert" /\ TableFree(p, "rowExclusive") /\ seq' = seq + 1 /\ rows' = rows
  BY DEF InsertDoc, Advance
<1>2. \A q \in Procs : ~AtCommit(q)
  <2>1. ~AtCommit(p)
    BY <1>1 DEF AtCommit
  <2>2. ASSUME NEW q \in Procs \ {p}, AtCommit(q) PROVE FALSE
    BY <1>1, <2>2, CommittingAlone DEF AtCommit, TableFree, Conflicts
  <2> QED
    BY <2>1, <2>2
<1>3. req[p].op # "Import"
  BY <1>1, OpOf
<1>4. \A q \in Procs : ~AtCommit(q)'
  <2>1. pc \in [Procs -> Steps] /\ req \in [Procs -> Request]
    BY DEF Inv, TypeOK
  <2>2. \/ pc' = [pc EXCEPT ![p] = "idle"] /\ req' = [req EXCEPT ![p] = NoReq]
        \/ pc' = [pc EXCEPT ![p] = "commit"] /\ req' = [req EXCEPT ![p].id = seq]
    BY DEF InsertDoc, Advance, Answer, Goto
  <2>3. \A q \in Procs \ {p} : pc'[q] = pc[q] /\ req'[q] = req[q]
    BY <2>1, <2>2
  <2>4. pc'[p] = "idle" \/ req'[p].op = req[p].op
    BY <2>1, <2>2 DEF Request
  <2>5. ~AtCommit(p)'
    BY <1>3, <2>4 DEF AtCommit
  <2>6. ASSUME NEW q \in Procs \ {p} PROVE ~AtCommit(q)'
    BY <1>2, <2>3, <2>6 DEF AtCommit
  <2> QED
    BY <2>5, <2>6
<1>5. \A i \in DOMAIN rows : i < seq' /\ i \in Nat
  <2>1. \A i \in DOMAIN rows : i \in Nat /\ i < seq
    BY <1>2 DEF SeqInv, Inv, TypeOK, IsTable
  <2> QED
    BY <1>1, <2>1 DEF Inv, TypeOK
<1> QED
  BY <1>1, <1>4, <1>5 DEF SeqInv

LEMMA SetvalKeepsSequence ==
    ASSUME Inv, NEW p \in Procs, SetSequenceAfterImport(p)
    PROVE  SeqInv'
<1>1. /\ pc[p] = "setval" /\ seq' = NextID(View(p)) /\ Advance(p, "commit", tx[p])
      /\ req' = req
  BY DEF SetSequenceAfterImport
<1>2. req[p].op = "Import"
  BY <1>1 DEF Inv, TypeOK, Request, DataOps, LockDiscipline, Sound, StepsOf
<1>3. /\ AtCommit(p)' /\ tx'[p] = tx[p]
      /\ \A q \in Procs \ {p} : pc'[q] = pc[q] /\ tx'[q] = tx[q]
  BY <1>1, <1>2 DEF Advance, Goto, AtCommit, Inv, TypeOK
<1>4. \A q \in Procs \ {p} : ~AtCommit(q)'
  BY <1>1, <1>2, <1>3, CommittingAlone DEF AtCommit
<1>5. \A i \in DOMAIN tx[p].writes : i < seq'
  <2>1. IsTable(View(p))
    BY ViewType DEF Inv
  <2> QED
    BY <1>1, <1>2, <2>1, NextIDAbove, CommittingAlone
<1> QED
  BY <1>3, <1>4, <1>5 DEF SeqInv

LEMMA CommitKeepsSequence ==
    ASSUME Inv, SeqInv, NEW p \in Procs, Commit(p)
    PROVE  SeqInv'
<1>1. /\ pc[p] = "commit" /\ rows' = View(p) /\ seq' = seq
      /\ ~AtCommit(p)' /\ \A q \in Procs \ {p} : AtCommit(q)' <=> AtCommit(q)
      /\ \A q \in Procs \ {p} : tx'[q].writes = tx[q].writes
  <2>1. pc[p] = "commit" /\ rows' = View(p) /\ seq' = seq
    BY DEF Commit, Publish
  <2>2. /\ pc' = [pc EXCEPT ![p] = "idle"] /\ req' = [req EXCEPT ![p] = NoReq]
    BY DEF Commit, Answer, Goto
  <2>3. ~AtCommit(p)' /\ \A q \in Procs \ {p} : AtCommit(q)' <=> AtCommit(q)
    BY <2>2 DEF AtCommit, Inv, TypeOK
  <2>4. \A q \in Procs \ {p} : tx'[q].writes = tx[q].writes
    BY DEF Commit, Publish, Inv, TypeOK, IsTx
  <2> QED
    BY <2>1, <2>3, <2>4
<1>2. CASE req[p].op = "Import"
  <2>1. \A q \in Procs : ~AtCommit(q)'
    BY <1>1, <1>2, CommittingAlone
  <2>2. \A i \in DOMAIN rows' : i < seq'
    BY <1>1, <1>2, CommittingAlone DEF SeqInv, AtCommit
  <2> QED
    BY <2>1, <2>2 DEF SeqInv
<1>3. CASE req[p].op # "Import"
  <2>1. \A q \in Procs \ {p} : AtCommit(q)' => \A i \in DOMAIN tx'[q].writes : i < seq'
    BY <1>1 DEF SeqInv
  <2>2. ASSUME \A q \in Procs : ~AtCommit(q)' PROVE \A i \in DOMAIN rows' : i < seq'
    <3>1. \A q \in Procs : ~AtCommit(q)
      BY <1>1, <1>3, <2>2 DEF AtCommit
    <3>2. \A i \in DOMAIN rows : i < seq
      BY <3>1 DEF SeqInv
    <3>3. req[p].op = "Insert" => req[p].id < seq
      BY <1>1 DEF Inv, LockDiscipline, Sound, InsertSound
    <3>4. \A i \in DOMAIN View(p) \ DOMAIN rows : req[p].op = "Insert" /\ i = req[p].id
      BY <1>1, <1>3, CommittedWrite
    <3> QED
      BY <1>1, <3>2, <3>3, <3>4
  <2> QED
    BY <1>1, <2>1, <2>2 DEF SeqInv
<1> QED
  BY <1>2, <1>3

(* As long as no COMMIT fails and no connection is lost, an INSERT always  *)
(* finds its id free: the sequence is ahead of every row, whatever files   *)
(* are imported and whichever of them are refused (transfer.go:109-119).   *)
THEOREM SequenceStaysAhead == Faults = {} => (Spec => []SequenceAhead)
<1> SUFFICES ASSUME Faults = {} PROVE Spec => []SequenceAhead
  OBVIOUS
<1>1. Init => SeqInv
  BY NextIDAbove, InitialAssumption DEF Init, SeqInv, AtCommit
<1>2. Inv /\ SeqInv /\ [Next]_vars => SeqInv'
  <2> SUFFICES ASSUME Inv, SeqInv, [Next]_vars PROVE SeqInv'
    OBVIOUS
  <2>1. CASE UNCHANGED vars
    BY <2>1 DEF vars, SeqInv, AtCommit
  <2>2. CASE Evolve \/ Deprecate
    BY <2>2 DEF Evolve, Deprecate, SeqInv, AtCommit
  <2>3. ASSUME NEW p \in Procs, Ask(p) PROVE SeqInv'
    BY <2>3, AskQuiet, QuietKeepsSequence
  <2>4. ASSUME NEW p \in Procs, Serve(p) \/ ImportBatch(p) PROVE SeqInv'
    BY <2>4, ServeQuiet, QuietKeepsSequence, InsertKeepsSequence, SetvalKeepsSequence,
       CommitKeepsSequence
  <2>5. \A p \in Procs : ~Fault(p)
    BY DEF Fault, CommitApplied, CommitAborted, Disconnect
  <2> QED
    BY <2>1, <2>2, <2>3, <2>4, <2>5 DEF Next
<1>3. SeqInv => SequenceAhead
  BY DEF SeqInv, SequenceAhead, AtCommit
<1> QED
  BY <1>1, <1>2, <1>3, SpecInv, PTL DEF Spec

-----------------------------------------------------------------------------
(* Deprecation                                                             *)

(* Requests past the gate carry an active type; a restore has no body.     *)
Admitted ==
    \A p \in Procs :
        /\ req[p].op \in {"Insert", "Update", "Import"} => req[p].def.status = "active"
        /\ req[p].op = "Restore" => req[p].body = EmptyBody

(* No step makes a request in flight another one.                          *)
SameRequests ==
    \A q \in Procs : \/ req'[q].op = "None"
                     \/ /\ req'[q].op = req[q].op /\ req'[q].def = req[q].def
                        /\ req'[q].body = req[q].body

LEMMA RequestsStay ==
    ASSUME Inv, NEW p \in Procs, Serve(p) \/ ImportBatch(p) \/ Fault(p)
    PROVE  SameRequests
<1>1. ASSUME req' = [req EXCEPT ![p] = NoReq] PROVE SameRequests
  BY <1>1 DEF SameRequests, NoReq, Inv, TypeOK
<1>2. ASSUME req' = req PROVE SameRequests
  BY <1>2 DEF SameRequests
<1>3. ASSUME req' = [req EXCEPT ![p].id = seq] PROVE SameRequests
  <2>1. req'[p] = [req[p] EXCEPT !.id = seq] /\ req[p] \in Request
    BY <1>3 DEF Inv, TypeOK
  <2>2. req'[p].op = req[p].op /\ req'[p].def = req[p].def /\ req'[p].body = req[p].body
    BY <2>1 DEF Request
  <2>3. \A q \in Procs \ {p} : req'[q] = req[q]
    BY <1>3 DEF Inv, TypeOK
  <2> QED
    BY <2>2, <2>3 DEF SameRequests
<1>4. \A code : Fail(p, code) \/ Answer(p, code) => req' = [req EXCEPT ![p] = NoReq]
  BY DEF Fail, Answer
<1>5. RowLocked(p) => req' = req \/ req' = [req EXCEPT ![p] = NoReq]
  BY <1>4 DEF RowLocked
<1>6. Serve(p) \/ ImportBatch(p) =>
         \/ req' = req \/ req' = [req EXCEPT ![p] = NoReq] \/ req' = [req EXCEPT ![p].id = seq]
  <2>1. GetDocForUpdate(p) \/ RowGranted(p) => req' = req \/ req' = [req EXCEPT ![p] = NoReq]
    BY <1>4, <1>5 DEF GetDocForUpdate, RowGranted
  <2>2. CheckUniqueDup(p) \/ UpdateDoc(p) => req' = req \/ req' = [req EXCEPT ![p] = NoReq]
    BY <1>4 DEF CheckUniqueDup, UpdateDoc
  <2>3. InsertDoc(p) => req' = [req EXCEPT ![p] = NoReq] \/ req' = [req EXCEPT ![p].id = seq]
    BY <1>4 DEF InsertDoc
  <2>4. LockForReplace(p) \/ DeleteAllDocs(p) \/ SetSequenceAfterImport(p) => req' = req
    BY DEF LockForReplace, DeleteAllDocs, SetSequenceAfterImport
  <2>5. Commit(p) \/ LockTimeout(p) \/ DeadlockVictim(p) => req' = [req EXCEPT ![p] = NoReq]
    BY <1>4 DEF Commit, LockTimeout, DeadlockVictim
  <2>6. ImportBatch(p) => req' = req \/ req' = [req EXCEPT ![p] = NoReq]
    BY <1>4 DEF ImportBatch
  <2> QED
    BY <2>1, <2>2, <2>3, <2>4, <2>5, <2>6 DEF Serve
<1>7. Fault(p) => req' = [req EXCEPT ![p] = NoReq]
  BY <1>4 DEF Fault, CommitApplied, CommitAborted, Disconnect
<1> QED
  BY <1>1, <1>2, <1>3, <1>6, <1>7

LEMMA GateAdmits ==
    ASSUME Inv, Admitted, NEW p \in Procs, Ask(p)
    PROVE  Admitted'
<1>1. ASSUME NEW r, r.def = def, r.op = "Restore" => r.body = EmptyBody,
             NEW step, NEW code, Arrive(p, r, step, code)
      PROVE  Admitted'
  <2>1. \/ req' = req
        \/ req' = [req EXCEPT ![p] = r] /\ GateOpen(r.op)
    BY <1>1 DEF Arrive
  <2>2. CASE req' = req
    BY <2>2 DEF Admitted
  <2>3. CASE req' = [req EXCEPT ![p] = r] /\ GateOpen(r.op)
    <3>1. req'[p] = r /\ \A q \in Procs \ {p} : req'[q] = req[q]
      BY <2>3 DEF Inv, TypeOK
    <3> QED
      BY <1>1, <2>3, <3>1 DEF GateOpen, Admitted
  <2> QED
    BY <2>1, <2>2, <2>3
<1>2. CASE Get(p)
  BY <1>2 DEF Get, Admitted
<1>3. CASE StartInsert(p)
  <2>1. PICK b \in Bodies :
           Arrive(p, [NoReq EXCEPT !.op = "Insert", !.body = b, !.def = def], "check",
                  IF Valid(def.schema, Merge(Blank, b)) THEN "ok" ELSE "invalid")
    BY <1>3 DEF StartInsert
  <2>2. [NoReq EXCEPT !.op = "Insert", !.body = b, !.def = def].def = def
        /\ [NoReq EXCEPT !.op = "Insert", !.body = b, !.def = def].op = "Insert"
    BY DEF NoReq
  <2> QED
    BY <1>1, <2>1, <2>2
<1>4. CASE StartUpdate(p)
  <2>1. PICK b \in Bodies, i \in AskedIDs, v \in AskedVersions :
           Arrive(p, [NoReq EXCEPT !.op = "Update", !.id = i, !.version = v,
                                   !.body = b, !.def = def], "lockRow",
                  IF v >= 1 THEN "ok" ELSE "invalid")
    BY <1>4 DEF StartUpdate
  <2>2. /\ [NoReq EXCEPT !.op = "Update", !.id = i, !.version = v,
                         !.body = b, !.def = def].def = def
        /\ [NoReq EXCEPT !.op = "Update", !.id = i, !.version = v,
                         !.body = b, !.def = def].op = "Update"
    BY DEF NoReq
  <2> QED
    BY <1>1, <2>1, <2>2
<1>5. CASE StartStatusChange(p)
  <2>1. PICK op \in {"SoftDelete", "Restore"}, i \in AskedIDs :
           Arrive(p, [NoReq EXCEPT !.op = op, !.id = i, !.def = def], "lockRow", "ok")
    BY <1>5 DEF StartStatusChange
  <2>2. /\ [NoReq EXCEPT !.op = op, !.id = i, !.def = def].def = def
        /\ [NoReq EXCEPT !.op = op, !.id = i, !.def = def].body = EmptyBody
    BY DEF NoReq
  <2> QED
    BY <1>1, <2>1, <2>2
<1>6. CASE StartImport(p)
  <2>1. PICK f \in Files :
           Arrive(p, [NoReq EXCEPT !.op = "Import", !.file = f, !.def = def], "lockTable", "ok")
    BY <1>6 DEF StartImport
  <2>2. [NoReq EXCEPT !.op = "Import", !.file = f, !.def = def].def = def
        /\ [NoReq EXCEPT !.op = "Import", !.file = f, !.def = def].op = "Import"
    BY DEF NoReq
  <2> QED
    BY <1>1, <2>1, <2>2
<1> QED
  BY <1>2, <1>3, <1>4, <1>5, <1>6 DEF Ask

LEMMA AdmittedStep == Inv /\ Admitted /\ [Next]_vars => Admitted'
<1> SUFFICES ASSUME Inv, Admitted, [Next]_vars PROVE Admitted'
  OBVIOUS
<1>1. CASE UNCHANGED vars
  BY <1>1 DEF vars, Admitted
<1>2. CASE Evolve \/ Deprecate
  BY <1>2 DEF Evolve, Deprecate, Admitted
<1>3. ASSUME NEW p \in Procs, Ask(p) PROVE Admitted'
  BY <1>3, GateAdmits
<1>4. ASSUME NEW p \in Procs, Serve(p) \/ ImportBatch(p) \/ Fault(p) PROVE Admitted'
  BY <1>4, RequestsStay DEF SameRequests, Admitted
<1> QED
  BY <1>1, <1>2, <1>3, <1>4 DEF Next

(* A soft delete or a restore moves nothing but the status.                *)
LEMMA StatusChangesKeepData ==
    ASSUME Inv, NEW p \in Procs, pc[p] = "commit", req[p].op \in {"SoftDelete", "Restore"}
    PROVE  /\ DOMAIN View(p) = DOMAIN rows
           /\ \A i \in DOMAIN rows : View(p)[i].data = rows[i].data
<1> DEFINE r == req[p]
           t == tx[p]
<1>1. /\ r.id \in DOMAIN rows /\ t.row = rows[r.id]
      /\ \/ Unwritten(t)
         \/ DOMAIN t.writes = {r.id} /\ t.writes[r.id] = NextRow(r, t.row)
  BY DEF Inv, LockDiscipline, Sound, RowWriterSound
<1>2. Deleted(p) = {}
  BY DEF Deleted
<1>3. NextRow(r, t.row).data = t.row.data
  BY DEF NextRow
<1> QED
  BY <1>1, <1>2, <1>3 DEF View, Unwritten

(* Once the type is deprecated its contents change only by the hand of     *)
(* requests the gate had admitted (data_service.go:61-78).                 *)
THEOREM DeprecatedIsFrozen == Spec => DeprecatedFrozen
<1>1. Init => Admitted
  BY DEF Init, Admitted, NoReq
<1>2. Inv /\ Admitted /\ [Next]_vars
         => [/\ def.status = "deprecated"
             /\ ~(/\ DOMAIN rows' = DOMAIN rows
                  /\ \A i \in DOMAIN rows : rows'[i].data = rows[i].data)
             => \E p \in Procs : Commits(p) /\ req[p].def.status = "active"]_vars
  <2> SUFFICES ASSUME Inv, Admitted, [Next]_vars,
                      ~(/\ DOMAIN rows' = DOMAIN rows
                        /\ \A i \in DOMAIN rows : rows'[i].data = rows[i].data)
               PROVE  \E p \in Procs : Commits(p) /\ req[p].def.status = "active"
    OBVIOUS
  <2>1. rows' # rows
    OBVIOUS
  <2>2. PICK p \in Procs : Commit(p) \/ CommitApplied(p)
    BY <2>1, TableChanges
  <2>3. pc[p] = "commit" /\ rows' = View(p)
    BY <2>2, Published
  <2>4. pc'[p] = "idle"
    BY <2>2 DEF Commit, CommitApplied, Answer, Goto, Inv, TypeOK
  <2>5. req[p].op \in {"Insert", "Update", "Import"}
    <3>1. req[p].op \notin {"SoftDelete", "Restore"}
      BY <2>3, StatusChangesKeepData
    <3>2. req[p].op \in {"None", "Insert", "Update", "SoftDelete", "Restore", "Import"}
      BY DEF Inv, TypeOK, Request, DataOps
    <3>3. req[p].op # "None"
      BY <2>3 DEF Inv, LockDiscipline, Sound, StepsOf
    <3> QED
      BY <3>1, <3>2, <3>3
  <2> QED
    BY <2>1, <2>3, <2>4, <2>5 DEF Commits, Admitted
<1> QED
  BY <1>1, <1>2, AdmittedStep, SpecInv, PTL DEF Spec, DeprecatedFrozen

-----------------------------------------------------------------------------
(* Who waits for whom                                                      *)

(* Every request is of one of the five transactions, or there is none.     *)
LEMMA OpCases ==
    ASSUME Inv, NEW p \in Procs
    PROVE  /\ req[p].op \in {"None", "Insert", "Update", "SoftDelete", "Restore", "Import"}
           /\ pc[p] = "delete" => req[p].op = "Import"
<1>1. req[p].op \in {"None", "Insert", "Update", "SoftDelete", "Restore", "Import"}
  BY DEF Inv, TypeOK, Request, DataOps
<1> QED
  BY <1>1 DEF Inv, LockDiscipline, Sound, StepsOf

(* A request that has the table to itself is an import past its lock.      *)
LEMMA TableHolder ==
    ASSUME Inv, NEW q \in Procs, tx[q].held = "shareRowExclusive"
    PROVE  req[q].op = "Import" /\ pc[q] \in {"delete", "setval", "commit"}
<1>1. Sound(q)
  BY DEF Inv, LockDiscipline
<1>2. CASE req[q].op = "None"
  BY <1>1, <1>2 DEF Sound, NewTx
<1>3. CASE req[q].op = "Insert"
  BY <1>1, <1>3 DEF Sound, InsertSound, Unwritten
<1>4. CASE req[q].op \in {"Update", "SoftDelete", "Restore"}
  BY <1>1, <1>4 DEF Sound, RowWriterSound, Unwritten
<1>5. CASE req[q].op = "Import"
  BY <1>1, <1>5 DEF Sound, ImportSound, StepsOf, Unwritten
<1> QED
  BY <1>2, <1>3, <1>4, <1>5, OpCases

(* A request that has a row is an import past its table lock, or has       *)
(* exactly that row and is past its FOR UPDATE.                            *)
LEMMA RowHolder ==
    ASSUME Inv, NEW q \in Procs, NEW i \in tx[q].locks
    PROVE  \/ tx[q].held = "shareRowExclusive"
           \/ req[q].op \in {"Update", "SoftDelete", "Restore"}
              /\ pc[q] \in {"check", "write", "commit"}
<1>1. Sound(q)
  BY DEF Inv, LockDiscipline
<1>2. CASE req[q].op = "None"
  BY <1>1, <1>2 DEF Sound, NewTx
<1>3. CASE req[q].op = "Insert"
  BY <1>1, <1>3 DEF Sound, InsertSound
<1>4. CASE req[q].op \in {"Update", "SoftDelete", "Restore"}
  BY <1>1, <1>4 DEF Sound, RowWriterSound, StepsOf
<1>5. CASE req[q].op = "Import"
  BY <1>1, <1>5 DEF Sound, ImportSound
<1> QED
  BY <1>2, <1>3, <1>4, <1>5, OpCases

(* An import that waits in its DELETE waits for a row whose holder, if it  *)
(* waits too, waits for the table.                                         *)
LEMMA ImportWaits ==
    ASSUME Inv, NEW s \in Procs, tx[s].held = "shareRowExclusive", Blocked(s)
    PROVE  \E u \in Procs : \/ pc[u] # "idle" /\ ~Blocked(u)
                            \/ DeadlockPair(s, u)
<1>1. pc[s] = "delete"
  BY TableHolder DEF Blocked
<1>2. PICK i \in Remaining(s) : ~RowFree(s, i)
  BY <1>1 DEF Blocked
<1>3. PICK u \in Procs \ {s} : i \in tx[u].locks
  BY <1>2 DEF RowFree
<1>4. tx[u].held = "none"
  BY <1>3 DEF Inv, LockDiscipline, Compatible
<1>5. req[u].op \in {"Update", "SoftDelete", "Restore"} /\ pc[u] \in {"check", "write", "commit"}
  BY <1>3, <1>4, RowHolder
<1>6. CASE pc[u] = "write"
  <2>1. WaitsFor(s, u)
    BY <1>1, <1>2, <1>3 DEF WaitsFor
  <2>2. WaitsFor(u, s)
    BY <1>6 DEF WaitsFor, Conflicts
  <2> QED
    BY <2>1, <2>2 DEF DeadlockPair
<1>7. CASE pc[u] # "write"
  BY <1>5, <1>7 DEF Blocked
<1> QED
  BY <1>6, <1>7

(* Everybody else waits for an import, or for somebody who does not wait,  *)
(* or for a request that waits for an import.                              *)
LEMMA SomebodyGoesOn ==
    ASSUME Inv, NEW p \in Procs, Blocked(p)
    PROVE  \E u, v \in Procs : \/ pc[u] # "idle" /\ ~Blocked(u)
                               \/ DeadlockPair(v, u)
<1> SUFFICES ASSUME \A u \in Procs : pc[u] # "idle" => Blocked(u)
             PROVE  \E u, v \in Procs : DeadlockPair(v, u)
  OBVIOUS
<1>1. ASSUME NEW s \in Procs, tx[s].held = "shareRowExclusive"
      PROVE  \E u, v \in Procs : DeadlockPair(v, u)
  <2>1. Blocked(s)
    BY <1>1, TableHolder
  <2> QED
    BY <1>1, <2>1, ImportWaits
<1>2. ASSUME NEW s \in Procs, pc[s] \in {"insert", "write"}, Blocked(s)
      PROVE  \E u, v \in Procs : DeadlockPair(v, u)
  <2>1. PICK q \in Procs : tx[q].held = "shareRowExclusive"
    BY <1>2 DEF Blocked, TableFree, Conflicts
  <2> QED
    BY <1>1, <2>1
<1>3. CASE pc[p] = "lockTable"
  <2>1. PICK q \in Procs : tx[q].held # "none"
    BY <1>3 DEF Blocked, TableFree, Conflicts
  <2>2. CASE tx[q].held = "shareRowExclusive"
    BY <1>1, <2>2
  <2>3. CASE tx[q].held # "shareRowExclusive"
    <3>1. pc[q] = "commit"
      <4>1. Sound(q)
        BY DEF Inv, LockDiscipline
      <4>2. CASE req[q].op = "None"
        BY <2>1, <4>1, <4>2 DEF Sound, NewTx
      <4>3. CASE req[q].op = "Insert"
        BY <2>1, <4>1, <4>3 DEF Sound, InsertSound, Unwritten
      <4>4. CASE req[q].op \in {"Update", "SoftDelete", "Restore"}
        BY <2>1, <4>1, <4>4 DEF Sound, RowWriterSound, Unwritten
      <4>5. CASE req[q].op = "Import"
        BY <2>1, <2>3, <4>1, <4>5 DEF Sound, ImportSound, Unwritten
      <4> QED
        BY <4>2, <4>3, <4>4, <4>5, OpCases
    <3> QED
      BY <3>1 DEF Blocked
  <2> QED
    BY <2>2, <2>3
<1>4. CASE pc[p] = "waitRow"
  <2>1. PICK q \in Procs : req[p].id \in tx[q].locks
    BY <1>4 DEF Blocked, RowFree
  <2>2. CASE tx[q].held = "shareRowExclusive"
    BY <1>1, <2>2
  <2>3. CASE pc[q] \in {"check", "write", "commit"}
    <3>1. Blocked(q) /\ pc[q] = "write"
      BY <2>3 DEF Blocked
    <3> QED
      BY <1>2, <3>1
  <2> QED
    BY <2>1, <2>2, <2>3, RowHolder
<1>5. CASE pc[p] = "delete"
  <2>1. tx[p].held = "shareRowExclusive"
    <3>1. Sound(p) /\ req[p].op = "Import"
      BY <1>5, OpCases DEF Inv, LockDiscipline
    <3> QED
      BY <1>5, <3>1 DEF Sound, ImportSound
  <2> QED
    BY <1>1, <2>1
<1> QED
  BY <1>2, <1>3, <1>4, <1>5 DEF Blocked

(* Requests deadlock only as an UPDATE against an import's DELETE, and     *)
(* short of such a pair somebody in flight waits for nobody, whatever the  *)
(* number of clients (data_service.go:185-228, transfer.go:43-60).         *)
THEOREM DeadlocksNeedAnImport == Spec => []OnlyImportsDeadlock
<1>1. ASSUME Inv, NEW p \in Procs, NEW q \in Procs, DeadlockPair(p, q)
      PROVE  {pc[p], pc[q]} = {"write", "delete"}
  <2>1. ASSUME NEW s \in Procs, pc[s] = "delete"
        PROVE  req[s].op = "Import" /\ tx[s].held = "shareRowExclusive"
    <3>1. req[s].op = "Import"
      BY <1>1, <2>1, OpCases
    <3>2. Sound(s)
      BY <1>1 DEF Inv, LockDiscipline
    <3> QED
      BY <2>1, <3>1, <3>2 DEF Sound, ImportSound
  <2>2. ASSUME pc[p] = "write", pc[q] = "write" PROVE FALSE
    <3>1. tx[q].held = "shareRowExclusive"
      BY <1>1, <2>2 DEF DeadlockPair, WaitsFor, Conflicts
    <3> QED
      BY <1>1, <2>2, <3>1, TableHolder
  <2>3. ASSUME pc[p] = "delete", pc[q] = "delete" PROVE FALSE
    <3>1. p # q
      BY <1>1, <2>3 DEF DeadlockPair, WaitsFor, Remaining
    <3> QED
      BY <1>1, <2>1, <2>3, <3>1 DEF Inv, LockDiscipline, Compatible
  <2>4. pc[p] \in {"write", "delete"} /\ pc[q] \in {"write", "delete"}
    BY <1>1 DEF DeadlockPair, WaitsFor
  <2> QED
    BY <2>2, <2>3, <2>4
<1>2. Inv => OnlyImportsDeadlock
  BY <1>1, SomebodyGoesOn DEF OnlyImportsDeadlock
<1> QED
  BY <1>2, SpecInv, PTL

=============================================================================
