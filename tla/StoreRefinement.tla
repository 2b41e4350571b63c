-------------------------- MODULE StoreRefinement --------------------------
(***************************************************************************)
(* DataTable implements VersionedStore, for any number of clients, rows,   *)
(* files and schemas: a request's arrival is the store's Ask (or a refusal *)
(* at once), its COMMIT is its one instant, and every other statement is a *)
(* stutter or, when it ends the request, a refusal.                        *)
(***************************************************************************)
EXTENDS DataTableProofs

-----------------------------------------------------------------------------
(* Both modules read the same definitions of documents.                    *)

(* The empty request, the answers and the placeholders are the same.       *)
LEMMA SameConstants ==
    Store!NoReq = NoReq /\ Store!NoDoc = NoDoc /\ Store!Codes = Codes /\ Store!Blank = Blank
<1>1. Store!EmptyBody = EmptyBody /\ Store!NoFile = NoFile /\ Store!Blank = Blank
  BY DEF Store!EmptyBody, EmptyBody, Store!NoFile, NoFile, Store!Blank, Blank
<1>2. Store!NoRow = NoRow
  BY <1>1 DEF Store!NoRow, NoRow
<1> QED
  BY <1>1, <1>2 DEF Store!NoReq, NoReq, Store!NoDoc, NoDoc, Store!Codes, Codes

(* The types of requests are the same.                                     *)
LEMMA SameRequestTypes == Store!Request = Request
<1>1. Store!Body = Body /\ Store!File = File
  BY DEF Store!Body, Body, Store!File, File, Store!FileDoc, FileDoc, Store!Data, Data
<1>2. Store!Definition = Definition /\ Store!DataOps = DataOps
  BY DEF Store!Definition, Definition, Store!Schema, Schema, Store!DataOps, DataOps
<1> QED
  BY <1>1, <1>2 DEF Store!Request, Request

(* So are the functions on documents.                                      *)
LEMMA SameFunctions ==
    ASSUME NEW a, NEW b
    PROVE  /\ Store!Merge(a, b) = Merge(a, b)
           /\ Store!Valid(a, b) = Valid(a, b)
           /\ Store!RowAccepted(a, b) = RowAccepted(a, b)
           /\ Store!FileTable(a, b) = FileTable(a, b)
<1>1. Store!Merge(a, b) = Merge(a, b)
  BY DEF Store!Merge, Merge
<1>2. Store!Valid(a, b) = Valid(a, b)
  BY DEF Store!Valid, Valid
<1>3. Store!RowAccepted(a, b) = RowAccepted(a, b)
  BY DEF Store!RowAccepted, RowAccepted, Store!Valid, Valid
<1>4. Store!FileTable(a, b) = FileTable(a, b)
  BY DEF Store!FileTable, FileTable, Store!Imported, Imported
<1> QED
  BY <1>1, <1>2, <1>3, <1>4

-----------------------------------------------------------------------------
(* The store's view of the requests                                        *)

(* No request asks for nothing.                                            *)
LEMMA AskedNothing == Asked(NoReq) = NoReq
<1>1. NoReq.op = "None"
  BY DEF NoReq
<1> QED
  BY <1>1 DEF Asked

(* What the store sees of a request that changes.                          *)
LEMMA AskedAt ==
    ASSUME Inv, NEW p \in Procs, NEW r, req' = [req EXCEPT ![p] = r]
    PROVE  asked' = [asked EXCEPT ![p] = Asked(r)]
BY DEF Inv, TypeOK, asked

(* A request that is over is asked for no more.                            *)
LEMMA AskedOver ==
    ASSUME Inv, NEW p \in Procs, req' = [req EXCEPT ![p] = NoReq]
    PROVE  asked' = [asked EXCEPT ![p] = NoReq]
<1>1. asked' = [asked EXCEPT ![p] = Asked(NoReq)]
  BY AskedAt
<1> QED
  BY <1>1, AskedNothing

(* The initial states are initial states of the store.                     *)
LEMMA InitStore == Init => Store!Init
<1> SUFFICES ASSUME Init PROVE Store!Init
  OBVIOUS
<1>1. IsTable(rows)
  BY InitInv DEF Inv, TypeOK
<1>2. Store!IsTable(rows)
  BY <1>1 DEF IsTable, Store!IsTable, Row, Store!Row, Data, Store!Data,
              RowStatus, Store!RowStatus, Store!IsFiniteSet, IsFiniteSet
<1>3. asked = [p \in Procs |-> NoReq]
  BY AskedNothing DEF Init, asked
<1> QED
  BY <1>2, <1>3, SameConstants DEF Init, Store!Init

(* A request that ends without an effect is refused.                       *)
LEMMA FailRefuses ==
    ASSUME Inv, NEW p \in Procs, NEW code \in Codes \ {"ok"}, Fail(p, code)
    PROVE  Store!Next
<1>1. /\ req' = [req EXCEPT ![p] = NoReq] /\ reply' = [reply EXCEPT ![p] = code]
      /\ UNCHANGED <<rows, epoch, seen>>
  BY DEF Fail, Answer
<1>2. asked' = [asked EXCEPT ![p] = NoReq]
  BY <1>1, AskedOver
<1>3. Store!Refuse(p)
  BY <1>1, <1>2, SameConstants DEF Store!Refuse
<1> QED
  BY <1>3 DEF Store!Next

(* A request arrives: the store is asked, or refuses at once.              *)
LEMMA ArriveAsks ==
    ASSUME Inv, NEW p \in Procs, NEW r \in Request, NEW step, NEW code \in {"ok", "invalid"},
           r.op # "None", r.op = "Insert" => r.id = 0,
           Arrive(p, r, step, code)
    PROVE  Store!Next
<1>1. req[p] = NoReq /\ asked[p] = NoReq
  <2>1. req[p] = NoReq
    BY DEF Arrive, Inv, TypeOK, LockDiscipline, Sound, StepsOf, Request, DataOps
  <2> QED
    BY <2>1, AskedNothing DEF asked
<1>2. UNCHANGED <<rows, epoch, seen>>
  BY DEF Arrive
<1>3. CASE GateOpen(r.op) /\ code = "ok"
  <2>1. req' = [req EXCEPT ![p] = r] /\ reply' = [reply EXCEPT ![p] = "none"]
    BY <1>3 DEF Arrive
  <2>2. Asked(r) = r
    BY DEF Asked, Request
  <2>3. asked' = [asked EXCEPT ![p] = r] /\ asked'[p] = r
    <3>1. asked' = [asked EXCEPT ![p] = r]
      BY <2>1, <2>2, AskedAt
    <3>2. p \in DOMAIN asked
      BY DEF asked
    <3> QED
      BY <3>1, <3>2
  <2>4. r \in Store!Asks
    BY SameRequestTypes DEF Store!Asks
  <2>5. Store!Ask(p)
    BY <1>1, <1>2, <2>1, <2>3, <2>4, SameConstants DEF Store!Ask
  <2> QED
    BY <2>5 DEF Store!Next
<1>4. CASE ~(GateOpen(r.op) /\ code = "ok")
  <2>1. PICK answer \in Codes \ {"ok"} : reply' = [reply EXCEPT ![p] = answer]
    <3>1. reply' = [reply EXCEPT ![p] = IF GateOpen(r.op) THEN code ELSE "deprecated"]
      BY <1>4 DEF Arrive
    <3>2. (IF GateOpen(r.op) THEN code ELSE "deprecated") \in Codes \ {"ok"}
      BY <1>4 DEF Codes
    <3> QED
      BY <3>1, <3>2
  <2>2. req' = [req EXCEPT ![p] = NoReq]
    BY <1>1, <1>4 DEF Arrive, Inv, TypeOK
  <2>3. asked' = [asked EXCEPT ![p] = NoReq]
    BY <2>2, AskedOver
  <2>4. Store!Refuse(p)
    BY <1>2, <2>1, <2>3, SameConstants DEF Store!Refuse
  <2> QED
    BY <2>4 DEF Store!Next
<1> QED
  BY <1>3, <1>4

(* A read is one step of the store.                                        *)
LEMMA GetReads ==
    ASSUME Inv, NEW p \in Procs, Get(p)
    PROVE  Store!Next
<1>1. req[p] = NoReq /\ asked[p] = NoReq
  <2>1. req[p] = NoReq
    BY DEF Get, Inv, TypeOK, LockDiscipline, Sound, StepsOf, Request, DataOps
  <2> QED
    BY <2>1, AskedNothing DEF asked
<1>2. UNCHANGED <<rows, epoch, req>>
  BY DEF Get
<1>3. UNCHANGED asked /\ asked' = [asked EXCEPT ![p] = NoReq]
  BY <1>1, <1>2 DEF asked
<1>4. PICK i \in AskedIDs :
        IF i \in DOMAIN rows
        THEN /\ seen'  = [seen EXCEPT ![p] = Document(i, rows[i])]
             /\ reply' = [reply EXCEPT ![p] = "ok"]
        ELSE /\ reply' = [reply EXCEPT ![p] = "notFound"]
             /\ UNCHANGED seen
  BY DEF Get
<1>5. CASE i \in DOMAIN rows
  <2>1. Store!getData(p)
    BY <1>1, <1>2, <1>3, <1>4, <1>5, SameConstants DEF Store!getData, Document
  <2> QED
    BY <2>1 DEF Store!Next
<1>6. CASE i \notin DOMAIN rows
  <2>1. Store!Refuse(p)
    BY <1>2, <1>3, <1>4, <1>6, SameConstants DEF Store!Refuse, Codes
  <2> QED
    BY <2>1 DEF Store!Next
<1> QED
  BY <1>5, <1>6

(* The arrivals.                                                           *)
LEMMA AskRefines ==
    ASSUME Inv, NEW p \in Procs, Ask(p)
    PROVE  Store!Next
<1> USE DEF DataOps
<1>1. def \in Definition /\ NoReq \in Request /\ NoReq.id = 0
  BY NoReqType DEF Inv, TypeOK, NoReq
<1>2. CASE StartInsert(p)
  <2>1. PICK b \in Bodies :
          Arrive(p, [NoReq EXCEPT !.op = "Insert", !.body = b, !.def = def], "check",
                 IF Valid(def.schema, Merge(Blank, b)) THEN "ok" ELSE "invalid")
    BY <1>2 DEF StartInsert
  <2> DEFINE r == [NoReq EXCEPT !.op = "Insert", !.body = b, !.def = def]
  <2>2. r \in Request /\ r.op = "Insert" /\ r.id = 0
    BY <1>1, BodiesAssumption DEF Request
  <2> HIDE DEF r
  <2> QED
    BY <2>1, <2>2, ArriveAsks DEF r
<1>3. CASE StartUpdate(p)
  <2>1. PICK b \in Bodies, i \in AskedIDs, v \in AskedVersions :
          Arrive(p, [NoReq EXCEPT !.op = "Update", !.id = i, !.version = v,
                                  !.body = b, !.def = def], "lockRow",
                 IF v >= 1 THEN "ok" ELSE "invalid")
    BY <1>3 DEF StartUpdate
  <2> DEFINE r == [NoReq EXCEPT !.op = "Update", !.id = i, !.version = v,
                                !.body = b, !.def = def]
  <2>2. r \in Request /\ r.op = "Update"
    BY <1>1, BodiesAssumption, AskedAssumption DEF Request
  <2> HIDE DEF r
  <2> QED
    BY <2>1, <2>2, ArriveAsks DEF r
<1>4. CASE StartStatusChange(p)
  <2>1. PICK op \in {"SoftDelete", "Restore"}, i \in AskedIDs :
          Arrive(p, [NoReq EXCEPT !.op = op, !.id = i, !.def = def], "lockRow", "ok")
    BY <1>4 DEF StartStatusChange
  <2> DEFINE r == [NoReq EXCEPT !.op = op, !.id = i, !.def = def]
  <2>2. r \in Request /\ r.op = op
    BY <1>1, AskedAssumption DEF Request
  <2> HIDE DEF r
  <2> QED
    BY <2>1, <2>2, ArriveAsks DEF r
<1>5. CASE StartImport(p)
  <2>1. PICK f \in Files :
          Arrive(p, [NoReq EXCEPT !.op = "Import", !.file = f, !.def = def],
                 "lockTable", "ok")
    BY <1>5 DEF StartImport
  <2> DEFINE r == [NoReq EXCEPT !.op = "Import", !.file = f, !.def = def]
  <2>2. r \in Request /\ r.op = "Import"
    BY <1>1, FilesAssumption DEF Request
  <2> HIDE DEF r
  <2> QED
    BY <2>1, <2>2, ArriveAsks DEF r
<1> QED
  BY <1>2, <1>3, <1>4, <1>5, GetReads DEF Ask

-----------------------------------------------------------------------------
(* The instant of a request's effect                                       *)

(* A COMMIT answers the request, with success or with an error.            *)
LEMMA CommitSettles ==
    ASSUME Inv, NEW p \in Procs, Commit(p) \/ CommitApplied(p), NEW doc,
           Commit(p) => seen' = [seen EXCEPT ![p] = doc]
    PROVE  Store!Settle(p, doc)
<1>1. req' = [req EXCEPT ![p] = NoReq]
  BY DEF Commit, CommitApplied, Answer
<1>2. asked' = [asked EXCEPT ![p] = NoReq]
  BY <1>1, AskedOver
<1>3. \/ reply' = [reply EXCEPT ![p] = "ok"] /\ seen' = [seen EXCEPT ![p] = doc]
      \/ reply' = [reply EXCEPT ![p] = "internal"] /\ seen' = seen
  BY DEF Commit, CommitApplied, Answer
<1> QED
  BY <1>2, <1>3, SameConstants DEF Store!Settle

(* A COMMIT that leaves one row new or changed is a Put of that row.       *)
LEMMA CommitPuts ==
    ASSUME Inv, NEW p \in Procs, Commit(p) \/ CommitApplied(p), req[p].op # "Import",
           NEW row,
           View(p) = [i \in DOMAIN rows \cup {req[p].id} |->
                         IF i = req[p].id THEN row ELSE rows[i]]
    PROVE  Store!Put(p, req[p].id, row)
<1> DEFINE id  == req[p].id
           doc == [id |-> id, row |-> row, epoch |-> epoch]
<1>1. rows' = View(p) /\ epoch' = epoch
  BY Published
<1>2. Commit(p) => seen' = [seen EXCEPT ![p] = doc]
  BY DEF Commit, Document
<1>3. Store!Settle(p, doc)
  BY <1>2, CommitSettles
<1> QED
  BY <1>1, <1>3 DEF Store!Put

(* The id an INSERT drew becomes a row of its body.                        *)
LEMMA InsertRefines ==
    ASSUME Inv, NEW p \in Procs, Commit(p) \/ CommitApplied(p), req[p].op = "Insert"
    PROVE  Store!insertData(p)
<1> DEFINE r   == req[p]
           row == [version |-> 1, status |-> "active", data |-> Merge(Blank, r.body)]
<1>1. pc[p] = "commit" /\ rows' = View(p)
  BY Published
<1>2. /\ Valid(r.def.schema, Merge(Blank, r.body)) /\ r.id \notin DOMAIN rows
      /\ DOMAIN tx[p].writes = {r.id} /\ tx[p].writes[r.id] = row
  BY <1>1 DEF Inv, LockDiscipline, Sound, InsertSound, FirstRow
<1> HIDE DEF row
<1>3. View(p) = [i \in DOMAIN rows \cup {r.id} |-> IF i = r.id THEN row ELSE rows[i]]
  BY <1>2 DEF View, Deleted
<1>4. Store!Put(p, r.id, row)
  BY <1>3, CommitPuts
<1>5. r.id \in DOMAIN rows' \ DOMAIN rows
  BY <1>1, <1>2, <1>3
<1>6. /\ asked[p].op = "Insert" /\ asked[p].body = r.body /\ asked[p].def = r.def
  BY DEF asked, Asked, Inv, TypeOK, Request
<1>7. \A a, b : Store!Valid(a, b) = Valid(a, b) /\ Store!Merge(a, b) = Merge(a, b)
  BY SameFunctions
<1> QED
  BY <1>2, <1>4, <1>5, <1>6, <1>7, SameConstants DEF Store!insertData, row

(* What a row writer is known to hold at its COMMIT.                       *)
LEMMA RowCommitted ==
    ASSUME Inv, NEW p \in Procs, pc[p] = "commit",
           req[p].op \in {"Update", "SoftDelete", "Restore"}
    PROVE  LET r   == req[p]
               row == rows[r.id]
           IN  /\ r.id \in DOMAIN rows /\ row \in Row /\ asked[p] = r
               /\ r.op = "Update" => /\ row.status = "active" /\ row.version = r.version
                                     /\ Valid(r.def.schema, Merge(row.data, r.body))
                                     /\ ~Already(r, row)
               /\ View(p) = [i \in DOMAIN rows \cup {r.id} |->
                               IF i = r.id THEN IF Already(r, row) THEN row ELSE NextRow(r, row)
                                           ELSE rows[i]]
<1> DEFINE r   == req[p]
           row == rows[r.id]
<1>1. RowWriterSound(p)
  BY DEF Inv, LockDiscipline, Sound
<1>2. /\ r.id \in DOMAIN rows /\ tx[p].row = row
      /\ r.op = "Update" => /\ row.status = "active" /\ row.version = r.version
                            /\ Valid(r.def.schema, Merge(row.data, r.body))
      /\ \/ Unwritten(tx[p]) /\ Already(r, row)
         \/ /\ DOMAIN tx[p].writes = {r.id} /\ ~Already(r, row)
            /\ tx[p].writes[r.id] = NextRow(r, row)
  BY <1>1 DEF RowWriterSound
<1>3. row \in Row /\ asked[p] = r
  BY <1>2 DEF asked, Asked, Inv, TypeOK, IsTable
<1>4. r.op = "Update" => ~Already(r, row)
  BY DEF Already
<1>5. View(p) = [i \in DOMAIN rows \cup {r.id} |->
                    IF i = r.id THEN IF Already(r, row) THEN row ELSE NextRow(r, row)
                                ELSE rows[i]]
  BY <1>2 DEF View, Deleted, Unwritten
<1> QED
  BY <1>2, <1>3, <1>4, <1>5

(* An update is the store's compare-and-set.                               *)
LEMMA UpdateRefines ==
    ASSUME Inv, NEW p \in Procs, Commit(p) \/ CommitApplied(p), req[p].op = "Update"
    PROVE  Store!updateData(p)
<1> DEFINE r   == req[p]
           row == rows[r.id]
           new == [version |-> row.version + 1, status |-> "active",
                   data |-> Merge(row.data, r.body)]
<1>1. pc[p] = "commit"
  BY Published
<1>2. /\ r.id \in DOMAIN rows /\ row \in Row /\ asked[p] = r
      /\ row.status = "active" /\ row.version = r.version
      /\ Valid(r.def.schema, Merge(row.data, r.body))
      /\ View(p) = [i \in DOMAIN rows \cup {r.id} |->
                       IF i = r.id THEN NextRow(r, row) ELSE rows[i]]
  BY <1>1, RowCommitted
<1>3. NextRow(r, row) = new
  BY DEF NextRow
<1>4. Store!Put(p, r.id, new)
  BY <1>2, <1>3, CommitPuts
<1>5. \A a, b : Store!Valid(a, b) = Valid(a, b) /\ Store!Merge(a, b) = Merge(a, b)
  BY SameFunctions
<1> QED
  BY <1>2, <1>4, <1>5 DEF Store!updateData

(* A soft delete or a restore moves the row, or finds it there.            *)
LEMMA StatusRefines ==
    ASSUME Inv, NEW p \in Procs, Commit(p) \/ CommitApplied(p),
           req[p].op \in {"SoftDelete", "Restore"}
    PROVE  Store!deleteData(p) \/ Store!restoreData(p)
<1> DEFINE r      == req[p]
           row    == rows[r.id]
           status == IF r.op = "SoftDelete" THEN "deleted" ELSE "active"
           new    == IF row.status = status THEN row
                     ELSE [version |-> row.version + 1, status |-> status, data |-> row.data]
<1>1. pc[p] = "commit"
  BY Published
<1>2. /\ r.id \in DOMAIN rows /\ row \in Row /\ asked[p] = r
      /\ View(p) = [i \in DOMAIN rows \cup {r.id} |->
                       IF i = r.id THEN IF Already(r, row) THEN row ELSE NextRow(r, row)
                                   ELSE rows[i]]
  BY <1>1, RowCommitted
<1>3. (IF Already(r, row) THEN row ELSE NextRow(r, row)) = new
  <2>1. Already(r, row) <=> row.status = status
    BY DEF Already
  <2>2. NextRow(r, row) = [version |-> row.version + 1, status |-> status, data |-> row.data]
    BY DEF NextRow
  <2> QED
    BY <2>1, <2>2
<1>4. Store!Put(p, r.id, new)
  BY <1>2, <1>3, CommitPuts
<1>5. Store!MoveTo(p, status)
  BY <1>2, <1>4 DEF Store!MoveTo
<1> QED
  BY <1>2, <1>5 DEF Store!deleteData, Store!restoreData

(* An import replaces the table.                                           *)
LEMMA ImportRefines ==
    ASSUME Inv, NEW p \in Procs, Commit(p) \/ CommitApplied(p), req[p].op = "Import"
    PROVE  Store!importData(p)
<1> DEFINE r    == req[p]
           docs == r.file.docs
<1>1. pc[p] = "commit" /\ rows' = View(p) /\ epoch' = epoch + 1
  BY Published
<1>2. ImportSound(p) /\ asked[p] = r
  BY DEF Inv, LockDiscipline, Sound, asked, Asked
<1>3. /\ r.file.sound
      /\ \A k \in 1..Len(docs) : RowAccepted(r.def.schema, docs[k])
      /\ \A j, k \in 1..Len(docs) : docs[j].id = docs[k].id => j = k
  BY <1>1, <1>2 DEF ImportSound
<1>4. View(p) = FileTable(docs, Len(docs))
  BY <1>1, CommittedImport
<1>5. Store!Settle(p, seen[p])
  <2>1. Commit(p) => seen' = [seen EXCEPT ![p] = seen[p]]
    BY DEF Commit, Inv, TypeOK
  <2> QED
    BY <2>1, CommitSettles
<1>6. \A a, b : /\ Store!RowAccepted(a, b) = RowAccepted(a, b)
                /\ Store!FileTable(a, b) = FileTable(a, b)
  BY SameFunctions
<1> QED
  BY <1>1, <1>2, <1>3, <1>4, <1>5, <1>6 DEF Store!importData

-----------------------------------------------------------------------------
(* The refinement                                                          *)

(* A COMMIT is the effect of its request.                                  *)
LEMMA CommitRefines ==
    ASSUME Inv, NEW p \in Procs, Commit(p) \/ CommitApplied(p)
    PROVE  Store!Next
<1>1. req[p].op \in {"Insert", "Update", "SoftDelete", "Restore", "Import"}
  BY Published DEF Inv, TypeOK, Request, DataOps, LockDiscipline, Sound, StepsOf
<1> QED
  BY <1>1, InsertRefines, UpdateRefines, StatusRefines, ImportRefines DEF Store!Next

(* The statements in between are invisible to the store.                   *)
LEMMA StatementRefines ==
    ASSUME Inv, NEW p \in Procs, Serve(p) \/ ImportBatch(p) \/ Fault(p)
    PROVE  Store!Next \/ UNCHANGED Store!vars
<1>1. CASE Commit(p) \/ CommitApplied(p)
  BY <1>1, CommitRefines
<1>2. CASE \E code \in Codes \ {"ok"} : Fail(p, code)
  BY <1>2, FailRefuses
<1>3. CASE UNCHANGED <<rows, epoch, reply, seen, req>>
  BY <1>3 DEF Store!vars, asked
<1>4. CASE InsertDoc(p)
  <2>1. pc[p] = "insert" /\ req[p].op = "Insert" /\ req[p] \in Request
    BY <1>4 DEF InsertDoc, Inv, TypeOK, Request, DataOps, LockDiscipline, Sound, StepsOf
  <2>2. CASE seq \in DOMAIN rows
    <3>1. /\ req' = [req EXCEPT ![p] = NoReq] /\ reply' = [reply EXCEPT ![p] = "internal"]
          /\ UNCHANGED <<rows, epoch, seen>>
      BY <1>4, <2>2 DEF InsertDoc, Answer
    <3>2. asked' = [asked EXCEPT ![p] = NoReq]
      BY <3>1, AskedOver
    <3>3. Store!Refuse(p)
      BY <3>1, <3>2, SameConstants DEF Store!Refuse, Codes
    <3> QED
      BY <3>3 DEF Store!Next
  <2>3. CASE seq \notin DOMAIN rows
    <3> DEFINE r == [req[p] EXCEPT !.id = seq]
    <3>1. req' = [req EXCEPT ![p] = r] /\ UNCHANGED <<rows, epoch, reply, seen>>
      BY <1>4, <2>3 DEF InsertDoc, Advance, Inv, TypeOK
    <3>2. Asked(r) = Asked(req[p])
      BY <2>1 DEF Asked, Request
    <3> HIDE DEF r
    <3>3. asked' = [asked EXCEPT ![p] = Asked(req[p])]
      BY <3>1, <3>2, AskedAt
    <3>4. asked' = asked
      BY <3>3 DEF asked
    <3> QED
      BY <3>1, <3>4 DEF Store!vars
  <2> QED
    BY <2>2, <2>3
<1> QED
  <2>1. \A code \in {"notFound", "conflict", "invalid", "internal", "none"} :
           code \in Codes \ {"ok"}
    BY DEF Codes
  <2>2. \A step, t : Advance(p, step, t) => UNCHANGED <<rows, epoch, reply, seen>>
    BY DEF Advance
  <2>3. CASE RowLocked(p)
    BY <1>2, <1>3, <2>1, <2>2, <2>3 DEF RowLocked
  <2>4. CASE GetDocForUpdate(p) \/ RowGranted(p)
    BY <1>2, <1>3, <2>1, <2>2, <2>3, <2>4 DEF GetDocForUpdate, RowGranted
  <2>5. CASE CheckUniqueDup(p) \/ UpdateDoc(p)
    BY <1>2, <1>3, <2>1, <2>2, <2>5 DEF CheckUniqueDup, UpdateDoc
  <2>6. CASE LockForReplace(p) \/ DeleteAllDocs(p) \/ SetSequenceAfterImport(p)
    BY <1>3, <2>2, <2>6 DEF LockForReplace, DeleteAllDocs, SetSequenceAfterImport
  <2>7. CASE ImportBatch(p)
    BY <1>2, <1>3, <2>1, <2>2, <2>7 DEF ImportBatch
  <2>8. CASE LockTimeout(p) \/ DeadlockVictim(p) \/ CommitAborted(p) \/ Disconnect(p)
    BY <1>2, <2>1, <2>8 DEF LockTimeout, DeadlockVictim, CommitAborted, Disconnect
  <2> QED
    BY <1>1, <1>4, <2>4, <2>5, <2>6, <2>7, <2>8 DEF Serve, Fault

(* The data endpoints keep the promise of VersionedStore: whatever the     *)
(* statements of concurrent requests, lost connections and failing COMMITs *)
(* do, each request takes effect at one instant or not at all              *)
(* (data_service.go:80-482).                                               *)
THEOREM StoreImplemented == Spec => ImplementsStore
<1>1. Inv /\ [Next]_vars => [Store!Next]_(Store!vars)
  <2> SUFFICES ASSUME Inv, [Next]_vars PROVE Store!Next \/ UNCHANGED Store!vars
    OBVIOUS
  <2>1. CASE UNCHANGED vars \/ Evolve \/ Deprecate
    <3>1. UNCHANGED <<rows, epoch, reply, seen, req>>
      BY <2>1 DEF vars, Evolve, Deprecate
    <3> QED
      BY <3>1 DEF Store!vars, asked
  <2>2. ASSUME NEW p \in Procs, Ask(p) \/ Serve(p) \/ ImportBatch(p) \/ Fault(p)
        PROVE  Store!Next \/ UNCHANGED Store!vars
    BY <2>2, AskRefines, StatementRefines
  <2> QED
    BY <2>1, <2>2 DEF Next
<1> QED
  BY <1>1, InitStore, SpecInv, PTL DEF Spec, ImplementsStore, Store!Spec

=============================================================================
