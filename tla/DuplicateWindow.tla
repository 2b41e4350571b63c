-------------------------- MODULE DuplicateWindow --------------------------
(***************************************************************************)
(* The window that checkUniqueDup leaves open (data_service.go:357-363)    *)
(* and nothing beyond it: for every schema, table and interleaving, two    *)
(* active rows share a unique key only if the second writer's check came   *)
(* before the first writer's COMMIT.                                       *)
(***************************************************************************)
EXTENDS DataTableProofs

(* A restore that finds its row active is not checked and writes nothing.  *)
Unchecked(p) == req[p].op = "Restore" /\ tx[p].row.status = "active"

(* The active rows that have the key of what p is going to write.          *)
Holders(p) == DupIDs(req[p].def.schema, rows, WrittenData(p), req[p].id)

(* An insert has no id before its INSERT; past the check, whoever has the  *)
(* key came after it.                                                      *)
Window(p) ==
    /\ req[p].op = "Insert" /\ pc[p] \in {"check", "insert"} => req[p].id = 0
    /\ AfterCheck(p) /\ ~Unchecked(p) => Holders(p) \subseteq tx[p].missed

Windows == \A p \in Procs : Window(p)

-----------------------------------------------------------------------------
(* Steps that commit nothing                                               *)

LEMMA OthersWindows ==
    ASSUME Windows, NEW p \in Procs, Alone(p), UNCHANGED rows, Window(p)'
    PROVE  Windows'
<1>1. ASSUME NEW q \in Procs \ {p} PROVE Window(q)'
  <2>1. /\ pc'[q] = pc[q] /\ req'[q] = req[q] /\ tx'[q] = tx[q] /\ rows' = rows
        /\ Window(q)
    BY <1>1 DEF Alone, Windows
  <2> QED
    BY <2>1 DEF Window, AfterCheck, Unchecked, Holders, WrittenData
<1> QED
  BY <1>1 DEF Windows

LEMMA FailWindow ==
    ASSUME Inv, Windows, NEW p \in Procs, NEW code, Fail(p, code)
    PROVE  Windows'
<1>1. Alone(p) /\ UNCHANGED rows /\ pc'[p] = "idle"
  BY DEF Fail, Answer, Goto, Alone, Inv, TypeOK
<1>2. Window(p)'
  BY <1>1 DEF Window, AfterCheck
<1> QED
  BY <1>1, <1>2, OthersWindows

LEMMA AdvanceAlone ==
    ASSUME Inv, NEW p \in Procs, NEW step, NEW t, Advance(p, step, t), UNCHANGED req
    PROVE  /\ Alone(p) /\ UNCHANGED rows
           /\ pc'[p] = step /\ tx'[p] = t /\ req'[p] = req[p]
BY Advanced DEF Alone

(* On the way to the check, and in an import, there is nothing to say.     *)
LEMMA EarlyWindow ==
    ASSUME Inv, Windows, NEW p \in Procs, NEW step, NEW t, Advance(p, step, t),
           UNCHANGED req, req[p].op # "Insert",
           step \notin {"write", "commit"} \/ req[p].op \in {"Import", "SoftDelete"},
           step # "insert"
    PROVE  Windows'
<1>1. Alone(p) /\ UNCHANGED rows /\ pc'[p] = step /\ req'[p] = req[p]
  BY AdvanceAlone
<1>2. Window(p)'
  BY <1>1 DEF Window, AfterCheck
<1> QED
  BY <1>1, <1>2, OthersWindows

LEMMA ArriveWindow ==
    ASSUME Inv, Windows, NEW p \in Procs, NEW r, r.op = "Insert" => r.id = 0,
           NEW step \in {"check", "lockRow", "lockTable"}, NEW code, Arrive(p, r, step, code)
    PROVE  Windows'
<1>1. Alone(p) /\ UNCHANGED <<rows, tx>>
  BY DEF Arrive, Goto, Alone, Inv, TypeOK
<1>2. \/ UNCHANGED <<pc, req>>
      \/ pc'[p] = step /\ req'[p] = r
  BY DEF Arrive, Goto, Inv, TypeOK
<1>3. Window(p)'
  <2>1. CASE UNCHANGED <<pc, req>>
    BY <1>1, <2>1 DEF Windows, Window, AfterCheck, Unchecked, Holders, WrittenData
  <2>2. CASE pc'[p] = step /\ req'[p] = r
    BY <2>2 DEF Window, AfterCheck
  <2> QED
    BY <1>2, <2>1, <2>2
<1> QED
  BY <1>1, <1>3, OthersWindows

LEMMA AskWindow ==
    ASSUME Inv, Windows, NEW p \in Procs, Ask(p)
    PROVE  Windows'
<1>1. CASE Get(p)
  <2>1. Alone(p) /\ UNCHANGED <<rows, pc, req, tx>>
    BY <1>1 DEF Get, Alone
  <2>2. Window(p)'
    BY <2>1 DEF Windows, Window, AfterCheck, Unchecked, Holders, WrittenData
  <2> QED
    BY <2>1, <2>2, OthersWindows
<1>2. CASE StartInsert(p)
  <2>1. PICK b \in Bodies :
           Arrive(p, [NoReq EXCEPT !.op = "Insert", !.body = b, !.def = def], "check",
                  IF Valid(def.schema, Merge(Blank, b)) THEN "ok" ELSE "invalid")
    BY <1>2 DEF StartInsert
  <2>2. [NoReq EXCEPT !.op = "Insert", !.body = b, !.def = def].id = 0
    BY DEF NoReq
  <2> QED
    BY <2>1, <2>2, ArriveWindow
<1>3. CASE StartUpdate(p)
  <2>1. PICK b \in Bodies, i \in AskedIDs, v \in AskedVersions :
           Arrive(p, [NoReq EXCEPT !.op = "Update", !.id = i, !.version = v,
                                   !.body = b, !.def = def], "lockRow",
                  IF v >= 1 THEN "ok" ELSE "invalid")
    BY <1>3 DEF StartUpdate
  <2>2. [NoReq EXCEPT !.op = "Update", !.id = i, !.version = v,
                      !.body = b, !.def = def].op # "Insert"
    BY DEF NoReq
  <2> QED
    BY <2>1, <2>2, ArriveWindow
<1>4. CASE StartStatusChange(p)
  <2>1. PICK op \in {"SoftDelete", "Restore"}, i \in AskedIDs :
           Arrive(p, [NoReq EXCEPT !.op = op, !.id = i, !.def = def], "lockRow", "ok")
    BY <1>4 DEF StartStatusChange
  <2>2. [NoReq EXCEPT !.op = op, !.id = i, !.def = def].op # "Insert"
    BY DEF NoReq
  <2> QED
    BY <2>1, <2>2, ArriveWindow
<1>5. CASE StartImport(p)
  <2>1. PICK f \in Files :
           Arrive(p, [NoReq EXCEPT !.op = "Import", !.file = f, !.def = def], "lockTable", "ok")
    BY <1>5 DEF StartImport
  <2>2. [NoReq EXCEPT !.op = "Import", !.file = f, !.def = def].op # "Insert"
    BY DEF NoReq
  <2> QED
    BY <2>1, <2>2, ArriveWindow
<1> QED
  BY <1>1, <1>2, <1>3, <1>4, <1>5 DEF Ask

-----------------------------------------------------------------------------
(* The statements of the row writers                                       *)

(* The op of a request that stands at a statement.                         *)
LEMMA OpAt ==
    ASSUME Inv, NEW p \in Procs
    PROVE  /\ pc[p] \in {"lockRow", "waitRow"} => req[p].op \in {"Update", "SoftDelete", "Restore"}
           /\ pc[p] = "check" => req[p].op \in {"Insert", "Update", "Restore"}
           /\ pc[p] = "insert" => req[p].op = "Insert"
           /\ pc[p] = "write" => req[p].op \in {"Update", "SoftDelete", "Restore"}
           /\ pc[p] \in {"lockTable", "delete", "setval"} => req[p].op = "Import"
<1>1. req[p] \in Request /\ pc[p] \in StepsOf(req[p].op)
  BY DEF Inv, TypeOK, LockDiscipline, Sound
<1>2. req[p].op \in {"None", "Insert", "Update", "SoftDelete", "Restore", "Import"}
  BY <1>1 DEF Request, DataOps
<1> QED
  BY <1>1, <1>2 DEF StepsOf

(* A locked row leads to the check, or to a write that needs none.         *)
LEMMA RowLockedWindow ==
    ASSUME Inv, Windows, NEW p \in Procs, pc[p] \in {"lockRow", "waitRow"},
           req[p].id \in DOMAIN rows, RowLocked(p)
    PROVE  Windows'
<1> DEFINE row  == rows[req[p].id]
           step == NextStep(req[p].op, row.status)
           t    == [tx[p] EXCEPT !.locks = {req[p].id}, !.row = row]
<1>1. CASE \E code : Fail(p, code)
  BY <1>1, FailWindow
<1>2. CASE Advance(p, step, t) /\ UNCHANGED <<seq, req>>
  <2>1. req[p].op \in {"Update", "SoftDelete", "Restore"} /\ IsTx(tx[p])
        /\ row.status \in RowStatus
    BY OpAt DEF Inv, TypeOK, IsTable, Row
  <2>2. Alone(p) /\ UNCHANGED rows /\ pc'[p] = step /\ tx'[p] = t /\ req'[p] = req[p]
    BY <1>2, AdvanceAlone
  <2>3. tx'[p].row = row
    BY <2>1, <2>2 DEF IsTx
  <2>4. \/ step \in {"check", "write"} /\ (step = "write" => req[p].op = "SoftDelete")
        \/ step = "commit" /\ req[p].op = "SoftDelete"
        \/ step = "commit" /\ req[p].op = "Restore" /\ row.status = "active"
    BY <2>1 DEF NextStep, RowStatus
  <2>5. Window(p)'
    BY <2>1, <2>2, <2>3, <2>4 DEF Window, AfterCheck, Unchecked
  <2> QED
    BY <2>2, <2>5, OthersWindows
<1> QED
  BY <1>1, <1>2 DEF RowLocked

LEMMA ForUpdateWindow ==
    ASSUME Inv, Windows, NEW p \in Procs, GetDocForUpdate(p) \/ RowGranted(p)
    PROVE  Windows'
<1>1. CASE \E code : Fail(p, code)
  BY <1>1, FailWindow
<1>2. CASE pc[p] \in {"lockRow", "waitRow"} /\ req[p].id \in DOMAIN rows /\ RowLocked(p)
  BY <1>2, RowLockedWindow
<1>3. CASE /\ pc[p] = "lockRow" /\ UNCHANGED <<seq, req>>
           /\ Advance(p, "waitRow", [tx[p] EXCEPT !.snap = epoch])
  BY <1>3, OpAt, EarlyWindow
<1>4. pc[p] = "waitRow" /\ tx[p].snap = epoch => req[p].id \in DOMAIN rows
  <2>1. ASSUME pc[p] = "waitRow" PROVE RowWriterSound(p)
    BY <2>1, OpAt DEF Inv, LockDiscipline, Sound
  <2> QED
    BY <2>1 DEF RowWriterSound
<1> QED
  BY <1>1, <1>2, <1>3, <1>4 DEF GetDocForUpdate, RowGranted

(* The check itself opens the window: nobody has the key.                  *)
LEMMA CheckWindow ==
    ASSUME Inv, Windows, NEW p \in Procs, CheckUniqueDup(p)
    PROVE  Windows'
<1> DEFINE step == IF req[p].op = "Insert" THEN "insert" ELSE "write"
<1>1. CASE Fail(p, "conflict")
  BY <1>1, FailWindow
<1>2. CASE Holders(p) = {} /\ Advance(p, step, tx[p]) /\ UNCHANGED <<seq, req>>
  <2>1. /\ Alone(p) /\ UNCHANGED rows
        /\ pc'[p] = step /\ tx'[p] = tx[p] /\ req'[p] = req[p]
    BY <1>2, AdvanceAlone
  <2>2. Holders(p)' = Holders(p)
    BY <2>1 DEF Holders, WrittenData
  <2>3. pc[p] = "check" /\ Window(p)
    BY DEF CheckUniqueDup, Windows
  <2>4. Window(p)'
    BY <1>2, <2>1, <2>2, <2>3 DEF Window
  <2> QED
    BY <2>1, <2>4, OthersWindows
<1> QED
  BY <1>1, <1>2 DEF CheckUniqueDup, Holders

(* The INSERT draws an id nobody has, so the id excluded from the check    *)
(* does not matter.                                                        *)
LEMMA InsertWindow ==
    ASSUME Inv, Windows, NEW p \in Procs, InsertDoc(p)
    PROVE  Windows'
<1>1. pc[p] = "insert" /\ req[p].op = "Insert" /\ IsTx(tx[p]) /\ req[p] \in Request
  BY OpAt DEF InsertDoc, Inv, TypeOK
<1>2. CASE Answer(p, "internal") /\ tx' = [tx EXCEPT ![p] = NewTx] /\ rows' = rows
  <2>1. Alone(p) /\ pc'[p] = "idle"
    BY <1>2 DEF Answer, Goto, Alone, Inv, TypeOK
  <2>2. Window(p)'
    BY <2>1 DEF Window, AfterCheck
  <2> QED
    BY <1>2, <2>1, <2>2, OthersWindows
<1>3. CASE seq \notin DOMAIN rows
  <2>1. PICK t : /\ Advance(p, "commit", t) /\ t.row = tx[p].row /\ t.missed = tx[p].missed
                 /\ req' = [req EXCEPT ![p].id = seq]
    BY <1>1, <1>3 DEF InsertDoc, IsTx
  <2>2. /\ pc'[p] = "commit" /\ tx'[p] = t /\ UNCHANGED rows
        /\ \A q \in Procs \ {p} : pc'[q] = pc[q] /\ tx'[q] = tx[q]
    BY <2>1, Advanced
  <2>3. req'[p] = [req[p] EXCEPT !.id = seq] /\ \A q \in Procs \ {p} : req'[q] = req[q]
    BY <2>1 DEF Inv, TypeOK
  <2>4. /\ req'[p].id = seq /\ req'[p].op = "Insert"
        /\ req'[p].def = req[p].def /\ req'[p].body = req[p].body
    BY <1>1, <2>3 DEF Request
  <2>5. WrittenData(p)' = WrittenData(p)
    BY <1>1, <2>4 DEF WrittenData
  <2>6. req[p].id = 0 /\ Holders(p) \subseteq tx[p].missed
    BY <1>1 DEF Windows, Window, AfterCheck, Unchecked
  <2>7. 0 \notin DOMAIN rows
    BY DEF Inv, TypeOK, IsTable
  <2>8. Holders(p)' \subseteq Holders(p)
    BY <2>2, <2>4, <2>5, <2>6, <2>7 DEF Holders, DupIDs
  <2>9. Window(p)'
    BY <2>1, <2>2, <2>6, <2>8 DEF Window
  <2>10. Alone(p)
    BY <2>2, <2>3 DEF Alone
  <2> QED
    BY <2>2, <2>9, <2>10, OthersWindows
<1> QED
  BY <1>2, <1>3 DEF InsertDoc

LEMMA UpdateWindow ==
    ASSUME Inv, Windows, NEW p \in Procs, UpdateDoc(p)
    PROVE  Windows'
<1>1. pc[p] = "write" /\ req[p].op \in {"Update", "SoftDelete", "Restore"} /\ IsTx(tx[p])
  BY OpAt DEF UpdateDoc, Inv, TypeOK
<1>2. CASE Fail(p, "conflict")
  BY <1>2, FailWindow
<1>3. CASE ~Fail(p, "conflict")
  <2>1. PICK t : /\ Advance(p, "commit", t) /\ t.row = tx[p].row /\ t.missed = tx[p].missed
                 /\ UNCHANGED <<seq, req>>
    BY <1>1, <1>3 DEF UpdateDoc, IsTx
  <2>2. /\ Alone(p) /\ UNCHANGED rows
        /\ pc'[p] = "commit" /\ tx'[p] = t /\ req'[p] = req[p]
    BY <2>1, AdvanceAlone
  <2>3. Holders(p)' = Holders(p)
    BY <2>1, <2>2 DEF Holders, WrittenData
  <2>4. Window(p)'
    BY <1>1, <2>1, <2>2, <2>3 DEF Windows, Window, AfterCheck, Unchecked
  <2> QED
    BY <2>2, <2>4, OthersWindows
<1> QED
  BY <1>2, <1>3

-----------------------------------------------------------------------------
(* A COMMIT                                                                *)

(* Whatever becomes visible behind q's check is noted as missed.           *)
LEMMA PublishWindow ==
    ASSUME Inv, Windows, NEW p \in Procs, Publish(p), NEW code, Answer(p, code), pc[p] = "commit"
    PROVE  Windows'
<1>1. pc'[p] = "idle" /\ \A q \in Procs \ {p} : pc'[q] = pc[q] /\ req'[q] = req[q]
  BY DEF Answer, Goto, Inv, TypeOK
<1>2. Window(p)'
  BY <1>1 DEF Window, AfterCheck
<1>3. ASSUME NEW q \in Procs \ {p} PROVE Window(q)'
  <2>1. Window(q) /\ IsTx(tx[q])
    BY DEF Windows, Inv, TypeOK
  <2>2. /\ tx'[q].row = tx[q].row
        /\ AfterCheck(q) => tx'[q].missed = tx[q].missed \cup DOMAIN tx[p].writes
    <3>1. tx'[q] = IF AfterCheck(q)
                   THEN [tx[q] EXCEPT !.missed = @ \cup DOMAIN tx[p].writes] ELSE tx[q]
      BY DEF Publish
    <3> QED
      BY <2>1, <3>1 DEF IsTx
  <2>3. /\ AfterCheck(q)' <=> AfterCheck(q)
        /\ Unchecked(q)' <=> Unchecked(q)
        /\ WrittenData(q)' = WrittenData(q)
    BY <1>1, <2>2 DEF AfterCheck, Unchecked, WrittenData
  <2>4. \A i \in DOMAIN rows' \ DOMAIN tx[p].writes : i \in DOMAIN rows /\ rows'[i] = rows[i]
    BY DEF Publish, View
  <2>5. Holders(q)' \subseteq Holders(q) \cup DOMAIN tx[p].writes
    BY <1>1, <2>3, <2>4 DEF Holders, DupIDs
  <2> QED
    BY <1>1, <2>1, <2>2, <2>3, <2>5 DEF Window
<1> QED
  BY <1>2, <1>3 DEF Windows

LEMMA StepWindow == Inv /\ Windows /\ [Next]_vars => Windows'
<1> SUFFICES ASSUME Inv, Windows, [Next]_vars PROVE Windows'
  OBVIOUS
<1>1. CASE UNCHANGED <<rows, pc, req, tx>>
  BY <1>1 DEF Windows, Window, AfterCheck, Unchecked, Holders, WrittenData
<1>2. ASSUME NEW p \in Procs, Serve(p) \/ ImportBatch(p) \/ Fault(p) PROVE Windows'
  <2>1. CASE \E code : Fail(p, code)
    BY <2>1, FailWindow
  <2>2. CASE GetDocForUpdate(p) \/ RowGranted(p)
    BY <2>2, ForUpdateWindow
  <2>3. CASE CheckUniqueDup(p) \/ InsertDoc(p) \/ UpdateDoc(p)
    BY <2>3, CheckWindow, InsertWindow, UpdateWindow
  <2>4. CASE \E step \in {"delete", "setval", "commit"}, t \in {tx'[p]} :
                Advance(p, step, t) /\ UNCHANGED req /\ req[p].op = "Import"
    BY <2>4, EarlyWindow
  <2>5. CASE Commit(p) \/ CommitApplied(p)
    BY <2>5, PublishWindow DEF Commit, CommitApplied
  <2>6. ASSUME NEW step, NEW t, Advance(p, step, t) PROVE Advance(p, step, tx'[p])
    BY <2>6 DEF Advance, Inv, TypeOK
  <2>7. LockForReplace(p) \/ DeleteAllDocs(p) \/ SetSequenceAfterImport(p)
        => \E step \in {"delete", "setval", "commit"}, t \in {tx'[p]} :
              Advance(p, step, t) /\ UNCHANGED req /\ req[p].op = "Import"
    BY <2>6, OpAt DEF LockForReplace, DeleteAllDocs, SetSequenceAfterImport
  <2>8. ImportBatch(p)
        => \/ \E code : Fail(p, code)
           \/ \E step \in {"delete", "setval", "commit"}, t \in {tx'[p]} :
                 Advance(p, step, t) /\ UNCHANGED req /\ req[p].op = "Import"
    BY <2>6, OpAt DEF ImportBatch
  <2>9. LockTimeout(p) \/ DeadlockVictim(p) \/ CommitAborted(p) \/ Disconnect(p)
        => \E code : Fail(p, code)
    BY DEF LockTimeout, DeadlockVictim, CommitAborted, Disconnect
  <2> QED
    BY <1>2, <2>1, <2>2, <2>3, <2>4, <2>5, <2>7, <2>8, <2>9 DEF Serve, Fault
<1>3. ASSUME NEW p \in Procs, Ask(p) PROVE Windows'
  BY <1>3, AskWindow
<1>4. UNCHANGED vars \/ Evolve \/ Deprecate => UNCHANGED <<rows, pc, req, tx>>
  BY DEF vars, Evolve, Deprecate
<1> QED
  BY <1>1, <1>2, <1>3, <1>4 DEF Next

-----------------------------------------------------------------------------
LEMMA MergeNothing ==
    ASSUME NEW data \in Data
    PROVE  Merge(data, EmptyBody) = data
BY DEF Data, Merge, EmptyBody

(* A COMMIT that changes the table writes what was checked, to its row.    *)
LEMMA WritesWhatWasChecked ==
    ASSUME Inv, Admitted, NEW p \in Procs, pc[p] = "commit", View(p) # rows,
           req[p].op \in {"Insert", "Update", "Restore"}
    PROVE  /\ ~Unchecked(p)
           /\ DOMAIN View(p) = DOMAIN rows \cup {req[p].id}
           /\ \A i \in DOMAIN rows \ {req[p].id} : View(p)[i] = rows[i]
           /\ View(p)[req[p].id].data = WrittenData(p)
<1> DEFINE r == req[p]
           w == tx[p].writes
<1>1. /\ DOMAIN View(p) = DOMAIN rows \cup DOMAIN w
      /\ \A i \in DOMAIN View(p) : View(p)[i] = IF i \in DOMAIN w THEN w[i] ELSE rows[i]
  BY DEF View, Deleted
<1>2. CASE r.op = "Insert"
  <2>1. InsertSound(p)
    BY <1>2 DEF Inv, LockDiscipline, Sound
  <2>2. DOMAIN w = {r.id} /\ w[r.id].data = Merge(Blank, r.body)
    BY <2>1 DEF InsertSound, FirstRow
  <2> QED
    BY <1>1, <1>2, <2>2 DEF Unchecked, WrittenData
<1>3. CASE r.op \in {"Update", "Restore"}
  <2>1. RowWriterSound(p)
    BY <1>3 DEF Inv, LockDiscipline, Sound
  <2>2. DOMAIN w # {}
    <3>1. ASSUME DOMAIN w = {} PROVE View(p) = [i \in DOMAIN rows |-> rows[i]]
      BY <3>1, <1>3 DEF View, Deleted
    <3> QED
      BY <3>1 DEF Inv, TypeOK, IsTable
  <2>3. r.id \in DOMAIN rows /\ tx[p].row = rows[r.id]
    BY <2>1 DEF RowWriterSound
  <2>4. ~Already(r, tx[p].row) /\ DOMAIN w = {r.id} /\ w[r.id] = NextRow(r, tx[p].row)
    BY <2>1, <2>2, Zenon DEF RowWriterSound, Unwritten
  <2>5. tx[p].row.data \in Data
    BY <2>3 DEF Inv, TypeOK, IsTable, Row
  <2>6. r.op = "Restore" => WrittenData(p) = tx[p].row.data
    BY <2>5, MergeNothing DEF Admitted, WrittenData
  <2>7. w[r.id].data = WrittenData(p)
    BY <1>3, <2>4, <2>6 DEF NextRow, WrittenData
  <2>8. ~Unchecked(p)
    BY <2>4 DEF Already, Unchecked
  <2> QED
    BY <1>1, <2>4, <2>7, <2>8
<1> QED
  BY <1>2, <1>3

(* Two active rows share a unique key only through the registered window:  *)
(* whoever has the key of a committed write came after its check           *)
(* (data_service.go:357-363).                                              *)
THEOREM DuplicatesOnlyInWindow == Spec => DuplicateOnlyInWindow
<1>1. Init => Admitted /\ Windows
  BY DEF Init, Admitted, Windows, Window, AfterCheck, NoReq
<1>2. Inv /\ Admitted /\ Windows /\ [Next]_vars
         => [\A p \in Procs :
                LET r == req[p] IN
                Commits(p) /\ r.op \in {"Insert", "Update", "Restore"} =>
                   DupIDs(r.def.schema, rows', rows'[r.id].data, r.id) \subseteq tx[p].missed]_vars
  <2> SUFFICES ASSUME Inv, Admitted, Windows, [Next]_vars, NEW p \in Procs, Commits(p),
                      req[p].op \in {"Insert", "Update", "Restore"}
               PROVE  DupIDs(req[p].def.schema, rows', rows'[req[p].id].data, req[p].id)
                         \subseteq tx[p].missed
    OBVIOUS
  <2>1. pc[p] = "commit" /\ pc'[p] = "idle" /\ rows' # rows
    BY DEF Commits
  <2>2. PICK q \in Procs : Commit(q) \/ CommitApplied(q)
    BY <2>1, TableChanges
  <2>3. rows' = View(q) /\ \A o \in Procs \ {q} : pc'[o] = pc[o]
    BY <2>2, Published
  <2>4. rows' = View(p)
    BY <2>1, <2>3
  <2>5. /\ ~Unchecked(p) /\ DOMAIN rows' = DOMAIN rows \cup {req[p].id}
        /\ \A i \in DOMAIN rows \ {req[p].id} : rows'[i] = rows[i]
        /\ rows'[req[p].id].data = WrittenData(p)
    BY <2>1, <2>4, WritesWhatWasChecked
  <2>6. Holders(p) \subseteq tx[p].missed
    BY <2>1, <2>5 DEF Windows, Window, AfterCheck
  <2>7. DupIDs(req[p].def.schema, rows', rows'[req[p].id].data, req[p].id) = Holders(p)
    BY <2>5 DEF Holders, DupIDs
  <2> QED
    BY <2>6, <2>7
<1> QED
  BY <1>1, <1>2, AdmittedStep, StepWindow, SpecInv, PTL DEF Spec, DuplicateOnlyInWindow

=============================================================================
