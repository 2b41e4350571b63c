----------------------------- MODULE DataTable -----------------------------
(***************************************************************************)
(* One registered type's data table and the requests that run against it   *)
(* (internal/service/data_service.go over internal/repository/data.go and  *)
(* transfer.go).  The service keeps no state of its own: every request is  *)
(* a short transaction on PostgreSQL, so the processes here are requests   *)
(* in flight (of any replica) and the shared state is the table, its id    *)
(* sequence and its locks.  A request advances one SQL statement at a      *)
(* time; what it writes is private to its transaction until Commit.        *)
(*                                                                         *)
(* PostgreSQL (external) is modelled as the code uses it: READ COMMITTED,  *)
(* row locks, the ROW EXCLUSIVE / SHARE ROW EXCLUSIVE table locks,         *)
(* lock_timeout, the deadlock detector, and a sequence that no rollback    *)
(* undoes.                                                                 *)
(***************************************************************************)
EXTENDS Documents

CONSTANTS
    Procs,        \* clients, each with at most one request in flight
    Schemas,      \* schemas an evolution may install
    Bodies,       \* "data" objects clients send: functions on a set of fields
    AskedIDs,     \* ids clients name
    AskedVersions,\* versions clients send with an update
    Files,        \* import files clients send
    BatchRows,    \* import_batch_rows
    InitialRows,  \* the table that earlier requests left
    Ops,          \* kinds of request in this instance
    Faults,       \* "lost": connections break; "commitFailed": COMMIT errors
    MaxRequests   \* bound on the number of requests started

VARIABLES
    def,    \* metadata row of the type: schema and status
    rows,   \* committed rows, a function on the ids present
    seq,    \* the next value nextval returns
    epoch,  \* ghost: number of committed imports
    pc,     \* statement each request is about to run
    req,    \* request each client has in flight
    tx,     \* each request's transaction
    reply,  \* outcome of each client's last request
    seen,   \* last document each client was sent
    served  \* number of requests started

vars == <<def, rows, seq, epoch, pc, req, tx, reply, seen, served>>

-----------------------------------------------------------------------------
(* Types                                                                   *)

Steps      == {"idle", "check", "insert", "lockRow", "waitRow", "write",
               "lockTable", "delete", "setval", "commit"}
LockModes  == {"none", "rowExclusive", "shareRowExclusive"}

ASSUME SchemasAssumption == Schemas \subseteq Schema /\ Schemas # {}
ASSUME BodiesAssumption  == Bodies \subseteq Body
ASSUME AskedAssumption   == AskedIDs \subseteq Nat /\ AskedVersions \subseteq Nat
ASSUME FilesAssumption   == Files \subseteq File
ASSUME BoundsAssumption  == BatchRows \in Nat \ {0} /\ MaxRequests \in Nat
ASSUME InitialAssumption == IsTable(InitialRows)

-----------------------------------------------------------------------------
(* Transactions, locks and visibility (PostgreSQL)                         *)

NewTx == [held |-> "none", locks |-> {}, row |-> NoRow, snap |-> 0,
          writes |-> [i \in {} |-> NoRow], loaded |-> 0, missed |-> {}]

Deleted(p) == IF req[p].op = "Import" THEN tx[p].locks ELSE {}

(* The table as p's own transaction sees it, and as its COMMIT leaves it.  *)
View(p) ==
    LET w == tx[p].writes
    IN  [i \in (DOMAIN rows \ Deleted(p)) \cup DOMAIN w |->
            IF i \in DOMAIN w THEN w[i] ELSE rows[i]]

Conflicts(mode, held) == held # "none" /\ "shareRowExclusive" \in {mode, held}

TableFree(p, mode) == \A q \in Procs \ {p} : ~Conflicts(mode, tx[q].held)

RowFree(p, id) == \A q \in Procs \ {p} : id \notin tx[q].locks

(* Rows DELETE has still to lock: nothing can commit a change to the table *)
(* while the import holds its table lock, so the statement's snapshot is   *)
(* the committed table.                                                    *)
Remaining(p) == DOMAIN rows \ tx[p].locks

(* Mutant: the import takes the lock an ordinary write takes.              *)
LockTableModeWeak == "rowExclusive"

LockTableMode == "shareRowExclusive"

Blocked(p) ==
    \/ pc[p] = "insert"    /\ ~TableFree(p, "rowExclusive")
    \/ pc[p] = "write"     /\ ~TableFree(p, "rowExclusive")
    \/ pc[p] = "lockTable" /\ ~TableFree(p, LockTableMode)
    \/ pc[p] = "waitRow"   /\ ~RowFree(p, req[p].id)
    \/ pc[p] = "delete"    /\ Remaining(p) # {}
                           /\ \A i \in Remaining(p) : ~RowFree(p, i)

WaitsFor(p, q) ==
    \/ pc[p] = "write"  /\ Conflicts("rowExclusive", tx[q].held)
    \/ pc[p] = "delete" /\ Blocked(p) /\ Remaining(p) \cap tx[q].locks # {}

-----------------------------------------------------------------------------
(* Request bookkeeping                                                     *)

Goto(p, step) == pc' = [pc EXCEPT ![p] = step]

Answer(p, code) ==
    /\ Goto(p, "idle")
    /\ req'   = [req EXCEPT ![p] = NoReq]
    /\ reply' = [reply EXCEPT ![p] = code]

(* The deferred Rollback of every handler: locks and writes are dropped.   *)
Fail(p, code) ==
    /\ Answer(p, code)
    /\ tx' = [tx EXCEPT ![p] = NewTx]
    /\ UNCHANGED <<def, rows, seq, epoch, seen, served>>

Advance(p, step, t) ==
    /\ Goto(p, step)
    /\ tx' = [tx EXCEPT ![p] = t]
    /\ UNCHANGED <<def, rows, epoch, reply, seen, served>>

(* Mutant: Update passes forWrite = false.                                 *)
GateOpenToUpdates(op) == op \in {"Insert", "Import"} => def.status = "active"

(* The gate reads the metadata row once; the request keeps the copy.       *)
GateOpen(op) == op \in {"Insert", "Update", "Import"} => def.status = "active"

Arrive(p, r, step, code) ==
    /\ pc[p] = "idle" /\ r.op \in Ops /\ served < MaxRequests
    /\ served' = served + 1
    /\ IF GateOpen(r.op) /\ code = "ok"
       THEN /\ Goto(p, step)
            /\ req'   = [req EXCEPT ![p] = r]
            /\ reply' = [reply EXCEPT ![p] = "none"]
       ELSE /\ reply' = [reply EXCEPT ![p] =
                            IF GateOpen(r.op) THEN code ELSE "deprecated"]
            /\ UNCHANGED <<pc, req>>
    /\ UNCHANGED <<def, rows, seq, epoch, tx, seen>>

-----------------------------------------------------------------------------
(* Arrival of a request, up to the start of its transaction                *)

StartInsert(p) == \E b \in Bodies :
    Arrive(p, [NoReq EXCEPT !.op = "Insert", !.body = b, !.def = def], "check",
           IF Valid(def.schema, Merge(Blank, b)) THEN "ok" ELSE "invalid")

StartUpdate(p) == \E b \in Bodies, i \in AskedIDs, v \in AskedVersions :
    Arrive(p, [NoReq EXCEPT !.op = "Update", !.id = i, !.version = v,
                            !.body = b, !.def = def], "lockRow",
           IF v >= 1 THEN "ok" ELSE "invalid")

StartStatusChange(p) == \E op \in {"SoftDelete", "Restore"}, i \in AskedIDs :
    Arrive(p, [NoReq EXCEPT !.op = op, !.id = i, !.def = def], "lockRow", "ok")

StartImport(p) == \E f \in Files :
    Arrive(p, [NoReq EXCEPT !.op = "Import", !.file = f, !.def = def],
           "lockTable", "ok")


(* A single read outside any transaction; soft-deleted rows are visible.   *)
Document(id, row) == [id |-> id, row |-> row, epoch |-> epoch]

Get(p) == \E i \in AskedIDs :
    /\ pc[p] = "idle"
    /\ IF i \in DOMAIN rows
       THEN /\ seen'  = [seen EXCEPT ![p] = Document(i, rows[i])]
            /\ reply' = [reply EXCEPT ![p] = "ok"]
       ELSE /\ reply' = [reply EXCEPT ![p] = "notFound"]
            /\ UNCHANGED seen
    /\ UNCHANGED <<def, rows, seq, epoch, pc, req, tx, served>>

-----------------------------------------------------------------------------
(* SELECT ... FOR UPDATE and what the handler decides on the locked row    *)

(* Mutant: the row's status is not looked at.                              *)
RefusedVersionOnly(r, row) == r.op = "Update" /\ row.version # r.version

Refused(r, row) == r.op = "Update" /\ (row.status # "active" \/ row.version # r.version)

(* Mutant: Restore goes straight to its UPDATE.                            *)
NextStepUnchecked(op, status) ==
    CASE op = "Update"                            -> "check"
      [] op = "SoftDelete" /\ status = "active"   -> "write"
      [] op = "Restore"    /\ status = "deleted"  -> "write"
      [] OTHER                                    -> "commit"

NextStep(op, status) ==
    CASE op = "Update"                            -> "check"
      [] op = "SoftDelete" /\ status = "active"   -> "write"
      [] op = "Restore"    /\ status = "deleted"  -> "check"
      [] OTHER                                    -> "commit"

RowLocked(p) ==
    LET r   == req[p]
        row == rows[r.id]
    IN  IF Refused(r, row) THEN Fail(p, "conflict")
        ELSE IF r.op = "Update" /\ ~Valid(r.def.schema, Merge(row.data, r.body))
        THEN Fail(p, "invalid")
        ELSE /\ Advance(p, NextStep(r.op, row.status),
                        [tx[p] EXCEPT !.locks = {r.id}, !.row = row])
             /\ UNCHANGED <<seq, req>>

(* Mutant: the read forgets FOR UPDATE, so it never waits.                 *)
GetDocWithoutLock(p) ==
    /\ pc[p] = "lockRow"
    /\ IF req[p].id \notin DOMAIN rows THEN Fail(p, "notFound") ELSE RowLocked(p)

GetDocForUpdate(p) ==
    /\ pc[p] = "lockRow"
    /\ IF req[p].id \notin DOMAIN rows THEN Fail(p, "notFound")
       ELSE IF RowFree(p, req[p].id) THEN RowLocked(p)
       ELSE Advance(p, "waitRow", [tx[p] EXCEPT !.snap = epoch]) /\ UNCHANGED <<seq, req>>

(* The lock is granted after a wait.  READ COMMITTED follows the row to its *)
(* newest version, but a row an import deleted meanwhile is simply gone:    *)
(* the import's own row of that id is not in the statement's snapshot.      *)
RowGranted(p) ==
    /\ pc[p] = "waitRow" /\ RowFree(p, req[p].id)
    /\ IF tx[p].snap # epoch THEN Fail(p, "notFound") ELSE RowLocked(p)

-----------------------------------------------------------------------------
(* Duplicate check, INSERT and UPDATE                                      *)

(* What the request will write: merged for an update, the row's own for a  *)
(* restore.                                                                *)
WrittenData(p) == Merge(IF req[p].op = "Insert" THEN Blank ELSE tx[p].row.data, req[p].body)

CheckUniqueDup(p) ==
    /\ pc[p] = "check"
    /\ IF DupIDs(req[p].def.schema, rows, WrittenData(p), req[p].id) # {}
       THEN Fail(p, "conflict")
       ELSE /\ Advance(p, IF req[p].op = "Insert" THEN "insert" ELSE "write", tx[p])
            /\ UNCHANGED <<seq, req>>

(* Mutant: the UPDATE leaves the version alone.                            *)
KeptVersion(version) == version

NewVersion(version) == version + 1

InsertDoc(p) ==
    /\ pc[p] = "insert" /\ TableFree(p, "rowExclusive")
    /\ IF seq \in DOMAIN rows
       THEN /\ Answer(p, "internal")
            /\ tx' = [tx EXCEPT ![p] = NewTx]
            /\ UNCHANGED <<def, rows, epoch, seen, served>>
       ELSE /\ Advance(p, "commit",
                  [tx[p] EXCEPT !.held = "rowExclusive",
                     !.writes = [i \in {seq} |-> [version |-> 1, status |-> "active",
                                                  data |-> WrittenData(p)]]])
            /\ req' = [req EXCEPT ![p].id = seq]
    /\ seq' = seq + 1

(* UpdateDocData and UpdateDocStatus: the WHERE clause repeats the version *)
(* (or the status) the locked read returned.                               *)
UpdateDoc(p) ==
    LET r   == req[p]
        row == rows[r.id]
        hit == IF r.op = "Update" THEN row.version = r.version
                                  ELSE row.status = tx[p].row.status
        new == [version |-> NewVersion(row.version),
                status  |-> IF r.op = "SoftDelete" THEN "deleted" ELSE "active",
                data    |-> IF r.op = "Update" THEN WrittenData(p) ELSE row.data]
    IN  /\ pc[p] = "write" /\ TableFree(p, "rowExclusive")
        /\ IF r.op = "Update" /\ ~hit THEN Fail(p, "conflict")
           ELSE /\ Advance(p, "commit",
                      [tx[p] EXCEPT !.held = "rowExclusive",
                         !.writes = IF hit THEN [i \in {r.id} |-> new] ELSE @])
                /\ UNCHANGED <<seq, req>>

-----------------------------------------------------------------------------
(* Full-replacement import                                                 *)

LockForReplace(p) ==
    /\ pc[p] = "lockTable" /\ TableFree(p, LockTableMode)
    /\ Advance(p, "delete", [tx[p] EXCEPT !.held = LockTableMode])
    /\ UNCHANGED <<seq, req>>

(* DELETE locks the rows one by one, waiting for those others hold.        *)
DeleteAllDocs(p) == \E i \in Remaining(p) :
    /\ pc[p] = "delete" /\ RowFree(p, i)
    /\ Advance(p, "delete", [tx[p] EXCEPT !.locks = @ \cup {i}])
    /\ UNCHANGED <<seq, req>>

MinOf(a, b) == IF a <= b THEN a ELSE b

ImportBatch(p) ==
    LET docs  == req[p].file.docs
        from  == tx[p].loaded
        upto  == MinOf(from + BatchRows, Len(docs))
        fresh == DOMAIN rows \ Deleted(p)
        batch == (from + 1)..upto
        dup   == \E k \in batch : docs[k].id \in fresh
                    \/ \E j \in 1..(k - 1) : docs[j].id = docs[k].id
    IN  /\ pc[p] = "delete" /\ Remaining(p) = {}
        /\ IF \/ \E k \in batch : ~RowAccepted(req[p].def.schema, docs[k])
              \/ dup
              \/ upto = Len(docs) /\ ~req[p].file.sound
           THEN Fail(p, "invalid")
           ELSE /\ Advance(p, IF upto = Len(docs) THEN "setval" ELSE "delete",
                       [tx[p] EXCEPT !.loaded = upto,
                                     !.writes = FileTable(docs, upto)])
                /\ UNCHANGED <<seq, req>>

(* Mutant: setval to max(id), without the + 1.                             *)
LastID(table) == IF DOMAIN table = {} THEN 0
                 ELSE CHOOSE m \in DOMAIN table : \A i \in DOMAIN table : i <= m

NextID(table) == IF DOMAIN table = {} THEN 1
                 ELSE 1 + CHOOSE m \in DOMAIN table : \A i \in DOMAIN table : i <= m

(* setval takes effect at once, for every session, whatever happens next.  *)
SetSequenceAfterImport(p) ==
    /\ pc[p] = "setval"
    /\ seq' = NextID(View(p))
    /\ Advance(p, "commit", tx[p])
    /\ UNCHANGED req

-----------------------------------------------------------------------------
(* COMMIT                                                                  *)

AfterCheck(q) ==
    pc[q] \in {"insert", "write", "commit"} /\ req[q].op \in {"Insert", "Update", "Restore"}

(* p's writes become visible.  "missed" notes, for the requests past their *)
(* duplicate check, the rows that changed behind it.                       *)
Publish(p) ==
    /\ rows'  = View(p)
    /\ epoch' = IF req[p].op = "Import" THEN epoch + 1 ELSE epoch
    /\ tx'    = [q \in Procs |->
                    IF q = p THEN NewTx
                    ELSE IF AfterCheck(q)
                    THEN [tx[q] EXCEPT !.missed = @ \cup DOMAIN tx[p].writes]
                    ELSE tx[q]]

Commit(p) ==
    /\ pc[p] = "commit"
    /\ Publish(p)
    /\ Answer(p, "ok")
    /\ seen' = IF req[p].op = "Import" THEN seen
               ELSE [seen EXCEPT ![p] = Document(req[p].id, View(p)[req[p].id])]
    /\ UNCHANGED <<def, seq, served>>

(* COMMIT returns an error: the client gets 500 and the database may have  *)
(* committed or not.                                                       *)
CommitApplied(p) ==
    /\ "commitFailed" \in Faults /\ pc[p] = "commit"
    /\ Publish(p)
    /\ Answer(p, "internal")
    /\ UNCHANGED <<def, seq, seen, served>>

CommitAborted(p) ==
    /\ "commitFailed" \in Faults /\ pc[p] = "commit"
    /\ Fail(p, "internal")

-----------------------------------------------------------------------------
(* Waits that end badly, and the environment                               *)

(* Mutant: only imports set a lock timeout.                                *)
LockTimeoutOfImports(p) ==
    req[p].op = "Import" /\ Blocked(p)
        /\ Fail(p, IF pc[p] = "delete" THEN "internal" ELSE "conflict")

LockTimeout(p) ==
    Blocked(p) /\ Fail(p, IF pc[p] = "delete" THEN "internal" ELSE "conflict")

DeadlockVictim(p) ==
    /\ \E q \in Procs : WaitsFor(p, q) /\ WaitsFor(q, p)
    /\ Fail(p, "internal")

(* The client goes away or the connection breaks: the request's context is *)
(* cancelled and the transaction rolled back.                              *)
Disconnect(p) ==
    /\ "lost" \in Faults /\ pc[p] # "idle"
    /\ Fail(p, "none")

Evolve == \E s \in Schemas :
    /\ "Evolve" \in Ops /\ def.status = "active"
    /\ def' = [def EXCEPT !.schema = s]
    /\ UNCHANGED <<rows, seq, epoch, pc, req, tx, reply, seen, served>>

Deprecate ==
    /\ "Deprecate" \in Ops
    /\ def' = [def EXCEPT !.status = "deprecated"]
    /\ UNCHANGED <<rows, seq, epoch, pc, req, tx, reply, seen, served>>

-----------------------------------------------------------------------------
Init ==
    /\ def \in [status : {"active"}, schema : Schemas]
    /\ rows = InitialRows /\ seq = NextID(InitialRows) /\ epoch = 0
    /\ pc    = [p \in Procs |-> "idle"]
    /\ req   = [p \in Procs |-> NoReq]
    /\ tx    = [p \in Procs |-> NewTx]
    /\ reply = [p \in Procs |-> "none"]
    /\ seen  = [p \in Procs |-> NoDoc]
    /\ served = 0

Ask(p) == StartInsert(p) \/ StartUpdate(p) \/ StartStatusChange(p) \/ StartImport(p) \/ Get(p)

Serve(p) ==
    \/ GetDocForUpdate(p) \/ RowGranted(p) \/ CheckUniqueDup(p)
    \/ InsertDoc(p) \/ UpdateDoc(p)
    \/ LockForReplace(p) \/ DeleteAllDocs(p) \/ SetSequenceAfterImport(p)
    \/ Commit(p) \/ LockTimeout(p) \/ DeadlockVictim(p)

Fault(p) == CommitApplied(p) \/ CommitAborted(p) \/ Disconnect(p)

Next == Evolve \/ Deprecate
        \/ \E p \in Procs : Ask(p) \/ Serve(p) \/ ImportBatch(p) \/ Fault(p)

Spec == Init /\ [][Next]_vars

(* The server and the database keep going; nobody has to send a request,   *)
(* and an import's next batch waits for the client's upload.               *)
Fairness == \A p \in Procs : WF_vars(Serve(p))

FairSpec == Spec /\ Fairness


-----------------------------------------------------------------------------
(* Properties                                                              *)

IsTx(t) ==
    /\ t \in [held : LockModes, locks : SUBSET Nat, row : Row \cup {NoRow}, snap : Nat,
              writes : {t.writes}, loaded : Nat, missed : SUBSET Nat]
    /\ IsTable(t.writes)

(* Type invariant; no row ever has a version below 1 or an id below 1, and *)
(* the sequence never yields one (data.go:40-49, transfer.go:109-119).     *)
TypeOK ==
    /\ def \in Definition /\ IsTable(rows)
    /\ seq \in Nat \ {0} /\ epoch \in Nat /\ served \in Nat
    /\ pc \in [Procs -> Steps] /\ reply \in [Procs -> Codes]
    /\ req \in [Procs -> Request]
    /\ tx = [p \in Procs |-> tx[p]] /\ \A p \in Procs : IsTx(tx[p])
    /\ seen \in [Procs -> [id : Nat, row : Row, epoch : Nat] \cup {NoDoc}]

RowStep(a, b) ==
    \/ b = a
    \/ /\ b.version = a.version + 1
       /\ \/ a.status = "active" /\ b.status = "active"
          \/ a.status # b.status /\ a.data = b.data

Unwritten(t) == t.held = "none" /\ DOMAIN t.writes = {}

(* The row an insert writes, the row that follows another row, and the     *)
(* status changes that find nothing to change.                             *)
FirstRow(r) == [version |-> 1, status |-> "active", data |-> Merge(Blank, r.body)]

NextRow(r, row) ==
    [version |-> row.version + 1,
     status  |-> IF r.op = "SoftDelete" THEN "deleted" ELSE "active",
     data    |-> IF r.op = "Update" THEN Merge(row.data, r.body) ELSE row.data]

Already(r, row) ==
    \/ r.op = "SoftDelete" /\ row.status = "deleted"
    \/ r.op = "Restore" /\ row.status = "active"

StepsOf(op) ==
    CASE op = "None"                  -> {"idle"}
      [] op = "Insert"                -> {"check", "insert", "commit"}
      [] op \in {"Update", "Restore"} -> {"lockRow", "waitRow", "check", "write", "commit"}
      [] op = "SoftDelete"            -> {"lockRow", "waitRow", "write", "commit"}
      [] op = "Import"                -> {"lockTable", "delete", "setval", "commit"}

(* What a request holds and has read at each statement: an INSERT in       *)
(* flight has an id of its own below the sequence; past FOR UPDATE the     *)
(* copy of the row is still the committed row, and what will be written    *)
(* follows from it; an import past its lock has loaded a valid prefix of   *)
(* its file, and has every row locked before it goes on to setval.         *)
InsertSound(p) ==
    /\ tx[p].locks = {} /\ Valid(req[p].def.schema, Merge(Blank, req[p].body))
    /\ IF pc[p] = "commit"
       THEN /\ tx[p].held = "rowExclusive"
            /\ DOMAIN tx[p].writes = {req[p].id}
            /\ tx[p].writes[req[p].id] = FirstRow(req[p])
            /\ req[p].id \notin DOMAIN rows /\ req[p].id < seq
       ELSE Unwritten(tx[p])

RowWriterSound(p) ==
    LET r == req[p]
        t == tx[p]
    IN  IF pc[p] \in {"lockRow", "waitRow"}
        THEN /\ t.locks = {} /\ Unwritten(t)
             /\ pc[p] = "waitRow" /\ t.snap = epoch => r.id \in DOMAIN rows
        ELSE /\ r.id \in DOMAIN rows /\ t.locks = {r.id} /\ t.row = rows[r.id]
             /\ r.op = "Update" => /\ t.row.status = "active" /\ t.row.version = r.version
                                   /\ Valid(r.def.schema, Merge(t.row.data, r.body))
             /\ pc[p] \in {"check", "write"} /\ r.op = "SoftDelete" => t.row.status = "active"
             /\ pc[p] \in {"check", "write"} /\ r.op = "Restore" => t.row.status = "deleted"
             /\ \/ Unwritten(t) /\ (pc[p] = "commit" => Already(r, t.row))
                \/ /\ pc[p] = "commit" /\ t.held = "rowExclusive" /\ ~Already(r, t.row)
                   /\ DOMAIN t.writes = {r.id} /\ t.writes[r.id] = NextRow(r, t.row)

ImportSound(p) ==
    LET docs == req[p].file.docs
        t    == tx[p]
    IN  /\ t.locks \subseteq DOMAIN rows
        /\ IF pc[p] = "lockTable"
           THEN t.locks = {} /\ t.loaded = 0 /\ Unwritten(t)
           ELSE /\ t.held = "shareRowExclusive"
                /\ t.loaded <= Len(docs) /\ t.writes = FileTable(docs, t.loaded)
                /\ \A k \in 1..t.loaded : RowAccepted(req[p].def.schema, docs[k])
                /\ \A j, k \in 1..t.loaded : docs[j].id = docs[k].id => j = k
        /\ pc[p] \in {"setval", "commit"} =>
              t.locks = DOMAIN rows /\ t.loaded = Len(docs) /\ req[p].file.sound

Sound(p) ==
    /\ pc[p] \in StepsOf(req[p].op) /\ tx[p].snap <= epoch
    /\ req[p].op = "None"   => req[p] = NoReq /\ tx[p] = NewTx
    /\ req[p].op = "Insert" => InsertSound(p)
    /\ req[p].op \in {"Update", "SoftDelete", "Restore"} => RowWriterSound(p)
    /\ req[p].op = "Import" => ImportSound(p)

Compatible(p, q) ==
    /\ tx[p].locks \cap tx[q].locks = {}
    /\ tx[p].held = "shareRowExclusive" => tx[q].held = "none"
    /\ {req[p].op, req[q].op} = {"Insert"} /\ pc[p] = "commit" /\ pc[q] = "commit"
          => req[p].id # req[q].id

(* The discipline every other property rests on, and the inductive part of *)
(* the proofs: no two requests lock one row, write beside an import, or    *)
(* insert one id, and no request's picture of the table is stale where it  *)
(* relies on it (data_service.go:185-310, transfer.go:43-54).              *)
LockDiscipline == \A p \in Procs : Sound(p) /\ \A q \in Procs \ {p} : Compatible(p, q)

(* Until an import replaces the table, a version names one content of a    *)
(* row: whoever was sent (id, version) and finds that version still there  *)
(* finds the same row, and a row never goes back to an older version.  It  *)
(* is what the optimistic lock of Update relies on (data_service.go:212).  *)
VersionIdentifiesContent ==
    \A p \in Procs : seen[p] # NoDoc /\ seen[p].epoch = epoch =>
        LET id == seen[p].id IN
        /\ id \in DOMAIN rows
        /\ rows[id].version >= seen[p].row.version
        /\ rows[id].version = seen[p].row.version => rows[id] = seen[p].row

(* When no import is about to commit, the sequence is ahead of every row,  *)
(* so the next INSERT finds its id free (transfer.go:109-119; plan A5).    *)
SequenceAhead ==
    (\A p \in Procs : ~(pc[p] = "commit" /\ req[p].op = "Import"))
        => \A i \in DOMAIN rows : i < seq

Commits(p) == pc[p] = "commit" /\ pc'[p] = "idle" /\ rows' # rows

(* Between imports no row disappears, each change of a row raises its      *)
(* version by exactly one, the data of a soft-deleted row is frozen, and a *)
(* status change leaves the data alone (data.go:157-197).                  *)
VersionedStep ==
    [][epoch' = epoch =>
          \A i \in DOMAIN rows : i \in DOMAIN rows' /\ RowStep(rows[i], rows'[i])]_vars

(* An update that succeeds with the version the client read merges its     *)
(* patch onto exactly the data the client read, and that row was active    *)
(* (data_service.go:204-217), as long as no import came between.           *)
NoLostUpdate ==
    [][\A p \in Procs :
          LET r == req[p] IN
          /\ Commits(p) /\ r.op = "Update"
          /\ seen[p].id = r.id /\ seen[p].row.version = r.version
          /\ seen[p].epoch = epoch
          => /\ seen[p].row = rows[r.id] /\ seen[p].row.status = "active"
             /\ rows'[r.id].data = Merge(seen[p].row.data, r.body)]_vars

(* What README.md:20 and docs/activelist.md:38 say of read-modify-write    *)
(* across an import: it is refused, never a silent overwrite.              *)
NoSilentOverwriteAcrossImport ==
    [][\A p \in Procs :
          LET r == req[p] IN
          /\ Commits(p) /\ r.op = "Update"
          /\ seen[p].id = r.id /\ seen[p].row.version = r.version
          => seen[p].row.data = rows[r.id].data]_vars

(* A committed import leaves exactly the rows of its file, each at version *)
(* 1: no row inserted concurrently survives it, none is lost or doubled    *)
(* (transfer.go:43-46, data_service.go:405-482).                           *)
ImportReplacesAll ==
    [][epoch' # epoch =>
          \E p \in Procs :
             LET docs == req[p].file.docs IN
             /\ pc[p] = "commit" /\ req[p].op = "Import"
             /\ rows' = FileTable(docs, Len(docs))
             /\ Cardinality(DOMAIN rows') = Len(docs)]_vars

(* Two active rows share a unique key only through the registered window:  *)
(* when a write that was checked commits, every active row with its key    *)
(* appeared after its check (data_service.go:357-363).                     *)
DuplicateOnlyInWindow ==
    [][\A p \in Procs :
          LET r == req[p] IN
          Commits(p) /\ r.op \in {"Insert", "Update", "Restore"} =>
             DupIDs(r.def.schema, rows', rows'[r.id].data, r.id) \subseteq tx[p].missed]_vars

(* Once the type is deprecated, the rows and their data change only by the *)
(* hand of requests the gate admitted before; soft delete and restore move *)
(* nothing but the status (data_service.go:61-65).                         *)
DeprecatedFrozen ==
    [][/\ def.status = "deprecated"
       /\ ~(/\ DOMAIN rows' = DOMAIN rows
            /\ \A i \in DOMAIN rows : rows'[i].data = rows[i].data)
       => \E p \in Procs : Commits(p) /\ req[p].def.status = "active"]_vars

DeadlockPair(p, q) == WaitsFor(p, q) /\ WaitsFor(q, p)

(* The only requests that can deadlock are an UPDATE, which has its row    *)
(* and wants the table, and an import's DELETE, which has the table and    *)
(* wants the row: unless there is such a pair, somebody in flight waits    *)
(* for no other request, however many there are (data_service.go:185-228   *)
(* and transfer.go:43-60; the lock_timeout has nothing else to break).     *)
OnlyImportsDeadlock ==
    /\ \A p, q \in Procs : DeadlockPair(p, q) => {pc[p], pc[q]} = {"write", "delete"}
    /\ \/ \A p \in Procs : pc[p] = "idle"
       \/ \E p \in Procs : pc[p] # "idle" /\ ~Blocked(p)
       \/ \E p, q \in Procs : DeadlockPair(p, q)

Uploading(p) == pc[p] = "delete" /\ Remaining(p) = {}

(* Every request is answered, however long an import that holds the table  *)
(* lock waits for its client's upload (data_service.go:348-355, 421-425).  *)
EveryRequestAnswered ==
    \A p \in Procs : (pc[p] # "idle" /\ ~Uploading(p)) ~> (pc[p] = "idle" \/ Uploading(p))

Answered(p, code) == pc[p] # "idle" /\ pc'[p] = "idle" /\ reply'[p] = code

(* Plan A5 (docs/implementation-plan.md:31): a write concurrent with an    *)
(* import waits for its commit or gets a quick 409, so without faults no   *)
(* write is answered 500.                                                  *)
WriteWaitsOrConflicts ==
    [][\A p \in Procs : req[p].op \in DataOps => ~Answered(p, "internal")]_vars

-----------------------------------------------------------------------------
(* The abstract store.  The id an INSERT draws is not part of what its     *)
(* client asked for.                                                       *)
Asked(r) == IF r.op = "Insert" THEN [r EXCEPT !.id = 0] ELSE r

asked == [p \in Procs |-> Asked(req[p])]

Store == INSTANCE VersionedStore WITH Clients <- Procs, asks <- asked

(* Whatever the statements of concurrent requests, lost connections and    *)
(* failing COMMITs do, each request takes effect at one instant, on the    *)
(* row its client named at the version it named, or not at all; an answer  *)
(* other than 200 and 500 means not at all (data_service.go:80-482).       *)
ImplementsStore == Store!Spec

=============================================================================
