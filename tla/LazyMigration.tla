--------------------------- MODULE LazyMigration ---------------------------
(***************************************************************************)
(* One type whose schema evolves while its rows are written: TypeRegistry  *)
(* composed with the data requests that write (Insert, Update, SoftDelete, *)
(* Restore, Import of internal/service/data_service.go).  Rows carry no    *)
(* schema version; a row that no longer fits is refused at its next        *)
(* update, and the answer tells the client why.  Soft delete and restore   *)
(* validate nothing.  A data request takes its copy of the schema at the   *)
(* gate, before its transaction, and asks the history for the reason       *)
(* through the pool, beside its transaction.                               *)
(*                                                                         *)
(* The locks, the statements and the unique keys of the data table are     *)
(* DataTable's matter: here a row lock is held from the locked read to the *)
(* answer, the writes of a transaction and its COMMIT are one step, and so *)
(* is the whole transaction of a soft delete or a restore.                 *)
(***************************************************************************)
EXTENDS Validation

CONSTANTS
    Admins, Names, Schemas, NoSchema, Versions, Faults, MaxRequests, \* TypeRegistry
    TypeName,     \* the type whose data is written
    Writers,      \* clients of its data endpoints
    IDs,          \* row ids
    Bodies,       \* "data" objects clients send
    Files,        \* contents of import files, functions from ids to data
    MaxWrites     \* bound on the number of data requests

VARIABLES
    types, tables, history, historyID, pc, req, tx, reply, served,
    rows,    \* the data table: version, status and data of each row
    at,      \* step each writer is about to take
    ask,     \* its request
    refusal, \* what ValidateData found wrong with it
    told,    \* its last answer
    asked    \* number of data requests

typeVars == <<types, tables, history, historyID, pc, req, tx, reply, served>>
dataVars == <<rows, at, ask, refusal, told, asked>>
vars     == <<typeVars, dataVars>>

Types == INSTANCE TypeRegistry WITH Procs <- Admins

ASSUME LazyMigrationAssumption ==
    /\ TypeName \in Names /\ MaxWrites \in Nat
    /\ NoSchema \notin Schemas /\ Versions \subseteq Nat /\ MaxRequests \in Nat
    /\ \A s \in Schemas : s \in Seq(Field) /\ ValidateFields(s)
    /\ \A b \in Bodies : DOMAIN b \subseteq Keys
    /\ \A f \in Files : DOMAIN f \subseteq IDs

-----------------------------------------------------------------------------
(* Bookkeeping                                                             *)

NoRefusal == Refusal("none", "none")
NoAsk     == [op |-> "none", id |-> 0, version |-> 0, fields |-> <<>>,
              body |-> [k \in {} |-> null]]
NoAnswer  == [code |-> "none", field |-> "none"]

current == types[TypeName].schema

Goto(w, step) == at' = [at EXCEPT ![w] = step]

Tell(w, code, field) ==
    /\ Goto(w, "idle")
    /\ ask'     = [ask EXCEPT ![w] = NoAsk]
    /\ refusal' = [refusal EXCEPT ![w] = NoRefusal]
    /\ told'    = [told EXCEPT ![w] = [code |-> code, field |-> field]]

Proceed(w, step) == Goto(w, step) /\ UNCHANGED <<ask, refusal, told>>

(* An update holds its row from the locked read to its answer.             *)
Holds(w, id) == ask[w].op = "Update" /\ ask[w].id = id /\ at[w] \in {"lookUp", "write"}

RowFree(w, id) == \A v \in Writers \ {w} : ~Holds(v, id)

-----------------------------------------------------------------------------
(* The gate, and the validation that follows it                            *)

(* Soft delete and restore do not ask for a type that is still active.     *)
Admits(op) == types[TypeName].status = "active" \/ op \in {"SoftDelete", "Restore"}

(* mapDataValidationError: a missing field is answered by the kind of the  *)
(* request, an unknown one only after a look at the history.               *)
Code(op, reason) ==
    CASE reason = "missing_required" /\ op = "Update" -> "NEW_REQUIRED_FIELD"
      [] reason = "reserved"                          -> "RESERVED_FIELD"
      [] OTHER                                        -> "VALIDATION_ERROR"

(* Validated data goes on; a refusal is answered, or explained first.      *)
Decide(w, refusals, step) ==
    \/ refusals = {} /\ Proceed(w, step)
    \/ \E r \in refusals :
          IF r.reason = "unknown_field"
          THEN /\ Goto(w, "lookUp")
               /\ refusal' = [refusal EXCEPT ![w] = r]
               /\ UNCHANGED <<ask, told>>
          ELSE Tell(w, Code(ask[w].op, r.reason), r.field)

Arrive(w, r, step) ==
    /\ at[w] = "idle" /\ asked < MaxWrites
    /\ asked' = asked + 1
    /\ IF TypeName \in DOMAIN types /\ Admits(r.op)
       THEN /\ Goto(w, step)
            /\ ask'  = [ask EXCEPT ![w] = [r EXCEPT !.fields = current]]
            /\ told' = [told EXCEPT ![w] = NoAnswer]
       ELSE /\ told' = [told EXCEPT ![w].code = IF TypeName \in DOMAIN types
                                                THEN "TYPE_DEPRECATED" ELSE "TYPE_NOT_FOUND",
                                    ![w].field = "none"]
            /\ UNCHANGED <<at, ask>>
    /\ UNCHANGED <<rows, refusal>>

StartInsert(w) == \E b \in Bodies :
    Arrive(w, [NoAsk EXCEPT !.op = "Insert", !.body = b], "validate")

StartUpdate(w) == \E b \in Bodies, id \in IDs, v \in Versions :
    Arrive(w, [NoAsk EXCEPT !.op = "Update", !.id = id, !.version = v, !.body = b], "lockRow")

StartStatusChange(w) == \E op \in {"SoftDelete", "Restore"}, id \in IDs :
    Arrive(w, [NoAsk EXCEPT !.op = op, !.id = id], "move")

StartImport(w) == \E f \in Files :
    Arrive(w, [NoAsk EXCEPT !.op = "Import", !.body = f], "import")

-----------------------------------------------------------------------------
(* Insert                                                                  *)

ValidateInsert(w) ==
    /\ at[w] = "validate"
    /\ Decide(w, ValidateData(ask[w].fields, ask[w].body), "write")
    /\ UNCHANGED <<rows, asked>>

(* Mutant: the version column keeps no default.                            *)
freshUnversioned(data) == [version |-> 0, status |-> "active", data |-> data]

fresh(data) == [version |-> 1, status |-> "active", data |-> data]

InsertRow(w) == \E id \in IDs \ DOMAIN rows :
    /\ at[w] = "write" /\ ask[w].op = "Insert"
    /\ rows' = [i \in DOMAIN rows \cup {id} |->
                   IF i = id THEN fresh(ask[w].body) ELSE rows[i]]
    /\ Tell(w, "ok", "none")
    /\ UNCHANGED asked

-----------------------------------------------------------------------------
(* Update                                                                  *)

(* Mutant: the patch is validated before it is merged onto the row.        *)
CheckedPatch(old, body) == body

Checked(old, body) == mergeData(old, body)

LockAndValidate(w) ==
    LET r   == ask[w]
        row == rows[r.id]
    IN  /\ at[w] = "lockRow" /\ RowFree(w, r.id)
        /\ IF r.id \notin DOMAIN rows THEN Tell(w, "DATA_NOT_FOUND", "none")
           ELSE IF row.status # "active" \/ row.version # r.version THEN Tell(w, "CONFLICT", "none")
           ELSE Decide(w, ValidateData(r.fields, Checked(row.data, r.body)), "write")
        /\ UNCHANGED <<rows, asked>>

UpdateRow(w) ==
    LET r == ask[w] IN
    /\ at[w] = "write" /\ r.op = "Update"
    /\ rows' = [rows EXCEPT ![r.id] = [version |-> @.version + 1, status |-> @.status,
                                       data |-> mergeData(@.data, r.body)]]
    /\ Tell(w, "ok", "none")
    /\ UNCHANGED asked

(* Mutant: only the newest entry of the history is read.                   *)
FieldInNewestEntry(k) == k \in FieldNames(history[Len(history)].schema)

(* FieldExistedInHistory, with the refused request's transaction still     *)
(* open if it is an update.                                                *)
FieldExistedInHistory(k) ==
    \E i \in 1..Len(history) :
        history[i].name = TypeName /\ k \in FieldNames(history[i].schema)

LookUp(w) ==
    LET k == refusal[w].field IN
    /\ at[w] = "lookUp"
    /\ \/ Tell(w, IF FieldExistedInHistory(k) THEN "FIELD_DEPRECATED" ELSE "VALIDATION_ERROR", k)
       \/ "readFailed" \in Faults /\ Tell(w, "INTERNAL_ERROR", "none")
    /\ UNCHANGED <<rows, asked>>

-----------------------------------------------------------------------------
(* Soft delete and restore: a change of status, whatever the schema says   *)

Moved(row, op) ==
    LET from == IF op = "SoftDelete" THEN "active" ELSE "deleted"
        to   == IF op = "SoftDelete" THEN "deleted" ELSE "active"
    IN  IF row.status = from
        THEN [version |-> row.version + 1, status |-> to, data |-> row.data]
        ELSE row

MoveRow(w) ==
    LET r == ask[w] IN
    /\ at[w] = "move" /\ RowFree(w, r.id)
    /\ IF r.id \notin DOMAIN rows
       THEN Tell(w, "DATA_NOT_FOUND", "none") /\ UNCHANGED rows
       ELSE /\ rows' = [rows EXCEPT ![r.id] = Moved(@, r.op)]
            /\ Tell(w, "ok", "none")
    /\ UNCHANGED asked

-----------------------------------------------------------------------------
(* Import: every row of the file, which also gives its status, is          *)
(* validated, and none is explained                                        *)

ImportAll(w) ==
    LET file == ask[w].body IN
    /\ at[w] = "import" /\ \A i \in DOMAIN rows : RowFree(w, i)
    /\ IF \A i \in DOMAIN file : Fits(ask[w].fields, file[i])
       THEN /\ \E status \in [DOMAIN file -> {"active", "deleted"}] :
                  rows' = [i \in DOMAIN file |-> [fresh(file[i]) EXCEPT !.status = status[i]]]
            /\ Tell(w, "ok", "none")
       ELSE /\ Tell(w, "VALIDATION_ERROR", "none")
            /\ UNCHANGED rows
    /\ UNCHANGED asked

-----------------------------------------------------------------------------
Init ==
    /\ Types!Init
    /\ rows    = [i \in {} |-> NoAsk]
    /\ at      = [w \in Writers |-> "idle"]
    /\ ask     = [w \in Writers |-> NoAsk]
    /\ refusal = [w \in Writers |-> NoRefusal]
    /\ told    = [w \in Writers |-> NoAnswer]
    /\ asked   = 0

Start(w) == StartInsert(w) \/ StartUpdate(w) \/ StartStatusChange(w) \/ StartImport(w)

Write(w) ==
    \/ ValidateInsert(w) \/ InsertRow(w)
    \/ LockAndValidate(w) \/ UpdateRow(w) \/ LookUp(w)
    \/ MoveRow(w) \/ ImportAll(w)

Next ==
    \/ Types!Next /\ UNCHANGED dataVars
    \/ \E w \in Writers : (Start(w) \/ Write(w)) /\ UNCHANGED typeVars

Spec == Init /\ [][Next]_vars

-----------------------------------------------------------------------------
(* Properties                                                              *)

(* Types of the data requests' own state; every writer's copy of the       *)
(* schema is one the history recorded.                                     *)
Recorded == {history[i].schema : i \in {i \in 1..Len(history) : history[i].name = TypeName}}

TypeOK ==
    /\ DOMAIN rows \subseteq IDs /\ asked \in 0..MaxWrites
    /\ \A i \in DOMAIN rows : /\ rows[i].version \in Nat \ {0}
                              /\ rows[i].status \in {"active", "deleted"}
                              /\ DOMAIN rows[i].data \subseteq Keys
    /\ \A w \in Writers : at[w] # "idle" => ask[w].fields \in Recorded

(* Without schema versions on rows, and with gates that may be stale, each *)
(* row still fits, whole, one schema that the type has had                 *)
(* (data_service.go:204-218).                                              *)
RowsFitSomeSchema ==
    \A i \in DOMAIN rows : \E s \in Recorded : Fits(s, rows[i].data)

(* A key that the row itself brings, and not the patch, is never called a  *)
(* misspelling: the client learns that the field was removed               *)
(* (data_service.go:330-342).                                              *)
LeftoverIsExplained ==
    [][\A w \in Writers :
          /\ at[w] = "lookUp" /\ at'[w] = "idle" /\ told'[w].code = "VALIDATION_ERROR"
          => refusal[w].field \notin
                 (IF ask[w].op = "Update" THEN DOMAIN rows[ask[w].id].data ELSE {})]_vars

(* A patch that gives every field of the schema a value that fits.         *)
witness(f) == CASE f.type = "int" -> Int0 [] f.type = "string" -> Str(1) [] OTHER -> List(<<>>)

Repair(fields) == [k \in FieldNames(fields) |-> witness(FieldOf(fields, k))]

Repairable(data) == Fits(current, mergeData(data, Repair(current)))

(* Required fields, changed types and tightened limits never lock a row    *)
(* out of updates: only a key that left the schema does                    *)
(* (data_service.go:312-346, validation/data.go).                          *)
OnlyRemovedFieldsBlock ==
    \A i \in DOMAIN rows : DOMAIN rows[i].data \subseteq FieldNames(current)
                              => Repairable(rows[i].data)

(* And it does so for good: the data of a row with a key that has left the *)
(* schema change only by an import, which replaces the row, or by an       *)
(* update that passed the gate under another schema; soft delete and       *)
(* restore, which nothing refuses, move its status and version only        *)
(* (data_service.go:218, :239-310, :339).                                  *)
Leftover(i) == ~(DOMAIN rows[i].data \subseteq FieldNames(current))

LeftoverStays ==
    [][\A i \in DOMAIN rows :
          Leftover(i) /\ ~(i \in DOMAIN rows' /\ rows'[i].data = rows[i].data) =>
              \E w \in Writers : at'[w] = "idle" /\ \/ at[w] = "import"
                                                    \/ at[w] = "write" /\ ask[w].fields # current]_vars

(* A client that is told to remove a field that left the schema can do so: *)
(* some update makes its row fit (data_service.go:338-340).                *)
RemovedFieldsCanBeRemoved == \A i \in DOMAIN rows : Repairable(rows[i].data)

=============================================================================
