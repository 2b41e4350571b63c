---------------------------- MODULE TypeRegistry ----------------------------
(***************************************************************************)
(* Registration, evolution and deprecation of types                        *)
(* (internal/service/type_service.go over internal/meta/meta.go): the      *)
(* metadata row of each type, its append-only schema history, and the      *)
(* admin requests that change both in one transaction.  As in DataTable a  *)
(* process is a request in flight and a step is one SQL statement; here no *)
(* lock_timeout is set, so a statement waits for as long as the row is     *)
(* locked.                                                                 *)
(***************************************************************************)
EXTENDS Integers, Sequences, FiniteSets

CONSTANTS
    Procs,       \* clients, each with at most one request in flight
    Names,       \* type names that pass ValidateTypeName
    Schemas,     \* schemas that pass ValidateFields and ValidateUniqueFields
    NoSchema,    \* stands for the schema of no type
    Versions,    \* versions clients send with an evolution
    Faults,      \* "lost", "commitFailed", "readFailed"
    MaxRequests  \* bound on the number of requests started

VARIABLES
    types,      \* committed rows of data_types, a function on the names
    tables,     \* names whose data table exists
    history,    \* committed rows of data_type_schema_history, as committed
    historyID,  \* next id of the history table
    pc, req, tx, \* each client's next statement, request and transaction
    reply,      \* outcome of each client's last request
    served      \* number of requests started

vars == <<types, tables, history, historyID, pc, req, tx, reply, served>>

ASSUME TypeRegistryAssumption ==
    NoSchema \notin Schemas /\ Versions \subseteq Nat /\ MaxRequests \in Nat

-----------------------------------------------------------------------------
(* Types                                                                   *)

Status     == {"active", "deprecated"}
Definition == [schema : Schemas, status : Status, version : Nat \ {0}]
NoDef      == [schema |-> NoSchema, status |-> "none", version |-> 0]
Entry      == [name : Names, op : {"register", "evolve", "deprecate"},
               schema : Schemas, id : Nat]
NoEntry    == [name |-> "none", op |-> "none", schema |-> NoSchema, id |-> 0]
NoReq      == [op |-> "none", name |-> "none", schema |-> NoSchema, version |-> 0]
NoTx       == [cur |-> NoDef, write |-> NoDef, entry |-> NoEntry]
NoReply    == [code |-> "none", def |-> NoDef]

-----------------------------------------------------------------------------
(* Request bookkeeping                                                     *)

Goto(p, step) == pc' = [pc EXCEPT ![p] = step]

(* Mutant: the deferred Rollback is missing.                               *)
AnswerWithoutRollback(p, code, def) ==
    /\ Goto(p, "idle")
    /\ req'   = [req EXCEPT ![p].op = "none"]
    /\ reply' = [reply EXCEPT ![p] = [code |-> code, def |-> def]]
    /\ UNCHANGED tx

Answer(p, code, def) ==
    /\ Goto(p, "idle")
    /\ req'   = [req EXCEPT ![p] = NoReq]
    /\ tx'    = [tx EXCEPT ![p] = NoTx]
    /\ reply' = [reply EXCEPT ![p] = [code |-> code, def |-> def]]

Fail(p, code) ==
    /\ Answer(p, code, NoDef)
    /\ UNCHANGED <<types, tables, history, historyID, served>>

Advance(p, step, t) ==
    /\ Goto(p, step)
    /\ tx' = [tx EXCEPT ![p] = t]
    /\ UNCHANGED <<types, tables, history, req, reply, served>>

(* Mutant: writers of one name do not wait for each other.                 *)
NameFreeAlways(p, name) == TRUE

(* An uncommitted INSERT or UPDATE of a name locks it for the others.      *)
NameFree(p, name) ==
    \A q \in Procs \ {p} : ~(tx[q].write # NoDef /\ req[q].name = name)

Arrive(p, r, step) ==
    /\ pc[p] = "idle" /\ served < MaxRequests
    /\ served' = served + 1
    /\ req'   = [req EXCEPT ![p] = r]
    /\ reply' = [reply EXCEPT ![p] = NoReply]
    /\ Goto(p, step)
    /\ UNCHANGED <<types, tables, history, historyID, tx>>

-----------------------------------------------------------------------------
(* Register                                                                *)

StartRegister(p) == \E name \in Names, s \in Schemas :
    Arrive(p, [op |-> "register", name |-> name, schema |-> s, version |-> 0], "insert")

(* The unique index on type_name: a committed name is a 23505, an          *)
(* uncommitted one makes the INSERT wait for the other transaction.        *)
InsertType(p) ==
    LET name == req[p].name IN
    /\ pc[p] = "insert"
    /\ IF name \in DOMAIN types THEN Fail(p, "exists")
       ELSE /\ NameFree(p, name)
            /\ Advance(p, "history", [tx[p] EXCEPT !.write =
                   [schema |-> req[p].schema, status |-> "active", version |-> 1]])
            /\ UNCHANGED historyID

-----------------------------------------------------------------------------
(* Evolve                                                                  *)

(* Gate outside the transaction: unknown and deprecated types are refused. *)
StartEvolve(p) == \E name \in Names, s \in Schemas, v \in Versions :
    IF name \in DOMAIN types /\ types[name].status = "active"
    THEN Arrive(p, [op |-> "evolve", name |-> name, schema |-> s, version |-> v], "update")
    ELSE /\ pc[p] = "idle" /\ served < MaxRequests
         /\ served' = served + 1
         /\ reply' = [reply EXCEPT ![p] =
                [code |-> IF name \in DOMAIN types THEN "deprecated" ELSE "notFound",
                 def  |-> NoDef]]
         /\ UNCHANGED <<types, tables, history, historyID, pc, req, tx>>

(* Mutant: the UPDATE forgets the version in its WHERE clause.             *)
SchemaMatchesAnyVersion(p) == types[req[p].name].status = "active"

SchemaMatches(p) ==
    LET row == types[req[p].name]
    IN  row.version = req[p].version /\ row.status = "active"

(* Mutant: the UPDATE's number of rows is not looked at.                   *)
UpdateSchemaUnnoticed(p) ==
    LET row == types[req[p].name] IN
    /\ pc[p] = "update"
    /\ IF SchemaMatches(p)
       THEN /\ NameFree(p, req[p].name)
            /\ Advance(p, "history", [tx[p] EXCEPT !.write =
                   [schema |-> req[p].schema, status |-> row.status,
                    version |-> row.version + 1]])
       ELSE Advance(p, "commit", tx[p])
    /\ UNCHANGED historyID

(* A row that does not match is skipped at once; one that matches but is   *)
(* locked is waited for, and matched again when the lock is granted.       *)
UpdateSchema(p) ==
    LET row == types[req[p].name] IN
    /\ pc[p] = "update"
    /\ IF SchemaMatches(p)
       THEN /\ NameFree(p, req[p].name)
            /\ Advance(p, "history", [tx[p] EXCEPT !.write =
                   [schema |-> req[p].schema, status |-> row.status,
                    version |-> row.version + 1]])
       ELSE Advance(p, "reread", tx[p])
    /\ UNCHANGED historyID

EvolveRefused(p) ==
    /\ pc[p] = "reread"
    /\ Fail(p, IF types[req[p].name].status = "deprecated" THEN "deprecated" ELSE "conflict")

-----------------------------------------------------------------------------
(* Deprecate                                                               *)

StartDeprecate(p) == \E name \in Names :
    Arrive(p, [op |-> "deprecate", name |-> name, schema |-> NoSchema, version |-> 0], "look")

DeprecateLook(p) ==
    LET name == req[p].name IN
    /\ pc[p] = "look"
    /\ IF name \notin DOMAIN types THEN Fail(p, "notFound")
       ELSE /\ Advance(p, IF types[name].status = "active" THEN "mark" ELSE "read",
                       [tx[p] EXCEPT !.cur = types[name]])
            /\ UNCHANGED historyID

DeprecateMark(p) ==
    LET row == types[req[p].name] IN
    /\ pc[p] = "mark"
    /\ IF row.status = "active"
       THEN /\ NameFree(p, req[p].name)
            /\ Advance(p, "history", [tx[p] EXCEPT !.write =
                                         [row EXCEPT !.status = "deprecated"]])
       ELSE Advance(p, "commit", tx[p])
    /\ UNCHANGED historyID

-----------------------------------------------------------------------------
(* Reads, outside any transaction                                          *)

GetType(p) == \E name \in Names :
    /\ pc[p] = "idle"
    /\ reply' = [reply EXCEPT ![p] = IF name \in DOMAIN types
                                     THEN [code |-> "ok", def |-> types[name]]
                                     ELSE [code |-> "notFound", def |-> NoDef]]
    /\ UNCHANGED <<types, tables, history, historyID, pc, req, tx, served>>

-----------------------------------------------------------------------------
(* The common tail: history, COMMIT, and the read of the answer            *)

(* Mutant: Deprecate records the copy it took before it waited.            *)
RecordedEarlySchema(p) ==
    IF req[p].op = "deprecate" THEN tx[p].cur.schema ELSE tx[p].write.schema

(* Deprecate reads the row again under its lock, instead of using the copy *)
(* it took before it waited.                                               *)
RecordedSchema(p) == tx[p].write.schema

InsertHistory(p) ==
    /\ pc[p] = "history"
    /\ Advance(p, "commit", [tx[p] EXCEPT !.entry =
           [name |-> req[p].name, op |-> req[p].op, schema |-> RecordedSchema(p),
            id |-> historyID]])
    /\ historyID' = historyID + 1

(* Mutant: the data table is not created with the metadata row.            *)
PublishWithoutTable(p) ==
    LET name == req[p].name
        w    == tx[p].write
    IN  IF w = NoDef THEN UNCHANGED <<types, tables, history>>
        ELSE /\ types'   = [m \in DOMAIN types \cup {name} |->
                               IF m = name THEN w ELSE types[m]]
             /\ history' = Append(history, tx[p].entry)
             /\ UNCHANGED tables

Publish(p) ==
    LET name == req[p].name
        w    == tx[p].write
    IN  IF w = NoDef THEN UNCHANGED <<types, tables, history>>
        ELSE /\ types'   = [m \in DOMAIN types \cup {name} |->
                               IF m = name THEN w ELSE types[m]]
             /\ tables'  = tables \cup {name}
             /\ history' = Append(history, tx[p].entry)

Commit(p) ==
    /\ pc[p] = "commit"
    /\ Publish(p)
    /\ Goto(p, "read")
    /\ tx' = [tx EXCEPT ![p] = NoTx]
    /\ UNCHANGED <<historyID, req, reply, served>>

(* The answer is read from the pool, after the transaction.                *)
ReadBack(p) ==
    /\ pc[p] = "read"
    /\ Answer(p, "ok", types[req[p].name])
    /\ UNCHANGED <<types, tables, history, historyID, served>>

-----------------------------------------------------------------------------
(* Faults                                                                  *)

CommitApplied(p) ==
    /\ "commitFailed" \in Faults /\ pc[p] = "commit"
    /\ Publish(p)
    /\ Answer(p, "internal", NoDef)
    /\ UNCHANGED <<historyID, served>>

CommitAborted(p) ==
    /\ "commitFailed" \in Faults /\ pc[p] = "commit"
    /\ Fail(p, "internal")

ReadFailed(p) ==
    /\ "readFailed" \in Faults /\ pc[p] \in {"look", "reread", "read"}
    /\ Fail(p, "internal")

Disconnect(p) ==
    /\ "lost" \in Faults /\ pc[p] # "idle"
    /\ Fail(p, "lost")

-----------------------------------------------------------------------------
Init ==
    /\ types = [m \in {} |-> NoDef] /\ tables = {} /\ history = <<>>
    /\ historyID = 1
    /\ pc    = [p \in Procs |-> "idle"]
    /\ req   = [p \in Procs |-> NoReq]
    /\ tx    = [p \in Procs |-> NoTx]
    /\ reply = [p \in Procs |-> NoReply]
    /\ served = 0

Request(p) == StartRegister(p) \/ StartEvolve(p) \/ StartDeprecate(p) \/ GetType(p)

Serve(p) ==
    \/ InsertType(p) \/ UpdateSchema(p) \/ EvolveRefused(p)
    \/ DeprecateLook(p) \/ DeprecateMark(p)
    \/ InsertHistory(p) \/ Commit(p) \/ ReadBack(p)

Fault(p) == CommitApplied(p) \/ CommitAborted(p) \/ ReadFailed(p) \/ Disconnect(p)

Next == \E p \in Procs : Request(p) \/ Serve(p) \/ Fault(p)

Spec == Init /\ [][Next]_vars

Fairness == \A p \in Procs : WF_vars(Serve(p))

FairSpec == Spec /\ Fairness

-----------------------------------------------------------------------------
(* Properties                                                              *)

Entries(name) == {i \in 1..Len(history) : history[i].name = name}

EntriesOf(name, op) == {i \in Entries(name) : history[i].op = op}

(* Type invariant; every registered type has its data table, and every     *)
(* data table its type (type_service.go:49-60).                            *)
TypeOK ==
    /\ DOMAIN types \subseteq Names /\ tables = DOMAIN types
    /\ \A m \in DOMAIN types : types[m] \in Definition
    /\ \A i \in 1..Len(history) : history[i] \in Entry
    /\ historyID \in Nat /\ served \in Nat
    /\ \A p \in Procs :
          /\ req[p].name \in Names \cup {"none"}
          /\ tx[p].write \in Definition \cup {NoDef}
          /\ tx[p].entry \in Entry \cup {NoEntry}
          /\ reply[p].def \in Definition \cup {NoDef}

(* The history tells what happened to the row: one registration, first;    *)
(* one evolution per version; at most one deprecation, last; and its last  *)
(* entry holds the schema in force, also when a deprecation waited for a   *)
(* concurrent evolution (type_service.go:164-180).                         *)
HistoryMatchesType ==
    \A m \in DOMAIN types :
        /\ Cardinality(EntriesOf(m, "evolve")) = types[m].version - 1
        /\ \E first \in Entries(m) : /\ EntriesOf(m, "register") = {first}
                                     /\ \A i \in Entries(m) : first <= i
        /\ \E last \in Entries(m) :
              /\ \A i \in Entries(m) : i <= last
              /\ history[last].schema = types[m].schema
              /\ EntriesOf(m, "deprecate") =
                    IF types[m].status = "deprecated" THEN {last} ELSE {}

(* The history ids of a type rise in the order of the changes, whatever    *)
(* transaction began first.                                                *)
HistoryIDsInOrder ==
    \A i, j \in 1..Len(history) :
        i < j /\ history[i].name = history[j].name => history[i].id < history[j].id

(* A type is never removed; a deprecated type never changes again; and a   *)
(* schema is only replaced by an evolution that named the version it       *)
(* replaced, so no evolution overwrites one its author had not seen        *)
(* (meta.go:141-157, 279-290).                                             *)
NoLostEvolution ==
    [][\A m \in DOMAIN types :
          /\ m \in DOMAIN types'
          /\ types[m].status = "deprecated" => types'[m] = types[m]
          /\ types'[m].schema # types[m].schema =>
                \E p \in Procs :
                   /\ pc[p] = "commit" /\ req[p].op = "evolve" /\ req[p].name = m
                   /\ req[p].version = types[m].version
                   /\ req[p].schema = types'[m].schema
                   /\ types'[m].version = types[m].version + 1]_vars

(* Every admin request is answered although its statements wait without a  *)
(* timeout: each transaction locks one name only.                          *)
EveryRequestAnswered == \A p \in Procs : pc[p] # "idle" ~> pc[p] = "idle"

(* The answer to a change is read after its transaction, when others may   *)
(* already have gone further, and still shows it: a version after the one  *)
(* that was asked for, and with the next version the schema that was asked *)
(* for (type_service.go:61, :128, :185).                                   *)
Shows(r, d) ==
    IF r.op = "deprecate" THEN d.status = "deprecated"
    ELSE d.version > r.version /\ (d.version = r.version + 1 => d.schema = r.schema)

AnswerShowsChange ==
    [][\A p \in Procs :
          pc[p] = "read" /\ pc'[p] = "idle" /\ reply'[p].code = "ok" =>
              Shows(req[p], reply'[p].def)]_vars

-----------------------------------------------------------------------------
(* Refinement: a request has had its effect when its transaction has       *)
(* committed, and is refused when its UPDATE finds no row.                 *)

stage == [p \in Procs |-> CASE pc[p] = "read" -> "done" [] pc[p] = "reread" -> "refused"
                             [] OTHER -> "open"]

logged(e) == [name |-> e.name, op |-> e.op, schema |-> e.schema]

log == [i \in 1..Len(history) |-> logged(history[i])]

Catalogue == INSTANCE VersionedTypes WITH Clients <- Procs, asks <- req

(* Whatever waits, lost connections and failing COMMITs do, each request   *)
(* takes effect at one instant with its entry in the history, or not at    *)
(* all, and is refused only for what holds at an instant in between        *)
(* (type_service.go:22-190).                                               *)
ImplementsTypes == Catalogue!Spec

=============================================================================
