------------------------------- MODULE Reads -------------------------------
(***************************************************************************)
(* What the readers of one data table see while it is written: a client    *)
(* that follows the cursors of listData from page to page, an export that  *)
(* streams the table row by row, and the import of what it wrote.          *)
(*                                                                         *)
(* A write and its COMMIT are one step (DataTable has their locks and      *)
(* statements); a page is two, the gate's read of the schema and a SELECT  *)
(* that works with the copy; an export is one SELECT whose snapshot        *)
(* outlives the writes that follow it.  A row keeps what readers look at:  *)
(* its status, its created_at, and the fields whose value matches what the *)
(* client searches for.                                                    *)
(***************************************************************************)
EXTENDS Integers, FiniteSets

CONSTANTS
    IDs,            \* ids of rows
    Times,          \* instants of the database's clock
    Fields,         \* fields that hold a match or not
    Tables,         \* contents of import files other than exports
    Queries,        \* list queries clients send
    pageSizeDefault, pageSizeMax,
    verifierLimit,  \* rows in the largest body AKSKAuth lets through
    importMaxRows,  \* rows in the largest body importData reads
    MaxWrites       \* bound on the number of writes

VARIABLES
    rows,     \* the table: [status, created, data] of each id
    scalars,  \* the int and string fields of the current schema
    writes,   \* number of writes
    reader,   \* the listing client: phase, query, cursor, and the page in
              \* progress: its copy of the scalars, in a set, empty before
    listed,   \* sort keys of the rows it was given
    shown,    \* number of rows it was given
    steady,   \* sort keys its query has selected ever since it began, by
              \* the schema in force and by the copy of the page in progress
    export,   \* the export: phase, snapshot, rows sent
    upload    \* the last import: the rows in its file, the answer

vars == <<rows, scalars, writes, reader, listed, shown, steady, export, upload>>

RowStatus == {"active", "deleted"}
Row       == [status : RowStatus, created : Nat \ {0}, data : SUBSET Fields]
FileRow   == [status : RowStatus \cup {""}, created : Nat, data : SUBSET Fields]
Query     == [filter : {"none", "keyword", "exact"}, field : Fields,
              deleted : BOOLEAN, size : Int]

(* The limits are those that config.Load accepts; files name what status   *)
(* and time they give, or leave them out ("", 0).                          *)
ASSUME ReadsAssumption ==
    /\ IDs \subseteq Nat /\ Times \subseteq Nat \ {0} /\ Queries \subseteq Query
    /\ pageSizeMax \in Nat /\ pageSizeDefault \in 1..pageSizeMax
    /\ verifierLimit \in Nat /\ importMaxRows \in Nat
    /\ MaxWrites \in Nat
    /\ \A t \in Tables : /\ DOMAIN t \subseteq IDs /\ IsFiniteSet(DOMAIN t)
                         /\ t \in [DOMAIN t -> FileRow]

-----------------------------------------------------------------------------
(* List                                                                    *)

Key(t, i) == [created |-> t[i].created, id |-> i]

(* Mutant: rows of one instant are not told apart.                         *)
ComesBeforeInTime(a, b) == a.created > b.created

(* ORDER BY created_at DESC, id DESC.                                      *)
ComesBefore(a, b) == a.created > b.created \/ (a.created = b.created /\ a.id > b.id)

(* The page size the handler answers with, and the LIMIT of the service.   *)
pageSize(n) ==
    IF n = 0 THEN pageSizeDefault
    ELSE IF n < 1 THEN 1 ELSE IF n > pageSizeMax THEN pageSizeMax ELSE n

limit(n) == IF n < 1 THEN pageSizeDefault ELSE IF n > pageSizeMax THEN pageSizeMax ELSE n

(* An exact filter is refused unless its field is a scalar of the schema;  *)
(* a keyword looks at all of them, and is dropped if there is none.        *)
Refuses(q, s) == q.filter = "exact" /\ q.field \notin s

Selects(q, s, r) ==
    /\ r.status = "deleted" => q.deleted
    /\ q.filter = "keyword" => s = {} \/ r.data \cap s # {}
    /\ q.filter = "exact" => q.field \in r.data

Selected(q, s, t) == {Key(t, i) : i \in {i \in DOMAIN t : Selects(q, s, t[i])}}

(* Mutant: the cursor's own row is given again.                            *)
FromCursor(cursor, keys) == {k \in keys : \A c \in cursor : ~ComesBefore(k, c)}

(* (created_at, id) < cursor; no cursor is the empty set.                  *)
AfterCursor(cursor, keys) == {k \in keys : \A c \in cursor : ComesBefore(c, k)}

(* The first n of the keys: all of them if there are fewer.                *)
IsPage(page, keys, n) ==
    /\ Cardinality(page) = n \/ (Cardinality(page) < n /\ page = keys)
    /\ \A k \in page, l \in keys \ page : ~ComesBefore(l, k)

LastOf(page) == {k \in page : \A l \in page : ~ComesBefore(k, l)}

(* Mutant: every page carries a cursor, an empty one that it was asked by. *)
nextCursorAlways(page, cursor, n) ==
    IF page = {} THEN {cursor} ELSE {{k} : k \in LastOf(page)}

(* The cursor that an answer carries: its last row, if the page is full.   *)
nextCursor(page, cursor, n) ==
    IF Cardinality(page) = n THEN {{k} : k \in LastOf(page)} ELSE {{}}

StartList(q) ==
    /\ reader.phase # "reading"
    /\ reader' = [phase |-> "reading", query |-> q, cursor |-> {}, copy |-> {}]
    /\ listed' = {} /\ shown' = 0
    /\ steady' = Selected(q, scalars, rows)
    /\ UNCHANGED <<rows, scalars, writes, export, upload>>

(* The gate reads the schema, and the filter is checked against it.        *)
gateType ==
    /\ reader.phase = "reading" /\ reader.copy = {}
    /\ reader' = IF Refuses(reader.query, scalars)
                 THEN [reader EXCEPT !.phase = "refused"]
                 ELSE [reader EXCEPT !.copy = {scalars}]
    /\ UNCHANGED <<rows, scalars, writes, listed, shown, steady, export, upload>>

(* The SELECT, through another connection, with the gate's copy.           *)
ListDocs == \E s \in reader.copy :
    LET q    == reader.query
        keys == AfterCursor(reader.cursor, Selected(q, s, rows))
    IN  /\ reader.phase = "reading"
        /\ \E page \in SUBSET keys :
              /\ IsPage(page, keys, limit(pageSize(q.size)))
              /\ listed' = listed \cup page
              /\ shown'  = shown + Cardinality(page)
              /\ \E next \in nextCursor(page, reader.cursor, pageSize(q.size)) :
                    reader' = [phase  |-> IF next = {} THEN "done" ELSE "reading",
                               query  |-> q,
                               cursor |-> next,
                               copy   |-> {}]
        /\ UNCHANGED <<rows, scalars, writes, steady, export, upload>>

ListPage == gateType \/ ListDocs

-----------------------------------------------------------------------------
(* Writers                                                                 *)

Commit(t, s) ==
    /\ writes < MaxWrites
    /\ writes'  = writes + 1
    /\ rows'    = t
    /\ scalars' = s
    /\ steady'  = {k \in steady : \A c \in {s} \cup reader.copy :
                                     k \in Selected(reader.query, c, t)}
    /\ UNCHANGED <<reader, listed, shown, export>>

(* created_at is the start of the transaction, on the database's clock: it *)
(* may be before that of rows already committed, or equal to it.           *)
InsertDoc == \E i \in IDs \ DOMAIN rows, t \in Times, d \in SUBSET Fields :
    /\ Commit([j \in DOMAIN rows \cup {i} |->
                  IF j = i THEN [status |-> "active", created |-> t, data |-> d] ELSE rows[j]],
              scalars)
    /\ UNCHANGED upload

UpdateDocData == \E i \in DOMAIN rows, d \in SUBSET Fields :
    /\ rows[i].status = "active"
    /\ Commit([rows EXCEPT ![i].data = d], scalars)
    /\ UNCHANGED upload

UpdateDocStatus == \E i \in DOMAIN rows :
    /\ Commit([rows EXCEPT ![i].status = IF @ = "active" THEN "deleted" ELSE "active"], scalars)
    /\ UNCHANGED upload

Evolve == \E s \in SUBSET Fields : Commit(rows, s) /\ UNCHANGED upload

-----------------------------------------------------------------------------
(* Export                                                                  *)

(* IterDocsAll opens its query: "[" is written.                            *)
StartExport ==
    /\ export.phase # "open"
    /\ export' = [phase |-> "open", taken |-> rows, sent |-> {}]
    /\ UNCHANGED <<rows, scalars, writes, reader, listed, shown, steady, upload>>

(* EncodeDocs writes the next row, in the order of ids.                    *)
SendDoc == \E i \in DOMAIN export.taken \ export.sent :
    /\ export.phase = "open"
    /\ \A j \in DOMAIN export.taken \ export.sent : i <= j
    /\ export' = [export EXCEPT !.sent = @ \cup {i}]
    /\ UNCHANGED <<rows, scalars, writes, reader, listed, shown, steady, upload>>

(* "]" once next has answered io.EOF.                                      *)
EndExport ==
    /\ export.phase = "open" /\ export.sent = DOMAIN export.taken
    /\ export' = [export EXCEPT !.phase = "closed"]
    /\ UNCHANGED <<rows, scalars, writes, reader, listed, shown, steady, upload>>

(* Mutant: the array is closed on the way out of an error too.             *)
phaseAfterErrorClosed == "closed"

phaseAfterError == "broken"

(* The query or the connection fails: the body just ends.                  *)
BreakExport ==
    /\ export.phase = "open"
    /\ export' = [export EXCEPT !.phase = phaseAfterError]
    /\ UNCHANGED <<rows, scalars, writes, reader, listed, shown, steady, upload>>

-----------------------------------------------------------------------------
(* Import                                                                  *)

exported == [rows   |-> [i \in export.sent |-> export.taken[i]],
             closed |-> export.phase = "closed"]

Foreign == [rows : Tables, closed : {TRUE}]

(* Mutant: what the file left out stays empty.                             *)
importedAsIs(r, now) == r

(* InsertImportBatch: the file's row, with what it left out filled in.     *)
imported(r, now) == [status  |-> IF r.status = "" THEN "active" ELSE r.status,
                created |-> IF r.created = 0 THEN now ELSE r.created,
                data    |-> r.data]

sizeOf(file) == Cardinality(DOMAIN file.rows)

(* AKSKAuth, importData, DecodeBatches, Import, for a file whose rows fit  *)
(* the schema.                                                             *)
Answer(file) ==
    IF sizeOf(file) > verifierLimit \/ sizeOf(file) > importMaxRows THEN "too large"
    ELSE IF ~file.closed THEN "not an array" ELSE "ok"

Import(file) == \E now \in Times :
    /\ upload' = [size |-> sizeOf(file), answer |-> Answer(file)]
    /\ Commit(IF Answer(file) = "ok"
              THEN [i \in DOMAIN file.rows |-> imported(file.rows[i], now)]
              ELSE rows, scalars)

ImportExported == export.phase \in {"closed", "broken"} /\ Import(exported)

ImportForeign == \E file \in Foreign : Import(file)

-----------------------------------------------------------------------------
NoQuery == [filter |-> "none", field |-> "none", deleted |-> FALSE, size |-> 0]

Init ==
    /\ rows    = [i \in {} |-> 0]
    /\ scalars = Fields
    /\ writes  = 0
    /\ reader  = [phase |-> "idle", query |-> NoQuery, cursor |-> {}, copy |-> {}]
    /\ listed  = {} /\ shown = 0 /\ steady = {}
    /\ export  = [phase |-> "idle", taken |-> rows, sent |-> {}]
    /\ upload  = [size |-> 0, answer |-> "none"]

Next ==
    \/ \E q \in Queries : StartList(q)
    \/ ListPage
    \/ InsertDoc \/ UpdateDocData \/ UpdateDocStatus \/ Evolve
    \/ StartExport \/ SendDoc \/ EndExport \/ BreakExport
    \/ ImportExported \/ ImportForeign

Spec == Init /\ [][Next]_vars

(* A client that follows its cursors, and a server that goes on with the   *)
(* page it has begun.                                                      *)
FairSpec == Spec /\ WF_vars(ListPage)

-----------------------------------------------------------------------------
(* Properties                                                              *)

TypeOK ==
    /\ DOMAIN rows \subseteq IDs /\ rows \in [DOMAIN rows -> Row]
    /\ DOMAIN export.taken \subseteq IDs /\ export.taken \in [DOMAIN export.taken -> Row]
    /\ export.sent \subseteq DOMAIN export.taken
    /\ reader.cursor \subseteq listed /\ Cardinality(reader.cursor) <= 1

(* A traversal that reached its last page has shown every row that its     *)
(* query selected all along, by the schema in force and by the one that    *)
(* the page in progress read at its gate, whatever was inserted late,      *)
(* removed or imported in the meantime (handler/data.go:48-100,            *)
(* repository/data.go:49-50, data_service.go:138, :181).                   *)
NothingMissed == reader.phase = "done" => steady \subseteq listed

(* No row comes twice unless an import gave it another created_at.         *)
ListedOnce == shown = Cardinality(listed)

(* The cursors of one traversal come to an end (handler/data.go:50).       *)
TraversalEnds == reader.phase = "reading" ~> reader.phase \in {"done", "refused"}

(* An export that an import accepts puts the table back as it was at the   *)
(* one moment the export began, soft-deleted rows, created_at and all: a   *)
(* truncated one is refused (data_service.go:386-389, handler/data.go:     *)
(* 189-194).                                                               *)
ExportRestores ==
    [][ImportExported /\ upload'.answer = "ok" => rows' = export.taken]_vars

(* The limit of the import endpoint is its own, not that of the signature  *)
(* check (app/providers.go:67-69).                                         *)
ImportLimitIsItsOwn == upload.answer = "too large" => upload.size > importMaxRows

=============================================================================
