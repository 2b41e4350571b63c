---------------------------- MODULE ReadsProofs ----------------------------
(***************************************************************************)
(* For every table, query, page size and interleaving of writes: a         *)
(* finished traversal has shown each row that its query selected all       *)
(* along, by the schema in force and by the copy each page works with, no  *)
(* traversal shows a row twice, and an export restores the table it was    *)
(* taken from.                                                             *)
(***************************************************************************)
EXTENDS Reads, FiniteSetTheorems, TLAPS

SortKeys == [created : Nat, id : Nat]

Table(t) == DOMAIN t \subseteq IDs /\ IsFiniteSet(DOMAIN t) /\ t \in [DOMAIN t -> Row]

TablesInv ==
    /\ Table(rows) /\ Table(export.taken)
    /\ export.sent \subseteq DOMAIN export.taken
    /\ export.phase = "closed" => export.sent = DOMAIN export.taken

(* What was listed came in strictly descending order down to the cursor.   *)
CursorInv ==
    /\ \/ reader.cursor = {}
       \/ \E c \in listed : /\ reader.cursor = {c}
                            /\ \A k \in listed \ {c} : ComesBefore(k, c)
    /\ reader.phase = "reading" /\ reader.cursor = {} => listed = {}

(* A steady row that was not listed is still ahead, also of the page that  *)
(* a copy of the schema is about to select.                                *)
SteadyInv ==
    /\ reader.phase = "reading" =>
          /\ reader.query \in Queries
          /\ \A c \in {scalars} \cup reader.copy :
                steady \subseteq Selected(reader.query, c, rows)
          /\ \A k \in steady : k \in listed \/ \A c \in reader.cursor : ComesBefore(c, k)
    /\ reader.phase = "done" => steady \subseteq listed

ListedInv == IsFiniteSet(listed) /\ listed \subseteq SortKeys /\ shown = Cardinality(listed)

Inv == TablesInv /\ CursorInv /\ SteadyInv /\ ListedInv

-----------------------------------------------------------------------------
(* The order of the keys                                                   *)

LEMMA Asymmetric ==
    ASSUME NEW a \in SortKeys, NEW b \in SortKeys, ComesBefore(a, b)
    PROVE  ~ComesBefore(b, a) /\ a # b
  BY DEF SortKeys, ComesBefore

LEMMA Transitive ==
    ASSUME NEW a \in SortKeys, NEW b \in SortKeys, NEW c \in SortKeys,
           ComesBefore(a, b), ComesBefore(b, c)
    PROVE  ComesBefore(a, c)
  BY DEF SortKeys, ComesBefore

LEMMA Total ==
    ASSUME NEW a \in SortKeys, NEW b \in SortKeys, ~ComesBefore(a, b)
    PROVE  a = b \/ ComesBefore(b, a)
<1>1. a = [created |-> a.created, id |-> a.id] /\ b = [created |-> b.created, id |-> b.id]
  BY DEF SortKeys
<1>2. a.created \in Nat /\ a.id \in Nat /\ b.created \in Nat /\ b.id \in Nat
  BY DEF SortKeys
<1>3. a.created = b.created /\ a.id = b.id => a = b
  BY <1>1
<1> QED
  BY <1>2, <1>3 DEF ComesBefore

(* The LIMIT is the page size that the handler compares with.              *)
LEMMA LimitIsPageSize ==
    ASSUME NEW n \in Int
    PROVE  limit(pageSize(n)) = pageSize(n)
  BY ReadsAssumption DEF limit, pageSize

LEMMA SelectedFinite ==
    ASSUME NEW t, Table(t), NEW q, NEW s
    PROVE  IsFiniteSet(Selected(q, s, t)) /\ Selected(q, s, t) \subseteq SortKeys
<1> DEFINE D == {i \in DOMAIN t : Selects(q, s, t[i])}
           f == [i \in D |-> Key(t, i)]
<1>1. IsFiniteSet(D)
  BY FS_Subset DEF Table
<1>2. f \in Surjection(D, Selected(q, s, t))
  BY DEF Surjection, Selected
<1>3. IsFiniteSet(Selected(q, s, t))
  BY <1>1, <1>2, FS_Surjection
<1>4. \A i \in DOMAIN t : Key(t, i) \in SortKeys
  BY ReadsAssumption DEF Table, Row, Key, SortKeys
<1> QED
  BY <1>3, <1>4 DEF Selected

-----------------------------------------------------------------------------
(* One page                                                                *)

(* The gate moves nothing: the copy it takes is the schema in force.       *)
LEMMA GateTypePreserves ==
    ASSUME Inv, gateType
    PROVE  Inv'
<1>1. /\ reader.phase = "reading" /\ UNCHANGED <<rows, scalars, listed, shown, steady, export>>
      /\ \/ reader' = [reader EXCEPT !.phase = "refused"]
         \/ reader' = [reader EXCEPT !.copy = {scalars}]
  BY DEF gateType
<1>2. TablesInv' /\ ListedInv'
  BY <1>1 DEF Inv, TablesInv, ListedInv
<1>3. CASE reader' = [reader EXCEPT !.phase = "refused"]
  <2>1. reader'.phase = "refused" /\ reader'.cursor = reader.cursor
    BY <1>1, <1>3
  <2> QED
    BY <1>1, <1>2, <2>1 DEF Inv, CursorInv, SteadyInv
<1>4. CASE reader' = [reader EXCEPT !.copy = {scalars}]
  <2>1. /\ reader'.phase = reader.phase /\ reader'.cursor = reader.cursor
        /\ reader'.query = reader.query
        /\ reader'.copy = {scalars} \/ reader'.copy = reader.copy
    BY <1>4
  <2> QED
    BY <1>1, <1>2, <2>1 DEF Inv, CursorInv, SteadyInv
<1> QED
  BY <1>1, <1>3, <1>4

LEMMA ListDocsPreserves ==
    ASSUME Inv, ListDocs
    PROVE  Inv'
<1>0. PICK s \in reader.copy :
         \E page \in SUBSET AfterCursor(reader.cursor, Selected(reader.query, s, rows)) :
            /\ IsPage(page, AfterCursor(reader.cursor, Selected(reader.query, s, rows)),
                      limit(pageSize(reader.query.size)))
            /\ listed' = listed \cup page
            /\ shown' = shown + Cardinality(page)
            /\ \E next \in nextCursor(page, reader.cursor, pageSize(reader.query.size)) :
                  reader' = [phase |-> IF next = {} THEN "done" ELSE "reading",
                             query |-> reader.query, cursor |-> next, copy |-> {}]
  BY DEF ListDocs
<1> DEFINE q    == reader.query
           all  == Selected(q, s, rows)
           keys == AfterCursor(reader.cursor, all)
           n    == pageSize(q.size)
<1>1. /\ reader.phase = "reading" /\ q \in Queries
      /\ UNCHANGED <<rows, scalars, steady, export>> /\ steady \subseteq all
  <2>1. reader.phase = "reading" /\ UNCHANGED <<rows, scalars, steady, export>>
    BY DEF ListDocs
  <2> QED
    BY <2>1 DEF Inv, SteadyInv
<1>2. PICK page \in SUBSET keys :
         /\ IsPage(page, keys, limit(n))
         /\ listed' = listed \cup page
         /\ shown' = shown + Cardinality(page)
         /\ \E next \in nextCursor(page, reader.cursor, n) :
               reader' = [phase |-> IF next = {} THEN "done" ELSE "reading",
                          query |-> q, cursor |-> next, copy |-> {}]
  BY <1>0
<1>3. PICK next \in nextCursor(page, reader.cursor, n) :
         reader' = [phase |-> IF next = {} THEN "done" ELSE "reading",
                    query |-> q, cursor |-> next, copy |-> {}]
  BY <1>2
<1>4. IsFiniteSet(all) /\ all \subseteq SortKeys
  BY SelectedFinite DEF Inv, TablesInv
<1>5. keys \subseteq all /\ \A k \in keys, c \in reader.cursor : ComesBefore(c, k)
  BY DEF AfterCursor
<1>6. IsFiniteSet(page) /\ page \subseteq SortKeys
  BY <1>2, <1>4, <1>5, FS_Subset
<1>7. \A k \in keys, l \in listed : ComesBefore(l, k)
  <2>1. listed \subseteq SortKeys /\ keys \subseteq SortKeys
    BY <1>4, <1>5 DEF Inv, ListedInv
  <2>2. CASE reader.cursor = {}
    BY <1>1, <2>2 DEF Inv, CursorInv
  <2>3. CASE reader.cursor # {}
    <3>1. PICK c \in listed : reader.cursor = {c} /\ \A k \in listed \ {c} : ComesBefore(k, c)
      BY <2>3 DEF Inv, CursorInv
    <3> QED
      BY <1>5, <2>1, <3>1, Transitive
  <2> QED
    BY <2>2, <2>3
<1>8. page \cap listed = {}
  BY <1>2, <1>4, <1>5, <1>7, Asymmetric DEF Inv, ListedInv
<1>9. ListedInv'
  <2>1. /\ IsFiniteSet(listed \cup page)
        /\ Cardinality(listed \cup page)
              = Cardinality(listed) + Cardinality(page) - Cardinality(listed \cap page)
    BY <1>6, FS_Union DEF Inv, ListedInv
  <2>2. Cardinality(listed \cap page) = 0
    BY <1>8, FS_EmptySet
  <2>3. Cardinality(listed) \in Nat /\ Cardinality(page) \in Nat
    BY <1>6, FS_CardinalityType DEF Inv, ListedInv
  <2>4. Cardinality(listed') = shown'
    BY <1>2, <2>1, <2>2, <2>3 DEF Inv, ListedInv
  <2> QED
    BY <1>2, <1>6, <2>1, <2>4 DEF Inv, ListedInv
<1>10. reader'.phase = IF next = {} THEN "done" ELSE "reading"
  BY <1>3
<1>11. reader'.query = q /\ reader'.cursor = next /\ reader'.copy = {}
  BY <1>3
<1>12. limit(n) = n
  <2>1. q.size \in Int
    BY <1>1, ReadsAssumption DEF Query
  <2> QED
    BY <2>1, LimitIsPageSize
<1>13. \A k \in steady : k \in keys \/ k \in listed
  BY <1>1 DEF Inv, SteadyInv, AfterCursor
<1>14. TablesInv'
  BY <1>1 DEF Inv, TablesInv
<1>15. CASE Cardinality(page) = n
  <2>1. PICK last \in page : next = {last} /\ \A l \in page \ {last} : ComesBefore(l, last)
    <3>1. PICK k \in page : next = {k} /\ \A l \in page : ~ComesBefore(k, l)
      BY <1>3, <1>15 DEF nextCursor, LastOf
    <3>2. \A l \in page \ {k} : ComesBefore(l, k)
      BY <1>6, <3>1, Total
    <3> QED
      BY <3>1, <3>2
  <2>2. next # {}
    BY <2>1
  <2>3. \A l \in listed' \ {last} : ComesBefore(l, last)
    BY <1>2, <1>7, <2>1
  <2>4. CursorInv'
    BY <1>2, <1>11, <2>1, <2>2, <2>3 DEF CursorInv
  <2>5. \A k \in keys \ page : ComesBefore(last, k)
    <3>1. \A k \in keys \ page : ~ComesBefore(k, last) /\ k # last /\ k \in SortKeys
      BY <1>2, <1>4, <1>5, <2>1 DEF IsPage
    <3> QED
      BY <1>6, <3>1, Total
  <2>6. \A k \in steady : k \in listed' \/ ComesBefore(last, k)
    BY <1>2, <1>13, <2>5
  <2>7. SteadyInv'
    <3>1. reader'.phase = "reading" /\ reader'.query \in Queries
      BY <1>1, <1>10, <1>11, <2>2
    <3>2. \A c \in {scalars'} \cup reader'.copy : steady' \subseteq Selected(reader'.query, c, rows')
      BY <1>1, <1>11 DEF Inv, SteadyInv
    <3>3. \A k \in steady' : k \in listed' \/ \A c \in reader'.cursor : ComesBefore(c, k)
      BY <1>1, <1>11, <2>1, <2>6
    <3> QED
      BY <3>1, <3>2, <3>3 DEF SteadyInv
  <2> QED
    BY <1>14, <1>9, <2>4, <2>7 DEF Inv
<1>16. CASE Cardinality(page) # n
  <2>1. next = {}
    BY <1>3, <1>16 DEF nextCursor
  <2>2. page = keys
    BY <1>2, <1>12, <1>16 DEF IsPage
  <2>3. steady' \subseteq listed'
    BY <1>1, <1>2, <1>13, <2>2
  <2>4. CursorInv' /\ SteadyInv'
    BY <1>10, <1>11, <2>1, <2>3 DEF CursorInv, SteadyInv
  <2> QED
    BY <1>14, <1>9, <2>4 DEF Inv
<1> QED
  BY <1>15, <1>16

-----------------------------------------------------------------------------
(* A write                                                                 *)

(* A commit only has to leave a table; what is steady stays selected.      *)
LEMMA CommitPreserves ==
    ASSUME Inv, NEW t, NEW s, Commit(t, s), Table(t)
    PROVE  Inv'
<1>1. TablesInv'
  BY DEF Inv, TablesInv, Commit
<1>2. /\ steady' = {k \in steady : \A c \in {scalars'} \cup reader'.copy :
                                    k \in Selected(reader.query, c, rows')}
      /\ UNCHANGED <<reader, listed, shown>>
  BY DEF Commit
<1>3. CursorInv' /\ ListedInv'
  BY <1>2 DEF Inv, CursorInv, ListedInv
<1>4. SteadyInv'
  BY <1>2 DEF Inv, SteadyInv
<1> QED
  BY <1>1, <1>3, <1>4 DEF Inv

LEMMA TableWithRow ==
    ASSUME NEW t, Table(t), NEW i \in IDs, NEW r \in Row
    PROVE  Table([j \in DOMAIN t \cup {i} |-> IF j = i THEN r ELSE t[j]])
<1>1. IsFiniteSet(DOMAIN t \cup {i})
  BY FS_AddElement DEF Table
<1> QED
  BY <1>1 DEF Table

(* What an import makes of a file is a table; an export comes back as it   *)
(* was.                                                                    *)
LEMMA ImportedTable ==
    ASSUME NEW f, DOMAIN f \subseteq IDs, IsFiniteSet(DOMAIN f),
           f \in [DOMAIN f -> FileRow], NEW now \in Times
    PROVE  Table([i \in DOMAIN f |-> imported(f[i], now)])
<1>1. \A i \in DOMAIN f : imported(f[i], now) \in Row
  BY ReadsAssumption DEF imported, Row, FileRow, RowStatus
<1> QED
  BY <1>1 DEF Table

LEMMA ImportedRow ==
    ASSUME NEW r \in Row, NEW now
    PROVE  imported(r, now) = r
  BY DEF imported, Row, RowStatus

LEMMA ExportedFile ==
    ASSUME Inv
    PROVE  /\ DOMAIN exported.rows = export.sent /\ export.sent \subseteq DOMAIN export.taken
           /\ DOMAIN exported.rows \subseteq IDs /\ IsFiniteSet(DOMAIN exported.rows)
           /\ exported.rows \in [DOMAIN exported.rows -> FileRow]
           /\ \A i \in export.sent : exported.rows[i] = export.taken[i]
<1>1. exported.rows = [i \in export.sent |-> export.taken[i]]
  BY DEF exported
<1>2. Table(export.taken) /\ export.sent \subseteq DOMAIN export.taken
  BY DEF Inv, TablesInv
<1>3. IsFiniteSet(export.sent)
  BY <1>2, FS_Subset DEF Table
<1>4. \A i \in export.sent : export.taken[i] \in FileRow
  BY <1>2 DEF Table, Row, FileRow
<1> QED
  BY <1>1, <1>2, <1>3, <1>4 DEF Table

LEMMA ImportPreserves ==
    ASSUME Inv, NEW file, Import(file),
           DOMAIN file.rows \subseteq IDs, IsFiniteSet(DOMAIN file.rows),
           file.rows \in [DOMAIN file.rows -> FileRow]
    PROVE  Inv'
<1>1. PICK now \in Times :
         Commit(IF Answer(file) = "ok"
                THEN [i \in DOMAIN file.rows |-> imported(file.rows[i], now)]
                ELSE rows, scalars)
  BY DEF Import
<1>2. Table([i \in DOMAIN file.rows |-> imported(file.rows[i], now)])
  BY ImportedTable
<1>3. Table(rows)
  BY DEF Inv, TablesInv
<1> QED
  BY <1>1, <1>2, <1>3, CommitPreserves

-----------------------------------------------------------------------------
LEMMA InitInv == Init => Inv
<1> SUFFICES ASSUME Init PROVE Inv
  OBVIOUS
<1>1. Table(rows)
  BY FS_EmptySet DEF Init, Table
<1>2. TablesInv
  BY <1>1 DEF Init, TablesInv
<1>3. CursorInv /\ SteadyInv
  BY DEF Init, CursorInv, SteadyInv
<1>4. ListedInv
  BY FS_EmptySet DEF Init, ListedInv
<1> QED
  BY <1>2, <1>3, <1>4 DEF Inv

LEMMA StartListPreserves ==
    ASSUME Inv, NEW q \in Queries, StartList(q)
    PROVE  Inv'
<1>1. /\ reader'.phase = "reading" /\ reader'.query = q /\ reader'.cursor = {}
      /\ reader'.copy = {}
      /\ listed' = {} /\ shown' = 0 /\ steady' = Selected(q, scalars, rows)
      /\ UNCHANGED <<rows, scalars, export>>
  BY DEF StartList
<1>2. TablesInv'
  BY <1>1 DEF Inv, TablesInv
<1>3. CursorInv' /\ SteadyInv'
  BY <1>1 DEF CursorInv, SteadyInv
<1>4. ListedInv'
  BY <1>1, FS_EmptySet DEF ListedInv
<1> QED
  BY <1>2, <1>3, <1>4 DEF Inv

(* An export touches nothing but itself.                                   *)
LEMMA ExportPreserves ==
    ASSUME Inv, StartExport \/ SendDoc \/ EndExport \/ BreakExport
    PROVE  Inv'
<1>1. UNCHANGED <<rows, scalars, reader, listed, shown, steady>>
  BY DEF StartExport, SendDoc, EndExport, BreakExport
<1>2. CursorInv' /\ SteadyInv' /\ ListedInv'
  BY <1>1 DEF Inv, CursorInv, SteadyInv, ListedInv
<1>3. TablesInv'
  <2>1. CASE StartExport
    <3>1. export'.taken = rows /\ export'.sent = {} /\ export'.phase = "open"
      BY <2>1 DEF StartExport
    <3> QED
      BY <1>1, <3>1 DEF Inv, TablesInv
  <2>2. CASE SendDoc
    <3>1. PICK i \in DOMAIN export.taken : export' = [export EXCEPT !.sent = @ \cup {i}]
      BY <2>2 DEF SendDoc
    <3>2. export.phase = "open"
      BY <2>2 DEF SendDoc
    <3>3. export'.taken = export.taken /\ export'.phase = export.phase
          /\ (export'.sent = export.sent \cup {i} \/ export'.sent = export.sent)
      BY <3>1
    <3> QED
      BY <1>1, <3>2, <3>3 DEF Inv, TablesInv
  <2>3. CASE EndExport
    <3>1. export'.taken = export.taken /\ export'.sent = export.sent
          /\ export.sent = DOMAIN export.taken
      BY <2>3 DEF EndExport
    <3> QED
      BY <1>1, <3>1 DEF Inv, TablesInv
  <2>4. CASE BreakExport
    <3>1. export'.taken = export.taken /\ export'.sent = export.sent
      BY <2>4 DEF BreakExport
    <3>2. export' = [export EXCEPT !.phase = "broken"]
      BY <2>4 DEF BreakExport, phaseAfterError
    <3>3. export'.phase = "broken" \/ export'.phase = export.phase
      BY <3>2
    <3> QED
      BY <1>1, <3>1, <3>3 DEF Inv, TablesInv
  <2> QED
    BY <2>1, <2>2, <2>3, <2>4
<1> QED
  BY <1>2, <1>3 DEF Inv

LEMMA NextInv ==
    ASSUME Inv, [Next]_vars
    PROVE  Inv'
<1>1. CASE \E q \in Queries : StartList(q)
  BY <1>1, StartListPreserves
<1>2. CASE ListPage
  BY <1>2, GateTypePreserves, ListDocsPreserves DEF ListPage
<1>3. CASE InsertDoc
  <2>1. PICK i \in IDs \ DOMAIN rows, t \in Times, d \in SUBSET Fields :
           Commit([j \in DOMAIN rows \cup {i} |->
                      IF j = i THEN [status |-> "active", created |-> t, data |-> d]
                      ELSE rows[j]], scalars)
    BY <1>3 DEF InsertDoc
  <2>2. [status |-> "active", created |-> t, data |-> d] \in Row
    BY ReadsAssumption DEF Row, RowStatus
  <2>3. Table([j \in DOMAIN rows \cup {i} |->
                  IF j = i THEN [status |-> "active", created |-> t, data |-> d] ELSE rows[j]])
    BY <2>2, TableWithRow DEF Inv, TablesInv
  <2> QED
    BY <2>1, <2>3, CommitPreserves
<1>4. CASE UpdateDocData
  <2>1. PICK i \in DOMAIN rows, d \in SUBSET Fields : Commit([rows EXCEPT ![i].data = d], scalars)
    BY <1>4 DEF UpdateDocData
  <2>2. Table(rows)
    BY DEF Inv, TablesInv
  <2>3. [rows[i] EXCEPT !.data = d] \in Row
    BY <2>2 DEF Table, Row
  <2>4. Table([rows EXCEPT ![i].data = d])
    BY <2>2, <2>3 DEF Table
  <2> QED
    BY <2>1, <2>4, CommitPreserves
<1>5. CASE UpdateDocStatus
  <2>1. PICK i \in DOMAIN rows :
           Commit([rows EXCEPT ![i].status = IF @ = "active" THEN "deleted" ELSE "active"], scalars)
    BY <1>5 DEF UpdateDocStatus
  <2>2. Table(rows)
    BY DEF Inv, TablesInv
  <2>3. [rows[i] EXCEPT !.status = IF @ = "active" THEN "deleted" ELSE "active"] \in Row
    BY <2>2 DEF Table, Row, RowStatus
  <2>4. Table([rows EXCEPT ![i].status = IF @ = "active" THEN "deleted" ELSE "active"])
    BY <2>2, <2>3 DEF Table
  <2> QED
    BY <2>1, <2>4, CommitPreserves
<1>6. CASE Evolve
  BY <1>6, CommitPreserves DEF Evolve, Inv, TablesInv
<1>7. CASE StartExport \/ SendDoc \/ EndExport \/ BreakExport
  BY <1>7, ExportPreserves
<1>8. CASE ImportExported
  <2>1. Import(exported)
    BY <1>8 DEF ImportExported
  <2> QED
    BY <2>1, ExportedFile, ImportPreserves
<1>9. CASE ImportForeign
  <2>1. PICK file \in Foreign : Import(file)
    BY <1>9 DEF ImportForeign
  <2>2. file.rows \in Tables
    BY DEF Foreign
  <2> QED
    BY <2>1, <2>2, ReadsAssumption, ImportPreserves
<1>10. CASE UNCHANGED vars
  BY <1>10 DEF vars, Inv, TablesInv, CursorInv, SteadyInv, ListedInv
<1> QED
  BY <1>1, <1>2, <1>3, <1>4, <1>5, <1>6, <1>7, <1>8, <1>9, <1>10 DEF Next

LEMMA InvAlways == Spec => []Inv
<1>1. Inv /\ [Next]_vars => Inv'
  BY NextInv
<1> QED
  BY InitInv, <1>1, PTL DEF Spec

-----------------------------------------------------------------------------
(* Rows, snapshots and cursors keep their types.                           *)
THEOREM Typed == Spec => []TypeOK
<1>1. ASSUME Inv PROVE TypeOK
  <2>1. Cardinality({}) = 0 /\ \A c : Cardinality({c}) = 1
    BY FS_EmptySet, FS_Singleton
  <2>2. reader.cursor = {} \/ \E c \in listed : reader.cursor = {c}
    BY <1>1 DEF Inv, CursorInv
  <2>3. reader.cursor \subseteq listed /\ Cardinality(reader.cursor) <= 1
    BY <2>1, <2>2
  <2> QED
    BY <1>1, <2>3 DEF Inv, TablesInv, Table, TypeOK
<1> QED
  BY InvAlways, <1>1, PTL

(* A finished traversal missed no row that was there, unmoved and selected *)
(* from its beginning on, by the schema in force and by the copy that the  *)
(* page in progress took at its gate (handler/data.go:48-100,              *)
(* repository/data.go:49-50, data_service.go:138, :181).                   *)
THEOREM TraversalsAreComplete == Spec => []NothingMissed
<1>1. Inv => NothingMissed
  BY DEF Inv, SteadyInv, NothingMissed
<1> QED
  BY InvAlways, <1>1, PTL

(* A traversal never shows a row twice under one created_at.               *)
THEOREM TraversalsAreOnce == Spec => []ListedOnce
<1>1. Inv => ListedOnce
  BY DEF Inv, ListedInv, ListedOnce
<1> QED
  BY InvAlways, <1>1, PTL

(* An accepted import of an export restores the exported table exactly     *)
(* (data_service.go:386-389).                                              *)
THEOREM ExportsRestore == Spec => ExportRestores
<1>1. ASSUME Inv, ImportExported, upload'.answer = "ok"
      PROVE  rows' = export.taken
  <2>1. PICK now \in Times :
           /\ upload' = [size |-> sizeOf(exported), answer |-> Answer(exported)]
           /\ Commit(IF Answer(exported) = "ok"
                     THEN [i \in DOMAIN exported.rows |-> imported(exported.rows[i], now)]
                     ELSE rows, scalars)
    BY <1>1 DEF ImportExported, Import
  <2>2. Answer(exported) = "ok"
    BY <1>1, <2>1
  <2>3. exported.closed
    BY <2>2 DEF Answer
  <2>4. export.sent = DOMAIN export.taken
    BY <1>1, <2>3 DEF exported, Inv, TablesInv
  <2>5. rows' = [i \in DOMAIN exported.rows |-> imported(exported.rows[i], now)]
    BY <2>1, <2>2 DEF Commit
  <2>6. \A i \in DOMAIN export.taken : imported(export.taken[i], now) = export.taken[i]
    BY <1>1, ImportedRow DEF Inv, TablesInv, Table
  <2>7. export.taken = [i \in DOMAIN export.taken |-> export.taken[i]]
    BY <1>1 DEF Inv, TablesInv, Table
  <2> QED
    BY <1>1, <2>4, <2>5, <2>6, <2>7, ExportedFile
<1> QED
  BY InvAlways, <1>1, PTL DEF ExportRestores

=============================================================================
