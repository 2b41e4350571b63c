# A verification development of activelist

activelist stores documents of user-defined types in PostgreSQL: an
administrator registers a type (a schema), evolves it and finally deprecates it;
clients insert, update, soft-delete, restore, list, export and import rows of a
type. The program keeps no data in memory. Every request is a short sequence of
SQL statements, most of them in one transaction, several replicas serve the same
database, and what keeps rows and schemas consistent is the order of those
statements, the row and table locks they take, a version number compared before
a write, and a table lock around an import. What a replica does share among its
requests is a pool of connections and a key ring. That is what is modelled here.

Source paths are relative to `src/`.

## 1. Inventory

| Component | Source | State | Operations |
|---|---|---|---|
| Data service and storage | `internal/service/data_service.go`, `internal/repository/data.go` | one table per type: `id, version, status, data`; an id sequence | Insert, Get, List, Update, SoftDelete, Restore |
| Import and export | `internal/service/data_service.go:389-482`, `internal/repository/transfer.go`, `internal/transfer/transfer.go` | the same table; a table lock for the length of an import; a cursor for the length of an export | Import (lock, delete, batches, setval), Export (stream) |
| Type service and metadata | `internal/service/type_service.go`, `internal/meta/meta.go` | `data_types` (schema, status, version), `data_type_schema_history` (append only) | Register, Evolve, Deprecate, Get, List, History |
| Dynamic tables | `internal/repository/dynamic.go`, `migrations/` | the database catalogue | CreateTableIfNotExists |
| Validation | `internal/validation/` | none | ValidateTypeName, ValidateFields, ValidateUniqueFields, ValidateData |
| HTTP layer | `internal/handler/`, `internal/middleware/` | none | routes, binding, cursor parsing, request id, signature check, access log |
| Application | `internal/app/`, `cmd/apiserver`, `internal/config`, `internal/repository/migrate.go` | connection pool, key ring, HTTP server | load, start, migrate, serve, drain, stop |
| Errors | `internal/apperr` | none | the outcome classes of all operations |
| Backup loop | `deploy/backup/backup.sh` | dump files, the day last done | dump, retry, rotate |

**How they interact.** A handler calls one service operation. Data operations
first read the type's metadata row through the pool (`gateType`), outside their
transaction; the copy they get decides admission and validation for the whole
request. Type operations change the metadata row and its history in one
transaction and read their answer through the pool after it. Data and type
operations never lock the same thing, so the schema and status a data request
works with may be stale when it commits; the comment at `data_service.go:65`
accepts that, and the models keep it. Requests meet in PostgreSQL: row locks
(`SELECT ... FOR UPDATE`, `DELETE`), table locks (`ROW EXCLUSIVE` of a write,
`SHARE ROW EXCLUSIVE` of an import), the unique index on type names, and the id
sequence; and in their replica's pool, where three code paths take a second
connection while they hold the first.

**What is hard.**

* Interleavings: update against update, restore against insert of the same key,
  import against everything, evolution against deprecation, a reader that pages
  or streams against every writer.
* Staleness: the gate's copy, the version a client holds across an import, the
  copy Deprecate takes before it waits, rows older than their schema.
* Failure: a bad row in a late batch, a connection lost between two statements,
  a COMMIT whose outcome is unknown, an export cut short after its 200,
  `setval`, which no rollback undoes.
* Waiting: 5 s `lock_timeout` on data transactions and none on type
  transactions, the deadlock detector, an import whose client uploads slowly,
  connections held while waiting for another one, a stop while requests run.

**What makes each part correct.**

* Data table: an accepted update is merged onto what its author read; versions
  never repeat for different contents; soft-deleted data are frozen; duplicates
  of a unique key only through the registered window; an import replaces the
  table exactly or not at all; the sequence stays ahead of the ids; every
  request is answered; and all of it looks, from outside, as if each request
  happened at one instant.
* Types: metadata row, table and history agree; evolutions are not lost; a
  deprecated type is final; history in the order of the changes.
* Rows and schemas: every row fits a schema its type has had; evolution never
  locks a row out except by removing a field; a leftover is explained.
* Readers: a traversal misses nothing, repeats nothing and ends; an export is
  one moment's table and an import of it restores that moment.
* Server: nothing unsigned runs, every request ends, a signal stops the process.

## 2. Modules

| Module | Models | Uses |
|---|---|---|
| `Documents` | rows, schemas, requests and files, and the pure functions on them | – |
| `DataTable` | one type's table and all requests that write it, statement by statement | Documents |
| `VersionedStore` | what the data endpoints promise: atomic requests on versioned rows | Documents |
| `StoreRefinement` | proof that DataTable implements VersionedStore | DataTableProofs |
| `DuplicateWindow` | proof that duplicates come only through the registered window | DataTableProofs |
| `TypeRegistry` | registration, evolution, deprecation and the schema history | – |
| `VersionedTypes` | what the type endpoints promise: atomic requests on a catalogue of types | – |
| `TypesRefinement` | proof that TypeRegistry implements VersionedTypes | TypeRegistryProofs |
| `Validation` | field definitions, values, `ValidateData`, `mergeData` | – |
| `LazyMigration` | writes under an evolving schema | TypeRegistry (instance), Validation |
| `Reads` | listing by cursor, export, and import of exports, on a changing table | – |
| `Server` | configuration, start, signature check, connection pool, stop | – |
| `MCDataTable`, `MCTypeRegistry`, `MCLazyMigration`, `MCReads`, `MCServer` | values for TLC | the module named |
| `DataTableProofs`, `TypeRegistryProofs`, `LazyMigrationProofs`, `ReadsProofs`, `ServerProofs` | theorems | the module named |

`PROJECT.json` maps every definition to the lines it stands for.

### DataTable

A *process* is a client with at most one request in flight, on any replica; a
*step* is one SQL statement. The shared state is `def` (the metadata row),
`rows` (the committed table), `seq` (what `nextval` returns next); `epoch` is a
ghost that counts committed imports. Each process has `pc` (its next statement),
`req` (the request, with the copy of `def` its gate read), `tx` (its
transaction: table lock `held`, row `locks`, the locked `row`, private `writes`)
and `reply`; `seen` is the last document a client was sent. `missed`, in `tx`,
is a ghost too: the rows that other transactions changed after the duplicate
check.

| Action | Code |
|---|---|
| `StartInsert`, `StartUpdate`, `StartStatusChange`, `StartImport` | gate, argument checks, `Begin`, `SET LOCAL lock_timeout` |
| `Get` | `Get`, one read outside a transaction |
| `GetDocForUpdate`, `RowGranted` | `SELECT ... FOR UPDATE`, at once or after a wait, with the decisions the handler takes on the row (deleted, version, merge, validation) |
| `CheckUniqueDup` | `checkUniqueDup` / `FindActiveDupID` |
| `InsertDoc`, `UpdateDoc` | the INSERT; the UPDATE of `UpdateDocData` or `UpdateDocStatus` |
| `LockForReplace`, `DeleteAllDocs`, `ImportBatch`, `SetSequenceAfterImport` | the statements of `Import`; DELETE locks the rows one at a time, which is where it can deadlock |
| `Commit` | `tx.Commit`: the private writes replace the committed rows |
| `LockTimeout`, `DeadlockVictim` | 55P03, which is a 409 except in DELETE; 40P01, which is a 500 |
| `CommitApplied`, `CommitAborted`, `Disconnect` | an error from COMMIT with either outcome; a broken connection or cancelled context, after which PostgreSQL rolls back |
| `Evolve`, `Deprecate` | what type requests do to the metadata row, as seen from the table |

PostgreSQL is modelled as the code uses it. READ COMMITTED: a statement sees
what is committed when it starts; a `FOR UPDATE` that waited follows the row to
its newest version, but a row that was deleted meanwhile is gone, also when the
deleting transaction inserted one of the same id. `ROW EXCLUSIVE` conflicts with
`SHARE ROW EXCLUSIVE`, which conflicts with itself. `FOR UPDATE` takes neither.
`nextval` and `setval` are immediate and survive a rollback.

Abstractions. A document's data is a function from a fixed set of fields to
values or `Null`; a missing field and a null one are the same, as they are for
the required-field test and `FindActiveDupID`. `Valid` keeps that test of
`ValidateData`; the rest of it is in `Validation`, and rows whose keys left the
schema are in `LazyMigration`. A file is a sequence of documents and a flag for
a body that does not parse to its end (truncated, malformed, over the size
limit). Timestamps and operators are left out. With the signature check the
body (up to 16 MB) is read before the handler; without it, while the lock is
held. The model allows the slower one: `ImportBatch` may be delayed for ever.

### VersionedStore and the refinement

`VersionedStore` has the table, the requests that wait for an answer, and the
answers: no statements, no transactions, no locks. `updateData` is a
compare-and-set on the version the client sent, `MoveTo` (delete and restore) is
idempotent, `importData` replaces the table by the file, `Refuse` answers
without effect, and an effect may be answered 500 (`Settle`). `DataTable`
instantiates it as `Store`; the refinement mapping is the identity except for
`asks`, which hides the id an INSERT draws. A request takes effect at its COMMIT
and every other statement is a stutter or a refusal.

### TypeRegistry

Shared state: `types` (`data_types`), `tables` (which data tables exist),
`history` (rows in the order they were committed, each with its `id`) and
`historyID`. The actions are the statements of `Register`, `Evolve` and
`Deprecate`: `InsertType` (waits on the unique index for an uncommitted row of
the same name), `UpdateSchema` (the compare-and-set of `meta.go:148`; a row that
does not match is skipped without waiting, one that matches is matched again
when its lock is granted), `EvolveRefused` (the re-read that tells a version
conflict from a deprecation), `DeprecateLook`, `DeprecateMark`, `InsertHistory`
(which reads the row again under its lock), `Commit`, `ReadBack`. Schemas are
opaque. The faults are those of DataTable and a failing read.

### VersionedTypes and the refinement

`VersionedTypes` has the catalogue `types`, the `log` of what was done, the
requests (`asks`) and the answers, and for each request whether it has had its
effect (`stage`): no statements, no transactions, no locks. `registerType`,
`evolveType` (a compare-and-set on the version the client sent) and
`deprecateType` change a type and the log in one step; `Nothing` is a
deprecation that finds the type deprecated, or an evolution that finds another
version; `Refuse`, `Done` and `Fail` answer. Two answers come later than what
they report, and the specification says so rather than hide it: `Done` shows the
type as it is at the answer, because every change reads its answer through the
pool after its COMMIT (`type_service.go:61`, `:128`, `:185`), and the reason of a
refused evolution is read after the UPDATE that found no row (`:107`).
`TypeRegistry` instantiates it as `Catalogue`: `stage` is read off `pc`, and `log`
is the history without its ids. A request takes effect at its COMMIT.

### Validation and LazyMigration

`Validation` keeps of a JSON value what the checks look at: its kind, the number
of runes of a string, the elements of a list. `ValidateData` walks the keys of
the data in Go's random map order and stops at the first that is wrong, so it is
the *set* of refusals it may return; only when all keys are right does it look,
in schema order, for a missing required one. The limits (255, 65535, 100) are
constants of the module, so that TLC can reach them.

`LazyMigration` runs `TypeRegistry` (as `Types`, with its own clients) beside
writers. `Arrive` takes the copy of the schema at the gate, which `Admits` soft
deletes and restores of a deprecated type too; `ValidateInsert`,
`LockAndValidate` validate with it; a refusal for an unknown field is explained
by `LookUp`, which reads the history through the pool, or fails to, while an
update's transaction still holds its row; `InsertRow`, `UpdateRow`, `MoveRow`
(soft delete and restore, which validate nothing) and `ImportAll` write. Unique
keys and the table's lock protocol are DataTable's matter and left out.

### Reads

One table, seen by a client that follows the cursors of `listData`
(`StartList`, `ListPage`) and by an export (`StartExport`, `SendDoc`,
`EndExport`, `BreakExport`), while it is written (`InsertDoc`, `UpdateDocData`,
`UpdateDocStatus`, `Evolve`, `ImportExported`, `ImportForeign`; one step each,
COMMIT included). `created_at` is chosen freely: `NOW()` is the start of a
transaction, so a row may appear behind a cursor's position or at the same
instant as another. Whether a row matches a keyword or an exact filter is a
property of its data and of the schema's scalar fields, both of which change.
The two clamps of the page size, in the handler and in the service, are
`pageSize` and `limit`. A page is two statements through the pool, and so two
steps: `gateType` reads the schema and checks the filter against it, `ListDocs`
is the SELECT, which searches the scalar fields of that copy. `steady` is a
ghost: the sort keys that the query has selected ever since the traversal began,
by the schema in force at each moment and, while a page is between its two steps,
by the copy it holds.

### Server

One replica. `sources` is what environment, file and defaults say;
`Load`, `InitializeApp`, `MigrateUp` lead to `serving` or `failed`; `Signal`,
`Shutdown`, `Exit` to `stopped`, and `Killed` can come at any time. A request is
the *plan* of its uses of the pool, read off the handlers: a query, or a
transaction on one lock, possibly one that *nests*, which means that it takes a
second connection while it has the first. `Acquire`, `AcquireSecond`,
`ReleaseSecond`, `Lock`, `Finish` walk the plan, `Refused` is the lock timeout
(data transactions only), `Cancelled` a failing statement or a client that hangs
up, `End` the deferred Rollback. The data are elsewhere: a request may take any
of its plans.

## 3. Properties

DataTable:

* `ImplementsStore`: the refinement. It is the statement that the rest of the
  service may be understood without transactions.
* `LockDiscipline`: at every statement of every request, what it holds and what
  it has read agree with the committed table. It is the inductive invariant.
* `VersionIdentifiesContent`, `VersionedStep`, `NoLostUpdate`: optimistic
  locking. `seen` relates the answer a client got many steps before to the
  row its update finally meets.
* `DuplicateOnlyInWindow`: `checkUniqueDup` promises no uniqueness (its comment
  registers the window), so the property says exactly what is left of it: every
  active row with the key of a committed write came after its check.
* `DeprecatedFrozen`: requests the gate admitted before may still write, nobody
  else; soft delete and restore remain possible and move only the status.
* `ImportReplacesAll`, `SequenceAhead`: the two promises of an import.
* `OnlyImportsDeadlock`: requests take locks in different orders, and the code
  relies on timeouts instead of an order. The property says how far that goes:
  the only cycle is an update that has its row against an import that has the
  table, and without one somebody in flight waits for nobody.
* `EveryRequestAnswered`: liveness.

TypeRegistry:

* `TypeOK` also says that a type and its table appear together; one COMMIT
  publishes both, so this only guards the model against losing one of them.
* `HistoryMatchesType`, `HistoryIDsInOrder`: the history tells the row's story.
* `NoLostEvolution`: compare-and-set, and the finality of deprecation.
* `AnswerShowsChange`: the answer to a change may show a later one, but never an
  earlier state, nor the version asked for with somebody else's schema.
* `ImplementsTypes`: the refinement.
* `EveryRequestAnswered`: liveness without timeouts.

LazyMigration:

* `RowsFitSomeSchema`: with stale gates, merges and rows that carry no schema
  version, each row still fits, whole, one schema of the history.
* `OnlyRemovedFieldsBlock`: whatever an evolution requires, retypes or tightens,
  some patch makes the row fit; only a key that left the schema stands in the
  way.
* `LeftoverStays`: the other side of it. The data of a row with a key that left
  the schema change no more, except by an import or by an update whose gate saw
  another schema; that the gate's copy is stale is the only way around the rule.
  Soft delete and restore go on moving the row's status and version.
* `LeftoverIsExplained`: a key the row itself brings is never answered as a
  misspelling, although the history is read later and elsewhere.

Reads: `NothingMissed`, `ListedOnce`, `TraversalEnds` (keyset paging under
writers; `NothingMissed` is about the rows in `steady`, so a row that only the
newest schema selects, while a page still works with an older copy, may be
missed), `ExportRestores` (snapshot, truncation and import together).

Server: `NothingUnverifiedRuns` (config, start and routes together: the check is
mounted only on a ring that is not empty, so the start has to refuse it),
`PoolNeverStuck` (with fewer nesting requests than connections; `Server_pool`
shows the sentence that this bound contradicts), `NobodyWaitsForAll` (connections
and locks taken together: a request may hold a row and wait for a connection
while those who hold the connections wait for the row, and only the
`lock_timeout` of the latter keeps this from being a deadlock that PostgreSQL
cannot see), `EveryRequestEnds`, `SignalStops`.

## 4. Runs and bounds

| Run | Instance | Shows |
|---|---|---|
| `DataTable_safety` | 2 clients, 3 requests, rows 1 (active) and 2 (deleted, same key), versions 1–3, imports of one and two rows, connections lost and failing COMMITs at every step | optimistic locking, the lock discipline and the refinement under full interleaving and every fault |
| `DataTable_unique` | 2 clients, 3 requests, a schema with a unique required field and one without, evolution and deprecation at any moment, an import | the duplicate window and the gate |
| `DataTable_import` | 2 clients, 3 requests, no faults, files that are right, empty, smaller than the table, doubled, invalid, truncated; batches of 1 row; fairness | imports against imports and writes; the sequence; deadlocks; answers |
| `TypeRegistry` | 2 clients, 5 requests, one name, two schemas, versions 1–2, all faults; fairness | history, compare-and-set, the refinement, answers without timeouts |
| `LazyMigration_safety` | 1 admin with 3 requests, 2 writers with 3; three schemas (one field; tighter and a required second one; the second alone); imported rows active or deleted; reads that fail | rows against schemas, leftovers |
| `Reads_safety` | 3 ids, 2 instants, 3 writes, pages of 1 and 2 rows, keyword and exact filter, files with missing status and time; fairness of the reader | paging and export under writers |
| `Server_safety` | 3 requests, 2 connections, 1 lock of each kind, at most 1 nesting request, 5 configurations; fairness | start, pool and locks, stop |

Why this is enough to be interesting: each hazard is a conflict of two requests
(three where one waits for a waiter) about one row, one key, one name, one
connection or the table. Two rows let an import hold one and wait for the other;
a batch of one row puts every failure between batches; three requests allow a
write, an import and a write behind it; three schemas are the least in which a
field can be added, required and removed; three rows and two instants put two
rows on one side of a cursor and one on its instant; three requests over two
connections let one wait while the others nest or hold. The bounds are
`MaxRequests` (requests started, and with them versions, ids and epochs),
`MaxWrites` (data requests in LazyMigration, commits in Reads) and `MaxNested`
(in Server, the condition under which the pool is safe, not just a bound).
Deadlock is checked in every run but those of Server, which stops on purpose.
Clients are interchangeable, so safety runs use symmetry; runs with liveness do
not.

Five further runs each check one sentence of the repository's documents or
comments that the code does not keep; TLC finds the counterexample.

| Run | Sentence | What happens |
|---|---|---|
| `DataTable_aba` | `README.md:20`, `docs/activelist.md:38`: read-modify-write across an import is refused | the import resets every version to 1, so version 1 read before it is accepted after it |
| `DataTable_deadlock` | `docs/implementation-plan.md:31`: a write during an import waits or gets 409 | row-then-table against table-then-row; the victim gets 500 |
| `LazyMigration_field` | `internal/service/data_service.go:339`: old data must drop the removed field to be written | a merge drops no key: no update can |
| `Server_pool` | `internal/service/data_service.go:348-349`: writes fail fast instead of filling the pool | refused updates hold every connection and wait for another |
| `Reads_limit` | `internal/app/providers.go:67-69`: the import's limit is its own | the signature check reads at most 16 MB first |

Known consequences of the code, found while modelling; no run is about them: an
update that waited for a row which an import deleted and re-created is told 404
(`repository/data.go:142`); `setval` survives the failing COMMIT of its import,
so `SequenceAhead` is claimed only without such faults
(`repository/transfer.go:114`); the history is listed by `created_at`, the start
of a transaction, so a deprecation that waited for an evolution is listed as the
older of the two, although the comment promises "new to old" (`meta.go:159`,
`:164`; the models leave these time stamps out, and `HistoryIDsInOrder` shows
that the ids keep the true order); the answer of Evolve is read after its
transaction and may show a later change (`type_service.go:128`), and
`AnswerShowsChange` says what it still shows; a keyword page searches the scalar
fields its gate read (`data_service.go:138`), so when an evolution makes another
choice of scalars before its SELECT (`:181`), it may skip a row that matched the
query by the schema of each moment (first by a field that stops being a scalar,
then because no scalar is left and the keyword is dropped).

### Fairness

DataTable and TypeRegistry: `WF_vars(Serve(p))` for each client: a request whose
next statement can run, or whose wait PostgreSQL ends by `lock_timeout` or the
deadlock detector, does not stand still for ever. Goroutines are scheduled by
the Go runtime and statements by PostgreSQL, neither of which starves one of
them. Nothing is assumed of clients: no fairness for arrivals, for `ImportBatch`
(the client's upload), for schema changes or for faults. `EveryRequestAnswered`
in DataTable therefore excepts an import that waits for its upload, and still
requires that everyone *else* is answered while it waits. In TypeRegistry
nothing times out (`statement_timeout` defaults to 0), so there the fairness of
the lock holder is what releases the waiters.

Server: `WF_vars(Process)` for the process itself (start, and the end of
`Shutdown` after at most ten seconds) and `SF_vars(Serve(r))` for each request.
Strong fairness, because connections and locks come and go while a request
waits: both pgxpool and PostgreSQL hand them to waiters in order. No fairness
for arrivals, signals, kills or clients that hang up; a request never ends
because its client was kind enough to leave.

Reads: `WF_vars(ListPage)`, a client that follows its cursors, and a server that
goes from a page's gate to its SELECT. `TraversalEnds` is about the server's
cursors, and a client that stops asking is not its business.

## 5. Proofs

Every theorem holds for every value of the constants that satisfies the
`ASSUME`s its module names: any clients, schemas, bodies, files, starting table,
faults, keys and connections.

| Module | Theorem | States |
|---|---|---|
| `DataTableProofs` | `TypeCorrect` | `Spec => []TypeOK` |
| | `LockDisciplineHolds` | `Spec => []LockDiscipline` |
| | `RowsAreVersioned` | `Spec => VersionedStep` |
| | `VersionsIdentifyContent` | `Spec => []VersionIdentifiesContent` |
| | `NoUpdateIsLost` | `Spec => NoLostUpdate` |
| | `ImportsReplaceAll` | `Spec => ImportReplacesAll` |
| | `SequenceStaysAhead` | `Faults = {} => (Spec => []SequenceAhead)` |
| | `DeprecatedIsFrozen` | `Spec => DeprecatedFrozen` |
| | `DeadlocksNeedAnImport` | `Spec => []OnlyImportsDeadlock` |
| `DuplicateWindow` | `DuplicatesOnlyInWindow` | `Spec => DuplicateOnlyInWindow` |
| `StoreRefinement` | `StoreImplemented` | `Spec => ImplementsStore` |
| `TypeRegistryProofs` | `TypeCorrect` | `Spec => []TypeOK` |
| | `HistoryIsTrue` | `Spec => []HistoryMatchesType` |
| | `HistoryIsOrdered` | `Spec => []HistoryIDsInOrder` |
| | `NoEvolutionIsLost` | `Spec => NoLostEvolution` |
| `TypesRefinement` | `AnswersShowChanges` | `Spec => AnswerShowsChange` |
| | `TypesImplemented` | `Spec => ImplementsTypes` |
| `LazyMigrationProofs` | `RepairFits` | one patch makes any row fit whose keys are declared |
| | `RemovedKeyBlocks` | no patch makes a row fit that has another key |
| | `TypeCorrect` | `Spec => []TypeOK` |
| | `RowsFit` | `Spec => []RowsFitSomeSchema` |
| | `OnlyRemovedKeysBlock` | `Spec => []OnlyRemovedFieldsBlock` |
| | `LeftoversStay` | `Spec => LeftoverStays` |
| | `LeftoversAreExplained` | `Spec => LeftoverIsExplained` |
| `ReadsProofs` | `Typed` | `Spec => []TypeOK` |
| | `TraversalsAreComplete` | `Spec => []NothingMissed` |
| | `TraversalsAreOnce` | `Spec => []ListedOnce` |
| | `ExportsRestore` | `Spec => ExportRestores` |
| `ServerProofs` | `TypeCorrect` | `Spec => []TypeOK` |
| | `OnlyVerifiedRun` | `Spec => []NothingUnverifiedRuns` |
| | `PoolIsNeverStuck` | `Spec => []PoolNeverStuck`, if `MaxNested < Cardinality(Conns)` |
| | `NobodyWaitsForAllOthers` | `Spec => []NobodyWaitsForAll`, if `MaxNested < Cardinality(Conns)` |

**DataTable.** None of the properties of the table is inductive: that a commit
writes `version + 1` follows only if the copy the request took under its lock is
still the committed row, which follows only if nobody else holds that row and no
import holds the table. `LockDiscipline` says this statement by statement
(`Sound(p)`: `InsertSound`, `RowWriterSound`, `ImportSound`) and pair by pair
(`Compatible(p, q)`: disjoint row locks, nobody writes beside an import, two
inserts never draw one id). `Inv == TypeOK /\ LockDiscipline` is inductive. Most
steps of `p` leave the committed table alone; `QuietStep` proves once that they
keep `Inv` if `p`'s own part is again sound and compatible, and `AdvanceStep` and
`FailStep` specialise it to a statement that succeeds and to a rollback.
`CommittedWrite` and `CommittedImport` say what a commit does to the table;
`PublishStep` shows that the others' pictures survive it: a row writer's because
the rows are disjoint, a waiting row writer's because it has read nothing yet, an
insert's because its id is not among the rows, an import's because nobody can
commit beside it. `NextInv` puts the actions together, and the theorems about
steps read off `CommittedWrite` and `CommittedImport`.

On top of `Inv`: `VersionIdentifiesContent` needs that no client has seen an
import that has not been committed (`SeenPast`). `DeprecatedFrozen` needs that
every request past the gate carries a copy of an active definition (`Admitted`).
`SequenceAhead` is not inductive, since between `setval` and COMMIT the sequence
belongs to a table nobody sees yet; `SeqInv` says which table it is ahead of at
each moment, and holds only if the COMMIT cannot fail, hence `Faults = {}`.
`GreatestElement` and `NextIDAbove` prove that `max(id) + 1` exists and is above
every id, `FileTableSize` that a file without repeated ids yields as many rows
as it has lines.

`OnlyImportsDeadlock` follows from `Inv` alone, by looking at who a blocked
request waits for. `TableHolder` and `RowHolder` say at which statements a
request can hold a lock that others want: a table lock of imports belongs to an
import, a row lock to a row writer or to an import that deletes. `ImportWaits`:
an import that waits in its DELETE waits for a row writer, which either goes on
or waits for the table, and then the two are a pair. `SomebodyGoesOn` follows
any other wait to one of these ends in at most two steps, so it needs no
induction along the waits.

**The duplicate window.** On top of `Inv` and `Admitted` (which also says that a
restore brings no body, so the key it checks is the key it writes),
`Window(p)`: once `p` is past its check, every active row that has its key is in
`missed`. The check establishes it, because it answers only if there is no such
row; a commit of another request keeps it, because what it changes it adds to
`missed`. Two details matter: until its INSERT an insert has no id, so the check
excludes no row on its account, and a restore of a row that is active already is
never checked but writes nothing.

**Refinement.** Under `Inv`, each statement of DataTable is a stutter of
VersionedStore (`asks` does not change), or its `Refuse`, or, at COMMIT, exactly
the effect that the store allows: for an update the version the client sent is
still the committed one, because the row has been locked since it was compared;
for an import nothing was committed between its first DELETE and its COMMIT.
`SameConstants`, `SameRequestTypes` and `SameFunctions` identify the two
modules' shared definitions.

**TypeRegistry.** `Inv` has four parts: the types; `Stage(p)`, which says for
each statement what the transaction holds and has written (`Pending`, a write
that is not yet in the history; `Entered`, one that is); `Exclusive`, no two
transactions on one name; and `HistoryInv`, the two invariants of the history.
The history entry repeats what the row will be at COMMIT because `InsertHistory`
reads the row again while it is locked; `HistoryIDsInOrder` because the id is
drawn under the lock.

**The types' refinement.** Two more facts carry `TypesRefinement`. `AllAsk`
(`Asking(p)`) says what `Inv` does not: what a request in flight has asked for,
that only an evolution is at its re-read, and that a transaction which commits
without a write is a deprecation of a deprecated type; at the read-back it says
that the type `Shows` the change. It is inductive because types only grow
(`TypesGrow`: a row stays, gains one version, or is deprecated as it is) and
`Shows` survives growth (`ShowsStays`). `AnswersShowChanges` reads the property
off the last step of a request. For `TypesImplemented` each action has a lemma:
`RequestRefines` for arrivals, `CommitRefines` with `PublishChanges` for the one
step that changes the catalogue and the log, `AdvanceStutters` for statements
that others cannot see, `EvolveRefines` and `DeprecateRefines` for the steps that
decide a request without effect, `FaultRefines` for the rest. `LogGrows` shows
that leaving the ids out of the history commutes with appending to it.

**LazyMigration.** `RepairFits` and `RemovedKeyBlocks` are about the pure
functions: each valid field has a witness (`WitnessFits`, from positive limits),
and a merge drops no key. The others join two proofs. `TP` instantiates
TypeRegistryProofs, so its `Inv` holds of the types under the writers
(`TypesAlways`); what the writers need of it is that the schema in force is in
the history (`CurrentIsRecorded`) and that the history only grows
(`HistoryGrows`). `DataInv` is inductive relative to it: `WriterSound` (what a
request has validated still fits the schema its gate read, which the history
still has), `OneHolder` (no two updates hold one row, so what was merged at the
check is what is merged at the write) and `RowsFitSomeSchema` itself.
`LeftoversStay` needs `DataInv` before the step: what an update is about to write,
its patch merged onto the row as it is now, fits the schema of its own gate; a
merge drops no key, so if that schema is still the current one, the row had no
key outside it (`FittingKeys`). `RowWriters` finds the writer of a changed row,
and a change of status keeps its data (`Moves`), which is also why `DataInv`
survives it (`MoveKeeps`).

**Reads.** A traversal is complete because each page is cut from the table by
the order alone: everything listed comes before the cursor (`CursorInv`), every
steady row is listed or behind it (`SteadyInv`), and is selected by the schema
in force as well as by the copy that the next SELECT will use, which the gate's
step and every commit keep (`GateTypePreserves`, `CommitPreserves`).
`ListDocsPreserves` needs that the order is total and strict (`Asymmetric`,
`Transitive`, `Total`), that the rows of a page are the first of those that
remain, and that the service's LIMIT is the number the handler compares the page
with (`LimitIsPageSize`).

**Server.** `PoolNeverStuck` is a counting argument: a request that waits for a
second connection is one of at most `MaxNested` (`FewNest`), holds exactly one
(`PoolUse`), and everybody else who holds one waits for none, so with fewer of
them than connections somebody can go on. `OnlyVerifiedRun` carries `Signed`
from the configuration through the start to the request; `TypeCorrect` needs
`LocksHeld`. `NobodyWaitsForAll` starts from `PoolNeverStuck` and asks for the
locks too. `LocksUsed` says what a lock is held for: its holder has come to the
end of that transaction, or takes a second connection under it; and by the plans
read off the handlers a request that nests either holds a data lock or has failed
to get its lock (`Segments`), so the holder of a type's row never waits for the
pool (`TypeLocksAreShort`). Hence a wait for a type's lock ends with its holder,
and a wait for a data lock with its own timeout (`SomeoneGoesOn`).

Only model-checked: everything temporal under fairness
(`EveryRequestAnswered` of both modules, `EveryRequestEnds`, `SignalStops`,
`TraversalEnds`), which the prover cannot reach. `OnlyImportsDeadlock` and
`NobodyWaitsForAll` are the safety part of the first three: no state is one from
which only a timeout of the wrong party could lead on. Every other property of a
passing run is a theorem. No module uses a RECURSIVE operator.

## 6. Not modelled

* The backup loop (`deploy/backup/backup.sh`): a shell script beside the
  program; its hazards are listed in `PROJECT.json`.
* The database catalogue: index and sequence names that collide with table names
  of other types, and the migration runner, which a library carries out under
  its own lock.
* Text: JSON as text, patterns of names, parsing of the configuration, wording of
  errors, the request id, the access log, response envelopes. Signatures are
  abstract: a request is signed with one of the secrets or with none.
* Operators and time stamps other than `created_at`; what a client gains or loses
  by retrying an insert whose answer it did not get.
* More than one type of data at a time: data requests of different types touch
  different tables, and share only the pool, which Server has.

## 7. Plan

1. *Done:* DataTable with its proofs; TypeRegistry with its proofs;
   VersionedStore, VersionedTypes, their refinements and the duplicate window;
   Validation and LazyMigration with their proofs; Reads; Server.
2. Catalogue: relation names of types, indexes and sequences in one namespace.
3. The backup loop: retry, the day last done, rotation.
