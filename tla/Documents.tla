----------------------------- MODULE Documents -----------------------------
(***************************************************************************)
(* The data of one type: rows, schemas, requests and import files, and the *)
(* pure functions the data service computes on them (mergeData, the        *)
(* required-field part of ValidateData, the key comparison of              *)
(* FindActiveDupID, the row that InsertImportBatch writes).  DataTable and *)
(* VersionedStore share them.                                              *)
(***************************************************************************)
EXTENDS Integers, Sequences, FiniteSets

CONSTANTS
    Fields,       \* field names a schema may declare
    Values,       \* non-null field values
    Null          \* JSON null; a missing field is the same to every check here

-----------------------------------------------------------------------------
(* Types                                                                   *)

Blank      == [f \in Fields |-> Null]
Data       == [Fields -> Values \cup {Null}]
RowStatus  == {"active", "deleted"}
Row        == [version : Nat \ {0}, status : RowStatus, data : Data]
Schema     == [required : SUBSET Fields, unique : SUBSET Fields]
Definition == [status : {"active", "deprecated"}, schema : Schema]
Body       == UNION {[S -> Values \cup {Null}] : S \in SUBSET Fields}
FileDoc    == [id : Int, status : STRING, data : Data]
File       == [docs : Seq(FileDoc), sound : BOOLEAN]
DataOps    == {"Insert", "Update", "SoftDelete", "Restore"}
Request    == [op : DataOps \cup {"Import", "None"}, id : Nat, version : Nat,
               body : Body, file : File, def : Definition]
Codes      == {"none", "ok", "notFound", "conflict", "deprecated", "invalid",
               "internal"}

NoRow      == [version |-> 0, status |-> "deleted", data |-> Blank]
NoDoc      == [id |-> 0, row |-> NoRow, epoch |-> 0]
NoFile     == [docs |-> <<>>, sound |-> FALSE]
EmptyBody  == [f \in {} |-> Null]
NoReq      == [op |-> "None", id |-> 0, version |-> 0, body |-> EmptyBody,
               file |-> NoFile,
               def |-> [status |-> "active",
                        schema |-> [required |-> {}, unique |-> {}]]]

(* A table, or a part of one: a function from finitely many ids to rows.   *)
IsTable(t) ==
    DOMAIN t \subseteq Nat \ {0} /\ IsFiniteSet(DOMAIN t) /\ t \in [DOMAIN t -> Row]

-----------------------------------------------------------------------------
(* Data against a schema and against other rows                            *)

Merge(old, body) == [f \in Fields |-> IF f \in DOMAIN body THEN body[f] ELSE old[f]]

Valid(schema, data) == \A f \in schema.required : data[f] # Null

UniqueKeyed(schema, data) ==
    schema.unique # {} /\ \A f \in schema.unique : data[f] # Null

SameKey(schema, a, b) == \A f \in schema.unique : a[f] = b[f]

DupIDs(schema, table, data, excludeID) ==
    {i \in DOMAIN table \ {excludeID} :
        /\ UniqueKeyed(schema, data)
        /\ table[i].status = "active"
        /\ SameKey(schema, table[i].data, data)}

-----------------------------------------------------------------------------
(* Import files                                                            *)

RowAccepted(schema, d) ==
    /\ d.id > 0
    /\ d.status \in {"", "active", "deleted"}
    /\ Valid(schema, d.data)

Imported(d) == [version |-> 1,
                status  |-> IF d.status = "" THEN "active" ELSE d.status,
                data    |-> d.data]

(* The rows that the first n lines of the file stand for.                  *)
FileTable(docs, n) ==
    [i \in {docs[k].id : k \in 1..n} |->
        Imported(docs[CHOOSE k \in 1..n : docs[k].id = i])]

=============================================================================
