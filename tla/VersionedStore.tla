--------------------------- MODULE VersionedStore ---------------------------
(***************************************************************************)
(* What the data endpoints of one type promise (internal/handler/data.go): *)
(* a table of versioned rows on which every request takes effect at one    *)
(* instant between its arrival and its answer, or not at all.  There are   *)
(* no statements, no transactions and no locks here; DataTable is shown to *)
(* implement it.                                                           *)
(***************************************************************************)
EXTENDS Documents

CONSTANT Clients

VARIABLES
    rows,   \* the table
    epoch,  \* number of replacements so far
    asks,   \* request each client waits for
    reply,  \* outcome of each client's last request
    seen    \* last document each client was sent

vars == <<rows, epoch, asks, reply, seen>>

Init ==
    /\ IsTable(rows) /\ epoch = 0
    /\ asks  = [c \in Clients |-> NoReq]
    /\ reply = [c \in Clients |-> "none"]
    /\ seen  = [c \in Clients |-> NoDoc]

(* An insert carries no id: the store chooses one.                         *)
Asks == {r \in Request : r.op = "Insert" => r.id = 0}

Ask(c) ==
    /\ asks[c] = NoReq /\ asks'[c].op # "None" /\ asks'[c] \in Asks
    /\ asks'  = [asks EXCEPT ![c] = asks'[c]]
    /\ reply' = [reply EXCEPT ![c] = "none"]
    /\ UNCHANGED <<rows, epoch, seen>>

(* No effect: any answer but "ok".                                         *)
Refuse(c) ==
    /\ asks' = [asks EXCEPT ![c] = NoReq]
    /\ \E code \in Codes \ {"ok"} : reply' = [reply EXCEPT ![c] = code]
    /\ UNCHANGED <<rows, epoch, seen>>

(* The effect is there: the client is told so, with the document as it now *)
(* stands, or the answer is an error that leaves it in the dark.           *)
Settle(c, doc) ==
    /\ asks' = [asks EXCEPT ![c] = NoReq]
    /\ \/ reply' = [reply EXCEPT ![c] = "ok"] /\ seen' = [seen EXCEPT ![c] = doc]
       \/ reply' = [reply EXCEPT ![c] = "internal"] /\ UNCHANGED seen

Put(c, id, row) ==
    /\ rows' = [i \in DOMAIN rows \cup {id} |-> IF i = id THEN row ELSE rows[i]]
    /\ Settle(c, [id |-> id, row |-> row, epoch |-> epoch])
    /\ UNCHANGED epoch

insertData(c) == LET r == asks[c] IN
    /\ r.op = "Insert" /\ Valid(r.def.schema, Merge(Blank, r.body))
    /\ \E id \in DOMAIN rows' \ DOMAIN rows :
          Put(c, id, [version |-> 1, status |-> "active", data |-> Merge(Blank, r.body)])

(* Compare-and-set on the version the client sent.                         *)
updateData(c) ==
    LET r    == asks[c]
        row  == rows[r.id]
        data == Merge(row.data, r.body)
    IN  /\ r.op = "Update" /\ r.id \in DOMAIN rows
        /\ row.status = "active" /\ row.version = r.version
        /\ Valid(r.def.schema, data)
        /\ Put(c, r.id, [version |-> row.version + 1, status |-> "active", data |-> data])

(* Idempotent: a row already there is answered as it is.                   *)
MoveTo(c, status) ==
    LET r   == asks[c]
        row == rows[r.id]
    IN  /\ r.id \in DOMAIN rows
        /\ Put(c, r.id, IF row.status = status THEN row
                        ELSE [version |-> row.version + 1, status |-> status,
                              data |-> row.data])

deleteData(c)  == asks[c].op = "SoftDelete" /\ MoveTo(c, "deleted")
restoreData(c) == asks[c].op = "Restore" /\ MoveTo(c, "active")

importData(c) ==
    LET r    == asks[c]
        docs == r.file.docs
    IN  /\ r.op = "Import" /\ r.file.sound
        /\ \A k \in 1..Len(docs) : RowAccepted(r.def.schema, docs[k])
        /\ \A j, k \in 1..Len(docs) : docs[j].id = docs[k].id => j = k
        /\ rows' = FileTable(docs, Len(docs)) /\ epoch' = epoch + 1
        /\ Settle(c, seen[c])

(* A read is over at once.                                                 *)
getData(c) == \E id \in DOMAIN rows :
    /\ asks[c] = NoReq
    /\ reply' = [reply EXCEPT ![c] = "ok"]
    /\ seen'  = [seen EXCEPT ![c] = [id |-> id, row |-> rows[id], epoch |-> epoch]]
    /\ UNCHANGED <<rows, epoch, asks>>

Next == \E c \in Clients :
    \/ Ask(c) \/ Refuse(c) \/ insertData(c) \/ updateData(c)
    \/ deleteData(c) \/ restoreData(c) \/ importData(c) \/ getData(c)

Spec == Init /\ [][Next]_vars

=============================================================================
