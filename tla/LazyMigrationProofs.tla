------------------------ MODULE LazyMigrationProofs ------------------------
(***************************************************************************)
(* What a patch can and cannot do for a row that no longer fits, for every *)
(* schema, row and patch; and that rows and refusals stay explained by the *)
(* history, whatever the number of administrators, writers and requests.   *)
(***************************************************************************)
EXTENDS LazyMigration, TLAPS

(* A declared name is found again in its schema.                           *)
LEMMA FieldOfName ==
    ASSUME NEW fields, NEW k \in FieldNames(fields)
    PROVE  \E i \in 1..Len(fields) : FieldOf(fields, k) = fields[i] /\ fields[i].name = k
BY DEF FieldNames, FieldOf

(* The limits of a valid field are at least 1, set or not.                 *)
LEMMA LimitsArePositive ==
    ASSUME NEW f \in Field, ValidField(f)
    PROVE  stringLimit(f) \in Nat \ {0} /\ listLimit(f) \in Nat \ {0}
BY ValidationAssumption DEF Field, stringLimit, listLimit

(* Every valid field has a value that fits it.                             *)
LEMMA WitnessFits ==
    ASSUME NEW f \in Field, ValidField(f)
    PROVE  checkValue(f, witness(f)) /\ witness(f).kind # "null"
<1>1. CASE f.type = "int"
  BY <1>1 DEF witness, Int0, checkValue, isJSONInt
<1>2. CASE f.type = "string"
  BY <1>2, LimitsArePositive DEF witness, Str, checkValue, ShortString
<1>3. CASE f.type \in ListTypes
  <2>1. witness(f) = List(<<>>)
    BY <1>3 DEF witness, ListTypes
  <2>2. List(<<>>).kind = "list" /\ List(<<>>).items = <<>> /\ Len(<<>>) = 0 /\ 0 <= listLimit(f)
    BY LimitsArePositive DEF List
  <2> QED
    BY <1>3, <2>1, <2>2 DEF checkValue, ShortList, ListTypes
<1> QED
  BY <1>1, <1>2, <1>3 DEF ValidField, fieldTypes, ListTypes

(* Whatever a schema requires, retypes or tightens, one patch makes every  *)
(* row fit whose keys it declares (validation/data.go:19-110).             *)
THEOREM RepairFits ==
    ASSUME NEW fields \in Seq(Field), ValidateFields(fields), NEW data,
           DOMAIN data \subseteq FieldNames(fields)
    PROVE  Fits(fields, mergeData(data, Repair(fields)))
<1> DEFINE merged == mergeData(data, Repair(fields))
<1>1. \A i \in 1..Len(fields) : fields[i] \in Field /\ ValidField(fields[i])
  BY DEF ValidateFields
<1>2. DOMAIN merged = FieldNames(fields)
      /\ \A k \in FieldNames(fields) : merged[k] = witness(FieldOf(fields, k))
  BY DEF mergeData, Repair
<1> HIDE DEF merged
<1>3. \A k \in FieldNames(fields) :
         checkValue(FieldOf(fields, k), merged[k]) /\ merged[k].kind # "null"
  BY <1>1, <1>2, FieldOfName, WitnessFits
<1>4. KeyRefusals(fields, merged) = {}
  BY <1>2, <1>3 DEF KeyRefusals
<1>5. \A i \in 1..Len(fields) : fields[i].name \in FieldNames(fields)
  BY DEF FieldNames
<1>6. Missing(fields, merged) = {}
  BY <1>2, <1>3, <1>5 DEF Missing
<1> QED
  BY <1>4, <1>6 DEF Fits, ValidateData, merged

(* A key that has left the schema blocks its row for good: no patch        *)
(* whatever makes the row fit, since a merge drops no key                  *)
(* (data_service.go:484-495).                                              *)
THEOREM RemovedKeyBlocks ==
    ASSUME NEW fields, NEW data, NEW patch, NEW k \in DOMAIN data, k \notin FieldNames(fields)
    PROVE  ~Fits(fields, mergeData(data, patch))
<1> DEFINE merged == mergeData(data, patch)
<1>1. k \in DOMAIN merged
  BY DEF mergeData
<1> HIDE DEF merged
<1>2. KeyRefusals(fields, merged) # {}
  BY <1>1 DEF KeyRefusals
<1> QED
  BY <1>2 DEF Fits, ValidateData, merged


-----------------------------------------------------------------------------
(* The types under the writers: what TypeRegistryProofs proves of them     *)

TP == INSTANCE TypeRegistryProofs WITH Procs <- Admins

LEMMA SameInit == Types!Init <=> TP!Init
BY DEF Types!Init, TP!Init, Types!NoDef, TP!NoDef, Types!NoEntry, TP!NoEntry,
       Types!NoReq, TP!NoReq, Types!NoTx, TP!NoTx, Types!NoReply, TP!NoReply

LEMMA SameNext == Types!Next <=> TP!Next
BY DEF Types!Next, TP!Next, Types!Request, TP!Request, Types!Serve, TP!Serve,
       Types!Fault, TP!Fault, Types!Goto, TP!Goto, Types!Answer, TP!Answer,
       Types!Fail, TP!Fail, Types!Advance, TP!Advance, Types!Arrive, TP!Arrive,
       Types!NameFree, TP!NameFree, Types!SchemaMatches, TP!SchemaMatches,
       Types!StartRegister, TP!StartRegister, Types!InsertType, TP!InsertType,
       Types!StartEvolve, TP!StartEvolve, Types!UpdateSchema, TP!UpdateSchema,
       Types!EvolveRefused, TP!EvolveRefused, Types!StartDeprecate, TP!StartDeprecate,
       Types!DeprecateLook, TP!DeprecateLook, Types!DeprecateMark, TP!DeprecateMark,
       Types!GetType, TP!GetType, Types!RecordedSchema, TP!RecordedSchema,
       Types!InsertHistory, TP!InsertHistory, Types!Publish, TP!Publish,
       Types!Commit, TP!Commit, Types!ReadBack, TP!ReadBack,
       Types!CommitApplied, TP!CommitApplied, Types!CommitAborted, TP!CommitAborted,
       Types!ReadFailed, TP!ReadFailed, Types!Disconnect, TP!Disconnect,
       Types!NoDef, TP!NoDef, Types!NoEntry, TP!NoEntry,
       Types!NoReq, TP!NoReq, Types!NoTx, TP!NoTx, Types!NoReply, TP!NoReply

LEMMA TypesAlways == Spec => []TP!Inv
<1>1. TP!TypeRegistryAssumption
  BY LazyMigrationAssumption DEF TP!TypeRegistryAssumption
<1>2. Init => TP!Init
  BY SameInit DEF Init
<1>3. [Next]_vars => [TP!Next]_(TP!vars)
  BY SameNext DEF Next, vars, typeVars, TP!vars
<1>4. TP!Spec => []TP!Inv
  BY <1>1, TP!InvAlways, PTL
<1> QED
  BY <1>2, <1>3, <1>4, PTL DEF Spec, TP!Spec

(* The schema in force is in the history, and what the history recorded is *)
(* a valid schema of a type that still exists.                             *)
LEMMA CurrentIsRecorded ==
    ASSUME TP!Inv
    PROVE  /\ TypeName \in DOMAIN types => current \in Recorded
           /\ Recorded \subseteq Schemas
           /\ Recorded # {} => TypeName \in DOMAIN types
<1>1. \A i \in 1..Len(history) : history[i].schema \in Schemas
                                 /\ history[i].name \in DOMAIN types
  <2>1. history \in Seq(TP!Entry) /\ \A i \in 1..Len(history) : history[i].name \in DOMAIN types
    BY DEF TP!Inv, TP!Typed, TP!StoreTyped, TP!HistoryInv
  <2>2. \A i \in 1..Len(history) : history[i] \in TP!Entry
    BY <2>1
  <2> QED
    BY <2>1, <2>2 DEF TP!Entry
<1>2. ASSUME TypeName \in DOMAIN types PROVE current \in Recorded
  <2>1. PICK i \in TP!Entries(TypeName) : history[i].schema = types[TypeName].schema
    BY <1>2 DEF TP!Inv, TP!HistoryInv, TP!HistoryMatchesType
  <2> QED
    BY <2>1 DEF TP!Entries, Recorded, current
<1> QED
  BY <1>1, <1>2 DEF Recorded

(* Types are never removed and the history only grows.                     *)
LEMMA HistoryGrows ==
    ASSUME TP!Inv, Types!Next
    PROVE  Recorded \subseteq Recorded'
<1>1. PICK p \in Admins : Types!Request(p) \/ Types!Serve(p) \/ Types!Fault(p)
  BY DEF Types!Next
<1>2. \/ history' = history
      \/ Types!Publish(p) /\ pc[p] = "commit"
  BY <1>1 DEF Types!Request, Types!StartRegister, Types!StartEvolve, Types!StartDeprecate,
     Types!GetType, Types!Arrive, Types!Serve, Types!InsertType, Types!UpdateSchema,
     Types!EvolveRefused, Types!DeprecateLook, Types!DeprecateMark, Types!InsertHistory,
     Types!Commit, Types!ReadBack, Types!Fault, Types!CommitApplied, Types!CommitAborted,
     Types!ReadFailed, Types!Disconnect, Types!Fail, Types!Advance
<1>3. CASE history' = history
  BY <1>3 DEF Recorded
<1>4. CASE history' # history
  <2>1. tx[p].write # TP!NoDef /\ history' = Append(history, tx[p].entry)
    BY <1>2, <1>4 DEF Types!Publish, Types!NoDef, TP!NoDef
  <2>2. tx[p].entry \in TP!Entry /\ history \in Seq(TP!Entry)
    BY <1>2, <1>4, <2>1
    DEF TP!Inv, TP!Stage, TP!Writing, TP!Entered, TP!Typed, TP!StoreTyped
  <2>3. Len(history') = Len(history) + 1 /\ \A i \in 1..Len(history) : history'[i] = history[i]
    BY <2>1, <2>2
  <2>4. Len(history) \in Nat
    BY <2>2
  <2> QED
    BY <2>3, <2>4 DEF Recorded
<1> QED
  BY <1>3, <1>4

-----------------------------------------------------------------------------
(* The writers                                                             *)

(* What a request has validated still holds of the row it is about to      *)
(* change.                                                                 *)
WriterSound(w) ==
    LET r == ask[w] IN
    /\ at[w] \in {"idle", "validate", "lockRow", "move", "import", "write", "lookUp"}
    /\ at[w] # "idle" => r.fields \in Recorded
    /\ at[w] = "validate" => r.op = "Insert"
    /\ at[w] = "lockRow" => r.op = "Update"
    /\ at[w] = "import" => r.body \in Files
    /\ at[w] \in {"lookUp", "write"} /\ r.op = "Update" => r.id \in DOMAIN rows
    /\ at[w] = "write" =>
          \/ r.op = "Insert" /\ Fits(r.fields, r.body)
          \/ r.op = "Update" /\ Fits(r.fields, mergeData(rows[r.id].data, r.body))

OneHolder == \A v, w \in Writers : \A id : v # w => ~(Holds(v, id) /\ Holds(w, id))

TableSound ==
    /\ DOMAIN rows \subseteq IDs
    /\ \A i \in DOMAIN rows : /\ rows[i].version \in Nat \ {0}
                              /\ rows[i].status \in {"active", "deleted"}
    /\ asked \in 0..MaxWrites
    /\ DOMAIN at = Writers /\ DOMAIN ask = Writers /\ DOMAIN told = Writers

DataInv ==
    /\ TableSound /\ RowsFitSomeSchema /\ OneHolder
    /\ \A w \in Writers : WriterSound(w)

LEMMA FittingKeys ==
    ASSUME NEW fields, NEW data, Fits(fields, data)
    PROVE  DOMAIN data \subseteq FieldNames(fields)
<1>1. KeyRefusals(fields, data) = {}
  BY DEF Fits, ValidateData
<1> QED
  BY <1>1 DEF KeyRefusals


(* What the others rely on while w takes a step that leaves the table      *)
(* alone.                                                                  *)
LEMMA RowsKept ==
    ASSUME DataInv, NEW w \in Writers, UNCHANGED <<rows, history>>,
           \A v \in Writers \ {w} : at'[v] = at[v] /\ ask'[v] = ask[v],
           TableSound', WriterSound(w)',
           at'[w] \in {"lookUp", "write"} /\ ask'[w].op = "Update" => RowFree(w, ask'[w].id)
    PROVE  DataInv'
<1>1. Recorded' = Recorded
  BY DEF Recorded
<1>2. RowsFitSomeSchema'
  BY <1>1 DEF DataInv, RowsFitSomeSchema
<1>3. \A v \in Writers : WriterSound(v)'
  BY <1>1 DEF DataInv, WriterSound
<1>4. \A v \in Writers \ {w} : \A id : Holds(v, id)' <=> Holds(v, id)
  BY DEF Holds
<1>5. \A v \in Writers \ {w} : \A id : ~(Holds(v, id)' /\ Holds(w, id)')
  BY <1>4 DEF Holds, RowFree
<1>6. OneHolder'
  BY <1>4, <1>5 DEF DataInv, OneHolder
<1> QED
  BY <1>2, <1>3, <1>6 DEF DataInv

LEMMA Told ==
    ASSUME DataInv, NEW w \in Writers, NEW code, NEW field, Tell(w, code, field)
    PROVE  /\ at'[w] = "idle" /\ told'[w] = [code |-> code, field |-> field]
           /\ \A v \in Writers \ {w} : at'[v] = at[v] /\ ask'[v] = ask[v]
           /\ DOMAIN at' = Writers /\ DOMAIN ask' = Writers /\ DOMAIN told' = Writers
BY DEF Tell, Goto, DataInv, TableSound

LEMMA TellKeeps ==
    ASSUME DataInv, NEW w \in Writers, NEW code, NEW field, Tell(w, code, field),
           UNCHANGED <<rows, history, asked>>
    PROVE  DataInv'
<1>1. TableSound'
  BY Told DEF DataInv, TableSound
<1>2. WriterSound(w)' /\ at'[w] = "idle"
  BY Told DEF WriterSound
<1> QED
  BY <1>1, <1>2, Told, RowsKept

(* Validated data goes on to its write, refused data to its explanation.   *)
LEMMA DecideKeeps ==
    ASSUME DataInv, NEW w \in Writers, NEW data,
           Decide(w, ValidateData(ask[w].fields, data), "write"),
           at[w] # "idle", UNCHANGED <<rows, history, asked>>,
           \/ ask[w].op = "Insert" /\ data = ask[w].body
           \/ /\ ask[w].op = "Update" /\ ask[w].id \in DOMAIN rows /\ RowFree(w, ask[w].id)
              /\ data = mergeData(rows[ask[w].id].data, ask[w].body)
    PROVE  DataInv'
<1> DEFINE refusals == ValidateData(ask[w].fields, data)
<1> HIDE DEF refusals
<1>1. CASE \E code, field : Tell(w, code, field)
  BY <1>1, TellKeeps
<1>2. CASE \/ refusals = {} /\ Proceed(w, "write")
           \/ Goto(w, "lookUp") /\ UNCHANGED <<ask, told>>
  <2>1. /\ UNCHANGED <<ask, told>>
        /\ \/ refusals = {} /\ at' = [at EXCEPT ![w] = "write"]
           \/ at' = [at EXCEPT ![w] = "lookUp"]
    BY <1>2 DEF Proceed, Goto
  <2>2. /\ \A v \in Writers \ {w} : at'[v] = at[v] /\ ask'[v] = ask[v]
        /\ ask'[w] = ask[w] /\ at'[w] \in {"write", "lookUp"}
        /\ at'[w] = "write" => refusals = {}
        /\ TableSound'
    BY <2>1 DEF DataInv, TableSound
  <2>3. ask[w].fields \in Recorded /\ Recorded' = Recorded
    BY DEF DataInv, WriterSound, Recorded
  <2>4. at'[w] = "write" => Fits(ask[w].fields, data)
    BY <2>2 DEF Fits, refusals
  <2>5. WriterSound(w)'
    BY <2>2, <2>3, <2>4 DEF WriterSound
  <2> QED
    BY <2>2, <2>5, RowsKept
<1> QED
  BY <1>1, <1>2 DEF Decide, refusals

(* The gate gives the request the schema in force.                         *)
LEMMA ArriveKeeps ==
    ASSUME TP!Inv, DataInv, NEW w \in Writers, NEW r,
           NEW step \in {"validate", "lockRow", "move", "import"}, Arrive(w, r, step), UNCHANGED history,
           [r EXCEPT !.fields = current].fields = current,
           step = "validate" => [r EXCEPT !.fields = current].op = "Insert",
           step = "lockRow" => [r EXCEPT !.fields = current].op = "Update",
           step = "import" => [r EXCEPT !.fields = current].body \in Files
    PROVE  DataInv'
<1>1. TableSound' /\ rows' = rows
  BY LazyMigrationAssumption DEF Arrive, Goto, DataInv, TableSound
<1>2. CASE at' = at /\ ask' = ask
  <2>1. WriterSound(w)' /\ \A id : Holds(w, id)' <=> Holds(w, id)
    BY <1>1, <1>2 DEF DataInv, WriterSound, Recorded, Holds
  <2>2. at'[w] = "idle"
    BY <1>2 DEF Arrive
  <2> QED
    BY <1>1, <1>2, <2>1, <2>2, RowsKept
<1>3. CASE /\ TypeName \in DOMAIN types /\ Goto(w, step)
           /\ ask' = [ask EXCEPT ![w] = [r EXCEPT !.fields = current]]
  <2>1. /\ at'[w] = step /\ ask'[w] = [r EXCEPT !.fields = current]
        /\ \A v \in Writers \ {w} : at'[v] = at[v] /\ ask'[v] = ask[v]
    BY <1>3 DEF Goto, DataInv, TableSound
  <2>2. current \in Recorded /\ Recorded' = Recorded
    BY <1>3, CurrentIsRecorded DEF Recorded
  <2>3. WriterSound(w)'
    BY <2>1, <2>2 DEF WriterSound
  <2> QED
    BY <1>1, <2>1, <2>3, RowsKept
<1> QED
  BY <1>2, <1>3 DEF Arrive

LEMMA StartKeeps ==
    ASSUME TP!Inv, DataInv, NEW w \in Writers, Start(w), UNCHANGED typeVars
    PROVE  DataInv'
<1>0. UNCHANGED history
  BY DEF typeVars
<1>1. CASE StartInsert(w)
  <2>1. PICK b \in Bodies : Arrive(w, [NoAsk EXCEPT !.op = "Insert", !.body = b], "validate")
    BY <1>1 DEF StartInsert
  <2> DEFINE r == [NoAsk EXCEPT !.op = "Insert", !.body = b]
  <2>2. /\ [r EXCEPT !.fields = current].fields = current
        /\ [r EXCEPT !.fields = current].op = "Insert"
    BY DEF NoAsk
  <2> HIDE DEF r
  <2> QED
    BY <1>0, <2>1, <2>2, ArriveKeeps DEF r
<1>2. CASE StartUpdate(w)
  <2>1. PICK b \in Bodies, id \in IDs, v \in Versions :
           Arrive(w, [NoAsk EXCEPT !.op = "Update", !.id = id, !.version = v, !.body = b],
                  "lockRow")
    BY <1>2 DEF StartUpdate
  <2> DEFINE r == [NoAsk EXCEPT !.op = "Update", !.id = id, !.version = v, !.body = b]
  <2>2. /\ [r EXCEPT !.fields = current].fields = current
        /\ [r EXCEPT !.fields = current].op = "Update"
    BY DEF NoAsk
  <2> HIDE DEF r
  <2> QED
    BY <1>0, <2>1, <2>2, ArriveKeeps DEF r
<1>3. CASE StartStatusChange(w)
  <2>1. PICK op \in {"SoftDelete", "Restore"}, id \in IDs :
           Arrive(w, [NoAsk EXCEPT !.op = op, !.id = id], "move")
    BY <1>3 DEF StartStatusChange
  <2> DEFINE r == [NoAsk EXCEPT !.op = op, !.id = id]
  <2>2. [r EXCEPT !.fields = current].fields = current
    BY DEF NoAsk
  <2> HIDE DEF r
  <2> QED
    BY <1>0, <2>1, <2>2, ArriveKeeps DEF r
<1>4. CASE StartImport(w)
  <2>1. PICK f \in Files : Arrive(w, [NoAsk EXCEPT !.op = "Import", !.body = f], "import")
    BY <1>4 DEF StartImport
  <2> DEFINE r == [NoAsk EXCEPT !.op = "Import", !.body = f]
  <2>2. /\ [r EXCEPT !.fields = current].fields = current
        /\ [r EXCEPT !.fields = current].body \in Files
    BY DEF NoAsk
  <2> HIDE DEF r
  <2> QED
    BY <1>0, <2>1, <2>2, ArriveKeeps DEF r
<1> QED
  BY <1>1, <1>2, <1>3, <1>4 DEF Start

-----------------------------------------------------------------------------
(* The writes                                                              *)

(* Who has been answered holds nothing.                                    *)
LEMMA AnsweredHoldsNothing ==
    ASSUME OneHolder, NEW w \in Writers, at'[w] = "idle",
           \A v \in Writers \ {w} : at'[v] = at[v] /\ ask'[v] = ask[v]
    PROVE  OneHolder'
<1>1. \A v \in Writers \ {w} : \A id : Holds(v, id)' <=> Holds(v, id)
  BY DEF Holds
<1>2. \A id : ~Holds(w, id)'
  BY DEF Holds
<1> QED
  BY <1>1, <1>2 DEF OneHolder

LEMMA InsertKeeps ==
    ASSUME DataInv, NEW w \in Writers, InsertRow(w), UNCHANGED history
    PROVE  DataInv'
<1>1. PICK id \in IDs \ DOMAIN rows :
         rows' = [i \in DOMAIN rows \cup {id} |-> IF i = id THEN fresh(ask[w].body) ELSE rows[i]]
  BY DEF InsertRow
<1>2. /\ DOMAIN rows' = DOMAIN rows \cup {id}
      /\ rows'[id] = [version |-> 1, status |-> "active", data |-> ask[w].body]
      /\ \A i \in DOMAIN rows : rows'[i] = rows[i]
  BY <1>1 DEF fresh
<1>3. /\ Fits(ask[w].fields, ask[w].body) /\ ask[w].fields \in Recorded
      /\ Recorded' = Recorded
  BY DEF InsertRow, DataInv, WriterSound, Recorded
<1>4. /\ at'[w] = "idle" /\ \A v \in Writers \ {w} : at'[v] = at[v] /\ ask'[v] = ask[v]
      /\ DOMAIN at' = Writers /\ DOMAIN ask' = Writers /\ DOMAIN told' = Writers /\ asked' = asked
  <2>1. Tell(w, "ok", "none") /\ asked' = asked
    BY DEF InsertRow
  <2> QED
    BY <2>1, Told
<1>5. RowsFitSomeSchema'
  BY <1>2, <1>3 DEF DataInv, RowsFitSomeSchema
<1>6. TableSound'
  BY <1>2, <1>4 DEF DataInv, TableSound
<1>7. ASSUME NEW v \in Writers PROVE WriterSound(v)'
  <2>1. CASE v = w
    BY <1>4, <2>1 DEF WriterSound
  <2>2. CASE v # w
    <3>1. at'[v] = at[v] /\ ask'[v] = ask[v] /\ WriterSound(v)
      BY <1>4, <2>2 DEF DataInv
    <3> QED
      BY <1>2, <1>3, <3>1 DEF WriterSound
  <2> QED
    BY <2>1, <2>2
<1>8. OneHolder'
  BY <1>4, AnsweredHoldsNothing DEF DataInv
<1> QED
  BY <1>5, <1>6, <1>7, <1>8 DEF DataInv

LEMMA UpdateKeeps ==
    ASSUME DataInv, NEW w \in Writers, UpdateRow(w), UNCHANGED history
    PROVE  DataInv'
<1> DEFINE id     == ask[w].id
           merged == mergeData(rows[id].data, ask[w].body)
<1>1. /\ at[w] = "write" /\ ask[w].op = "Update" /\ id \in DOMAIN rows
      /\ Fits(ask[w].fields, merged) /\ ask[w].fields \in Recorded /\ Recorded' = Recorded
  BY DEF UpdateRow, DataInv, WriterSound, Recorded
<1>2. rows' = [rows EXCEPT ![id] = [version |-> rows[id].version + 1,
                                    status |-> rows[id].status, data |-> merged]]
  BY DEF UpdateRow
<1> HIDE DEF merged
<1>3. /\ DOMAIN rows' = DOMAIN rows
      /\ rows'[id] = [version |-> rows[id].version + 1, status |-> rows[id].status,
                      data |-> merged]
      /\ \A i \in DOMAIN rows \ {id} : rows'[i] = rows[i]
  BY <1>1, <1>2
<1>4. /\ at'[w] = "idle" /\ \A v \in Writers \ {w} : at'[v] = at[v] /\ ask'[v] = ask[v]
      /\ DOMAIN at' = Writers /\ DOMAIN ask' = Writers /\ DOMAIN told' = Writers /\ asked' = asked
  <2>1. Tell(w, "ok", "none") /\ asked' = asked
    BY DEF UpdateRow
  <2> QED
    BY <2>1, Told
<1>5. RowsFitSomeSchema'
  BY <1>1, <1>3 DEF DataInv, RowsFitSomeSchema
<1>6. TableSound'
  <2>1. \A i \in DOMAIN rows' : /\ rows'[i].version \in Nat \ {0}
                                /\ rows'[i].status \in {"active", "deleted"}
    BY <1>1, <1>3 DEF DataInv, TableSound
  <2> QED
    BY <1>3, <1>4, <2>1 DEF DataInv, TableSound
<1>7. \A v \in Writers \ {w} : ~Holds(v, id)
  BY <1>1 DEF DataInv, OneHolder, Holds
<1>8. ASSUME NEW v \in Writers \ {w} PROVE WriterSound(v)'
  <2>1. at'[v] = at[v] /\ ask'[v] = ask[v] /\ WriterSound(v)
    BY <1>4 DEF DataInv
  <2>2. at[v] = "write" /\ ask[v].op = "Update" => ask[v].id # id
    BY <1>7 DEF Holds
  <2> QED
    BY <1>1, <1>3, <2>1, <2>2 DEF WriterSound
<1>9. WriterSound(w)'
  BY <1>4 DEF WriterSound
<1>10. OneHolder'
  BY <1>4, AnsweredHoldsNothing DEF DataInv
<1> QED
  BY <1>5, <1>6, <1>8, <1>9, <1>10 DEF DataInv

(* An import waits for everybody who holds a row, so nobody's row goes.    *)
LEMMA ImportKeeps ==
    ASSUME DataInv, NEW w \in Writers, ImportAll(w), UNCHANGED history
    PROVE  DataInv'
<1> DEFINE file == ask[w].body
<1>1. CASE Tell(w, "VALIDATION_ERROR", "none") /\ UNCHANGED <<rows, asked>>
  BY <1>1, TellKeeps
<1>2. CASE /\ \A i \in DOMAIN file : Fits(ask[w].fields, file[i])
           /\ \E status \in [DOMAIN file -> {"active", "deleted"}] :
                 rows' = [i \in DOMAIN file |-> [fresh(file[i]) EXCEPT !.status = status[i]]]
           /\ Tell(w, "ok", "none") /\ asked' = asked
  <2>0. /\ \A i \in DOMAIN file : Fits(ask[w].fields, file[i])
        /\ asked' = asked
    BY <1>2
  <2>1. /\ DOMAIN rows' = DOMAIN file
        /\ \A i \in DOMAIN file : /\ rows'[i].version = 1 /\ rows'[i].data = file[i]
                                  /\ rows'[i].status \in {"active", "deleted"}
    <3>1. PICK status \in [DOMAIN file -> {"active", "deleted"}] :
             rows' = [i \in DOMAIN file |-> [fresh(file[i]) EXCEPT !.status = status[i]]]
      BY <1>2
    <3>2. \A i \in DOMAIN file :
             [fresh(file[i]) EXCEPT !.status = status[i]]
                = [version |-> 1, status |-> status[i], data |-> file[i]]
      BY DEF fresh
    <3> QED
      BY <3>1, <3>2
  <2>2. /\ at[w] = "import" /\ file \in Files /\ ask[w].fields \in Recorded
        /\ Recorded' = Recorded /\ \A i \in DOMAIN rows : RowFree(w, i)
    BY DEF ImportAll, DataInv, WriterSound, Recorded
  <2>3. /\ at'[w] = "idle" /\ \A v \in Writers \ {w} : at'[v] = at[v] /\ ask'[v] = ask[v]
        /\ DOMAIN at' = Writers /\ DOMAIN ask' = Writers /\ DOMAIN told' = Writers
    BY <1>2, Told
  <2>4. RowsFitSomeSchema'
    <3>1. \A i \in DOMAIN rows' : Fits(ask[w].fields, rows'[i].data)
      BY <2>0, <2>1
    <3> QED
      BY <2>2, <3>1 DEF RowsFitSomeSchema
  <2>5. TableSound'
    <3>1. DOMAIN file \subseteq IDs
      BY <2>2, LazyMigrationAssumption
    <3> QED
      BY <2>0, <2>1, <2>3, <3>1 DEF DataInv, TableSound
  <2>6. ASSUME NEW v \in Writers \ {w} PROVE WriterSound(v)'
    <3>1. at'[v] = at[v] /\ ask'[v] = ask[v] /\ WriterSound(v)
      BY <2>3 DEF DataInv
    <3>2. ~(at[v] \in {"lookUp", "write"} /\ ask[v].op = "Update")
      BY <2>2, <3>1 DEF WriterSound, RowFree, Holds
    <3> QED
      BY <2>2, <3>1, <3>2 DEF WriterSound
  <2>7. WriterSound(w)'
    BY <2>3 DEF WriterSound
  <2>8. OneHolder'
    BY <2>3, AnsweredHoldsNothing DEF DataInv
  <2> QED
    BY <2>4, <2>5, <2>6, <2>7, <2>8 DEF DataInv
<1> QED
  BY <1>1, <1>2 DEF ImportAll

(* A change of status leaves every row its data.                           *)
LEMMA Moves ==
    ASSUME NEW row, NEW op
    PROVE  /\ Moved(row, op).data = row.data
           /\ \/ Moved(row, op) = row
              \/ /\ Moved(row, op).version = row.version + 1
                 /\ Moved(row, op).status \in {"active", "deleted"}
  BY DEF Moved

LEMMA MoveKeeps ==
    ASSUME DataInv, NEW w \in Writers, MoveRow(w), UNCHANGED history
    PROVE  DataInv'
<1> DEFINE id == ask[w].id
<1>1. CASE id \notin DOMAIN rows
  BY <1>1, TellKeeps DEF MoveRow
<1>2. CASE id \in DOMAIN rows
  <2>1. /\ rows' = [rows EXCEPT ![id] = Moved(rows[id], ask[w].op)]
        /\ Tell(w, "ok", "none") /\ asked' = asked
    BY <1>2 DEF MoveRow
  <2>2. /\ DOMAIN rows' = DOMAIN rows
        /\ \A i \in DOMAIN rows : /\ rows'[i].data = rows[i].data
                                  /\ rows'[i].version \in Nat \ {0}
                                  /\ rows'[i].status \in {"active", "deleted"}
    <3>1. \A i \in DOMAIN rows : rows'[i] = rows[i] \/ rows'[i] = Moved(rows[i], ask[w].op)
      BY <2>1
    <3> QED
      BY <2>1, <3>1, Moves DEF DataInv, TableSound
  <2>3. /\ at'[w] = "idle" /\ \A v \in Writers \ {w} : at'[v] = at[v] /\ ask'[v] = ask[v]
        /\ DOMAIN at' = Writers /\ DOMAIN ask' = Writers /\ DOMAIN told' = Writers
    BY <2>1, Told
  <2>4. Recorded' = Recorded
    BY DEF Recorded
  <2>5. TableSound' /\ RowsFitSomeSchema'
    BY <2>1, <2>2, <2>3, <2>4 DEF DataInv, TableSound, RowsFitSomeSchema
  <2>6. ASSUME NEW v \in Writers PROVE WriterSound(v)'
    <3>1. CASE v = w
      BY <2>3, <3>1 DEF WriterSound
    <3>2. CASE v # w
      <4>1. at'[v] = at[v] /\ ask'[v] = ask[v] /\ WriterSound(v)
        BY <2>3, <3>2 DEF DataInv
      <4> QED
        BY <2>2, <2>4, <4>1 DEF WriterSound
    <3> QED
      BY <3>1, <3>2
  <2>7. OneHolder'
    BY <2>3, AnsweredHoldsNothing DEF DataInv
  <2> QED
    BY <2>5, <2>6, <2>7 DEF DataInv
<1> QED
  BY <1>1, <1>2

LEMMA WriteKeeps ==
    ASSUME DataInv, NEW w \in Writers, Write(w), UNCHANGED history
    PROVE  DataInv'
<1>1. CASE ValidateInsert(w)
  BY <1>1, DecideKeeps DEF ValidateInsert, DataInv, WriterSound
<1>2. CASE InsertRow(w)
  BY <1>2, InsertKeeps
<1>3. CASE LockAndValidate(w)
  <2>1. ask[w].op = "Update" /\ at[w] = "lockRow" /\ RowFree(w, ask[w].id)
        /\ UNCHANGED <<rows, asked>>
    BY <1>3 DEF LockAndValidate, DataInv, WriterSound
  <2>2. \/ \E code, field : Tell(w, code, field)
        \/ /\ ask[w].id \in DOMAIN rows
           /\ Decide(w, ValidateData(ask[w].fields,
                                     mergeData(rows[ask[w].id].data, ask[w].body)), "write")
    BY <1>3 DEF LockAndValidate, Checked
  <2> QED
    BY <2>1, <2>2, TellKeeps, DecideKeeps
<1>4. CASE UpdateRow(w)
  BY <1>4, UpdateKeeps
<1>5. CASE LookUp(w)
  BY <1>5, TellKeeps DEF LookUp
<1>6. CASE MoveRow(w)
  BY <1>6, MoveKeeps
<1>7. CASE ImportAll(w)
  BY <1>7, ImportKeeps
<1> QED
  BY <1>1, <1>2, <1>3, <1>4, <1>5, <1>6, <1>7 DEF Write

LEMMA TypesKeep ==
    ASSUME TP!Inv, DataInv, Types!Next, UNCHANGED dataVars
    PROVE  DataInv'
<1>1. Recorded \subseteq Recorded' /\ UNCHANGED <<rows, at, ask, told, asked>>
  BY HistoryGrows DEF dataVars
<1>2. TableSound' /\ OneHolder'
  BY <1>1 DEF DataInv, TableSound, OneHolder, Holds
<1>3. RowsFitSomeSchema'
  BY <1>1 DEF DataInv, RowsFitSomeSchema
<1>4. \A w \in Writers : WriterSound(w)'
  BY <1>1 DEF DataInv, WriterSound
<1> QED
  BY <1>2, <1>3, <1>4 DEF DataInv

LEMMA DataAlways == Spec => []DataInv
<1>1. Init => DataInv
  BY LazyMigrationAssumption
  DEF Init, DataInv, TableSound, RowsFitSomeSchema, OneHolder, Holds, WriterSound
<1>2. TP!Inv /\ DataInv /\ [Next]_vars => DataInv'
  <2> SUFFICES ASSUME TP!Inv, DataInv, [Next]_vars PROVE DataInv'
    OBVIOUS
  <2>1. CASE UNCHANGED vars
    <3>1. UNCHANGED <<history, rows, at, ask, told, asked>>
      BY <2>1 DEF vars, typeVars, dataVars
    <3> QED
      BY <3>1 DEF DataInv, TableSound, RowsFitSomeSchema, OneHolder, Holds, WriterSound, Recorded
  <2>2. CASE Types!Next /\ UNCHANGED dataVars
    BY <2>2, TypesKeep
  <2>3. ASSUME NEW w \in Writers, Start(w), UNCHANGED typeVars PROVE DataInv'
    BY <2>3, StartKeeps
  <2>4. ASSUME NEW w \in Writers, Write(w), UNCHANGED typeVars PROVE DataInv'
    BY <2>4, WriteKeeps DEF typeVars
  <2> QED
    BY <2>1, <2>2, <2>3, <2>4 DEF Next
<1> QED
  BY <1>1, <1>2, TypesAlways, PTL DEF Spec

-----------------------------------------------------------------------------
(* The theorems                                                            *)

(* Every row fits, whole, one schema that the type has had                 *)
(* (data_service.go:204-218).                                              *)
THEOREM RowsFit == Spec => []RowsFitSomeSchema
<1>1. DataInv => RowsFitSomeSchema
  BY DEF DataInv
<1> QED
  BY <1>1, DataAlways, PTL

(* Rows and requests have their types, and every copy of the schema that a *)
(* writer works with is in the history (data_service.go:65-78).            *)
THEOREM TypeCorrect == Spec => []TypeOK
<1>1. ASSUME TP!Inv, DataInv PROVE TypeOK
  <2>1. \A s \in Recorded : FieldNames(s) \subseteq Keys
    <3>1. ASSUME NEW s \in Recorded, NEW i \in 1..Len(s) PROVE s[i].name \in Keys
      <4>1. s \in Seq(Field)
        BY <1>1, CurrentIsRecorded, LazyMigrationAssumption
      <4>2. s[i] \in Field
        BY <4>1
      <4> QED
        BY <4>2 DEF Field
    <3> QED
      BY <3>1 DEF FieldNames
  <2>2. \A i \in DOMAIN rows : DOMAIN rows[i].data \subseteq Keys
    BY <1>1, <2>1, FittingKeys DEF DataInv, RowsFitSomeSchema
  <2> QED
    BY <1>1, <2>2 DEF TypeOK, DataInv, TableSound, WriterSound
<1> QED
  BY <1>1, TypesAlways, DataAlways, PTL

(* Required fields, changed types and tightened limits lock no row out of  *)
(* updates (data_service.go:312-346).                                      *)
THEOREM OnlyRemovedKeysBlock == Spec => []OnlyRemovedFieldsBlock
<1>1. ASSUME TP!Inv, DataInv PROVE OnlyRemovedFieldsBlock
  <2>1. ASSUME NEW i \in DOMAIN rows, DOMAIN rows[i].data \subseteq FieldNames(current)
        PROVE  Repairable(rows[i].data)
    <3>1. Recorded # {}
      BY <1>1, <2>1 DEF DataInv, RowsFitSomeSchema
    <3>2. current \in Schemas
      BY <1>1, <3>1, CurrentIsRecorded
    <3>3. current \in Seq(Field) /\ ValidateFields(current)
      BY <3>2, LazyMigrationAssumption
    <3> QED
      BY <2>1, <3>3, RepairFits DEF Repairable
  <2> QED
    BY <2>1 DEF OnlyRemovedFieldsBlock
<1> QED
  BY <1>1, TypesAlways, DataAlways, PTL

(* A key the row itself brings is never called a misspelling               *)
(* (data_service.go:330-342).                                              *)
THEOREM LeftoversAreExplained == Spec => LeftoverIsExplained
<1>1. DataInv /\ [Next]_vars
         => [\A w \in Writers :
                /\ at[w] = "lookUp" /\ at'[w] = "idle" /\ told'[w].code = "VALIDATION_ERROR"
                => refusal[w].field \notin
                      (IF ask[w].op = "Update" THEN DOMAIN rows[ask[w].id].data ELSE {})]_vars
  <2> SUFFICES ASSUME DataInv, [Next]_vars, NEW w \in Writers, at[w] = "lookUp", at'[w] = "idle",
                      told'[w].code = "VALIDATION_ERROR", ask[w].op = "Update",
                      refusal[w].field \in DOMAIN rows[ask[w].id].data
               PROVE  FALSE
    OBVIOUS
  <2>1. at' # at
    OBVIOUS
  <2>2. PICK v \in Writers : Start(v) \/ Write(v)
    BY <2>1 DEF Next, vars, dataVars
  <2>3. ASSUME v # w PROVE at'[w] = at[w]
    BY <2>2, <2>3
    DEF Start, StartInsert, StartUpdate, StartStatusChange, StartImport, Arrive, Write,
        ValidateInsert, InsertRow, LockAndValidate, UpdateRow, LookUp, MoveRow, ImportAll,
        Decide, Proceed, Tell, Goto, DataInv, TableSound
  <2>4. LookUp(w)
    BY <2>2, <2>3
    DEF Start, StartInsert, StartUpdate, StartStatusChange, StartImport, Arrive, Write,
        ValidateInsert, InsertRow, LockAndValidate, UpdateRow, MoveRow, ImportAll
  <2>5. ~FieldExistedInHistory(refusal[w].field)
    <3>1. PICK code, k : /\ Tell(w, code, k)
                         /\ code \in {"INTERNAL_ERROR",
                                      IF FieldExistedInHistory(refusal[w].field)
                                      THEN "FIELD_DEPRECATED" ELSE "VALIDATION_ERROR"}
      BY <2>4 DEF LookUp
    <3>2. told'[w] = [code |-> code, field |-> k]
      BY <3>1, Told
    <3> QED
      BY <3>1, <3>2
  <2>6. PICK s \in Recorded : Fits(s, rows[ask[w].id].data)
    BY DEF DataInv, WriterSound, RowsFitSomeSchema
  <2>7. refusal[w].field \in FieldNames(s)
    BY <2>6, FittingKeys
  <2> QED
    BY <2>5, <2>6, <2>7 DEF FieldExistedInHistory, Recorded
<1> QED
  BY <1>1, DataAlways, PTL DEF Spec, LeftoverIsExplained

LEMMA RowWriters ==
    ASSUME [Next]_vars, rows' # rows
    PROVE  \E w \in Writers : InsertRow(w) \/ UpdateRow(w) \/ MoveRow(w) \/ ImportAll(w)
<1>1. PICK w \in Writers : Start(w) \/ Write(w)
  BY DEF Next, vars, dataVars
<1>2. ~Start(w)
  <2>1. ASSUME NEW r, NEW step, Arrive(w, r, step) PROVE FALSE
    BY <2>1 DEF Arrive
  <2>2. Start(w) => \E r, step : Arrive(w, r, step)
    <3>1. StartInsert(w) => \E r, step : Arrive(w, r, step)
      BY Zenon DEF StartInsert
    <3>2. StartUpdate(w) => \E r, step : Arrive(w, r, step)
      BY Zenon DEF StartUpdate
    <3>3. StartStatusChange(w) => \E r, step : Arrive(w, r, step)
      BY Zenon DEF StartStatusChange
    <3>4. StartImport(w) => \E r, step : Arrive(w, r, step)
      BY Zenon DEF StartImport
    <3> QED
      BY <3>1, <3>2, <3>3, <3>4 DEF Start
  <2> QED
    BY <2>1, <2>2
<1>3. ~(ValidateInsert(w) \/ LockAndValidate(w) \/ LookUp(w))
  BY DEF ValidateInsert, LockAndValidate, LookUp
<1> QED
  BY <1>1, <1>2, <1>3 DEF Write

(* The data of a row that brings a key its schema no longer has are out of *)
(* reach of every request that passed the gate under that schema, soft     *)
(* delete and restore included: imports replace the row, and updates       *)
(* admitted under another schema may still change it                       *)
(* (data_service.go:218, :239-310).                                        *)
THEOREM LeftoversStay == Spec => LeftoverStays
<1>1. DataInv /\ [Next]_vars
         => [\A i \in DOMAIN rows :
                Leftover(i) /\ ~(i \in DOMAIN rows' /\ rows'[i].data = rows[i].data) =>
                    \E w \in Writers : at'[w] = "idle"
                                      /\ \/ at[w] = "import"
                                         \/ at[w] = "write" /\ ask[w].fields # current]_vars
  <2> SUFFICES ASSUME DataInv, [Next]_vars, NEW i \in DOMAIN rows, Leftover(i),
                      ~(i \in DOMAIN rows' /\ rows'[i].data = rows[i].data)
               PROVE  \E w \in Writers : at'[w] = "idle"
                                        /\ \/ at[w] = "import"
                                           \/ at[w] = "write" /\ ask[w].fields # current
    OBVIOUS
  <2>1. rows' # rows
    OBVIOUS
  <2>2. PICK w \in Writers : InsertRow(w) \/ UpdateRow(w) \/ MoveRow(w) \/ ImportAll(w)
    BY <2>1, RowWriters
  <2>3. CASE InsertRow(w)
    <3>1. i \in DOMAIN rows' /\ rows'[i].data = rows[i].data
      BY <2>3 DEF InsertRow
    <3> QED
      BY <3>1
  <2>4. CASE MoveRow(w)
    <3>1. rows' = rows \/ rows' = [rows EXCEPT ![ask[w].id] = Moved(rows[ask[w].id], ask[w].op)]
      BY <2>4 DEF MoveRow
    <3>2. i \in DOMAIN rows' /\ (rows'[i] = rows[i] \/ rows'[i] = Moved(rows[i], ask[w].op))
      BY <3>1
    <3> QED
      BY <3>2, Moves
  <2>5. CASE UpdateRow(w)
    <3> DEFINE merged == mergeData(rows[i].data, ask[w].body)
    <3>1. ask[w].id = i
      BY <2>5 DEF UpdateRow
    <3>2. at[w] = "write" /\ Fits(ask[w].fields, merged)
      BY <2>5, <3>1 DEF UpdateRow, DataInv, WriterSound
    <3>3. DOMAIN merged \subseteq FieldNames(ask[w].fields)
      BY <3>2, FittingKeys
    <3>4. DOMAIN rows[i].data \subseteq DOMAIN merged
      BY DEF mergeData
    <3>5. ask[w].fields # current
      BY <3>3, <3>4 DEF Leftover
    <3>6. at'[w] = "idle"
      BY <2>5, Told DEF UpdateRow
    <3> QED
      BY <3>2, <3>5, <3>6
  <2>6. CASE ImportAll(w)
    <3>1. PICK code : Tell(w, code, "none")
      BY <2>6 DEF ImportAll
    <3> QED
      BY <2>6, <3>1, Told DEF ImportAll
  <2> QED
    BY <2>2, <2>3, <2>4, <2>5, <2>6
<1> QED
  BY <1>1, DataAlways, PTL DEF Spec, LeftoverStays

=============================================================================
