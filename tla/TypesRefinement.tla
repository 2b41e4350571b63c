--------------------------- MODULE TypesRefinement ---------------------------
(***************************************************************************)
(* TypeRegistry implements VersionedTypes, for any number of clients,      *)
(* names and requests: a COMMIT with a write is the instant of its         *)
(* request, an UPDATE without a row the instant of a refusal, and every    *)
(* other statement is a stutter or ends the request without effect.  The   *)
(* same invariant shows what an answer that is read after the COMMIT is    *)
(* worth.                                                                  *)
(***************************************************************************)
EXTENDS TypeRegistryProofs

-----------------------------------------------------------------------------
(* How types change                                                        *)

(* A row stays, or evolves by one version, or is deprecated as it is.      *)
Grown(old, new) ==
    \/ new = old
    \/ /\ old.status = "active"
       /\ \/ new.version = old.version + 1
          \/ new.version = old.version /\ new.schema = old.schema /\ new.status = "deprecated"

LEMMA TypesGrow ==
    ASSUME Inv, [Next]_vars, NEW m \in DOMAIN types
    PROVE  m \in DOMAIN types' /\ Grown(types[m], types'[m])
<1>1. CASE types' = types
  BY <1>1 DEF Grown
<1>2. ASSUME NEW p \in Procs, pc[p] = "commit", Publish(p), types' # types
      PROVE  m \in DOMAIN types' /\ Grown(types[m], types'[m])
  <2>1. Writing(p)
    BY <1>2 DEF Publish, Writing
  <2>2. /\ Pending(p)
        /\ DOMAIN types' = DOMAIN types \cup {req[p].name}
        /\ types'[req[p].name] = tx[p].write
        /\ \A k \in DOMAIN types \ {req[p].name} : types'[k] = types[k]
    BY <1>2, <2>1, Published
  <2> QED
    BY <2>2 DEF Pending, Grown
<1> QED
  BY <1>1, <1>2, TypesChange

(* Whatever others do to it afterwards, a row goes on showing a change.    *)
LEMMA ShowsStays ==
    ASSUME NEW r, r.version \in Nat, NEW old \in Definition, NEW new,
           Shows(r, old), Grown(old, new)
    PROVE  Shows(r, new)
<1>1. old.version \in Nat
  BY DEF Definition
<1> QED
  BY <1>1 DEF Shows, Grown

-----------------------------------------------------------------------------
(* What a request asks, and what its statements have found                 *)

Asking(p) ==
    LET r == req[p] IN
    /\ pc[p] = "idle" => r = NoReq
    /\ pc[p] # "idle" => r \in Catalogue!Asks
    /\ r.op = "register" => r.version = 0
    /\ pc[p] = "reread" => r.op = "evolve"
    /\ pc[p] = "commit" /\ ~Writing(p) =>
          r.op = "deprecate" /\ types[r.name].status = "deprecated"
    /\ pc[p] = "read" => Shows(r, types[r.name])
    /\ Writing(p) /\ r.op = "register" => tx[p].write.schema = r.schema

LEMMA AskingIsReal ==
    ASSUME NEW p, Asking(p), pc[p] # "idle"
    PROVE  /\ req[p].op \in {"register", "evolve", "deprecate"} /\ req[p] # NoReq
           /\ req[p].version \in Nat /\ req[p].name \in Names
BY DEF Asking, Catalogue!Asks, NoReq

(* A request that stands still keeps what it knows.                        *)
LEMMA AskingKept ==
    ASSUME Inv, [Next]_vars, NEW q \in Procs, Asking(q),
           pc'[q] = pc[q], req'[q] = req[q], tx'[q] = tx[q]
    PROVE  Asking(q)'
<1> DEFINE n == req[q].name
<1>1. Writing(q)' = Writing(q)
  BY DEF Writing
<1>2. ASSUME pc[q] = "commit", ~Writing(q) PROVE types'[n].status = "deprecated"
  <2>1. n \in DOMAIN types /\ types[n].status = "deprecated"
    BY <1>2, InTyped DEF Stage, Known, Asking
  <2> QED
    BY <2>1, TypesGrow DEF Grown
<1>3. ASSUME pc[q] = "read" PROVE Shows(req[q], types'[n])
  <2>1. n \in DOMAIN types /\ types[n] \in Definition
    BY <1>3, InTyped DEF Stage, Known
  <2>2. req[q].version \in Nat /\ Shows(req[q], types[n])
    BY <1>3, AskingIsReal DEF Asking
  <2> QED
    BY <2>1, <2>2, TypesGrow, ShowsStays
<1> QED
  BY <1>1, <1>2, <1>3 DEF Asking

(* Every request is of one of the three kinds as it arrives.               *)
LEMMA ArriveAsks ==
    ASSUME Inv, NEW p \in Procs, NEW r \in Catalogue!Asks,
           NEW step \in {"insert", "update", "look"}, Arrive(p, r, step),
           r.op = "register" => r.version = 0
    PROVE  Asking(p)' /\ Others(p)
<1>1. /\ pc'[p] = step /\ req'[p] = r /\ tx' = tx /\ Others(p)
  BY DEF Arrive, Goto, Others, Inv, Typed, ClientsTyped
<1>2. ~Writing(p)
  BY InTyped DEF Arrive, Stage
<1>3. ~Writing(p)'
  BY <1>1, <1>2 DEF Writing
<1> QED
  BY <1>1, <1>3 DEF Asking

LEMMA AnswerAsksNothing ==
    ASSUME Inv, NEW p \in Procs, NEW code, NEW def, Answer(p, code, def)
    PROVE  Asking(p)' /\ Others(p)
<1>1. pc'[p] = "idle" /\ req'[p] = NoReq /\ tx'[p] = NoTx /\ Others(p)
  BY DEF Answer, Goto, Others, Inv, Typed, ClientsTyped
<1>2. ~Writing(p)'
  BY <1>1 DEF Writing, NoTx
<1>3. NoReq.op = "none"
  BY DEF NoReq
<1> QED
  BY <1>1, <1>2, <1>3 DEF Asking

LEMMA AdvanceTo ==
    ASSUME Inv, NEW p \in Procs, NEW step, NEW t, Advance(p, step, t)
    PROVE  /\ pc'[p] = step /\ tx'[p] = t /\ Others(p)
           /\ UNCHANGED <<types, tables, history, req, reply, served>>
  BY DEF Advance, Goto, Others, Inv, Typed, ClientsTyped

LEMMA RequestAsks ==
    ASSUME Inv, NEW p \in Procs, Asking(p), Request(p)
    PROVE  Others(p) /\ (Asking(p)' \/ UNCHANGED <<types, pc, req, tx>>)
<1>1. CASE StartRegister(p)
  <2>1. PICK name \in Names, s \in Schemas :
           Arrive(p, [op |-> "register", name |-> name, schema |-> s, version |-> 0], "insert")
    BY <1>1 DEF StartRegister
  <2>2. [op |-> "register", name |-> name, schema |-> s, version |-> 0] \in Catalogue!Asks
    BY DEF Catalogue!Asks
  <2> QED
    BY <2>1, <2>2, ArriveAsks
<1>2. CASE StartEvolve(p)
  <2>1. PICK name \in Names, s \in Schemas, v \in Versions :
           \/ Arrive(p, [op |-> "evolve", name |-> name, schema |-> s, version |-> v], "update")
           \/ UNCHANGED <<types, pc, req, tx>>
    BY <1>2 DEF StartEvolve
  <2>2. [op |-> "evolve", name |-> name, schema |-> s, version |-> v] \in Catalogue!Asks
    BY TypeRegistryAssumption DEF Catalogue!Asks
  <2> QED
    BY <2>1, <2>2, ArriveAsks DEF Others
<1>3. CASE StartDeprecate(p)
  <2>1. PICK name \in Names :
           Arrive(p, [op |-> "deprecate", name |-> name, schema |-> NoSchema, version |-> 0], "look")
    BY <1>3 DEF StartDeprecate
  <2>2. [op |-> "deprecate", name |-> name, schema |-> NoSchema, version |-> 0] \in Catalogue!Asks
    BY DEF Catalogue!Asks
  <2> QED
    BY <2>1, <2>2, ArriveAsks
<1>4. CASE GetType(p)
  BY <1>4 DEF GetType, Others
<1> QED
  BY <1>1, <1>2, <1>3, <1>4 DEF Request

(* The statements of the three transactions.                               *)
LEMMA StatementAsks ==
    ASSUME Inv, NEW p \in Procs, Asking(p),
           InsertType(p) \/ UpdateSchema(p) \/ DeprecateLook(p) \/ DeprecateMark(p)
           \/ InsertHistory(p)
    PROVE  Asking(p)' /\ Others(p)
<1> DEFINE n == req[p].name
<1>0. pc[p] # "idle" /\ Stage(p)
  BY InTyped DEF InsertType, UpdateSchema, DeprecateLook, DeprecateMark, InsertHistory
<1>f. ASSUME NEW code, Fail(p, code) PROVE Asking(p)' /\ Others(p)
  BY <1>f, AnswerAsksNothing DEF Fail
<1>1. CASE InsertType(p) /\ n \notin DOMAIN types
  <2>1. Advance(p, "history", [tx[p] EXCEPT !.write =
                   [schema |-> req[p].schema, status |-> "active", version |-> 1]])
    BY <1>1 DEF InsertType
  <2>2. /\ pc'[p] = "history" /\ req'[p] = req[p] /\ Others(p)
        /\ tx'[p].write.schema = req[p].schema
    BY <2>1, AdvanceTo, InTyped DEF Transactions
  <2> QED
    BY <1>0, <2>2 DEF Asking
<1>2. CASE UpdateSchema(p)
  <2>1. \E t : Advance(p, "history", t) \/ Advance(p, "reread", t)
    BY Zenon, <1>2 DEF UpdateSchema
  <2>2. req[p].op = "evolve"
    BY <1>2, InTyped DEF UpdateSchema, Stage
  <2> QED
    BY <1>0, <2>1, <2>2, AdvanceTo DEF Asking
<1>3. CASE DeprecateLook(p) /\ n \in DOMAIN types
  <2>1. PICK t, step : /\ Advance(p, step, t)
                       /\ step = IF types[n].status = "active" THEN "mark" ELSE "read"
    BY <1>3 DEF DeprecateLook
  <2>2. req[p].op = "deprecate" /\ types[n] \in Definition
    BY <1>3, InTyped DEF DeprecateLook, Stage
  <2>3. step = "read" => types[n].status = "deprecated"
    BY <2>1, <2>2 DEF Definition, Status
  <2> QED
    BY <1>0, <2>1, <2>2, <2>3, AdvanceTo DEF Asking, Shows
<1>4. CASE DeprecateMark(p)
  <2>1. req[p].op = "deprecate" /\ types[n] \in Definition
    BY <1>4, InTyped DEF DeprecateMark, Stage, Known
  <2>2. PICK t, step : /\ Advance(p, step, t)
                       /\ step = IF types[n].status = "active" THEN "history" ELSE "commit"
    BY <1>4 DEF DeprecateMark
  <2>3. step = "commit" => types[n].status = "deprecated"
    BY <2>1, <2>2 DEF Definition, Status
  <2> QED
    BY <1>0, <2>1, <2>2, <2>3, AdvanceTo DEF Asking
<1>5. CASE InsertHistory(p)
  <2>1. PICK e : Advance(p, "commit", [tx[p] EXCEPT !.entry = e])
    BY <1>5 DEF InsertHistory
  <2>2. pc'[p] = "commit" /\ req'[p] = req[p] /\ Others(p) /\ tx'[p].write = tx[p].write
    BY <2>1, AdvanceTo, InTyped DEF Transactions
  <2>3. Writing(p) /\ Writing(p)'
    BY <1>5, <1>0, <2>2 DEF InsertHistory, Stage, Writing
  <2> QED
    BY <1>0, <2>2, <2>3 DEF Asking
<1> QED
  BY <1>f, <1>1, <1>2, <1>3, <1>4, <1>5 DEF InsertType, DeprecateLook

(* What COMMIT has made of the row shows the change.                       *)
LEMMA CommitShows ==
    ASSUME Inv, NEW p \in Procs, Asking(p), pc[p] = "commit", Publish(p)
    PROVE  Shows(req[p], types'[req[p].name])
<1> DEFINE r == req[p]
<1>1. CASE ~Writing(p)
  <2>1. types' = types
    BY <1>1 DEF Publish, Writing
  <2> QED
    BY <1>1, <2>1 DEF Asking, Shows
<1>2. CASE Writing(p)
  <2>1. Pending(p) /\ types'[r.name] = tx[p].write
    BY <1>2, Published
  <2>2. r.op = "register" => r.version = 0 /\ tx[p].write.schema = r.schema
    BY <1>2 DEF Asking
  <2>3. r.version \in Nat
    BY AskingIsReal
  <2> QED
    BY <2>1, <2>2, <2>3 DEF Pending, Shows
<1> QED
  BY <1>1, <1>2

LEMMA CommitAsks ==
    ASSUME Inv, NEW p \in Procs, Asking(p), Commit(p)
    PROVE  Asking(p)' /\ Others(p)
<1>1. pc'[p] = "read" /\ req' = req /\ tx'[p] = NoTx /\ Others(p)
  BY DEF Commit, Goto, Others, Inv, Typed, ClientsTyped
<1>2. ~Writing(p)'
  BY <1>1 DEF Writing, NoTx
<1>3. Shows(req[p], types'[req[p].name])
  BY CommitShows DEF Commit
<1>4. pc[p] # "idle"
  BY DEF Commit
<1> QED
  BY <1>1, <1>2, <1>3, <1>4 DEF Asking

AllAsk == \A p \in Procs : Asking(p)

LEMMA AsksStep == Inv /\ AllAsk /\ [Next]_vars => AllAsk'
<1> SUFFICES ASSUME Inv, AllAsk, [Next]_vars PROVE AllAsk'
  OBVIOUS
<1>1. CASE UNCHANGED vars
  <2>1. \A q \in Procs : pc'[q] = pc[q] /\ req'[q] = req[q] /\ tx'[q] = tx[q]
    BY <1>1 DEF vars
  <2> QED
    BY <2>1, AskingKept DEF AllAsk
<1>2. ASSUME NEW p \in Procs, Asking(p)', Others(p) PROVE AllAsk'
  <2>1. \A q \in Procs \ {p} : Asking(q)'
    BY <1>2, AskingKept DEF AllAsk, Others
  <2> QED
    BY <1>2, <2>1 DEF AllAsk
<1>3. ASSUME NEW p \in Procs, Request(p) PROVE AllAsk'
  <2>1. Asking(p) /\ Others(p) /\ (Asking(p)' \/ UNCHANGED <<types, pc, req, tx>>)
    BY <1>3, RequestAsks DEF AllAsk
  <2>2. CASE UNCHANGED <<types, pc, req, tx>>
    BY <2>2, AskingKept DEF AllAsk
  <2> QED
    BY <1>2, <2>1, <2>2
<1>4. ASSUME NEW p \in Procs, NEW code, NEW def, Answer(p, code, def) PROVE AllAsk'
  BY <1>2, <1>4, AnswerAsksNothing
<1>5. ASSUME NEW p \in Procs, Serve(p) PROVE AllAsk'
  <2>1. CASE EvolveRefused(p) \/ ReadBack(p)
    BY <1>4, <2>1 DEF EvolveRefused, ReadBack, Fail
  <2>2. CASE Commit(p)
    BY <1>2, <2>2, CommitAsks DEF AllAsk
  <2>3. CASE ~(EvolveRefused(p) \/ ReadBack(p) \/ Commit(p))
    BY <1>2, <1>5, <2>3, StatementAsks DEF AllAsk, Serve
  <2> QED
    BY <2>1, <2>2, <2>3
<1>6. ASSUME NEW p \in Procs, Fault(p) PROVE AllAsk'
  BY <1>4, <1>6 DEF Fault, CommitApplied, CommitAborted, ReadFailed, Disconnect, Fail
<1> QED
  BY <1>1, <1>3, <1>5, <1>6 DEF Next

LEMMA AsksAlways == Spec => []AllAsk
<1>1. Init => AllAsk
  <2>1. NoReq.op = "none" /\ NoTx.write = NoDef
    BY DEF NoReq, NoTx
  <2> QED
    BY <2>1 DEF Init, AllAsk, Asking, Writing
<1> QED
  BY <1>1, AsksStep, InvAlways, PTL DEF Spec

(* An answer that is read after the transaction shows the change, or what  *)
(* others have made of it since, however many they are                     *)
(* (type_service.go:61, :128, :185).                                       *)
THEOREM AnswersShowChanges == Spec => AnswerShowsChange
<1>1. Inv /\ AllAsk /\ [Next]_vars
         => [\A p \in Procs :
                pc[p] = "read" /\ pc'[p] = "idle" /\ reply'[p].code = "ok" =>
                    Shows(req[p], reply'[p].def)]_vars
  <2> SUFFICES ASSUME Inv, AllAsk, [Next]_vars, NEW p \in Procs,
                      pc[p] = "read", pc'[p] = "idle", reply'[p].code = "ok"
               PROVE  Shows(req[p], reply'[p].def)
    OBVIOUS
  <2>1. PICK q \in Procs : Request(q) \/ Serve(q) \/ Fault(q)
    BY DEF Next, vars
  <2>2. q = p
    <3>1. CASE Request(q)
      BY <3>1, RequestAsks DEF AllAsk, Others
    <3>2. CASE \E code, def : Answer(q, code, def)
      BY <3>2, AnswerAsksNothing DEF Others
    <3>3. CASE Commit(q)
      BY <3>3, CommitAsks DEF AllAsk, Others
    <3>4. CASE InsertType(q) \/ UpdateSchema(q) \/ DeprecateLook(q) \/ DeprecateMark(q)
               \/ InsertHistory(q)
      BY <3>4, StatementAsks DEF AllAsk, Others
    <3> QED
      BY <2>1, <3>1, <3>2, <3>3, <3>4
      DEF Serve, EvolveRefused, ReadBack, Fault, CommitApplied, CommitAborted, ReadFailed,
          Disconnect, Fail
  <2>3. ~Request(p)
    <3>1. ~(StartRegister(p) \/ StartDeprecate(p) \/ GetType(p))
      BY DEF StartRegister, StartDeprecate, GetType, Arrive
    <3>2. ~StartEvolve(p)
      BY DEF StartEvolve, Arrive
    <3> QED
      BY <3>1, <3>2 DEF Request
  <2>4. ASSUME NEW code, NEW def, Answer(p, code, def) PROVE reply'[p] = [code |-> code, def |-> def]
    BY <2>4 DEF Answer, Inv, Typed, ClientsTyped
  <2>5. ~Fault(p)
    <3>1. ASSUME NEW code \in {"internal", "lost"}, Answer(p, code, NoDef) PROVE FALSE
      <4>1. reply'[p] = [code |-> code, def |-> NoDef]
        BY <2>4, <3>1
      <4> QED
        BY <4>1
    <3> QED
      BY <3>1 DEF Fault, CommitApplied, CommitAborted, ReadFailed, Disconnect, Fail
  <2>6. Serve(p)
    BY <2>1, <2>2, <2>3, <2>5
  <2>7. ReadBack(p)
    BY <2>6 DEF Serve, InsertType, UpdateSchema, EvolveRefused, DeprecateLook, DeprecateMark,
                InsertHistory, Commit
  <2>8. reply'[p].def = types[req[p].name]
    <3>1. Answer(p, "ok", types[req[p].name])
      BY <2>7 DEF ReadBack
    <3>2. reply'[p] = [code |-> "ok", def |-> types[req[p].name]]
      BY <2>4, <3>1
    <3> QED
      BY <3>2
  <2> QED
    BY <2>8 DEF AllAsk, Asking
<1> QED
  BY <1>1, InvAlways, AsksAlways, PTL DEF Spec, AnswerShowsChange

-----------------------------------------------------------------------------
(* What the catalogue sees                                                 *)

LEMMA SameNothings ==
    Catalogue!NoDef = NoDef /\ Catalogue!NoReq = NoReq /\ Catalogue!NoReply = NoReply
  BY DEF Catalogue!NoDef, NoDef, Catalogue!NoReq, NoReq, Catalogue!NoReply, NoReply

StageOf(step) == CASE step = "read" -> "done" [] step = "reread" -> "refused" [] OTHER -> "open"

LEMMA StageAt ==
    ASSUME Inv, NEW p \in Procs
    PROVE  /\ stage[p] = StageOf(pc[p])
           /\ \A step : pc' = [pc EXCEPT ![p] = step] => stage' = [stage EXCEPT ![p] = StageOf(step)]
<1>1. ASSUME NEW step, pc' = [pc EXCEPT ![p] = step]
      PROVE  stage' = [stage EXCEPT ![p] = StageOf(step)]
  <2>1. \A q \in Procs : pc'[q] = IF q = p THEN step ELSE pc[q]
    BY <1>1 DEF Inv, Typed, ClientsTyped
  <2> QED
    BY <2>1 DEF stage, StageOf
<1> QED
  BY <1>1 DEF stage, StageOf

(* A statement inside a transaction shows nothing.                         *)
LEMMA StageStays ==
    ASSUME Inv, NEW p \in Procs, NEW step, pc' = [pc EXCEPT ![p] = step],
           StageOf(step) = StageOf(pc[p])
    PROVE  stage' = stage
<1>1. stage' = [stage EXCEPT ![p] = stage[p]]
  BY StageAt
<1>2. stage = [q \in Procs |-> StageOf(pc[q])]
  BY DEF stage, StageOf
<1> QED
  BY <1>1, <1>2

LEMMA LogStays == history' = history => log' = log
  BY DEF log

(* An entry more in the history is one more in the log.                    *)
LEMMA LogGrows ==
    ASSUME history \in Seq(Entry), NEW e \in Entry, history' = Append(history, e)
    PROVE  log' = Append(log, logged(e))
<1> DEFINE n == Len(history)
           Logged == {logged(x) : x \in Entry}
<1>1. /\ n \in Nat /\ Len(history') = n + 1 /\ history'[n + 1] = e
      /\ \A i \in 1..n : history'[i] = history[i] /\ history[i] \in Entry
  BY AppendEntry
<1>2. log \in Seq(Logged) /\ Len(log) = n
  <2>1. log \in [1..n -> Logged]
    BY <1>1 DEF log
  <2> QED
    BY <1>1, <2>1, SeqDef, LenProperties
<1>3. log' \in Seq(Logged) /\ Len(log') = n + 1
  <2>1. \A i \in 1..(n + 1) : history'[i] \in Entry
    BY <1>1
  <2>2. log' \in [1..(n + 1) -> Logged] /\ n + 1 \in Nat
    BY <1>1, <2>1 DEF log
  <2> QED
    BY <2>2, SeqDef, LenProperties
<1>4. /\ Append(log, logged(e)) \in Seq(Logged) /\ Len(Append(log, logged(e))) = n + 1
      /\ Append(log, logged(e))[n + 1] = logged(e)
      /\ \A i \in 1..n : Append(log, logged(e))[i] = log[i]
  BY <1>2, AppendProperties
<1>5. \A i \in 1..(n + 1) : log'[i] = logged(history'[i])
  BY <1>1 DEF log
<1>6. \A i \in 1..n : log'[i] = log[i]
  BY <1>1, <1>5 DEF log
<1>7. \A i \in 1..(n + 1) : log'[i] = Append(log, logged(e))[i]
  BY <1>1, <1>4, <1>5, <1>6
<1> QED
  BY <1>3, <1>4, <1>7, SeqEqual

(* An answer is an answer there.                                           *)
LEMMA AnswerIsAnswer ==
    ASSUME Inv, NEW p \in Procs, Asking(p), pc[p] # "idle",
           NEW code, NEW def, Answer(p, code, def)
    PROVE  Catalogue!Answer(p, code, def)
<1>1. req[p] # NoReq
  BY AskingIsReal
<1>2. StageOf("idle") = "open"
  BY DEF StageOf
<1>3. stage' = [stage EXCEPT ![p] = "open"]
  BY <1>2, StageAt DEF Answer, Goto
<1> QED
  BY <1>1, <1>3, SameNothings DEF Answer, Catalogue!Answer, Catalogue!Told

LEMMA FailFails ==
    ASSUME Inv, NEW p \in Procs, Asking(p), pc[p] # "idle",
           NEW code \in {"internal", "lost"}, Fail(p, code)
    PROVE  Catalogue!Fail(p)
<1>1. Catalogue!Answer(p, code, NoDef)
  BY AnswerIsAnswer DEF Fail
<1>2. UNCHANGED <<types, log>>
  BY LogStays DEF Fail
<1> QED
  BY <1>1, <1>2, SameNothings DEF Catalogue!Fail

-----------------------------------------------------------------------------
(* Requests                                                                *)

LEMMA ArriveRefines ==
    ASSUME Inv, NEW p \in Procs, Asking(p), NEW r \in Catalogue!Asks,
           NEW step \in {"insert", "update", "look"}, Arrive(p, r, step)
    PROVE  Catalogue!Ask(p)
<1>1. req[p] = NoReq /\ req' = [req EXCEPT ![p] = r] /\ req'[p] = r
  BY DEF Arrive, Asking, Inv, Typed, ClientsTyped
<1>2. stage' = stage
  BY StageStays DEF Arrive, Goto, StageOf
<1>3. log' = log
  BY LogStays DEF Arrive
<1> QED
  BY <1>1, <1>2, <1>3, SameNothings DEF Arrive, Catalogue!Ask

LEMMA RequestRefines ==
    ASSUME Inv, NEW p \in Procs, Asking(p), Request(p)
    PROVE  Catalogue!Ask(p) \/ Catalogue!getType(p)
<1>1. CASE StartRegister(p)
  <2>1. PICK name \in Names, s \in Schemas :
           Arrive(p, [op |-> "register", name |-> name, schema |-> s, version |-> 0], "insert")
    BY <1>1 DEF StartRegister
  <2>2. [op |-> "register", name |-> name, schema |-> s, version |-> 0] \in Catalogue!Asks
    BY DEF Catalogue!Asks
  <2> QED
    BY <2>1, <2>2, ArriveRefines
<1>2. CASE StartEvolve(p)
  <2>1. PICK name \in Names, s \in Schemas, v \in Versions :
           IF name \in DOMAIN types /\ types[name].status = "active"
           THEN Arrive(p, [op |-> "evolve", name |-> name, schema |-> s, version |-> v], "update")
           ELSE /\ pc[p] = "idle"
                /\ reply' = [reply EXCEPT ![p] =
                       [code |-> IF name \in DOMAIN types THEN "deprecated" ELSE "notFound",
                        def  |-> NoDef]]
                /\ UNCHANGED <<types, tables, history, historyID, pc, req, tx>>
    BY <1>2 DEF StartEvolve
  <2>2. [op |-> "evolve", name |-> name, schema |-> s, version |-> v] \in Catalogue!Asks
    BY TypeRegistryAssumption DEF Catalogue!Asks
  <2>3. CASE name \in DOMAIN types /\ types[name].status = "active"
    BY <2>1, <2>2, <2>3, ArriveRefines
  <2>4. CASE ~(name \in DOMAIN types /\ types[name].status = "active")
    <3>1. req[p] = NoReq /\ stage' = stage /\ log' = log /\ UNCHANGED <<types, req>>
      BY <2>1, <2>4, LogStays DEF Asking, stage
    <3>2. name \in DOMAIN types => types[name].status = "deprecated"
      BY <2>4, InTyped DEF Definition, Status
    <3>3. \/ name \notin DOMAIN types /\ Catalogue!Told(p, "notFound", NoDef)
          \/ name \in DOMAIN types /\ Catalogue!Told(p, "deprecated", NoDef)
      BY <2>1, <2>4 DEF Catalogue!Told
    <3> QED
      BY <3>1, <3>2, <3>3, SameNothings DEF Catalogue!getType
  <2> QED
    BY <2>3, <2>4
<1>3. CASE StartDeprecate(p)
  <2>1. PICK name \in Names :
           Arrive(p, [op |-> "deprecate", name |-> name, schema |-> NoSchema, version |-> 0], "look")
    BY <1>3 DEF StartDeprecate
  <2>2. [op |-> "deprecate", name |-> name, schema |-> NoSchema, version |-> 0] \in Catalogue!Asks
    BY DEF Catalogue!Asks
  <2> QED
    BY <2>1, <2>2, ArriveRefines
<1>4. CASE GetType(p)
  <2>1. req[p] = NoReq /\ stage' = stage /\ log' = log /\ UNCHANGED <<types, req>>
    BY <1>4, LogStays DEF GetType, Asking, stage
  <2>2. PICK name \in Names : \/ name \in DOMAIN types /\ Catalogue!Told(p, "ok", types[name])
                              \/ name \notin DOMAIN types /\ Catalogue!Told(p, "notFound", NoDef)
    BY <1>4 DEF GetType, Catalogue!Told
  <2> QED
    BY <2>1, <2>2, SameNothings DEF Catalogue!getType
<1> QED
  BY <1>1, <1>2, <1>3, <1>4 DEF Request

-----------------------------------------------------------------------------
(* COMMIT                                                                  *)

(* The effect, whether the client learns of it or not.                     *)
LEMMA PublishChanges ==
    ASSUME Inv, NEW p \in Procs, Asking(p), pc[p] = "commit", Writing(p), Publish(p),
           Catalogue!Settle(p)
    PROVE  \/ Catalogue!registerType(p) \/ Catalogue!evolveType(p)
           \/ Catalogue!deprecateType(p)
<1> DEFINE r == req[p]
           w == tx[p].write
<1>1. /\ Pending(p) /\ Entered(p) /\ w \in Definition
      /\ types' = [m \in DOMAIN types \cup {r.name} |-> IF m = r.name THEN w ELSE types[m]]
      /\ history' = Append(history, tx[p].entry)
  BY Published DEF Publish, Writing
<1>2. log' = Append(log, [name |-> r.name, op |-> r.op, schema |-> w.schema])
  <2>1. log' = Append(log, logged(tx[p].entry))
    BY <1>1, LogGrows DEF Entered, Inv, Typed, StoreTyped
  <2> QED
    BY <1>1, <2>1 DEF Entered, logged
<1>3. stage[p] = "open"
  BY StageAt DEF StageOf
<1>4. Catalogue!Change(p, w)
  BY <1>1, <1>2, <1>3 DEF Catalogue!Change
<1>5. w = [schema |-> w.schema, status |-> w.status, version |-> w.version]
  BY <1>1 DEF Definition
<1>6. CASE r.op = "register"
  <2>1. w = [schema |-> r.schema, status |-> "active", version |-> 1]
    BY <1>1, <1>5, <1>6 DEF Pending, Asking
  <2> QED
    BY <1>1, <1>4, <1>6, <2>1 DEF Pending, Catalogue!registerType
<1>7. CASE r.op = "evolve"
  <2>1. w = [schema |-> r.schema, status |-> "active", version |-> r.version + 1]
    BY <1>1, <1>5, <1>7 DEF Pending
  <2> QED
    BY <1>1, <1>4, <1>7, <2>1 DEF Pending, Catalogue!evolveType, Catalogue!Current
<1>8. CASE r.op = "deprecate"
  <2>1. r.name \in DOMAIN types /\ types[r.name] \in Definition /\ types[r.name].status = "active"
    BY <1>1, <1>8, InTyped DEF Pending
  <2>2. w = [types[r.name] EXCEPT !.status = "deprecated"]
    BY <1>1, <1>5, <1>8, <2>1 DEF Pending, Definition
  <2> QED
    BY <1>4, <1>8, <2>1, <2>2 DEF Catalogue!deprecateType
<1> QED
  BY <1>6, <1>7, <1>8, AskingIsReal

(* A transaction that found the type deprecated commits nothing.           *)
LEMMA EmptyCommit ==
    ASSUME Inv, NEW p \in Procs, Asking(p), pc[p] = "commit", ~Writing(p)
    PROVE  /\ Publish(p) => types' = types /\ log' = log
           /\ req[p].op = "deprecate" /\ req[p].name \in DOMAIN types
           /\ types[req[p].name].status = "deprecated" /\ stage[p] = "open"
<1>1. Publish(p) => types' = types /\ log' = log
  BY LogStays DEF Publish, Writing
<1>2. req[p].name \in DOMAIN types
  BY InTyped DEF Stage, Known
<1> QED
  BY <1>1, <1>2, StageAt DEF Asking, StageOf

LEMMA CommitRefines ==
    ASSUME Inv, NEW p \in Procs, Asking(p), Commit(p) \/ CommitApplied(p)
    PROVE  Catalogue!Next
<1>1. pc[p] = "commit" /\ Publish(p)
  BY DEF Commit, CommitApplied
<1>2. CASE Commit(p)
  <2>1. stage' = [stage EXCEPT ![p] = "done"] /\ UNCHANGED <<req, reply>>
    BY <1>2, StageAt DEF Commit, Goto, StageOf
  <2>2. CASE Writing(p)
    BY <1>1, <2>1, <2>2, PublishChanges DEF Catalogue!Settle, Catalogue!Next
  <2>3. CASE ~Writing(p)
    BY <1>1, <2>1, <2>3, EmptyCommit DEF Catalogue!Nothing, Catalogue!Next
  <2> QED
    BY <2>2, <2>3
<1>3. CASE CommitApplied(p)
  <2>1. Catalogue!Answer(p, "internal", NoDef)
    BY <1>1, <1>3, AnswerIsAnswer DEF CommitApplied
  <2>2. CASE Writing(p)
    BY <1>1, <2>1, <2>2, PublishChanges, SameNothings DEF Catalogue!Settle, Catalogue!Next
  <2>3. CASE ~Writing(p)
    BY <1>1, <2>1, <2>3, EmptyCommit, SameNothings DEF Catalogue!Fail, Catalogue!Next
  <2> QED
    BY <2>2, <2>3
<1> QED
  BY <1>2, <1>3

-----------------------------------------------------------------------------
(* The other statements                                                    *)

(* A statement of a transaction that goes on shows nothing, unless it is   *)
(* the one that ends the search for a row.                                 *)
LEMMA AdvanceStutters ==
    ASSUME Inv, NEW p \in Procs, NEW step, NEW t, Advance(p, step, t)
    PROVE  /\ UNCHANGED <<types, log, req, reply>>
           /\ stage' = [stage EXCEPT ![p] = StageOf(step)]
           /\ StageOf(step) = StageOf(pc[p]) => UNCHANGED Catalogue!vars
<1>1. UNCHANGED <<types, log, req, reply>>
  BY LogStays DEF Advance
<1>2. stage' = [stage EXCEPT ![p] = StageOf(step)]
  BY StageAt DEF Advance, Goto
<1>3. StageOf(step) = StageOf(pc[p]) => stage' = stage
  BY StageStays DEF Advance, Goto
<1> QED
  BY <1>1, <1>2, <1>3 DEF Catalogue!vars

LEMMA RegisterRefines ==
    ASSUME Inv, NEW p \in Procs, Asking(p), InsertType(p)
    PROVE  Catalogue!Next \/ UNCHANGED Catalogue!vars
<1>1. pc[p] = "insert" /\ req[p].op = "register"
  BY InTyped DEF InsertType, Stage
<1>2. CASE req[p].name \in DOMAIN types
  <2>1. Fail(p, "exists")
    BY <1>2 DEF InsertType
  <2>2. Catalogue!Answer(p, "exists", NoDef) /\ UNCHANGED <<types, log>>
    BY <1>1, <2>1, AnswerIsAnswer, LogStays DEF Fail
  <2> QED
    BY <1>1, <1>2, <2>2, SameNothings DEF Catalogue!Refuse, Catalogue!Next
<1>3. CASE req[p].name \notin DOMAIN types
  <2>1. \E t : Advance(p, "history", t)
    BY Zenon, <1>3 DEF InsertType
  <2> QED
    BY <1>1, <2>1, AdvanceStutters DEF StageOf
<1> QED
  BY <1>2, <1>3

LEMMA EvolveRefines ==
    ASSUME Inv, NEW p \in Procs, Asking(p), UpdateSchema(p) \/ EvolveRefused(p)
    PROVE  Catalogue!Next \/ UNCHANGED Catalogue!vars
<1> DEFINE r == req[p]
<1>1. CASE UpdateSchema(p)
  <2>1. pc[p] = "update" /\ r.op = "evolve" /\ r.name \in DOMAIN types /\ stage[p] = "open"
    BY <1>1, InTyped, StageAt DEF UpdateSchema, Stage, Known, StageOf
  <2>2. CASE SchemaMatches(p)
    <3>1. \E t : Advance(p, "history", t)
      BY Zenon, <1>1, <2>2 DEF UpdateSchema
    <3> QED
      BY <2>1, <3>1, AdvanceStutters DEF StageOf
  <2>3. CASE ~SchemaMatches(p)
    <3>1. Advance(p, "reread", tx[p])
      BY <1>1, <2>3 DEF UpdateSchema
    <3>2. UNCHANGED <<types, log, req, reply>> /\ stage' = [stage EXCEPT ![p] = "refused"]
      BY <3>1, AdvanceStutters DEF StageOf
    <3>3. ~Catalogue!Current(r)
      BY <2>3 DEF SchemaMatches, Catalogue!Current
    <3> QED
      BY <2>1, <3>2, <3>3 DEF Catalogue!Nothing, Catalogue!Next
  <2> QED
    BY <2>2, <2>3
<1>2. CASE EvolveRefused(p)
  <2>1. pc[p] = "reread" /\ types[r.name] \in Definition /\ stage[p] = "refused"
    BY <1>2, InTyped, StageAt DEF EvolveRefused, Stage, Known, StageOf
  <2>2. PICK code : /\ Fail(p, code)
                    /\ code = IF types[r.name].status = "deprecated" THEN "deprecated" ELSE "conflict"
    BY <1>2 DEF EvolveRefused
  <2>3. Catalogue!Answer(p, code, NoDef) /\ UNCHANGED <<types, log>>
    BY <2>1, <2>2, AnswerIsAnswer, LogStays DEF Fail
  <2>4. types[r.name].status \in {"active", "deprecated"}
    BY <2>1 DEF Definition, Status
  <2> QED
    BY <2>1, <2>2, <2>3, <2>4, SameNothings DEF Catalogue!Refuse, Catalogue!Next
<1> QED
  BY <1>1, <1>2

LEMMA DeprecateRefines ==
    ASSUME Inv, NEW p \in Procs, Asking(p), DeprecateLook(p) \/ DeprecateMark(p)
    PROVE  Catalogue!Next \/ UNCHANGED Catalogue!vars
<1> DEFINE r == req[p]
<1>1. r.op = "deprecate" /\ pc[p] \in {"look", "mark"}
  BY InTyped DEF DeprecateLook, DeprecateMark, Stage
<1>2. CASE DeprecateLook(p) /\ r.name \notin DOMAIN types
  <2>1. Fail(p, "notFound")
    BY <1>2 DEF DeprecateLook
  <2>2. Catalogue!Answer(p, "notFound", NoDef) /\ UNCHANGED <<types, log>>
    BY <1>1, <2>1, AnswerIsAnswer, LogStays DEF Fail
  <2> QED
    BY <1>1, <1>2, <2>2, SameNothings DEF Catalogue!Refuse, Catalogue!Next
<1>3. CASE DeprecateLook(p) /\ r.name \in DOMAIN types
  <2>1. PICK t, step : /\ Advance(p, step, t)
                       /\ step = IF types[r.name].status = "active" THEN "mark" ELSE "read"
    BY <1>3 DEF DeprecateLook
  <2>2. CASE types[r.name].status = "active"
    BY <1>1, <2>1, <2>2, AdvanceStutters DEF StageOf
  <2>3. CASE types[r.name].status # "active"
    <3>1. types[r.name].status = "deprecated"
      BY <1>3, <2>3, InTyped DEF Definition, Status
    <3>2. UNCHANGED <<types, log, req, reply>> /\ stage' = [stage EXCEPT ![p] = "done"]
      BY <2>1, <2>3, AdvanceStutters DEF StageOf
    <3>3. stage[p] = "open"
      BY <1>1, StageAt DEF StageOf
    <3> QED
      BY <1>1, <1>3, <3>1, <3>2, <3>3 DEF Catalogue!Nothing, Catalogue!Next
  <2> QED
    BY <2>2, <2>3
<1>4. CASE DeprecateMark(p)
  <2>1. \E t : Advance(p, "history", t) \/ Advance(p, "commit", t)
    BY Zenon, <1>4 DEF DeprecateMark
  <2> QED
    BY <1>1, <2>1, AdvanceStutters DEF StageOf
<1> QED
  BY <1>2, <1>3, <1>4

LEMMA TailRefines ==
    ASSUME Inv, NEW p \in Procs, Asking(p), InsertHistory(p) \/ ReadBack(p)
    PROVE  Catalogue!Next \/ UNCHANGED Catalogue!vars
<1>1. CASE InsertHistory(p)
  <2>1. pc[p] = "history" /\ \E t : Advance(p, "commit", t)
    BY Zenon, <1>1 DEF InsertHistory
  <2> QED
    BY <2>1, AdvanceStutters DEF StageOf
<1>2. CASE ReadBack(p)
  <2>1. pc[p] = "read" /\ stage[p] = "done"
    BY <1>2, StageAt DEF ReadBack, StageOf
  <2>2. Catalogue!Answer(p, "ok", types[req[p].name]) /\ UNCHANGED <<types, log>>
    BY <1>2, <2>1, AnswerIsAnswer, LogStays DEF ReadBack
  <2> QED
    BY <2>1, <2>2 DEF Catalogue!Done, Catalogue!Next
<1> QED
  BY <1>1, <1>2

LEMMA FaultRefines ==
    ASSUME Inv, NEW p \in Procs, Asking(p), Fault(p)
    PROVE  Catalogue!Next
<1>1. CASE CommitApplied(p)
  BY <1>1, CommitRefines
<1>2. ASSUME NEW code \in {"internal", "lost"}, Fail(p, code), pc[p] # "idle" PROVE Catalogue!Next
  BY <1>2, FailFails DEF Catalogue!Next
<1> QED
  BY <1>1, <1>2 DEF Fault, CommitAborted, ReadFailed, Disconnect

-----------------------------------------------------------------------------
(* The refinement                                                          *)

LEMMA InitCatalogue == Init => Catalogue!Init
<1> SUFFICES ASSUME Init PROVE Catalogue!Init
  OBVIOUS
<1>1. log = <<>>
  <2>1. Len(history) = 0
    BY EmptySeq DEF Init
  <2> QED
    BY <2>1 DEF log
<1>2. stage = [p \in Procs |-> "open"]
  BY DEF Init, stage
<1> QED
  BY <1>1, <1>2, SameNothings DEF Init, Catalogue!Init

(* The admin endpoints keep the promise of VersionedTypes: each request    *)
(* takes effect at one instant, with its entry in the history, or not at   *)
(* all, whatever waits, connections and COMMITs do (type_service.go:32-186).*)
THEOREM TypesImplemented == Spec => ImplementsTypes
<1>1. Inv /\ AllAsk /\ [Next]_vars => [Catalogue!Next]_(Catalogue!vars)
  <2> SUFFICES ASSUME Inv, AllAsk, [Next]_vars
               PROVE  Catalogue!Next \/ UNCHANGED Catalogue!vars
    OBVIOUS
  <2>1. CASE UNCHANGED vars
    BY <2>1, LogStays DEF vars, Catalogue!vars, stage
  <2>2. ASSUME NEW p \in Procs, Request(p) PROVE Catalogue!Next
    BY <2>2, RequestRefines DEF AllAsk, Catalogue!Next
  <2>3. ASSUME NEW p \in Procs, Serve(p) PROVE Catalogue!Next \/ UNCHANGED Catalogue!vars
    BY <2>3, RegisterRefines, EvolveRefines, DeprecateRefines, TailRefines, CommitRefines
    DEF AllAsk, Serve
  <2>4. ASSUME NEW p \in Procs, Fault(p) PROVE Catalogue!Next
    BY <2>4, FaultRefines DEF AllAsk
  <2> QED
    BY <2>1, <2>2, <2>3, <2>4 DEF Next
<1> QED
  BY <1>1, InitCatalogue, InvAlways, AsksAlways, PTL DEF Spec, ImplementsTypes, Catalogue!Spec

=============================================================================
