--------------------------- MODULE VersionedTypes ---------------------------
(***************************************************************************)
(* What the admin endpoints promise (internal/handler/server.go): a        *)
(* catalogue of types in which every request takes effect at one instant   *)
(* between its arrival and its answer, together with its entry in the      *)
(* history, or not at all.  There are no statements, no transactions and   *)
(* no locks here; TypeRegistry is shown to implement it.                   *)
(*                                                                         *)
(* Two answers come later than what they report: the definition that a     *)
(* change is answered with, and the reason why an evolution was refused.   *)
(***************************************************************************)
EXTENDS Integers, Sequences

CONSTANTS Clients, Names, Schemas, NoSchema

VARIABLES
    types,  \* definition of each registered name
    log,    \* what was done, oldest first
    asks,   \* request each client waits for
    stage,  \* "open"; "done" or "refused" and not answered yet
    reply   \* outcome of each client's last request

vars == <<types, log, asks, stage, reply>>

NoDef   == [schema |-> NoSchema, status |-> "none", version |-> 0]
NoReq   == [op |-> "none", name |-> "none", schema |-> NoSchema, version |-> 0]
NoReply == [code |-> "none", def |-> NoDef]

Asks == [op : {"register", "evolve"}, name : Names, schema : Schemas, version : Nat]
            \cup [op : {"deprecate"}, name : Names, schema : {NoSchema}, version : {0}]

Init ==
    /\ types = [m \in {} |-> NoDef] /\ log = <<>>
    /\ asks  = [c \in Clients |-> NoReq]
    /\ stage = [c \in Clients |-> "open"]
    /\ reply = [c \in Clients |-> NoReply]

Told(c, code, def) == reply' = [reply EXCEPT ![c] = [code |-> code, def |-> def]]

Ask(c) ==
    /\ asks[c] = NoReq /\ asks'[c] \in Asks
    /\ asks'  = [asks EXCEPT ![c] = asks'[c]]
    /\ reply' = [reply EXCEPT ![c] = NoReply]
    /\ UNCHANGED <<types, log, stage>>

(* A read, or an evolution that the gate refuses, is over at once.         *)
getType(c) == \E name \in Names :
    /\ asks[c] = NoReq
    /\ \/ name \notin DOMAIN types /\ Told(c, "notFound", NoDef)
       \/ name \in DOMAIN types /\ Told(c, "ok", types[name])
       \/ /\ name \in DOMAIN types /\ types[name].status = "deprecated"
          /\ Told(c, "deprecated", NoDef)
    /\ UNCHANGED <<types, log, asks, stage>>

Answer(c, code, def) ==
    /\ asks[c] # NoReq
    /\ asks'  = [asks EXCEPT ![c] = NoReq]
    /\ stage' = [stage EXCEPT ![c] = "open"]
    /\ Told(c, code, def)

(* The effect is there; if the client learns of it only as a failure, now. *)
Settle(c) ==
    \/ stage' = [stage EXCEPT ![c] = "done"] /\ UNCHANGED <<asks, reply>>
    \/ Answer(c, "internal", NoDef)

Change(c, def) ==
    LET r == asks[c] IN
    /\ stage[c] = "open"
    /\ types' = [m \in DOMAIN types \cup {r.name} |-> IF m = r.name THEN def ELSE types[m]]
    /\ log'   = Append(log, [name |-> r.name, op |-> r.op, schema |-> def.schema])
    /\ Settle(c)

registerType(c) == LET r == asks[c] IN
    /\ r.op = "register" /\ r.name \notin DOMAIN types
    /\ Change(c, [schema |-> r.schema, status |-> "active", version |-> 1])

(* Compare-and-set on the version the client sent.                         *)
Current(r) == types[r.name].status = "active" /\ types[r.name].version = r.version

evolveType(c) == LET r == asks[c] IN
    /\ r.op = "evolve" /\ r.name \in DOMAIN types /\ Current(r)
    /\ Change(c, [schema |-> r.schema, status |-> "active", version |-> r.version + 1])

deprecateType(c) == LET r == asks[c] IN
    /\ r.op = "deprecate" /\ r.name \in DOMAIN types /\ types[r.name].status = "active"
    /\ Change(c, [types[r.name] EXCEPT !.status = "deprecated"])

(* Deprecation is idempotent; an evolution of another version is refused.  *)
Nothing(c) == LET r == asks[c] IN
    /\ stage[c] = "open" /\ r.name \in DOMAIN types
    /\ \/ r.op = "deprecate" /\ types[r.name].status = "deprecated"
          /\ stage' = [stage EXCEPT ![c] = "done"]
       \/ r.op = "evolve" /\ ~Current(r) /\ stage' = [stage EXCEPT ![c] = "refused"]
    /\ UNCHANGED <<types, log, asks, reply>>

(* Refusals without effect.                                                *)
Refuse(c) == LET r == asks[c] IN
    /\ \/ r.op = "register" /\ r.name \in DOMAIN types /\ Answer(c, "exists", NoDef)
       \/ r.op = "deprecate" /\ r.name \notin DOMAIN types /\ Answer(c, "notFound", NoDef)
       \/ stage[c] = "refused" /\ types[r.name].status = "active"
          /\ Answer(c, "conflict", NoDef)
       \/ stage[c] = "refused" /\ types[r.name].status = "deprecated"
          /\ Answer(c, "deprecated", NoDef)
    /\ UNCHANGED <<types, log>>

Done(c) ==
    /\ stage[c] = "done" /\ Answer(c, "ok", types[asks[c].name])
    /\ UNCHANGED <<types, log>>

(* The client is left in the dark, whether the effect is there or not.     *)
Fail(c) ==
    /\ \E code \in {"internal", "lost"} : Answer(c, code, NoDef)
    /\ UNCHANGED <<types, log>>

Next == \E c \in Clients :
    \/ Ask(c) \/ getType(c) \/ registerType(c) \/ evolveType(c) \/ deprecateType(c)
    \/ Nothing(c) \/ Refuse(c) \/ Done(c) \/ Fail(c)

Spec == Init /\ [][Next]_vars

=============================================================================
