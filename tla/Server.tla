------------------------------- MODULE Server -------------------------------
(***************************************************************************)
(* One replica of the server from start to exit: configuration, key ring,  *)
(* migrations, the request pipeline, the connection pool that all requests *)
(* share, and the stop on a signal (cmd/apiserver, internal/app, config,   *)
(* middleware, handler).                                                   *)
(*                                                                         *)
(* What a request does to the data is other modules' matter.  Here it is   *)
(* the list of its uses of the pool: it takes a connection, waits for a    *)
(* lock of its transaction, and gives the connection back.  Some requests  *)
(* take a second connection while they hold one: they nest.                *)
(***************************************************************************)
EXTENDS Integers, Sequences, FiniteSets

CONSTANTS
    Clients,     \* requests that can be in flight at once
    Conns,       \* connections of the pool (max_open_conns)
    DataLocks,   \* locks of data tables and rows
    TypeLocks,   \* locks of the types' metadata
    Nobody,      \* user of a free connection, holder of a free lock
    Ops,         \* operations that are requested
    Keys,        \* access keys; BoundKey is the one the environment can set
    BoundKey,
    Secrets,     \* secret keys; NoSecret is the empty one
    NoSecret,
    Sources,     \* what the environment and the file set, see Setting
    Unset,       \* a value neither of them sets
    MaxPort,
    MaxNested    \* bound on requests that nest at the same time

VARIABLES
    phase,    \* of the process
    sources,  \* environment, file and defaults the process starts with
    callers,  \* the key ring: secret of each access key
    request,  \* the request of each client
    plan,     \* the uses of the pool it has left, the present one first
    stage,    \* what it waits for
    user,     \* user of each connection
    holder    \* holder of each lock

requestVars == <<request, plan, stage, user, holder>>
vars        == <<phase, sources, callers, requestVars>>

ASSUME ServerAssumption ==
    /\ IsFiniteSet(Clients) /\ IsFiniteSet(Conns) /\ Conns # {} /\ MaxNested \in Nat
    /\ Nobody \notin Clients \cup DataLocks \cup TypeLocks
    /\ NoSecret \in Secrets /\ BoundKey \in Keys

-----------------------------------------------------------------------------
(* Configuration                                                           *)

Numbers == {"port", "page_size_default", "page_size_max", "import_batch_rows",
            "import_max_bytes", "log_limit", "statement_timeout"}

(* The environment wins over the file, the file over the default.          *)
Setting(src, name) ==
    CASE src.env[name]  # Unset -> src.env[name]
      [] src.file[name] # Unset -> src.file[name]
      [] OTHER                  -> src.default[name]

Accepted(src) ==
    LET value(name) == Setting(src, name) IN
    /\ value("port") \in 1..MaxPort
    /\ value("page_size_default") > 0
    /\ value("page_size_max") >= value("page_size_default")
    /\ value("import_batch_rows") > 0 /\ value("import_max_bytes") > 0
    /\ value("log_limit") >= 0 /\ value("statement_timeout") >= 0

(* The ring of the file, in which an entry whose ${VAR} expands to nothing *)
(* is missing, and over it the secret of the environment.                  *)
Ring(src) ==
    IF src.envKey = NoSecret THEN src.fileKeys
    ELSE [ak \in DOMAIN src.fileKeys \cup {BoundKey} |->
             IF ak = BoundKey THEN src.envKey ELSE src.fileKeys[ak]]

(* Mutant: an empty ring is let through.                                   *)
KeysUnchecked(ring) == \A ak \in DOMAIN ring : ring[ak] # NoSecret

KeysComplete(ring) == DOMAIN ring # {} /\ \A ak \in DOMAIN ring : ring[ak] # NoSecret

-----------------------------------------------------------------------------
(* Start                                                                   *)

NoRequest == [op |-> "none", key |-> "none", secret |-> NoSecret]

Load ==
    /\ phase = "load"
    /\ IF Accepted(sources)
       THEN phase' = "init" /\ callers' = Ring(sources)
       ELSE phase' = "failed" /\ UNCHANGED callers
    /\ UNCHANGED <<sources, requestVars>>

(* InitializeApp: refuses an incomplete key ring, opens the pool.          *)
InitializeApp ==
    /\ phase = "init"
    /\ phase' \in IF KeysComplete(callers) THEN {"migrate", "failed"} ELSE {"failed"}
    /\ UNCHANGED <<sources, callers, requestVars>>

(* The migrations run on a connection of their own, outside the pool.      *)
MigrateUp ==
    /\ phase = "migrate"
    /\ phase' \in {"serving", "failed"}
    /\ UNCHANGED <<sources, callers, requestVars>>

-----------------------------------------------------------------------------
(* What the requests wait for                                              *)

Locks == DataLocks \cup TypeLocks

(* One use of the pool: a query, or a transaction that waits for a lock    *)
(* (and fails there if fails), takes a second connection while it has the  *)
(* first if nests, and ends.                                               *)
Segment(l, fails, nests) == [lock |-> l, fails |-> fails, nests |-> nests]

Read    == Segment(Nobody, FALSE, FALSE)
Tx(l)   == Segment(l, FALSE, FALSE)
Nest(l) == Segment(l, FALSE, TRUE)

(* Ways through each handler.  A request that is refused before its next   *)
(* segment has a shorter plan; one that needs no connection (healthz,      *)
(* rules, a schema that is no good) never waits and is left out.           *)
DataPlans(op, l) ==
    CASE op = "insert" -> {<<Read>>, <<Read, Read>>, <<Read, Tx(l)>>}
      [] op = "update" -> {<<Read>>, <<Read, Tx(l)>>, <<Read, Nest(l)>>}
      [] OTHER         -> {<<Read>>, <<Read, Tx(l)>>}

TypePlans(op, l) ==
    CASE op = "register" -> {<<Tx(l), Read>>, <<Segment(l, TRUE, TRUE)>>}
      [] op = "evolve"   -> {<<Read>>, <<Read, Tx(l)>>, <<Read, Tx(l), Read>>}
      [] OTHER           -> {<<Read>>, <<Tx(l), Read>>, <<Nest(Nobody)>>}

Plans(op) ==
    CASE op \in {"readyz", "listTypes", "getType"}   -> {<<Read>>}
      [] op \in {"get", "list", "export", "history"} -> {<<Read>>, <<Read, Read>>}
      [] op \in {"register", "evolve", "deprecate"}  -> UNION {TypePlans(op, l) : l \in TypeLocks}
      [] OTHER                                       -> UNION {DataPlans(op, l) : l \in DataLocks}

Probes == {"readyz"}

Running(r) == stage[r] # "idle"
Serving    == phase \in {"serving", "draining", "closing"}
At(r, st)  == Serving /\ stage[r] = st
Goto(r, st) == stage' = [stage EXCEPT ![r] = st]

Nests(p) == \E i \in 1..Len(p) : p[i].nests

(* Requests that take, or will take, a second connection.                  *)
Nesting == {r \in Clients : Running(r) /\ Nests(plan[r])}

Uses(r) == {c \in Conns : user[c] = r}

WithoutConns(conns) == [c \in Conns |-> IF c \in conns THEN Nobody ELSE user[c]]
WithoutLocks(r)     == [l \in Locks |-> IF holder[l] = r THEN Nobody ELSE holder[l]]

(* Mutant: the deferred Rollback is missing.                               *)
EndWithoutRollback(r) ==
    /\ Goto(r, "idle")
    /\ request' = [request EXCEPT ![r] = NoRequest]
    /\ plan'    = [plan EXCEPT ![r] = <<>>]
    /\ UNCHANGED <<user, holder>>

(* The handler returns: deferred calls give back what it still has.        *)
End(r) ==
    /\ Goto(r, "idle")
    /\ request' = [request EXCEPT ![r] = NoRequest]
    /\ plan'    = [plan EXCEPT ![r] = <<>>]
    /\ user'    = WithoutConns(Uses(r))
    /\ holder'  = WithoutLocks(r)

-----------------------------------------------------------------------------
(* The pipeline of a request                                               *)

(* AKSKAuth: a request of /api/v1 is served only if a key of the ring      *)
(* signed it; New mounts the check only on a ring that is not empty.       *)
Verified(q) ==
    \/ q.op \in Probes
    \/ DOMAIN callers = {}
    \/ q.key \in DOMAIN callers /\ callers[q.key] = q.secret

Receive(r) == \E op \in Ops, key \in Keys, secret \in Secrets :
    LET q == [op |-> op, key |-> key, secret |-> secret] IN
    /\ phase = "serving" /\ ~Running(r) /\ Verified(q)
    /\ \E p \in Plans(op) :
          /\ Nests(p) => Cardinality(Nesting) < MaxNested
          /\ plan' = [plan EXCEPT ![r] = p]
    /\ Goto(r, "acquire")
    /\ request' = [request EXCEPT ![r] = q]
    /\ UNCHANGED <<phase, sources, callers, user, holder>>

-----------------------------------------------------------------------------
(* The pool and the locks                                                  *)

Current(r) == Head(plan[r])

(* Mutant: every request reads the history, before it is known whether it  *)
(* needs to.                                                               *)
AfterLockEager(seg) == "nest"

AfterLock(seg) == IF seg.nests THEN "nest" ELSE "finish"
AfterAcquire(seg) == IF seg.lock = Nobody THEN AfterLock(seg) ELSE "lock"

(* Acquire waits for a connection that is free.  Then it gets it, or finds *)
(* the pool closed and the request fails.                                  *)
Obtain(r, next) == \E c \in Conns :
    /\ user[c] = Nobody
    /\ IF phase = "closing" THEN End(r)
       ELSE /\ user' = [user EXCEPT ![c] = r]
            /\ Goto(r, next)
            /\ UNCHANGED <<request, plan, holder>>
    /\ UNCHANGED <<phase, sources, callers>>

Acquire(r) == At(r, "acquire") /\ Obtain(r, AfterAcquire(Current(r)))

(* The second connection, beside the transaction on the first.             *)
AcquireSecond(r) == At(r, "nest") /\ Obtain(r, "unnest")

ReleaseSecond(r) == \E c \in Uses(r) :
    /\ At(r, "unnest")
    /\ user' = WithoutConns({c})
    /\ Goto(r, "finish")
    /\ UNCHANGED <<phase, sources, callers, request, plan, holder>>

(* A statement gets the lock it asks for when no other request has it.  An *)
(* INSERT of a name that was registered meanwhile fails, and has no lock.  *)
Lock(r) ==
    LET seg == Current(r) IN
    /\ At(r, "lock") /\ holder[seg.lock] = Nobody
    /\ holder' = IF seg.fails THEN holder ELSE [holder EXCEPT ![seg.lock] = r]
    /\ Goto(r, AfterLock(seg))
    /\ UNCHANGED <<phase, sources, callers, request, plan, user>>

(* COMMIT or ROLLBACK, or the last row of a query: locks and connection    *)
(* are free, and the handler goes on or answers.                           *)
Finish(r) ==
    /\ At(r, "finish")
    /\ IF Len(plan[r]) = 1 THEN End(r)
       ELSE /\ plan' = [plan EXCEPT ![r] = Tail(@)]
            /\ Goto(r, "acquire")
            /\ user' = WithoutConns(Uses(r))
            /\ holder' = WithoutLocks(r)
            /\ UNCHANGED request
    /\ UNCHANGED <<phase, sources, callers>>

(* Mutant: the transactions of the data service set no lock_timeout.       *)
LockTimeoutNever(r) == FALSE

(* lock_timeout of the data service's transactions; the type service sets  *)
(* none.                                                                   *)
LockTimeout(r) ==
    At(r, "lock") /\ Current(r).lock \in DataLocks /\ holder[Current(r).lock] # Nobody

Refused(r) ==
    /\ LockTimeout(r)
    /\ End(r)
    /\ UNCHANGED <<phase, sources, callers>>

(* The request fails where it stands: a statement's error, or its client   *)
(* has gone and its context is cancelled.                                  *)
Cancelled(r) ==
    /\ Serving /\ Running(r)
    /\ End(r)
    /\ UNCHANGED <<phase, sources, callers>>

-----------------------------------------------------------------------------
(* Stop                                                                    *)

Signal ==
    /\ phase = "serving"
    /\ phase' = "draining"
    /\ UNCHANGED <<sources, callers, requestVars>>

(* Shutdown returns when no request is left or after ten seconds; main's   *)
(* deferred cleanup then closes the pool under those that are.             *)
Shutdown ==
    /\ phase = "draining"
    /\ phase' = "closing"
    /\ UNCHANGED <<sources, callers, requestVars>>

Crash ==
    /\ request' = [r \in Clients |-> NoRequest]
    /\ plan'    = [r \in Clients |-> <<>>]
    /\ stage'   = [r \in Clients |-> "idle"]
    /\ user'    = [c \in Conns |-> Nobody]
    /\ holder'  = [l \in Locks |-> Nobody]
    /\ UNCHANGED <<sources, callers>>

(* Close waits until every connection is back; then the process exits,     *)
(* whatever its requests still do.                                         *)
Exit ==
    /\ phase = "closing" /\ \A c \in Conns : user[c] = Nobody
    /\ phase' = "stopped"
    /\ Crash

(* The process is killed, or the listener fails and log.Fatalf skips the   *)
(* deferred cleanup.                                                       *)
Killed ==
    /\ Serving
    /\ phase' = "failed"
    /\ Crash

-----------------------------------------------------------------------------
Init ==
    /\ phase = "load" /\ sources \in Sources /\ callers = [ak \in {} |-> NoSecret]
    /\ request = [r \in Clients |-> NoRequest]
    /\ plan    = [r \in Clients |-> <<>>]
    /\ stage   = [r \in Clients |-> "idle"]
    /\ user    = [c \in Conns |-> Nobody]
    /\ holder  = [l \in Locks |-> Nobody]

Process == Load \/ InitializeApp \/ MigrateUp \/ Shutdown \/ Exit

Serve(r) ==
    \/ Acquire(r) \/ AcquireSecond(r) \/ ReleaseSecond(r)
    \/ Lock(r) \/ Refused(r) \/ Finish(r)

Next ==
    \/ Process \/ Signal \/ Killed
    \/ \E r \in Clients : Receive(r) \/ Serve(r) \/ Cancelled(r)

Spec == Init /\ [][Next]_vars

(* The process and the handlers of its requests go on; the pool and        *)
(* PostgreSQL serve those that wait in their order.  Nobody has to send a  *)
(* request or a signal, or to hang up.                                     *)
FairSpec ==
    /\ Spec /\ WF_vars(Process)
    /\ \A r \in Clients : SF_vars(Serve(r))

-----------------------------------------------------------------------------
(* Properties                                                              *)

(* Types; a request that uses a connection is in flight, and a lock lasts  *)
(* only as long as a connection of its holder.                             *)
TypeOK ==
    /\ request \in [Clients -> [op : Ops, key : Keys, secret : Secrets] \cup {NoRequest}]
    /\ \A c \in Conns : user[c] # Nobody => Running(user[c])
    /\ \A l \in Locks : holder[l] # Nobody => Uses(holder[l]) # {}

(* No request of /api/v1 gets as far as its first step unless a secret of  *)
(* the ring, and not the empty one, signed it, although New leaves the     *)
(* check out when the ring is empty (server.go:80-82, wire_gen.go:28-34).  *)
NothingUnverifiedRuns ==
    \A r \in Clients :
        Running(r) /\ request[r].op \notin Probes =>
            /\ request[r].secret # NoSecret
            /\ request[r].key \in DOMAIN callers
            /\ request[r].secret = callers[request[r].key]

(* As long as fewer requests nest than there are connections, every        *)
(* request ends (data_service.go:348-355, providers.go:29-47).             *)
EveryRequestEnds == \A r \in Clients : Running(r) ~> ~Running(r)

(* And a signal stops the process, whatever its requests wait for          *)
(* (app.go:57-67, main.go:35).                                             *)
SignalStops == phase = "draining" ~> phase \in {"stopped", "failed"}

(* Requests fail fast rather than fill the pool (data_service.go:348-349): *)
(* the connections are never all with requests that wait for another one.  *)
(* It takes fewer requests that nest than connections.                     *)
PoolNeverStuck ==
    \E c \in Conns : user[c] = Nobody \/ stage[user[c]] # "nest"

(* What a request waits for is another request's to give.                  *)
Waits(r) ==
    \/ stage[r] \in {"acquire", "nest"} /\ \A c \in Conns : user[c] # Nobody
    \/ stage[r] = "lock" /\ holder[Current(r).lock] # Nobody /\ ~LockTimeout(r)

(* Connections and locks together never have everybody wait for everybody: *)
(* the one who holds a row and waits for a second connection is passed by  *)
(* the lock_timeout of those who hold the connections and wait for the row *)
(* (data_service.go:219, :353), and a type's row is never held that way    *)
(* (type_service.go:112, :185, no timeout).                                *)
NobodyWaitsForAll ==
    (\E r \in Clients : Running(r)) => \E r \in Clients : Running(r) /\ ~Waits(r)

=============================================================================
