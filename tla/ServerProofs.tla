---------------------------- MODULE ServerProofs ----------------------------
(***************************************************************************)
(* The pool never gets stuck while fewer requests nest than it has         *)
(* connections, whatever the number of clients, connections and locks, and *)
(* only requests signed with a secret of the ring get anywhere.            *)
(***************************************************************************)
EXTENDS Server, FiniteSetTheorems, SequenceTheorems, TLAPS

(* A use that nests waits for a row of a data table, or for no lock, or    *)
(* does not get its lock.                                                  *)
Segments ==
    {seg \in [lock : Locks \cup {Nobody}, fails : BOOLEAN, nests : BOOLEAN] :
        seg.nests => seg.fails \/ seg.lock \in DataLocks \cup {Nobody}}

Stages == {"idle", "acquire", "lock", "nest", "unnest", "finish"}

Typed ==
    /\ plan \in [Clients -> Seq(Segments)]
    /\ stage \in [Clients -> Stages]
    /\ user \in [Conns -> Clients \cup {Nobody}]

AtMostOne(r) == \A c, d \in Conns : user[c] = r /\ user[d] = r => c = d

(* What a request uses of the pool follows from its stage.                 *)
PoolUse ==
    \A r \in Clients :
        /\ Running(r) => plan[r] # <<>>
        /\ stage[r] \in {"idle", "acquire"} => \A c \in Conns : user[c] # r
        /\ stage[r] \in {"lock", "nest"} => AtMostOne(r)
        /\ stage[r] = "nest" => Current(r).nests

FewNest == Cardinality(Nesting) <= MaxNested

Inv == Typed /\ PoolUse /\ FewNest

-----------------------------------------------------------------------------
LEMMA SegmentsOfLocks ==
    ASSUME NEW l \in Locks \cup {Nobody}
    PROVE  /\ Read \in Segments /\ Tx(l) \in Segments /\ Segment(l, TRUE, TRUE) \in Segments
           /\ l \in DataLocks \cup {Nobody} => Nest(l) \in Segments
  BY DEF Read, Tx, Nest, Segment, Segments

LEMMA ShortSequences ==
    ASSUME NEW S, NEW a \in S, NEW b \in S, NEW c \in S
    PROVE  /\ <<a>> \in Seq(S) /\ <<a, b>> \in Seq(S) /\ <<a, b, c>> \in Seq(S)
           /\ <<a>> # <<>> /\ <<a, b>> # <<>> /\ <<a, b, c>> # <<>>
  OBVIOUS

LEMMA TailOfLonger ==
    ASSUME NEW S, NEW p \in Seq(S), p # <<>>, Len(p) # 1
    PROVE  /\ Tail(p) \in Seq(S) /\ Tail(p) # <<>>
           /\ Len(Tail(p)) = Len(p) - 1
           /\ \A i \in 1..Len(Tail(p)) : Tail(p)[i] = p[i + 1]
<1>1. Len(p) \in Nat \ {0}
  BY EmptySeq
<1>2. Tail(p) \in Seq(S) /\ Len(Tail(p)) = Len(p) - 1
  OBVIOUS
<1>3. Len(Tail(p)) # 0
  BY <1>1, <1>2
<1>4. Len(<<>>) = 0
  BY EmptySeq
<1>5. Tail(p) # <<>>
  BY <1>3, <1>4
<1> QED
  BY <1>2, <1>5

(* Every handler uses the pool at least once.                              *)
LEMMA PlansAreSequences ==
    ASSUME NEW op, NEW p \in Plans(op)
    PROVE  p \in Seq(Segments) /\ p # <<>>
<1> DEFINE Good(q) == q \in Seq(Segments) /\ q # <<>>
<1>1. Read \in Segments /\ Nest(Nobody) \in Segments
  BY SegmentsOfLocks
<1>2. Good(<<Read>>) /\ Good(<<Read, Read>>) /\ Good(<<Nest(Nobody)>>)
  BY <1>1, ShortSequences
<1>3. ASSUME NEW l \in Locks
      PROVE  /\ p \in TypePlans(op, l) => Good(p)
             /\ l \in DataLocks /\ p \in DataPlans(op, l) => Good(p)
  <2>1. /\ Tx(l) \in Segments /\ Segment(l, TRUE, TRUE) \in Segments
        /\ l \in DataLocks => Nest(l) \in Segments
    BY SegmentsOfLocks
  <2>2. /\ Good(<<Tx(l), Read>>) /\ Good(<<Segment(l, TRUE, TRUE)>>) /\ Good(<<Read, Tx(l)>>)
        /\ Good(<<Read, Tx(l), Read>>)
    BY <1>1, <2>1, ShortSequences
  <2>3. l \in DataLocks => Good(<<Read, Nest(l)>>)
    BY <1>1, <2>1, ShortSequences
  <2> QED
    <3> HIDE DEF Good
    <3>1. p \in TypePlans(op, l) => Good(p)
      BY <1>2, <2>2 DEF TypePlans
    <3>2. l \in DataLocks /\ p \in DataPlans(op, l) => Good(p)
      BY <1>2, <2>2, <2>3 DEF DataPlans
    <3> QED
      BY <3>1, <3>2
<1>4. Good(p)
  <2> HIDE DEF Good
  <2> QED
    BY <1>2, <1>3 DEF Plans, Locks
<1> QED
  BY <1>4

(* Requests that no longer nest only leave the set.                        *)
LEMMA FewerNest ==
    ASSUME Inv, Nesting' \subseteq Nesting
    PROVE  FewNest'
<1>1. IsFiniteSet(Nesting)
  BY ServerAssumption, FS_Subset DEF Nesting
<1>2. Cardinality(Nesting') <= Cardinality(Nesting)
  BY <1>1, FS_Subset
<1>3. Cardinality(Nesting) \in Nat /\ Cardinality(Nesting') \in Nat
  BY <1>1, FS_Subset, FS_CardinalityType
<1> QED
  BY <1>2, <1>3, ServerAssumption DEF Inv, FewNest

LEMMA InitInv == Init => Inv
<1> SUFFICES ASSUME Init PROVE Inv
  OBVIOUS
<1>1. Typed
  BY DEF Init, Typed, Stages
<1>2. PoolUse
  BY ServerAssumption DEF Init, PoolUse, Running
<1>3. Nesting = {}
  BY DEF Init, Nesting, Running
<1> QED
  BY <1>1, <1>2, <1>3, FS_EmptySet, ServerAssumption DEF Inv, FewNest

-----------------------------------------------------------------------------
(* The steps                                                               *)

(* Ending a request frees what it uses and touches no other.               *)
LEMMA EndKeepsInv ==
    ASSUME Inv, NEW r \in Clients, End(r)
    PROVE  Inv'
<1>1. Typed'
  BY DEF Inv, Typed, End, Goto, WithoutConns, Stages
<1>2. PoolUse'
  <2> SUFFICES ASSUME NEW q \in Clients
               PROVE  /\ Running(q)' => plan'[q] # <<>>
                      /\ stage'[q] \in {"idle", "acquire"} => \A c \in Conns : user'[c] # q
                      /\ stage'[q] \in {"lock", "nest"} => AtMostOne(q)'
                      /\ stage'[q] = "nest" => Current(q)'.nests
    BY DEF PoolUse
  <2>1. \A c \in Conns : user'[c] = q => user[c] = q /\ q # r
    BY ServerAssumption DEF Inv, Typed, End, WithoutConns, Uses
  <2>2. q # r => stage'[q] = stage[q] /\ plan'[q] = plan[q]
    BY DEF Inv, Typed, End, Goto
  <2>3. stage'[r] = "idle"
    BY DEF Inv, Typed, End, Goto
  <2> QED
    BY <2>1, <2>2, <2>3 DEF Inv, PoolUse, Running, Current, AtMostOne
<1>3. Nesting' \subseteq Nesting
  BY DEF Inv, Typed, End, Goto, Nesting, Running, Nests
<1> QED
  BY <1>1, <1>2, <1>3, FewerNest DEF Inv

LEMMA ReceiveKeepsInv ==
    ASSUME Inv, NEW r \in Clients, Receive(r)
    PROVE  Inv'
<1>1. PICK op \in Ops : \E p \in Plans(op) :
          /\ stage[r] = "idle" /\ stage' = [stage EXCEPT ![r] = "acquire"]
          /\ plan' = [plan EXCEPT ![r] = p]
          /\ Nests(p) => Cardinality(Nesting) < MaxNested
          /\ user' = user
  BY DEF Receive, Running, Goto
<1>2. PICK p \in Plans(op) :
          /\ stage[r] = "idle" /\ stage' = [stage EXCEPT ![r] = "acquire"]
          /\ plan' = [plan EXCEPT ![r] = p]
          /\ Nests(p) => Cardinality(Nesting) < MaxNested
          /\ user' = user
  BY <1>1
<1>3. p \in Seq(Segments) /\ p # <<>>
  BY PlansAreSequences
<1>4. Typed'
  BY <1>2, <1>3 DEF Inv, Typed, Stages
<1>5. PoolUse'
  BY <1>2, <1>3 DEF Inv, Typed, PoolUse, Running, Current, AtMostOne
<1>6. FewNest'
  <2>1. CASE Nests(p)
    <3>1. Nesting' \subseteq Nesting \cup {r}
      BY <1>2 DEF Inv, Typed, Nesting, Running, Nests
    <3>2. IsFiniteSet(Nesting)
      BY ServerAssumption, FS_Subset DEF Nesting
    <3>3. /\ IsFiniteSet(Nesting \cup {r})
          /\ Cardinality(Nesting \cup {r}) <= Cardinality(Nesting) + 1
          /\ Cardinality(Nesting) \in Nat /\ Cardinality(Nesting \cup {r}) \in Nat
      <4>1. /\ IsFiniteSet(Nesting \cup {r})
            /\ Cardinality(Nesting \cup {r}) =
                 IF r \in Nesting THEN Cardinality(Nesting) ELSE Cardinality(Nesting) + 1
        BY <3>2, FS_AddElement
      <4>2. Cardinality(Nesting) \in Nat
        BY <3>2, FS_CardinalityType
      <4> QED
        BY <4>1, <4>2
    <3>4. Cardinality(Nesting') <= Cardinality(Nesting \cup {r}) /\ Cardinality(Nesting') \in Nat
      BY <3>1, <3>3, FS_Subset, FS_CardinalityType
    <3> QED
      BY <1>2, <2>1, <3>3, <3>4, ServerAssumption DEF FewNest
  <2>2. CASE ~Nests(p)
    <3>1. Nesting' \subseteq Nesting
      BY <1>2, <2>2 DEF Inv, Typed, Nesting, Running, Nests
    <3> QED
      BY <3>1, FewerNest
  <2> QED
    BY <2>1, <2>2
<1> QED
  BY <1>4, <1>5, <1>6 DEF Inv

(* A connection goes to a request that then stands at stage st.            *)
LEMMA ObtainKeepsInv ==
    ASSUME Inv, NEW r \in Clients, NEW st, Obtain(r, st),
           \/ stage[r] = "acquire" /\ st = AfterAcquire(Current(r))
           \/ stage[r] = "nest" /\ st = "unnest"
    PROVE  Inv'
<1>1. CASE End(r)
  BY <1>1, EndKeepsInv
<1>2. CASE \E c \in Conns : /\ user[c] = Nobody /\ user' = [user EXCEPT ![c] = r]
                            /\ stage' = [stage EXCEPT ![r] = st] /\ plan' = plan
  <2>1. PICK c \in Conns : /\ user[c] = Nobody /\ user' = [user EXCEPT ![c] = r]
                           /\ stage' = [stage EXCEPT ![r] = st] /\ plan' = plan
    BY <1>2
  <2>2. st \in {"lock", "nest", "unnest", "finish"}
    BY DEF AfterAcquire, AfterLock
  <2>3. stage[r] = "nest" => st = "unnest"
    OBVIOUS
  <2>4. st = "nest" => Current(r).nests
    BY DEF AfterAcquire, AfterLock
  <2>5. Typed'
    BY <2>1, <2>2 DEF Inv, Typed, Stages
  <2>6. PoolUse'
    <3> SUFFICES ASSUME NEW q \in Clients
                 PROVE  /\ Running(q)' => plan'[q] # <<>>
                        /\ stage'[q] \in {"idle", "acquire"} => \A d \in Conns : user'[d] # q
                        /\ stage'[q] \in {"lock", "nest"} => AtMostOne(q)'
                        /\ stage'[q] = "nest" => Current(q)'.nests
      BY DEF PoolUse
    <3>1. CASE q = r
      <4>1. stage'[r] = st /\ plan'[r] = plan[r] /\ plan[r] # <<>>
        BY <2>1 DEF Inv, Typed, PoolUse, Running
      <4>2. stage[r] = "acquire" => AtMostOne(r)'
        BY <2>1 DEF Inv, Typed, PoolUse, AtMostOne
      <4> QED
        BY <3>1, <4>1, <4>2, <2>2, <2>3, <2>4 DEF Running, Current
    <3>2. CASE q # r
      <4>1. /\ stage'[q] = stage[q] /\ plan'[q] = plan[q]
            /\ \A d \in Conns : user'[d] = q => user[d] = q
        BY <2>1, <3>2 DEF Inv, Typed
      <4> QED
        BY <4>1 DEF Inv, PoolUse, Running, Current, AtMostOne
    <3> QED
      BY <3>1, <3>2
  <2>7. Nesting' \subseteq Nesting
    BY <2>1 DEF Inv, Typed, Nesting, Running, Nests
  <2> QED
    BY <2>5, <2>6, <2>7, FewerNest DEF Inv
<1> QED
  BY <1>1, <1>2 DEF Obtain, Goto

(* Steps that give connections back, and the wait for a lock.              *)
LEMMA OtherStepsKeepInv ==
    ASSUME Inv, NEW r \in Clients, ReleaseSecond(r) \/ Lock(r) \/ Finish(r)
    PROVE  Inv'
<1>1. CASE ReleaseSecond(r)
  <2>1. /\ stage' = [stage EXCEPT ![r] = "finish"] /\ plan' = plan /\ stage[r] = "unnest"
        /\ user' \in [Conns -> Clients \cup {Nobody}]
        /\ \A c \in Conns : user'[c] \in {user[c], Nobody}
    BY <1>1 DEF ReleaseSecond, At, Goto, WithoutConns, Inv, Typed
  <2>2. Typed'
    BY <2>1 DEF Inv, Typed, Stages
  <2>3. PoolUse'
    BY <2>1, ServerAssumption DEF Inv, Typed, PoolUse, Running, Current, AtMostOne
  <2>4. Nesting' \subseteq Nesting
    BY <2>1 DEF Inv, Typed, Nesting, Running, Nests
  <2> QED
    BY <2>2, <2>3, <2>4, FewerNest DEF Inv
<1>2. CASE Lock(r)
  <2>1. /\ stage[r] = "lock" /\ stage' = [stage EXCEPT ![r] = AfterLock(Current(r))]
        /\ plan' = plan /\ user' = user
    BY <1>2 DEF Lock, At, Goto
  <2>2. /\ AfterLock(Current(r)) \in {"nest", "finish"}
        /\ AfterLock(Current(r)) = "nest" => Current(r).nests
    BY DEF AfterLock
  <2>3. Typed'
    BY <2>1, <2>2 DEF Inv, Typed, Stages
  <2>4. PoolUse'
    BY <2>1, <2>2 DEF Inv, Typed, PoolUse, Running, Current, AtMostOne
  <2>5. Nesting' \subseteq Nesting
    BY <2>1 DEF Inv, Typed, Nesting, Running, Nests
  <2> QED
    BY <2>3, <2>4, <2>5, FewerNest DEF Inv
<1>3. CASE Finish(r)
  <2>1. CASE End(r)
    BY <2>1, EndKeepsInv
  <2>2. CASE ~End(r)
    <3>1. /\ Len(plan[r]) # 1 /\ stage[r] = "finish"
          /\ plan' = [plan EXCEPT ![r] = Tail(@)]
          /\ stage' = [stage EXCEPT ![r] = "acquire"]
          /\ user' = WithoutConns(Uses(r))
      BY <1>3, <2>2 DEF Finish, At, Goto
    <3>2. plan[r] \in Seq(Segments) /\ plan[r] # <<>>
      BY <3>1 DEF Inv, Typed, PoolUse, Running
    <3>3. /\ Tail(plan[r]) \in Seq(Segments) /\ Tail(plan[r]) # <<>>
          /\ Len(Tail(plan[r])) = Len(plan[r]) - 1
          /\ \A i \in 1..Len(Tail(plan[r])) : Tail(plan[r])[i] = plan[r][i + 1]
      BY <3>1, <3>2, TailOfLonger
    <3>4. Nests(Tail(plan[r])) => Nests(plan[r])
      BY <3>2, <3>3 DEF Nests
    <3>5. \A c \in Conns : user'[c] = IF user[c] = r THEN Nobody ELSE user[c]
      BY <3>1 DEF WithoutConns, Uses
    <3>6. Typed'
      BY <3>1, <3>3 DEF Inv, Typed, Stages, WithoutConns
    <3>7. PoolUse'
      <4> SUFFICES ASSUME NEW q \in Clients
                   PROVE  /\ Running(q)' => plan'[q] # <<>>
                          /\ stage'[q] \in {"idle", "acquire"} => \A c \in Conns : user'[c] # q
                          /\ stage'[q] \in {"lock", "nest"} => AtMostOne(q)'
                          /\ stage'[q] = "nest" => Current(q)'.nests
        BY DEF PoolUse
      <4>1. CASE q = r
        <5>1. stage'[r] = "acquire" /\ plan'[r] = Tail(plan[r])
          BY <3>1 DEF Inv, Typed
        <5>2. \A c \in Conns : user'[c] # r
          BY <3>5, ServerAssumption
        <5> QED
          BY <4>1, <5>1, <5>2, <3>3
      <4>2. CASE q # r
        <5>1. /\ stage'[q] = stage[q] /\ plan'[q] = plan[q]
              /\ \A c \in Conns : user'[c] = q => user[c] = q
          BY <3>1, <3>5, <4>2, ServerAssumption DEF Inv, Typed
        <5> QED
          BY <5>1 DEF Inv, PoolUse, Running, Current, AtMostOne
      <4> QED
        BY <4>1, <4>2
    <3>8. Nesting' \subseteq Nesting
      <4> SUFFICES ASSUME NEW q \in Nesting' PROVE q \in Nesting
        OBVIOUS
      <4>1. q = r => Nests(Tail(plan[r])) /\ Running(r)
        BY <3>1 DEF Inv, Typed, Nesting, Running
      <4>2. q # r => plan'[q] = plan[q] /\ stage'[q] = stage[q]
        BY <3>1 DEF Inv, Typed, Nesting
      <4> QED
        BY <3>4, <4>1, <4>2 DEF Nesting, Running, Nests
    <3> QED
      BY <3>6, <3>7, <3>8, FewerNest DEF Inv
  <2> QED
    BY <2>1, <2>2
<1> QED
  BY <1>1, <1>2, <1>3

(* When the process ends, its requests end with it.                        *)
LEMMA CrashKeepsInv ==
    ASSUME Inv, Crash
    PROVE  Inv'
<1>1. Typed'
  BY DEF Crash, Typed, Stages
<1>2. PoolUse'
  BY ServerAssumption DEF Crash, PoolUse, Running
<1>3. Nesting' \subseteq Nesting
  BY DEF Crash, Nesting, Running
<1> QED
  BY <1>1, <1>2, <1>3, FewerNest DEF Inv

LEMMA StepKeepsInv == Inv /\ [Next]_vars => Inv'
<1> SUFFICES ASSUME Inv, [Next]_vars PROVE Inv'
  OBVIOUS
<1>1. CASE UNCHANGED requestVars
  BY <1>1 DEF Inv, Typed, PoolUse, FewNest, Nesting, Running, Current, AtMostOne, requestVars
<1>2. CASE Exit \/ Killed
  BY <1>2, CrashKeepsInv DEF Exit, Killed
<1>3. ASSUME NEW r \in Clients, Receive(r) PROVE Inv'
  BY <1>3, ReceiveKeepsInv
<1>4. ASSUME NEW r \in Clients, Serve(r) PROVE Inv'
  <2>1. CASE Acquire(r)
    BY <2>1, ObtainKeepsInv DEF Acquire, At
  <2>2. CASE AcquireSecond(r)
    BY <2>2, ObtainKeepsInv DEF AcquireSecond, At
  <2>3. CASE Refused(r)
    BY <2>3, EndKeepsInv DEF Refused
  <2> QED
    BY <1>4, <2>1, <2>2, <2>3, OtherStepsKeepInv DEF Serve
<1>5. ASSUME NEW r \in Clients, Cancelled(r) PROVE Inv'
  BY <1>5, EndKeepsInv DEF Cancelled
<1> QED
  BY <1>1, <1>2, <1>3, <1>4, <1>5
  DEF Next, Process, Load, InitializeApp, MigrateUp, Signal, Shutdown, vars

-----------------------------------------------------------------------------
(* If all connections were with requests that wait for a second one, these *)
(* requests would be as many as the connections.                           *)
LEMMA NestersAreFewer ==
    ASSUME Inv, MaxNested < Cardinality(Conns)
    PROVE  PoolNeverStuck
<1> SUFFICES ASSUME ~PoolNeverStuck PROVE FALSE
  OBVIOUS
<1>1. \A c \in Conns : user[c] # Nobody /\ stage[user[c]] = "nest"
  BY DEF PoolNeverStuck
<1>2. \A c \in Conns : user[c] \in Nesting
  <2> SUFFICES ASSUME NEW c \in Conns PROVE user[c] \in Nesting
    OBVIOUS
  <2>1. user[c] \in Clients
    BY <1>1 DEF Inv, Typed
  <2>2. /\ plan[user[c]] \in Seq(Segments) /\ plan[user[c]] # <<>>
        /\ Head(plan[user[c]]).nests
    BY <1>1, <2>1 DEF Inv, Typed, PoolUse, Running, Current
  <2>3. plan[user[c]][1].nests /\ 1 \in 1..Len(plan[user[c]])
    BY <2>2
  <2> QED
    BY <1>1, <2>1, <2>3 DEF Nesting, Running, Nests
<1>3. user \in Injection(Conns, Nesting)
  <2>1. \A c, d \in Conns : user[c] = user[d] => c = d
    BY <1>1 DEF Inv, Typed, PoolUse, AtMostOne
  <2>2. user \in [Conns -> Nesting]
    BY <1>2 DEF Inv, Typed
  <2> QED
    BY <2>1, <2>2 DEF Injection, IsInjective
<1>4. IsFiniteSet(Nesting)
  BY ServerAssumption, FS_Subset DEF Nesting
<1>5. Cardinality(Conns) <= Cardinality(Nesting)
  BY <1>3, <1>4, FS_Injection
<1>6. Cardinality(Nesting) \in Nat /\ Cardinality(Conns) \in Nat
  BY <1>4, ServerAssumption, FS_CardinalityType
<1> QED
  BY <1>5, <1>6, ServerAssumption DEF Inv, FewNest

(* As long as fewer requests nest at once than the pool has connections,   *)
(* some connection always comes back without the pool's help               *)
(* (data_service.go:219, meta.go:95, type_service.go:185).                 *)
THEOREM PoolIsNeverStuck ==
    ASSUME MaxNested < Cardinality(Conns)
    PROVE  Spec => []PoolNeverStuck
<1>1. Inv => PoolNeverStuck
  BY NestersAreFewer
<1> QED
  BY <1>1, InitInv, StepKeepsInv, PTL DEF Spec

-----------------------------------------------------------------------------
(* The key ring                                                            *)

Started == phase \in {"migrate", "serving", "draining", "closing"}

Signed ==
    /\ request \in [Clients -> [op : Ops, key : Keys, secret : Secrets] \cup {NoRequest}]
    /\ Started => KeysComplete(callers)
    /\ \A r \in Clients : Running(r) => Serving /\ Verified(request[r])

LEMMA SignedIsEnough == Signed => NothingUnverifiedRuns
<1> SUFFICES ASSUME Signed, NEW r \in Clients, Running(r), request[r].op \notin Probes
             PROVE  /\ request[r].secret # NoSecret
                    /\ request[r].key \in DOMAIN callers
                    /\ request[r].secret = callers[request[r].key]
  BY DEF NothingUnverifiedRuns
<1>1. KeysComplete(callers) /\ Verified(request[r])
  BY DEF Signed, Serving, Started
<1> QED
  BY <1>1 DEF KeysComplete, Verified

(* A request that goes on stays what it was when it was verified.          *)
LEMMA ServeKeepsRequest ==
    ASSUME Inv, NEW r \in Clients, Serve(r) \/ Cancelled(r), NEW q \in Clients
    PROVE  /\ phase' = phase /\ callers' = callers
           /\ request' = request \/ request' = [request EXCEPT ![r] = NoRequest]
           /\ Running(q)' => Running(q) /\ request'[q] = request[q]
<1> USE DEF Inv, Typed, Running, At
<1>1. CASE End(r) /\ phase' = phase /\ callers' = callers
  <2>1. /\ stage' = [stage EXCEPT ![r] = "idle"]
        /\ request' = [request EXCEPT ![r] = NoRequest]
    BY <1>1 DEF End, Goto
  <2>2. q # r => stage'[q] = stage[q]
    BY <2>1
  <2>3. stage'[r] = "idle"
    BY <2>1
  <2>4. q # r => request'[q] = request[q]
    BY <2>1
  <2> QED
    BY <1>1, <2>1, <2>2, <2>3, <2>4
<1>2. CASE ~End(r)
  <2>1. /\ phase' = phase /\ callers' = callers /\ request' = request
        /\ stage[r] # "idle" /\ \E st : stage' = [stage EXCEPT ![r] = st]
    BY <1>2 DEF Serve, Acquire, AcquireSecond, Obtain, ReleaseSecond, Lock, Refused,
                Finish, Cancelled, Goto
  <2> QED
    BY <2>1
<1>3. End(r) => phase' = phase /\ callers' = callers
  BY DEF Serve, Acquire, AcquireSecond, Obtain, ReleaseSecond, Lock, Refused, Finish, Cancelled
<1> QED
  BY <1>1, <1>2, <1>3

LEMMA SignedStep == Inv /\ Signed /\ [Next]_vars => Signed'
<1> SUFFICES ASSUME Inv, Signed, [Next]_vars PROVE Signed'
  OBVIOUS
<1>1. CASE UNCHANGED vars
  BY <1>1 DEF Signed, Running, Started, Serving, Verified, KeysComplete, vars, requestVars
<1>2. CASE Load \/ InitializeApp
  <2>1. /\ request' = request /\ stage' = stage /\ ~Serving
        /\ Started' => KeysComplete(callers)'
    BY <1>2 DEF Load, InitializeApp, Started, Serving, requestVars, KeysComplete
  <2> QED
    BY <2>1 DEF Signed, Running
<1>3. CASE MigrateUp \/ Shutdown \/ Signal
  <2>1. /\ request' = request /\ stage' = stage /\ callers' = callers /\ Started
        /\ phase' \in {"serving", "closing", "draining", "failed"}
    BY <1>3 DEF MigrateUp, Shutdown, Signal, Started, requestVars
  <2>2. ASSUME NEW r \in Clients, Running(r) PROVE Serving'
    <3>1. Serving
      BY <2>2 DEF Signed
    <3> QED
      BY <1>3, <3>1 DEF MigrateUp, Shutdown, Signal, Serving
  <2>3. Started' => Started
    BY <2>1
  <2> QED
    BY <2>1, <2>2, <2>3 DEF Signed, Running, Verified, KeysComplete
<1>4. CASE Exit \/ Killed
  <2>1. /\ request' = [r \in Clients |-> NoRequest] /\ phase' \in {"stopped", "failed"}
        /\ stage' = [r \in Clients |-> "idle"]
    BY <1>4 DEF Exit, Killed, Crash
  <2> QED
    BY <2>1 DEF Signed, Running, Started
<1>5. ASSUME NEW r \in Clients, Receive(r) PROVE Signed'
  <2>1. PICK op \in Ops, key \in Keys, secret \in Secrets :
           /\ phase = "serving" /\ phase' = phase /\ callers' = callers
           /\ Verified([op |-> op, key |-> key, secret |-> secret])
           /\ request' = [request EXCEPT ![r] = [op |-> op, key |-> key, secret |-> secret]]
           /\ stage' = [stage EXCEPT ![r] = "acquire"]
    BY <1>5 DEF Receive, Goto
  <2>2. /\ request' \in [Clients -> [op : Ops, key : Keys, secret : Secrets] \cup {NoRequest}]
        /\ request'[r] = [op |-> op, key |-> key, secret |-> secret]
        /\ \A q \in Clients \ {r} : request'[q] = request[q] /\ stage'[q] = stage[q]
    BY <2>1 DEF Signed, Inv, Typed
  <2>3. Started /\ Serving'
    BY <2>1 DEF Started, Serving
  <2> QED
    BY <2>1, <2>2, <2>3 DEF Signed, Running, Verified, KeysComplete
<1>6. ASSUME NEW r \in Clients, Serve(r) \/ Cancelled(r) PROVE Signed'
  <2>1. /\ phase' = phase /\ callers' = callers
        /\ request' = request \/ request' = [request EXCEPT ![r] = NoRequest]
    BY <1>6, ServeKeepsRequest
  <2>2. request' \in [Clients -> [op : Ops, key : Keys, secret : Secrets] \cup {NoRequest}]
    BY <2>1 DEF Signed
  <2>3. \A q \in Clients : Running(q)' => Running(q) /\ request'[q] = request[q]
    BY <1>6, ServeKeepsRequest
  <2> QED
    BY <2>1, <2>2, <2>3 DEF Signed, Started, Serving, Verified, KeysComplete
<1> QED
  BY <1>1, <1>2, <1>3, <1>4, <1>5, <1>6 DEF Next, Process

(* Whatever the file and the environment say, a replica that serves has    *)
(* secrets, and only they open the API.                                    *)
THEOREM OnlyVerifiedRun == Spec => []NothingUnverifiedRuns
<1>1. Init => Signed
  BY DEF Init, Signed, Started, Running
<1> QED
  BY <1>1, InitInv, StepKeepsInv, SignedStep, SignedIsEnough, PTL DEF Spec

-----------------------------------------------------------------------------
(* Locks and the connections of their holders                              *)

LocksHeld ==
    /\ holder \in [Locks -> Clients \cup {Nobody}]
    /\ \A l \in Locks : holder[l] # Nobody => stage[holder[l]] \in {"nest", "unnest", "finish"}
    /\ \A r \in Clients : stage[r] \in {"lock", "nest", "finish"} => \E c \in Conns : user[c] = r
    /\ \A r \in Clients : stage[r] = "unnest" =>
          \E c, d \in Conns : c # d /\ user[c] = r /\ user[d] = r

LEMMA EndKeepsLocks ==
    ASSUME Inv, LocksHeld, NEW r \in Clients, End(r)
    PROVE  LocksHeld'
<1>1. /\ stage' = [stage EXCEPT ![r] = "idle"]
      /\ user' = [c \in Conns |-> IF c \in Uses(r) THEN Nobody ELSE user[c]]
      /\ holder' = [l \in Locks |-> IF holder[l] = r THEN Nobody ELSE holder[l]]
  BY DEF End, Goto, WithoutConns, WithoutLocks
<1>2. \A q \in Clients \ {r} : stage'[q] = stage[q]
  BY <1>1 DEF Inv, Typed
<1>3. \A c \in Conns : user[c] # r => user'[c] = user[c]
  BY <1>1 DEF Uses
<1>4. \A l \in Locks : holder'[l] # Nobody => holder'[l] = holder[l] /\ holder[l] \in Clients \ {r}
  BY <1>1 DEF LocksHeld
<1>5. stage'[r] = "idle"
  BY <1>1 DEF Inv, Typed
<1>6. holder' \in [Locks -> Clients \cup {Nobody}]
  BY <1>1 DEF LocksHeld
<1> QED
  BY <1>2, <1>3, <1>4, <1>5, <1>6, ServerAssumption DEF LocksHeld

(* A step of one request that leaves the others' connections alone.        *)
LEMMA StageKeepsLocks ==
    ASSUME Inv, LocksHeld, NEW r \in Clients, NEW st, stage' = [stage EXCEPT ![r] = st],
           \A q \in Clients \ {r}, c \in Conns : user[c] = q => user'[c] = q,
           holder' \in [Locks -> Clients \cup {Nobody}],
           \A l \in Locks : holder'[l] # Nobody /\ holder'[l] # r => holder'[l] = holder[l],
           \A l \in Locks : holder'[l] = r => st \in {"nest", "unnest", "finish"},
           st \in {"lock", "nest", "finish"} => \E c \in Conns : user'[c] = r,
           st = "unnest" => \E c, d \in Conns : c # d /\ user'[c] = r /\ user'[d] = r
    PROVE  LocksHeld'
<1>1. stage'[r] = st /\ \A q \in Clients \ {r} : stage'[q] = stage[q]
  BY DEF Inv, Typed
<1>2. ASSUME NEW l \in Locks, holder'[l] # Nobody
      PROVE  stage'[holder'[l]] \in {"nest", "unnest", "finish"}
  <2>1. CASE holder'[l] = r
    BY <1>1, <2>1
  <2>2. CASE holder'[l] # r
    BY <1>1, <1>2, <2>2 DEF LocksHeld
  <2> QED
    BY <2>1, <2>2
<1>3. ASSUME NEW q \in Clients, stage'[q] \in {"lock", "nest", "finish"}
      PROVE  \E c \in Conns : user'[c] = q
  BY <1>1, <1>3 DEF LocksHeld
<1>4. ASSUME NEW q \in Clients, stage'[q] = "unnest"
      PROVE  \E c, d \in Conns : c # d /\ user'[c] = q /\ user'[d] = q
  BY <1>1, <1>4 DEF LocksHeld
<1> QED
  BY <1>2, <1>3, <1>4 DEF LocksHeld

LEMMA ServeKeepsLocks ==
    ASSUME Inv, LocksHeld, NEW r \in Clients, Serve(r) \/ Cancelled(r)
    PROVE  LocksHeld'
<1>e. CASE End(r)
  BY <1>e, EndKeepsLocks
<1>n. stage[r] \in {"acquire", "lock"} => \A l \in Locks : holder[l] # r
  BY ServerAssumption DEF LocksHeld
<1>1. ASSUME NEW st, Obtain(r, st), ~End(r), stage[r] \in {"acquire", "nest"},
             stage[r] = "acquire" => st \in {"lock", "nest", "finish"},
             stage[r] = "nest" => st = "unnest"
      PROVE  LocksHeld'
  <2>1. PICK c \in Conns : /\ user[c] = Nobody /\ user' = [user EXCEPT ![c] = r]
                           /\ stage' = [stage EXCEPT ![r] = st] /\ holder' = holder
    BY <1>1 DEF Obtain, Goto
  <2>2. user'[c] = r /\ \A d \in Conns \ {c} : user'[d] = user[d]
    BY <2>1 DEF Inv, Typed
  <2>3. stage[r] = "nest" => \E d \in Conns : d # c /\ user'[d] = r
    BY <2>1, <2>2, ServerAssumption DEF LocksHeld
  <2>4. \A q \in Clients \ {r}, d \in Conns : user[d] = q => user'[d] = q
    BY <2>1, <2>2, ServerAssumption
  <2>5. \A l \in Locks : holder'[l] = r => st = "unnest"
    BY <1>n, <1>1, <2>1
  <2>6. st = "unnest" => \E a, b \in Conns : a # b /\ user'[a] = r /\ user'[b] = r
    BY <1>1, <2>2, <2>3
  <2>7. holder' \in [Locks -> Clients \cup {Nobody}]
    BY <2>1 DEF LocksHeld
  <2> QED
    BY <2>1, <2>2, <2>4, <2>5, <2>6, <2>7, StageKeepsLocks
<1>2. CASE Acquire(r)
  BY <1>e, <1>1, <1>2 DEF Acquire, At, AfterAcquire, AfterLock
<1>3. CASE AcquireSecond(r)
  BY <1>e, <1>1, <1>3 DEF AcquireSecond, At
<1>4. CASE ReleaseSecond(r)
  <2>1. PICK c \in Conns : /\ user[c] = r /\ stage[r] = "unnest" /\ holder' = holder
                           /\ user' = [d \in Conns |-> IF d = c THEN Nobody ELSE user[d]]
                           /\ stage' = [stage EXCEPT ![r] = "finish"]
    BY <1>4 DEF ReleaseSecond, Uses, At, Goto, WithoutConns
  <2>2. \E d \in Conns : user'[d] = r
    BY <2>1 DEF LocksHeld
  <2>3. \A q \in Clients \ {r}, d \in Conns : user[d] = q => user'[d] = q
    BY <2>1
  <2>4. holder' \in [Locks -> Clients \cup {Nobody}]
    BY <2>1 DEF LocksHeld
  <2> QED
    BY <2>1, <2>2, <2>3, <2>4, StageKeepsLocks
<1>5. CASE Lock(r)
  <2> DEFINE st == AfterLock(Current(r))
  <2>1. /\ stage[r] = "lock" /\ stage' = [stage EXCEPT ![r] = st] /\ user' = user
        /\ holder' \in [Locks -> Clients \cup {Nobody}]
        /\ \A l \in Locks : holder'[l] \in {holder[l], r}
    <3>1. /\ stage[r] = "lock" /\ stage' = [stage EXCEPT ![r] = st] /\ user' = user
          /\ \/ holder' = holder
             \/ holder' = [holder EXCEPT ![Current(r).lock] = r]
      BY <1>5 DEF Lock, At, Goto
    <3> QED
      BY <3>1 DEF LocksHeld
  <2>2. st \in {"nest", "finish"}
    BY DEF AfterLock
  <2>3. \E c \in Conns : user'[c] = r
    BY <2>1 DEF LocksHeld
  <2> HIDE DEF st
  <2> QED
    BY <2>1, <2>2, <2>3, StageKeepsLocks
<1>6. CASE Finish(r) /\ ~End(r)
  <2>1. /\ stage' = [stage EXCEPT ![r] = "acquire"]
        /\ user' = [c \in Conns |-> IF c \in Uses(r) THEN Nobody ELSE user[c]]
        /\ holder' = [l \in Locks |-> IF holder[l] = r THEN Nobody ELSE holder[l]]
    BY <1>6 DEF Finish, Goto, WithoutConns, WithoutLocks
  <2>2. \A q \in Clients \ {r}, c \in Conns : user[c] = q => user'[c] = q
    BY <2>1 DEF Uses
  <2>3. /\ holder' \in [Locks -> Clients \cup {Nobody}]
        /\ \A l \in Locks : holder'[l] \in {holder[l], Nobody} /\ holder'[l] # r
    BY <2>1, ServerAssumption DEF LocksHeld
  <2> QED
    BY <2>1, <2>2, <2>3, StageKeepsLocks
<1> QED
  BY <1>e, <1>2, <1>3, <1>4, <1>5, <1>6 DEF Serve, Refused, Cancelled

LEMMA ReceiveKeepsLocks ==
    ASSUME Inv, LocksHeld, NEW r \in Clients, Receive(r)
    PROVE  LocksHeld'
<1>1. /\ stage[r] = "idle" /\ stage' = [stage EXCEPT ![r] = "acquire"]
      /\ user' = user /\ holder' = holder
  BY DEF Receive, Running, Goto
<1>2. \A l \in Locks : holder[l] # r
  BY <1>1, ServerAssumption DEF LocksHeld
<1>3. holder' \in [Locks -> Clients \cup {Nobody}]
  BY <1>1 DEF LocksHeld
<1> QED
  BY <1>1, <1>2, <1>3, StageKeepsLocks

LEMMA LocksStep == Inv /\ LocksHeld /\ [Next]_vars => LocksHeld'
<1> SUFFICES ASSUME Inv, LocksHeld, [Next]_vars PROVE LocksHeld'
  OBVIOUS
<1>1. CASE UNCHANGED requestVars
  BY <1>1 DEF LocksHeld, requestVars
<1>2. CASE Exit \/ Killed
  BY <1>2 DEF Exit, Killed, Crash, LocksHeld
<1>3. ASSUME NEW r \in Clients, Receive(r) PROVE LocksHeld'
  BY <1>3, ReceiveKeepsLocks
<1>4. ASSUME NEW r \in Clients, Serve(r) \/ Cancelled(r) PROVE LocksHeld'
  BY <1>4, ServeKeepsLocks
<1> QED
  BY <1>1, <1>2, <1>3, <1>4
     DEF Next, Process, Load, InitializeApp, MigrateUp, Shutdown, Signal, vars

(* Connections are with requests in flight only, and no lock outlives the  *)
(* connection of its holder (providers.go:29-47, data_service.go:195-236). *)
THEOREM TypeCorrect == Spec => []TypeOK
<1>1. Init => LocksHeld
  BY DEF Init, LocksHeld
<1>2. Inv /\ Signed /\ LocksHeld => TypeOK
  <2> SUFFICES ASSUME Inv, Signed, LocksHeld PROVE TypeOK
    OBVIOUS
  <2>1. \A c \in Conns : user[c] # Nobody => Running(user[c])
    BY DEF Inv, Typed, PoolUse, Running
  <2>2. \A l \in Locks : holder[l] # Nobody => Uses(holder[l]) # {}
    BY DEF LocksHeld, Uses
  <2> QED
    BY <2>1, <2>2 DEF TypeOK, Signed
<1>3. Init => Signed
  BY DEF Init, Signed, Started, Running
<1> QED
  BY <1>1, <1>2, <1>3, InitInv, StepKeepsInv, SignedStep, LocksStep, PTL DEF Spec

-----------------------------------------------------------------------------
(* Nobody waits for all the others                                         *)

(* A request waits for a lock that there is, and has the lock of its       *)
(* present use of the pool; it holds that one while it nests, or is about  *)
(* to end its transaction.                                                 *)
LocksUsed ==
    /\ \A r \in Clients : stage[r] = "lock" => Current(r).lock \in Locks
    /\ \A l \in Locks : holder[l] # Nobody =>
          /\ Current(holder[l]).lock = l /\ ~Current(holder[l]).fails
          /\ stage[holder[l]] # "finish" => Current(holder[l]).nests

LEMMA CurrentIsSegment ==
    ASSUME Inv, NEW r \in Clients, Running(r)
    PROVE  Current(r) \in Segments
<1>1. plan[r] \in Seq(Segments) /\ plan[r] # <<>>
  BY DEF Inv, Typed, PoolUse
<1> QED
  BY <1>1 DEF Current

(* A step of one request that keeps to its present use of the pool.        *)
LEMMA StageKeepsUse ==
    ASSUME Inv, LocksHeld, LocksUsed, NEW r \in Clients, NEW st,
           stage' = [stage EXCEPT ![r] = st], plan' = plan,
           st = "lock" => Current(r).lock \in Locks,
           \A l \in Locks : holder'[l] # Nobody =>
              \/ holder'[l] = holder[l]
              \/ holder'[l] = r /\ Current(r).lock = l /\ ~Current(r).fails,
           \A l \in Locks : holder'[l] = r => st = "finish" \/ Current(r).nests
    PROVE  LocksUsed'
<1>1. stage'[r] = st /\ \A q \in Clients \ {r} : stage'[q] = stage[q]
  BY DEF Inv, Typed
<1>2. \A q : Current(q)' = Current(q)
  BY DEF Current
<1>3. ASSUME NEW l \in Locks, holder'[l] # Nobody
      PROVE  /\ Current(holder'[l]).lock = l /\ ~Current(holder'[l]).fails
             /\ stage'[holder'[l]] # "finish" => Current(holder'[l]).nests
  <2>1. CASE holder'[l] = r
    BY <1>1, <1>3, <2>1 DEF LocksUsed
  <2>2. CASE holder'[l] # r
    <3>1. holder'[l] = holder[l] /\ holder[l] \in Clients \ {r}
      BY <1>3, <2>2 DEF LocksHeld
    <3> QED
      BY <1>1, <1>3, <3>1 DEF LocksUsed
  <2> QED
    BY <2>1, <2>2
<1>4. \A q \in Clients : stage'[q] = "lock" => Current(q).lock \in Locks
  BY <1>1 DEF LocksUsed
<1> QED
  BY <1>2, <1>3, <1>4 DEF LocksUsed

(* A step after which the request has no lock: the next use of the pool    *)
(* begins, or the handler returns.                                         *)
LEMMA FreshKeepsUse ==
    ASSUME Inv, LocksHeld, LocksUsed, NEW r \in Clients, NEW st \in {"idle", "acquire"}, NEW p,
           stage' = [stage EXCEPT ![r] = st], plan' = [plan EXCEPT ![r] = p],
           \A l \in Locks : holder'[l] # Nobody => holder'[l] = holder[l] /\ holder[l] # r
    PROVE  LocksUsed'
<1>1. stage'[r] = st /\ \A q \in Clients \ {r} : stage'[q] = stage[q] /\ plan'[q] = plan[q]
  BY DEF Inv, Typed
<1>2. \A q \in Clients \ {r} : Current(q)' = Current(q)
  BY <1>1 DEF Current
<1>3. \A l \in Locks : holder'[l] # Nobody => holder[l] \in Clients \ {r}
  BY DEF LocksHeld
<1>4. \A q \in Clients : stage'[q] = "lock" => Current(q)'.lock \in Locks
  BY <1>1, <1>2 DEF LocksUsed
<1> QED
  BY <1>1, <1>2, <1>3, <1>4 DEF LocksUsed

LEMMA ServeKeepsUse ==
    ASSUME Inv, LocksHeld, LocksUsed, NEW r \in Clients, Serve(r) \/ Cancelled(r)
    PROVE  LocksUsed'
<1>e. CASE End(r)
  <2>1. \A l \in Locks : holder'[l] # Nobody => holder'[l] = holder[l] /\ holder[l] # r
    BY <1>e DEF End, WithoutLocks
  <2> QED
    BY <1>e, <2>1, FreshKeepsUse DEF End, Goto
<1>c. stage[r] \in {"acquire", "lock"} => \A l \in Locks : holder[l] # r
  BY ServerAssumption DEF LocksHeld
<1>1. CASE Acquire(r) /\ ~End(r)
  <2> DEFINE st == AfterAcquire(Current(r))
  <2>1. stage' = [stage EXCEPT ![r] = st] /\ plan' = plan /\ holder' = holder
    BY <1>1 DEF Acquire, Obtain, Goto
  <2>2. stage[r] = "acquire" /\ Current(r) \in Segments
    BY <1>1, CurrentIsSegment DEF Acquire, At, Running
  <2>3. st = "lock" => Current(r).lock \in Locks
    BY <2>2 DEF AfterAcquire, AfterLock, Segments
  <2> HIDE DEF st
  <2> QED
    BY <1>c, <2>1, <2>2, <2>3, StageKeepsUse
<1>2. CASE AcquireSecond(r) /\ ~End(r)
  <2>1. stage' = [stage EXCEPT ![r] = "unnest"] /\ plan' = plan /\ holder' = holder
    BY <1>2 DEF AcquireSecond, Obtain, Goto
  <2>2. Current(r).nests
    BY <1>2 DEF AcquireSecond, At, Inv, PoolUse
  <2> QED
    BY <2>1, <2>2, StageKeepsUse
<1>3. CASE ReleaseSecond(r)
  <2>1. stage' = [stage EXCEPT ![r] = "finish"] /\ plan' = plan /\ holder' = holder
    BY <1>3 DEF ReleaseSecond, Goto
  <2> QED
    BY <2>1, StageKeepsUse
<1>4. CASE Lock(r)
  <2> DEFINE seg == Current(r)
             st  == AfterLock(seg)
  <2>1. /\ stage[r] = "lock" /\ stage' = [stage EXCEPT ![r] = st] /\ plan' = plan
        /\ holder' = IF seg.fails THEN holder ELSE [holder EXCEPT ![seg.lock] = r]
    BY <1>4 DEF Lock, At, Goto
  <2>2. \A l \in Locks : holder'[l] # Nobody =>
           holder'[l] = holder[l] \/ (holder'[l] = r /\ seg.lock = l /\ ~seg.fails)
    BY <2>1 DEF LocksHeld
  <2>3. st = "finish" \/ seg.nests
    BY DEF AfterLock
  <2>4. st # "lock"
    BY DEF AfterLock
  <2> HIDE DEF st, seg
  <2> QED
    BY <2>1, <2>2, <2>3, <2>4, StageKeepsUse DEF seg
<1>5. CASE Finish(r) /\ ~End(r)
  <2>1. /\ stage' = [stage EXCEPT ![r] = "acquire"] /\ plan' = [plan EXCEPT ![r] = Tail(@)]
        /\ holder' = [l \in Locks |-> IF holder[l] = r THEN Nobody ELSE holder[l]]
    BY <1>5 DEF Finish, Goto, WithoutLocks
  <2>2. \A l \in Locks : holder'[l] # Nobody => holder'[l] = holder[l] /\ holder[l] # r
    BY <2>1
  <2> QED
    BY <2>1, <2>2, FreshKeepsUse
<1> QED
  BY <1>e, <1>1, <1>2, <1>3, <1>4, <1>5 DEF Serve, Refused, Cancelled

LEMMA UseStep == Inv /\ LocksHeld /\ LocksUsed /\ [Next]_vars => LocksUsed'
<1> SUFFICES ASSUME Inv, LocksHeld, LocksUsed, [Next]_vars PROVE LocksUsed'
  OBVIOUS
<1>1. CASE UNCHANGED requestVars
  BY <1>1 DEF LocksUsed, Current, requestVars
<1>2. CASE Exit \/ Killed
  BY <1>2 DEF Exit, Killed, Crash, LocksUsed
<1>3. ASSUME NEW r \in Clients, Receive(r) PROVE LocksUsed'
  <2>1. PICK p : /\ stage[r] = "idle" /\ stage' = [stage EXCEPT ![r] = "acquire"]
                 /\ plan' = [plan EXCEPT ![r] = p] /\ holder' = holder
    BY <1>3 DEF Receive, Running, Goto
  <2>2. \A l \in Locks : holder[l] # r
    BY <2>1, ServerAssumption DEF LocksHeld
  <2> QED
    BY <2>1, <2>2, FreshKeepsUse
<1>4. ASSUME NEW r \in Clients, Serve(r) \/ Cancelled(r) PROVE LocksUsed'
  BY <1>4, ServeKeepsUse
<1> QED
  BY <1>1, <1>2, <1>3, <1>4
     DEF Next, Process, Load, InitializeApp, MigrateUp, Shutdown, Signal, vars

(* Who keeps a lock that its waiters wait for without a limit of time is   *)
(* about to end its transaction.                                           *)
LEMMA TypeLocksAreShort ==
    ASSUME Inv, Signed, LocksHeld, LocksUsed, NEW r \in Clients, stage[r] = "lock", Waits(r)
    PROVE  \E h \in Clients : stage[h] = "finish"
<1> DEFINE l == Current(r).lock
           h == holder[l]
<1>1. l \in Locks /\ h # Nobody
  BY DEF LocksUsed, Waits
<1>2. h \in Clients /\ stage[h] \in {"nest", "unnest", "finish"}
  BY <1>1 DEF LocksHeld
<1>3. l \notin DataLocks
  BY <1>1 DEF Waits, LockTimeout, At, Signed, Running
<1>4. Current(h) \in Segments
  BY <1>2, CurrentIsSegment DEF Running
<1>5. Current(h).lock = l /\ ~Current(h).fails /\ (stage[h] # "finish" => Current(h).nests)
  BY <1>1 DEF LocksUsed
<1>6. l # Nobody
  BY <1>1, ServerAssumption DEF Locks
<1>7. ~Current(h).nests
  BY <1>3, <1>4, <1>5, <1>6 DEF Segments
<1> QED
  BY <1>2, <1>5, <1>7

LEMMA SomeoneGoesOn ==
    ASSUME Inv, Signed, LocksHeld, LocksUsed, PoolNeverStuck
    PROVE  NobodyWaitsForAll
<1> SUFFICES ASSUME NEW r \in Clients, Running(r), \A q \in Clients : Running(q) => Waits(q)
             PROVE  FALSE
  BY DEF NobodyWaitsForAll
<1>1. \A q \in Clients : stage[q] \in Stages \ {"unnest", "finish"}
  BY DEF Running, Waits, Inv, Typed, Stages
<1>2. \A q \in Clients : stage[q] # "lock"
  BY <1>1, TypeLocksAreShort DEF Running
<1>3. \A c \in Conns : user[c] # Nobody
  BY <1>1, <1>2 DEF Running, Waits, Stages
<1>4. PICK c \in Conns : stage[user[c]] # "nest"
  BY <1>3 DEF PoolNeverStuck
<1>5. user[c] \in Clients
  BY <1>3 DEF Inv, Typed
<1>6. stage[user[c]] \in {"idle", "acquire"}
  BY <1>1, <1>2, <1>4, <1>5 DEF Stages
<1> QED
  BY <1>5, <1>6 DEF Inv, PoolUse

(* Pool and locks together leave no set of requests in a circle, whatever  *)
(* the number of requests, connections and locks, as long as fewer of them *)
(* nest than there are connections (data_service.go:219, :353).            *)
THEOREM NobodyWaitsForAllOthers ==
    ASSUME MaxNested < Cardinality(Conns)
    PROVE  Spec => []NobodyWaitsForAll
<1>1. Init => Signed /\ LocksHeld /\ LocksUsed
  BY DEF Init, Signed, Started, Running, LocksHeld, LocksUsed
<1>2. Inv /\ Signed /\ LocksHeld /\ LocksUsed => NobodyWaitsForAll
  BY NestersAreFewer, SomeoneGoesOn
<1> QED
  BY <1>1, <1>2, InitInv, StepKeepsInv, SignedStep, LocksStep, UseStep, PTL DEF Spec

=============================================================================
