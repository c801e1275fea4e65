---------------------------- MODULE ProxyProofs ----------------------------
(***************************************************************************)
(* Proofs about module Proxy, for any number of handlers, origins and      *)
(* requests, whatever the capacity of the cache and the lifetimes.         *)
(*                                                                         *)
(* What is proved of the cache alone, in CacheProofs and CacheRefinesLRU,  *)
(* is used here of the cache that the handlers share.                      *)
(***************************************************************************)
EXTENDS Proxy, TLAPS

CP == INSTANCE CacheRefinesLRU WITH Responses <- Response, AllocFails <- FALSE

Answer == [kind : Kinds, resp : Response]

---------------------------------------------------------------------------
(* The inductive invariant *)

\* It is known since time c, or later, that version v of k was current then.
Good(k, v, c) == c <= clock /\ CurrentSince(k, v, c)

TypesOK ==
  /\ clock \in Clock
  /\ since \in [Keys -> Seq(Clock)]
  /\ \A k \in Keys : Current(k) \in Versions
  /\ stage \in [Threads -> Stages]
  /\ req \in [Threads -> Requests \cup {NULL}]
  /\ cond \in [Threads -> Versions \cup {0}]
  /\ in \in [Threads -> Answer \cup {NULL}]
  /\ reply \in [Threads -> Response \cup {NULL}]
  /\ floor \in [Threads -> Int]

\* A response with the resource at k, of a version that was current at its date.
Confirmed(k, r) == r.key = k /\ Good(k, r.ver, r.date)

AddPoints == C!InAdd \cup {"add_lock"}

\* What is in the cache, and what is about to be.
EntriesOK ==
  /\ \A k \in C!InMap : Confirmed(k, value[response_map[k]])
  /\ \A t \in Threads : pc[t] \in AddPoints => Confirmed(uri[t], arg[t])

GetPoints == C!InGet \cup {"get_lock", "get_return", "holding"}

\* Where a handler is in its code and in the cache's, and what it has by then.
StageOK(t) ==
  /\ stage[t] # "recv" => req[t] \in Requests
  /\ stage[t] = "recv" => pc[t] = "idle"
  /\ pc[t] \notin {"idle", "holding"} => stage[t] \in {"decide", "reply"}
  /\ stage[t] \in {"freshen", "stamp", "serve"} => Validating(t)
  /\ stage[t] = "reply" => pc[t] \notin GetPoints
  /\ in[t] # NULL => stage[t] \in {"await", "freshen", "stamp", "reply", "relay", "log"}
  /\ reply[t] # NULL => stage[t] \in {"relay", "log"}
  /\ stage[t] \in {"freshen", "stamp", "reply"} => in[t] # NULL
  /\ stage[t] = "freshen" => in[t].kind = "notmodified"

\* The response a handler found in the cache answers its request; what it asks
\* the origin, and what the origin said, is of the version that is still there.
FoundOK(t) ==
  pc[t] \in GetPoints /\ ref[t] # Dangling =>
    /\ key[ref[t]] = req[t].uri
    /\ Validating(t) =>
         /\ stage[t] = "await" /\ in[t] = NULL => cond[t] = value[ref[t]].ver
         /\ in[t] # NULL /\ in[t].kind = "notmodified" =>
              in[t].resp.ver = value[ref[t]].ver
         /\ stage[t] \in {"stamp", "serve"} =>
              Good(req[t].uri, value[ref[t]].ver, floor[t])

\* What it got from the origin, and what it sent to the client.
AnswersOK(t) ==
  /\ floor[t] <= clock
  /\ in[t] # NULL =>
       /\ Confirmed(req[t].uri, in[t].resp)
       /\ floor[t] <= in[t].resp.date
  /\ reply[t] # NULL =>
       reply[t].key = req[t].uri /\ Good(req[t].uri, reply[t].ver, floor[t])

HandlerOK(t) == StageOK(t) /\ FoundOK(t) /\ AnswersOK(t)

IInv ==
  C!IInv /\ TypesOK /\ EntriesOK /\ \A t \in Threads : HandlerOK(t)

---------------------------------------------------------------------------
(* The cache, seen through both instances of its module *)

LEMMA SameInvariant == C!IInv <=> CP!IInv
BY DEF C!IInv, C!TypeOK, C!MutexOK, C!MapOK, C!ListOK, C!SizeOK, C!RefOK, C!ArgOK,
       C!InMap, C!Listed, C!Cells, C!Points, C!Faults, C!InGet, C!InAdd, C!IsOrder,
       C!WellLinked, C!Evicting, C!IsFiniteSet, C!Cardinality,
       CP!IInv, CP!TypeOK, CP!MutexOK, CP!MapOK, CP!ListOK, CP!SizeOK, CP!RefOK,
       CP!ArgOK, CP!InMap, CP!Listed, CP!Cells, CP!Points, CP!Faults, CP!InGet,
       CP!InAdd, CP!IsOrder, CP!WellLinked, CP!Evicting, CP!IsFiniteSet,
       CP!Cardinality

LEMMA SameInit == C!Init <=> CP!Init
BY DEF C!Init, C!Cells, CP!Init, CP!Cells

LEMMA SameNext == C!Next <=> CP!Next
BY DEF C!Next, C!Undefined, C!Call, C!Caller, C!GetStep, C!AddStep, C!vars, C!contents,
       C!GetMiss, C!GetFind, C!GetRace, C!ChangesMap, C!Fail, C!GetLock, C!GetMove,
       C!GetMoveErased, C!GetUnlock, C!GetReturn, C!GetReturnDeleted, C!UseResponse,
       C!UseDeleted, C!Freshen, C!Release, C!AddCall, C!AddLock, C!AddInsert,
       C!AddEvict, C!AddUpdate, C!AddUnlock, C!AddThrow, C!Goto, C!NodeDeleted,
       C!ValueDeleted, C!Rehash, C!Moved, C!Newest, C!Drop, C!move_to_head, C!add_to_head,
       C!removeNode, C!Listed, C!InMap,
       CP!Next, CP!Undefined, CP!Call, CP!Caller, CP!GetStep, CP!AddStep, CP!vars,
       CP!contents, CP!GetMiss, CP!GetFind, CP!GetRace, CP!ChangesMap, CP!Fail,
       CP!GetLock, CP!GetMove, CP!GetMoveErased, CP!GetUnlock, CP!GetReturn,
       CP!GetReturnDeleted, CP!UseResponse, CP!UseDeleted, CP!Freshen, CP!Release,
       CP!AddCall, CP!AddLock, CP!AddInsert, CP!AddEvict, CP!AddUpdate,
       CP!AddUnlock, CP!AddThrow, CP!Goto, CP!NodeDeleted, CP!ValueDeleted,
       CP!Rehash, CP!Moved, CP!Newest, CP!Drop, CP!move_to_head, CP!add_to_head,
       CP!removeNode, CP!Listed, CP!InMap

LEMMA SameFail == ASSUME NEW kind PROVE C!Fail(kind) <=> CP!Fail(kind)
BY DEF C!Fail, C!contents, CP!Fail, CP!contents

\* What the proofs about the cache assume holds of the cache in the proxy.
LEMMA CacheAssumptions ==
  /\ Capacity \in Nat /\ FALSE \in BOOLEAN
  /\ head # tail /\ {head, tail} \cap Nodes = {}
  /\ NULL # Dangling /\ {NULL, Dangling} \cap (Nodes \cup {head, tail}) = {}
  /\ NULL \notin Response \cup Threads
BY CacheAssumption, NullAssumption

LEMMA CacheInit == C!Init => C!IInv
BY CP!InitIInv, CacheAssumptions, SameInit, SameInvariant

LEMMA SameRoom == C!NodesLostOnlyWhenFull <=> CP!NodesLostOnlyWhenFull
BY DEF C!NodesLostOnlyWhenFull, C!Roomy, C!IsFiniteSet, C!Cardinality,
       CP!NodesLostOnlyWhenFull, CP!Roomy, CP!IsFiniteSet, CP!Cardinality

\* A step of the cache, or a race on a response that it returned.
CacheStep == C!Next \/ UNCHANGED C!vars \/ C!Fail("race")

LEMMA CacheStepIInv ==
  ASSUME C!IInv, CacheStep
  PROVE  C!IInv'
<1>1. CP!IInv
  BY SameInvariant
<1>2. (C!IInv <=> CP!IInv)'
  BY SameInvariant, PTL
<1>3. CASE C!Next \/ UNCHANGED C!vars
  <2>1. [CP!Next]_(CP!vars)
    BY <1>3, SameNext DEF C!vars, CP!vars
  <2>2. CP!IInv /\ [CP!Next]_(CP!vars) => CP!IInv'
    BY CP!NextIInv, CacheAssumptions
  <2> QED
    BY <1>1, <1>2, <2>1, <2>2
<1>4. CASE C!Fail("race")
  <2>1. CP!Fail("race") /\ "race" \in CP!Faults
    BY <1>4, SameFail DEF CP!Faults
  <2> QED
    BY <1>1, <1>2, <2>1, CP!FailIInv, CacheAssumptions
<1> QED
  BY <1>3, <1>4 DEF CacheStep

---------------------------------------------------------------------------
(* What is known of a version *)

\* What is known stays known: resources change only from now on.
LEMMA GoodStays ==
  ASSUME TypesOK, UNCHANGED <<clock, since>> \/ Tick \/ \E k \in Keys : OriginUpdate(k)
  PROVE  \A k \in Keys, v \in Versions, c \in Int : Good(k, v, c) => Good(k, v, c)'
<1> SUFFICES ASSUME NEW k \in Keys, NEW v \in Versions, NEW c \in Int, Good(k, v, c)
             PROVE  Good(k, v, c)'
  OBVIOUS
<1>0. /\ clock \in Int /\ c <= clock /\ v \in Nat /\ since[k] \in Seq(Clock)
      /\ v < Len(since[k]) => since[k][v + 1] >= c
  BY BoundsAssumption DEF Good, CurrentSince, Current, TypesOK, Clock, Versions
<1>1. CASE UNCHANGED <<clock, since>>
  BY <1>0, <1>1 DEF Good, CurrentSince, Current
<1>2. CASE Tick
  <2>1. clock' = clock + 1 /\ since' = since
    BY <1>2 DEF Tick
  <2> QED
    BY <1>0, <2>1 DEF Good, CurrentSince, Current
<1>3. ASSUME NEW j \in Keys, OriginUpdate(j)
      PROVE  Good(k, v, c)'
  <2>1. clock' = clock /\ since' = [since EXCEPT ![j] = Append(@, clock)]
    BY <1>3 DEF OriginUpdate
  <2>2. CASE j # k
    <3>1. since'[k] = since[k]
      BY <2>1, <2>2 DEF TypesOK
    <3> QED
      BY <1>0, <2>1, <3>1 DEF Good, CurrentSince, Current
  <2>3. CASE j = k
    <3>1. since'[k] = Append(since[k], clock)
      BY <2>1, <2>3 DEF TypesOK
    <3>2. PICK s \in Seq(Clock) : s = since[k]
      BY <1>0
    <3>3. /\ Len(Append(s, clock)) = Len(s) + 1 /\ Len(s) \in Nat
          /\ \A n \in 1 .. Len(s) : Append(s, clock)[n] = s[n]
          /\ Append(s, clock)[Len(s) + 1] = clock
      BY DEF TypesOK
    <3>4. ASSUME v < Len(s) + 1
          PROVE  Append(s, clock)[v + 1] >= c
      <4>1. CASE v < Len(s)
        <5>1. v + 1 \in 1 .. Len(s)
          BY <1>0, <3>3, <4>1
        <5> QED
          BY <1>0, <3>2, <3>3, <4>1, <5>1
      <4>2. CASE v = Len(s)
        BY <1>0, <3>3, <4>2
      <4> QED
        BY <1>0, <3>3, <3>4, <4>1, <4>2
    <3> QED
      BY <1>0, <2>1, <3>1, <3>2, <3>3, <3>4 DEF Good, CurrentSince, Current
  <2> QED
    BY <2>2, <2>3
<1> QED
  BY <1>1, <1>2, <1>3

\* What is known of a later time is known of an earlier one.
LEMMA GoodBefore ==
  ASSUME TypesOK, NEW k \in Keys, NEW v \in Versions, NEW c \in Int, NEW d \in Int,
         Good(k, v, c), d <= c
  PROVE  Good(k, v, d)
<1>1. clock \in Int /\ v \in Nat /\ since[k] \in Seq(Clock)
  BY BoundsAssumption DEF TypesOK, Clock, Versions
<1>2. v < Len(since[k]) => since[k][v + 1] \in Int
  <2>1. v < Len(since[k]) => v + 1 \in 1 .. Len(since[k])
    BY <1>1
  <2> QED
    BY <1>1, <2>1, BoundsAssumption DEF Clock
<1> QED
  BY <1>1, <1>2 DEF Good, CurrentSince, Current

---------------------------------------------------------------------------
(* What a step of the cache leaves alone *)

\* A pointer found earlier is lost, or still points to what it did; a handler
\* that reads the response finds the version it found before.
RefKept(t) ==
  pc'[t] \in GetPoints /\ ref'[t] # Dangling =>
    /\ pc[t] \in GetPoints /\ ref'[t] = ref[t]
    /\ key'[ref[t]] = key[ref[t]]
    /\ pc[t] = "holding" => value'[ref[t]].ver = value[ref[t]].ver

ArgKept(t) ==
  pc'[t] \in AddPoints =>
    pc[t] \in AddPoints /\ uri'[t] = uri[t] /\ arg'[t] = arg[t]

\* The entry of k was there before, or has been added just now.
EntryKept(k) ==
  response_map'[k] # NULL =>
    \/ /\ response_map[k] # NULL
       /\ value'[response_map'[k]] = value[response_map[k]]
    \/ \E t \in Threads :
         pc[t] \in AddPoints /\ uri[t] = k /\ value'[response_map'[k]] = arg[t]

\* A step of the cache that thread u takes; it adds nothing else than what
\* some thread is adding, and changes no version in place.
CacheKept(u) ==
  /\ \A t \in Threads : ArgKept(t)
  /\ \A t \in Threads \ {u} : RefKept(t) /\ pc'[t] = pc[t]
  /\ \A k \in Keys : EntryKept(k)

LEMMA StutterKept ==
  ASSUME NEW u \in Threads, UNCHANGED <<response_map, key, value, pc, uri, arg, ref>>
  PROVE  CacheKept(u) /\ RefKept(u)
BY DEF CacheKept, RefKept, ArgKept, EntryKept

LEMMA Entries ==
  ASSUME C!IInv
  PROVE  /\ \A k \in C!InMap : /\ response_map[k] \in Nodes /\ response_map[k] \in live
                               /\ key[response_map[k]] = k
                               /\ value[response_map[k]] \in Response
         /\ \A t \in Threads : pc[t] \in GetPoints =>
              \/ ref[t] = Dangling
              \/ ref[t] \in live /\ \E k \in C!InMap : ref[t] = response_map[k]
         /\ \A t \in Threads : pc[t] \in AddPoints => uri[t] \in Keys /\ arg[t] \in Response
<1>1. C!TypeOK /\ C!MapOK /\ C!RefOK /\ C!ArgOK
  BY DEF C!IInv
<1>2. \A k \in C!InMap : /\ response_map[k] \in Nodes /\ response_map[k] \in live
                         /\ key[response_map[k]] = k
                         /\ value[response_map[k]] \in Response
  BY <1>1 DEF C!TypeOK, C!MapOK, C!InMap
<1>3. \A t \in Threads : pc[t] \in GetPoints => ref[t] \in C!Listed \cup {Dangling}
  BY <1>1 DEF C!RefOK, GetPoints
<1>4. \A t \in Threads : pc[t] \in AddPoints => uri[t] \in Keys /\ arg[t] \in Response
  BY <1>1 DEF C!ArgOK, AddPoints
<1> QED
  BY <1>2, <1>3, <1>4 DEF C!Listed

LEMMA GetStepKept ==
  ASSUME C!IInv, NEW u \in Threads, C!GetStep(u)
  PROVE  CacheKept(u) /\ RefKept(u)
<1>1. pc \in [Threads -> C!Points]
  BY DEF C!IInv, C!TypeOK
<1>2. /\ UNCHANGED <<response_map, key, value, uri, arg, ref>>
      /\ \/ UNCHANGED pc
         \/ /\ pc[u] \in GetPoints \ {"holding"}
            /\ \E p \in GetPoints : pc' = [pc EXCEPT ![u] = p]
  BY DEF C!GetStep, C!GetLock, C!GetMove, C!GetMoveErased, C!GetUnlock, C!GetReturn,
         C!GetReturnDeleted, C!Fail, C!Goto, C!contents, GetPoints, C!InGet
<1>3. \A t \in Threads \ {u} : pc'[t] = pc[t]
  BY <1>1, <1>2
<1>4. /\ pc'[u] \in GetPoints => pc[u] \in GetPoints
      /\ pc'[u] \in AddPoints => pc[u] \in AddPoints
  BY <1>1, <1>2 DEF GetPoints, AddPoints, C!InGet, C!InAdd
<1> QED
  BY <1>2, <1>3, <1>4 DEF CacheKept, RefKept, ArgKept, EntryKept

LEMMA AddStepKept ==
  ASSUME C!IInv, NEW u \in Threads, C!AddStep(u)
  PROVE  CacheKept(u) /\ pc[u] \in AddPoints /\ pc'[u] \notin GetPoints
<1>0. C!TypeOK
  BY DEF C!IInv
<1>1. CASE C!AddLock(u) \/ C!AddUnlock(u)
  <2>1. /\ UNCHANGED <<response_map, key, value, ref>> /\ pc[u] \in AddPoints
        /\ \/ pc' = [pc EXCEPT ![u] = "add_body"] /\ UNCHANGED <<uri, arg>>
           \/ /\ pc' = [pc EXCEPT ![u] = "idle"]
              /\ uri' = [uri EXCEPT ![u] = NULL] /\ arg' = [arg EXCEPT ![u] = NULL]
    BY <1>1 DEF C!AddLock, C!AddUnlock, C!Goto, C!contents, AddPoints, C!InAdd
  <2>2. \A t \in Threads \ {u} : pc'[t] = pc[t] /\ uri'[t] = uri[t] /\ arg'[t] = arg[t]
    BY <1>0, <2>1 DEF C!TypeOK
  <2>3. pc'[u] \notin GetPoints /\ ArgKept(u)
    BY <1>0, <2>1 DEF C!TypeOK, GetPoints, AddPoints, C!InGet, C!InAdd, ArgKept
  <2> QED
    BY <2>1, <2>2, <2>3 DEF CacheKept, RefKept, ArgKept, EntryKept
<1>2. CASE C!AddInsert(u)
  <2>1. /\ pc[u] = "add_body" /\ UNCHANGED <<uri, arg>>
        /\ \E p \in {"add_evict", "add_unlock"} : pc' = [pc EXCEPT ![u] = p]
        /\ \A t \in Threads : ref'[t] \in {ref[t], Dangling}
    BY <1>2 DEF C!AddInsert, C!Goto, C!Rehash
  <2>2. PICK n \in Nodes \ live : /\ key' = [key EXCEPT ![n] = uri[u]]
                                  /\ value' = [value EXCEPT ![n] = arg[u]]
                                  /\ response_map' = [response_map EXCEPT ![uri[u]] = n]
    BY <1>2 DEF C!AddInsert
  <2>3. /\ \A t \in Threads \ {u} : pc'[t] = pc[t]
        /\ pc'[u] \in AddPoints /\ pc'[u] \notin GetPoints /\ pc[u] \in AddPoints
    BY <1>0, <2>1 DEF C!TypeOK, GetPoints, AddPoints, C!InGet, C!InAdd
  <2>4. \A t \in Threads \ {u} : RefKept(t)
    <3> SUFFICES ASSUME NEW t \in Threads \ {u}, pc[t] \in GetPoints,
                        ref'[t] = ref[t], ref[t] # Dangling
                 PROVE  key'[ref[t]] = key[ref[t]] /\ value'[ref[t]] = value[ref[t]]
      BY <2>1, <2>3 DEF RefKept
    <3>1. ref[t] \in live /\ live \subseteq Nodes
      BY <1>0, Entries DEF C!TypeOK
    <3> QED
      BY <1>0, <2>2, <3>1 DEF C!TypeOK
  <2>5. \A k \in Keys : EntryKept(k)
    <3> SUFFICES ASSUME NEW k \in Keys, response_map'[k] # NULL
                 PROVE  EntryKept(k)
      BY DEF EntryKept
    <3>1. CASE k = uri[u]
      <4>1. response_map'[k] = n /\ value'[n] = arg[u]
        BY <1>0, <2>2, <3>1 DEF C!TypeOK
      <4> QED
        BY <2>3, <3>1, <4>1 DEF EntryKept
    <3>2. CASE k # uri[u]
      <4>1. response_map'[k] = response_map[k] /\ k \in C!InMap
        BY <1>0, <2>2, <3>2 DEF C!TypeOK, C!InMap
      <4>2. response_map[k] \in live /\ response_map[k] \in Nodes
        BY <4>1, Entries
      <4>3. value'[response_map[k]] = value[response_map[k]]
        BY <1>0, <2>2, <4>2 DEF C!TypeOK
      <4> QED
        BY <4>1, <4>3 DEF EntryKept, C!InMap
    <3> QED
      BY <3>1, <3>2
  <2> QED
    BY <2>1, <2>3, <2>4, <2>5 DEF CacheKept, ArgKept
<1>3. CASE C!AddEvict(u)
  <2> DEFINE n == list.prev[tail]
  <2>1. /\ pc[u] = "add_evict" /\ UNCHANGED <<uri, arg>>
        /\ pc' = [pc EXCEPT ![u] = "add_unlock"]
        /\ key' = [key EXCEPT ![n] = NULL] /\ value' = [value EXCEPT ![n] = NULL]
        /\ response_map' = [response_map EXCEPT ![key[n]] = NULL]
        /\ ref' = [t \in Threads |-> IF ref[t] = n THEN Dangling ELSE ref[t]]
    BY <1>3 DEF C!AddEvict, C!Goto, C!NodeDeleted
  <2> HIDE DEF n
  <2>2. /\ \A t \in Threads \ {u} : pc'[t] = pc[t]
        /\ pc'[u] \in AddPoints /\ pc'[u] \notin GetPoints /\ pc[u] \in AddPoints
    BY <1>0, <2>1 DEF C!TypeOK, GetPoints, AddPoints, C!InGet, C!InAdd
  <2>3. \A t \in Threads \ {u} : RefKept(t)
    <3> SUFFICES ASSUME NEW t \in Threads \ {u}, pc[t] \in GetPoints, ref'[t] # Dangling
                 PROVE  /\ ref'[t] = ref[t] /\ key'[ref[t]] = key[ref[t]]
                        /\ value'[ref[t]] = value[ref[t]]
      BY <2>2 DEF RefKept
    <3>1. ref'[t] = ref[t] /\ ref[t] # n
      BY <2>1
    <3>2. ref[t] \in Nodes
      BY <1>0, <3>1, Entries DEF C!TypeOK
    <3> QED
      BY <1>0, <2>1, <3>1, <3>2 DEF C!TypeOK
  <2>4. \A k \in Keys : EntryKept(k)
    <3> SUFFICES ASSUME NEW k \in Keys, response_map'[k] # NULL
                 PROVE  EntryKept(k)
      BY DEF EntryKept
    <3>1. response_map'[k] = response_map[k] /\ k # key[n] /\ k \in C!InMap
      BY <1>0, <2>1 DEF C!TypeOK, C!InMap
    <3>2. response_map[k] \in Nodes /\ response_map[k] # n
      BY <3>1, Entries
    <3>3. value'[response_map[k]] = value[response_map[k]]
      BY <1>0, <2>1, <3>2 DEF C!TypeOK
    <3> QED
      BY <3>1, <3>3 DEF EntryKept, C!InMap
  <2> QED
    BY <2>1, <2>2, <2>3, <2>4 DEF CacheKept, ArgKept
<1>4. CASE C!AddUpdate(u)
  <2> DEFINE n == response_map[uri[u]]
  <2>1. /\ pc[u] = "add_body" /\ UNCHANGED <<uri, arg, key, response_map>>
        /\ pc' = [pc EXCEPT ![u] = "add_unlock"] /\ n # NULL
        /\ value' = [value EXCEPT ![n] = arg[u]]
        /\ ref' = [t \in Threads |-> IF ref[t] = n /\ pc[t] = "holding"
                                     THEN Dangling ELSE ref[t]]
    BY <1>4 DEF C!AddUpdate, C!Goto, C!ValueDeleted
  <2>2. /\ \A t \in Threads \ {u} : pc'[t] = pc[t]
        /\ pc'[u] \in AddPoints /\ pc'[u] \notin GetPoints /\ pc[u] \in AddPoints
    BY <1>0, <2>1 DEF C!TypeOK, GetPoints, AddPoints, C!InGet, C!InAdd
  <2>3. uri[u] \in Keys /\ n \in Nodes /\ key[n] = uri[u]
    BY <2>1, <2>2, Entries DEF C!InMap
  <2> HIDE DEF n
  <2>4. \A t \in Threads \ {u} : RefKept(t)
    <3> SUFFICES ASSUME NEW t \in Threads \ {u}, pc[t] \in GetPoints, ref'[t] # Dangling
                 PROVE  /\ ref'[t] = ref[t]
                        /\ pc[t] = "holding" => value'[ref[t]] = value[ref[t]]
      BY <2>1, <2>2 DEF RefKept
    <3>1. ref'[t] = ref[t] /\ (pc[t] = "holding" => ref[t] # n)
      BY <2>1
    <3>2. ref[t] \in Nodes
      BY <1>0, <3>1, Entries DEF C!TypeOK
    <3> QED
      BY <1>0, <2>1, <3>1, <3>2 DEF C!TypeOK
  <2>5. \A k \in Keys : EntryKept(k)
    <3> SUFFICES ASSUME NEW k \in Keys, response_map[k] # NULL
                 PROVE  \/ value'[response_map[k]] = value[response_map[k]]
                        \/ uri[u] = k /\ value'[response_map[k]] = arg[u]
      BY <2>1, <2>2 DEF EntryKept
    <3>1. response_map[k] \in Nodes /\ key[response_map[k]] = k
      BY Entries DEF C!InMap
    <3> QED
      BY <1>0, <2>1, <2>3, <3>1 DEF C!TypeOK
  <2> QED
    BY <2>1, <2>2, <2>4, <2>5 DEF CacheKept, ArgKept
<1> QED
  BY <1>1, <1>2, <1>3, <1>4 DEF C!AddStep, C!AddThrow

LEMMA ReleaseKept ==
  ASSUME C!IInv, NEW u \in Threads, C!Release(u)
  PROVE  CacheKept(u) /\ pc'[u] = "idle"
<1>1. pc \in [Threads -> C!Points] /\ ref \in [Threads -> Nodes \cup {NULL, Dangling}]
  BY DEF C!IInv, C!TypeOK
<1>2. /\ UNCHANGED <<response_map, key, value, uri, arg>>
      /\ pc' = [pc EXCEPT ![u] = "idle"] /\ ref' = [ref EXCEPT ![u] = NULL]
  BY DEF C!Release, C!Goto, C!contents
<1>3. pc'[u] = "idle" /\ \A t \in Threads \ {u} : pc'[t] = pc[t] /\ ref'[t] = ref[t]
  BY <1>1, <1>2
<1> QED
  BY <1>2, <1>3 DEF CacheKept, RefKept, ArgKept, EntryKept, AddPoints, C!InAdd

LEMMA FindKept ==
  ASSUME C!IInv, NEW u \in Threads, NEW k \in Keys, C!GetFind(u, k)
  PROVE  /\ CacheKept(u) /\ pc'[u] = "get_lock"
         /\ ref'[u] = response_map[k] /\ key'[ref'[u]] = k
<1>1. pc \in [Threads -> C!Points] /\ ref \in [Threads -> Nodes \cup {NULL, Dangling}]
  BY DEF C!IInv, C!TypeOK
<1>2. /\ UNCHANGED <<response_map, key, value, uri, arg>> /\ response_map[k] # NULL
      /\ pc' = [pc EXCEPT ![u] = "get_lock"] /\ ref' = [ref EXCEPT ![u] = response_map[k]]
  BY DEF C!GetFind, C!Goto, C!contents
<1>3. /\ pc'[u] = "get_lock" /\ ref'[u] = response_map[k]
      /\ \A t \in Threads \ {u} : pc'[t] = pc[t] /\ ref'[t] = ref[t]
  BY <1>1, <1>2
<1>4. key[response_map[k]] = k
  BY <1>2, Entries DEF C!InMap
<1> QED
  BY <1>2, <1>3, <1>4 DEF CacheKept, RefKept, ArgKept, EntryKept, AddPoints, C!InAdd

LEMMA FreshenKept ==
  ASSUME C!IInv, NEW u \in Threads, NEW r \in Response, C!Freshen(u, r),
         r.ver = value[ref[u]].ver
  PROVE  /\ UNCHANGED <<pc, ref>>
         /\ \A t \in Threads : ArgKept(t) /\ RefKept(t)
         /\ \A k \in Keys : \/ EntryKept(k)
                            \/ k = key[ref[u]] /\ value'[response_map'[k]] = r
         /\ value'[ref[u]] = r
<1>0. C!TypeOK
  BY DEF C!IInv
<1>1. /\ UNCHANGED <<response_map, key, pc, uri, arg, ref>>
      /\ value' = [value EXCEPT ![ref[u]] = r]
      /\ pc[u] = "holding" /\ ref[u] # Dangling
  BY DEF C!Freshen
<1>2. ref[u] \in Nodes
  BY <1>0, <1>1, Entries DEF C!TypeOK, GetPoints
<1>3. value'[ref[u]] = r /\ \A n \in Nodes \ {ref[u]} : value'[n] = value[n]
  BY <1>0, <1>1, <1>2 DEF C!TypeOK
<1>4. \A t \in Threads : RefKept(t)
  <2> SUFFICES ASSUME NEW t \in Threads, pc[t] \in GetPoints, ref[t] # Dangling
               PROVE  value'[ref[t]].ver = value[ref[t]].ver
    BY <1>1 DEF RefKept
  <2>1. ref[t] \in Nodes
    BY <1>0, Entries DEF C!TypeOK
  <2> QED
    BY <1>3, <2>1
<1>5. ASSUME NEW k \in Keys
      PROVE  EntryKept(k) \/ (k = key[ref[u]] /\ value'[response_map'[k]] = r)
  <2>1. CASE response_map[k] = NULL
    BY <1>1, <2>1 DEF EntryKept
  <2>2. CASE response_map[k] # NULL
    <3>1. response_map[k] \in Nodes /\ key[response_map[k]] = k
      BY <2>2, Entries DEF C!InMap
    <3> QED
      BY <1>1, <1>3, <2>2, <3>1 DEF EntryKept
  <2> QED
    BY <2>1, <2>2
<1> QED
  BY <1>1, <1>3, <1>4, <1>5 DEF ArgKept

LEMMA AddCallKept ==
  ASSUME C!IInv, NEW u \in Threads, NEW k \in Keys, NEW r \in Response, C!AddCall(u, k, r)
  PROVE  /\ pc'[u] = "add_lock" /\ uri'[u] = k /\ arg'[u] = r
         /\ \A t \in Threads \ {u} : ArgKept(t) /\ RefKept(t) /\ pc'[t] = pc[t]
         /\ \A j \in Keys : EntryKept(j)
<1>0. C!TypeOK
  BY DEF C!IInv
<1>1. /\ UNCHANGED <<response_map, key, value>>
      /\ pc' = [pc EXCEPT ![u] = "add_lock"] /\ ref' = [ref EXCEPT ![u] = NULL]
      /\ uri' = [uri EXCEPT ![u] = k] /\ arg' = [arg EXCEPT ![u] = r]
  BY DEF C!AddCall, C!contents
<1>2. /\ pc'[u] = "add_lock" /\ uri'[u] = k /\ arg'[u] = r
      /\ \A t \in Threads \ {u} : /\ pc'[t] = pc[t] /\ ref'[t] = ref[t]
                                  /\ uri'[t] = uri[t] /\ arg'[t] = arg[t]
  BY <1>0, <1>1 DEF C!TypeOK
<1> QED
  BY <1>1, <1>2 DEF RefKept, ArgKept, EntryKept

---------------------------------------------------------------------------
(* What a step of one handler leaves alone *)

\* Time, and the resources, change as they do in every step of the system.
Outside == UNCHANGED <<clock, since>> \/ Tick \/ \E k \in Keys : OriginUpdate(k)

LEMMA EntriesNext ==
  ASSUME IInv, C!IInv', Outside,
         \A k \in Keys : EntryKept(k) \/ Confirmed(k, value[response_map[k]])',
         \A t \in Threads : ArgKept(t) \/ Confirmed(uri[t], arg[t])'
  PROVE  EntriesOK'
<1>0. TypesOK /\ EntriesOK /\ C!IInv
  BY DEF IInv
<1>1. ASSUME NEW k \in Keys, NEW r \in Response, Confirmed(k, r)
      PROVE  Confirmed(k, r)'
  <2>1. r.ver \in Versions /\ r.date \in Int
    BY BoundsAssumption DEF Response, Clock
  <2> QED
    BY <1>0, <1>1, <2>1, GoodStays DEF Confirmed, Outside
<1>2. ASSUME NEW t \in Threads, pc'[t] \in AddPoints
      PROVE  Confirmed(uri[t], arg[t])'
  <2>1. CASE ArgKept(t)
    <3>1. pc[t] \in AddPoints /\ uri'[t] = uri[t] /\ arg'[t] = arg[t]
      BY <1>2, <2>1 DEF ArgKept
    <3>2. PICK k \in Keys, r \in Response : k = uri[t] /\ r = arg[t]
      BY <1>0, <3>1, Entries
    <3>3. Confirmed(k, r)
      BY <1>0, <3>1, <3>2 DEF EntriesOK
    <3>4. Confirmed(k, r)'
      BY <1>1, <3>3
    <3> QED
      BY <3>1, <3>2, <3>4 DEF Confirmed, Good, CurrentSince, Current
  <2> QED
    BY <2>1
<1>3. ASSUME NEW k \in Keys, response_map'[k] # NULL
      PROVE  Confirmed(k, value[response_map[k]])'
  <2>1. CASE EntryKept(k)
    <3>1. CASE response_map[k] # NULL /\ value'[response_map'[k]] = value[response_map[k]]
      <4>1. PICK r \in Response : r = value[response_map[k]]
        BY <1>0, <3>1, Entries DEF C!InMap
      <4>2. Confirmed(k, r)
        BY <1>0, <3>1, <4>1 DEF EntriesOK, C!InMap
      <4>3. Confirmed(k, r)'
        BY <1>1, <4>2
      <4> QED
        BY <3>1, <4>1, <4>3 DEF Confirmed, Good, CurrentSince, Current
    <3>2. ASSUME NEW t \in Threads, pc[t] \in AddPoints, uri[t] = k,
                 value'[response_map'[k]] = arg[t]
          PROVE  Confirmed(k, value[response_map[k]])'
      <4>1. PICK r \in Response : r = arg[t]
        BY <1>0, <3>2, Entries
      <4>2. Confirmed(k, r)
        BY <1>0, <3>2, <4>1 DEF EntriesOK
      <4>3. Confirmed(k, r)'
        BY <1>1, <4>2
      <4> QED
        BY <3>2, <4>1, <4>3 DEF Confirmed, Good, CurrentSince, Current
    <3> QED
      BY <1>3, <2>1, <3>1, <3>2 DEF EntryKept
  <2> QED
    BY <2>1
<1> QED
  BY <1>2, <1>3 DEF EntriesOK, C!InMap

\* The handler of thread t has not moved.
Still(t) ==
  UNCHANGED <<pc[t], stage[t], req[t], cond[t], in[t], reply[t], floor[t]>>

\* A handler that has not moved is not disturbed by the steps of the others.
LEMMA StillOK ==
  ASSUME IInv, Outside, NEW t \in Threads, Still(t), RefKept(t)
  PROVE  HandlerOK(t)'
<1>0. TypesOK /\ C!IInv /\ HandlerOK(t)
  BY DEF IInv
<1>1. StageOK(t)'
  BY <1>0 DEF HandlerOK, StageOK, Still, Validating
<1>2. clock \in Int /\ clock' \in Int /\ clock <= clock'
  BY <1>0, BoundsAssumption DEF TypesOK, Clock, Outside, Tick, OriginUpdate
<1>3. \A k \in Keys, v \in Versions, c \in Int : Good(k, v, c) => Good(k, v, c)'
  BY <1>0, GoodStays DEF Outside
<1>4. stage[t] # "recv" => req[t].uri \in Keys
  BY <1>0, RequestsAssumption DEF HandlerOK, StageOK
<1>5. AnswersOK(t)'
  <2>1. floor[t] \in Int /\ floor[t] <= clock'
    BY <1>0, <1>2 DEF TypesOK, HandlerOK, AnswersOK
  <2>2. ASSUME in[t] # NULL
        PROVE  Confirmed(req[t].uri, in[t].resp)'
    <3>1. PICK k \in Keys, r \in Response : k = req[t].uri /\ r = in[t].resp
      BY <1>0, <1>4, <2>2 DEF TypesOK, Answer, HandlerOK, StageOK
    <3>2. r.ver \in Versions /\ r.date \in Int
      BY BoundsAssumption DEF Response, Clock
    <3>3. Confirmed(k, r)
      BY <1>0, <2>2, <3>1 DEF HandlerOK, AnswersOK
    <3>4. Good(k, r.ver, r.date)'
      BY <1>3, <3>2, <3>3 DEF Confirmed
    <3> QED
      BY <3>1, <3>3, <3>4 DEF Still, Confirmed, Good, CurrentSince, Current
  <2>3. ASSUME reply[t] # NULL
        PROVE  (reply[t].key = req[t].uri /\ Good(req[t].uri, reply[t].ver, floor[t]))'
    <3>1. PICK k \in Keys, r \in Response : k = req[t].uri /\ r = reply[t]
      BY <1>0, <1>4, <2>3 DEF TypesOK, HandlerOK, StageOK
    <3>2. r.ver \in Versions
      BY DEF Response
    <3>3. PICK c \in Int : c = floor[t]
      BY <2>1
    <3>4. r.key = k /\ Good(k, r.ver, c)
      BY <1>0, <2>3, <3>1, <3>3 DEF HandlerOK, AnswersOK
    <3>5. Good(k, r.ver, c)'
      BY <1>3, <3>2, <3>4
    <3> QED
      BY <3>1, <3>3, <3>4, <3>5 DEF Still, Good, CurrentSince, Current
  <2> QED
    BY <1>0, <2>1, <2>2, <2>3 DEF HandlerOK, AnswersOK, Still
<1>6. FoundOK(t)'
  <2> SUFFICES ASSUME pc'[t] \in GetPoints, ref'[t] # Dangling
               PROVE  (/\ key[ref[t]] = req[t].uri
                       /\ Validating(t) =>
                            /\ stage[t] = "await" /\ in[t] = NULL =>
                                 cond[t] = value[ref[t]].ver
                            /\ in[t] # NULL /\ in[t].kind = "notmodified" =>
                                 in[t].resp.ver = value[ref[t]].ver
                            /\ stage[t] \in {"stamp", "serve"} =>
                                 Good(req[t].uri, value[ref[t]].ver, floor[t]))'
    BY DEF FoundOK
  <2>1. /\ pc[t] \in GetPoints /\ ref[t] # Dangling /\ ref'[t] = ref[t]
        /\ key'[ref[t]] = key[ref[t]]
        /\ Validating(t) => value'[ref[t]].ver = value[ref[t]].ver
    BY DEF RefKept, Validating
  <2>2. /\ key[ref[t]] = req[t].uri
        /\ Validating(t) =>
             /\ stage[t] = "await" /\ in[t] = NULL => cond[t] = value[ref[t]].ver
             /\ in[t] # NULL /\ in[t].kind = "notmodified" =>
                  in[t].resp.ver = value[ref[t]].ver
             /\ stage[t] \in {"stamp", "serve"} =>
                  Good(req[t].uri, value[ref[t]].ver, floor[t])
    BY <1>0, <2>1 DEF HandlerOK, FoundOK
  <2>3. ASSUME Validating(t), stage[t] \in {"stamp", "serve"}
        PROVE  Good(req[t].uri, value[ref[t]].ver, floor[t])'
    <3>1. value[ref[t]] \in Response
      BY <1>0, <2>1, Entries
    <3>2. PICK k \in Keys, v \in Versions, c \in Int :
            k = req[t].uri /\ v = value[ref[t]].ver /\ c = floor[t]
      BY <1>0, <1>4, <2>3, <3>1 DEF Response, TypesOK
    <3>3. Good(k, v, c)'
      BY <1>3, <2>2, <2>3, <3>2
    <3> QED
      BY <2>1, <2>3, <3>2, <3>3 DEF Still, Good, CurrentSince, Current
  <2> QED
    BY <2>1, <2>2, <2>3 DEF Still, Validating
<1> QED
  BY <1>1, <1>5, <1>6 DEF HandlerOK

\* All handlers but u's stay where they are.
OthersStill(u) == \A t \in Threads \ {u} : Still(t) /\ RefKept(t)

LEMMA StepIInv ==
  ASSUME IInv, C!IInv', NEW u \in Threads, UNCHANGED <<clock, since>>, OthersStill(u),
         TypesOK', EntriesOK', HandlerOK(u)'
  PROVE  IInv'
<1>1. ASSUME NEW t \in Threads PROVE HandlerOK(t)'
  BY StillOK DEF OthersStill, Outside
<1> QED
  BY <1>1 DEF IInv

\* A step of a handler outside the cache.
LEMMA HandlerStep ==
  ASSUME IInv, NEW u \in Threads, UNCHANGED <<cacheVars, clock, since>>,
         \A t \in Threads \ {u} : Still(t), TypesOK', HandlerOK(u)'
  PROVE  IInv'
<1>1. C!IInv'
  BY CacheStepIInv DEF CacheStep, C!vars, cacheVars, IInv
<1>2. CacheKept(u)
  BY StutterKept DEF cacheVars
<1>3. EntriesOK'
  BY <1>1, <1>2, EntriesNext DEF CacheKept, Outside
<1> QED
  BY <1>1, <1>2, <1>3, StepIInv DEF CacheKept, OthersStill

\* A step of a handler that has only to do with where it is in its code.
LEMMA MoveOK ==
  ASSUME IInv, NEW u \in Threads, NEW s \in Stages,
         UNCHANGED <<cacheVars, clock, since, req, cond, in, reply, floor>>,
         stage' = [stage EXCEPT ![u] = s],
         stage[u] # "recv", pc[u] \in {"idle", "holding"},
         s \in {"connect", "tunnel", "reply", "freshen"},
         s = "freshen" => Validating(u),
         s = "reply" => ~Validating(u),
         IF s \in {"freshen", "reply"} THEN in[u] # NULL ELSE in[u] = NULL,
         s = "freshen" => in[u].kind = "notmodified",
         reply[u] = NULL
  PROVE  IInv'
<1>0. TypesOK /\ HandlerOK(u)
  BY DEF IInv
<1>1. stage'[u] = s /\ \A t \in Threads \ {u} : Still(t)
  BY <1>0 DEF TypesOK, Still, cacheVars
<1>2. TypesOK'
  BY <1>0 DEF TypesOK, Current
<1>3. StageOK(u)'
  BY <1>0, <1>1 DEF HandlerOK, StageOK, Validating, GetPoints, C!InGet, cacheVars
<1>4. FoundOK(u)'
  BY <1>0, <1>1 DEF HandlerOK, FoundOK, Validating, cacheVars
<1>5. AnswersOK(u)'
  BY <1>0 DEF HandlerOK, AnswersOK, Confirmed, Good, CurrentSince, Current
<1> QED
  BY <1>1, <1>2, <1>3, <1>4, <1>5, HandlerStep DEF HandlerOK

---------------------------------------------------------------------------
(* What a handler has *)

\* What a handler knows of the response it found.
LEMMA Found ==
  ASSUME IInv, NEW u \in Threads, pc[u] \in GetPoints, ref[u] # Dangling
  PROVE  /\ req[u].uri \in Keys /\ value[ref[u]] \in Response
         /\ key[ref[u]] = req[u].uri /\ Confirmed(req[u].uri, value[ref[u]])
         /\ response_map[req[u].uri] = ref[u] /\ response_map[req[u].uri] # NULL
<1>0. C!IInv /\ HandlerOK(u) /\ EntriesOK
  BY DEF IInv
<1>1. PICK k \in C!InMap : ref[u] = response_map[k]
  BY <1>0, Entries
<1>2. key[ref[u]] = k /\ value[ref[u]] \in Response /\ Confirmed(k, value[ref[u]])
  BY <1>0, <1>1, Entries DEF EntriesOK
<1>3. key[ref[u]] = req[u].uri
  BY <1>0 DEF HandlerOK, FoundOK
<1> QED
  BY <1>1, <1>2, <1>3 DEF C!InMap

\* What the origin answered was current after the client connected.
LEMMA AnswerGood ==
  ASSUME IInv, NEW u \in Threads, in[u] # NULL
  PROVE  /\ req[u] \in Requests /\ req[u].uri \in Keys /\ in[u].resp \in Response
         /\ in[u].resp.key = req[u].uri
         /\ Good(req[u].uri, in[u].resp.ver, in[u].resp.date)
         /\ Good(req[u].uri, in[u].resp.ver, floor[u])
<1>0. TypesOK /\ HandlerOK(u)
  BY DEF IInv
<1>1. /\ req[u] \in Requests /\ req[u].uri \in Keys /\ in[u].resp \in Response
  BY <1>0, RequestsAssumption DEF TypesOK, HandlerOK, StageOK, Answer
<1>2. Confirmed(req[u].uri, in[u].resp) /\ floor[u] <= in[u].resp.date
  BY <1>0 DEF HandlerOK, AnswersOK
<1>3. in[u].resp.ver \in Versions /\ in[u].resp.date \in Int /\ floor[u] \in Int
  BY <1>0, <1>1, BoundsAssumption DEF TypesOK, Response, Clock
<1> QED
  BY <1>0, <1>1, <1>2, <1>3, GoodBefore DEF Confirmed

\* Every step of the system is one of the cache, or a race in freshen_headers.
LEMMA CacheOf ==
  ASSUME IInv, [Next]_vars
  PROVE  CacheStep
<1> USE DEF CacheStep
<1>0. TypesOK
  BY DEF IInv
<1>1. CASE UNCHANGED cacheVars
  BY <1>1 DEF C!vars, cacheVars
<1>2. ASSUME NEW t \in Threads, fault = "none",
             C!GetStep(t) \/ C!AddStep(t) \/ C!GetRace(t) \/ C!UseDeleted(t) \/ C!Release(t)
      PROVE  CacheStep
  BY <1>2 DEF C!Next, C!Call, C!Caller
<1>3. ASSUME NEW t \in Threads, fault = "none", Handle(t) \/ Connected(t) \/ Sent(t)
      PROVE  CacheStep
  <2>1. CASE \/ GetMiss(t) \/ NeedValidation(t) \/ Valid(t) \/ Serve(t) \/ SendRequest(t)
             \/ FetchChunked(t) \/ FetchNoStore(t) \/ SendReply(t)
             \/ NotModified(t) \/ PostReply(t)
    BY <1>1, <2>1
    DEF GetMiss, NeedValidation, Valid, Serve, SendRequest, FetchChunked, FetchNoStore,
        SendReply, NotModified, PostReply, C!GetMiss, C!UseResponse,
        C!vars, cacheVars
  <2>2. CASE GetHit(t)
    <3>1. stage[t] = "lookup" /\ C!GetFind(t, req[t].uri)
      BY <2>2 DEF GetHit, Go
    <3>2. req[t].uri \in Keys
      BY <3>1, RequestsAssumption DEF IInv, HandlerOK, StageOK
    <3> QED
      BY <1>3, <3>1, <3>2 DEF C!Next, C!Call
  <2>3. CASE InCache(t) \/ ServerError(t) \/
             \E at \in {"decide", "connect", "freshen", "stamp", "serve", "log"} : Deleted(t, at)
    BY <1>2, <1>3, <2>3 DEF InCache, ServerError, Deleted
  <2>4. CASE \/ DecideThrows(t) \/ LogResponding(t) \/ GarbledAnswer(t)
             \/ ExpiryThrows(t) \/ PostGarbled(t)
    BY <1>1, <1>2, <1>3, <2>4
    DEF DecideThrows, LogResponding, GarbledAnswer, ExpiryThrows, PostGarbled, Throw, Return
  <2>5. CASE FetchStore(t) \/ Modified(t)
    <3> DEFINE r == [in[t].resp EXCEPT !.rtime = clock]
    <3>1. in[t] # NULL /\ C!AddCall(t, req[t].uri, r)
      BY <2>5 DEF FetchStore, Fetched, Modified, Validated
    <3>2. req[t].uri \in Keys /\ in[t].resp \in Response /\ clock \in Clock
      BY <1>0, <3>1, AnswerGood DEF TypesOK
    <3>3. r \in Response
      BY <3>2 DEF Response
    <3> HIDE DEF r
    <3> QED
      BY <1>3, <3>1, <3>2, <3>3 DEF C!Next, C!Call
  <2>6. CASE Freshen(t) \/ Stamp(t)
    <3>1. PICK r : C!Freshen(t, r) /\ pc[t] = "holding" /\ ref[t] # Dangling
                   /\ \/ /\ stage[t] = "freshen"
                         /\ r = [value[ref[t]] EXCEPT !.date = in[t].resp.date,
                                                      !.life = in[t].resp.life]
                      \/ r = [value[ref[t]] EXCEPT !.rtime = clock]
      BY <2>6 DEF Freshen, Stamp, Go, C!Freshen
    <3>2. value[ref[t]] \in Response /\ clock \in Clock
      BY <1>0, <3>1, Found DEF GetPoints, TypesOK
    <3>3. stage[t] = "freshen" => in[t].resp \in Response
      BY AnswerGood DEF IInv, HandlerOK, StageOK
    <3>4. r \in Response
      BY <3>1, <3>2, <3>3 DEF Response
    <3> QED
      BY <1>3, <3>1, <3>4 DEF C!Next, C!Caller
  <2> QED
    BY <1>3, <2>1, <2>2, <2>3, <2>4, <2>5, <2>6 DEF Handle, Connected, Sent
<1>4. ASSUME NEW t \in Threads, fault = "none", Happen(t)
      PROVE  CacheStep
  BY <1>1, <1>2, <1>4
  DEF Happen, RejectRequest, ConnectionFails, ReceiveRequest, OriginAnswer, RelayEnds,
      OpenTunnel, TunnelCloses, GetRace, FreshenRace, Throw, Return
<1> QED
  BY <1>1, <1>3, <1>4 DEF Next, Undefined, Tick, OriginUpdate, vars

---------------------------------------------------------------------------
(* The steps of a handler *)

LEMMA ReceiveRequestOK ==
  ASSUME IInv, NEW u \in Threads, NEW q \in Requests, ReceiveRequest(u, q)
  PROVE  IInv'
<1>0. TypesOK /\ HandlerOK(u)
  BY DEF IInv
<1>1. /\ UNCHANGED <<cacheVars, clock, since, cond, in, reply>>
      /\ stage[u] = "recv" /\ stage'[u] \in {"lookup", "connect"}
      /\ req'[u] = q /\ floor'[u] = clock
      /\ \A t \in Threads \ {u} : Still(t)
  BY <1>0 DEF ReceiveRequest, Go, TypesOK, Still, cacheVars
<1>2. TypesOK'
  BY <1>0, BoundsAssumption DEF ReceiveRequest, Go, TypesOK, Current, Stages, Clock
<1>3. in[u] = NULL /\ reply[u] = NULL /\ pc[u] = "idle"
  BY <1>0, <1>1 DEF HandlerOK, StageOK
<1>4. StageOK(u)'
  BY <1>0, <1>1, <1>3 DEF StageOK, Validating, cacheVars
<1>5. FoundOK(u)'
  BY <1>1, <1>3 DEF FoundOK, GetPoints, C!InGet, cacheVars
<1>6. AnswersOK(u)'
  BY <1>0, <1>1, <1>3, BoundsAssumption DEF AnswersOK, TypesOK, Clock
<1> QED
  BY <1>1, <1>2, <1>4, <1>5, <1>6, HandlerStep DEF HandlerOK

\* The handler returns: whatever it has is gone.
LEMMA ReturnOK ==
  ASSUME IInv, C!IInv', NEW u \in Threads, Return(u), pc[u] \in {"idle", "holding"}
  PROVE  IInv'
<1>0. TypesOK /\ C!IInv
  BY DEF IInv
<1>1. /\ UNCHANGED <<clock, since>>
      /\ stage'[u] = "recv" /\ in'[u] = NULL /\ reply'[u] = NULL /\ floor'[u] = 0
      /\ \A t \in Threads \ {u} :
           UNCHANGED <<stage[t], req[t], cond[t], in[t], reply[t], floor[t]>>
  BY <1>0 DEF Return, TypesOK
<1>2. TypesOK'
  BY <1>0 DEF Return, TypesOK, Current, Stages
<1>3. CacheKept(u) /\ pc'[u] = "idle"
  BY <1>0, ReleaseKept, StutterKept DEF Return, Validating, cacheVars
<1>4. EntriesOK'
  BY <1>1, <1>3, EntriesNext DEF CacheKept, Outside
<1>5. OthersStill(u)
  BY <1>1, <1>3 DEF OthersStill, Still, CacheKept
<1>6. HandlerOK(u)'
  BY <1>0, <1>1, <1>3, BoundsAssumption
  DEF HandlerOK, StageOK, FoundOK, AnswersOK, TypesOK, Clock, GetPoints, C!InGet
<1> QED
  BY <1>1, <1>2, <1>3, <1>4, <1>5, <1>6, StepIInv

\* The handler goes on after it looked at what it has, and at the cache.
LEMMA DecisionsOK ==
  ASSUME IInv, NEW u \in Threads,
         \/ GetMiss(u) \/ NeedValidation(u) \/ OpenTunnel(u) \/ FetchNoStore(u)
         \/ NotModified(u)
  PROVE  IInv'
<1>0. TypesOK /\ StageOK(u)
  BY DEF IInv, HandlerOK
<1>1. CASE GetMiss(u)
  <2>1. /\ stage[u] = "lookup" /\ pc[u] = "idle"
        /\ stage' = [stage EXCEPT ![u] = "connect"]
        /\ UNCHANGED <<cacheVars, clock, since, req, cond, in, reply, floor>>
    BY <1>1 DEF GetMiss, Go, C!GetMiss, C!vars, cacheVars
  <2> QED
    BY <1>0, <2>1, MoveOK DEF StageOK, Stages
<1>2. CASE NeedValidation(u)
  <2>1. /\ stage[u] = "decide" /\ pc[u] = "holding"
        /\ stage' = [stage EXCEPT ![u] = "connect"]
        /\ UNCHANGED <<cacheVars, clock, since, req, cond, in, reply, floor>>
    BY <1>2 DEF NeedValidation, Go, C!UseResponse, C!vars, cacheVars
  <2> QED
    BY <1>0, <2>1, MoveOK DEF StageOK, Stages
<1>3. CASE OpenTunnel(u)
  <2>1. /\ stage[u] = "connect" /\ stage' = [stage EXCEPT ![u] = "tunnel"]
        /\ UNCHANGED <<cacheVars, clock, since, req, cond, in, reply, floor>>
    BY <1>3 DEF OpenTunnel, Go
  <2> QED
    BY <1>0, <2>1, MoveOK DEF StageOK, Stages
<1>4. CASE FetchNoStore(u)
  <2>1. /\ stage[u] = "await" /\ stage' = [stage EXCEPT ![u] = "reply"]
        /\ ~Validating(u) /\ in[u] # NULL
        /\ UNCHANGED <<cacheVars, clock, since, req, cond, in, reply, floor>>
    BY <1>4 DEF FetchNoStore, Fetched, Go
  <2> QED
    BY <1>0, <2>1, MoveOK DEF StageOK, Stages
<1>5. CASE NotModified(u)
  <2>1. /\ stage[u] = "await" /\ stage' = [stage EXCEPT ![u] = "freshen"]
        /\ Validating(u) /\ in[u] # NULL /\ in[u].kind = "notmodified"
        /\ UNCHANGED <<cacheVars, clock, since, req, cond, in, reply, floor>>
    BY <1>5 DEF NotModified, Validated, Go
  <2> QED
    BY <1>0, <2>1, MoveOK DEF StageOK, Stages
<1> QED
  BY <1>1, <1>2, <1>3, <1>4, <1>5

\* A fault changes nothing but the record of it.
LEMMA FaultOK ==
  ASSUME IInv, C!IInv', UNCHANGED <<clock, since, handlerVars>>,
         UNCHANGED <<C!contents, mtx, pc, uri, arg, ref>>
  PROVE  IInv'
<1>0. TypesOK
  BY DEF IInv
<1>1. UNCHANGED <<response_map, key, value, pc, uri, arg, ref>>
  BY DEF C!contents
<1>2. ASSUME NEW t \in Threads
      PROVE  CacheKept(t) /\ RefKept(t) /\ Still(t)
  BY <1>1, StutterKept DEF handlerVars, Still
<1>3. ASSUME NEW t \in Threads
      PROVE  HandlerOK(t)'
  BY <1>2, StillOK DEF Outside
<1>4. EntriesOK'
  <2>1. (\A k \in Keys : EntryKept(k)) /\ \A t \in Threads : ArgKept(t)
    BY <1>1 DEF EntryKept, ArgKept
  <2> QED
    BY <2>1, EntriesNext DEF Outside
<1>5. TypesOK'
  BY <1>0 DEF TypesOK, Current, handlerVars
<1> QED
  BY <1>3, <1>4, <1>5 DEF IInv

LEMMA AccidentsOK ==
  ASSUME IInv, C!IInv', NEW u \in Threads,
         \/ \E at \in {"decide", "connect", "freshen", "stamp", "serve", "log"} : Deleted(u, at)
         \/ GetRace(u) \/ FreshenRace(u)
  PROVE  IInv'
<1>1. /\ UNCHANGED <<clock, since, handlerVars>>
      /\ UNCHANGED <<C!contents, mtx, pc, uri, arg, ref>>
  BY DEF Deleted, GetRace, FreshenRace, C!UseDeleted, C!GetRace, C!Fail
<1> QED
  BY <1>1, FaultOK

\* Wherever it returns, a handler is not inside a call of the cache.
LEMMA ReturnsOK ==
  ASSUME IInv, C!IInv', NEW u \in Threads,
         \/ RejectRequest(u) \/ DecideThrows(u) \/ LogResponding(u)
         \/ ConnectionFails(u) \/ GarbledAnswer(u) \/ ExpiryThrows(u)
         \/ RelayEnds(u) \/ PostGarbled(u) \/ TunnelCloses(u)
  PROVE  IInv'
<1>1. Return(u) /\ (\/ stage[u] \in {"recv", "log", "await", "relay", "tunnel"}
                    \/ pc[u] \in {"idle", "holding"})
  BY DEF RejectRequest, DecideThrows, LogResponding, ConnectionFails, GarbledAnswer,
         ExpiryThrows, RelayEnds, PostGarbled, TunnelCloses, Throw
<1>2. pc[u] \in {"idle", "holding"}
  BY <1>1 DEF IInv, HandlerOK, StageOK
<1> QED
  BY <1>1, <1>2, ReturnOK

LEMMA GetHitOK ==
  ASSUME IInv, C!IInv', NEW u \in Threads, GetHit(u)
  PROVE  IInv'
<1>0. TypesOK /\ C!IInv /\ HandlerOK(u)
  BY DEF IInv
<1>1. /\ UNCHANGED <<clock, since, req, cond, in, reply, floor>>
      /\ stage[u] = "lookup" /\ stage' = [stage EXCEPT ![u] = "decide"]
      /\ C!GetFind(u, req[u].uri)
  BY DEF GetHit, Go
<1>2. PICK k \in Keys : k = req[u].uri
  BY <1>0, <1>1, RequestsAssumption DEF HandlerOK, StageOK
<1>3. /\ CacheKept(u) /\ pc'[u] = "get_lock"
      /\ ref'[u] = response_map[k] /\ key'[ref'[u]] = k
  BY <1>0, <1>1, <1>2, FindKept
<1>4. EntriesOK'
  BY <1>1, <1>3, EntriesNext DEF CacheKept, Outside
<1>5. TypesOK'
  BY <1>0, <1>1 DEF TypesOK, Current, Stages
<1>6. stage'[u] = "decide" /\ \A t \in Threads \ {u} : stage'[t] = stage[t]
  BY <1>0, <1>1 DEF TypesOK
<1>7. OthersStill(u)
  BY <1>1, <1>3, <1>6 DEF OthersStill, Still, CacheKept
<1>8. StageOK(u)'
  BY <1>0, <1>1, <1>3, <1>6 DEF HandlerOK, StageOK, Validating
<1>9. FoundOK(u)'
  BY <1>1, <1>2, <1>3 DEF FoundOK, Validating
<1>10. AnswersOK(u)'
  BY <1>0, <1>1 DEF HandlerOK, AnswersOK, Confirmed, Good, CurrentSince, Current
<1> QED
  BY <1>1, <1>4, <1>5, <1>7, <1>8, <1>9, <1>10, StepIInv DEF HandlerOK

LEMMA InCacheOK ==
  ASSUME IInv, C!IInv', NEW u \in Threads, InCache(u)
  PROVE  IInv'
<1>0. TypesOK /\ C!IInv /\ HandlerOK(u) /\ pc \in [Threads -> C!Points]
  BY DEF IInv, C!IInv, C!TypeOK
<1>1. /\ UNCHANGED <<clock, since, stage, req, cond, in, reply, floor>>
      /\ stage[u] \in {"decide", "reply"} /\ (C!GetStep(u) \/ C!AddStep(u))
  BY DEF InCache, handlerVars
<1>2. CacheKept(u) /\ (C!GetStep(u) => RefKept(u))
  BY <1>0, <1>1, GetStepKept, AddStepKept
<1>3. EntriesOK'
  BY <1>1, <1>2, EntriesNext DEF CacheKept, Outside
<1>4. TypesOK'
  BY <1>0, <1>1 DEF TypesOK, Current
<1>5. OthersStill(u)
  BY <1>1, <1>2 DEF OthersStill, Still, CacheKept
<1>6. RefKept(u)
  BY <1>0, <1>1, <1>2, AddStepKept DEF RefKept
<1>7. pc'[u] \in GetPoints => pc[u] \in GetPoints
  <2>1. CASE C!AddStep(u)
    BY <1>0, <2>1, AddStepKept
  <2>2. CASE C!GetStep(u)
    BY <1>0, <2>2
    DEF C!GetStep, C!GetLock, C!GetMove, C!GetMoveErased, C!GetUnlock, C!GetReturn,
        C!GetReturnDeleted, C!Fail, C!Goto, C!contents, GetPoints, C!InGet
  <2> QED
    BY <1>1, <2>1, <2>2
<1>8. StageOK(u)'
  BY <1>0, <1>1, <1>7 DEF HandlerOK, StageOK, Validating
<1>9. FoundOK(u)'
  BY <1>0, <1>1, <1>6 DEF HandlerOK, StageOK, FoundOK, RefKept
<1>10. AnswersOK(u)'
  BY <1>0, <1>1 DEF HandlerOK, AnswersOK, Confirmed, Good, CurrentSince, Current
<1> QED
  BY <1>1, <1>3, <1>4, <1>5, <1>8, <1>9, <1>10, StepIInv DEF HandlerOK

LEMMA ServerErrorOK ==
  ASSUME IInv, C!IInv', NEW u \in Threads, ServerError(u)
  PROVE  IInv'
<1>0. TypesOK /\ C!IInv /\ HandlerOK(u)
  BY DEF IInv
<1>1. /\ UNCHANGED <<clock, since, req, cond, in, reply, floor>> /\ C!Release(u)
      /\ stage[u] = "await" /\ stage' = [stage EXCEPT ![u] = "reply"] /\ in[u] # NULL
  BY DEF ServerError, Go, Validated
<1>2. CacheKept(u) /\ pc'[u] = "idle"
  BY <1>0, <1>1, ReleaseKept
<1>3. EntriesOK'
  BY <1>1, <1>2, EntriesNext DEF CacheKept, Outside
<1>4. TypesOK'
  BY <1>0, <1>1 DEF TypesOK, Current, Stages
<1>5. stage'[u] = "reply" /\ \A t \in Threads \ {u} : stage'[t] = stage[t]
  BY <1>0, <1>1 DEF TypesOK
<1>6. OthersStill(u)
  BY <1>1, <1>2, <1>5 DEF OthersStill, Still, CacheKept
<1>7. StageOK(u)' /\ FoundOK(u)'
  BY <1>0, <1>1, <1>2, <1>5 DEF HandlerOK, StageOK, FoundOK, Validating, GetPoints, C!InGet
<1>8. AnswersOK(u)'
  BY <1>0, <1>1 DEF HandlerOK, AnswersOK, Confirmed, Good, CurrentSince, Current
<1> QED
  BY <1>1, <1>3, <1>4, <1>6, <1>7, <1>8, StepIInv DEF HandlerOK

\* A fresh response was current as long ago as its lifetime and max-stale allow.
LEMMA FreshSince ==
  ASSUME NEW r \in Response, NEW q \in Requests, is_fresh(r, q),
         clock \in Int, r.date <= clock
  PROVE  /\ clock - (r.life + q.slack) + 1 \in Int
         /\ clock - (r.life + q.slack) + 1 <= r.date
<1>1. /\ r.date \in Int /\ r.rtime \in Int /\ r.life \in Int /\ q.slack \in Int
      /\ r.life + q.slack > calculate_age(r)
  BY RequestsAssumption, BoundsAssumption DEF Response, Clock, is_fresh
<1>2. calculate_age(r) >= clock - r.date
  BY <1>1 DEF calculate_age, Largest
<1>3. calculate_age(r) \in Int
  BY <1>1 DEF calculate_age, Largest
<1> QED
  BY <1>1, <1>2, <1>3

LEMMA ValidOK ==
  ASSUME IInv, NEW u \in Threads, Valid(u)
  PROVE  IInv'
<1>0. TypesOK /\ HandlerOK(u)
  BY DEF IInv
<1> DEFINE r == value[ref[u]]
           f == clock - (r.life + req[u].slack) + 1
<1>1. /\ UNCHANGED <<cacheVars, clock, since, req, cond, in, reply>>
      /\ stage[u] = "decide" /\ stage' = [stage EXCEPT ![u] = "serve"]
      /\ pc[u] = "holding" /\ ref[u] # Dangling
      /\ is_fresh(r, req[u]) /\ floor' = [floor EXCEPT ![u] = f]
  BY DEF Valid, Go, C!UseResponse, C!vars, cacheVars
<1>2. req[u] \in Requests /\ in[u] = NULL /\ reply[u] = NULL
  BY <1>0, <1>1 DEF HandlerOK, StageOK
<1>3. r \in Response /\ req[u].uri \in Keys /\ Confirmed(req[u].uri, r)
  BY <1>1, Found DEF GetPoints
<1>4. clock \in Int /\ r.date \in Int /\ r.ver \in Versions /\ r.date <= clock
  BY <1>0, <1>3, BoundsAssumption DEF TypesOK, Response, Clock, Confirmed, Good
<1>5. f \in Int /\ f <= r.date
  BY <1>1, <1>2, <1>3, <1>4, FreshSince
<1> HIDE DEF f
<1>6. Good(req[u].uri, r.ver, f)
  BY <1>0, <1>3, <1>4, <1>5, GoodBefore DEF Confirmed
<1> HIDE DEF r
<1>7. /\ stage'[u] = "serve" /\ floor'[u] = f
      /\ \A t \in Threads \ {u} : Still(t)
  BY <1>0, <1>1 DEF TypesOK, Still, cacheVars
<1>8. TypesOK'
  BY <1>0, <1>1, <1>5 DEF TypesOK, Current, Stages
<1>9. StageOK(u)'
  BY <1>0, <1>1, <1>2, <1>7 DEF HandlerOK, StageOK, Validating, GetPoints, cacheVars
<1>10. FoundOK(u)'
  BY <1>0, <1>1, <1>2, <1>6, <1>7
  DEF HandlerOK, FoundOK, Validating, cacheVars, Good, CurrentSince, Current, r
<1>11. AnswersOK(u)'
  BY <1>1, <1>2, <1>4, <1>5, <1>7 DEF AnswersOK
<1> QED
  BY <1>1, <1>7, <1>8, <1>9, <1>10, <1>11, HandlerStep DEF HandlerOK

LEMMA ServeOK ==
  ASSUME IInv, NEW u \in Threads, Serve(u)
  PROVE  IInv'
<1>0. TypesOK /\ HandlerOK(u)
  BY DEF IInv
<1> DEFINE r == value[ref[u]]
<1>1. /\ UNCHANGED <<cacheVars, clock, since, req, cond, in, floor>>
      /\ stage[u] = "serve" /\ stage' = [stage EXCEPT ![u] = "log"]
      /\ pc[u] = "holding" /\ ref[u] # Dangling
      /\ reply' = [reply EXCEPT ![u] = r]
  BY DEF Serve, Go, C!UseResponse, C!vars, cacheVars
<1>2. r \in Response /\ r.key = req[u].uri
  BY <1>1, Found DEF GetPoints, Confirmed
<1>3. Good(req[u].uri, r.ver, floor[u]) /\ in[u] = NULL
  BY <1>0, <1>1 DEF HandlerOK, StageOK, FoundOK, Validating, GetPoints
<1> HIDE DEF r
<1>4. /\ stage'[u] = "log" /\ reply'[u] = r
      /\ \A t \in Threads \ {u} : Still(t)
  BY <1>0, <1>1 DEF TypesOK, Still, cacheVars
<1>5. TypesOK'
  BY <1>0, <1>1, <1>2 DEF TypesOK, Current, Stages
<1>6. StageOK(u)'
  BY <1>0, <1>1, <1>3, <1>4 DEF HandlerOK, StageOK, Validating, cacheVars
<1>7. FoundOK(u)'
  BY <1>0, <1>1, <1>3, <1>4 DEF HandlerOK, FoundOK, Validating, cacheVars
<1>8. AnswersOK(u)'
  BY <1>0, <1>1, <1>2, <1>3, <1>4
  DEF HandlerOK, AnswersOK, Good, CurrentSince, Current
<1> QED
  BY <1>1, <1>4, <1>5, <1>6, <1>7, <1>8, HandlerStep DEF HandlerOK

LEMMA SendRequestOK ==
  ASSUME IInv, NEW u \in Threads, SendRequest(u)
  PROVE  IInv'
<1>0. TypesOK /\ HandlerOK(u)
  BY DEF IInv
<1>1. /\ UNCHANGED <<cacheVars, clock, since, req, in, reply, floor>>
      /\ stage[u] = "connect" /\ stage' = [stage EXCEPT ![u] = "await"]
      /\ IF Validating(u)
         THEN ref[u] # Dangling /\ cond' = [cond EXCEPT ![u] = value[ref[u]].ver]
         ELSE cond' = cond
  BY DEF SendRequest, Go, C!UseResponse, C!vars, cacheVars
<1>2. in[u] = NULL /\ reply[u] = NULL
  BY <1>0, <1>1 DEF HandlerOK, StageOK
<1>3. Validating(u) => value[ref[u]].ver \in Versions
  BY <1>1, Found DEF Validating, GetPoints, Response
<1>4. /\ stage'[u] = "await" /\ (Validating(u) => cond'[u] = value[ref[u]].ver)
      /\ \A t \in Threads \ {u} : Still(t)
  BY <1>0, <1>1 DEF TypesOK, Still, cacheVars
<1>5. TypesOK'
  BY <1>0, <1>1, <1>3 DEF TypesOK, Current, Stages
<1>6. StageOK(u)'
  BY <1>0, <1>1, <1>2, <1>4 DEF HandlerOK, StageOK, Validating, cacheVars
<1>7. FoundOK(u)'
  BY <1>0, <1>1, <1>2, <1>4 DEF HandlerOK, FoundOK, Validating, cacheVars
<1>8. AnswersOK(u)'
  BY <1>0, <1>1, <1>2 DEF HandlerOK, AnswersOK
<1> QED
  BY <1>1, <1>4, <1>5, <1>6, <1>7, <1>8, HandlerStep DEF HandlerOK

LEMMA OriginAnswerOK ==
  ASSUME IInv, NEW u \in Threads, OriginAnswer(u)
  PROVE  IInv'
<1>0. TypesOK /\ HandlerOK(u)
  BY DEF IInv
<1> DEFINE v == Current(req[u].uri)
<1>1. /\ UNCHANGED <<cacheVars, clock, since, stage, req, reply, floor>>
      /\ stage[u] = "await" /\ in[u] = NULL /\ cond' = [cond EXCEPT ![u] = 0]
  BY DEF OriginAnswer
<1>2. PICK kind \in Kinds, life \in Lifetimes :
        /\ kind = "notmodified" => cond[u] = v
        /\ in' = [in EXCEPT ![u] =
                    [kind |-> kind,
                     resp |-> [key |-> req[u].uri, ver |-> v,
                               date |-> clock, rtime |-> 0, life |-> life]]]
  BY DEF OriginAnswer
<1>3. req[u] \in Requests /\ req[u].uri \in Keys /\ reply[u] = NULL
  BY <1>0, <1>1, RequestsAssumption DEF HandlerOK, StageOK
<1>4. v \in Versions /\ clock \in Clock /\ clock \in Int /\ 0 \in Clock /\ v \in Nat
  BY <1>0, <1>3, BoundsAssumption DEF TypesOK, Clock, Versions
<1>5. Good(req[u].uri, v, clock)
  BY <1>4 DEF Good, CurrentSince
<1> HIDE DEF v
<1> DEFINE a == [kind |-> kind, resp |-> [key |-> req[u].uri, ver |-> v,
                                          date |-> clock, rtime |-> 0, life |-> life]]
<1>6. a \in Answer
  BY <1>3, <1>4 DEF Answer, Response
<1>7. /\ a.kind = kind /\ a.resp.key = req[u].uri /\ a.resp.ver = v /\ a.resp.date = clock
      /\ in' = [in EXCEPT ![u] = a]
  BY <1>2
<1> HIDE DEF a
<1>8. /\ in'[u] = a /\ a # NULL
      /\ \A t \in Threads \ {u} : Still(t)
  BY <1>0, <1>1, <1>6, <1>7, NullAssumption DEF TypesOK, Still, cacheVars, Answer
<1>9. TypesOK'
  BY <1>0, <1>1, <1>6, <1>7 DEF TypesOK, Current
<1>10. StageOK(u)'
  BY <1>0, <1>1, <1>8 DEF HandlerOK, StageOK, Validating, cacheVars
<1>11. FoundOK(u)'
  BY <1>0, <1>1, <1>2, <1>7, <1>8 DEF HandlerOK, FoundOK, Validating, cacheVars
<1>12. AnswersOK(u)'
  BY <1>0, <1>1, <1>3, <1>4, <1>5, <1>7, <1>8
  DEF HandlerOK, AnswersOK, Confirmed, Good, CurrentSince, Current
<1> QED
  BY <1>1, <1>8, <1>9, <1>10, <1>11, <1>12, HandlerStep DEF HandlerOK

\* What the origin answered is passed on to the client.
LEMMA RepliesOK ==
  ASSUME IInv, NEW u \in Threads, FetchChunked(u) \/ PostReply(u) \/ SendReply(u)
  PROVE  IInv'
<1>0. TypesOK /\ HandlerOK(u)
  BY DEF IInv
<1> DEFINE r == in[u].resp
<1>1. PICK s \in {"relay", "log"} :
        /\ UNCHANGED <<cacheVars, clock, since, req, cond, floor>>
        /\ stage[u] \in {"await", "reply"} /\ stage' = [stage EXCEPT ![u] = s]
        /\ pc[u] \in {"idle", "holding"}
        /\ in[u] # NULL /\ (in' = in \/ in' = [in EXCEPT ![u] = NULL])
        /\ reply' = [reply EXCEPT ![u] = r]
  BY <1>0 DEF FetchChunked, Fetched, PostReply, SendReply, Go, HandlerOK, StageOK
<1>2. /\ r \in Response /\ r.key = req[u].uri /\ Good(req[u].uri, r.ver, floor[u])
      /\ req[u] \in Requests
  BY <1>1, AnswerGood
<1> HIDE DEF r
<1>3. /\ stage'[u] = s /\ reply'[u] = r /\ in'[u] \in {in[u], NULL}
      /\ \A t \in Threads \ {u} : Still(t)
  BY <1>0, <1>1 DEF TypesOK, Still, cacheVars
<1>4. TypesOK'
  BY <1>0, <1>1, <1>2 DEF TypesOK, Current, Stages
<1>5. StageOK(u)'
  BY <1>0, <1>1, <1>3 DEF HandlerOK, StageOK, Validating, cacheVars
<1>6. FoundOK(u)'
  BY <1>0, <1>1, <1>3 DEF HandlerOK, FoundOK, Validating, cacheVars
<1>7. AnswersOK(u)'
  BY <1>0, <1>1, <1>2, <1>3
  DEF HandlerOK, AnswersOK, Confirmed, Good, CurrentSince, Current
<1> QED
  BY <1>1, <1>3, <1>4, <1>5, <1>6, <1>7, HandlerStep DEF HandlerOK

\* What the origin answered goes to the cache.
LEMMA StoresOK ==
  ASSUME IInv, C!IInv', NEW u \in Threads, FetchStore(u) \/ Modified(u)
  PROVE  IInv'
<1>0. TypesOK /\ C!IInv /\ HandlerOK(u)
  BY DEF IInv
<1> DEFINE k == req[u].uri
           r == [in[u].resp EXCEPT !.rtime = clock]
<1>1. /\ UNCHANGED <<clock, since, req, cond, in, reply, floor>> /\ in[u] # NULL
      /\ stage[u] = "await" /\ stage' = [stage EXCEPT ![u] = "reply"]
      /\ C!AddCall(u, k, r)
  BY DEF FetchStore, Fetched, Modified, Validated, Go
<1>2. k \in Keys /\ r \in Response /\ Confirmed(k, r)
  <2>1. in[u].resp \in Response /\ clock \in Clock
    BY <1>0, <1>1, AnswerGood DEF TypesOK
  <2>2. r \in Response /\ r.key = in[u].resp.key /\ r.ver = in[u].resp.ver
        /\ r.date = in[u].resp.date
    BY <2>1 DEF Response
  <2> QED
    BY <1>1, <2>2, AnswerGood DEF Confirmed
<1> HIDE DEF k, r
<1>3. /\ pc'[u] = "add_lock" /\ uri'[u] = k /\ arg'[u] = r
      /\ \A t \in Threads \ {u} : ArgKept(t) /\ RefKept(t) /\ pc'[t] = pc[t]
      /\ \A j \in Keys : EntryKept(j)
  BY <1>0, <1>1, <1>2, AddCallKept
<1>4. Confirmed(uri[u], arg[u])'
  BY <1>1, <1>2, <1>3 DEF Confirmed, Good, CurrentSince, Current
<1>5. EntriesOK'
  BY <1>1, <1>3, <1>4, EntriesNext DEF Outside
<1>6. TypesOK'
  BY <1>0, <1>1 DEF TypesOK, Current, Stages
<1>7. stage'[u] = "reply" /\ \A t \in Threads \ {u} : stage'[t] = stage[t]
  BY <1>0, <1>1 DEF TypesOK
<1>8. OthersStill(u)
  BY <1>1, <1>3, <1>7 DEF OthersStill, Still
<1>9. StageOK(u)' /\ FoundOK(u)'
  BY <1>0, <1>1, <1>3, <1>7
  DEF HandlerOK, StageOK, FoundOK, Validating, GetPoints, C!InGet
<1>10. AnswersOK(u)'
  BY <1>0, <1>1 DEF HandlerOK, AnswersOK, Confirmed, Good, CurrentSince, Current
<1> QED
  BY <1>1, <1>5, <1>6, <1>8, <1>9, <1>10, StepIInv DEF HandlerOK

\* The headers that freshen_headers writes are those of an answer that says the
\* version in the cache is current, if this is still the response it was about.
LEMMA FreshenOK ==
  ASSUME IInv, C!IInv', NEW u \in Threads, Freshen(u)
  PROVE  IInv'
<1>0. TypesOK /\ C!IInv /\ HandlerOK(u)
  BY DEF IInv
<1> DEFINE k == req[u].uri
           o == value[ref[u]]
           a == in[u].resp
           r == [o EXCEPT !.date = a.date, !.life = a.life]
<1>1. /\ UNCHANGED <<clock, since, req, cond, in, reply, floor>>
      /\ stage[u] = "freshen" /\ stage' = [stage EXCEPT ![u] = "stamp"]
      /\ C!Freshen(u, r) /\ pc[u] = "holding" /\ ref[u] # Dangling
  BY DEF Freshen, Go, C!Freshen
<1>2. in[u] # NULL /\ in[u].kind = "notmodified" /\ reply[u] = NULL
  BY <1>0, <1>1 DEF HandlerOK, StageOK
<1>3. a.ver = o.ver
  BY <1>0, <1>1, <1>2 DEF HandlerOK, FoundOK, Validating, GetPoints
<1>4. /\ k \in Keys /\ o \in Response /\ o.key = k /\ a \in Response
      /\ Good(k, a.ver, a.date) /\ Good(k, a.ver, floor[u]) /\ key[ref[u]] = k
  BY <1>1, <1>2, Found, AnswerGood DEF GetPoints, Confirmed
<1>5. /\ r \in Response /\ r.key = k /\ r.ver = o.ver /\ r.date = a.date
  BY <1>4 DEF Response
<1>6. Confirmed(k, r) /\ Good(k, r.ver, floor[u])
  BY <1>3, <1>4, <1>5 DEF Confirmed
<1> HIDE DEF k, r, a
<1>7. /\ UNCHANGED <<pc, ref>>
      /\ \A t \in Threads : ArgKept(t) /\ RefKept(t)
      /\ \A j \in Keys : \/ EntryKept(j)
                         \/ j = k /\ value'[response_map'[j]] = r
      /\ value'[ref[u]] = r
  BY <1>0, <1>1, <1>4, <1>5, FreshenKept
<1>8. EntriesOK'
  <2>1. ASSUME NEW j \in Keys, j = k, value'[response_map'[j]] = r
        PROVE  Confirmed(j, value[response_map[j]])'
    BY <1>1, <1>6, <2>1 DEF Confirmed, Good, CurrentSince, Current
  <2> QED
    BY <1>1, <1>7, <2>1, EntriesNext DEF Outside
<1>9. TypesOK'
  BY <1>0, <1>1 DEF TypesOK, Current, Stages
<1>10. stage'[u] = "stamp" /\ \A t \in Threads \ {u} : stage'[t] = stage[t]
  BY <1>0, <1>1 DEF TypesOK
<1>11. OthersStill(u)
  BY <1>1, <1>7, <1>10 DEF OthersStill, Still
<1>12. StageOK(u)'
  BY <1>0, <1>1, <1>2, <1>7, <1>10 DEF HandlerOK, StageOK, Validating
<1>13. FoundOK(u)'
  <2>1. key'[ref'[u]] = k
    BY <1>1, <1>4, <1>7 DEF RefKept, GetPoints
  <2>2. in[u].resp.ver = r.ver
    BY <1>3, <1>5 DEF a
  <2>3. Good(req[u].uri, value[ref[u]].ver, floor[u])'
    BY <1>1, <1>6, <1>7 DEF k, Good, CurrentSince, Current
  <2> QED
    BY <1>1, <1>2, <1>7, <1>10, <2>1, <2>2, <2>3 DEF FoundOK, k
<1>14. AnswersOK(u)'
  BY <1>0, <1>1 DEF HandlerOK, AnswersOK, Confirmed, Good, CurrentSince, Current
<1> QED
  BY <1>1, <1>8, <1>9, <1>11, <1>12, <1>13, <1>14, StepIInv DEF HandlerOK

LEMMA StampOK ==
  ASSUME IInv, C!IInv', NEW u \in Threads, Stamp(u)
  PROVE  IInv'
<1>0. TypesOK /\ C!IInv /\ HandlerOK(u)
  BY DEF IInv
<1> DEFINE k == req[u].uri
           o == value[ref[u]]
           r == [o EXCEPT !.rtime = clock]
<1>1. /\ UNCHANGED <<clock, since, req, cond, reply, floor>>
      /\ in' = [in EXCEPT ![u] = NULL]
      /\ stage[u] = "stamp" /\ stage' = [stage EXCEPT ![u] = "serve"]
      /\ C!Freshen(u, r) /\ pc[u] = "holding" /\ ref[u] # Dangling
  BY DEF Stamp, Go, C!Freshen
<1>2. reply[u] = NULL
  BY <1>0, <1>1 DEF HandlerOK, StageOK
<1>3. Good(k, o.ver, floor[u])
  BY <1>0, <1>1 DEF HandlerOK, FoundOK, Validating, GetPoints
<1>4. k \in Keys /\ o \in Response /\ Confirmed(k, o) /\ key[ref[u]] = k /\ clock \in Clock
  BY <1>0, <1>1, Found DEF GetPoints, TypesOK
<1>5. r \in Response /\ r.key = o.key /\ r.ver = o.ver /\ r.date = o.date
  BY <1>4 DEF Response
<1>6. Confirmed(k, r) /\ Good(k, r.ver, floor[u])
  BY <1>3, <1>4, <1>5 DEF Confirmed
<1> HIDE DEF k, r
<1>7. /\ UNCHANGED <<pc, ref>>
      /\ \A t \in Threads : ArgKept(t) /\ RefKept(t)
      /\ \A j \in Keys : \/ EntryKept(j)
                         \/ j = k /\ value'[response_map'[j]] = r
      /\ value'[ref[u]] = r
  BY <1>0, <1>1, <1>4, <1>5, FreshenKept
<1>8. EntriesOK'
  <2>1. ASSUME NEW j \in Keys, j = k, value'[response_map'[j]] = r
        PROVE  Confirmed(j, value[response_map[j]])'
    BY <1>1, <1>6, <2>1 DEF Confirmed, Good, CurrentSince, Current
  <2> QED
    BY <1>1, <1>7, <2>1, EntriesNext DEF Outside
<1>9. TypesOK'
  BY <1>0, <1>1 DEF TypesOK, Current, Stages
<1>10. /\ stage'[u] = "serve" /\ in'[u] = NULL
       /\ \A t \in Threads \ {u} : stage'[t] = stage[t] /\ in'[t] = in[t]
  BY <1>0, <1>1 DEF TypesOK
<1>11. OthersStill(u)
  BY <1>1, <1>7, <1>10 DEF OthersStill, Still
<1>12. StageOK(u)'
  BY <1>0, <1>1, <1>2, <1>7, <1>10 DEF HandlerOK, StageOK, Validating
<1>13. FoundOK(u)'
  <2>1. key'[ref'[u]] = k
    BY <1>1, <1>4, <1>7 DEF RefKept, GetPoints
  <2>2. Good(req[u].uri, value[ref[u]].ver, floor[u])'
    BY <1>1, <1>6, <1>7 DEF k, Good, CurrentSince, Current
  <2> QED
    BY <1>1, <1>7, <1>10, <2>1, <2>2 DEF FoundOK, k
<1>14. AnswersOK(u)'
  BY <1>0, <1>1, <1>2, <1>10 DEF HandlerOK, AnswersOK
<1> QED
  BY <1>1, <1>8, <1>9, <1>11, <1>12, <1>13, <1>14, StepIInv DEF HandlerOK

LEMMA HandleOK ==
  ASSUME IInv, C!IInv', NEW u \in Threads, Handle(u) \/ Connected(u) \/ Sent(u)
  PROVE  IInv'
<1>1. CASE GetMiss(u) \/ NeedValidation(u) \/ FetchNoStore(u) \/ NotModified(u)
  BY <1>1, DecisionsOK
<1>2. CASE \/ GetHit(u) \/ InCache(u) \/ ServerError(u) \/ Valid(u) \/ Serve(u)
           \/ SendRequest(u)
  BY <1>2, GetHitOK, InCacheOK, ServerErrorOK, ValidOK, ServeOK, SendRequestOK
<1>3. CASE FetchChunked(u) \/ PostReply(u) \/ SendReply(u)
  BY <1>3, RepliesOK
<1>4. CASE FetchStore(u) \/ Modified(u) \/ Freshen(u) \/ Stamp(u)
  BY <1>4, StoresOK, FreshenOK, StampOK
<1>5. CASE \/ DecideThrows(u) \/ LogResponding(u) \/ GarbledAnswer(u)
           \/ ExpiryThrows(u) \/ PostGarbled(u)
  BY <1>5, ReturnsOK
<1>6. CASE \E at \in {"decide", "connect", "freshen", "stamp", "serve", "log"} :
             Deleted(u, at)
  BY <1>6, AccidentsOK
<1> QED
  BY <1>1, <1>2, <1>3, <1>4, <1>5, <1>6 DEF Handle, Connected, Sent

LEMMA HappenOK ==
  ASSUME IInv, C!IInv', NEW u \in Threads, Happen(u)
  PROVE  IInv'
<1>1. CASE RejectRequest(u) \/ ConnectionFails(u) \/ RelayEnds(u) \/ TunnelCloses(u)
  BY <1>1, ReturnsOK
<1>2. CASE GetRace(u) \/ FreshenRace(u)
  BY <1>2, AccidentsOK
<1>3. CASE OriginAnswer(u)
  BY <1>3, OriginAnswerOK
<1>4. CASE \E q \in Requests : ReceiveRequest(u, q)
  BY <1>4, ReceiveRequestOK
<1>5. CASE OpenTunnel(u)
  BY <1>5, DecisionsOK
<1> QED
  BY <1>1, <1>2, <1>3, <1>4, <1>5 DEF Happen

\* Time passes, or a resource changes, or nothing does.
LEMMA OutsideOK ==
  ASSUME IInv, UNCHANGED <<cacheVars, handlerVars>>, Outside
  PROVE  IInv'
<1>0. TypesOK /\ C!IInv
  BY DEF IInv
<1>1. ASSUME NEW t \in Threads
      PROVE  CacheKept(t) /\ RefKept(t) /\ Still(t)
  BY StutterKept DEF cacheVars, handlerVars, Still
<1>2. ASSUME NEW t \in Threads
      PROVE  HandlerOK(t)'
  BY <1>1, StillOK
<1>3. C!IInv'
  BY <1>0, CacheStepIInv DEF CacheStep, C!vars, cacheVars
<1>4. EntriesOK'
  <2>1. (\A k \in Keys : EntryKept(k)) /\ \A t \in Threads : ArgKept(t)
    BY DEF EntryKept, ArgKept, cacheVars
  <2> QED
    BY <1>3, <2>1, EntriesNext
<1>5. TypesOK'
  <2>1. CASE UNCHANGED <<clock, since>> \/ Tick
    BY <1>0, <2>1, BoundsAssumption DEF TypesOK, Current, handlerVars, Tick, Clock
  <2>2. ASSUME NEW k \in Keys, OriginUpdate(k)
        PROVE  TypesOK'
    <3>1. clock' = clock /\ since' = [since EXCEPT ![k] = Append(@, clock)]
      BY <2>2 DEF OriginUpdate
    <3>2. PICK s \in Seq(Clock) : s = since[k]
      BY <1>0 DEF TypesOK
    <3>3. Append(s, clock) \in Seq(Clock) /\ Len(Append(s, clock)) = Len(s) + 1
      BY <1>0 DEF TypesOK
    <3>4. /\ since'[k] = Append(s, clock) /\ since' \in [Keys -> Seq(Clock)]
          /\ \A j \in Keys \ {k} : since'[j] = since[j]
      BY <1>0, <3>1, <3>2, <3>3 DEF TypesOK
    <3>5. Len(s) \in Versions /\ Len(s) < MaxVersion
      BY <1>0, <2>2, <3>2 DEF TypesOK, OriginUpdate, Current
    <3>6. ASSUME NEW j \in Keys PROVE Len(since'[j]) \in Versions
      <4>1. CASE j = k
        <5>1. Len(s) + 1 \in Versions
          BY <3>5, BoundsAssumption DEF Versions
        <5> QED
          BY <3>3, <3>4, <4>1, <5>1
      <4>2. CASE j # k
        BY <1>0, <3>4, <4>2 DEF TypesOK, Current
      <4> QED
        BY <4>1, <4>2
    <3> QED
      BY <1>0, <3>1, <3>4, <3>6 DEF TypesOK, Current, handlerVars
  <2> QED
    BY <2>1, <2>2 DEF Outside
<1> QED
  BY <1>2, <1>3, <1>4, <1>5 DEF IInv

LEMMA NextIInv == IInv /\ [Next]_vars => IInv'
<1> SUFFICES ASSUME IInv, [Next]_vars PROVE IInv'
  OBVIOUS
<1>1. C!IInv'
  BY CacheOf, CacheStepIInv DEF IInv
<1>2. CASE UNCHANGED vars
  BY <1>2, OutsideOK DEF vars, Outside, cacheVars, handlerVars
<1>3. CASE Tick \/ \E k \in Keys : OriginUpdate(k)
  <2>1. UNCHANGED <<cacheVars, handlerVars>>
    BY <1>3 DEF Tick, OriginUpdate
  <2> QED
    BY <1>3, <2>1, OutsideOK DEF Outside
<1>4. ASSUME NEW t \in Threads, Handle(t) \/ Connected(t) \/ Sent(t) \/ Happen(t)
      PROVE  IInv'
  BY <1>1, <1>4, HandleOK, HappenOK
<1> QED
  BY <1>2, <1>3, <1>4 DEF Next, Undefined

LEMMA InitIInv == Init => IInv
<1> SUFFICES ASSUME Init PROVE IInv
  OBVIOUS
<1>1. C!IInv
  BY CacheInit DEF Init
<1>2. /\ \A k \in Keys : response_map[k] = NULL
      /\ \A t \in Threads : pc[t] = "idle"
  BY DEF Init, C!Init
<1>3. TypesOK
  <2>1. 0 \in Clock /\ 0 \in Int /\ 1 \in Versions
    BY BoundsAssumption DEF Clock, Versions
  <2>2. <<0>> \in Seq(Clock) /\ Len(<<0>>) = 1
    BY <2>1
  <2> QED
    BY <2>1, <2>2 DEF Init, TypesOK, Current, Stages
<1>4. EntriesOK
  BY <1>2 DEF EntriesOK, C!InMap, AddPoints, C!InAdd
<1>5. ASSUME NEW t \in Threads PROVE HandlerOK(t)
  BY <1>2 DEF Init, HandlerOK, StageOK, FoundOK, AnswersOK, GetPoints, C!InGet
<1> QED
  BY <1>1, <1>3, <1>4, <1>5 DEF IInv

---------------------------------------------------------------------------
(* What follows of the handlers *)

\* The inductive invariant holds in every reachable state (proxy.cpp:48-350,
\* with the cache of cache.cpp that all handlers share).
THEOREM ProxyInvariant == Spec => []IInv
<1>1. Init => IInv
  BY InitIInv
<1>2. IInv /\ [Next]_vars => IInv'
  BY NextIInv
<1> QED
  BY <1>1, <1>2, PTL DEF Spec

\* Handlers are inside the cache only where they call it, and every entry is
\* of a version that was current at the time its Date header gives, whoever
\* has freshened it since (proxy.cpp:309-350).
THEOREM HandlersSafe == Spec => []Inv
<1>1. IInv => Inv
  <2> SUFFICES ASSUME IInv PROVE Inv
    OBVIOUS
  <2>1. TypesOK /\ EntriesOK /\ \A t \in Threads : StageOK(t)
    BY DEF IInv, HandlerOK
  <2>2. TypeOK
    BY <2>1 DEF TypesOK, TypeOK, Answer
  <2>3. CallsNested
    BY <2>1 DEF StageOK, CallsNested
  <2>4. EntriesConfirmed
    BY <2>1 DEF EntriesOK, Confirmed, Good, EntriesConfirmed
  <2> QED
    BY <2>2, <2>3, <2>4 DEF Inv
<1> QED
  BY <1>1, ProxyInvariant, PTL

\* No client gets another resource than it asked for, or a version of it more
\* outdated than the rules of freshness allow, whatever other clients and the
\* origins do in the meantime (proxy.cpp:88-112, 156-197, 309-346, 401-530).
THEOREM RepliesNotStale == Spec => []ReplyNotStale
<1>1. IInv => ReplyNotStale
  <2> SUFFICES ASSUME IInv, NEW t \in Threads, reply[t] # NULL
               PROVE  /\ reply[t].key = req[t].uri
                      /\ CurrentSince(reply[t].key, reply[t].ver, floor[t])
    BY DEF ReplyNotStale
  <2>1. reply[t].key = req[t].uri /\ Good(req[t].uri, reply[t].ver, floor[t])
    BY DEF IInv, HandlerOK, AnswersOK
  <2> QED
    BY <2>1 DEF Good
<1> QED
  BY <1>1, ProxyInvariant, PTL

---------------------------------------------------------------------------
(* What follows of the cache that the handlers share *)

LEMMA CacheRoomStep ==
  ASSUME C!IInv, CP!RoomOK, CacheStep
  PROVE  CP!RoomOK'
<1>1. CP!IInv
  BY SameInvariant
<1>2. CASE C!Next \/ UNCHANGED C!vars
  <2>1. [CP!Next]_(CP!vars)
    BY <1>2, SameNext DEF C!vars, CP!vars
  <2> QED
    BY <1>1, <2>1, CP!RoomStep, CacheAssumptions
<1>3. CASE C!Fail("race")
  BY <1>3 DEF C!Fail, C!contents, CP!RoomOK, CP!Roomy, CP!GetRefsGood
<1> QED
  BY <1>2, <1>3 DEF CacheStep

\* As long as there is room in the cache, or for all the URIs that clients ask
\* for, the node that get_response took from its iterator still exists when it
\* reads the response from it (cache.cpp:58-61, as proxy.cpp:92 calls it).
THEOREM HandlersKeepNodes == Spec => []C!NodesLostOnlyWhenFull
<1>1. Init => CP!RoomOK
  BY CP!RoomInit, CacheAssumptions, SameInit DEF Init
<1>2. IInv /\ CP!RoomOK /\ [Next]_vars => CP!RoomOK'
  BY CacheOf, CacheRoomStep DEF IInv
<1>3. CP!RoomOK => C!NodesLostOnlyWhenFull
  BY SameRoom DEF CP!RoomOK, CP!GetRefsGood, CP!NodesLostOnlyWhenFull
<1> QED
  BY <1>1, <1>2, <1>3, ProxyInvariant, PTL DEF Spec

LEMMA CacheStepRefines ==
  ASSUME C!IInv, C!IInv', CacheStep
  PROVE  CP!Abstract!LRUNext \/ UNCHANGED CP!Abstract!lruVars
<1>1. CP!IInv /\ CP!IInv'
  <2>1. (C!IInv <=> CP!IInv)'
    BY SameInvariant, PTL
  <2> QED
    BY <2>1, SameInvariant
<1>2. CASE C!Next \/ UNCHANGED C!vars
  <2>1. [CP!Next]_(CP!vars)
    BY <1>2, SameNext DEF C!vars, CP!vars
  <2> QED
    BY <1>1, <2>1, CP!StepRefines, CacheAssumptions
<1>3. CASE C!Fail("race")
  <2>1. UNCHANGED <<response_map, list, value, older>> /\ CP!Evicting' = CP!Evicting
    BY <1>3 DEF C!Fail, C!contents, CP!Evicting
  <2> QED
    BY <2>1, CP!StutterStep, CacheAssumptions
<1> QED
  BY <1>2, <1>3 DEF CacheStep

\* To the handlers, with all they do to the responses they find, the cache is
\* an atomic LRU map (cache.hpp:89-111).
THEOREM HandlersSeeLRU == Spec => CP!ImplementsLRU
<1>1. Init => CP!Abstract!LRUInit
  BY CP!InitRefines, CacheAssumptions, SameInit DEF Init
<1>2. IInv /\ IInv' /\ [Next]_vars => [CP!Abstract!LRUNext]_(CP!Abstract!lruVars)
  BY CacheOf, CacheStepRefines DEF IInv
<1> QED
  BY <1>1, <1>2, ProxyInvariant, PTL
  DEF Spec, CP!ImplementsLRU, CP!Abstract!LRUSpec

===========================================================================
