------------------------------ MODULE Cache ------------------------------
(***************************************************************************)
(* The response cache shared by all connection threads (cache.hpp and      *)
(* cache.cpp): an unordered_map from URIs to heap-allocated Doubly_nodes,  *)
(* a doubly linked list of the nodes in order of use between two           *)
(* sentinels, and a mutex.                                                 *)
(*                                                                         *)
(* Threads call get_response and add_response.  The steps of a call that   *)
(* other threads can observe are separate actions: the map is searched     *)
(* before the mutex is taken, and the pointer to the response is read from *)
(* the node after it is released.  A caller keeps that raw pointer as long *)
(* as it likes, and may write the response through it (freshen_headers).   *)
(*                                                                         *)
(* A pointer, or iterator, to a thing that has been deleted is Dangling.   *)
(* So are all iterators into the map when it has outgrown its buckets and  *)
(* rehashes: the language says so, although libstdc++'s go on pointing to  *)
(* their entries.  Using one, or searching the map while another thread    *)
(* changes it, is undefined behaviour: "fault" records which, and nothing  *)
(* is said of what the program does from then on.                          *)
(***************************************************************************)
EXTENDS Naturals, FiniteSets

CONSTANTS
  Threads,    \* connection threads
  Keys,       \* request URIs
  Responses,  \* parsed responses
  Nodes,      \* addresses at which a Doubly_node can be allocated
  head, tail, \* the two sentinel nodes
  Capacity,   \* the constructor's argument (main.cpp passes 100)
  AllocFails, \* whether operator new may throw
  NULL,       \* no node, no response, no thread
  Dangling    \* a pointer to something that has been deleted

ASSUME CapacityAssumption == Capacity \in Nat
ASSUME AllocFailsAssumption == AllocFails \in BOOLEAN
ASSUME DistinctCells ==
  /\ head # tail
  /\ {head, tail} \cap Nodes = {}
ASSUME DistinctNull ==
  /\ NULL # Dangling
  /\ {NULL, Dangling} \cap (Nodes \cup {head, tail}) = {}
  /\ NULL \notin Responses \cup Threads

VARIABLES
  response_map, \* the node of each key, NULL for a key not in the map
  buckets,      \* the entries the map can hold before it rehashes
  size,         \* the cache's own count of its entries
  list,         \* the prev and next fields of all nodes
  live,         \* the nodes allocated and not deleted
  key, value,   \* the key and value fields of the nodes
  mtx,          \* the thread that holds the mutex, or NULL
  pc,           \* where each thread is in its call
  uri, arg,     \* the arguments of each thread's add_response
  ref,          \* the iterator, then node pointer, then response pointer of
                \* each thread's get_response
  fault,        \* the first undefined behaviour met
  older         \* history: <<c, d>> if cell c was used less recently than d

vars == <<response_map, buckets, size, list, live, key, value, mtx, pc, uri,
          arg, ref, fault, older>>

contents == <<response_map, buckets, size, list, live, key, value, older>>

Cells == Nodes \cup {head, tail}

\* The points of a call inside the mutex, and all points.
InGet == {"get_move", "get_unlock"}
InAdd == {"add_body", "add_evict", "add_unlock"}
Points == InGet \cup InAdd \cup
          {"idle", "get_lock", "get_return", "holding", "add_lock", "threw"}

Faults == {"none", "race", "iterator", "node", "response"}

InMap == {k \in Keys : response_map[k] # NULL}
Listed == {response_map[k] : k \in InMap}

---------------------------------------------------------------------------
\* The list operations, on a record l of the two link fields.  A definition
\* whose name starts with "Bug" is a plausible mistake in the definition after
\* it, and is used by no specification.
BugRemoveNode(l, n) == [l EXCEPT !.next[l.prev[n]] = l.next[n]]

removeNode(l, n) ==
  [next |-> [l.next EXCEPT ![l.prev[n]] = l.next[n]],
   prev |-> [l.prev EXCEPT ![l.next[n]] = l.prev[n]]]

add_to_head(l, n) ==
  [next |-> [l.next EXCEPT ![n] = l.next[head], ![head] = n],
   prev |-> [l.prev EXCEPT ![n] = head, ![l.next[head]] = n]]

BugMoveToHead(l, n) == l

move_to_head(l, n) == add_to_head(removeNode(l, n), n)

\* The history variable under the same operations: an order of the nodes in
\* S and the sentinels.
Drop(rel, n) == {p \in rel : n \notin {p[1], p[2]}}

Newest(rel, S, n) ==
  rel \cup {<<c, n>> : c \in S \cup {tail}} \cup {<<n, head>>}

Moved(n) == Newest(Drop(older, n), Listed \ {n}, n)

\* References other threads hold become invalid when what they point to is
\* deleted: all of them when a node is, the pointers to its response when its
\* value is replaced.
NodeDeleted(n) ==
  ref' = [t \in Threads |-> IF ref[t] = n THEN Dangling ELSE ref[t]]

ValueDeleted(n) ==
  ref' = [t \in Threads |->
            IF ref[t] = n /\ pc[t] = "holding" THEN Dangling ELSE ref[t]]

\* An insertion that finds the buckets full: the map gets more of them (how
\* many is the library's choice; Capacity + 1 stands for all that are enough),
\* and every iterator becomes invalid.  Node pointers do not.
Rehash ==
  /\ buckets' \in size + 1 .. Capacity + 1
  /\ ref' = [t \in Threads |->
               IF pc[t] \in {"get_lock", "get_move"} THEN Dangling ELSE ref[t]]

Goto(t, from, to) == pc[t] = from /\ pc' = [pc EXCEPT ![t] = to]

Fail(kind) ==
  /\ fault' = kind
  /\ UNCHANGED <<contents, mtx, pc, uri, arg, ref>>

---------------------------------------------------------------------------
\* The cache as main creates it.
Init ==
  /\ response_map = [k \in Keys |-> NULL]
  /\ buckets = 0
  /\ size = 0
  /\ list = [next |-> [c \in Cells |-> tail], prev |-> [c \in Cells |-> head]]
  /\ live = {}
  /\ key = [n \in Nodes |-> NULL]
  /\ value = [n \in Nodes |-> NULL]
  /\ mtx = NULL
  /\ pc = [t \in Threads |-> "idle"]
  /\ uri = [t \in Threads |-> NULL]
  /\ arg = [t \in Threads |-> NULL]
  /\ ref = [t \in Threads |-> NULL]
  /\ fault = "none"
  /\ older = {<<tail, head>>}

---------------------------------------------------------------------------
(* get_response *)

\* The search finds no entry: the caller gets NULL.
GetMiss(t, k) ==
  /\ pc[t] = "idle"
  /\ response_map[k] = NULL
  /\ UNCHANGED vars

\* The search finds an entry.  The mutex is not held.
GetFind(t, k) ==
  /\ response_map[k] # NULL
  /\ Goto(t, "idle", "get_lock")
  /\ ref' = [ref EXCEPT ![t] = response_map[k]]
  /\ UNCHANGED <<contents, mtx, uri, arg, fault>>

\* Another thread is about to insert an entry into the map or erase one.
ChangesMap(u) ==
  \/ pc[u] = "add_body" /\ response_map[uri[u]] = NULL
  \/ pc[u] = "add_evict"

\* The search overlaps the change: besides the two outcomes above (as if
\* it came before or after the change), anything can happen.
GetRace(t) ==
  /\ pc[t] = "idle"
  /\ \E u \in Threads \ {t} : ChangesMap(u)
  /\ Fail("race")

GetLock(t) ==
  /\ mtx = NULL
  /\ Goto(t, "get_lock", "get_move")
  /\ mtx' = t
  /\ UNCHANGED <<contents, uri, arg, ref, fault>>

\* it->second is read, and its node moved to the front of the list.
GetMove(t) ==
  /\ ref[t] # Dangling
  /\ Goto(t, "get_move", "get_unlock")
  /\ list' = move_to_head(list, ref[t])
  /\ older' = Moved(ref[t])
  /\ UNCHANGED <<response_map, buckets, size, live, key, value, mtx, uri, arg,
                 ref, fault>>

GetMoveErased(t) ==
  /\ pc[t] = "get_move"
  /\ ref[t] = Dangling
  /\ Fail("iterator")

GetUnlock(t) ==
  /\ Goto(t, "get_unlock", "get_return")
  /\ mtx' = NULL
  /\ UNCHANGED <<contents, uri, arg, ref, fault>>

\* node->value.get() is read after the mutex is released; from here on ref
\* points to the response that the node owns.
GetReturn(t) ==
  /\ ref[t] # Dangling
  /\ Goto(t, "get_return", "holding")
  /\ UNCHANGED <<contents, mtx, uri, arg, ref, fault>>

GetReturnDeleted(t) ==
  /\ pc[t] = "get_return"
  /\ ref[t] = Dangling
  /\ Fail("node")

---------------------------------------------------------------------------
(* The caller, while it has the pointer get_response returned *)

\* Reads of the response: nothing changes unless the response is gone.
UseResponse(t) ==
  /\ pc[t] = "holding"
  /\ ref[t] # Dangling
  /\ UNCHANGED vars

UseDeleted(t) ==
  /\ pc[t] = "holding"
  /\ ref[t] = Dangling
  /\ Fail("response")

\* freshen_headers writes the response in place.  The mutex is not held.
Freshen(t, r) ==
  /\ pc[t] = "holding"
  /\ ref[t] # Dangling
  /\ value' = [value EXCEPT ![ref[t]] = r]
  /\ UNCHANGED <<response_map, buckets, size, list, live, key, mtx, pc, uri,
                 arg, ref, fault, older>>

\* The handler returns.
Release(t) ==
  /\ Goto(t, "holding", "idle")
  /\ ref' = [ref EXCEPT ![t] = NULL]
  /\ UNCHANGED <<contents, mtx, uri, arg, fault>>

---------------------------------------------------------------------------
(* add_response *)

\* The call: after a miss, or in place of a response found out of date.  (A
\* handler adds a response for the URI it searched for; here any key, as a
\* thread stands for all the handlers that run one after the other.)
AddCall(t, k, r) ==
  /\ pc[t] \in {"idle", "holding"}
  /\ pc' = [pc EXCEPT ![t] = "add_lock"]
  /\ uri' = [uri EXCEPT ![t] = k]
  /\ arg' = [arg EXCEPT ![t] = r]
  /\ ref' = [ref EXCEPT ![t] = NULL]
  /\ UNCHANGED <<contents, mtx, fault>>

AddLock(t) ==
  /\ mtx = NULL
  /\ Goto(t, "add_lock", "add_body")
  /\ mtx' = t
  /\ UNCHANGED <<contents, uri, arg, ref, fault>>

BugAddInsert(t) ==
  /\ Goto(t, "add_body", IF size + 1 >= Capacity THEN "add_evict" ELSE "add_unlock")
  /\ response_map[uri[t]] = NULL
  /\ \E n \in Nodes \ live :
       /\ live' = live \cup {n}
       /\ key' = [key EXCEPT ![n] = uri[t]]
       /\ value' = [value EXCEPT ![n] = arg[t]]
       /\ response_map' = [response_map EXCEPT ![uri[t]] = n]
       /\ list' = add_to_head(list, n)
       /\ older' = Newest(older, Listed, n)
  /\ size' = size + 1
  /\ IF size + 1 > buckets THEN Rehash ELSE UNCHANGED <<buckets, ref>>
  /\ UNCHANGED <<mtx, uri, arg, fault>>

\* A new key: a node is allocated, entered in the map and put at the front.
AddInsert(t) ==
  /\ Goto(t, "add_body", IF size + 1 > Capacity THEN "add_evict" ELSE "add_unlock")
  /\ response_map[uri[t]] = NULL
  /\ \E n \in Nodes \ live :
       /\ live' = live \cup {n}
       /\ key' = [key EXCEPT ![n] = uri[t]]
       /\ value' = [value EXCEPT ![n] = arg[t]]
       /\ response_map' = [response_map EXCEPT ![uri[t]] = n]
       /\ list' = add_to_head(list, n)
       /\ older' = Newest(older, Listed, n)
  /\ size' = size + 1
  /\ IF size + 1 > buckets THEN Rehash ELSE UNCHANGED <<buckets, ref>>
  /\ UNCHANGED <<mtx, uri, arg, fault>>

\* The cache is over its capacity: remove_tail, erase, delete.
AddEvict(t) ==
  LET n == list.prev[tail]
  IN  /\ Goto(t, "add_evict", "add_unlock")
      /\ list' = removeNode(list, n)
      /\ older' = Drop(older, n)
      /\ response_map' = [response_map EXCEPT ![key[n]] = NULL]
      /\ live' = live \ {n}
      /\ key' = [key EXCEPT ![n] = NULL]
      /\ value' = [value EXCEPT ![n] = NULL]
      /\ size' = size - 1
      /\ NodeDeleted(n)
      /\ UNCHANGED <<buckets, mtx, uri, arg, fault>>

\* Replacing the node where its response is to be replaced.
BugAddUpdate(t) ==
  LET n == response_map[uri[t]]
  IN  /\ Goto(t, "add_body", "add_unlock")
      /\ n # NULL
      /\ value' = [value EXCEPT ![n] = arg[t]]
      /\ list' = move_to_head(list, n)
      /\ older' = Moved(n)
      /\ NodeDeleted(n)
      /\ UNCHANGED <<response_map, buckets, size, live, key, mtx, uri, arg, fault>>

\* The key is in the map: its node's response is replaced, and so deleted.
AddUpdate(t) ==
  LET n == response_map[uri[t]]
  IN  /\ Goto(t, "add_body", "add_unlock")
      /\ n # NULL
      /\ value' = [value EXCEPT ![n] = arg[t]]
      /\ list' = move_to_head(list, n)
      /\ older' = Moved(n)
      /\ ValueDeleted(n)
      /\ UNCHANGED <<response_map, buckets, size, live, key, mtx, uri, arg, fault>>

BugAddUnlock(t) ==
  /\ Goto(t, "add_unlock", "idle")
  /\ uri' = [uri EXCEPT ![t] = NULL]
  /\ arg' = [arg EXCEPT ![t] = NULL]
  /\ UNCHANGED <<contents, mtx, ref, fault>>

AddUnlock(t) ==
  /\ Goto(t, "add_unlock", "idle")
  /\ mtx' = NULL
  /\ uri' = [uri EXCEPT ![t] = NULL]
  /\ arg' = [arg EXCEPT ![t] = NULL]
  /\ UNCHANGED <<contents, ref, fault>>

\* new throws, for the node or for the map's entry (the node is then
\* leaked).  The exception leaves add_response between lock and unlock.
AddThrow(t) ==
  /\ AllocFails
  /\ Goto(t, "add_body", "threw")
  /\ response_map[uri[t]] = NULL
  /\ \/ UNCHANGED live
     \/ \E n \in Nodes \ live : live' = live \cup {n}
  /\ UNCHANGED <<response_map, buckets, size, list, key, value, mtx, uri, arg,
                 ref, fault, older>>

---------------------------------------------------------------------------
GetStep(t) ==
  \/ GetLock(t) \/ GetMove(t) \/ GetMoveErased(t) \/ GetUnlock(t)
  \/ GetReturn(t) \/ GetReturnDeleted(t)

AddStep(t) ==
  \/ AddLock(t) \/ AddInsert(t) \/ AddEvict(t) \/ AddUpdate(t)
  \/ AddUnlock(t) \/ AddThrow(t)

Call(t) ==
  \/ GetRace(t)
  \/ \E k \in Keys :
       \/ GetMiss(t, k)
       \/ GetFind(t, k)
       \/ \E r \in Responses : AddCall(t, k, r)

Caller(t) ==
  \/ UseResponse(t) \/ UseDeleted(t) \/ Release(t)
  \/ \E r \in Responses : Freshen(t, r)

\* After undefined behaviour the model says nothing more.
Undefined == fault # "none" /\ UNCHANGED vars

Next ==
  \/ fault = "none" /\ \E t \in Threads :
       GetStep(t) \/ AddStep(t) \/ Call(t) \/ Caller(t)
  \/ Undefined

Spec == Init /\ [][Next]_vars
---------------------------------------------------------------------------
(* Properties *)

TypeOK ==
  /\ response_map \in [Keys -> Nodes \cup {NULL}]
  /\ buckets \in Nat
  /\ size \in Nat
  /\ list \in [next : [Cells -> Cells], prev : [Cells -> Cells]]
  /\ live \subseteq Nodes
  /\ key \in [Nodes -> Keys \cup {NULL}]
  /\ value \in [Nodes -> Responses \cup {NULL}]
  /\ mtx \in Threads \cup {NULL}
  /\ pc \in [Threads -> Points]
  /\ uri \in [Threads -> Keys \cup {NULL}]
  /\ arg \in [Threads -> Responses \cup {NULL}]
  /\ ref \in [Threads -> Nodes \cup {NULL, Dangling}]
  /\ fault \in Faults

\* The mutex is held by the one thread that is between lock and unlock, or
\* was when new threw.
MutexOK ==
  /\ \A t \in Threads : pc[t] \in InGet \cup InAdd \cup {"threw"} <=> mtx = t

\* The entries of the map are allocated nodes that know their key; without
\* failing allocations no other node is allocated (nothing leaks).
MapOK ==
  /\ \A k \in InMap : /\ response_map[k] \in live
                      /\ key[response_map[k]] = k
                      /\ value[response_map[k]] \in Responses
  /\ ~AllocFails => live = Listed

\* "rel" orders the nodes of S and the sentinels, oldest first.
IsOrder(rel, S) ==
  LET C == S \cup {head, tail}
  IN  /\ rel \subseteq C \X C
      /\ \A c, d \in C : c # d <=> (<<c, d>> \in rel \/ <<d, c>> \in rel)
      /\ \A c, d, e \in C :
           <<c, d>> \in rel /\ <<d, e>> \in rel => <<c, e>> \in rel
      /\ \A c \in C : /\ c # tail => <<tail, c>> \in rel
                      /\ c # head => <<c, head>> \in rel

\* The links of l are those of a doubly linked list from head to tail of
\* exactly the nodes of S, in the order "rel", newest first: the next cell is
\* the newest of the older ones.
WellLinked(l, S, rel) ==
  /\ \A c \in S \cup {head} :
       /\ l.next[c] \in S \cup {tail}
       /\ l.prev[l.next[c]] = c
       /\ <<l.next[c], c>> \in rel
       /\ \A d \in S \cup {head, tail} :
            \/ d \in {c, l.next[c]}
            \/ <<d, l.next[c]>> \in rel
            \/ <<c, d>> \in rel
  /\ \A c \in S \cup {tail} :
       /\ l.prev[c] \in S \cup {head}
       /\ l.next[l.prev[c]] = c

ListOK == IsOrder(older, Listed) /\ WellLinked(list, Listed, older)

Evicting == \E t \in Threads : pc[t] = "add_evict"

\* size counts the entries, which have room in the buckets; only inside
\* add_response are there more than the capacity, and then one more.
SizeOK ==
  /\ IsFiniteSet(InMap)
  /\ size = Cardinality(InMap)
  /\ size <= buckets
  /\ IF Evicting THEN size = Capacity + 1 ELSE size <= Capacity

\* References the code has not lost point to nodes that are on the list.
RefOK ==
  \A t \in Threads :
    IF pc[t] \in InGet \cup {"get_lock", "get_return", "holding"}
    THEN ref[t] \in Listed \cup {Dangling}
    ELSE ref[t] = NULL

ArgOK ==
  \A t \in Threads :
    pc[t] \in InAdd \cup {"add_lock", "threw"} =>
      uri[t] \in Keys /\ arg[t] \in Responses

(***************************************************************************)
(* The inductive invariant: in every state, also between the two steps of  *)
(* an insertion that overflows and after an allocation failed, the list,   *)
(* the map and the counter agree and every reference not invalidated by a  *)
(* deletion points into them (cache.cpp, all operations).                  *)
(***************************************************************************)
IInv ==
  TypeOK /\ MutexOK /\ MapOK /\ ListOK /\ SizeOK /\ RefOK /\ ArgOK

(***************************************************************************)
(* As long as there is room in the cache, or for all URIs in use, no node  *)
(* is deleted that a thread inside get_response has a pointer to           *)
(* (cache.cpp:58-61): the value it reads after the mutex is released is    *)
(* there.  Of the iterator it read the node from this cannot be said, for  *)
(* the map rehashes just while it grows.                                   *)
(***************************************************************************)
Roomy ==
  \/ size < Capacity
  \/ IsFiniteSet(Keys) /\ Cardinality(Keys) <= Capacity

NodesLostOnlyWhenFull ==
  Roomy =>
    /\ fault # "node"
    /\ \A t \in Threads : pc[t] \in {"get_unlock", "get_return"} => ref[t] # Dangling

(***************************************************************************)
(* What can happen to the iterator that get_response found without the     *)
(* mutex, before it is used with it (cache.cpp:52-58): the entry it points *)
(* to is evicted, as the least recently used of a cache that is full, or   *)
(* the map outgrows its buckets.  Nothing else harms it: no update or      *)
(* eviction of another entry, and no insertion into a map that has grown   *)
(* before.                                                                 *)
(***************************************************************************)
IteratorsSurvive ==
  [][\A t \in Threads :
       /\ pc[t] \in {"get_lock", "get_move"}
       /\ ref[t] # Dangling /\ ref'[t] = Dangling
       => \/ size > Capacity /\ ref[t] = list.prev[tail]
          \/ size' > buckets]_vars

(***************************************************************************)
(* The cache implements the atomic LRU map.  Between the insertion that    *)
(* overflows the cache and the eviction, the entry about to go is already  *)
(* gone for the abstract map.                                              *)
(***************************************************************************)
Visible(k) ==
  /\ response_map[k] # NULL
  /\ ~(Evicting /\ response_map[k] = list.prev[tail])

VisibleEntries ==
  [k \in Keys |-> IF Visible(k) THEN value[response_map[k]] ELSE NULL]

VisibleOrder ==
  {p \in Keys \X Keys : /\ Visible(p[1]) /\ Visible(p[2])
                       /\ <<response_map[p[1]], response_map[p[2]]>> \in older}

Abstract == INSTANCE LRU WITH
  NoResponse <- NULL, entries <- VisibleEntries, older <- VisibleOrder

ImplementsLRU == Abstract!LRUSpec
===========================================================================
