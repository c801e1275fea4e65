------------------------------- MODULE LRU -------------------------------
(***************************************************************************)
(* What the response cache promises (class Cache, cache.hpp/cache.cpp):    *)
(* a map from URIs to responses that holds at most Capacity entries, in    *)
(* which every operation is one atomic step and the entry that makes room  *)
(* for a new one is the least recently used.  No list, no map of nodes, no *)
(* lock: module Cache implements this one.                                 *)
(***************************************************************************)
EXTENDS Naturals, FiniteSets

CONSTANTS
  Keys,       \* request URIs
  Responses,  \* parsed responses
  Capacity,   \* the constructor's argument (main.cpp passes 100)
  NoResponse  \* the value of a key that is not cached

VARIABLES
  entries,  \* the response cached for each key, or NoResponse
  older     \* <<j, k>>: key j was used less recently than key k

lruVars == <<entries, older>>

Cached == {k \in Keys : entries[k] # NoResponse}

\* The order in which key k is the most recently used of the keys cached.
Touch(cached, k) ==
  {p \in older : k \notin {p[1], p[2]}} \cup {<<j, k>> : j \in cached \ {k}}

LRUInit ==
  /\ entries = [k \in Keys |-> NoResponse]
  /\ older = {}

\* A lookup that hits makes its key the most recently used.
Use(k) ==
  /\ k \in Cached
  /\ older' = Touch(Cached, k)
  /\ UNCHANGED entries

\* The headers of a cached response are renewed in place: no use is recorded.
Revise(k, r) ==
  /\ k \in Cached
  /\ entries' = [entries EXCEPT ![k] = r]
  /\ UNCHANGED older

\* A response is stored and no entry has to go.
Put(k, r) ==
  /\ k \in Cached \/ Cardinality(Cached) < Capacity
  /\ entries' = [entries EXCEPT ![k] = r]
  /\ older' = Touch(Cached, k)

\* A response is stored in a full cache: the victim is the entry that every
\* other entry is more recent than.
PutEvict(k, r, victim) ==
  LET held == Cached \cup {k}
  IN  /\ k \notin Cached
      /\ Cardinality(Cached) = Capacity
      /\ victim \in held
      /\ \A j \in held \ {victim} : <<victim, j>> \in Touch(Cached, k)
      /\ entries' = [[entries EXCEPT ![k] = r] EXCEPT ![victim] = NoResponse]
      /\ older' = {p \in Touch(Cached, k) : victim \notin {p[1], p[2]}}

LRUNext ==
  \E k \in Keys :
    \/ Use(k)
    \/ \E r \in Responses :
         \/ Revise(k, r)
         \/ Put(k, r)
         \/ \E victim \in Keys : PutEvict(k, r, victim)

LRUSpec == LRUInit /\ [][LRUNext]_lruVars
===========================================================================
