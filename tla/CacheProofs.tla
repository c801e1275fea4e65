--------------------------- MODULE CacheProofs ---------------------------
(***************************************************************************)
(* Proofs about module Cache, for every set of threads, URIs, responses    *)
(* and addresses, finite or not, and every capacity.                       *)
(***************************************************************************)
EXTENDS Cache, FiniteSetTheorems, TLAPS

Links == [next : [Cells -> Cells], prev : [Cells -> Cells]]

---------------------------------------------------------------------------
(* The list operations *)

\* removeNode takes one node out of a well-formed list and leaves the others
\* in their order (cache.cpp:15-18).
LEMMA RemoveNodeOK ==
  ASSUME NEW S \in SUBSET Nodes, NEW rel, NEW l \in Links, NEW n \in S,
         IsOrder(rel, S), WellLinked(l, S, rel)
  PROVE  /\ removeNode(l, n) \in Links
         /\ IsOrder(Drop(rel, n), S \ {n})
         /\ WellLinked(removeNode(l, n), S \ {n}, Drop(rel, n))
<1> DEFINE p == l.prev[n]
           q == l.next[n]
           m == removeNode(l, n)
<1>1. /\ p \in S \cup {head} /\ q \in S \cup {tail}
      /\ l.next[p] = n /\ l.prev[q] = n
      /\ <<q, n>> \in rel /\ <<n, p>> \in rel
  BY DEF WellLinked
<1>2. p # n /\ q # n /\ p \in Cells /\ q \in Cells /\ n \in Cells
  BY <1>1, DistinctCells DEF IsOrder, Cells
<1>3. m \in Links
  BY <1>2 DEF removeNode, Links
<1>4. IsOrder(Drop(rel, n), S \ {n})
  BY DistinctCells DEF IsOrder, Drop
<1>5. /\ m.next = [l.next EXCEPT ![p] = q]
      /\ m.prev = [l.prev EXCEPT ![q] = p]
  BY DEF removeNode
<1>6. \A c \in (S \ {n}) \cup {head} :
         /\ m.next[c] \in (S \ {n}) \cup {tail}
         /\ m.prev[m.next[c]] = c
         /\ <<m.next[c], c>> \in Drop(rel, n)
  <2> SUFFICES ASSUME NEW c \in (S \ {n}) \cup {head}
               PROVE  /\ m.next[c] \in (S \ {n}) \cup {tail}
                      /\ m.prev[m.next[c]] = c
                      /\ <<m.next[c], c>> \in Drop(rel, n)
    OBVIOUS
  <2>0. c \in Cells /\ l.next[c] \in Cells
    BY DEF Cells, Links
  <2>1. CASE c = p
    <3>1. m.next[c] = q /\ m.prev[q] = p
      BY <1>2, <1>5, <2>1 DEF Links
    <3>2. <<q, p>> \in rel
      BY <1>1 DEF IsOrder
    <3> QED
      BY <1>1, <1>2, <2>1, <3>1, <3>2 DEF Drop
  <2>2. CASE c # p
    <3>1. m.next[c] = l.next[c]
      BY <1>5, <2>0, <2>2 DEF Links
    <3>2. /\ l.next[c] \in S \cup {tail} /\ l.prev[l.next[c]] = c
          /\ <<l.next[c], c>> \in rel
      BY DEF WellLinked
    <3>3. l.next[c] # n /\ l.next[c] # q /\ c # n
      BY <1>1, <2>2, <3>2, DistinctCells
    <3>4. m.prev[l.next[c]] = c
      BY <1>5, <2>0, <3>2, <3>3 DEF Links
    <3> QED
      BY <3>1, <3>2, <3>3, <3>4 DEF Drop
  <2> QED
    BY <2>1, <2>2
<1>7. \A c \in (S \ {n}) \cup {head}, d \in (S \ {n}) \cup {head, tail} :
         \/ d \in {c, m.next[c]}
         \/ <<d, m.next[c]>> \in Drop(rel, n)
         \/ <<c, d>> \in Drop(rel, n)
  <2> SUFFICES ASSUME NEW c \in (S \ {n}) \cup {head},
                      NEW d \in (S \ {n}) \cup {head, tail}
               PROVE  \/ d \in {c, m.next[c]}
                      \/ <<d, m.next[c]>> \in Drop(rel, n)
                      \/ <<c, d>> \in Drop(rel, n)
    OBVIOUS
  <2>0. c \in Cells /\ c # n /\ d # n /\ m.next[c] # n
    BY <1>6, DistinctCells DEF Cells
  <2>1. \/ d \in {c, l.next[c]} \/ <<d, l.next[c]>> \in rel
        \/ <<c, d>> \in rel
    BY DEF WellLinked
  <2>2. CASE c = p
    <3>1. m.next[c] = q /\ l.next[c] = n
      BY <1>1, <1>5, <2>0, <2>2 DEF Links
    <3>2. d = q \/ <<d, q>> \in rel \/ <<n, d>> \in rel
      BY <2>0 DEF WellLinked
    <3>3. ~(<<n, d>> \in rel /\ <<d, n>> \in rel)
      BY DEF IsOrder
    <3> QED
      BY <2>0, <2>1, <3>1, <3>2, <3>3 DEF Drop
  <2>3. CASE c # p
    <3>1. m.next[c] = l.next[c]
      BY <1>5, <2>0, <2>3 DEF Links
    <3> QED
      BY <2>0, <2>1, <3>1 DEF Drop
  <2> QED
    BY <2>2, <2>3
<1>8. \A c \in (S \ {n}) \cup {tail} :
         /\ m.prev[c] \in (S \ {n}) \cup {head}
         /\ m.next[m.prev[c]] = c
  <2> SUFFICES ASSUME NEW c \in (S \ {n}) \cup {tail}
               PROVE  /\ m.prev[c] \in (S \ {n}) \cup {head}
                      /\ m.next[m.prev[c]] = c
    OBVIOUS
  <2>0. c \in Cells /\ l.prev[c] \in Cells
    BY DEF Cells, Links
  <2>1. CASE c = q
    BY <1>1, <1>2, <1>5, <2>1 DEF Links
  <2>2. CASE c # q
    <3>1. m.prev[c] = l.prev[c]
      BY <1>5, <2>0, <2>2 DEF Links
    <3>2. l.prev[c] \in S \cup {head} /\ l.next[l.prev[c]] = c
      BY DEF WellLinked
    <3>3. l.prev[c] # n /\ l.prev[c] # p
      BY <1>1, <2>2, <3>2, DistinctCells
    <3> QED
      BY <1>5, <2>0, <3>1, <3>2, <3>3 DEF Links
  <2> QED
    BY <2>1, <2>2
<1> QED
  BY <1>3, <1>4, <1>6, <1>7, <1>8 DEF WellLinked

\* add_to_head puts one more node in front of a well-formed list
\* (cache.cpp:3-8).
LEMMA AddToHeadOK ==
  ASSUME NEW S \in SUBSET Nodes, NEW rel, NEW l \in Links, NEW n \in Nodes \ S,
         IsOrder(rel, S), WellLinked(l, S, rel)
  PROVE  /\ add_to_head(l, n) \in Links
         /\ IsOrder(Newest(rel, S, n), S \cup {n})
         /\ WellLinked(add_to_head(l, n), S \cup {n}, Newest(rel, S, n))
<1> DEFINE q == l.next[head]
           m == add_to_head(l, n)
           new == Newest(rel, S, n)
<1>1. /\ q \in S \cup {tail} /\ l.prev[q] = head /\ <<q, head>> \in rel
      /\ n \in Cells /\ q \in Cells /\ head \in Cells
      /\ n # head /\ n # tail /\ q # n /\ q # head
  BY DistinctCells DEF WellLinked, Cells
<1>2. m \in Links
  BY <1>1 DEF add_to_head, Links
<1>3. IsOrder(new, S \cup {n})
  <2> DEFINE C == S \cup {head, tail}
             D == (S \cup {n}) \cup {head, tail}
  <2>1. \A c, d : <<c, d>> \in new <=>
          \/ <<c, d>> \in rel
          \/ c \in S \cup {tail} /\ d = n
          \/ c = n /\ d = head
    BY DEF Newest
  <2>2. new \subseteq D \X D
    BY DEF IsOrder, Newest
  <2>3. \A c, d \in C : /\ c # d <=> (<<c, d>> \in rel \/ <<d, c>> \in rel)
                        /\ c # n /\ d # n
    BY DistinctCells DEF IsOrder
  <2>4. \A c, d : <<c, d>> \in rel => c \in C /\ d \in C
    BY DEF IsOrder
  <2>5. \A c, d \in D : c # d <=> (<<c, d>> \in new \/ <<d, c>> \in new)
    BY <2>1, <2>3, <2>4, DistinctCells
  <2>6. \A c \in S \cup {tail} : <<c, head>> \in rel
    BY DistinctCells DEF IsOrder
  <2>7. \A c : <<head, c>> \notin rel
    BY <2>4, <2>6, DistinctCells DEF IsOrder
  <2>8. \A c, d, e \in D : <<c, d>> \in new /\ <<d, e>> \in new => <<c, e>> \in new
    <3> SUFFICES ASSUME NEW c \in D, NEW d \in D, NEW e \in D,
                        <<c, d>> \in new, <<d, e>> \in new
                 PROVE  <<c, e>> \in new
      OBVIOUS
    <3>1. CASE <<c, d>> \in rel /\ <<d, e>> \in rel
      BY <3>1, <2>1, <2>4 DEF IsOrder
    <3>2. CASE <<c, d>> \in rel /\ d \in S \cup {tail} /\ e = n
      BY <3>2, <2>1, <2>4, <2>7
    <3>3. CASE c \in S \cup {tail} /\ d = n /\ e = head
      BY <3>3, <2>1, <2>6
    <3> QED
      BY <3>1, <3>2, <3>3, <2>1, <2>3, <2>4, <2>7, DistinctCells
  <2>9. \A c \in D : /\ c # tail => <<tail, c>> \in new
                     /\ c # head => <<c, head>> \in new
    BY <2>1, <2>6, DistinctCells DEF IsOrder
  <2> HIDE DEF new
  <2> QED
    BY <2>2, <2>5, <2>8, <2>9 DEF IsOrder
<1>4. /\ m.next[n] = q /\ m.next[head] = n
      /\ \A c \in Cells \ {n, head} : m.next[c] = l.next[c]
      /\ m.prev[n] = head /\ m.prev[q] = n
      /\ \A c \in Cells \ {n, q} : m.prev[c] = l.prev[c]
  BY <1>1 DEF add_to_head, Links
<1>5. \A c, d : <<c, d>> \in rel => <<c, d>> \in new
  BY DEF Newest
<1>6. \A c \in S \cup {n, head} :
         /\ m.next[c] \in S \cup {n, tail}
         /\ m.prev[m.next[c]] = c
         /\ <<m.next[c], c>> \in new
  <2> SUFFICES ASSUME NEW c \in S \cup {n, head}
               PROVE  /\ m.next[c] \in S \cup {n, tail}
                      /\ m.prev[m.next[c]] = c
                      /\ <<m.next[c], c>> \in new
    OBVIOUS
  <2>1. CASE c \in {n, head}
    BY <1>1, <1>4, <2>1 DEF Newest
  <2>2. CASE c \in S
    <3>1. /\ l.next[c] \in S \cup {tail} /\ l.prev[l.next[c]] = c
          /\ <<l.next[c], c>> \in rel
      BY <2>2 DEF WellLinked
    <3>2. l.next[c] # n /\ l.next[c] # q /\ l.next[c] \in Cells
      BY <1>1, <2>2, <3>1, DistinctCells DEF Cells
    <3>3. c \in Cells \ {n, head}
      BY <2>2, DistinctCells DEF Cells
    <3> QED
      BY <1>4, <1>5, <3>1, <3>2, <3>3
  <2> QED
    BY <2>1, <2>2
<1>7. \A c \in S \cup {n, head}, d \in S \cup {n, head, tail} :
         \/ d \in {c, m.next[c]}
         \/ <<d, m.next[c]>> \in new
         \/ <<c, d>> \in new
  <2> SUFFICES ASSUME NEW c \in S \cup {n, head},
                      NEW d \in S \cup {n, head, tail}
               PROVE  \/ d \in {c, m.next[c]}
                      \/ <<d, m.next[c]>> \in new
                      \/ <<c, d>> \in new
    OBVIOUS
  <2>1. CASE c = head
    BY <1>4, <2>1 DEF Newest
  <2>2. CASE c = n
    <3>1. d \in S \cup {head, tail} =>
            d \in {head, q} \/ <<d, q>> \in rel \/ <<head, d>> \in rel
      BY DEF WellLinked
    <3>2. d \in S \cup {tail} => <<d, head>> \in rel
      BY DistinctCells DEF IsOrder
    <3>3. d \in S \cup {tail} => <<head, d>> \notin rel
      BY <3>2 DEF IsOrder
    <3>4. <<head, head>> \notin rel /\ <<n, head>> \in new
      BY DEF IsOrder, Newest
    <3> QED
      BY <1>4, <1>5, <2>2, <3>1, <3>3, <3>4
  <2>3. CASE c \in S
    <3>1. m.next[c] = l.next[c]
      BY <1>4, <2>3, DistinctCells DEF Cells
    <3>2. CASE d = n
      BY <2>3, <3>2 DEF Newest
    <3>3. CASE d # n
      BY <1>5, <2>3, <3>1, <3>3 DEF WellLinked
    <3> QED
      BY <3>2, <3>3
  <2> QED
    BY <2>1, <2>2, <2>3
<1>8. \A c \in S \cup {n, tail} :
         /\ m.prev[c] \in S \cup {n, head}
         /\ m.next[m.prev[c]] = c
  <2> SUFFICES ASSUME NEW c \in S \cup {n, tail}
               PROVE  /\ m.prev[c] \in S \cup {n, head}
                      /\ m.next[m.prev[c]] = c
    OBVIOUS
  <2>1. CASE c \in {n, q}
    BY <1>1, <1>4, <2>1
  <2>2. CASE c \notin {n, q}
    <3>1. l.prev[c] \in S \cup {head} /\ l.next[l.prev[c]] = c /\ c \in Cells
      BY <2>2 DEF WellLinked, Cells
    <3>2. l.prev[c] # n /\ l.prev[c] # head /\ l.prev[c] \in Cells
      BY <1>1, <2>2, <3>1 DEF Cells
    <3> QED
      BY <1>4, <2>2, <3>1, <3>2
  <2> QED
    BY <2>1, <2>2
<1> QED
  BY <1>2, <1>3, <1>6, <1>7, <1>8 DEF WellLinked

\* move_to_head keeps the nodes and makes one of them the newest
\* (cache.cpp:10-13).
LEMMA MoveToHeadOK ==
  ASSUME NEW S \in SUBSET Nodes, NEW rel, NEW l \in Links, NEW n \in S,
         IsOrder(rel, S), WellLinked(l, S, rel)
  PROVE  LET new == Newest(Drop(rel, n), S \ {n}, n)
         IN  /\ move_to_head(l, n) \in Links
             /\ IsOrder(new, S)
             /\ WellLinked(move_to_head(l, n), S, new)
<1> DEFINE T == S \ {n}
           r == Drop(rel, n)
           m == removeNode(l, n)
<1>1. m \in Links /\ IsOrder(r, T) /\ WellLinked(m, T, r)
  BY RemoveNodeOK
<1>2. T \in SUBSET Nodes /\ n \in Nodes \ T /\ T \cup {n} = S
  OBVIOUS
<1> HIDE DEF T, r, m
<1>3. /\ add_to_head(m, n) \in Links
      /\ IsOrder(Newest(r, T, n), T \cup {n})
      /\ WellLinked(add_to_head(m, n), T \cup {n}, Newest(r, T, n))
  BY <1>1, <1>2, AddToHeadOK
<1> QED
  BY <1>2, <1>3 DEF move_to_head, T, r, m

\* The cell before the tail is a node, if there is one, and the oldest.
LEMMA TailIsOldest ==
  ASSUME NEW S \in SUBSET Nodes, NEW rel, NEW l \in Links, S # {},
         IsOrder(rel, S), WellLinked(l, S, rel)
  PROVE  /\ l.prev[tail] \in S
         /\ \A d \in S \ {l.prev[tail]} : <<l.prev[tail], d>> \in rel
<1> DEFINE p == l.prev[tail]
<1>1. p \in S \cup {head} /\ l.next[p] = tail
  BY DEF WellLinked
<1>2. \A d \in S : d = p \/ <<p, d>> \in rel
  <2> SUFFICES ASSUME NEW d \in S PROVE d = p \/ <<p, d>> \in rel
    OBVIOUS
  <2>1. d \in {p, tail} \/ <<d, tail>> \in rel \/ <<p, d>> \in rel
    BY <1>1 DEF WellLinked
  <2>2. d # tail /\ <<tail, d>> \in rel
    BY DistinctCells DEF IsOrder
  <2>3. <<d, tail>> \notin rel
    BY <2>2 DEF IsOrder
  <2> QED
    BY <2>1, <2>2, <2>3
<1>3. p # head
  <2> SUFFICES ASSUME p = head PROVE FALSE
    OBVIOUS
  <2>1. PICK d \in S : TRUE
    OBVIOUS
  <2>2. d # head /\ <<d, head>> \in rel /\ <<head, d>> \in rel
    BY <1>2, DistinctCells DEF IsOrder
  <2> QED
    BY <2>2 DEF IsOrder
<1> QED
  BY <1>1, <1>2, <1>3

---------------------------------------------------------------------------
(* The inductive invariant *)

\* At the start: an empty map and two sentinels linked to each other.
LEMMA InitIInv == Init => IInv
<1> SUFFICES ASSUME Init PROVE IInv
  OBVIOUS
<1> USE DistinctCells, DistinctNull DEF Init
<1>1. InMap = {} /\ Listed = {}
  BY DEF InMap, Listed
<1>2. TypeOK
  BY DEF TypeOK, Cells, Points, Faults
<1>3. MutexOK
  BY DEF MutexOK, InGet, InAdd
<1>4. MapOK
  BY <1>1 DEF MapOK
<1>5. ListOK
  <2>1. IsOrder(older, {})
    BY DEF IsOrder
  <2>2. WellLinked(list, {}, older)
    BY DEF WellLinked, Cells
  <2> QED
    BY <1>1, <2>1, <2>2 DEF ListOK
<1>6. SizeOK
  BY <1>1, FS_EmptySet, CapacityAssumption DEF SizeOK, Evicting
<1>7. RefOK /\ ArgOK
  BY DEF RefOK, ArgOK, InGet, InAdd
<1> QED
  BY <1>2, <1>3, <1>4, <1>5, <1>6, <1>7 DEF IInv

\* A step that changes neither the map, the list nor the nodes, and moves no
\* thread into or out of the point between insertion and eviction.
LEMMA ContentsKept ==
  ASSUME MapOK, ListOK, SizeOK, UNCHANGED contents, Evicting' = Evicting
  PROVE  MapOK' /\ ListOK' /\ SizeOK' /\ Listed' = Listed
<1>1. InMap' = InMap /\ Listed' = Listed
  BY DEF contents, InMap, Listed
<1>2. MapOK'
  BY <1>1 DEF contents, MapOK
<1>3. ListOK'
  BY <1>1 DEF contents, ListOK
<1>4. SizeOK'
  BY <1>1 DEF contents, SizeOK
<1> QED
  BY <1>1, <1>2, <1>3, <1>4

\* Undefined behaviour changes nothing the invariant speaks of.
LEMMA FailIInv ==
  ASSUME IInv, NEW kind \in Faults, Fail(kind)
  PROVE  IInv'
<1>1. Evicting' = Evicting
  BY DEF Fail, Evicting
<1>2. MapOK' /\ ListOK' /\ SizeOK' /\ Listed' = Listed
  BY <1>1, ContentsKept DEF Fail, IInv
<1>3. TypeOK' /\ MutexOK' /\ RefOK' /\ ArgOK'
  BY <1>2 DEF Fail, IInv, contents, TypeOK, MutexOK, RefOK, ArgOK
<1> QED
  BY <1>2, <1>3 DEF IInv

\* Threads that are in the mutex exclude each other.
LEMMA Exclusion ==
  ASSUME MutexOK, NEW t \in Threads, mtx = t,
         NEW u \in Threads, pc[u] \in InGet \cup InAdd \cup {"threw"}
  PROVE  u = t
BY DEF MutexOK

\* A pointer found on the list is to an allocated node that knows its key.
LEMMA ListedNode ==
  ASSUME TypeOK, MapOK, NEW n \in Listed
  PROVE  /\ n \in Nodes /\ n \in live
         /\ key[n] \in InMap /\ response_map[key[n]] = n
         /\ value[n] \in Responses
BY DEF TypeOK, MapOK, Listed, InMap

---------------------------------------------------------------------------
(* get_response *)

\* The steps of get_response that do not touch the list.
LEMMA GetFindIInv ==
  ASSUME IInv, NEW t \in Threads, NEW k \in Keys, GetFind(t, k)
  PROVE  IInv'
<1> USE DEF GetFind, Goto
<1>0. TypeOK /\ MutexOK /\ RefOK /\ ArgOK
  BY DEF IInv
<1>1. Evicting' = Evicting
  BY <1>0 DEF Evicting, TypeOK
<1>2. MapOK' /\ ListOK' /\ SizeOK' /\ Listed' = Listed
  BY <1>1, ContentsKept DEF IInv
<1>3. response_map[k] \in Listed
  BY DEF Listed, InMap
<1>4. TypeOK'
  BY <1>0 DEF TypeOK, contents, Points
<1>5. MutexOK'
  BY <1>0 DEF MutexOK, TypeOK, InGet, InAdd
<1>6. RefOK'
  BY <1>0, <1>2, <1>3 DEF RefOK, TypeOK, InGet, InAdd
<1>7. ArgOK'
  BY <1>0 DEF ArgOK, TypeOK, InAdd
<1> QED
  BY <1>2, <1>4, <1>5, <1>6, <1>7 DEF IInv

LEMMA GetLockIInv ==
  ASSUME IInv, NEW t \in Threads, GetLock(t)
  PROVE  IInv'
<1> USE DEF GetLock, Goto
<1>0. TypeOK /\ MutexOK /\ RefOK /\ ArgOK
  BY DEF IInv
<1>1. Evicting' = Evicting
  BY <1>0 DEF Evicting, TypeOK
<1>2. MapOK' /\ ListOK' /\ SizeOK' /\ Listed' = Listed
  BY <1>1, ContentsKept DEF IInv
<1>4. TypeOK'
  BY <1>0 DEF TypeOK, contents, Points, InGet
<1>5. MutexOK'
  BY <1>0, DistinctNull DEF MutexOK, TypeOK, InGet, InAdd
<1>6. RefOK'
  BY <1>0, <1>2 DEF RefOK, TypeOK, InGet, InAdd
<1>7. ArgOK'
  BY <1>0 DEF ArgOK, TypeOK, InAdd
<1> QED
  BY <1>2, <1>4, <1>5, <1>6, <1>7 DEF IInv

\* The use of a node that is still on the list: it moves to the front.
LEMMA GetMoveIInv ==
  ASSUME IInv, NEW t \in Threads, GetMove(t)
  PROVE  IInv'
<1> USE DEF GetMove, Goto
<1>0. TypeOK /\ MutexOK /\ MapOK /\ ListOK /\ SizeOK /\ RefOK /\ ArgOK
  BY DEF IInv
<1>1. ref[t] \in Listed
  BY <1>0 DEF RefOK, InGet
<1>2. Listed \in SUBSET Nodes /\ list \in Links
  BY <1>0 DEF TypeOK, Listed, InMap, Links
<1>3. InMap' = InMap /\ Listed' = Listed /\ Evicting' = Evicting
  BY <1>0 DEF InMap, Listed, Evicting, TypeOK
<1>4. /\ list' \in Links
      /\ IsOrder(older', Listed)
      /\ WellLinked(list', Listed, older')
  BY <1>0, <1>1, <1>2, MoveToHeadOK DEF Moved, ListOK
<1>5. TypeOK'
  BY <1>0, <1>4 DEF TypeOK, Links, Points, InGet
<1>6. MutexOK'
  BY <1>0 DEF MutexOK, TypeOK, InGet, InAdd
<1>7. MapOK' /\ SizeOK'
  BY <1>0, <1>3 DEF MapOK, SizeOK
<1>8. ListOK'
  BY <1>3, <1>4 DEF ListOK
<1>9. RefOK' /\ ArgOK'
  BY <1>0, <1>3 DEF RefOK, ArgOK, TypeOK, InGet, InAdd
<1> QED
  BY <1>5, <1>6, <1>7, <1>8, <1>9 DEF IInv

LEMMA GetUnlockIInv ==
  ASSUME IInv, NEW t \in Threads, GetUnlock(t)
  PROVE  IInv'
<1> USE DEF GetUnlock, Goto
<1>0. TypeOK /\ MutexOK /\ RefOK /\ ArgOK
  BY DEF IInv
<1>1. Evicting' = Evicting
  BY <1>0 DEF Evicting, TypeOK
<1>2. MapOK' /\ ListOK' /\ SizeOK' /\ Listed' = Listed
  BY <1>1, ContentsKept DEF IInv
<1>3. mtx = t
  BY <1>0 DEF MutexOK, InGet
<1>4. TypeOK'
  BY <1>0 DEF TypeOK, contents, Points
<1>5. MutexOK'
  BY <1>0, <1>3, DistinctNull DEF MutexOK, TypeOK, InGet, InAdd
<1>6. RefOK'
  BY <1>0, <1>2 DEF RefOK, TypeOK, InGet, InAdd
<1>7. ArgOK'
  BY <1>0 DEF ArgOK, TypeOK, InAdd
<1> QED
  BY <1>2, <1>4, <1>5, <1>6, <1>7 DEF IInv

LEMMA GetReturnIInv ==
  ASSUME IInv, NEW t \in Threads, GetReturn(t)
  PROVE  IInv'
<1> USE DEF GetReturn, Goto
<1>0. TypeOK /\ MutexOK /\ RefOK /\ ArgOK
  BY DEF IInv
<1>1. Evicting' = Evicting
  BY <1>0 DEF Evicting, TypeOK
<1>2. MapOK' /\ ListOK' /\ SizeOK' /\ Listed' = Listed
  BY <1>1, ContentsKept DEF IInv
<1>4. TypeOK'
  BY <1>0 DEF TypeOK, contents, Points
<1>5. MutexOK'
  BY <1>0 DEF MutexOK, TypeOK, InGet, InAdd
<1>6. RefOK'
  BY <1>0, <1>2 DEF RefOK, TypeOK, InGet, InAdd
<1>7. ArgOK'
  BY <1>0 DEF ArgOK, TypeOK, InAdd
<1> QED
  BY <1>2, <1>4, <1>5, <1>6, <1>7 DEF IInv

---------------------------------------------------------------------------
(* The caller *)

\* A response is renewed in place: only its value field changes.
LEMMA FreshenIInv ==
  ASSUME IInv, NEW t \in Threads, NEW r \in Responses, Freshen(t, r)
  PROVE  IInv'
<1> USE DEF Freshen
<1>0. TypeOK /\ MutexOK /\ MapOK /\ ListOK /\ SizeOK /\ RefOK /\ ArgOK
  BY DEF IInv
<1>1. InMap' = InMap /\ Listed' = Listed /\ Evicting' = Evicting
  BY DEF InMap, Listed, Evicting
<1>2. ref[t] \in Nodes
  BY <1>0 DEF RefOK, InGet, Listed, InMap, TypeOK
<1>3. TypeOK'
  BY <1>0, <1>2 DEF TypeOK
<1>4. MapOK'
  BY <1>0, <1>1, <1>2 DEF MapOK, TypeOK
<1>5. MutexOK' /\ ListOK' /\ SizeOK' /\ RefOK' /\ ArgOK'
  BY <1>0, <1>1 DEF MutexOK, ListOK, SizeOK, RefOK, ArgOK
<1> QED
  BY <1>3, <1>4, <1>5 DEF IInv

\* The caller lets go of the response, to return or to add another one.
LEMMA ReleaseIInv ==
  ASSUME IInv, NEW t \in Threads, Release(t)
  PROVE  IInv'
<1> USE DEF Release, Goto
<1>0. TypeOK /\ MutexOK /\ RefOK /\ ArgOK
  BY DEF IInv
<1>1. Evicting' = Evicting
  BY <1>0 DEF Evicting, TypeOK
<1>2. MapOK' /\ ListOK' /\ SizeOK' /\ Listed' = Listed
  BY <1>1, ContentsKept DEF IInv
<1>4. TypeOK'
  BY <1>0 DEF TypeOK, contents, Points
<1>5. MutexOK'
  BY <1>0 DEF MutexOK, TypeOK, InGet, InAdd
<1>6. RefOK'
  BY <1>0, <1>2 DEF RefOK, TypeOK, InGet, InAdd
<1>7. ArgOK'
  BY <1>0 DEF ArgOK, TypeOK, InAdd
<1> QED
  BY <1>2, <1>4, <1>5, <1>6, <1>7 DEF IInv

---------------------------------------------------------------------------
(* add_response *)

LEMMA AddCallIInv ==
  ASSUME IInv, NEW t \in Threads, NEW k \in Keys, NEW r \in Responses,
         AddCall(t, k, r)
  PROVE  IInv'
<1> USE DEF AddCall
<1>0. TypeOK /\ MutexOK /\ RefOK /\ ArgOK
  BY DEF IInv
<1>1. Evicting' = Evicting
  BY <1>0 DEF Evicting, TypeOK
<1>2. MapOK' /\ ListOK' /\ SizeOK' /\ Listed' = Listed
  BY <1>1, ContentsKept DEF IInv
<1>4. TypeOK'
  BY <1>0 DEF TypeOK, contents, Points
<1>5. MutexOK'
  BY <1>0 DEF MutexOK, TypeOK, InGet, InAdd
<1>6. RefOK'
  BY <1>0, <1>2 DEF RefOK, TypeOK, InGet, InAdd
<1>7. ArgOK'
  BY <1>0 DEF ArgOK, TypeOK, InAdd
<1> QED
  BY <1>2, <1>4, <1>5, <1>6, <1>7 DEF IInv

LEMMA AddLockIInv ==
  ASSUME IInv, NEW t \in Threads, AddLock(t)
  PROVE  IInv'
<1> USE DEF AddLock, Goto
<1>0. TypeOK /\ MutexOK /\ RefOK /\ ArgOK
  BY DEF IInv
<1>1. Evicting' = Evicting
  BY <1>0 DEF Evicting, TypeOK
<1>2. MapOK' /\ ListOK' /\ SizeOK' /\ Listed' = Listed
  BY <1>1, ContentsKept DEF IInv
<1>4. TypeOK'
  BY <1>0 DEF TypeOK, contents, Points, InAdd
<1>5. MutexOK'
  BY <1>0, DistinctNull DEF MutexOK, TypeOK, InGet, InAdd
<1>6. RefOK'
  BY <1>0, <1>2 DEF RefOK, TypeOK, InGet, InAdd
<1>7. ArgOK'
  BY <1>0 DEF ArgOK, TypeOK, InAdd
<1> QED
  BY <1>2, <1>4, <1>5, <1>6, <1>7 DEF IInv

\* What the insertion of a new node does to the map and the list.
LEMMA InsertContents ==
  ASSUME IInv, NEW t \in Threads, pc[t] = "add_body",
         response_map[uri[t]] = NULL, NEW n \in Nodes \ live,
         response_map' = [response_map EXCEPT ![uri[t]] = n],
         list' = add_to_head(list, n), older' = Newest(older, Listed, n)
  PROVE  /\ uri[t] \in Keys \ InMap /\ arg[t] \in Responses
         /\ InMap' = InMap \cup {uri[t]}
         /\ n \notin Listed /\ Listed' = Listed \cup {n}
         /\ list' \in Links /\ ListOK'
<1>0. TypeOK /\ MapOK /\ ListOK /\ ArgOK
  BY DEF IInv
<1>1. uri[t] \in Keys \ InMap /\ arg[t] \in Responses
  BY <1>0 DEF ArgOK, InAdd, InMap
<1>2. InMap' = InMap \cup {uri[t]}
  BY <1>0, <1>1, DistinctNull DEF InMap, TypeOK
<1>3. n \notin Listed
  BY <1>0 DEF MapOK, Listed
<1>4. Listed' = Listed \cup {n}
  <2>1. \A k \in Keys : response_map'[k] = IF k = uri[t] THEN n ELSE response_map[k]
    BY <1>0, <1>1 DEF TypeOK
  <2> QED
    BY <1>1, <1>2, <2>1 DEF Listed, InMap
<1>5. Listed \in SUBSET Nodes /\ list \in Links
  BY <1>0 DEF TypeOK, Listed, InMap, Links
<1>6. /\ list' \in Links
      /\ IsOrder(older', Listed \cup {n})
      /\ WellLinked(list', Listed \cup {n}, older')
  BY <1>0, <1>3, <1>5, AddToHeadOK DEF ListOK
<1> QED
  BY <1>1, <1>2, <1>3, <1>4, <1>6 DEF ListOK

\* What it does to the buckets and to the iterators of other threads.
LEMMA InsertRehash ==
  ASSUME IInv, NEW t \in Threads, AddInsert(t)
  PROVE  /\ buckets' \in Nat /\ size' <= buckets'
         /\ ref' \in [Threads -> Nodes \cup {NULL, Dangling}]
         /\ \A u \in Threads :
              \/ ref'[u] = ref[u]
              \/ /\ pc[u] \in {"get_lock", "get_move"} /\ u # t
                 /\ ref'[u] = Dangling /\ size' > buckets
<1>0. /\ size \in Nat /\ buckets \in Nat /\ Capacity \in Nat
      /\ ref \in [Threads -> Nodes \cup {NULL, Dangling}]
      /\ pc[t] = "add_body" /\ size' = size + 1
  BY CapacityAssumption DEF IInv, TypeOK, AddInsert, Goto
<1>1. CASE size + 1 > buckets
  <2>1. Rehash
    BY <1>1 DEF AddInsert
  <2>2. buckets' \in Nat /\ size' <= buckets'
    BY <1>0, <2>1 DEF Rehash
  <2>3. \A u \in Threads :
          ref'[u] = IF pc[u] \in {"get_lock", "get_move"} THEN Dangling ELSE ref[u]
    BY <2>1 DEF Rehash
  <2>4. ref' \in [Threads -> Nodes \cup {NULL, Dangling}]
    BY <1>0, <2>1 DEF Rehash
  <2> QED
    BY <1>0, <1>1, <2>2, <2>3, <2>4
<1>2. CASE size + 1 <= buckets
  <2>1. UNCHANGED <<buckets, ref>>
    BY <1>0, <1>2 DEF AddInsert
  <2> QED
    BY <1>0, <1>2, <2>1
<1> QED
  BY <1>0, <1>1, <1>2

LEMMA AddInsertIInv ==
  ASSUME IInv, NEW t \in Threads, AddInsert(t)
  PROVE  IInv'
<1> USE DEF AddInsert, Goto
<1>0. TypeOK /\ MutexOK /\ MapOK /\ ListOK /\ SizeOK /\ RefOK /\ ArgOK
  BY DEF IInv
<1>1. PICK n \in Nodes \ live :
        /\ live' = live \cup {n}
        /\ key' = [key EXCEPT ![n] = uri[t]]
        /\ value' = [value EXCEPT ![n] = arg[t]]
        /\ response_map' = [response_map EXCEPT ![uri[t]] = n]
        /\ list' = add_to_head(list, n)
        /\ older' = Newest(older, Listed, n)
  OBVIOUS
<1>2. /\ uri[t] \in Keys \ InMap /\ arg[t] \in Responses
      /\ InMap' = InMap \cup {uri[t]}
      /\ n \notin Listed /\ Listed' = Listed \cup {n}
      /\ list' \in Links /\ ListOK'
  BY <1>1, InsertContents
<1>3. mtx = t
  BY <1>0 DEF MutexOK, InAdd
<1>4. TypeOK'
  <2>1. /\ response_map' \in [Keys -> Nodes \cup {NULL}]
        /\ live' \subseteq Nodes
        /\ key' \in [Nodes -> Keys \cup {NULL}]
        /\ value' \in [Nodes -> Responses \cup {NULL}]
    BY <1>0, <1>1, <1>2 DEF TypeOK
  <2>2. size' \in Nat /\ pc' \in [Threads -> Points]
    BY <1>0 DEF TypeOK, Points, InAdd
  <2>3. UNCHANGED <<mtx, uri, arg, fault>>
    OBVIOUS
  <2>4. buckets' \in Nat /\ ref' \in [Threads -> Nodes \cup {NULL, Dangling}]
    BY InsertRehash
  <2> QED
    BY <1>0, <1>2, <2>1, <2>2, <2>3, <2>4 DEF TypeOK, Links
<1>5. MutexOK'
  BY <1>0 DEF MutexOK, TypeOK, InGet, InAdd
<1>6. MapOK'
  <2>1. \A k \in InMap' : /\ response_map'[k] \in live'
                          /\ key'[response_map'[k]] = k
                          /\ value'[response_map'[k]] \in Responses
    <3> SUFFICES ASSUME NEW k \in InMap'
                 PROVE  /\ response_map'[k] \in live'
                        /\ key'[response_map'[k]] = k
                        /\ value'[response_map'[k]] \in Responses
      OBVIOUS
    <3>1. CASE k = uri[t]
      BY <1>0, <1>1, <1>2, <3>1 DEF TypeOK
    <3>2. CASE k # uri[t]
      <4>1. k \in InMap /\ response_map'[k] = response_map[k]
        BY <1>0, <1>1, <1>2, <3>2 DEF TypeOK, InMap
      <4>2. response_map[k] \in live /\ response_map[k] # n
        BY <1>0, <4>1 DEF MapOK
      <4> QED
        BY <1>0, <1>1, <4>1, <4>2 DEF TypeOK, MapOK
    <3> QED
      BY <3>1, <3>2
  <2>2. ~AllocFails => live' = Listed'
    BY <1>0, <1>1, <1>2 DEF MapOK
  <2> QED
    BY <2>1, <2>2 DEF MapOK
<1>7. SizeOK'
  <2>1. IsFiniteSet(InMap') /\ Cardinality(InMap') = size + 1
    BY <1>0, <1>2, FS_AddElement DEF SizeOK
  <2>2. ~Evicting
    BY <1>0, <1>3 DEF Evicting, MutexOK, InAdd
  <2>3. Evicting' <=> size + 1 > Capacity
    BY <1>0, <2>2 DEF Evicting, TypeOK
  <2>4. size' <= buckets'
    BY InsertRehash
  <2> QED
    BY <1>0, <2>1, <2>2, <2>3, <2>4, CapacityAssumption DEF SizeOK, TypeOK
<1>8. RefOK' /\ ArgOK'
  <2>1. \A u \in Threads :
          \/ ref'[u] = ref[u]
          \/ pc[u] \in {"get_lock", "get_move"} /\ u # t /\ ref'[u] = Dangling
    BY InsertRehash
  <2>2. RefOK'
    BY <1>0, <1>2, <2>1 DEF RefOK, TypeOK, InGet, InAdd
  <2> QED
    BY <1>0, <2>2 DEF ArgOK, TypeOK, InGet, InAdd
<1> QED
  BY <1>2, <1>4, <1>5, <1>6, <1>7, <1>8 DEF IInv

\* While a thread is about to evict, the victim exists: it is the oldest node.
LEMMA VictimListed ==
  ASSUME IInv, Evicting
  PROVE  /\ list.prev[tail] \in Listed
         /\ \A d \in Listed \ {list.prev[tail]} : <<list.prev[tail], d>> \in older
<1>0. TypeOK /\ MapOK /\ ListOK /\ SizeOK
  BY DEF IInv
<1>1. InMap # {}
  BY <1>0, FS_EmptySet, CapacityAssumption DEF SizeOK
<1>2. Listed # {} /\ Listed \in SUBSET Nodes /\ list \in Links
  BY <1>0, <1>1 DEF Listed, InMap, TypeOK, Links
<1> QED
  BY <1>0, <1>2, TailIsOldest DEF ListOK

\* What the eviction does to the map and the list.
LEMMA EvictContents ==
  ASSUME IInv, Evicting, NEW n, n = list.prev[tail],
         response_map' = [response_map EXCEPT ![key[n]] = NULL],
         list' = removeNode(list, n), older' = Drop(older, n)
  PROVE  /\ n \in Listed /\ n \in Nodes
         /\ key[n] \in InMap /\ InMap' = InMap \ {key[n]}
         /\ Listed' = Listed \ {n}
         /\ list' \in Links /\ ListOK'
<1>0. TypeOK /\ MapOK /\ ListOK
  BY DEF IInv
<1>1. n \in Listed
  BY VictimListed
<1>2. /\ n \in Nodes /\ n \in live
      /\ key[n] \in InMap /\ response_map[key[n]] = n
  BY <1>0, <1>1, ListedNode
<1>3. \A k \in Keys : response_map'[k] = IF k = key[n] THEN NULL ELSE response_map[k]
  BY <1>0, <1>2 DEF TypeOK
<1>4. InMap' = InMap \ {key[n]}
  BY <1>3 DEF InMap
<1>5. \A k \in InMap : response_map[k] = n => k = key[n]
  BY <1>0 DEF MapOK
<1>6. Listed' = Listed \ {n}
  BY <1>2, <1>3, <1>4, <1>5 DEF Listed, InMap
<1>7. Listed \in SUBSET Nodes /\ list \in Links
  BY <1>0 DEF TypeOK, Listed, InMap, Links
<1>8. /\ list' \in Links
      /\ IsOrder(older', Listed \ {n})
      /\ WellLinked(list', Listed \ {n}, older')
  BY <1>0, <1>1, <1>7, RemoveNodeOK DEF ListOK
<1> QED
  BY <1>1, <1>2, <1>4, <1>6, <1>8 DEF ListOK

LEMMA AddEvictIInv ==
  ASSUME IInv, NEW t \in Threads, AddEvict(t)
  PROVE  IInv'
<1> DEFINE n == list.prev[tail]
<1> USE DEF AddEvict, Goto
<1>0. TypeOK /\ MutexOK /\ MapOK /\ ListOK /\ SizeOK /\ RefOK /\ ArgOK
  BY DEF IInv
<1>1. Evicting
  BY DEF Evicting
<1>2. /\ n \in Listed /\ n \in Nodes
      /\ key[n] \in InMap /\ InMap' = InMap \ {key[n]}
      /\ Listed' = Listed \ {n}
      /\ list' \in Links /\ ListOK'
  BY <1>1, EvictContents
<1>3. size = Capacity + 1 /\ size' = Capacity
  BY <1>0, <1>1, CapacityAssumption DEF SizeOK
<1>4. TypeOK'
  <2>1. /\ response_map' \in [Keys -> Nodes \cup {NULL}]
        /\ live' \subseteq Nodes
        /\ ref' \in [Threads -> Nodes \cup {NULL, Dangling}]
    BY <1>0, <1>2 DEF TypeOK, NodeDeleted, InMap
  <2>2. size' \in Nat /\ pc' \in [Threads -> Points]
    BY <1>0, <1>3, CapacityAssumption DEF TypeOK, Points, InAdd
  <2>3. /\ key' \in [Nodes -> Keys \cup {NULL}]
        /\ value' \in [Nodes -> Responses \cup {NULL}]
    BY <1>0, <1>2 DEF TypeOK
  <2>4. UNCHANGED <<mtx, uri, arg, fault>>
    OBVIOUS
  <2> QED
    BY <1>0, <1>2, <2>1, <2>2, <2>3, <2>4 DEF TypeOK, Links
<1>5. MutexOK'
  BY <1>0 DEF MutexOK, TypeOK, InGet, InAdd
<1>6. MapOK'
  <2>1. \A k \in InMap' : /\ k \in InMap /\ response_map'[k] = response_map[k]
                          /\ response_map[k] # n
    BY <1>0, <1>2 DEF InMap, TypeOK, MapOK
  <2>2. ~AllocFails => live' = Listed'
    BY <1>0, <1>2 DEF MapOK
  <2>3. live' = live \ {n}
    OBVIOUS
  <2>4. \A m \in Nodes \ {n} : key'[m] = key[m] /\ value'[m] = value[m]
    BY <1>0, <1>2 DEF TypeOK
  <2>5. \A k \in InMap : response_map[k] \in Nodes
    BY <1>0 DEF InMap, TypeOK
  <2> QED
    BY <1>0, <2>1, <2>2, <2>3, <2>4, <2>5 DEF MapOK
<1>7. SizeOK'
  <2>0. IsFiniteSet(InMap) /\ Cardinality(InMap) = Capacity + 1
    BY <1>0, <1>3 DEF SizeOK
  <2>1. IsFiniteSet(InMap') /\ Cardinality(InMap') = size'
    <3> DEFINE M == InMap
               k == key[n]
    <3>1. M \ {k} = InMap' /\ k \in M
      BY <1>2
    <3> HIDE DEF M, k
    <3>2. IsFiniteSet(M) /\ Cardinality(M) = Capacity + 1
      BY <2>0 DEF M
    <3>3. IsFiniteSet(M \ {k}) /\ Cardinality(M \ {k}) = Cardinality(M) - 1
      BY <3>1, <3>2, FS_RemoveElement
    <3>4. Cardinality(M) - 1 = size'
      BY <1>3, <3>2, CapacityAssumption
    <3> QED
      BY <3>1, <3>3, <3>4
  <2>2. ~Evicting'
    BY <1>0 DEF Evicting, MutexOK, InAdd, TypeOK
  <2>3. size' <= buckets'
    BY <1>0, <1>3, CapacityAssumption DEF SizeOK, TypeOK
  <2> QED
    BY <1>3, <2>1, <2>2, <2>3, CapacityAssumption DEF SizeOK
<1>8. RefOK'
  <2>1. \A u \in Threads : ref'[u] = IF ref[u] = n THEN Dangling ELSE ref[u]
    BY DEF NodeDeleted
  <2>2. n # NULL
    BY <1>2, DistinctNull
  <2> QED
    BY <1>0, <1>2, <2>1, <2>2 DEF RefOK, TypeOK, InGet, InAdd
<1>9. ArgOK'
  BY <1>0 DEF ArgOK, TypeOK, InAdd
<1> QED
  BY <1>2, <1>4, <1>5, <1>6, <1>7, <1>8, <1>9 DEF IInv

LEMMA AddUpdateIInv ==
  ASSUME IInv, NEW t \in Threads, AddUpdate(t)
  PROVE  IInv'
<1> DEFINE n == response_map[uri[t]]
<1> USE DEF AddUpdate, Goto
<1>0. TypeOK /\ MutexOK /\ MapOK /\ ListOK /\ SizeOK /\ RefOK /\ ArgOK
  BY DEF IInv
<1>1. uri[t] \in InMap /\ arg[t] \in Responses /\ n \in Listed
  BY <1>0 DEF ArgOK, InAdd, InMap, Listed
<1>2. Listed \in SUBSET Nodes /\ list \in Links
  BY <1>0 DEF TypeOK, Listed, InMap, Links
<1>3. InMap' = InMap /\ Listed' = Listed
  BY DEF InMap, Listed
<1>4. /\ list' \in Links
      /\ IsOrder(older', Listed)
      /\ WellLinked(list', Listed, older')
  BY <1>0, <1>1, <1>2, MoveToHeadOK DEF Moved, ListOK
<1>5. TypeOK'
  <2>1. /\ value' \in [Nodes -> Responses \cup {NULL}]
        /\ ref' \in [Threads -> Nodes \cup {NULL, Dangling}]
        /\ pc' \in [Threads -> Points]
    BY <1>0, <1>1, <1>2 DEF TypeOK, ValueDeleted, Points, InAdd
  <2>2. UNCHANGED <<response_map, size, live, key, mtx, uri, arg, fault>>
    OBVIOUS
  <2> QED
    BY <1>0, <1>4, <2>1, <2>2 DEF TypeOK, Links
<1>6. MutexOK'
  BY <1>0 DEF MutexOK, TypeOK, InGet, InAdd
<1>7. MapOK'
  BY <1>0, <1>1, <1>2, <1>3 DEF MapOK, TypeOK
<1>8. ListOK'
  BY <1>3, <1>4 DEF ListOK
<1>9. SizeOK'
  <2>1. Evicting' = Evicting
    BY <1>0 DEF Evicting, TypeOK
  <2> QED
    BY <1>0, <1>3, <2>1 DEF SizeOK
<1>10. RefOK'
  <2>1. \A u \in Threads : ref'[u] = IF ref[u] = n /\ pc[u] = "holding"
                                     THEN Dangling ELSE ref[u]
    BY DEF ValueDeleted
  <2> QED
    BY <1>0, <1>3, <2>1 DEF RefOK, TypeOK, InGet, InAdd
<1>11. ArgOK'
  BY <1>0 DEF ArgOK, TypeOK, InAdd
<1> QED
  BY <1>5, <1>6, <1>7, <1>8, <1>9, <1>10, <1>11 DEF IInv

LEMMA AddUnlockIInv ==
  ASSUME IInv, NEW t \in Threads, AddUnlock(t)
  PROVE  IInv'
<1> USE DEF AddUnlock, Goto
<1>0. TypeOK /\ MutexOK /\ RefOK /\ ArgOK
  BY DEF IInv
<1>1. Evicting' = Evicting
  BY <1>0 DEF Evicting, TypeOK
<1>2. MapOK' /\ ListOK' /\ SizeOK' /\ Listed' = Listed
  BY <1>1, ContentsKept DEF IInv
<1>3. mtx = t
  BY <1>0 DEF MutexOK, InAdd
<1>4. TypeOK'
  BY <1>0 DEF TypeOK, contents, Points
<1>5. MutexOK'
  BY <1>0, <1>3, DistinctNull DEF MutexOK, TypeOK, InGet, InAdd
<1>6. RefOK'
  BY <1>0, <1>2 DEF RefOK, TypeOK, InGet, InAdd
<1>7. ArgOK'
  BY <1>0 DEF ArgOK, TypeOK, InAdd
<1> QED
  BY <1>2, <1>4, <1>5, <1>6, <1>7 DEF IInv

\* An allocation fails: the map and the list are as before, the mutex is not.
LEMMA AddThrowIInv ==
  ASSUME IInv, NEW t \in Threads, AddThrow(t)
  PROVE  IInv'
<1> USE DEF AddThrow, Goto
<1>0. TypeOK /\ MutexOK /\ MapOK /\ ListOK /\ SizeOK /\ RefOK /\ ArgOK
  BY DEF IInv
<1>1. InMap' = InMap /\ Listed' = Listed
  BY DEF InMap, Listed
<1>2. Evicting' = Evicting
  BY <1>0 DEF Evicting, TypeOK
<1>3. live \subseteq live' /\ live' \subseteq Nodes
  BY <1>0 DEF TypeOK
<1>4. TypeOK'
  BY <1>0, <1>3 DEF TypeOK, Points
<1>5. MutexOK'
  BY <1>0 DEF MutexOK, TypeOK, InGet, InAdd
<1>6. MapOK'
  BY <1>0, <1>1, <1>3 DEF MapOK
<1>7. ListOK' /\ SizeOK'
  BY <1>0, <1>1, <1>2 DEF ListOK, SizeOK
<1>8. RefOK' /\ ArgOK'
  BY <1>0, <1>1 DEF RefOK, ArgOK, TypeOK, InGet, InAdd
<1> QED
  BY <1>4, <1>5, <1>6, <1>7, <1>8 DEF IInv

---------------------------------------------------------------------------
(* The invariant, and what follows from it *)

\* Every step of every thread preserves the inductive invariant.
LEMMA NextIInv == IInv /\ [Next]_vars => IInv'
<1> SUFFICES ASSUME IInv, [Next]_vars PROVE IInv'
  OBVIOUS
<1>1. CASE UNCHANGED vars
  <2>1. Evicting' = Evicting
    BY <1>1 DEF vars, Evicting
  <2>2. MapOK' /\ ListOK' /\ SizeOK' /\ Listed' = Listed
    BY <1>1, <2>1, ContentsKept DEF vars, contents, IInv
  <2>3. TypeOK' /\ MutexOK' /\ RefOK' /\ ArgOK'
    BY <1>1, <2>2 DEF vars, IInv, TypeOK, MutexOK, RefOK, ArgOK
  <2> QED
    BY <2>2, <2>3 DEF IInv
<1>2. ASSUME NEW t \in Threads, GetStep(t) PROVE IInv'
  <2>1. CASE \E kind \in {"iterator", "node"} : Fail(kind)
    BY <2>1, FailIInv DEF Faults
  <2> QED
    BY <1>2, <2>1, GetLockIInv, GetMoveIInv, GetUnlockIInv, GetReturnIInv
    DEF GetStep, GetMoveErased, GetReturnDeleted
<1>3. ASSUME NEW t \in Threads, AddStep(t) PROVE IInv'
  BY <1>3, AddLockIInv, AddInsertIInv, AddEvictIInv, AddUpdateIInv,
     AddUnlockIInv, AddThrowIInv DEF AddStep
<1>4. ASSUME NEW t \in Threads, Call(t) PROVE IInv'
  <2>1. CASE GetRace(t)
    BY <2>1, FailIInv DEF GetRace, Faults
  <2>2. CASE \E k \in Keys : GetMiss(t, k)
    BY <2>2, <1>1 DEF GetMiss
  <2> QED
    BY <1>4, <2>1, <2>2, GetFindIInv, AddCallIInv DEF Call
<1>5. ASSUME NEW t \in Threads, Caller(t) PROVE IInv'
  <2>1. CASE UseResponse(t)
    BY <2>1, <1>1 DEF UseResponse
  <2>2. CASE UseDeleted(t)
    BY <2>2, FailIInv DEF UseDeleted, Faults
  <2> QED
    BY <1>5, <2>1, <2>2, ReleaseIInv, FreshenIInv DEF Caller
<1>6. CASE Undefined
  BY <1>6, <1>1 DEF Undefined
<1> QED
  BY <1>1, <1>2, <1>3, <1>4, <1>5, <1>6 DEF Next

(***************************************************************************)
(* Whatever the threads do, and even if allocations fail, the map, the     *)
(* list, the counter, the mutex and the references held by callers are     *)
(* consistent with each other in every state (cache.cpp, all operations).  *)
(***************************************************************************)
THEOREM CacheInvariant == Spec => []IInv
<1>1. Init => IInv
  BY InitIInv
<1>2. IInv /\ [Next]_vars => IInv'
  BY NextIInv
<1> QED
  BY <1>1, <1>2, PTL DEF Spec

\* The variables keep their types (cache.hpp:78-107).
THEOREM CacheTypes == Spec => []TypeOK
<1>1. IInv => TypeOK
  BY DEF IInv
<1> QED
  BY <1>1, CacheInvariant, PTL

---------------------------------------------------------------------------
(* A cache with room *)

\* If the URIs in use fit in the cache no thread ever reaches the eviction.
LEMMA FitsNoEviction ==
  ASSUME IInv, IsFiniteSet(Keys), Cardinality(Keys) <= Capacity
  PROVE  ~Evicting
<1>1. Cardinality(InMap) <= Cardinality(Keys)
  BY FS_Subset DEF InMap
<1>2. Cardinality(Keys) \in Nat
  BY FS_CardinalityType
<1> QED
  BY <1>1, <1>2, CapacityAssumption DEF IInv, SizeOK

\* The count grows by one or stays, but for the eviction, which leaves the
\* cache full: a step that ends with room is not one, and began with room.
LEMMA RoomBefore ==
  ASSUME IInv, [Next]_vars, Roomy'
  PROVE  Roomy /\ ~Evicting
<1>0. /\ size \in Nat /\ Capacity \in Nat
      /\ Evicting => size = Capacity + 1
  BY CapacityAssumption DEF IInv, TypeOK, SizeOK
<1>1. CASE IsFiniteSet(Keys) /\ Cardinality(Keys) <= Capacity
  BY <1>1, FitsNoEviction DEF Roomy
<1>2. CASE size' < Capacity
  <2>1. size' \in {size, size + 1} \/ \E t \in Threads : AddEvict(t)
    BY DEF Next, vars, Undefined, GetStep, GetLock, GetMove, GetMoveErased,
       GetUnlock, GetReturn, GetReturnDeleted, AddStep, AddLock, AddInsert,
       AddUpdate, AddUnlock, AddThrow, Call, GetRace, GetMiss, GetFind,
       AddCall, Caller, UseResponse, UseDeleted, Release, Freshen, Fail,
       contents
  <2>2. \A t \in Threads : AddEvict(t) => Evicting /\ size' = size - 1
    BY DEF AddEvict, Goto, Evicting
  <2> QED
    BY <1>0, <1>2, <2>1, <2>2 DEF Roomy
<1> QED
  BY <1>1, <1>2 DEF Roomy

\* Threads that have read the node from their iterator have one that is there.
GetRefsGood ==
  /\ \A t \in Threads : pc[t] \in {"get_unlock", "get_return"} => ref[t] # Dangling
  /\ fault # "node"

RoomOK == Roomy => GetRefsGood

LEMMA RoomInit == Init => RoomOK
BY DEF Init, RoomOK, GetRefsGood

LEMMA RoomStep ==
  ASSUME IInv, RoomOK, [Next]_vars
  PROVE  RoomOK'
<1> SUFFICES ASSUME Roomy' PROVE GetRefsGood'
  BY DEF RoomOK
<1> USE DEF GetRefsGood
<1>0. ~Evicting /\ TypeOK /\ MapOK /\ GetRefsGood
  BY RoomBefore DEF IInv, RoomOK
<1>1. CASE UNCHANGED vars \/ Undefined
  BY <1>0, <1>1 DEF vars, Undefined
<1>2. ASSUME NEW t \in Threads, GetStep(t) PROVE GetRefsGood'
  BY <1>0, <1>2 DEF GetStep, GetLock, GetMove, GetMoveErased, GetUnlock,
     GetReturn, GetReturnDeleted, Goto, Fail, TypeOK
<1>3. ASSUME NEW t \in Threads, AddStep(t) PROVE GetRefsGood'
  <2>1. CASE AddEvict(t)
    BY <1>0, <2>1 DEF AddEvict, Goto, Evicting
  <2>2. CASE AddUpdate(t)
    BY <1>0, <2>2 DEF AddUpdate, Goto, ValueDeleted, TypeOK
  <2>3. CASE AddInsert(t)
    <3>1. \A u \in Threads :
            ref'[u] = ref[u] \/ (pc[u] \in {"get_lock", "get_move"} /\ u # t)
      BY <2>3, InsertRehash
    <3> QED
      BY <1>0, <2>3, <3>1 DEF AddInsert, Goto, TypeOK
  <2>4. CASE AddLock(t) \/ AddUnlock(t) \/ AddThrow(t)
    BY <1>0, <2>4 DEF AddLock, AddUnlock, AddThrow, Goto, TypeOK
  <2> QED
    BY <1>3, <2>1, <2>2, <2>3, <2>4 DEF AddStep
<1>4. ASSUME NEW t \in Threads, Call(t) PROVE GetRefsGood'
  BY <1>0, <1>4 DEF Call, GetRace, GetMiss, GetFind, AddCall, Goto, Fail,
     TypeOK, vars
<1>5. ASSUME NEW t \in Threads, Caller(t) PROVE GetRefsGood'
  BY <1>0, <1>5 DEF Caller, UseResponse, UseDeleted, Release, Freshen, Goto,
     Fail, TypeOK, vars
<1> QED
  BY <1>1, <1>2, <1>3, <1>4, <1>5 DEF Next

(***************************************************************************)
(* As long as there is room in the cache, or for all URIs in use, the node *)
(* that get_response has read from its iterator still exists when its      *)
(* value is read, after the mutex is released (cache.cpp:58-61).           *)
(***************************************************************************)
THEOREM RoomNoDangling == Spec => []NodesLostOnlyWhenFull
<1>1. Init => RoomOK
  BY RoomInit
<1>2. IInv /\ RoomOK /\ [Next]_vars => RoomOK'
  BY RoomStep
<1>3. RoomOK => NodesLostOnlyWhenFull
  BY DEF RoomOK, GetRefsGood, NodesLostOnlyWhenFull
<1> QED
  BY <1>1, <1>2, <1>3, CacheInvariant, PTL DEF Spec

---------------------------------------------------------------------------
(* Iterators *)

\* How thread t loses its iterator.
Lost(t) ==
  /\ pc[t] \in {"get_lock", "get_move"}
  /\ ref[t] # Dangling /\ ref'[t] = Dangling

Excused(t) ==
  \/ size > Capacity /\ ref[t] = list.prev[tail]
  \/ size' > buckets

LEMMA IteratorStep ==
  ASSUME IInv, [Next]_vars, NEW t \in Threads, Lost(t)
  PROVE  Excused(t)
<1> USE DEF Lost, Goto, Fail
<1>0. TypeOK /\ SizeOK /\ CapacityAssumption
  BY CapacityAssumption DEF IInv
<1>1. CASE UNCHANGED vars \/ Undefined
  BY <1>1 DEF vars, Undefined
<1>2. ASSUME NEW u \in Threads, GetStep(u) PROVE FALSE
  BY <1>2 DEF GetStep, GetLock, GetMove, GetMoveErased, GetUnlock, GetReturn,
     GetReturnDeleted
<1>3. ASSUME NEW u \in Threads, AddStep(u) PROVE Excused(t)
  <2>1. CASE AddEvict(u)
    <3>1. ref[t] = list.prev[tail]
      BY <2>1 DEF AddEvict, NodeDeleted
    <3>2. size = Capacity + 1
      BY <1>0, <2>1 DEF AddEvict, SizeOK, Evicting
    <3> QED
      BY <3>1, <3>2, CapacityAssumption DEF Excused
  <2>2. CASE AddUpdate(u)
    BY <2>2 DEF AddUpdate, ValueDeleted
  <2>3. CASE AddInsert(u)
    BY <2>3, InsertRehash DEF Excused
  <2>4. CASE AddLock(u) \/ AddUnlock(u) \/ AddThrow(u)
    BY <2>4 DEF AddLock, AddUnlock, AddThrow
  <2> QED
    BY <1>3, <2>1, <2>2, <2>3, <2>4 DEF AddStep
<1>4. ASSUME NEW u \in Threads, Call(u) PROVE FALSE
  <2>1. ASSUME NEW k \in Keys, GetFind(u, k) PROVE FALSE
    BY <1>0, <2>1 DEF GetFind, TypeOK
  <2>2. ASSUME NEW k \in Keys, NEW r \in Responses, AddCall(u, k, r) PROVE FALSE
    BY <1>0, <2>2, DistinctNull DEF AddCall, TypeOK
  <2> QED
    BY <1>4, <2>1, <2>2 DEF Call, GetRace, GetMiss, vars
<1>5. ASSUME NEW u \in Threads, Caller(u) PROVE FALSE
  BY <1>0, <1>5, DistinctNull
     DEF Caller, UseResponse, UseDeleted, Release, Freshen, vars, TypeOK
<1> QED
  BY <1>1, <1>2, <1>3, <1>4, <1>5 DEF Next

(***************************************************************************)
(* The iterator that get_response found without the mutex is lost only by  *)
(* the eviction of its own entry from a full cache, or when the map        *)
(* outgrows its buckets (cache.cpp:33-39, 52-58).                          *)
(***************************************************************************)
THEOREM IteratorsKept == Spec => IteratorsSurvive
<1>1. IInv /\ [Next]_vars =>
        [\A t \in Threads : Lost(t) => Excused(t)]_vars
  BY IteratorStep
<1>2. (\A t \in Threads : Lost(t) => Excused(t)) <=>
        \A t \in Threads :
          /\ pc[t] \in {"get_lock", "get_move"}
          /\ ref[t] # Dangling /\ ref'[t] = Dangling
          => \/ size > Capacity /\ ref[t] = list.prev[tail]
             \/ size' > buckets
  BY DEF Lost, Excused
<1> QED
  BY <1>1, <1>2, CacheInvariant, PTL DEF Spec, IteratorsSurvive
==========================================================================
