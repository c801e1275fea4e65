------------------------- MODULE CacheRefinesLRU -------------------------
(***************************************************************************)
(* The proof that the concurrent cache implements the atomic LRU map of    *)
(* module LRU, under the refinement mapping of module Cache.               *)
(***************************************************************************)
EXTENDS CacheProofs

\* The recency order of all the keys in the map, the victim's included.
MapOrder ==
  {p \in Keys \X Keys :
     /\ p[1] \in InMap /\ p[2] \in InMap
     /\ <<response_map[p[1]], response_map[p[2]]>> \in older}

AllEntries ==
  [k \in Keys |-> IF k \in InMap THEN value[response_map[k]] ELSE NULL]

Victim == key[list.prev[tail]]

---------------------------------------------------------------------------
(* The mapping *)

\* The abstract map counts its keys as the detailed one does.
LEMMA SameCardinality == \A S : Abstract!Cardinality(S) = Cardinality(S)
BY DEF Cardinality, Abstract!Cardinality

\* Outside an eviction all keys of the map are visible.
LEMMA VisibleAll ==
  ASSUME IInv, ~Evicting
  PROVE  /\ VisibleEntries = AllEntries /\ VisibleOrder = MapOrder
         /\ Abstract!Cached = InMap
<1>1. \A k \in Keys : Visible(k) <=> k \in InMap
  BY DEF Visible, InMap
<1>2. VisibleEntries = AllEntries /\ VisibleOrder = MapOrder
  BY <1>1 DEF VisibleEntries, AllEntries, VisibleOrder, MapOrder
<1>3. \A k \in InMap : value[response_map[k]] \in Responses
  BY DEF IInv, MapOK
<1>4. Abstract!Cached = InMap
  BY <1>2, <1>3, DistinctNull DEF Abstract!Cached, AllEntries, InMap
<1> QED
  BY <1>2, <1>4

\* The same of the next state.
LEMMA VisibleAllNext ==
  ASSUME ~Evicting'
  PROVE  VisibleEntries' = AllEntries' /\ VisibleOrder' = MapOrder'
<1>1. \A k \in Keys : Visible(k)' <=> k \in InMap'
  BY DEF Visible, InMap
<1> QED
  BY <1>1 DEF VisibleEntries, AllEntries, VisibleOrder, MapOrder

\* During an eviction all but the victim are.
LEMMA VisibleButVictim ==
  ASSUME IInv, Evicting
  PROVE  /\ Victim \in InMap
         /\ VisibleEntries = [AllEntries EXCEPT ![Victim] = NULL]
         /\ VisibleOrder = {p \in MapOrder : Victim \notin {p[1], p[2]}}
<1>1. list.prev[tail] \in Listed
  BY VictimListed
<1>2. Victim \in InMap /\ response_map[Victim] = list.prev[tail]
  BY <1>1, ListedNode DEF IInv, Victim
<1>3. \A k \in Keys : Visible(k) <=> k \in InMap /\ k # Victim
  BY <1>2 DEF Visible, InMap, IInv, MapOK, Victim
<1>4. VisibleEntries = [AllEntries EXCEPT ![Victim] = NULL]
  BY <1>3 DEF VisibleEntries, AllEntries
<1>5. VisibleOrder = {p \in MapOrder : Victim \notin {p[1], p[2]}}
  BY <1>3 DEF VisibleOrder, MapOrder
<1> QED
  BY <1>2, <1>4, <1>5

\* The same of the next state; the victim is the least recently used.
LEMMA VisibleNext ==
  ASSUME IInv', Evicting'
  PROVE  /\ Victim' \in InMap'
         /\ VisibleEntries' = [AllEntries' EXCEPT ![Victim'] = NULL]
         /\ VisibleOrder' = {p \in MapOrder' : Victim' \notin {p[1], p[2]}}
         /\ response_map'[Victim'] = list'.prev[tail]
         /\ \A j \in InMap' \ {Victim'} : <<Victim', j>> \in MapOrder'
<1>0. TypeOK' /\ MapOK' /\ SizeOK' /\ ListOK'
  BY DEF IInv
<1>1. InMap' # {}
  BY <1>0, FS_EmptySet, CapacityAssumption DEF SizeOK
<1>2. Listed' # {} /\ Listed' \in SUBSET Nodes /\ list' \in Links
  BY <1>0, <1>1 DEF Listed, InMap, TypeOK, Links
<1>3. IsOrder(older', Listed') /\ WellLinked(list', Listed', older')
  BY <1>0 DEF ListOK
<1>4. /\ list'.prev[tail] \in Listed'
      /\ \A d \in Listed' \ {list'.prev[tail]} : <<list'.prev[tail], d>> \in older'
  BY <1>2, <1>3, TailIsOldest
<1>5. Victim' \in InMap' /\ response_map'[Victim'] = list'.prev[tail]
  BY <1>0, <1>4 DEF MapOK, Listed, Victim
<1>6. \A k \in InMap' : /\ response_map'[k] \in Listed'
                        /\ response_map'[k] = list'.prev[tail] => k = Victim'
  BY <1>0 DEF MapOK, Listed, Victim
<1>7. \A k \in Keys : Visible(k)' <=> k \in InMap' /\ k # Victim'
  BY <1>5, <1>6 DEF Visible, InMap
<1>8. VisibleEntries' = [AllEntries' EXCEPT ![Victim'] = NULL]
  BY <1>7 DEF VisibleEntries, AllEntries
<1>9. VisibleOrder' = {p \in MapOrder' : Victim' \notin {p[1], p[2]}}
  BY <1>7 DEF VisibleOrder, MapOrder
<1>10. \A j \in InMap' \ {Victim'} : <<Victim', j>> \in MapOrder'
  BY <1>4, <1>5, <1>6 DEF MapOrder, InMap
<1> QED
  BY <1>5, <1>8, <1>9, <1>10

\* A step that leaves alone what the mapping reads.
LEMMA StutterStep ==
  ASSUME UNCHANGED <<response_map, list, value, older>>, Evicting' = Evicting
  PROVE  UNCHANGED Abstract!lruVars
BY DEF Abstract!lruVars, VisibleEntries, VisibleOrder, Visible

\* When node n comes to the front of the list, its key k becomes the most
\* recently used of the keys of the map.
LEMMA TouchedOrder ==
  ASSUME IInv, NEW k \in Keys, NEW n \in Nodes,
         InMap' = InMap \cup {k},
         \A j \in Keys : response_map'[j] = IF j = k THEN n ELSE response_map[j],
         \A j \in InMap : response_map[j] = n => j = k,
         older' = Newest(Drop(older, n), Listed \ {n}, n)
  PROVE  MapOrder' = {p \in MapOrder : k \notin {p[1], p[2]}}
                       \cup {<<j, k>> : j \in InMap \ {k}}
<1> DEFINE new == {p \in MapOrder : k \notin {p[1], p[2]}}
                    \cup {<<j, k>> : j \in InMap \ {k}}
<1>1. \A j \in InMap \ {k} : /\ response_map[j] \in Listed \ {n}
                             /\ response_map'[j] = response_map[j]
                             /\ response_map'[j] \in Nodes /\ j \in Keys
  BY DEF Listed, InMap, IInv, TypeOK
<1>2. response_map'[k] = n /\ n # head /\ n # tail
  BY DistinctCells
<1>3. \A c, d : <<c, d>> \in older' <=>
         \/ <<c, d>> \in older /\ n \notin {c, d}
         \/ c \in (Listed \ {n}) \cup {tail} /\ d = n
         \/ c = n /\ d = head
  BY DEF Newest, Drop
<1>4. \A i, j : <<i, j>> \in MapOrder' <=>
         /\ i \in InMap \cup {k} /\ j \in InMap \cup {k}
         /\ <<response_map'[i], response_map'[j]>> \in older'
  BY DEF MapOrder, InMap
<1>5. \A i, j : <<i, j>> \in MapOrder <=>
         /\ i \in InMap /\ j \in InMap
         /\ <<response_map[i], response_map[j]>> \in older
  BY DEF MapOrder, InMap
<1>6. ASSUME NEW i \in InMap \cup {k}, NEW j \in InMap \cup {k}
      PROVE  <<i, j>> \in MapOrder' <=> <<i, j>> \in new
  <2>1. CASE i # k /\ j # k
    <3>1. response_map'[i] # n /\ response_map'[j] # n /\ response_map'[j] # head
      BY <1>1, <2>1, DistinctCells
    <3>2. <<i, j>> \in MapOrder' <=> <<response_map[i], response_map[j]>> \in older
      BY <1>1, <1>3, <1>4, <2>1, <3>1
    <3> QED
      BY <1>5, <2>1, <3>2
  <2>2. CASE i # k /\ j = k
    BY <1>1, <1>2, <1>3, <1>4, <2>2
  <2>3. CASE i = k
    <3>1. response_map'[j] # head
      BY <1>1, <1>2, DistinctCells
    <3>2. <<i, j>> \notin MapOrder'
      BY <1>2, <1>3, <1>4, <2>3, <3>1, DistinctCells
    <3> QED
      BY <2>3, <3>2
  <2> QED
    BY <2>1, <2>2, <2>3
<1>7. \A p \in MapOrder' : /\ p = <<p[1], p[2]>>
                           /\ p[1] \in InMap \cup {k} /\ p[2] \in InMap \cup {k}
  BY DEF MapOrder
<1>8. \A p \in new : /\ p = <<p[1], p[2]>>
                     /\ p[1] \in InMap \cup {k} /\ p[2] \in InMap \cup {k}
  BY DEF MapOrder
<1> HIDE DEF new
<1>9. MapOrder' = new
  BY <1>6, <1>7, <1>8
<1> QED
  BY <1>9 DEF new

---------------------------------------------------------------------------
(* The steps that are not stutters *)

\* A lookup that hits is a use of its key.
LEMMA GetMoveUses ==
  ASSUME IInv, NEW t \in Threads, GetMove(t)
  PROVE  Abstract!LRUNext
<1> USE DEF GetMove, Goto
<1> DEFINE n == ref[t]
           k == key[n]
<1>0. TypeOK /\ MapOK /\ MutexOK /\ RefOK
  BY DEF IInv
<1>1. n \in Listed
  BY <1>0 DEF RefOK, InGet
<1>2. n \in Nodes /\ k \in InMap /\ response_map[k] = n
  BY <1>0, <1>1, ListedNode
<1>3. ~Evicting /\ ~Evicting'
  BY <1>0 DEF Evicting, MutexOK, TypeOK, InGet, InAdd
<1>4. \A j \in InMap : response_map[j] = n => j = k
  BY <1>0 DEF MapOK
<1>5. /\ InMap' = InMap /\ InMap = InMap \cup {k} /\ k \in Keys
      /\ \A j \in Keys : response_map'[j] = IF j = k THEN n ELSE response_map[j]
  BY <1>2 DEF InMap
<1>6. MapOrder' = {p \in MapOrder : k \notin {p[1], p[2]}}
                    \cup {<<j, k>> : j \in InMap \ {k}}
  BY <1>2, <1>4, <1>5, TouchedOrder DEF Moved
<1>7. /\ VisibleEntries = AllEntries /\ VisibleOrder = MapOrder
      /\ Abstract!Cached = InMap
      /\ VisibleEntries' = AllEntries' /\ VisibleOrder' = MapOrder'
  BY <1>3, VisibleAll, VisibleAllNext
<1>8. AllEntries' = AllEntries
  BY <1>5 DEF AllEntries
<1>9. Abstract!Use(k)
  BY <1>2, <1>6, <1>7, <1>8 DEF Abstract!Use, Abstract!Touch
<1> QED
  BY <1>2, <1>9 DEF Abstract!LRUNext, InMap

\* Renewing a response in place revises its entry, unless it is the victim's.
LEMMA FreshenRevises ==
  ASSUME IInv, NEW t \in Threads, NEW r \in Responses, Freshen(t, r)
  PROVE  Abstract!LRUNext \/ UNCHANGED Abstract!lruVars
<1> USE DEF Freshen
<1> DEFINE n == ref[t]
           k == key[n]
<1>0. TypeOK /\ MapOK /\ RefOK
  BY DEF IInv
<1>1. n \in Listed
  BY <1>0 DEF RefOK, InGet
<1>2. n \in Nodes /\ k \in Keys /\ k \in InMap /\ response_map[k] = n
  BY <1>0, <1>1, ListedNode DEF InMap
<1>3. \A j \in InMap : response_map[j] = n <=> j = k
  BY <1>0, <1>2 DEF MapOK
<1>4. \A j \in Keys : Visible(j)' <=> Visible(j)
  BY DEF Visible, Evicting
<1>5. VisibleOrder' = VisibleOrder
  BY <1>4 DEF VisibleOrder
<1>6. \A j \in Keys : Visible(j) =>
         value'[response_map[j]] = IF j = k THEN r ELSE value[response_map[j]]
  BY <1>0, <1>2, <1>3 DEF Visible, InMap, TypeOK
<1>7. CASE Visible(k)
  <2>1. VisibleEntries' = [VisibleEntries EXCEPT ![k] = r]
    BY <1>2, <1>4, <1>6, <1>7 DEF VisibleEntries
  <2>2. VisibleEntries[k] # NULL
    BY <1>0, <1>2, <1>7, DistinctNull DEF VisibleEntries, MapOK
  <2>3. Abstract!Revise(k, r)
    BY <1>2, <1>5, <2>1, <2>2 DEF Abstract!Revise, Abstract!Cached
  <2> QED
    BY <1>2, <2>3 DEF Abstract!LRUNext
<1>8. CASE ~Visible(k)
  <2>1. VisibleEntries' = VisibleEntries
    BY <1>4, <1>6, <1>8 DEF VisibleEntries
  <2> QED
    BY <1>5, <2>1 DEF Abstract!lruVars
<1> QED
  BY <1>7, <1>8

\* An insertion puts its key, and if the cache overflows the eviction to
\* come has happened already for the abstract map.
LEMMA AddInsertPuts ==
  ASSUME IInv, IInv', NEW t \in Threads, AddInsert(t)
  PROVE  Abstract!LRUNext
<1> USE DEF AddInsert, Goto
<1> DEFINE k == uri[t]
           r == arg[t]
<1>0. TypeOK /\ MapOK /\ MutexOK /\ SizeOK /\ ListOK
  BY DEF IInv
<1>1. PICK n \in Nodes \ live :
        /\ value' = [value EXCEPT ![n] = r]
        /\ response_map' = [response_map EXCEPT ![k] = n]
        /\ list' = add_to_head(list, n)
        /\ older' = Newest(older, Listed, n)
  OBVIOUS
<1>2. /\ k \in Keys \ InMap /\ r \in Responses
      /\ InMap' = InMap \cup {k} /\ n \notin Listed
  BY <1>1, InsertContents
<1>3. ~Evicting
  BY <1>0 DEF Evicting, MutexOK, TypeOK, InAdd
<1>4. \A j \in Keys : response_map'[j] = IF j = k THEN n ELSE response_map[j]
  BY <1>0, <1>1, <1>2 DEF TypeOK
<1>5. \A j \in InMap : response_map[j] \in Listed /\ response_map[j] # n
  BY <1>2 DEF Listed
<1>6. older' = Newest(Drop(older, n), Listed \ {n}, n)
  <2>1. n # head /\ n # tail
    BY DistinctCells
  <2>2. Drop(older, n) = older
    BY <1>0, <1>2, <2>1 DEF Drop, ListOK, IsOrder
  <2>3. Listed \ {n} = Listed
    BY <1>2
  <2> QED
    BY <1>1, <2>2, <2>3
<1>7. MapOrder' = {p \in MapOrder : k \notin {p[1], p[2]}}
                    \cup {<<j, k>> : j \in InMap \ {k}}
  BY <1>2, <1>4, <1>5, <1>6, TouchedOrder
<1>8. /\ VisibleEntries = AllEntries /\ VisibleOrder = MapOrder
      /\ Abstract!Cached = InMap
  BY <1>3, VisibleAll
<1>9. MapOrder' = Abstract!Touch(Abstract!Cached, k)
  BY <1>7, <1>8 DEF Abstract!Touch
<1>10. AllEntries' = [AllEntries EXCEPT ![k] = r]
  <2>1. \A j \in InMap : value'[response_map[j]] = value[response_map[j]]
    BY <1>0, <1>1, <1>5 DEF TypeOK
  <2>2. value'[n] = r
    BY <1>0, <1>1 DEF TypeOK
  <2>3. \A j \in InMap : j # k /\ j \in Keys
    BY <1>2 DEF InMap
  <2>4. \A j \in Keys : (IF j \in InMap' THEN value'[response_map'[j]] ELSE NULL)
                       = IF j = k THEN r ELSE
                           IF j \in InMap THEN value[response_map[j]] ELSE NULL
    BY <1>2, <1>4, <2>1, <2>2, <2>3
  <2> QED
    BY <2>4 DEF AllEntries
<1>11. size = Cardinality(InMap) /\ size \in Nat /\ size <= Capacity
  BY <1>0, <1>3 DEF SizeOK, TypeOK
<1>12. Evicting' <=> size + 1 > Capacity
  BY <1>0, <1>3 DEF Evicting, TypeOK
<1>13. CASE ~Evicting'
  <2>1. VisibleEntries' = AllEntries' /\ VisibleOrder' = MapOrder'
    BY <1>13, VisibleAllNext
  <2>2. Abstract!Cardinality(Abstract!Cached) < Capacity
    BY <1>8, <1>11, <1>12, <1>13, CapacityAssumption, SameCardinality
  <2>3. Abstract!Put(k, r)
    <3> HIDE DEF k, r
    <3> QED
      BY <1>8, <1>9, <1>10, <2>1, <2>2 DEF Abstract!Put
  <2> QED
    BY <1>2, <2>3 DEF Abstract!LRUNext
<1>14. CASE Evicting'
  <2> DEFINE v == Victim'
  <2>1. /\ v \in InMap'
        /\ VisibleEntries' = [AllEntries' EXCEPT ![v] = NULL]
        /\ VisibleOrder' = {p \in MapOrder' : v \notin {p[1], p[2]}}
        /\ response_map'[v] = list'.prev[tail]
        /\ \A j \in InMap' \ {v} : <<v, j>> \in MapOrder'
    BY <1>14, VisibleNext DEF v
  <2>2. Abstract!Cardinality(Abstract!Cached) = Capacity
    BY <1>8, <1>11, <1>12, <1>14, CapacityAssumption, SameCardinality
  <2> HIDE DEF v
  <2>3. v \in Keys /\ v \in Abstract!Cached \cup {k}
    BY <1>2, <1>8, <2>1 DEF InMap
  <2>4. \A j \in (Abstract!Cached \cup {k}) \ {v} :
           <<v, j>> \in Abstract!Touch(Abstract!Cached, k)
    BY <1>2, <1>8, <1>9, <2>1
  <2>5. Abstract!PutEvict(k, r, v)
    <3>1. k \notin Abstract!Cached
      BY <1>2, <1>8
    <3>2. VisibleEntries' = [[VisibleEntries EXCEPT ![k] = r] EXCEPT ![v] = NULL]
      BY <1>8, <1>10, <2>1
    <3>3. VisibleOrder' = {p \in Abstract!Touch(Abstract!Cached, k) : v \notin {p[1], p[2]}}
      BY <1>9, <2>1
    <3> HIDE DEF k, r
    <3> QED
      BY <2>2, <2>3, <2>4, <3>1, <3>2, <3>3 DEF Abstract!PutEvict
  <2> QED
    BY <1>2, <2>3, <2>5 DEF Abstract!LRUNext
<1> QED
  BY <1>13, <1>14

\* The eviction itself is invisible: the victim was gone already.
LEMMA AddEvictStutters ==
  ASSUME IInv, NEW t \in Threads, AddEvict(t)
  PROVE  UNCHANGED Abstract!lruVars
<1> USE DEF AddEvict, Goto
<1> DEFINE n == list.prev[tail]
<1>0. TypeOK /\ MapOK /\ MutexOK
  BY DEF IInv
<1>1. Evicting
  BY DEF Evicting
<1>2. ~Evicting'
  BY <1>0 DEF Evicting, MutexOK, InAdd, TypeOK
<1>3. /\ Victim \in InMap
      /\ VisibleEntries = [AllEntries EXCEPT ![Victim] = NULL]
      /\ VisibleOrder = {p \in MapOrder : Victim \notin {p[1], p[2]}}
  BY <1>1, VisibleButVictim
<1>4. VisibleEntries' = AllEntries' /\ VisibleOrder' = MapOrder'
  BY <1>2, VisibleAllNext
<1>5. n \in Listed /\ InMap' = InMap \ {Victim}
  BY <1>1, EvictContents DEF Victim
<1>6. \A k \in InMap \ {Victim} : /\ k \in Keys
                                  /\ response_map'[k] = response_map[k]
                                  /\ response_map[k] # n
  BY <1>0, <1>3 DEF InMap, TypeOK, MapOK, Victim
<1>7. AllEntries' = [AllEntries EXCEPT ![Victim] = NULL]
  <2>1. \A k \in InMap \ {Victim} :
           value'[response_map[k]] = value[response_map[k]]
    BY <1>0, <1>6 DEF InMap, TypeOK
  <2>2. \A k \in Keys : (IF k \in InMap' THEN value'[response_map'[k]] ELSE NULL)
                       = IF k = Victim THEN NULL ELSE
                           IF k \in InMap THEN value[response_map[k]] ELSE NULL
    BY <1>5, <1>6, <2>1
  <2> QED
    BY <2>2 DEF AllEntries
<1>8. MapOrder' = {p \in MapOrder : Victim \notin {p[1], p[2]}}
  <2>1. older' = {p \in older : n \notin {p[1], p[2]}}
    BY DEF Drop
  <2>2. \A i, j \in InMap \ {Victim} :
           <<response_map'[i], response_map'[j]>> \in older'
             <=> <<response_map[i], response_map[j]>> \in older
    BY <1>6, <2>1
  <2> QED
    BY <1>5, <2>2 DEF MapOrder
<1> QED
  BY <1>3, <1>4, <1>7, <1>8 DEF Abstract!lruVars

\* An update puts its key, which was there.
LEMMA AddUpdatePuts ==
  ASSUME IInv, NEW t \in Threads, AddUpdate(t)
  PROVE  Abstract!LRUNext
<1> USE DEF AddUpdate, Goto
<1> DEFINE k == uri[t]
           r == arg[t]
           n == response_map[k]
<1>0. TypeOK /\ MapOK /\ MutexOK /\ ArgOK
  BY DEF IInv
<1>1. k \in Keys /\ r \in Responses /\ k \in InMap /\ n \in Nodes
  BY <1>0 DEF ArgOK, InAdd, InMap, TypeOK
<1>2. ~Evicting /\ ~Evicting'
  BY <1>0 DEF Evicting, MutexOK, TypeOK, InAdd
<1>3. \A j \in InMap : response_map[j] = n <=> j = k
  BY <1>0, <1>1 DEF MapOK
<1>4. /\ InMap' = InMap \cup {k}
      /\ \A j \in Keys : response_map'[j] = IF j = k THEN n ELSE response_map[j]
  BY <1>1 DEF InMap
<1>5. MapOrder' = {p \in MapOrder : k \notin {p[1], p[2]}}
                    \cup {<<j, k>> : j \in InMap \ {k}}
  BY <1>1, <1>3, <1>4, TouchedOrder DEF Moved
<1>6. /\ VisibleEntries = AllEntries /\ VisibleOrder = MapOrder
      /\ Abstract!Cached = InMap
      /\ VisibleEntries' = AllEntries' /\ VisibleOrder' = MapOrder'
  BY <1>2, VisibleAll, VisibleAllNext
<1>7. AllEntries' = [AllEntries EXCEPT ![k] = r]
  <2>1. \A j \in InMap : value'[response_map[j]] =
                            IF j = k THEN r ELSE value[response_map[j]]
    BY <1>0, <1>1, <1>3 DEF TypeOK
  <2>2. \A j \in Keys : (IF j \in InMap' THEN value'[response_map'[j]] ELSE NULL)
                       = IF j = k THEN r ELSE
                           IF j \in InMap THEN value[response_map[j]] ELSE NULL
    BY <1>1, <1>4, <2>1
  <2> QED
    BY <2>2 DEF AllEntries
<1>8. Abstract!Put(k, r)
  <2> HIDE DEF k, r
  <2> QED
    BY <1>1, <1>5, <1>6, <1>7 DEF Abstract!Put, Abstract!Touch
<1> QED
  BY <1>1, <1>8 DEF Abstract!LRUNext

---------------------------------------------------------------------------
(* The theorem *)

LEMMA InitRefines == Init => Abstract!LRUInit
<1> SUFFICES ASSUME Init PROVE Abstract!LRUInit
  OBVIOUS
<1>1. \A k \in Keys : ~Visible(k)
  BY DEF Init, Visible
<1> QED
  BY <1>1 DEF Abstract!LRUInit, VisibleEntries, VisibleOrder

LEMMA StepRefines ==
  ASSUME IInv, IInv', [Next]_vars
  PROVE  Abstract!LRUNext \/ UNCHANGED Abstract!lruVars
<1>0. TypeOK /\ MutexOK
  BY DEF IInv
<1> USE DEF contents
<1>1. CASE UNCHANGED vars
  <2>1. Evicting' = Evicting
    BY <1>1 DEF vars, Evicting
  <2> QED
    BY <1>1, <2>1, StutterStep DEF vars
<1>2. ASSUME NEW kind, Fail(kind)
      PROVE  UNCHANGED Abstract!lruVars
  <2>1. Evicting' = Evicting
    BY <1>2 DEF Fail, Evicting
  <2> QED
    BY <1>2, <2>1, StutterStep DEF Fail
<1>3. ASSUME NEW t \in Threads, GetStep(t)
      PROVE  Abstract!LRUNext \/ UNCHANGED Abstract!lruVars
  <2>1. CASE GetLock(t) \/ GetUnlock(t) \/ GetReturn(t)
    <3>1. Evicting' = Evicting
      BY <1>0, <2>1 DEF GetLock, GetUnlock, GetReturn, Goto, Evicting, TypeOK
    <3> QED
      BY <2>1, <3>1, StutterStep DEF GetLock, GetUnlock, GetReturn
  <2>2. CASE GetMoveErased(t) \/ GetReturnDeleted(t)
    BY <1>2, <2>2 DEF GetMoveErased, GetReturnDeleted
  <2> QED
    BY <1>3, <2>1, <2>2, GetMoveUses DEF GetStep
<1>4. ASSUME NEW t \in Threads, AddStep(t)
      PROVE  Abstract!LRUNext \/ UNCHANGED Abstract!lruVars
  <2>1. CASE AddLock(t) \/ AddUnlock(t) \/ AddThrow(t)
    <3>1. Evicting' = Evicting
      BY <1>0, <2>1 DEF AddLock, AddUnlock, AddThrow, Goto, Evicting, TypeOK
    <3> QED
      BY <2>1, <3>1, StutterStep DEF AddLock, AddUnlock, AddThrow
  <2> QED
    BY <1>4, <2>1, AddInsertPuts, AddEvictStutters, AddUpdatePuts DEF AddStep
<1>5. ASSUME NEW t \in Threads, Call(t)
      PROVE  UNCHANGED Abstract!lruVars
  <2>1. CASE GetRace(t)
    BY <1>2, <2>1 DEF GetRace
  <2>2. ASSUME NEW k \in Keys, GetMiss(t, k) PROVE UNCHANGED Abstract!lruVars
    BY <1>1, <2>2, StutterStep DEF GetMiss, vars, Evicting
  <2>3. ASSUME NEW k \in Keys, GetFind(t, k) PROVE UNCHANGED Abstract!lruVars
    <3>1. Evicting' = Evicting
      BY <1>0, <2>3 DEF GetFind, Goto, Evicting, TypeOK
    <3> QED
      BY <2>3, <3>1, StutterStep DEF GetFind
  <2>4. ASSUME NEW k \in Keys, NEW r \in Responses, AddCall(t, k, r)
        PROVE  UNCHANGED Abstract!lruVars
    <3>1. Evicting' = Evicting
      BY <1>0, <2>4 DEF AddCall, Evicting, TypeOK
    <3> QED
      BY <2>4, <3>1, StutterStep DEF AddCall
  <2> QED
    BY <1>5, <2>1, <2>2, <2>3, <2>4 DEF Call
<1>6. ASSUME NEW t \in Threads, Caller(t)
      PROVE  Abstract!LRUNext \/ UNCHANGED Abstract!lruVars
  <2>1. CASE UseResponse(t)
    BY <2>1, StutterStep DEF UseResponse, vars, Evicting
  <2>2. CASE UseDeleted(t)
    BY <1>2, <2>2 DEF UseDeleted
  <2>3. CASE Release(t)
    <3>1. Evicting' = Evicting
      BY <1>0, <2>3 DEF Release, Goto, Evicting, TypeOK
    <3> QED
      BY <2>3, <3>1, StutterStep DEF Release
  <2> QED
    BY <1>6, <2>1, <2>2, <2>3, FreshenRevises DEF Caller
<1> QED
  BY <1>1, <1>3, <1>4, <1>5, <1>6 DEF Next, Undefined, vars

(***************************************************************************)
(* The cache of any size, used by any number of threads, is an atomic LRU  *)
(* map: every call of get_response that hits is a use of its key, every    *)
(* call of add_response a put that evicts the least recently used entry    *)
(* when the cache is full (cache.cpp, as cache.hpp:89-111 presents it).    *)
(***************************************************************************)
THEOREM CacheImplementsLRU == Spec => ImplementsLRU
<1>1. Init => Abstract!LRUInit
  BY InitRefines
<1>2. IInv /\ IInv' /\ [Next]_vars => [Abstract!LRUNext]_(Abstract!lruVars)
  BY StepRefines
<1> QED
  BY <1>1, <1>2, CacheInvariant, PTL
  DEF Spec, ImplementsLRU, Abstract!LRUSpec
==========================================================================
