------------------------ MODULE TestcaseCacheProofs ------------------------
(***************************************************************************)
(* Proofs, for any entries, lengths and limits, that the slots, buffers    *)
(* and files of the test case cache agree, that in_buf stays valid and     *)
(* that every search for a slot ends inside the array (TestcaseCache).     *)
(***************************************************************************)
EXTENDS TestcaseCache, FiniteSetTheorems, TLAPS

\* Most steps are first-order; those that need arithmetic or records cite SMT.
USE Zenon

\* calloc gives max_entries slots; the realloc that follows the learning of
\* max_entries gives one more.
LastIndex == IF do_once THEN max_entries ELSE max_entries - 1

\* The array, its counters and the buffers.
ArrayInv ==
  /\ max_entries \in 1 .. MaxEntries /\ (~do_once => max_entries = MaxEntries)
  /\ max_count \in 0 .. max_entries
  /\ smallest_free \in Nat /\ cache_size \in Int /\ do_once \in BOOLEAN
  /\ cache \in [0 .. LastIndex -> Entries \cup {NoEntry}]
  /\ testcase_buf \in [Entries -> Buffers \cup {Null}]
  /\ \A s \in Occupied : s < max_count
  /\ \A s \in 0 .. (smallest_free - 1) : s \in Occupied
  /\ \A q \in Entries : IsCached(q) <=> \E s \in Occupied : cache[s] = q
  /\ \A r, s \in Occupied : cache[r] = cache[s] => r = s
  /\ cache_count = Cardinality(Occupied)

\* The entries: what is cached is queued, and is its file.
QueueInv ==
  /\ queued \in SUBSET Entries
  /\ len \in [Entries -> Lens]
  /\ disk \in [Entries -> {0, 1}]
  /\ trim_done \in [Entries -> BOOLEAN] /\ overrun \in BOOLEAN
  /\ \A q \in Entries : IsCached(q) => q \in queued
  /\ CachedIsFile

\* fuzz_one: in_buf is set by a load of the current entry, and while it trims
\* it knows whether the entry is cached.
FuzzInv ==
  /\ stage \in {"pick", "load", "trim", "reload", "havoc"}
  /\ queue_cur \in Entries \cup {NoEntry}
  /\ in_buf \in {"none", "cached", "private"}
  /\ stage # "pick" => queue_cur \in queued
  /\ stage = "pick" => in_buf = "none"
  /\ stage = "trim" => (in_buf = "cached" <=> IsCached(queue_cur))
  /\ InBufValid

\* queue_testcase_get: the entry it loads has no slot yet, and the slot that it
\* starts from is free.
GetInv ==
  /\ want \in Entries \cup {NoEntry}
  /\ tid \in Nat
  /\ want # NoEntry =>
       /\ want \in queued /\ ~IsCached(want)
       /\ stage \in {"load", "reload", "havoc"}
       /\ stage # "havoc" => want = queue_cur
       /\ tid <= max_count /\ tid \notin Occupied

IInv == ArrayInv /\ QueueInv /\ FuzzInv /\ GetInv

-----------------------------------------------------------------------------
\* A set of slots that is not empty has a first one.
LEMMA FirstSlot ==
  ASSUME NEW S \in SUBSET Nat, S # {}
  PROVE  \E i \in S : \A h \in S : i <= h
  <1>1. PICK i \in S : \A h \in S : ~(<<h, i>> \in OpToRel(<, Nat))
    BY NatLessThanWellFounded, WFMin
  <1>2. \A h \in S : ~(h < i)
    BY <1>1 DEF OpToRel
  <1> QED
    BY <1>2, SMT

\* The slots of the first max_entries are in the array.
LEMMA SlotsInArray ==
  ASSUME ArrayInv
  PROVE  /\ DOMAIN cache = 0 .. LastIndex /\ LastIndex \in Nat
         /\ 0 .. (max_entries - 1) \subseteq DOMAIN cache
         /\ Occupied \subseteq 0 .. (max_count - 1)
  <1>1. DOMAIN cache = 0 .. LastIndex
    BY DEF ArrayInv
  <1>2. max_entries \in Nat \ {0} /\ do_once \in BOOLEAN
    BY RoomForVictim, SMT DEF ArrayInv
  <1>3. LastIndex \in Nat /\ max_entries - 1 <= LastIndex
    BY <1>2, SMT DEF LastIndex
  <1>4. Occupied \subseteq 0 .. (max_count - 1)
    BY <1>1, <1>2, <1>3, SMT DEF ArrayInv, Occupied
  <1> QED
    BY <1>1, <1>2, <1>3, <1>4, SMT

\* Only finitely many slots are occupied.
LEMMA OccupiedFinite ==
  ASSUME ArrayInv
  PROVE  IsFiniteSet(Occupied) /\ Cardinality(Occupied) \in Nat
  <1>1. max_count - 1 \in Int
    BY RoomForVictim, SMT DEF ArrayInv
  <1>2. IsFiniteSet(0 .. (max_count - 1))
    BY <1>1, FS_Interval, SMT
  <1> QED
    BY <1>2, SlotsInArray, FS_Subset, FS_CardinalityType

\* The search from s on finds the first free slot, if there is one.
LEMMA FreeFromFinds ==
  ASSUME ArrayInv, NEW s \in Nat, NEW f \in DOMAIN cache, f >= s, cache[f] = NoEntry
  PROVE  FreeFrom(s) \in s .. f /\ FreeFrom(s) \in DOMAIN cache /\ cache[FreeFrom(s)] = NoEntry
  <1> DEFINE S == {g \in DOMAIN cache : g >= s /\ cache[g] = NoEntry}
  <1>1. DOMAIN cache \subseteq Nat
    BY SlotsInArray, SMT
  <1>2. S \in SUBSET Nat /\ S # {}
    BY <1>1
  <1>3. PICK i \in S : \A h \in S : i <= h
    <2> HIDE DEF S
    <2> QED
      BY <1>2, FirstSlot
  <1> DEFINE Is(g) == /\ g >= s /\ cache[g] = NoEntry
                      /\ \A h \in DOMAIN cache : h >= s /\ cache[h] = NoEntry => g <= h
  <1>4. \E g \in DOMAIN cache : Is(g)
    BY <1>3
  <1>5. FreeFrom(s) = CHOOSE g \in DOMAIN cache : Is(g)
    BY DEF FreeFrom
  <1>6. FreeFrom(s) \in DOMAIN cache /\ Is(FreeFrom(s))
    <2> HIDE DEF Is
    <2> QED
      BY <1>4, <1>5
  <1> QED
    BY <1>1, <1>6, SMT

\* With fewer entries than max_entries - 1 a slot is free, from smallest_free
\* on and before the end.
LEMMA RoomLeft ==
  ASSUME ArrayInv, cache_count < max_entries - 1
  PROVE  \E f \in 0 .. (max_entries - 1) :
           f \in DOMAIN cache /\ cache[f] = NoEntry /\ f >= smallest_free
  <1> DEFINE All == 0 .. (max_entries - 1)
  <1>1. max_entries \in Nat \ {0} /\ smallest_free \in Nat /\ All \subseteq DOMAIN cache
    BY RoomForVictim, SlotsInArray, SMT DEF ArrayInv
  <1>2. Cardinality(All) = max_entries
    <2>1. Cardinality(0 .. (max_entries - 1)) =
            IF 0 > max_entries - 1 THEN 0 ELSE max_entries - 1 - 0 + 1
      BY <1>1, FS_Interval, SMT
    <2> QED
      BY <1>1, <2>1, SMT
  <1>3. IsFiniteSet(Occupied) /\ Cardinality(Occupied) \in Nat
    BY OccupiedFinite
  <1>4. ~(All \subseteq Occupied)
    <2> HIDE DEF All
    <2>1. ASSUME All \subseteq Occupied PROVE Cardinality(All) <= Cardinality(Occupied)
      BY <1>3, <2>1, FS_Subset
    <2>2. Cardinality(Occupied) < max_entries - 1
      BY DEF ArrayInv
    <2> QED
      BY <1>1, <1>2, <1>3, <2>1, <2>2, SMT
  <1>5. PICK f \in All : f \notin Occupied
    BY <1>4
  <1>6. f >= smallest_free
    BY <1>1, <1>5, SMT DEF ArrayInv
  <1>7. f \in DOMAIN cache /\ cache[f] = NoEntry
    BY <1>1, <1>5 DEF Occupied
  <1> QED
    BY <1>5, <1>6, <1>7

-----------------------------------------------------------------------------
\* A loaded or stored entry gets a buffer that is not NULL.
LEMMA BufferOfEntry ==
  ASSUME QueueInv, NEW q \in Entries
  PROVE  /\ [cap |-> len[q], ver |-> disk[q]] \in Buffers
         /\ [cap |-> len[q], ver |-> disk[q]] # Null
  <1>1. len[q] \in Lens /\ disk[q] \in {0, 1} /\ len[q] # 0
    BY CacheAssumption DEF QueueInv
  <1> QED
    BY <1>1 DEF Buffers, Null

\* No buffer is NULL.
LEMMA BufferNotNull == \A b \in Buffers : b # Null
  BY CacheAssumption, SMT DEF Buffers, Null

\* Registering an entry in a free slot keeps array, counters and buffers in
\* agreement.
LEMMA RegisterArray ==
  ASSUME ArrayInv, QueueInv, NEW q \in Entries, ~IsCached(q),
         NEW s \in 0 .. (max_entries - 1), cache[s] = NoEntry, Register(q, s)
  PROVE  /\ ArrayInv'
         /\ testcase_buf' = [testcase_buf EXCEPT ![q] = [cap |-> len[q], ver |-> disk[q]]]
         /\ \A r \in Entries : IsCached(r)' <=> (r = q \/ IsCached(r))
         /\ overrun' = overrun
  <1> DEFINE b == [cap |-> len[q], ver |-> disk[q]]
  <1>1. b \in Buffers /\ b # Null
    BY BufferOfEntry
  <1>2. /\ testcase_buf' = [testcase_buf EXCEPT ![q] = b]
        /\ cache' = [cache EXCEPT ![s] = q]
        /\ cache_size' = (cache_size + len[q]) % U64
        /\ cache_count' = cache_count + 1
        /\ max_count' = (IF s >= max_count THEN s + 1 ELSE max_count)
        /\ smallest_free' = (IF s < max_count /\ s = smallest_free
                             THEN s + 1 ELSE smallest_free)
        /\ max_entries' = max_entries /\ do_once' = do_once /\ overrun' = overrun
    BY DEF Register
  <1> HIDE DEF b
  <1>3. /\ max_entries \in Nat \ {0} /\ max_count \in Nat /\ smallest_free \in Nat
        /\ s \in Nat /\ s < max_entries /\ max_count <= max_entries
        /\ testcase_buf \in [Entries -> Buffers \cup {Null}]
        /\ cache \in [0 .. LastIndex -> Entries \cup {NoEntry}]
    BY RoomForVictim, SMT DEF ArrayInv
  <1>4. s \in DOMAIN cache /\ s \notin Occupied /\ DOMAIN cache = 0 .. LastIndex
    BY SlotsInArray DEF Occupied
  <1>5. LastIndex' = LastIndex
    BY <1>2 DEF LastIndex
  <1>6. cache' \in [0 .. LastIndex' -> Entries \cup {NoEntry}]
    BY <1>2, <1>3, <1>5
  <1>7. Occupied' = Occupied \cup {s}
    BY <1>2, <1>4, CacheAssumption DEF Occupied
  <1>8. testcase_buf' \in [Entries -> Buffers \cup {Null}]
    BY <1>1, <1>2, <1>3
  <1>9. \A r \in Entries : IsCached(r)' <=> (r = q \/ IsCached(r))
    BY <1>1, <1>2, <1>3 DEF IsCached
  <1>10. cache_size' \in Int
    <2>1. len[q] \in Lens /\ cache_size \in Int
      BY DEF QueueInv, ArrayInv
    <2> QED
      BY <1>2, <2>1, CacheAssumption, SMT
  <1>11. max_count' \in 0 .. max_entries' /\ \A r \in Occupied' : r < max_count'
    BY <1>2, <1>3, <1>4, <1>7, SlotsInArray, SMT DEF ArrayInv
  <1>12. smallest_free' \in Nat /\ \A r \in 0 .. (smallest_free' - 1) : r \in Occupied'
    BY <1>2, <1>3, <1>7, SMT DEF ArrayInv
  <1>13. \A r \in Occupied : cache'[r] = cache[r] /\ cache[r] # q
    <2>1. \A r \in Occupied : cache[r] # q
      BY DEF ArrayInv
    <2> QED
      BY <1>2, <1>3, <1>4, <2>1 DEF Occupied
  <1>14. cache'[s] = q
    BY <1>2, <1>4
  <1>15. \A r \in Entries : IsCached(r)' <=> \E t \in Occupied' : cache'[t] = r
    BY <1>7, <1>9, <1>13, <1>14 DEF ArrayInv
  <1>16. \A r, t \in Occupied' : cache'[r] = cache'[t] => r = t
    BY <1>7, <1>13, <1>14, SMT DEF ArrayInv
  <1>17. cache_count' = Cardinality(Occupied')
    <2>1. IsFiniteSet(Occupied) /\ Cardinality(Occupied) \in Nat
      BY OccupiedFinite
    <2>2. Cardinality(Occupied \cup {s}) = Cardinality(Occupied) + 1
      BY <1>4, <2>1, FS_AddElement
    <2>3. cache_count = Cardinality(Occupied)
      BY DEF ArrayInv
    <2> QED
      BY <1>2, <1>7, <2>2, <2>3
  <1>18. max_entries' \in 1 .. MaxEntries /\ (~do_once' => max_entries' = MaxEntries)
         /\ do_once' \in BOOLEAN
    BY <1>2 DEF ArrayInv
  <1>19. ArrayInv'
    BY <1>6, <1>8, <1>10, <1>11, <1>12, <1>15, <1>16, <1>17, <1>18 DEF ArrayInv
  <1> QED
    BY <1>2, <1>9, <1>19 DEF b

\* Evicting an entry keeps them in agreement, also when the array shrinks.
LEMMA EvictArray ==
  ASSUME ArrayInv, QueueInv, want \in Entries, NEW t \in Victims, Evict(t)
  PROVE  /\ ArrayInv'
         /\ cache[t] \in Entries \ {queue_cur} /\ t < max_count /\ t \notin Occupied'
         /\ testcase_buf' = [testcase_buf EXCEPT ![cache[t]] = Null]
         /\ \A r \in Entries : IsCached(r)' <=> (r # cache[t] /\ IsCached(r))
  <1> DEFINE room == IF max_count > cache_count THEN max_count ELSE cache_count
             v == cache[t]
  <1>1. /\ max_entries \in Nat \ {0} /\ max_count \in Nat /\ smallest_free \in Nat
        /\ max_entries <= MaxEntries /\ max_count <= max_entries /\ MaxEntries \in Nat
        /\ testcase_buf \in [Entries -> Buffers \cup {Null}]
        /\ cache \in [0 .. LastIndex -> Entries \cup {NoEntry}]
        /\ cache_count \in Nat /\ LastIndex \in Nat
    BY RoomForVictim, OccupiedFinite, SlotsInArray, SMT DEF ArrayInv
  <1>2. /\ t \in 0 .. (max_count - 1) /\ t \in DOMAIN cache /\ t \in Occupied
        /\ v \in Entries \ {queue_cur}
    BY <1>1, SlotsInArray, SMT DEF Victims, Occupied
  <1>3. /\ testcase_buf' = [testcase_buf EXCEPT ![v] = Null]
        /\ cache_size' = (cache_size - len[v]) % U64
        /\ cache_count' = cache_count - 1
        /\ smallest_free' = (IF t < smallest_free THEN t ELSE smallest_free)
        /\ max_count' = max_count
    BY DEF Evict, Uncount, Freed
  <1>4. room \in Nat /\ max_count <= room
    BY <1>1, SMT
  <1>5. /\ max_entries' \in 1 .. MaxEntries /\ (~do_once' => max_entries' = MaxEntries)
        /\ do_once' \in BOOLEAN /\ max_count <= max_entries'
        /\ cache' \in [0 .. LastIndex' -> Entries \cup {NoEntry}]
        /\ \A s \in 0 .. (max_count - 1) : cache'[s] = IF s = t THEN NoEntry ELSE cache[s]
        /\ \A s \in DOMAIN cache' : s >= max_count => cache'[s] = NoEntry
        /\ 0 .. (max_count - 1) \subseteq DOMAIN cache'
    <2>1. CASE Learns(want)
      <3>1. /\ max_entries' = room + 1 /\ do_once' = TRUE
            /\ cache' = [s \in 0 .. (room + 1) |->
                           IF s = t \/ s \notin DOMAIN cache THEN NoEntry ELSE cache[s]]
        BY <2>1 DEF Evict, LastSlot
      <3>2. room < max_entries
        BY <2>1, <1>1 DEF Learns
      <3>3. LastIndex' = room + 1
        BY <3>1 DEF LastIndex
      <3> HIDE DEF room
      <3>4. max_entries' \in 1 .. MaxEntries /\ max_count <= max_entries'
        BY <1>1, <1>4, <3>1, <3>2, SMT
      <3>5. cache' \in [0 .. LastIndex' -> Entries \cup {NoEntry}]
        BY <1>1, <3>1, <3>3
      <3>6. 0 .. (max_count - 1) \subseteq DOMAIN cache'
        BY <1>1, <1>4, <3>1, SMT
      <3>7. 0 .. (max_count - 1) \subseteq DOMAIN cache
        BY <1>1, SlotsInArray, SMT
      <3>8. \A s \in 0 .. (max_count - 1) : cache'[s] = IF s = t THEN NoEntry ELSE cache[s]
        BY <1>1, <1>4, <3>1, <3>7, SMT
      <3>9. \A s \in DOMAIN cache' : s >= max_count => cache'[s] = NoEntry
        <4> SUFFICES ASSUME NEW s \in DOMAIN cache', s >= max_count, s \in DOMAIN cache
                     PROVE  cache[s] = NoEntry
          BY <3>1
        <4>1. s \notin Occupied
          BY <1>1, <3>1, SMT DEF ArrayInv
        <4> QED
          BY <4>1 DEF Occupied
      <3> QED
        BY <3>1, <3>4, <3>5, <3>6, <3>8, <3>9
    <2>2. CASE ~Learns(want)
      <3>1. /\ max_entries' = max_entries /\ do_once' = do_once
            /\ cache' = [cache EXCEPT ![t] = NoEntry]
        BY <2>2 DEF Evict
      <3>2. LastIndex' = LastIndex
        BY <3>1 DEF LastIndex
      <3>3. 0 .. (max_count - 1) \subseteq DOMAIN cache /\ DOMAIN cache' = DOMAIN cache
        BY <1>1, <3>1, SlotsInArray, SMT
      <3>4. \A s \in DOMAIN cache : s >= max_count => cache[s] = NoEntry
        BY <1>1, SMT DEF ArrayInv, Occupied
      <3> QED
        BY <1>1, <1>2, <3>1, <3>2, <3>3, <3>4 DEF ArrayInv
    <2> QED
      BY <2>1, <2>2
  <1> HIDE DEF room
  <1>6. DOMAIN cache' \subseteq Nat
    <2>1. LastIndex' \in Int /\ DOMAIN cache' = 0 .. LastIndex'
      BY <1>5, <1>1, SMT DEF LastIndex
    <2> QED
      BY <2>1, SMT
  <1>7. Occupied' = Occupied \ {t}
    <2>1. \A s \in Occupied' : s \in 0 .. (max_count - 1)
      BY <1>1, <1>5, <1>6, SMT DEF Occupied
    <2>2. \A s \in Occupied : s \in 0 .. (max_count - 1)
      BY SlotsInArray
    <2>3. \A s \in 0 .. (max_count - 1) : s \in Occupied' <=> s \in Occupied /\ s # t
      BY <1>1, <1>5, SlotsInArray, SMT DEF Occupied
    <2> QED
      BY <2>1, <2>2, <2>3, <1>2
  <1>8. \A s \in Occupied' : cache'[s] = cache[s] /\ cache[s] # v
    <2>1. \A s \in Occupied' : s \in 0 .. (max_count - 1) /\ s # t /\ s \in Occupied
      BY <1>7, SlotsInArray
    <2> QED
      BY <1>2, <1>5, <2>1 DEF ArrayInv
  <1>9. testcase_buf' \in [Entries -> Buffers \cup {Null}]
    BY <1>1, <1>2, <1>3
  <1>10. \A r \in Entries : IsCached(r)' <=> (r # v /\ IsCached(r))
    BY <1>1, <1>2, <1>3 DEF IsCached
  <1>11. \A r \in Entries : IsCached(r)' <=> \E s \in Occupied' : cache'[s] = r
    <2> SUFFICES ASSUME NEW r \in Entries
                 PROVE  IsCached(r)' <=> \E s \in Occupied' : cache'[s] = r
      OBVIOUS
    <2>1. IsCached(r) <=> \E s \in Occupied : cache[s] = r
      BY DEF ArrayInv
    <2> QED
      BY <1>7, <1>8, <1>10, <2>1
  <1>12. \A r, s \in Occupied' : cache'[r] = cache'[s] => r = s
    BY <1>7, <1>8, SMT DEF ArrayInv
  <1>13. cache_count' = Cardinality(Occupied')
    <2>1. IsFiniteSet(Occupied) /\ Cardinality(Occupied) \in Nat
      BY OccupiedFinite
    <2>2. Cardinality(Occupied \ {t}) = Cardinality(Occupied) - 1
      BY <1>2, <2>1, FS_RemoveElement
    <2>3. cache_count = Cardinality(Occupied)
      BY DEF ArrayInv
    <2> QED
      BY <1>3, <1>7, <2>2, <2>3
  <1>14. cache_size' \in Int
    <2>1. len[v] \in Lens /\ cache_size \in Int
      BY <1>2 DEF QueueInv, ArrayInv
    <2> QED
      BY <1>3, <2>1, CacheAssumption, SMT
  <1>15. smallest_free' \in Nat /\ \A s \in 0 .. (smallest_free' - 1) : s \in Occupied'
    BY <1>1, <1>2, <1>3, <1>7, SMT DEF ArrayInv
  <1>16. max_count' \in 0 .. max_entries' /\ \A s \in Occupied' : s < max_count'
    BY <1>1, <1>3, <1>5, <1>7, SMT DEF ArrayInv
  <1>17. ArrayInv'
    BY <1>5, <1>9, <1>11, <1>12, <1>13, <1>14, <1>15, <1>16 DEF ArrayInv
  <1> QED
    BY <1>1, <1>2, <1>3, <1>7, <1>10, <1>17, SMT

\* What keeps the slots, and every entry cached that was, keeps the agreement.
LEMMA SameSlots ==
  ASSUME ArrayInv,
         UNCHANGED <<cache, max_entries, max_count, cache_count, smallest_free, do_once>>,
         testcase_buf' \in [Entries -> Buffers \cup {Null}], cache_size' \in Int,
         \A q \in Entries : IsCached(q)' <=> IsCached(q)
  PROVE  ArrayInv' /\ Occupied' = Occupied
  <1>1. Occupied' = Occupied /\ LastIndex' = LastIndex
    BY DEF Occupied, LastIndex
  <1> QED
    BY <1>1 DEF ArrayInv

-----------------------------------------------------------------------------
\* queue_testcase_get leaves the eviction loop with a slot to start from: its
\* own, or one that was just freed, or the smallest free one.
LEMMA PlaceSlot ==
  ASSUME IInv, want # NoEntry, ~MustEvict(want)
  PROVE  \E f \in 0 .. (max_entries - 1) :
           /\ f \in DOMAIN cache /\ cache[f] = NoEntry
           /\ f >= IF tid >= max_entries THEN smallest_free ELSE tid
  <1>1. ArrayInv /\ tid \in Nat /\ tid \notin Occupied
    BY DEF IInv, GetInv
  <1>2. max_entries \in Nat \ {0}
    BY <1>1, RoomForVictim, SMT DEF ArrayInv
  <1>3. CASE tid >= max_entries
    <2>1. cache_count < max_entries - 1
      <3>1. cache_count \in Nat
        BY <1>1, OccupiedFinite DEF ArrayInv
      <3> QED
        BY <1>2, <3>1, SMT DEF MustEvict
    <2> QED
      BY <1>1, <1>3, <2>1, RoomLeft
  <1>4. CASE ~(tid >= max_entries)
    <2>1. tid \in 0 .. (max_entries - 1)
      BY <1>1, <1>2, <1>4, SMT
    <2>2. tid \in DOMAIN cache /\ cache[tid] = NoEntry
      BY <1>1, <2>1, SlotsInArray DEF Occupied
    <2> QED
      BY <1>4, <2>1, <2>2, SMT
  <1> QED
    BY <1>3, <1>4

\* So does queue_testcase_store_mem.
LEMMA SaveSlot ==
  ASSUME ArrayInv, cache_count < max_entries - 1
  PROVE  \E f \in 0 .. (max_entries - 1) :
           /\ f \in DOMAIN cache /\ cache[f] = NoEntry
           /\ f >= IF max_count >= max_entries THEN smallest_free ELSE max_count
  <1>1. max_entries \in Nat \ {0} /\ max_count \in Nat
    BY RoomForVictim, SMT DEF ArrayInv
  <1>2. CASE max_count >= max_entries
    BY <1>2, RoomLeft
  <1>3. CASE ~(max_count >= max_entries)
    <2>1. max_count \in 0 .. (max_entries - 1) /\ max_count \notin Occupied
      BY <1>1, <1>3, SlotsInArray, SMT
    <2>2. max_count \in DOMAIN cache /\ cache[max_count] = NoEntry
      BY <2>1, SlotsInArray DEF Occupied
    <2> QED
      BY <1>1, <1>3, <2>1, <2>2, SMT
  <1> QED
    BY <1>2, <1>3

\* The slot that a search from s returns.
LEMMA FoundSlot ==
  ASSUME ArrayInv, NEW s \in Nat,
         \E f \in 0 .. (max_entries - 1) :
           f \in DOMAIN cache /\ cache[f] = NoEntry /\ f >= s
  PROVE  FreeFrom(s) \in 0 .. (max_entries - 1) /\ cache[FreeFrom(s)] = NoEntry
  <1> PICK f \in 0 .. (max_entries - 1) : f \in DOMAIN cache /\ cache[f] = NoEntry /\ f >= s
    OBVIOUS
  <1>1. FreeFrom(s) \in s .. f /\ cache[FreeFrom(s)] = NoEntry
    BY FreeFromFinds
  <1>2. max_entries \in Nat
    BY RoomForVictim, SMT DEF ArrayInv
  <1> QED
    BY <1>1, <1>2, SMT

\* The eviction loop: the current entry and the entry to load are not touched.
LEMMA EvictStep ==
  ASSUME IInv, NEW t \in Victims, Evict(t)
  PROVE  IInv'
  <1>1. ArrayInv /\ QueueInv /\ FuzzInv /\ GetInv /\ want \in Entries /\ want # NoEntry
    BY DEF IInv, GetInv, Evict
  <1>2. /\ ArrayInv'
        /\ cache[t] \in Entries \ {queue_cur} /\ t < max_count /\ t \notin Occupied'
        /\ testcase_buf' = [testcase_buf EXCEPT ![cache[t]] = Null]
        /\ \A r \in Entries : IsCached(r)' <=> (r # cache[t] /\ IsCached(r))
    BY <1>1, EvictArray
  <1>3. /\ UNCHANGED <<queued, len, disk, trim_done, stage, queue_cur, in_buf, want, max_count>>
        /\ overrun' = overrun /\ tid' = t /\ t \in Nat
    <2>1. t \in 0 .. (max_count - 1)
      BY DEF Victims
    <2> QED
      BY <2>1, SMT DEF Evict, queue, fuzz
  <1>4. QueueInv'
    <2>1. testcase_buf \in [Entries -> Buffers \cup {Null}]
      BY <1>1 DEF ArrayInv
    <2>2. CachedIsFile'
      BY <1>1, <1>2, <1>3, <2>1 DEF QueueInv, CachedIsFile
    <2> QED
      BY <1>1, <1>2, <1>3, <2>2 DEF QueueInv
  <1>5. FuzzInv'
    <2>1. queue_cur \in Entries => (IsCached(queue_cur)' <=> IsCached(queue_cur))
      BY <1>2, <1>3
    <2>2. in_buf = "cached" => queue_cur \in Entries
      BY <1>1 DEF FuzzInv, QueueInv
    <2> QED
      BY <1>1, <1>3, <2>1, <2>2 DEF FuzzInv, InBufValid, QueueInv
  <1>6. GetInv'
    <2>1. max_count \in Nat
      BY <1>1, RoomForVictim, SMT DEF ArrayInv
    <2> QED
      BY <1>1, <1>2, <1>3, <2>1, SMT DEF GetInv
  <1> QED
    BY <1>2, <1>4, <1>5, <1>6 DEF IInv

\* Handing a buffer to fuzz_one: in_buf is the cached buffer of the current
\* entry, or a private one while it has none.
LEMMA DeliverFuzz ==
  ASSUME IInv, NEW q \in Entries, NEW how \in {"cached", "private"}, Deliver(q, how),
         stage \in {"load", "reload", "havoc"}, stage # "havoc" => q = queue_cur,
         queued' = queued, how = "cached" <=> IsCached(q)',
         \A r \in Entries : IsCached(r) => IsCached(r)'
  PROVE  FuzzInv'
  <1>1. FuzzInv /\ queue_cur \in Entries
    BY DEF IInv, FuzzInv, QueueInv
  <1>2. CASE stage = "havoc"
    BY <1>1, <1>2 DEF Deliver, fuzz, FuzzInv, InBufValid
  <1>3. CASE stage # "havoc"
    <2>1. /\ in_buf' = how /\ stage' \in {"trim", "havoc"} /\ queue_cur' = queue_cur
          /\ q = queue_cur
      BY <1>3 DEF Deliver
    <2> QED
      BY <1>1, <1>3, <2>1 DEF FuzzInv, InBufValid
  <1> QED
    BY <1>2, <1>3

\* The entry is loaded into a free slot and handed over.
LEMMA PlaceStep ==
  ASSUME IInv, Place
  PROVE  IInv'
  <1> DEFINE from == IF tid >= max_entries THEN smallest_free ELSE tid
             s == FreeFrom(from)
  <1>1. /\ ArrayInv /\ QueueInv /\ FuzzInv /\ GetInv /\ want \in Entries /\ want # NoEntry
        /\ want \in queued /\ ~IsCached(want) /\ from \in Nat
    BY DEF IInv, GetInv, ArrayInv, Place
  <1>2. s \in 0 .. (max_entries - 1) /\ cache[s] = NoEntry
    <2>1. \E f \in 0 .. (max_entries - 1) :
            f \in DOMAIN cache /\ cache[f] = NoEntry /\ f >= from
      BY <1>1, PlaceSlot DEF Place
    <2> HIDE DEF from
    <2> QED
      BY <1>1, <2>1, FoundSlot
  <1>3. /\ Register(want, s) /\ Deliver(want, "cached") /\ want' = NoEntry /\ tid' = 0
        /\ UNCHANGED <<queued, len, disk, trim_done>>
    BY DEF Place, queue
  <1> HIDE DEF s, from
  <1>4. /\ ArrayInv'
        /\ testcase_buf' = [testcase_buf EXCEPT ![want] =
                              [cap |-> len[want], ver |-> disk[want]]]
        /\ (\A r \in Entries : IsCached(r)' <=> (r = want \/ IsCached(r))) /\ overrun' = overrun
    BY <1>1, <1>2, <1>3, RegisterArray
  <1>5. QueueInv'
    <2>1. testcase_buf \in [Entries -> Buffers \cup {Null}] /\ len[want] \in Nat
      BY <1>1, CacheAssumption DEF ArrayInv, QueueInv
    <2>2. CachedIsFile'
      BY <1>1, <1>3, <1>4, <2>1, SMT DEF QueueInv, CachedIsFile
    <2> QED
      BY <1>1, <1>3, <1>4, <2>2 DEF QueueInv
  <1>6. FuzzInv'
    <2>1. stage \in {"load", "reload", "havoc"} /\ (stage # "havoc" => want = queue_cur)
      BY <1>1 DEF GetInv
    <2> QED
      BY <1>1, <1>3, <1>4, <2>1, DeliverFuzz
  <1>7. GetInv'
    BY <1>3 DEF GetInv
  <1> QED
    BY <1>4, <1>5, <1>6, <1>7 DEF IInv

\* A new entry is stored in a free slot, or not at all.
LEMMA SaveStep ==
  ASSUME IInv, NEW q \in Entries, Save(q)
  PROVE  IInv'
  <1> DEFINE from == IF max_count >= max_entries THEN smallest_free ELSE max_count
             s == FreeFrom(from)
  <1>1. ArrayInv /\ QueueInv /\ FuzzInv /\ GetInv
    BY DEF IInv
  <1>2. /\ want = NoEntry /\ q \notin queued /\ queued' = queued \cup {q}
        /\ UNCHANGED <<len, disk, trim_done, stage, queue_cur, in_buf, want, tid>>
    BY DEF Save, fuzz, get
  <1>3. ~IsCached(q)
    BY <1>1, <1>2 DEF QueueInv
  <1>4. /\ ArrayInv'
        /\ \A r \in Entries : IsCached(r) => IsCached(r)'
        /\ \A r \in Entries : IsCached(r)' => r = q \/ IsCached(r)
        /\ \A r \in Entries : IsCached(r)' /\ r # q => testcase_buf'[r] = testcase_buf[r]
        /\ IsCached(q)' => testcase_buf'[q] = [cap |-> len[q], ver |-> disk[q]]
        /\ overrun' = overrun
    <2>1. CASE Full(q) \/ cache_count >= max_entries - 1
      <3>1. UNCHANGED slots
        BY <2>1 DEF Save
      <3> QED
        BY <1>1, <1>3, <3>1, SMT DEF slots, ArrayInv, IsCached, Occupied, LastIndex
    <2>2. CASE ~(Full(q) \/ cache_count >= max_entries - 1)
      <3>1. Register(q, s)
        BY <2>2 DEF Save
      <3>2. cache_count < max_entries - 1 /\ from \in Nat
        <4>1. cache_count \in Nat /\ max_entries \in Nat /\ from \in Nat
          BY <1>1, OccupiedFinite, RoomForVictim, SMT DEF ArrayInv
        <4> QED
          BY <2>2, <4>1, SMT
      <3>3. \E f \in 0 .. (max_entries - 1) :
              f \in DOMAIN cache /\ cache[f] = NoEntry /\ f >= from
        BY <1>1, <3>2, SaveSlot
      <3> HIDE DEF from
      <3>4. s \in 0 .. (max_entries - 1) /\ cache[s] = NoEntry
        BY <1>1, <3>2, <3>3, FoundSlot
      <3> HIDE DEF s
      <3>5. /\ ArrayInv'
            /\ testcase_buf' = [testcase_buf EXCEPT ![q] =
                                  [cap |-> len[q], ver |-> disk[q]]]
            /\ \A r \in Entries : IsCached(r)' <=> (r = q \/ IsCached(r))
            /\ overrun' = overrun
        BY <1>1, <1>3, <3>1, <3>4, RegisterArray
      <3>6. testcase_buf \in [Entries -> Buffers \cup {Null}]
        BY <1>1 DEF ArrayInv
      <3> QED
        BY <3>5, <3>6
    <2> QED
      BY <2>1, <2>2
  <1>5. QueueInv'
    <2>1. len[q] \in Nat
      BY <1>1, CacheAssumption DEF QueueInv
    <2>2. CachedIsFile'
      BY <1>1, <1>2, <1>4, <2>1, SMT DEF QueueInv, CachedIsFile
    <2> QED
      BY <1>1, <1>2, <1>4, <2>2 DEF QueueInv
  <1>6. FuzzInv'
    <2>1. stage # "trim"
      BY DEF Save
    <2>2. queue_cur \in Entries => (IsCached(queue_cur) => IsCached(queue_cur)')
      BY <1>2, <1>4
    <2>3. in_buf = "cached" => queue_cur \in Entries
      BY <1>1 DEF FuzzInv, QueueInv
    <2> QED
      BY <1>1, <1>2, <2>1, <2>2, <2>3 DEF FuzzInv, InBufValid
  <1>7. GetInv'
    BY <1>1, <1>2 DEF GetInv
  <1> QED
    BY <1>4, <1>5, <1>6, <1>7 DEF IInv

\* Steps that leave array and entries alone.
LEMMA FuzzStep ==
  ASSUME IInv,
         \/ Finish
         \/ \E q \in Entries : Pick(q) \/ Hit(q) \/ Uncached(q) \/ Miss(q)
  PROVE  IInv'
  <1>1. ArrayInv /\ QueueInv /\ FuzzInv /\ GetInv
    BY DEF IInv
  <1>2. UNCHANGED <<queue, slots>>
    BY DEF Finish, Pick, Hit, Uncached, Miss
  <1>3. /\ \A r : IsCached(r)' <=> IsCached(r)
        /\ Occupied' = Occupied /\ max_count' = max_count /\ queued' = queued
    BY <1>2 DEF slots, queue, IsCached, Occupied
  <1>4. ArrayInv'
    BY <1>1, <1>2, <1>3, SMT DEF slots, ArrayInv, LastIndex
  <1>5. QueueInv'
    BY <1>1, <1>2, <1>3 DEF slots, queue, QueueInv, CachedIsFile
  <1>6. FuzzInv' /\ GetInv'
    <2>1. CASE Finish
      BY <1>1, <1>3, <2>1 DEF Finish, get, FuzzInv, InBufValid, GetInv
    <2>2. ASSUME NEW q \in Entries, Pick(q) PROVE FuzzInv' /\ GetInv'
      BY <1>1, <1>3, <2>2 DEF Pick, get, FuzzInv, InBufValid, GetInv
    <2>3. ASSUME NEW q \in Entries, Asks(q)
          PROVE  /\ want = NoEntry /\ q \in queued
                 /\ stage \in {"load", "reload", "havoc"}
                 /\ stage # "havoc" => q = queue_cur
      BY <1>1, <2>3 DEF Asks, FuzzInv
    <2>4. ASSUME NEW q \in Entries, Hit(q) PROVE FuzzInv' /\ GetInv'
      <3>1. Asks(q) /\ IsCached(q) /\ Deliver(q, "cached") /\ UNCHANGED <<want, tid>>
        BY <2>4 DEF Hit, get
      <3>2. FuzzInv'
        BY <1>3, <2>3, <3>1, DeliverFuzz
      <3> QED
        BY <1>1, <2>3, <3>1, <3>2 DEF GetInv
    <2>5. ASSUME NEW q \in Entries, Uncached(q) PROVE FuzzInv' /\ GetInv'
      <3>1. Asks(q) /\ ~IsCached(q) /\ Deliver(q, "private") /\ UNCHANGED <<want, tid>>
        BY <2>5 DEF Uncached, get
      <3>2. FuzzInv'
        BY <1>3, <2>3, <3>1, DeliverFuzz
      <3> QED
        BY <1>1, <2>3, <3>1, <3>2 DEF GetInv
    <2>6. ASSUME NEW q \in Entries, Miss(q) PROVE FuzzInv' /\ GetInv'
      <3>1. /\ Asks(q) /\ ~IsCached(q) /\ want' = q /\ tid' = max_count
            /\ UNCHANGED <<stage, queue_cur, in_buf>>
        BY <2>6 DEF Miss, fuzz
      <3>2. FuzzInv'
        BY <1>1, <1>3, <3>1 DEF FuzzInv, InBufValid
      <3>3. max_count \in Nat /\ max_count \notin Occupied
        BY <1>1, RoomForVictim, SlotsInArray, SMT DEF ArrayInv
      <3> QED
        BY <1>3, <2>3, <3>1, <3>2, <3>3, SMT DEF GetInv
    <2> QED
      BY <2>1, <2>2, <2>4, <2>5, <2>6
  <1> QED
    BY <1>4, <1>5, <1>6 DEF IInv

\* A trim that rewrites the file keeps the invariant if the buffer of the
\* entry, when it has one, gets the new content and, unless it is overrun, holds
\* all of it.
LEMMA RewriteStep ==
  ASSUME IInv, NEW n \in Lens, stage = "trim", Rewrite(n),
         UNCHANGED <<cache, max_entries, max_count, cache_count, smallest_free, do_once>>,
         cache_size' \in Int, overrun' \in BOOLEAN, overrun => overrun',
         IF IsCached(queue_cur)
         THEN \E b \in Buffers : /\ testcase_buf' = [testcase_buf EXCEPT ![queue_cur] = b]
                                 /\ b.ver = 1 /\ (overrun' \/ b.cap >= n)
         ELSE testcase_buf' = testcase_buf
  PROVE  IInv'
  <1>1. /\ ArrayInv /\ QueueInv /\ FuzzInv /\ GetInv
        /\ queue_cur \in queued /\ queue_cur \in Entries /\ want = NoEntry
    BY DEF IInv, FuzzInv, QueueInv, GetInv
  <1>2. /\ len' = [len EXCEPT ![queue_cur] = n]
        /\ disk' = [disk EXCEPT ![queue_cur] = 1]
        /\ trim_done' = [trim_done EXCEPT ![queue_cur] = TRUE]
        /\ stage' = "reload"
        /\ UNCHANGED <<queued, queue_cur, in_buf, want, tid>>
    BY DEF Rewrite, NewLen, get
  <1>3. testcase_buf \in [Entries -> Buffers \cup {Null}]
    BY <1>1 DEF ArrayInv
  <1>4. /\ testcase_buf' \in [Entries -> Buffers \cup {Null}]
        /\ \A q \in Entries : IsCached(q)' <=> IsCached(q)
        /\ \A q \in Entries \ {queue_cur} : testcase_buf'[q] = testcase_buf[q]
        /\ IsCached(queue_cur) =>
             testcase_buf'[queue_cur].ver = 1 /\ (overrun' \/ testcase_buf'[queue_cur].cap >= n)
    <2>1. CASE IsCached(queue_cur)
      <3>1. PICK b \in Buffers : /\ testcase_buf' = [testcase_buf EXCEPT ![queue_cur] = b]
                                 /\ b.ver = 1 /\ (overrun' \/ b.cap >= n)
        BY <2>1
      <3>2. b # Null
        BY BufferNotNull
      <3> QED
        BY <1>1, <1>3, <2>1, <3>1, <3>2 DEF IsCached
    <2>2. CASE ~IsCached(queue_cur)
      BY <1>1, <1>3, <2>2 DEF IsCached
    <2> QED
      BY <2>1, <2>2
  <1>5. ArrayInv' /\ Occupied' = Occupied
    BY <1>1, <1>4, SameSlots
  <1>6. QueueInv'
    <2>1. CachedIsFile'
      BY <1>1, <1>2, <1>4 DEF QueueInv, CachedIsFile
    <2> QED
      BY <1>1, <1>2, <1>4, <2>1 DEF QueueInv
  <1>7. FuzzInv'
    BY <1>1, <1>2, <1>4 DEF FuzzInv, InBufValid
  <1>8. GetInv'
    BY <1>1, <1>2 DEF GetInv
  <1> QED
    BY <1>5, <1>6, <1>7, <1>8 DEF IInv

\* queue_testcase_retake and queue_testcase_retake_mem: a buffer that is not
\* reallocated is long enough, or overrun.
LEMMA RetakeStep ==
  ASSUME IInv, NEW n \in Lens, NEW resize \in BOOLEAN, stage = "trim", Rewrite(n),
         Retake(n, resize), overrun' \in BOOLEAN, overrun => overrun',
         ~resize => \/ n <= len[queue_cur] \/ overrun'
                    \/ ~IsCached(queue_cur) \/ n <= testcase_buf[queue_cur].cap
  PROVE  IInv'
  <1>1. /\ ArrayInv /\ QueueInv /\ queue_cur \in Entries
        /\ testcase_buf \in [Entries -> Buffers \cup {Null}]
        /\ len[queue_cur] \in Nat /\ n \in Nat /\ cache_size \in Int
    BY CacheAssumption DEF IInv, FuzzInv, QueueInv, ArrayInv
  <1>2. UNCHANGED <<cache, max_entries, max_count, cache_count, smallest_free, do_once>>
    BY DEF Retake
  <1>3. CASE IsCached(queue_cur)
    <2> DEFINE b == [cap |-> IF resize THEN n ELSE testcase_buf[queue_cur].cap, ver |-> 1]
    <2>1. testcase_buf[queue_cur] \in Buffers
      BY <1>1, <1>3 DEF IsCached
    <2>2. testcase_buf[queue_cur].cap \in Lens
      BY <2>1 DEF Buffers
    <2>3. b \in Buffers /\ b.ver = 1
      BY <2>2 DEF Buffers
    <2>4. overrun' \/ b.cap >= n
      <3> SUFFICES ASSUME ~overrun' PROVE b.cap >= n
        OBVIOUS
      <3>1. testcase_buf[queue_cur].cap >= len[queue_cur] /\ testcase_buf[queue_cur].cap \in Nat
        BY <1>1, <1>3, <2>2, CacheAssumption DEF QueueInv, CachedIsFile
      <3> QED
        BY <1>1, <1>3, <3>1, SMT
    <2>5. testcase_buf' = [testcase_buf EXCEPT ![queue_cur] = b]
      BY <1>1, <1>3 DEF Retake, Content
    <2>6. cache_size' \in Int
      <3>1. cache_size' = (cache_size + Resized(n, resize)) % U64
        BY <1>3 DEF Retake
      <3>2. Resized(n, resize) \in Int
        BY <1>1, CacheAssumption, SMT DEF Resized
      <3> QED
        BY <1>1, <3>1, <3>2, CacheAssumption, SMT
    <2> HIDE DEF b
    <2> QED
      BY <1>2, <1>3, <2>3, <2>4, <2>5, <2>6, RewriteStep
  <1>4. CASE ~IsCached(queue_cur)
    <2>1. testcase_buf' = testcase_buf /\ cache_size' = cache_size
      BY <1>4 DEF Retake
    <2> QED
      BY <1>1, <1>2, <1>4, <2>1, RewriteStep
  <1> QED
    BY <1>3, <1>4

\* trim_case, in all its forms.
LEMMA TrimStep ==
  ASSUME IInv,
         \/ TrimNothing
         \/ \E n \in Lens : TrimInPlace(n) \/ TrimPostProcess(n) \/ TrimCustom(n)
  PROVE  IInv'
  <1>1. ArrayInv /\ QueueInv /\ FuzzInv /\ GetInv
    BY DEF IInv
  <1>2. stage = "trim" /\ queue_cur \in queued /\ queue_cur \in Entries
    BY <1>1 DEF TrimNothing, TrimInPlace, TrimPostProcess, TrimCustom, FuzzInv, QueueInv
  <1>3. len[queue_cur] \in Nat /\ Lens \subseteq Nat /\ Slack \in Nat
    BY <1>1, <1>2, CacheAssumption DEF QueueInv
  <1>4. CASE TrimNothing
    <2>1. /\ trim_done' = [trim_done EXCEPT ![queue_cur] = TRUE] /\ stage' = "reload"
          /\ UNCHANGED <<queued, len, disk, queue_cur, in_buf, slots, want, tid>>
      BY <1>4 DEF TrimNothing, get
    <2>2. ArrayInv' /\ (\A r : IsCached(r)' <=> IsCached(r)) /\ Occupied' = Occupied
      BY <1>1, <2>1 DEF slots, ArrayInv, IsCached, Occupied, LastIndex
    <2>3. QueueInv'
      BY <1>1, <1>2, <2>1, <2>2 DEF slots, QueueInv, CachedIsFile
    <2>4. FuzzInv' /\ GetInv'
      BY <1>1, <1>2, <2>1, <2>2 DEF slots, FuzzInv, InBufValid, GetInv
    <2> QED
      BY <2>2, <2>3, <2>4 DEF IInv
  <1>5. ASSUME NEW n \in Lens, TrimInPlace(n) PROVE IInv'
    <2>1. /\ n < len[queue_cur] /\ Rewrite(n)
          /\ testcase_buf' = (IF in_buf = "cached"
                              THEN [testcase_buf EXCEPT ![queue_cur].ver = 1]
                              ELSE testcase_buf)
          /\ UNCHANGED <<cache, max_entries, cache_size, max_count, cache_count,
                         smallest_free, do_once, overrun>>
      BY <1>5 DEF TrimInPlace
    <2>2. in_buf = "cached" <=> IsCached(queue_cur)
      BY <1>1, <1>2 DEF FuzzInv
    <2>3. /\ cache_size' \in Int /\ testcase_buf \in [Entries -> Buffers \cup {Null}]
          /\ overrun' \in BOOLEAN
      BY <1>1, <2>1 DEF ArrayInv, QueueInv
    <2>4. CASE IsCached(queue_cur)
      <3> DEFINE b == [testcase_buf[queue_cur] EXCEPT !.ver = 1]
      <3>1. testcase_buf[queue_cur] \in Buffers
        BY <1>2, <2>3, <2>4 DEF IsCached
      <3>2. b \in Buffers /\ b.ver = 1 /\ b.cap = testcase_buf[queue_cur].cap
        BY <3>1 DEF Buffers
      <3>3. overrun' \/ b.cap >= n
        <4> SUFFICES ASSUME ~overrun PROVE b.cap >= n
          BY <2>1
        <4>1. testcase_buf[queue_cur].cap >= len[queue_cur] /\ testcase_buf[queue_cur].cap \in Nat
          BY <1>1, <1>2, <1>3, <2>4, <3>1 DEF QueueInv, CachedIsFile, Buffers
        <4> QED
          BY <1>3, <2>1, <3>2, <4>1, SMT
      <3>4. testcase_buf' = [testcase_buf EXCEPT ![queue_cur] = b]
        BY <2>1, <2>2, <2>4, <1>2, <2>3
      <3> HIDE DEF b
      <3> QED
        BY <1>2, <2>1, <2>3, <2>4, <3>2, <3>3, <3>4, RewriteStep
    <2>5. CASE ~IsCached(queue_cur)
      BY <1>2, <2>1, <2>2, <2>3, <2>5, RewriteStep
    <2> QED
      BY <2>4, <2>5
  <1>6. ASSUME NEW n \in Lens, TrimPostProcess(n) PROVE IInv'
    <2>1. /\ Rewrite(n) /\ Retake(n, n + Slack < len[queue_cur])
          /\ overrun' = (overrun \/ Overruns(n))
      BY <1>6 DEF TrimPostProcess
    <2>2. overrun' \in BOOLEAN /\ (overrun => overrun')
      BY <1>1, <2>1 DEF QueueInv, Overruns
    <2>3. overrun' \/ ~IsCached(queue_cur) \/ n <= testcase_buf[queue_cur].cap
      <3> SUFFICES ASSUME IsCached(queue_cur), ~(n > testcase_buf[queue_cur].cap)
                   PROVE  n <= testcase_buf[queue_cur].cap
        BY <2>1 DEF Overruns
      <3>1. testcase_buf[queue_cur] \in Buffers
        BY <1>1, <1>2 DEF IsCached, ArrayInv
      <3>2. testcase_buf[queue_cur].cap \in Nat
        BY <1>3, <3>1 DEF Buffers
      <3> QED
        BY <1>3, <3>2, SMT
    <2>4. (n + Slack < len[queue_cur]) \in BOOLEAN
      BY <1>3, SMT
    <2> QED
      BY <1>2, <2>1, <2>2, <2>3, <2>4, RetakeStep
  <1>7. ASSUME NEW n \in Lens, TrimCustom(n) PROVE IInv'
    <2>1. /\ Rewrite(n)
          /\ Retake(n, n > len[queue_cur] \/ n + Slack < len[queue_cur])
          /\ overrun' = overrun /\ overrun \in BOOLEAN
      BY <1>1, <1>7 DEF TrimCustom, QueueInv
    <2>2. ~(n > len[queue_cur] \/ n + Slack < len[queue_cur]) => n <= len[queue_cur]
      BY <1>3, SMT
    <2> QED
      BY <1>2, <2>1, <2>2, RetakeStep
  <1> QED
    BY <1>4, <1>5, <1>6, <1>7

-----------------------------------------------------------------------------
\* Every reachable state satisfies the inductive invariant.
LEMMA Inductive == Spec => []IInv
  <1>1. Init => IInv
    <2> SUFFICES ASSUME Init PROVE IInv
      OBVIOUS
    <2> USE DEF Init
    <2>1. Occupied = {} /\ \A q \in Entries : ~IsCached(q)
      BY DEF Occupied, IsCached
    <2>2. ArrayInv
      <3>1. LastIndex = MaxEntries - 1 /\ MaxEntries \in Nat /\ MaxEntries >= 3
        BY RoomForVictim DEF LastIndex
      <3>2. Cardinality(Occupied) = 0
        BY <2>1, FS_EmptySet
      <3>3. /\ cache \in [0 .. LastIndex -> Entries \cup {NoEntry}]
            /\ testcase_buf \in [Entries -> Buffers \cup {Null}]
        BY <3>1
      <3>4. /\ max_entries \in 1 .. MaxEntries /\ max_count \in 0 .. max_entries
            /\ cache_size \in Int /\ smallest_free \in Nat
            /\ \A s \in 0 .. (smallest_free - 1) : s \in Occupied
        BY <3>1, SMT
      <3> QED
        BY <2>1, <3>2, <3>3, <3>4 DEF ArrayInv
    <2>3. QueueInv
      BY <2>1, CacheAssumption DEF QueueInv, CachedIsFile
    <2>4. FuzzInv /\ GetInv
      BY DEF FuzzInv, InBufValid, GetInv
    <2> QED
      BY <2>2, <2>3, <2>4 DEF IInv
  <1>2. IInv /\ [Next]_vars => IInv'
    <2> SUFFICES ASSUME IInv, [Next]_vars PROVE IInv'
      OBVIOUS
    <2>1. CASE UNCHANGED vars
      <3>1. IsCached(queue_cur)' <=> IsCached(queue_cur)
        BY <2>1 DEF vars, slots, fuzz, IsCached
      <3>2. ArrayInv' /\ QueueInv'
        BY <2>1, SMT DEF vars, queue, slots, IInv, ArrayInv, QueueInv, CachedIsFile, IsCached,
                    Occupied, LastIndex
      <3>3. FuzzInv' /\ GetInv'
        BY <2>1, <3>1 DEF vars, queue, slots, fuzz, get, IInv, FuzzInv, InBufValid, GetInv,
                    IsCached, Occupied
      <3> QED
        BY <3>2, <3>3 DEF IInv
    <2>2. CASE Next
      BY <2>2, EvictStep, PlaceStep, SaveStep, FuzzStep, TrimStep DEF Next, InGet
    <2> QED
      BY <2>1, <2>2
  <1> QED
    BY <1>1, <1>2, PTL DEF Spec

\* SlotsAgree for any entries and limits: an entry has a buffer exactly when
\* one slot refers to it, cache_count counts the slots in use, and no search of
\* queue_testcase_get or queue_testcase_store_mem for a free slot runs off the
\* array, which realloc may have shrunk to the learned maximum.
THEOREM SlotsAlwaysAgree == Spec => []SlotsAgree
  <1>1. IInv => SlotsAgree
    <2> SUFFICES ASSUME IInv PROVE SlotsAgree
      OBVIOUS
    <2>1. ArrayInv /\ QueueInv /\ FuzzInv /\ GetInv
      BY DEF IInv
    <2>2. TypeOK
      <3>1. cache_count \in Nat
        BY <2>1, OccupiedFinite DEF ArrayInv
      <3>2. LastIndex \in 0 .. MaxEntries
        BY <2>1, RoomForVictim, SMT DEF ArrayInv, LastIndex
      <3>3. max_entries \in Nat /\ max_count \in Nat
        BY <2>1, RoomForVictim, SMT DEF ArrayInv
      <3> QED
        BY <2>1, <3>1, <3>2, <3>3 DEF TypeOK, ArrayInv, QueueInv, FuzzInv, GetInv
    <2>3. SearchBounds
      <3>1. want # NoEntry /\ ~MustEvict(want) =>
              \E f \in DOMAIN cache :
                /\ f >= IF tid >= max_entries THEN smallest_free ELSE tid
                /\ cache[f] = NoEntry
        BY PlaceSlot
      <3>2. cache_count < max_entries - 1 =>
              \E f \in DOMAIN cache :
                /\ f >= IF max_count >= max_entries THEN smallest_free ELSE max_count
                /\ cache[f] = NoEntry
        BY <2>1, SaveSlot
      <3> QED
        BY <2>1, <3>1, <3>2 DEF SearchBounds, ArrayInv
    <2> QED
      BY <2>1, <2>2, <2>3 DEF SlotsAgree, ArrayInv
  <1> QED
    BY <1>1, Inductive, PTL

\* InBufValid: eviction never frees the buffer that fuzz_one works on.
THEOREM InBufAlwaysValid == Spec => []InBufValid
  <1>1. IInv => InBufValid
    BY DEF IInv, FuzzInv
  <1> QED
    BY <1>1, Inductive, PTL

\* CachedIsFile: trimmed in place, by a custom mutator or through a
\* post-processor, an entry's buffer holds its file, as long as no post-processed
\* test case was longer than the buffer it was copied to.
THEOREM CacheHoldsFiles == Spec => []CachedIsFile
  <1>1. IInv => CachedIsFile
    BY DEF IInv, QueueInv
  <1> QED
    BY <1>1, Inductive, PTL
============================================================================
