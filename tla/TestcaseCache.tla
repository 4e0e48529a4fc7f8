--------------------------- MODULE TestcaseCache ---------------------------
(***************************************************************************)
(* The test case cache of afl-fuzz (afl-fuzz-queue.c): an array of queue   *)
(* entries whose files are held in memory, bounded in bytes and in         *)
(* entries, with random eviction.  It is driven as fuzz_one does: the      *)
(* current entry is loaded, perhaps trimmed and loaded again, and then     *)
(* fuzzed, while splicing loads other entries and new ones are stored.     *)
(*                                                                         *)
(* fuzz_one keeps a pointer (in_buf) into the cache all the while, and     *)
(* trims in place through it, so eviction, trimming and the accounting of  *)
(* bytes and slots must agree.  A buffer is its allocated size and the     *)
(* version of the file's content in it.                                    *)
(***************************************************************************)
EXTENDS Integers, FiniteSets, FiniteSetsExt

CONSTANTS
  Entries,      \* queue entries
  NoEntry,      \* NULL
  Seeds,        \* the entries the queue starts with
  Lens,         \* lengths of test cases
  MaxSize,      \* q_testcase_max_cache_size
  MaxEntries,   \* q_testcase_max_cache_entries before it is learned
  Slack,        \* the 1024 bytes below which a trimmed buffer is kept
  U32,          \* 2^32: len - old_len is computed in this width
  U64,          \* 2^64: the sizes are kept in this width
  MaxTrims      \* bound: entries that are trimmed

ASSUME CacheAssumption ==
  /\ NoEntry \notin Entries
  /\ IsFiniteSet(Entries)
  /\ Seeds \in SUBSET Entries /\ Seeds # {}
  /\ Lens \in SUBSET (Nat \ {0}) /\ Lens # {}
  /\ MaxSize \in Nat
  /\ Slack \in Nat
  /\ U32 \in Nat \ {0} /\ U64 \in Nat \ {0}

\* With 1 or 2 entries the search for a victim would not end.
ASSUME RoomForVictim == MaxEntries \in Nat /\ MaxEntries >= 3

VARIABLES
  queued,         \* entries in the queue
  len,            \* q->len (of a future entry: the length it will have)
  disk,           \* version of the entry's file: 1 once trimmed
  trim_done,      \* q->trim_done
  testcase_buf,   \* q->testcase_buf: NULL or a buffer
  cache,          \* q_testcase_cache
  max_entries,    \* q_testcase_max_cache_entries
  cache_size,     \* q_testcase_cache_size
  max_count,      \* q_testcase_max_cache_count
  cache_count,    \* q_testcase_cache_count
  smallest_free,  \* q_testcase_smallest_free
  do_once,        \* max_entries has been learned
  overrun,        \* history: a test case was copied past the end of its buffer
  stage,          \* where fuzz_one is
  queue_cur,      \* the entry being fuzzed
  in_buf,         \* what in_buf points to
  want,           \* the entry queue_testcase_get is loading, or NoEntry
  tid             \* its slot index

queue == <<queued, len, disk, trim_done>>
slots == <<testcase_buf, cache, max_entries, cache_size, max_count,
           cache_count, smallest_free, do_once, overrun>>
fuzz  == <<stage, queue_cur, in_buf>>
get   == <<want, tid>>
vars  == <<queue, slots, fuzz, get>>

Null       == [cap |-> 0, ver |-> 0]
Buffers    == [cap : Lens, ver : {0, 1}]
Occupied   == {s \in DOMAIN cache : cache[s] # NoEntry}
IsCached(q) == testcase_buf[q] # Null

TypeOK ==
  /\ queued \in SUBSET Entries
  /\ len \in [Entries -> Lens]
  /\ disk \in [Entries -> {0, 1}]
  /\ trim_done \in [Entries -> BOOLEAN]
  /\ testcase_buf \in [Entries -> Buffers \cup {Null}]
  /\ max_entries \in Nat
  /\ \E n \in 0..MaxEntries : cache \in [0..n -> Entries \cup {NoEntry}]
  /\ cache_size \in Int
  /\ max_count \in Nat /\ cache_count \in Nat /\ smallest_free \in Nat
  /\ do_once \in BOOLEAN /\ overrun \in BOOLEAN
  /\ stage \in {"pick", "load", "trim", "reload", "havoc"}
  /\ queue_cur \in Entries \cup {NoEntry}
  /\ in_buf \in {"none", "cached", "private"}
  /\ want \in Entries \cup {NoEntry}
  /\ tid \in Nat

(* The seeds are read at start-up, before the array is allocated. *)
Init ==
  /\ queued = Seeds
  /\ len \in [Entries -> Lens]
  /\ disk = [q \in Entries |-> 0]
  /\ trim_done = [q \in Entries |-> FALSE]
  /\ testcase_buf = [q \in Entries |-> Null]
  /\ cache = [s \in 0..(MaxEntries - 1) |-> NoEntry]
  /\ max_entries = MaxEntries
  /\ cache_size = 0 /\ max_count = 0 /\ cache_count = 0 /\ smallest_free = 0
  /\ do_once = FALSE /\ overrun = FALSE
  /\ stage = "pick" /\ queue_cur = NoEntry /\ in_buf = "none"
  /\ want = NoEntry /\ tid = 0

---------------------------------------------------------------------------
\* queue_testcase_get

(* With the entry's bytes the cache would be full. *)
Full(q) == (cache_size + len[q]) % U64 >= MaxSize

(* The loop condition: too many bytes with more than one entry, or too     *)
(* many entries.                                                           *)
MustEvict(q) ==
  \/ Full(q) /\ cache_count > 1
  \/ cache_count >= max_entries - 1

(* fuzz_one trims an entry once. *)
NeedsTrim(q) ==
  ~trim_done[q] /\ Cardinality({r \in Entries : trim_done[r]}) < MaxTrims

(* The buffer is handed to fuzz_one: as in_buf, or as the partner of a     *)
(* splice, which is used at once.                                          *)
Deliver(q, how) ==
  IF stage = "havoc"
  THEN UNCHANGED fuzz
  ELSE /\ in_buf' = how
       /\ stage' = IF stage = "load" /\ NeedsTrim(q) THEN "trim" ELSE "havoc"
       /\ UNCHANGED queue_cur

(* fuzz_one loads the current entry, and splicing any other one. *)
Asks(q) ==
  /\ want = NoEntry
  /\ \/ stage \in {"load", "reload"} /\ q = queue_cur
     \/ stage = "havoc" /\ q \in queued \ {queue_cur}

Hit(q) ==
  /\ Asks(q) /\ IsCached(q)
  /\ Deliver(q, "cached")
  /\ UNCHANGED <<queue, slots, get>>

(* Without a cache, or with a weight below average (which the scheduler    *)
(* sets), the file is read to a private buffer.                            *)
Uncached(q) ==
  /\ Asks(q) /\ ~IsCached(q)
  /\ Deliver(q, "private")
  /\ UNCHANGED <<queue, slots, get>>

Miss(q) ==
  /\ Asks(q) /\ ~IsCached(q)
  /\ MaxSize # 0
  /\ want' = q /\ tid' = max_count
  /\ UNCHANGED <<queue, slots, fuzz>>

(* Mutant of Victims: the current entry may be drawn. *)
AnyVictim == {t \in 0..(max_count - 1) : cache[t] # NoEntry}

(* The slots that the random draw accepts. *)
Victims == {t \in 0..(max_count - 1) : cache[t] \notin {NoEntry, queue_cur}}

(* The maximum of entries is learned once, when the bytes run out first;   *)
(* the array shrinks to it.                                                *)
Learns(q) ==
  /\ Full(q)
  /\ cache_count < max_entries /\ max_count < max_entries
  /\ ~do_once

(* --q_testcase_cache_count. *)
Uncount == cache_count - 1

(* Mutant of Freed: smallest_free is not lowered. *)
NotFreed(t) == smallest_free

(* smallest_free after slot t is freed. *)
Freed(t) == IF t < smallest_free THEN t ELSE smallest_free

(* The last slot of an array of max_entries + 1. *)
LastSlot(room) == room + 1

(* Mutant of Evict: a victim is drawn but not removed. *)
EvictNothing(t) ==
  /\ want # NoEntry /\ MustEvict(want)
  /\ t \in Victims
  /\ tid' = t
  /\ UNCHANGED <<queue, slots, fuzz, want>>

(* One round of the loop. *)
Evict(t) ==
  /\ want # NoEntry /\ MustEvict(want)
  /\ t \in Victims
  /\ LET room == IF max_count > cache_count THEN max_count ELSE cache_count IN
     IF Learns(want)
     THEN /\ max_entries' = room + 1
          /\ do_once' = TRUE
          /\ cache' = [s \in 0..LastSlot(room) |->
                         IF s = t \/ s \notin DOMAIN cache THEN NoEntry
                         ELSE cache[s]]
     ELSE /\ cache' = [cache EXCEPT ![t] = NoEntry]
          /\ UNCHANGED <<max_entries, do_once>>
  /\ testcase_buf' = [testcase_buf EXCEPT ![cache[t]] = Null]
  /\ cache_size' = (cache_size - len[cache[t]]) % U64
  /\ cache_count' = Uncount
  /\ smallest_free' = Freed(t)
  /\ tid' = t
  /\ UNCHANGED <<queue, max_count, overrun, fuzz, want>>

(* The first free slot from s on. *)
FreeFrom(s) ==
  CHOOSE f \in DOMAIN cache :
    /\ f >= s /\ cache[f] = NoEntry
    /\ \A g \in DOMAIN cache : g >= s /\ cache[g] = NoEntry => f <= g

(* Entry q, with a buffer of its length, is registered in slot s. *)
Register(q, s) ==
  /\ testcase_buf' = [testcase_buf EXCEPT ![q] = [cap |-> len[q],
                                                  ver |-> disk[q]]]
  /\ cache' = [cache EXCEPT ![s] = q]
  /\ cache_size' = (cache_size + len[q]) % U64
  /\ cache_count' = cache_count + 1
  /\ max_count' = IF s >= max_count THEN s + 1 ELSE max_count
  /\ smallest_free' = IF s < max_count /\ s = smallest_free
                      THEN s + 1 ELSE smallest_free
  /\ UNCHANGED <<max_entries, do_once, overrun>>

(* The loop is left: a slot is found and the file is read. *)
Place ==
  /\ want # NoEntry /\ ~MustEvict(want)
  /\ Register(want,
       FreeFrom(IF tid >= max_entries THEN smallest_free ELSE tid))
  /\ Deliver(want, "cached")
  /\ want' = NoEntry /\ tid' = 0
  /\ UNCHANGED queue

---------------------------------------------------------------------------
\* The fuzzing of one entry.

Pick(q) ==
  /\ stage = "pick" /\ q \in queued
  /\ stage' = "load" /\ queue_cur' = q
  /\ UNCHANGED <<in_buf, queue, slots, get>>

(* q->len after a trim. *)
NewLen(n) == n

(* The file of the current entry is rewritten with length n. *)
Rewrite(n) ==
  /\ len' = [len EXCEPT ![queue_cur] = NewLen(n)]
  /\ disk' = [disk EXCEPT ![queue_cur] = 1]
  /\ trim_done' = [trim_done EXCEPT ![queue_cur] = TRUE]
  /\ stage' = "reload"
  /\ UNCHANGED <<queued, queue_cur, in_buf, get>>

(* No deletion kept the trace. *)
TrimNothing ==
  /\ stage = "trim"
  /\ trim_done' = [trim_done EXCEPT ![queue_cur] = TRUE]
  /\ stage' = "reload"
  /\ UNCHANGED <<queued, len, disk, queue_cur, in_buf, slots, get>>

(* The built-in trimmer deletes in place, through in_buf.                  *)
(* queue_testcase_retake_mem then has nothing to do: either in_buf is the  *)
(* cached buffer, or nothing is cached.                                    *)
TrimInPlace(n) ==
  /\ stage = "trim" /\ n < len[queue_cur]
  /\ Rewrite(n)
  /\ testcase_buf' = IF in_buf = "cached"
                     THEN [testcase_buf EXCEPT ![queue_cur].ver = 1]
                     ELSE testcase_buf
  /\ UNCHANGED <<cache, max_entries, cache_size, max_count, cache_count,
                 smallest_free, do_once, overrun>>

(* Mutant of Resized: the bytes are taken off although the buffer stays. *)
Accounted(n, resize) == n - len[queue_cur]

(* What q_testcase_cache_size changes by: the difference of the lengths as *)
(* an unsigned 32 bit number, if the buffer is reallocated.                *)
Resized(n, resize) == IF resize THEN (n - len[queue_cur]) % U32 ELSE 0

(* Mutant of Content: only a reallocated buffer is filled again. *)
ContentIfResized(resize) ==
  IF resize THEN 1 ELSE testcase_buf[queue_cur].ver

(* The new content is copied, or read back, in any case. *)
Content(resize) == 1

(* The buffer of the current entry follows its file. *)
Retake(n, resize) ==
  /\ IF IsCached(queue_cur)
     THEN /\ testcase_buf' = [testcase_buf EXCEPT ![queue_cur] =
                [cap |-> IF resize THEN n ELSE @.cap, ver |-> Content(resize)]]
          /\ cache_size' = (cache_size + Resized(n, resize)) % U64
     ELSE UNCHANGED <<testcase_buf, cache_size>>
  /\ UNCHANGED <<cache, max_entries, max_count, cache_count, smallest_free,
                 do_once>>

(* n bytes do not fit in the buffer of the current entry. *)
Overruns(n) == IsCached(queue_cur) /\ n > testcase_buf[queue_cur].cap

(* A post-processor rewrote the trimmed data in a buffer of its own, with  *)
(* any length: queue_testcase_retake_mem shrinks the cached buffer if that *)
(* is worth it, does not enlarge it, and copies the data to it.  What is   *)
(* behind a buffer that is too small is overwritten; the model goes on as  *)
(* if nothing that matters was there.                                      *)
TrimPostProcess(n) ==
  /\ stage = "trim"
  /\ Rewrite(n)
  /\ Retake(n, n + Slack < len[queue_cur])
  /\ overrun' = (overrun \/ Overruns(n))

(* A custom mutator's trimmer writes the file, perhaps a larger one, and   *)
(* queue_testcase_retake reads it back.                                    *)
TrimCustom(n) ==
  /\ stage = "trim"
  /\ Rewrite(n)
  /\ Retake(n, n > len[queue_cur] \/ n + Slack < len[queue_cur])
  /\ UNCHANGED overrun

(* A new entry, from fuzzing or from another instance:                     *)
(* queue_testcase_store_mem keeps it if there is room without eviction.    *)
Save(q) ==
  /\ stage \in {"pick", "havoc"} /\ want = NoEntry
  /\ q \notin queued
  /\ queued' = queued \cup {q}
  /\ IF \/ Full(q)
        \/ cache_count >= max_entries - 1
     THEN UNCHANGED slots
     ELSE Register(q, FreeFrom(IF max_count >= max_entries
                               THEN smallest_free ELSE max_count))
  /\ UNCHANGED <<len, disk, trim_done, fuzz, get>>

Finish ==
  /\ stage = "havoc" /\ want = NoEntry
  /\ stage' = "pick" /\ in_buf' = "none"
  /\ UNCHANGED <<queue_cur, queue, slots, get>>

---------------------------------------------------------------------------
InGet == Place \/ \E t \in Victims : Evict(t)
Next ==
  \/ \E q \in Entries : Pick(q) \/ Hit(q) \/ Uncached(q) \/ Miss(q) \/ Save(q)
  \/ InGet
  \/ TrimNothing
  \/ \E n \in Lens : TrimInPlace(n) \/ TrimPostProcess(n) \/ TrimCustom(n)
  \/ Finish

Spec     == Init /\ [][Next]_vars
FairSpec == Spec /\ WF_vars(InGet)

---------------------------------------------------------------------------
\* Properties.

(* The bounds the searches rely on: no slot is used from max_count on, and *)
(* none is free below smallest_free ("the smallest id currently known free *)
(* entry"), across evictions and the learning of max_entries.  Looking for *)
(* a free slot, queue_testcase_get and queue_testcase_store_mem do not run *)
(* off the end of the array, which may have been shrunk.                   *)
SearchBounds ==
  /\ \A s \in Occupied : s < max_count
  /\ \A s \in 0..(smallest_free - 1) : s \in Occupied
  /\ want # NoEntry /\ ~MustEvict(want) =>
       \E f \in DOMAIN cache :
         /\ f >= IF tid >= max_entries THEN smallest_free ELSE tid
         /\ cache[f] = NoEntry
  /\ cache_count < max_entries - 1 =>
       \E f \in DOMAIN cache :
         /\ f >= IF max_count >= max_entries THEN smallest_free ELSE max_count
         /\ cache[f] = NoEntry

(* The slots and the entries agree: an entry has a buffer exactly when one *)
(* slot, and no other, refers to it, cache_count counts them, and every    *)
(* search for a slot ends inside the array (and all state keeps its type). *)
SlotsAgree ==
  /\ TypeOK /\ SearchBounds
  /\ \A q \in Entries : IsCached(q) <=> \E s \in Occupied : cache[s] = q
  /\ \A r, s \in Occupied : cache[r] = cache[s] => r = s
  /\ cache_count = Cardinality(Occupied)

(* fuzz_one's in_buf stays valid: whatever splicing loads and evicts, the  *)
(* buffer of the current entry is not freed under it.                      *)
InBufValid == in_buf = "cached" => IsCached(queue_cur)

(* Until a post-processed test case is copied past the end of its buffer,  *)
(* what is cached is what the file holds, in a buffer that holds all of    *)
(* it: a trimmed entry never keeps its old content in memory and no buffer *)
(* is left shorter than q->len, whether the entry was trimmed in place, by *)
(* a custom mutator or, to a length that fits, through a post-processor    *)
(* (trim_case and the two retake functions).                               *)
CachedIsFile ==
  ~overrun =>
    \A q \in Entries : IsCached(q) =>
      testcase_buf[q].ver = disk[q] /\ testcase_buf[q].cap >= len[q]

Allocated == MapThenSumSet(LAMBDA q : testcase_buf[q].cap, Entries)

(* The limit is kept in the memory really allocated, although cache_size   *)
(* drifts from it: loading or storing an entry never takes the cache over  *)
(* MaxSize, unless only two entries are left in it, or an entry that has   *)
(* outgrown its buffer was taken off with more bytes than it had.          *)
LoadsWithinLimit ==
  [][cache_count' > cache_count /\ cache_count' > 2 /\ ~overrun =>
       Allocated' < MaxSize]_vars

(* A started queue_testcase_get returns: there is always a victim to draw  *)
(* that is not the current entry, and the eviction loop ends, even when    *)
(* the accounted size never falls below the limit again.                   *)
GetReturns == want # NoEntry ~> want = NoEntry
============================================================================
