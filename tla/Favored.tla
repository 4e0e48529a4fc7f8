------------------------------ MODULE Favored ------------------------------
(***************************************************************************)
(* The favored set of afl-fuzz: which queue entry is the best one for each *)
(* edge of the coverage map (update_bitmap_score), which entries are       *)
(* favored (cull_queue), and which entry is fuzzed next (the main loop and *)
(* the parts of fuzz_one that skip, calibrate, trim and abandon it).       *)
(*                                                                         *)
(* An entry's trace is the set of edges it hits; its cost is the product   *)
(* of its length and its execution time, which is 0 until it has been      *)
(* calibrated.  Queue ids are positions in the queue, from 0 as in the     *)
(* code.                                                                   *)
(***************************************************************************)
EXTENDS Naturals, FiniteSets, FiniteSetsExt, SequencesExt

CONSTANTS
  MapSize,            \* edges of the coverage map
  None,               \* NULL, or -1 where the code uses it
  Lens, Times,        \* file lengths and execution times
  MaxItems,           \* bound: queue entries
  MaxCycled,          \* bound: the same with the options that rescore or disable
  Seeds,              \* number of entries read at the start
  MaxLevel,           \* bound: fuzz_level stops here
  CalChances,         \* CAL_CHANCES
  SkipAbove,          \* queue size above which non-favored entries are skipped
  StartSchedules,     \* schedules to start with: see Schedules
  DisableRedundant,   \* settings of AFL_DISABLE_REDUNDANT to consider
  CycleSchedules      \* settings of AFL_CYCLE_SCHEDULES to consider

\* Schedules that compare fuzz_level and cost ("explore", like EXPLOIT and
\* MMOPT), fuzz_level and length ("seek"), the cost alone ("fast", like COE,
\* LIN and QUAD), or n_fuzz and length ("rare").
Schedules == {"explore", "seek", "fast", "rare"}

ASSUME FavoredAssumption ==
  /\ MapSize \in Nat \ {0} /\ Seeds \in 1..MaxItems /\ MaxItems \in Nat
  /\ MaxCycled \in Seeds..MaxItems
  /\ MaxLevel \in Nat \ {0} /\ CalChances \in Nat \ {0} /\ SkipAbove \in Nat
  /\ Lens \subseteq Nat \ {0} /\ Times \subseteq Nat \ {0}
  /\ StartSchedules \in SUBSET Schedules
  /\ DisableRedundant \in SUBSET BOOLEAN /\ CycleSchedules \in SUBSET BOOLEAN

Edges == 0..(MapSize - 1)
EdgeOrder == [k \in 1..MapSize |-> k - 1]

VARIABLES
  disable_redundant, cycle_schedules,
  schedule,                \* which kind is in use: see Schedules
  queue,                   \* queue_buf: id -> entry
  top_rated,               \* edge -> id of its best entry
  tc_ref, trace_mini,      \* per id: slots won, and the trace kept for them
  favored, fs_redundant,   \* per id
  score_changed,
  queued_favored, pending_favored, smallest_favored,
  candidates,              \* top_rated_candidates: edge -> ids
  last_scored_idx,         \* number of entries scored (the index plus one)
  pc,                      \* where the main loop or fuzz_one is
  queue_cur                \* the entry being fuzzed

env    == <<disable_redundant, cycle_schedules>>
rating == <<top_rated, tc_ref, trace_mini>>
chosen == <<favored, fs_redundant, queued_favored, pending_favored,
            smallest_favored>>
scored == <<candidates, last_scored_idx>>
vars   == <<env, schedule, queue, rating, score_changed, chosen, scored, pc,
            queue_cur>>

Traces == SUBSET Edges \ {{}}
Entry  == [trace : Traces, len : Lens, exec_us : Times \cup {0},
           cal_failed : 0..CalChances, disabled : BOOLEAN,
           was_fuzzed : BOOLEAN, fuzz_level : 0..MaxLevel, trim_done : BOOLEAN,
           grown : BOOLEAN]   \* history: a trim has made the file longer

Ids == DOMAIN queue
Slots == 0..(MaxItems - 1)

\* Every variable holds a value of its type.
TypeOK ==
  /\ disable_redundant \in DisableRedundant
  /\ cycle_schedules \in CycleSchedules
  /\ schedule \in Schedules
  /\ \E n \in 1..MaxItems : queue \in [0..(n - 1) -> Entry]
  /\ top_rated \in [Edges -> Ids \cup {None}]
  /\ tc_ref \in [Slots -> 0..MapSize]
  /\ trace_mini \in [Slots -> (SUBSET Edges) \cup {None}]
  /\ favored \subseteq Ids /\ fs_redundant \subseteq Ids
  /\ score_changed \in BOOLEAN
  /\ queued_favored \in 0..MaxItems /\ pending_favored \in 0..MaxItems
  /\ smallest_favored \in Ids \cup {None}
  /\ \A e \in Edges : candidates[e] \in Seq(Ids)
  /\ last_scored_idx \in 0..MaxItems
  /\ pc \in {"dry", "dedup", "cull", "cycle", "select", "fuzz", "trim", "work"}
  /\ queue_cur \in Ids \cup {None}

\* add_to_queue
Fresh(t, l) ==
  [trace |-> t, len |-> l, exec_us |-> 0, cal_failed |-> 0, disabled |-> FALSE,
   was_fuzzed |-> FALSE, fuzz_level |-> 0, trim_done |-> FALSE,
   grown |-> FALSE]

Init ==
  /\ disable_redundant \in DisableRedundant
  /\ cycle_schedules \in CycleSchedules
  /\ schedule \in StartSchedules
  /\ queue \in [0..(Seeds - 1) -> {Fresh(t, l) : t \in Traces, l \in Lens}]
  /\ top_rated = [e \in Edges |-> None]
  /\ tc_ref = [s \in Slots |-> 0] /\ trace_mini = [s \in Slots |-> None]
  /\ favored = {} /\ fs_redundant = {} /\ score_changed = FALSE
  /\ queued_favored = 0 /\ pending_favored = 0 /\ smallest_favored = None
  /\ candidates = [e \in Edges |-> <<>>] /\ last_scored_idx = 0
  /\ pc = "dry" /\ queue_cur = 0

(***************************************************************************)
(* update_bitmap_score and update_bitmap_rescore                           *)
(***************************************************************************)

\* What a schedule compares by.  n_fuzz, how often the path of an entry was
\* taken, is known to the schedule "rare" only; two values give every order.
Rules(sch) ==
  [schedule : {sch},
   n_fuzz : IF sch = "rare" THEN [Slots -> {0, 1}] ELSE {[q \in Slots |-> 0]}]

FuzzP2(by, qs, q) ==
  IF by.schedule = "fast" THEN 0
  ELSE IF by.schedule = "rare" THEN by.n_fuzz[q] ELSE qs[q].fuzz_level

Cost(qs, q) == qs[q].exec_us * qs[q].len
FavFactor(by, qs, q) ==
  IF by.schedule \in {"rare", "seek"} THEN 4 * qs[q].len ELSE Cost(qs, q)

\* Mutant: a slower or longer entry takes the slot.
BeatsAny(by, qs, q, p) == TRUE
\* Entry q takes the slot of the previous winner p.
Beats(by, qs, q, p) ==
  /\ FuzzP2(by, qs, q) <= FuzzP2(by, qs, p)
  /\ FavFactor(by, qs, q) <= FavFactor(by, qs, p)

Rating == [top |-> top_rated, ref |-> tc_ref, mini |-> trace_mini,
           changed |-> score_changed]

\* Mutant: the previous winner keeps its reference.
LoserKeeps(r, p) == r
\* The previous winner p of a slot loses it, and its trace with the last one.
Loser(r, p) ==
  [r EXCEPT !.ref[p] = @ - 1,
            !.mini[p] = IF r.ref[p] = 1 THEN None ELSE @]

\* Edge e of r is contested by q; `bits' is what fsrv.trace_bits holds.
Contest(by, qs, r, e, q, bits) ==
  LET p == r.top[e]
      s == IF p = None THEN r ELSE Loser(r, p)
  IN  IF p # None /\ ~Beats(by, qs, q, p) THEN r
      ELSE [s EXCEPT !.top[e] = q, !.ref[q] = @ + 1,
                     !.mini[q] = IF @ = None THEN bits ELSE @,
                     !.changed = TRUE]

\* q contests every edge of its trace, in the order of the map.
Score(by, qs, q) ==
  IF qs[q].disabled THEN Rating
  ELSE FoldLeft(LAMBDA r, e : IF e \in qs[q].trace
                              THEN Contest(by, qs, r, e, q, qs[q].trace)
                              ELSE r,
                Rating, EdgeOrder)

Rerate(r) ==
  /\ top_rated' = r.top /\ tc_ref' = r.ref /\ trace_mini' = r.mini
  /\ score_changed' = r.changed

\* The queue becomes qs, in which q has just been calibrated or trimmed.
Update(qs, q) ==
  queue' = qs /\ \E by \in Rules(schedule) : Rerate(Score(by, qs, q))

(***************************************************************************)
(* The dry run over the seeds                                              *)
(***************************************************************************)

\* calibrate_case succeeds after t microseconds: the counter is reset.
Calibrated(q, t) == [queue EXCEPT ![q].exec_us = t, ![q].cal_failed = 0]

DryNext ==
  IF queue_cur + 1 \in Ids THEN queue_cur' = queue_cur + 1 /\ pc' = pc
  ELSE queue_cur' = None /\ pc' = "dedup"

DryOk ==
  /\ pc = "dry"
  /\ \E t \in Times : Update(Calibrated(queue_cur, t), queue_cur)
  /\ DryNext
  /\ UNCHANGED <<env, schedule, chosen, scored>>

\* The seed times out or crashes; with no seed left afl-fuzz would not start.
DryFail ==
  /\ pc = "dry" /\ \E q \in Ids \ {queue_cur} : ~queue[q].disabled
  /\ queue' = [queue EXCEPT ![queue_cur].cal_failed = CalChances,
                            ![queue_cur].disabled = TRUE,
                            ![queue_cur].was_fuzzed = TRUE]
  /\ DryNext
  /\ UNCHANGED <<env, schedule, rating, score_changed, chosen, scored>>

\* Of the seeds with one trace the shortest stays, the first one if equal.
Duplicate(q) ==
  \E p \in Ids \ {q} :
    /\ ~queue[q].disabled /\ ~queue[p].disabled /\ queue[p].trace = queue[q].trace
    /\ \/ queue[p].len < queue[q].len
       \/ queue[p].len = queue[q].len /\ p < q

Dedup ==
  /\ pc = "dedup"
  /\ queue' = [q \in Ids |->
                 IF Duplicate(q)
                 THEN [queue[q] EXCEPT !.disabled = TRUE, !.was_fuzzed = TRUE]
                 ELSE queue[q]]
  /\ pc' = "cull"
  /\ UNCHANGED <<env, schedule, rating, score_changed, chosen, scored, queue_cur>>

(***************************************************************************)
(* cull_queue                                                              *)
(***************************************************************************)

Selection == [temp |-> Edges, favored |-> {}, pending |-> 0, smallest |-> None]

\* The winner w of an edge that is not captured yet becomes favored.
Favor(s, w) ==
  LET t == [s EXCEPT !.temp = @ \ trace_mini[w]]
  IN  IF w \in s.favored \/ queue[w].disabled THEN t
      ELSE IF queue[w].was_fuzzed THEN [t EXCEPT !.favored = @ \cup {w}]
      ELSE [t EXCEPT !.favored = @ \cup {w}, !.pending = @ + 1,
              !.smallest = IF @ = None \/ @ > w THEN w ELSE @]

\* Mutant: the wrong bit of temp_v is tested.
CapturedNext(s, e) == ((e + 1) % MapSize) \notin s.temp
Captured(s, e) == e \notin s.temp

Culled ==
  FoldLeft(LAMBDA s, e : LET w == top_rated[e] IN
             IF w = None THEN s
             ELSE IF Captured(s, e) \/ trace_mini[w] = None THEN s ELSE Favor(s, w),
           Selection, EdgeOrder)

\* mark_as_redundant: what becomes redundant loses its trace.
MarkRedundant(fav) ==
  LET on    == {q \in Ids : ~queue[q].disabled}
      newly == (on \ fav) \ fs_redundant
  IN  /\ fs_redundant' = (fs_redundant \ (on \cap fav)) \cup newly
      /\ trace_mini' = [s \in Slots |-> IF s \in newly THEN None ELSE trace_mini[s]]
      /\ queue' = [q \in Ids |->
                     [queue[q] EXCEPT !.disabled =
                        @ \/ (disable_redundant /\ q \in newly)]]

Cull ==
  /\ pc = "cull"
  /\ pc' = "cycle"
  /\ IF ~score_changed
     THEN UNCHANGED <<queue, trace_mini, score_changed, chosen>>
     ELSE /\ score_changed' = FALSE
          /\ favored' = Culled.favored
          /\ queued_favored' = Cardinality(Culled.favored)
          /\ pending_favored' = Culled.pending
          /\ smallest_favored' = Culled.smallest
          /\ MarkRedundant(Culled.favored)
  /\ UNCHANGED <<env, schedule, top_rated, tc_ref, scored, queue_cur>>

(***************************************************************************)
(* The main loop: a new cycle, and the choice of the next entry            *)
(***************************************************************************)

\* recalculate_all_scores: entries not scored before are executed once.
Unscored == {q \in Ids : q >= last_scored_idx /\ ~queue[q].disabled}

Enrolled ==
  [e \in Edges |-> candidates[e] \o
     SetToSortSeq({q \in Unscored : e \in queue[q].trace}, <)]

Rescored(by, bits) ==
  FoldLeft(LAMBDA r, e :
             FoldLeft(LAMBDA x, q : IF queue[q].disabled THEN x
                                    ELSE Contest(by, queue, x, e, q, bits),
                      r, Enrolled[e]),
           Rating, EdgeOrder)

\* The map still holds the trace of whatever was executed last.
LastTrace ==
  IF Unscored = {} THEN SUBSET Edges ELSE {queue[Max(Unscored)].trace}

\* The cycles EXPLORE, EXPLOIT, MMOPT, SEEK and FAST, COE, LIN, QUAD, RARE, by
\* kind.
Cycled ==
  CASE schedule = "explore" -> {"explore", "seek"}
    [] schedule = "seek"    -> {"explore"}
    [] schedule = "fast"    -> {"fast", "rare"}
    [] schedule = "rare"    -> {"fast"}

NewCycle ==
  /\ pc = "cycle" /\ cycle_schedules
  /\ schedule' \in Cycled
  /\ \E by \in Rules(schedule'), bits \in LastTrace : Rerate(Rescored(by, bits))
  /\ candidates' = Enrolled /\ last_scored_idx' = Cardinality(Ids)
  /\ pc' = "select"
  /\ UNCHANGED <<env, queue, chosen, queue_cur>>

SameCycle ==
  /\ pc = "cycle" /\ pc' = "select"
  /\ UNCHANGED <<env, schedule, queue, rating, score_changed, chosen, scored,
                 queue_cur>>

\* The alias table gives disabled entries no weight, unless all of them are.
Selectable ==
  LET on == {q \in Ids : ~queue[q].disabled} IN IF on = {} THEN Ids ELSE on

Select ==
  /\ pc = "select" /\ pc' = "fuzz"
  /\ IF pending_favored > 0 /\ smallest_favored # None
     THEN queue_cur' = smallest_favored
     ELSE queue_cur' \in Selectable
  /\ UNCHANGED <<env, schedule, queue, rating, score_changed, chosen, scored>>

(***************************************************************************)
(* fuzz_one                                                                *)
(***************************************************************************)

Cur == queue[queue_cur]

\* Mutant: smallest_favored outlives the entry's first fuzzing.
NoSmallestKept == smallest_favored
NoSmallest == None

FirstTime(c) == c.cal_failed = 0 /\ ~c.was_fuzzed /\ ~c.disabled

\* abandon_entry: the entry counts as fuzzed once it has been calibrated.
Abandon(qs) ==
  LET once == FirstTime(qs[queue_cur])
      fav  == once /\ queue_cur \in favored
  IN  /\ queue' = [qs EXCEPT
           ![queue_cur].was_fuzzed = @ \/ once,
           ![queue_cur].fuzz_level = IF @ < MaxLevel THEN @ + 1 ELSE @]
      /\ pending_favored' = IF fav THEN pending_favored - 1 ELSE pending_favored
      /\ smallest_favored' = IF fav THEN NoSmallest ELSE smallest_favored
      /\ UNCHANGED <<env, schedule, favored, fs_redundant, queued_favored, scored,
                     queue_cur>>

Unrated == UNCHANGED <<rating, score_changed>>

Stay == UNCHANGED <<env, schedule, queue, rating, score_changed, chosen, scored,
                    queue_cur>>

\* Mutant: fuzz_one returns without abandoning the entry.
CustomSkipOnly == pc = "fuzz" /\ pc' = "select" /\ Stay
\* A custom mutator's queue_get turns the entry down.
CustomSkip == pc = "fuzz" /\ pc' = "select" /\ Abandon(queue) /\ Unrated

\* Entries that are fuzzed already or not favored may be passed over.
Skip ==
  /\ pc = "fuzz"
  /\ IF pending_favored > 0 THEN Cur.fuzz_level > 0 \/ queue_cur \notin favored
     ELSE queue_cur \notin favored /\ Cardinality(Ids) > SkipAbove
  /\ pc' = "select" /\ Stay

Load ==
  /\ pc = "fuzz" /\ Cur.cal_failed = 0
  /\ pc' = "trim" /\ Stay

\* Calibration failed before: another chance, if there is one left.
Recalibrate ==
  /\ pc = "fuzz" /\ Cur.cal_failed \in 1..(CalChances - 1)
  /\ \E t \in Times : Update(Calibrated(queue_cur, t), queue_cur)
  /\ pc' = "trim"
  /\ UNCHANGED <<env, schedule, chosen, scored, queue_cur>>

\* It succeeds and shows nothing new (FSRV_RUN_NOBITS): the entry is scored,
\* and abandoned.
RecalibrateNoBits ==
  /\ pc = "fuzz" /\ Cur.cal_failed \in 1..(CalChances - 1)
  /\ \E t \in Times :
       LET qs == Calibrated(queue_cur, t) IN
       /\ \E by \in Rules(schedule) : Rerate(Score(by, qs, queue_cur))
       /\ Abandon(qs)
  /\ pc' = "select"

RecalibrateFails ==
  /\ pc = "fuzz" /\ Cur.cal_failed > 0
  /\ Abandon([queue EXCEPT ![queue_cur].cal_failed =
                IF @ < CalChances THEN @ + 1 ELSE @])
  /\ pc' = "select" /\ Unrated

\* trim_case, once per entry: the rewritten file contests its slots again.  A
\* custom trimmer or a post-processor may make it longer.
Trim ==
  /\ pc = "trim" /\ pc' = "work"
  /\ LET done == [queue EXCEPT ![queue_cur].trim_done = TRUE] IN
     \/ queue' = done /\ Unrated
     \/ /\ ~Cur.trim_done
        /\ \E l \in Lens :
             Update([done EXCEPT ![queue_cur].len = l,
                                 ![queue_cur].grown = l > Cur.len], queue_cur)
  /\ UNCHANGED <<env, schedule, chosen, scored, queue_cur>>

Limit == IF cycle_schedules \/ disable_redundant THEN MaxCycled ELSE MaxItems

\* A mutated input is interesting: save_if_interesting queues it and calibrates.
Find(t, l) ==
  LET new == Cardinality(Ids)
      qs  == [q \in Ids \cup {new} |-> IF q = new THEN Fresh(t, l) ELSE queue[q]]
  IN  /\ pc = "work" /\ new < Limit
      /\ \/ \E us \in Times : Update([qs EXCEPT ![new].exec_us = us], new)
         \/ /\ queue' = [qs EXCEPT ![new].cal_failed = 1]
            /\ Unrated
      /\ UNCHANGED <<env, schedule, chosen, scored, pc, queue_cur>>

\* The entry is done with, or abandoned in one of the stages; then the loop
\* selects the next one at once.
Finish ==
  pc = "work" /\ pc' \in {"cull", "select"} /\ Abandon(queue) /\ Unrated

Next ==
  \/ DryOk \/ DryFail \/ Dedup \/ Cull \/ NewCycle \/ SameCycle \/ Select
  \/ CustomSkip \/ Skip \/ Load \/ Recalibrate \/ RecalibrateNoBits
  \/ RecalibrateFails \/ Trim
  \/ (\E t \in Traces, l \in Lens : Find(t, l)) \/ Finish

Spec == Init /\ [][Next]_vars

\* The loop runs on: there is something to do at every place, and what keeps
\* it at one place, the dry run and finds, ends.  Its random skips do not repeat
\* for ever; a custom mutator may turn an entry down every time.
FairSpec == Spec /\ []<><<pc' # pc>>_vars /\ SF_vars(Load \/ CustomSkip)

(***************************************************************************)
(* Properties                                                              *)
(***************************************************************************)

\* tc_ref counts the slots an entry holds: the trace of a winner is not freed
\* early by update_bitmap_score, and not kept when the last slot is lost (and
\* all state keeps its type).
RefsExact ==
  /\ TypeOK
  /\ \A q \in Ids :
       /\ tc_ref[q] = Cardinality({e \in Edges : top_rated[e] = q})
       /\ tc_ref[q] = 0 => trace_mini[q] = None

\* With the schedules that ignore fuzz_level, no calibrated entry that hits an
\* edge is cheaper than the winner of that edge, trims and retries included, as
\* long as no trim has made an entry that hits it longer: the slot stays with
\* a winner that has become dearer (and without changes of schedule, which
\* compare by other rules).
WinnerIsCheapest ==
  schedule = "fast" /\ ~cycle_schedules =>
    \A q \in Ids : queue[q].exec_us > 0 /\ (~queue[q].disabled \/ tc_ref[q] > 0) =>
      \A e \in queue[q].trace :
        \/ \E g \in Ids : queue[g].grown /\ e \in queue[g].trace
        \/ /\ top_rated[e] # None
           /\ Cost(queue, top_rated[e]) <= Cost(queue, q)

\* The counters that steer the loop agree with the flags of the entries.
PendingExact ==
  /\ pending_favored = Cardinality({q \in favored : ~queue[q].was_fuzzed})
  /\ smallest_favored # None =>
       smallest_favored \in favored /\ ~queue[smallest_favored].was_fuzzed

\* What cull_queue selects hits every edge whose winner still has its trace,
\* except for what disabled winners have captured (without changes of
\* schedule, which give winners traces of other entries).
CullCovers ==
  [][pc = "cull" /\ score_changed /\ ~cycle_schedules =>
       \A e \in Edges :
         top_rated[e] # None /\ trace_mini[top_rated[e]] # None =>
           \E q \in favored' \cup {p \in Ids : queue[p].disabled /\ tc_ref[p] > 0} :
             e \in queue[q].trace]_vars

\* The entry at smallest_favored gets its turn: the loop does not come back to
\* one entry for ever without fuzzing it, so that while there is a smallest
\* favored entry it keeps changing (without changes of schedule, which make an
\* entry that cannot be calibrated the cheapest).
SmallestGetsFuzzed ==
  <>[](~cycle_schedules /\ smallest_favored # None) =>
    []<><<smallest_favored' # smallest_favored>>_vars
=============================================================================
