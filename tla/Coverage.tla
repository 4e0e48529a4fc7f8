------------------------------ MODULE Coverage ------------------------------
(***************************************************************************)
(* What afl-fuzz makes of the result of one execution: which coverage is   *)
(* new (has_new_bits and the virgin maps), whether the input is queued,    *)
(* saved as a crash or as a hang, or forgotten (save_if_interesting), and  *)
(* the calibration of a queued input (calibrate_case).                     *)
(*                                                                         *)
(* The target is arbitrary: every execution may end in any way and leave   *)
(* any of Traces in the map, so inputs need no identity.  A byte of a      *)
(* trace is a number, a byte of a virgin map the set of its bits.  A hash  *)
(* of a trace is the trace.                                                *)
(***************************************************************************)
EXTENDS Naturals, FiniteSets, Sequences

CONSTANTS
  Edges,          \* indices of the coverage map
  Traces,         \* hit counts an execution may leave: Edges -> 0..255
  Settings,       \* options of afl-fuzz to consider: see Options
  None,           \* the checksum 0 of an entry that has none
  CalCycles, CalCyclesLong, CalChances,   \* CAL_CYCLES, _LONG, CAL_CHANCES
  KeepHang, KeepCrash,   \* KEEP_UNIQUE_HANG, KEEP_UNIQUE_CRASH
  MaxFinds        \* bound: finds after which only combined inputs are judged

Bits == 0..7
Faults == {"ok", "tmout", "crash"}

\* crash_mode: the result of an ordinary run ("crash" with -C).  hashing: the
\* schedule is one of FAST to RARE.  generous: exec_tmout >= hang_tmout.  san:
\* san_abstraction, "none" without sanitizer binaries.  seeds: how many there
\* are.  seed_faults: a seed that fails is skipped, ends the program, or is
\* saved if it crashes (AFL_CRASHING_SEEDS_AS_NEW_CRASH).
Options ==
  [crash_mode : {"ok", "crash"}, keep_timeouts : BOOLEAN,
   ignore_timeouts : BOOLEAN, generous : BOOLEAN, hashing : BOOLEAN,
   san : {"none", "simplify", "coverage", "unique"}, cmplog : BOOLEAN,
   seed_faults : {"skip", "exit", "save"}, seeds : Nat \ {0}]

ASSUME CoverageAssumption ==
  /\ IsFiniteSet(Edges) /\ Edges # {}
  /\ Traces \subseteq [Edges -> 0..255] /\ Traces # {} /\ None \notin [Edges -> 0..255]
  /\ Settings \subseteq Options
  /\ CalCycles \in Nat \ {0} /\ CalCyclesLong \in Nat /\ CalCycles <= CalCyclesLong
  /\ CalChances \in Nat \ {0, 1} /\ KeepHang \in Nat /\ KeepCrash \in Nat
  /\ MaxFinds \in Nat

VARIABLES
  opt,            \* the options, one of Settings
  virgin_bits, virgin_tmout, virgin_crash,
  var_bytes,      \* edges seen to vary
  trace_bits,
  queue,          \* the entries, in the order they were added
  saved_hangs, saved_crashes,
  fed,            \* simplified_n_fuzz or n_fuzz_dup
  pc,             \* where save_if_interesting, calibrate_case or its caller is
  case,           \* the locals of save_if_interesting
  cal,            \* the locals of calibrate_case
  its,            \* the locals of input_to_state_stage
  shown,          \* history: what runs of queued inputs have shown
  crash_seen, crash_kept, hang_seen, hang_kept  \* history: the same of faults

settled == <<opt, var_bytes, queue, fed, its>>
history == <<shown, crash_seen, crash_kept, hang_seen, hang_kept>>
vars == <<opt, virgin_bits, virgin_tmout, virgin_crash, var_bytes, trace_bits,
          queue, saved_hangs, saved_crashes, fed, pc, case, cal, its, history>>
-----------------------------------------------------------------------------
(* The maps.                                                               *)

ByteBits == [n \in 0..255 |-> {b \in Bits : (n \div 2^b) % 2 = 1}]

\* count_class_lookup8
Bucket(n) ==
  CASE n <= 2        -> n
    [] n = 3         -> 4
    [] n \in 4..7    -> 8
    [] n \in 8..15   -> 16
    [] n \in 16..31  -> 32
    [] n \in 32..127 -> 64
    [] OTHER         -> 128

CountClass == [n \in 0..255 |-> Bucket(n)]

\* classify_counts and simplify_trace
Classify(t) == [e \in Edges |-> CountClass[t[e]]]
Simplify(t) == [e \in Edges |-> IF t[e] = 0 THEN 1 ELSE 128]

\* has_new_bits: what it returns, and what it leaves of the virgin map.
HasNewBits(t, v) ==
  IF \E e \in Edges : t[e] # 0 /\ v[e] = Bits THEN 2
  ELSE IF \E e \in Edges : ByteBits[t[e]] \cap v[e] # {} THEN 1
  ELSE 0

Discover(t, v) == [e \in Edges |-> v[e] \ ByteBits[t[e]]]

Virgin == [e \in Edges |-> Bits]
NoTrace == [e \in Edges |-> 0]
Shows(t) == {x \in Edges \X Bits : x[2] \in ByteBits[t[x[1]]]}
-----------------------------------------------------------------------------
Fresh(cksum, new_bits) ==
  [exec_cksum |-> cksum, new_bits |-> new_bits, cal_failed |-> 0,
   disabled |-> FALSE]

NoCase == [fault |-> "ok", classified |-> FALSE, counted |-> FALSE,
           new_bits |-> 0]
NoCal == [q |-> 0, n |-> 0, max |-> 0, first |-> NoTrace, caller |-> "fuzz"]
NoIts == [phase |-> "off", backup |-> Virgin, save |-> Virgin, hits |-> 0]

Init ==
  /\ opt \in Settings
  /\ virgin_bits = Virgin /\ virgin_tmout = Virgin /\ virgin_crash = Virgin
  /\ var_bytes = {} /\ trace_bits = NoTrace
  /\ queue = [i \in 1..opt.seeds |-> Fresh(None, 2)]
  /\ saved_hangs = 0 /\ saved_crashes = 0 /\ fed = {}
  /\ pc = "dry" /\ case = NoCase /\ cal = NoCal /\ its = NoIts
  /\ shown = {} /\ crash_seen = {} /\ crash_kept = {}
  /\ hang_seen = {} /\ hang_kept = {}
-----------------------------------------------------------------------------
\* The map is cleared before the next run and not read until then: here it is
\* cleared at once.
Return == pc' = "fuzz" /\ case' = NoCase /\ trace_bits' = NoTrace
Goto(l, c, t) == pc' = l /\ case' = c /\ trace_bits' = t
-----------------------------------------------------------------------------
(* Calibration.                                                            *)

\* calibrate_case up to its loop.  With CmpLog the checksum is forgotten; a
\* checksum that is kept belongs to the trace that is in the map.
CalStart(qs, i, t, v, caller) ==
  LET q == [qs[i] EXCEPT !.cal_failed = @ + 1,
                         !.exec_cksum = IF opt.cmplog THEN None ELSE @]
      known == q.exec_cksum # None
  IN  /\ queue' = [qs EXCEPT ![i] = q]
      /\ cal' = [q |-> i, n |-> 0, max |-> CalCycles,
                 first |-> IF known THEN t ELSE NoTrace, caller |-> caller]
      /\ virgin_bits' = IF known THEN Discover(t, v) ELSE v
      /\ pc' = "cal"

\* The edges that differ from the first trace become variable, and count as
\* fully discovered.
MarkVariable(c, v) ==
  LET vary == {e \in Edges \ var_bytes : cal.first[e] # c[e]} IN
  /\ var_bytes' = var_bytes \cup vary
  /\ virgin_bits' = [e \in Edges |-> IF e \in vary THEN {} ELSE v[e]]

CalReturn(res, t) ==
  /\ pc' = IF cal.caller = "dry" THEN "dried" ELSE cal.caller
  /\ trace_bits' = IF cal.caller = "fuzz" THEN NoTrace ELSE t
  /\ cal' = [NoCal EXCEPT !.q = IF cal.caller = "dry" THEN cal.q ELSE 0]
  /\ case' = IF cal.caller = "dry" THEN [NoCase EXCEPT !.fault = res] ELSE case

\* One run of the loop that ends well.
CalRun(t) ==
  LET c == Classify(t)
      q == queue[cal.q]
  IN  /\ pc = "cal" /\ cal.n < cal.max /\ t # NoTrace
      /\ trace_bits' = c /\ shown' = shown \cup Shows(c)
      /\ IF q.exec_cksum = c
         THEN /\ cal' = [cal EXCEPT !.n = @ + 1]
              /\ UNCHANGED <<queue, virgin_bits, var_bytes>>
         ELSE IF q.exec_cksum # None
         THEN /\ MarkVariable(c, Discover(c, virgin_bits))
              /\ cal' = [cal EXCEPT !.n = @ + 1, !.max = CalCyclesLong]
              /\ UNCHANGED queue
         ELSE /\ virgin_bits' = Discover(c, virgin_bits)
              /\ queue' = [queue EXCEPT ![cal.q].exec_cksum = c]
              /\ cal' = [cal EXCEPT !.n = @ + 1, !.first = c]
              /\ UNCHANGED var_bytes
      /\ UNCHANGED <<opt, virgin_tmout, virgin_crash, saved_hangs, saved_crashes,
                     fed, pc, case, its, crash_seen, crash_kept, hang_seen,
                     hang_kept>>

\* A run that ends otherwise, or shows no instrumentation, ends calibration.
CalAbort(f, t) ==
  /\ pc = "cal" /\ cal.n < cal.max /\ (f # opt.crash_mode \/ t = NoTrace)
  /\ CalReturn(IF f # opt.crash_mode THEN f ELSE "noinst", t)
  /\ UNCHANGED <<settled, virgin_bits, virgin_tmout, virgin_crash, saved_hangs,
                 saved_crashes, history>>

CalDone ==
  /\ pc = "cal" /\ cal.n = cal.max
  /\ queue' = [queue EXCEPT ![cal.q].cal_failed = 0]
  /\ CalReturn(opt.crash_mode, trace_bits)
  /\ UNCHANGED <<opt, virgin_bits, virgin_tmout, virgin_crash, var_bytes, saved_hangs, saved_crashes, fed, its, history>>
-----------------------------------------------------------------------------
(* The dry run of the seeds.                                               *)

\* perform_dry_run calibrates the next seed.
Dry ==
  /\ pc = "dry" /\ cal.q < opt.seeds
  /\ CalStart(queue, cal.q + 1, trace_bits, virgin_bits, "dry")
  /\ UNCHANGED <<opt, virgin_tmout, virgin_crash, var_bytes, trace_bits,
                 saved_hangs, saved_crashes, fed, case, its, history>>

Disable(f, i) == [queue EXCEPT ![i].disabled = TRUE, ![i].cal_failed = f]

\* ... and looks at how that ended.  A seed without instrumentation, or that
\* does not crash with -C, ends the program.  A timeout given with -t marks the
\* seed as not to be tried again.
DriedTimeout ==
  /\ case.fault = "tmout"
  /\ IF opt.seed_faults = "exit" THEN pc' = "exit" /\ UNCHANGED queue
     ELSE /\ pc' = "dry"
          /\ \E f \in {CalChances, queue[cal.q].cal_failed} :
               queue' = Disable(f, cal.q)
  /\ UNCHANGED <<virgin_crash, saved_crashes, crash_seen, crash_kept>>

\* A crash that shows nothing new leaves the seed enabled.
DriedCrash ==
  LET s == Simplify(Classify(trace_bits))
      saves == opt.seed_faults = "save"
      new == HasNewBits(s, virgin_crash) # 0
  IN
  /\ case.fault = "crash" /\ opt.crash_mode = "ok"
  /\ pc' = IF opt.seed_faults = "exit" THEN "exit" ELSE "dry"
  /\ queue' = IF pc' = "exit" \/ (saves /\ ~new) THEN queue
              ELSE Disable(queue[cal.q].cal_failed, cal.q)
  /\ IF saves
     THEN /\ virgin_crash' = Discover(s, virgin_crash)
          /\ saved_crashes' = saved_crashes + (IF new THEN 1 ELSE 0)
          /\ crash_seen' = crash_seen \cup Shows(s)
          /\ crash_kept' = IF new THEN crash_kept \cup Shows(s) ELSE crash_kept
     ELSE UNCHANGED <<virgin_crash, saved_crashes, crash_seen, crash_kept>>

DriedOther ==
  /\ case.fault \in {"ok", "noinst", opt.crash_mode}
  /\ pc' = IF case.fault = opt.crash_mode THEN "dry" ELSE "exit"
  /\ UNCHANGED <<queue, virgin_crash, saved_crashes, crash_seen, crash_kept>>

Dried ==
  /\ pc = "dried" /\ case' = NoCase /\ trace_bits' = NoTrace
  /\ DriedTimeout \/ DriedCrash \/ DriedOther
  /\ UNCHANGED <<opt, virgin_bits, virgin_tmout, var_bytes, saved_hangs, fed, cal,
                 its, shown, hang_seen, hang_kept>>

\* After the last seed: of calibrated seeds with the same trace the first of
\* the shortest stays.  Lengths matter for nothing else and are chosen here.
Calibrated(i) ==
  ~queue[i].disabled /\ queue[i].cal_failed = 0 /\ queue[i].exec_cksum # None

\* Mutant: of two seeds of equal length both are dropped.
NotLonger(len, i, j) == len[i] <= len[j] /\ i # j
Shorter(len, i, j) == len[i] < len[j] \/ (len[i] = len[j] /\ i < j)

Duplicates(len) ==
  {j \in 1..opt.seeds : \E i \in 1..opt.seeds :
     /\ Calibrated(i) /\ Calibrated(j) /\ Shorter(len, i, j)
     /\ queue[i].exec_cksum = queue[j].exec_cksum}

DryDone ==
  /\ pc = "dry" /\ cal.q = opt.seeds
  /\ pc' = IF \A i \in 1..opt.seeds : queue[i].cal_failed = CalChances
           THEN "exit" ELSE "fuzz"
  /\ \E len \in [1..opt.seeds -> 1..opt.seeds] :
       queue' = [i \in 1..opt.seeds |->
                   IF i \in Duplicates(len) THEN [queue[i] EXCEPT !.disabled = TRUE]
                   ELSE queue[i]]
  /\ cal' = NoCal
  /\ UNCHANGED <<opt, virgin_bits, virgin_tmout, virgin_crash, var_bytes,
                 trace_bits, saved_hangs, saved_crashes, fed, case, its, history>>
-----------------------------------------------------------------------------
(* An execution and its judgement.                                         *)

\* common_fuzz_stuff runs the target with exec_tmout.
Room(f) ==
  \/ Len(queue) < opt.seeds + MaxFinds \/ its.phase = "combine"
  \/ f # opt.crash_mode /\ ~opt.keep_timeouts

\* Only one combined input is run.
Ran == [its EXCEPT !.phase = IF @ = "combine" THEN "last" ELSE @]

Execute(f, t) ==
  /\ pc = "fuzz" /\ its.phase # "last" /\ Room(f)
  /\ Goto("judge", [NoCase EXCEPT !.fault = f], t)
  /\ its' = Ran
  /\ UNCHANGED <<opt, virgin_bits, virgin_tmout, virgin_crash, var_bytes, queue,
                 saved_hangs, saved_crashes, fed, cal, history>>

\* The result is dropped after too many timeouts in a row and when the user
\* asks to skip the input.
Discard ==
  /\ pc = "fuzz" /\ its.phase # "last"
  /\ Return
  /\ its' = Ran
  /\ UNCHANGED <<opt, virgin_bits, virgin_tmout, virgin_crash, var_bytes, queue,
                 saved_hangs, saved_crashes, fed, cal, history>>

\* What a fault shows while there is room for one more of its kind.  A timeout
\* is a hang at once if it had time enough.
SeenCrash(s) == IF saved_crashes < KeepCrash THEN crash_seen \cup s ELSE crash_seen
SeenHang(s) ==
  IF saved_hangs < KeepHang /\ opt.generous THEN hang_seen \cup s ELSE hang_seen

\* save_if_interesting of a run that is not ordinary.
JudgeFault ==
  LET s == Shows(Simplify(trace_bits))
      ignored == case.fault = "tmout" /\ opt.ignore_timeouts
  IN
  /\ pc = "judge" /\ case.fault # opt.crash_mode
  /\ IF ignored THEN Return
     ELSE Goto("fault", [case EXCEPT !.classified = opt.hashing],
               IF opt.hashing THEN Classify(trace_bits) ELSE trace_bits)
  /\ crash_seen' = IF case.fault = "crash" THEN SeenCrash(s) ELSE crash_seen
  /\ hang_seen' = IF case.fault = "tmout" /\ ~ignored THEN SeenHang(s)
                  ELSE hang_seen
  /\ UNCHANGED <<settled, virgin_bits, virgin_tmout, virgin_crash, saved_hangs,
                 saved_crashes, cal, shown, crash_kept, hang_kept>>

\* The key under which an ordinary run is known to the sanitizers, and whether
\* they get to see it.  UNIQUE_TRACE looks up a checksum that has only been
\* computed for the schedules that hash.
SanKey == IF opt.san = "simplify" THEN Simplify(trace_bits)
          ELSE Classify(trace_bits)

Feed(new_bits) ==
  \/ opt.san = "simplify" /\ SanKey \notin fed
  \/ opt.san = "coverage" /\ new_bits # 0
  \/ opt.san = "unique" /\ (opt.hashing => SanKey \notin fed)

\* save_if_interesting of an ordinary run.  The map is classified at once for a
\* checksum, and otherwise only if the run shows something new.
JudgeOrdinary ==
  LET t     == Classify(trace_bits)
      new   == HasNewBits(t, virgin_bits)
      class == opt.hashing \/ opt.san = "unique" \/ new # 0
  IN  /\ pc = "judge" /\ case.fault = opt.crash_mode
      /\ virgin_bits' = Discover(t, virgin_bits)
      /\ fed' = IF opt.san \in {"simplify", "unique"} /\ Feed(new)
                THEN fed \cup {SanKey} ELSE fed
      /\ \E san_fault \in IF Feed(new) THEN {"ok", "crash"} ELSE {"ok"} :
           IF new = 0 /\ san_fault = "ok" THEN Return
           ELSE Goto(IF new = 0 THEN "fault" ELSE "queue",
                     [fault |-> san_fault, classified |-> class, counted |-> TRUE,
                      new_bits |-> new],
                     IF class THEN t ELSE trace_bits)
      /\ UNCHANGED <<opt, virgin_tmout, virgin_crash, var_bytes, queue,
                     saved_hangs, saved_crashes, cal, its, history>>

\* save_to_queue: add_to_queue and the calibration.  After a second run of a
\* timeout the map is neither classified nor counted.
CountAnew(v, t) == IF case.counted THEN case.new_bits ELSE HasNewBits(t, v)

SaveToQueue ==
  LET t == IF case.classified THEN trace_bits ELSE Classify(trace_bits)
      v == IF case.counted THEN virgin_bits ELSE Discover(t, virgin_bits)
  IN  /\ pc = "queue"
      /\ trace_bits' = t /\ shown' = shown \cup Shows(t)
      /\ CalStart(Append(queue, Fresh(t, CountAnew(virgin_bits, t))),
                  Len(queue) + 1, t, v, "fault")
      /\ UNCHANGED <<opt, virgin_tmout, virgin_crash, var_bytes, saved_hangs,
                     saved_crashes, fed, case, its, crash_seen, crash_kept,
                     hang_seen, hang_kept>>
-----------------------------------------------------------------------------
(* may_save_fault.                                                         *)

\* A run without a fault is done with, and so is a hang when there are enough.
NoFault ==
  /\ pc = "fault"
  /\ \/ case.fault = "ok"
     \/ case.fault = "tmout" /\ saved_hangs >= KeepHang
  /\ Return
  /\ UNCHANGED <<settled, virgin_bits, virgin_tmout, virgin_crash, saved_hangs,
                 saved_crashes, cal, history>>

SaveHang(kept) ==
  /\ saved_hangs' = saved_hangs + 1
  /\ hang_kept' = hang_kept \cup kept
  /\ Return

\* A timeout: unless it shows nothing new it is kept as a hang, after a second
\* run with more time if there is more.
Timeout ==
  LET s == Simplify(trace_bits) IN
  /\ pc = "fault" /\ case.fault = "tmout" /\ saved_hangs < KeepHang
  /\ virgin_tmout' = Discover(s, virgin_tmout)
  /\ IF HasNewBits(s, virgin_tmout) = 0
     THEN Return /\ UNCHANGED <<saved_hangs, hang_kept>>
     ELSE IF opt.generous THEN SaveHang(Shows(s))
     ELSE Goto("rerun", case, s) /\ UNCHANGED <<saved_hangs, hang_kept>>
  /\ UNCHANGED <<settled, virgin_bits, virgin_crash, saved_crashes, cal, shown,
                 crash_seen, crash_kept, hang_seen>>

\* What the second run, with hang_tmout, makes of the flags.
Forget(c) == [c EXCEPT !.classified = FALSE, !.counted = FALSE]

Rerun(f, t) ==
  /\ pc = "rerun"
  /\ IF f = "tmout" THEN SaveHang({})
     ELSE /\ CASE f = "crash" -> Goto("crash", Forget(case), t)
               [] f = "ok" /\ opt.keep_timeouts -> Goto("queue", Forget(case), t)
               [] OTHER -> Return
          /\ UNCHANGED <<saved_hangs, hang_kept>>
  /\ crash_seen' = IF f = "crash" THEN SeenCrash(Shows(Simplify(t)))
                   ELSE crash_seen
  /\ UNCHANGED <<settled, virgin_bits, virgin_tmout, virgin_crash, saved_crashes,
                 cal, shown, crash_kept, hang_seen>>

\* Mutant: only new edges count, not new bits of known ones.
NewEdgesOnly(s) == HasNewBits(s, virgin_crash) = 2
NewCrash(s) == HasNewBits(s, virgin_crash) # 0

\* keep_as_crash
KeepCrashCase ==
  LET s == Simplify(trace_bits) IN
  /\ pc = "crash" \/ (pc = "fault" /\ case.fault = "crash")
  /\ Return
  /\ IF saved_crashes >= KeepCrash
     THEN UNCHANGED <<virgin_crash, saved_crashes, crash_kept>>
     ELSE /\ virgin_crash' = Discover(s, virgin_crash)
          /\ IF NewCrash(s)
             THEN /\ saved_crashes' = saved_crashes + 1
                  /\ crash_kept' = crash_kept \cup Shows(s)
             ELSE UNCHANGED <<saved_crashes, crash_kept>>
  /\ UNCHANGED <<settled, virgin_bits, virgin_tmout, saved_hangs, cal, shown,
                 crash_seen, hang_seen, hang_kept>>
-----------------------------------------------------------------------------
(* The rest of fuzz_one that touches the maps.                             *)

\* An entry whose calibration has failed is calibrated again, from scratch.
Recalibrate(i) ==
  /\ pc = "fuzz" /\ its.phase = "off"
  /\ ~queue[i].disabled /\ queue[i].cal_failed \in 1..(CalChances - 1)
  /\ CalStart([queue EXCEPT ![i].exec_cksum = None], i, trace_bits, virgin_bits,
              "fuzz")
  /\ UNCHANGED <<opt, virgin_tmout, virgin_crash, var_bytes, trace_bits,
                 saved_hangs, saved_crashes, fed, case, its, history>>

\* input_to_state_stage: if the stage has found two things or more, one more
\* input combines them, judged as if the stage had found nothing yet.
Hits == Len(queue) + saved_crashes

ItsBegin ==
  /\ pc = "fuzz" /\ opt.cmplog /\ its.phase = "off"
  /\ its' = [NoIts EXCEPT !.phase = "on", !.backup = virgin_bits, !.hits = Hits]
  /\ UNCHANGED <<opt, virgin_bits, virgin_tmout, virgin_crash, var_bytes,
                 trace_bits, queue, saved_hangs, saved_crashes, fed, pc, case, cal,
                 history>>

ItsEnd ==
  /\ pc = "fuzz" /\ its.phase = "on"
  /\ IF Hits > its.hits + 1
     THEN /\ its' = [its EXCEPT !.save = virgin_bits, !.phase = "combine"]
          /\ virgin_bits' = its.backup
     ELSE its' = NoIts /\ UNCHANGED virgin_bits
  /\ UNCHANGED <<opt, virgin_tmout, virgin_crash, var_bytes, trace_bits, queue,
                 saved_hangs, saved_crashes, fed, pc, case, cal, history>>

\* Mutant: what the stage found before is not taken off again.
CombineOver(v, s) == v
Combine(v, s) == [e \in Edges |-> v[e] \cap s[e]]

ItsCombined ==
  /\ pc = "fuzz" /\ its.phase = "last"
  /\ virgin_bits' = Combine(virgin_bits, its.save) /\ its' = NoIts
  /\ UNCHANGED <<opt, virgin_tmout, virgin_crash, var_bytes, trace_bits, queue,
                 saved_hangs, saved_crashes, fed, pc, case, cal, history>>
-----------------------------------------------------------------------------
Step ==
  \/ Dry \/ Dried \/ DryDone \/ CalDone
  \/ \E t \in Traces : CalRun(t)
  \/ \E f \in Faults, t \in Traces : CalAbort(f, t) \/ Rerun(f, t)
  \/ JudgeFault \/ JudgeOrdinary \/ SaveToQueue \/ NoFault \/ Timeout
  \/ KeepCrashCase

Exited == pc = "exit" /\ UNCHANGED vars

Next ==
  \/ Step
  \/ \E f \in Faults, t \in Traces : Execute(f, t)
  \/ Discard
  \/ \E i \in DOMAIN queue : Recalibrate(i)
  \/ ItsBegin \/ ItsEnd \/ ItsCombined
  \/ Exited

Spec == Init /\ [][Next]_vars
-----------------------------------------------------------------------------
Maps == [Edges -> SUBSET Bits]

\* Every variable holds a value of its type.
TypeOK ==
  /\ opt \in Settings
  /\ virgin_bits \in Maps /\ virgin_tmout \in Maps /\ virgin_crash \in Maps
  /\ var_bytes \subseteq Edges /\ trace_bits \in [Edges -> 0..255]
  /\ queue \in Seq([exec_cksum : {Classify(t) : t \in Traces} \cup {None},
                     new_bits : 0..2, cal_failed : 0..CalChances, disabled : BOOLEAN])
  /\ saved_hangs \in 0..KeepHang /\ saved_crashes \in Nat
  /\ fed \subseteq [Edges -> 0..255]
  /\ pc \in {"dry", "dried", "cal", "fuzz", "judge", "queue", "fault", "rerun",
             "crash", "exit"}
  /\ case \in [fault : Faults \cup {"noinst"}, classified : BOOLEAN,
               counted : BOOLEAN, new_bits : 0..2]
  /\ cal.q \in 0..Len(queue) /\ cal.n \in 0..cal.max /\ cal.max \in 0..CalCyclesLong
  /\ its.phase \in {"off", "on", "combine", "last"}

\* Between two executions the virgin map has lost exactly what runs of queued
\* inputs have shown, and all of an edge that varies: no coverage is lost when
\* a calibration fails, a checksum is stale or CmpLog puts old bits back, and
\* none is taken for seen that no entry of the queue shows (and all state keeps
\* its type).
SeenIsShown ==
  /\ TypeOK
  /\ pc = "fuzz" /\ its.phase \in {"off", "on"} =>
       \A e \in Edges :
         virgin_bits[e] = {b \in Bits : e \notin var_bytes /\ <<e, b>> \notin shown}

\* Everything a crash of the target has shown while there was room is shown by
\* a saved crash, and everything a hang has shown by a saved hang.
FaultsKept ==
  pc = "fuzz" => crash_seen \subseteq crash_kept /\ hang_seen \subseteq hang_kept

\* The trace of every calibrated entry is the trace of an enabled one: when
\* the dry run drops seeds with equal traces, one of each is left.
TracesRepresented ==
  pc = "fuzz" =>
    \A i \in DOMAIN queue : queue[i].cal_failed = 0 =>
      \E j \in DOMAIN queue :
        ~queue[j].disabled /\ queue[j].exec_cksum = queue[i].exec_cksum
=============================================================================
