--------------------------- MODULE CoverageProofs ---------------------------
(***************************************************************************)
(* Proofs, for any coverage map, target, options and number of seeds, that *)
(* no coverage is lost or invented (the virgin map), that what a new crash *)
(* or hang shows is kept, and that every calibrated trace keeps an enabled *)
(* entry (Coverage).                                                       *)
(***************************************************************************)
EXTENDS Coverage, WellFoundedInduction, TLAPS

\* Most steps are first-order; those that need arithmetic or records cite SMT.
USE Zenon

Counts == [Edges -> 0..255]
Classified == {Classify(t) : t \in Traces}
Entry == [exec_cksum : Classified \cup {None}, new_bits : 0..2,
          cal_failed : 0..CalChances, disabled : BOOLEAN]
Case == [fault : Faults \cup {"noinst"}, classified : BOOLEAN, counted : BOOLEAN,
         new_bits : 0..2]
Cal == [q : Nat, n : Nat, max : Nat, first : Counts, caller : {"dry", "fault", "fuzz"}]
Its == [phase : {"off", "on", "combine", "last"}, backup : Maps, save : Maps, hits : Nat]

Shape == TypeOK /\ cal \in Cal /\ its \in Its

\* What is in the map: a trace as the target left it or, if the flag says so,
\* a classified one.
TraceInv ==
  /\ pc = "judge" => trace_bits \in Traces
  /\ pc = "queue" =>
       /\ trace_bits \in IF case.classified THEN Classified ELSE Traces
       /\ case.counted => case.classified

\* The seeds are being calibrated for the first time.
Drying == pc \in {"dry", "dried"} \/ (pc = "cal" /\ cal.caller = "dry")

\* The entries: what a calibration has made of those it is through with, and of
\* the one it is at; then, a calibrated entry that was disabled has a twin.
EntryInv ==
  /\ Drying => /\ Len(queue) = opt.seeds
               /\ \A i \in DOMAIN queue :
                    /\ i > cal.q => /\ queue[i].exec_cksum = None
                                    /\ queue[i].cal_failed = 0 /\ ~queue[i].disabled
                    /\ i <= cal.q /\ queue[i].cal_failed = 0 =>
                         queue[i].exec_cksum # None /\ ~queue[i].disabled
  /\ pc = "cal" => /\ cal.q > 0 /\ cal.max > 0
                   /\ queue[cal.q].cal_failed > 0 /\ ~queue[cal.q].disabled
                   /\ cal.n > 0 => queue[cal.q].exec_cksum # None
  /\ pc = "dried" => /\ cal.q > 0
                     /\ case.fault # opt.crash_mode => queue[cal.q].cal_failed > 0
  /\ ~Drying /\ pc # "exit" =>
       \A i \in DOMAIN queue : queue[i].disabled /\ queue[i].cal_failed = 0 =>
         \E j \in DOMAIN queue :
           /\ ~queue[j].disabled /\ queue[j].cal_failed = 0
           /\ queue[j].exec_cksum = queue[i].exec_cksum

\* What has been taken off the virgin map for an input that is about to be queued.
Pending == IF pc = "queue" /\ case.counted THEN Shows(trace_bits) ELSE {}

\* The virgin map as it will be when the CmpLog stage has put its bits back.
Restored(e) ==
  IF its.phase \in {"combine", "last"} THEN virgin_bits[e] \cap its.save[e]
  ELSE virgin_bits[e]

\* What the trace of a checksum shows has been taken off.
ChecksumsShown ==
  \A i \in DOMAIN queue :
    queue[i].exec_cksum # None => Shows(queue[i].exec_cksum) \subseteq shown

MapInv ==
  /\ \A e \in Edges :
       Restored(e) = {b \in Bits : e \notin var_bytes /\ <<e, b>> \notin shown \cup Pending}
  /\ its.phase = "on" => \A e \in Edges : virgin_bits[e] \subseteq its.backup[e]
  /\ ChecksumsShown

\* What a virgin map has lost.
Lost(v) == {x \in Edges \X Bits : x[2] \notin v[x[1]]}

\* What the fault at hand shows, if there is room for it.
CrashAtHand ==
  IF (pc = "crash" \/ (pc = "fault" /\ case.fault = "crash")) /\ saved_crashes < KeepCrash
  THEN Shows(Simplify(trace_bits)) ELSE {}
HangAtHand ==
  IF pc = "fault" /\ case.fault = "tmout" /\ saved_hangs < KeepHang
  THEN Shows(Simplify(trace_bits)) ELSE {}

\* What was taken off the maps of faults, some saved fault shows.
FaultInv ==
  /\ Lost(virgin_crash) \subseteq crash_kept
  /\ crash_seen \subseteq crash_kept \cup CrashAtHand
  /\ IF opt.generous THEN /\ Lost(virgin_tmout) \subseteq hang_kept
                          /\ hang_seen \subseteq hang_kept \cup HangAtHand
     ELSE hang_seen = {}
  /\ pc = "rerun" => saved_hangs < KeepHang

IInv == Shape /\ TraceInv /\ EntryInv /\ MapInv /\ FaultInv

-----------------------------------------------------------------------------
(* The maps.                                                               *)

\* classify_counts keeps apart what was hit and what was not.
LEMMA CountClassType ==
  ASSUME NEW n \in 0..255
  PROVE  CountClass[n] \in 0..255 /\ (CountClass[n] = 0 <=> n = 0)
  <1>1. CountClass[n] = Bucket(n)
    BY DEF CountClass
  <1>2. n <= 2 \/ n = 3 \/ n \in 4..7 \/ n \in 8..15 \/ n \in 16..31 \/ n \in 32..127
          \/ n \in 128..255
    BY SMT
  <1>3. CASE n <= 2
    BY <1>1, <1>3, SMT DEF Bucket
  <1>4. CASE n = 3
    BY <1>1, <1>4, SMT DEF Bucket
  <1>5. CASE n \in 4..7
    BY <1>1, <1>5, SMT DEF Bucket
  <1>6. CASE n \in 8..15
    BY <1>1, <1>6, SMT DEF Bucket
  <1>7. CASE n \in 16..31
    BY <1>1, <1>7, SMT DEF Bucket
  <1>8. CASE n \in 32..127
    BY <1>1, <1>8, SMT DEF Bucket
  <1>9. CASE n \in 128..255
    BY <1>1, <1>9, SMT DEF Bucket
  <1> QED
    BY <1>2, <1>3, <1>4, <1>5, <1>6, <1>7, <1>8, <1>9

\* classify_counts and simplify_trace make maps of bytes, and the latter gives the
\* same whether or not a trace was classified.
LEMMA TraceTypes ==
  ASSUME NEW t \in Counts
  PROVE  /\ Classify(t) \in Counts /\ Simplify(t) \in Counts
         /\ Simplify(Classify(t)) = Simplify(t)
  <1>1. \A e \in Edges : t[e] \in 0..255
    BY DEF Counts
  <1>2. \A e \in Edges : CountClass[t[e]] \in 0..255 /\ (CountClass[t[e]] = 0 <=> t[e] = 0)
    BY <1>1, CountClassType
  <1>3. Classify(t) \in Counts /\ \A e \in Edges : Classify(t)[e] = CountClass[t[e]]
    BY <1>2 DEF Classify, Counts
  <1>4. Simplify(t) \in Counts
    BY SMT DEF Simplify, Counts
  <1>5. \A e \in Edges : Classify(t)[e] = 0 <=> t[e] = 0
    BY <1>2, <1>3
  <1>6. [e \in Edges |-> IF Classify(t)[e] = 0 THEN 1 ELSE 128]
          = [e \in Edges |-> IF t[e] = 0 THEN 1 ELSE 128]
    BY <1>5
  <1> QED
    BY <1>3, <1>4, <1>6 DEF Simplify

\* Traces, classified or not, are maps of bytes, and none is taken for no checksum.
LEMMA ClassifiedTypes ==
  /\ Traces \subseteq Counts /\ Classified \subseteq Counts /\ None \notin Counts
  /\ NoTrace \in Counts /\ Virgin \in Maps
  BY CoverageAssumption, TraceTypes, SMT DEF Classified, Counts, NoTrace, Virgin, Maps

\* What a trace shows, and what a virgin map has lost, edge by edge and bit by bit.
LEMMA ShowsPairs ==
  ASSUME NEW t, NEW S
  PROVE  /\ \A e \in Edges, b \in Bits : <<e, b>> \in Shows(t) <=> b \in ByteBits[t[e]]
         /\ (\A e \in Edges, b \in Bits : b \in ByteBits[t[e]] => <<e, b>> \in S) => Shows(t) \subseteq S
  BY SMT DEF Shows

\* And what a virgin map has lost.
LEMMA LostPairs ==
  ASSUME NEW v, NEW S
  PROVE  /\ \A e \in Edges, b \in Bits : <<e, b>> \in Lost(v) <=> b \notin v[e]
         /\ (\A e \in Edges, b \in Bits : b \notin v[e] => <<e, b>> \in S) => Lost(v) \subseteq S
  BY SMT DEF Lost

\* has_new_bits: a trace that shows nothing new shows what was lost before.
LEMMA NewBits ==
  ASSUME NEW t, NEW v
  PROVE  /\ HasNewBits(t, v) \in 0..2
         /\ HasNewBits(t, v) = 0 => \A e \in Edges : ByteBits[t[e]] \cap v[e] = {}
  BY SMT DEF HasNewBits

\* discover_word takes off what the trace shows and nothing else.
LEMMA Discovered ==
  ASSUME NEW t, NEW v \in Maps
  PROVE  /\ Discover(t, v) \in Maps
         /\ \A e \in Edges : Discover(t, v)[e] = v[e] \ ByteBits[t[e]]
         /\ Lost(Discover(t, v)) \subseteq Lost(v) \cup Shows(t)
         /\ HasNewBits(t, v) = 0 => Shows(t) \subseteq Lost(v) /\ Discover(t, v) = v
  <1>1. \A e \in Edges : Discover(t, v)[e] = v[e] \ ByteBits[t[e]] /\ v[e] \subseteq Bits
    BY DEF Discover, Maps
  <1>2. Discover(t, v) \in Maps
    BY DEF Discover, Maps
  <1>3. Lost(Discover(t, v)) \subseteq Lost(v) \cup Shows(t)
    <2>1. ASSUME NEW e \in Edges, NEW b \in Bits, b \notin Discover(t, v)[e]
          PROVE  <<e, b>> \in Lost(v) \cup Shows(t)
      <3>1. b \notin v[e] \/ b \in ByteBits[t[e]]
        BY <1>1, <2>1
      <3>2. <<e, b>> \in Lost(v) \/ <<e, b>> \in Shows(t)
        BY <3>1, ShowsPairs, LostPairs
      <3> QED
        BY <3>2
    <2> QED
      BY <2>1, LostPairs
  <1>4. ASSUME HasNewBits(t, v) = 0
        PROVE  Shows(t) \subseteq Lost(v) /\ Discover(t, v) = v
    <2>1. \A e \in Edges : ByteBits[t[e]] \cap v[e] = {}
      BY <1>4, NewBits
    <2>2. Shows(t) \subseteq Lost(v)
      <3>1. \A e \in Edges, b \in Bits : b \in ByteBits[t[e]] => <<e, b>> \in Lost(v)
        BY <2>1, LostPairs
      <3> QED
        BY <3>1, ShowsPairs
    <2>3. v = [e \in Edges |-> v[e]]
      BY DEF Maps
    <2>4. [e \in Edges |-> v[e]] = [e \in Edges |-> v[e] \ ByteBits[t[e]]]
      BY <2>1
    <2> QED
      BY <2>2, <2>3, <2>4 DEF Discover
  <1> QED
    BY <1>1, <1>2, <1>3, <1>4

-----------------------------------------------------------------------------
(* Types, and what a step leaves alone.                                    *)

\* The limits of config.h are numbers.
LEMMA Bounds ==
  /\ CalCycles \in Nat /\ CalCycles > 0 /\ CalCyclesLong \in Nat /\ CalCycles <= CalCyclesLong
  /\ CalChances \in Nat /\ CalChances > 1 /\ KeepHang \in Nat /\ KeepCrash \in Nat
  <1>1. /\ CalCycles \in Nat \ {0} /\ CalCyclesLong \in Nat /\ CalCycles <= CalCyclesLong
        /\ CalChances \in Nat \ {0, 1} /\ KeepHang \in Nat /\ KeepCrash \in Nat
    BY CoverageAssumption
  <1> QED
    BY <1>1, SMT

Places == {"dry", "dried", "cal", "fuzz", "judge", "queue", "fault", "rerun", "crash", "exit"}

\* What the type invariant says of each variable.
LEMMA Types ==
  ASSUME Shape
  PROVE  /\ opt \in Settings /\ opt \in Options /\ opt.crash_mode \in {"ok", "crash"}
         /\ opt.seeds \in Nat /\ opt.hashing \in BOOLEAN /\ opt.generous \in BOOLEAN
         /\ virgin_bits \in Maps /\ virgin_tmout \in Maps /\ virgin_crash \in Maps
         /\ var_bytes \subseteq Edges /\ trace_bits \in Counts /\ queue \in Seq(Entry)
         /\ saved_hangs \in 0..KeepHang /\ saved_crashes \in Nat /\ fed \subseteq Counts
         /\ pc \in Places /\ case \in Case
         /\ cal \in Cal /\ cal.q <= Len(queue) /\ cal.n <= cal.max /\ cal.max <= CalCyclesLong
         /\ its \in Its
  <1>1. opt \in Settings /\ opt \in Options
    BY CoverageAssumption DEF Shape, TypeOK
  <1>2. /\ opt.crash_mode \in {"ok", "crash"} /\ opt.seeds \in Nat /\ opt.hashing \in BOOLEAN
        /\ opt.generous \in BOOLEAN
    BY <1>1 DEF Options
  <1>3. queue \in Seq(Entry)
    BY DEF Shape, TypeOK, Entry, Classified
  <1>4. cal \in Cal /\ cal.q <= Len(queue) /\ cal.n <= cal.max /\ cal.max <= CalCyclesLong
    BY Bounds, <1>3, SMT DEF Shape, TypeOK, Cal
  <1> QED
    BY <1>1, <1>2, <1>3, <1>4 DEF Shape, TypeOK, Counts, Places, Case

\* What is to be shown for it in the next state.
LEMMA MakeShape ==
  ASSUME opt' \in Settings, virgin_bits' \in Maps, virgin_tmout' \in Maps,
         virgin_crash' \in Maps, var_bytes' \subseteq Edges, trace_bits' \in Counts,
         queue' \in Seq(Entry), saved_hangs' \in 0..KeepHang, saved_crashes' \in Nat,
         fed' \subseteq Counts, pc' \in Places, case' \in Case, cal' \in Cal,
         cal'.q <= Len(queue'), cal'.n <= cal'.max, cal'.max <= CalCyclesLong, its' \in Its
  PROVE  Shape'
  <1>1. cal'.q \in 0..Len(queue') /\ cal'.n \in 0..cal'.max /\ cal'.max \in 0..CalCyclesLong
    BY Bounds, SMT DEF Cal
  <1>2. its'.phase \in {"off", "on", "combine", "last"}
    BY DEF Its
  <1> QED
    BY <1>1, <1>2 DEF Shape, TypeOK, Counts, Places, Case, Entry, Classified

\* The records the program starts from and returns to.
LEMMA Records ==
  /\ NoCase \in Case /\ NoCal \in Cal /\ NoIts \in Its
  /\ \A c \in Classified \cup {None}, n \in 0..2 : Fresh(c, n) \in Entry
  /\ \A c, n : LET q == Fresh(c, n) IN q.exec_cksum = c /\ q.cal_failed = 0 /\ q.disabled = FALSE
  <1>1. NoCase \in Case
    BY SMT DEF NoCase, Case, Faults
  <1>2. NoCal \in Cal
    BY ClassifiedTypes DEF NoCal, Cal
  <1>3. NoIts \in Its
    BY ClassifiedTypes DEF NoIts, Its
  <1>4. \A c \in Classified \cup {None}, n \in 0..2 : Fresh(c, n) \in Entry
    BY Bounds, SMT DEF Fresh, Entry
  <1>5. \A c, n : LET q == Fresh(c, n) IN q.exec_cksum = c /\ q.cal_failed = 0 /\ q.disabled = FALSE
    BY DEF Fresh
  <1> QED
    BY <1>1, <1>2, <1>3, <1>4, <1>5

\* A judgement under way keeps its type when a field is set or it is forgotten.
LEMMA CaseUpdates ==
  ASSUME NEW c \in Case
  PROVE  /\ c.fault \in Faults \cup {"noinst"} /\ c.new_bits \in 0..2
         /\ \A f \in Faults \cup {"noinst"} :
              [c EXCEPT !.fault = f] \in Case /\ [c EXCEPT !.fault = f].fault = f
         /\ \A b \in BOOLEAN : /\ [c EXCEPT !.classified = b] \in Case
                               /\ [c EXCEPT !.classified = b].fault = c.fault
         /\ Forget(c) \in Case /\ Forget(c).fault = c.fault
         /\ Forget(c).classified = FALSE /\ Forget(c).counted = FALSE
  <1>1. c.fault \in Faults \cup {"noinst"} /\ c.new_bits \in 0..2
    BY DEF Case
  <1>2. \A f \in Faults \cup {"noinst"} :
          [c EXCEPT !.fault = f] \in Case /\ [c EXCEPT !.fault = f].fault = f
    BY DEF Case
  <1>3. \A b \in BOOLEAN : /\ [c EXCEPT !.classified = b] \in Case
                          /\ [c EXCEPT !.classified = b].fault = c.fault
    BY DEF Case
  <1>4. /\ Forget(c) \in Case /\ Forget(c).fault = c.fault
        /\ Forget(c).classified = FALSE /\ Forget(c).counted = FALSE
    BY DEF Case, Forget
  <1> QED
    BY <1>1, <1>2, <1>3, <1>4

\* Steps that do not touch the maps of ordinary runs.
LEMMA MapFrame ==
  ASSUME MapInv, UNCHANGED <<virgin_bits, var_bytes, shown, queue>>, Pending' = Pending,
         its'.save = its.save, its'.backup = its.backup, its'.phase = "on" <=> its.phase = "on",
         its'.phase \in {"combine", "last"} <=> its.phase \in {"combine", "last"}
  PROVE  MapInv'
  <1>1. \A e \in Edges : Restored(e)' = Restored(e)
    BY DEF Restored
  <1> QED
    BY <1>1 DEF MapInv, ChecksumsShown

\* Steps that take what a trace shows off the virgin map, if it is not off yet.
Takes(t) ==
  \A e \in Edges :
    \/ virgin_bits'[e] = virgin_bits[e] \ ByteBits[t[e]]
    \/ virgin_bits'[e] = virgin_bits[e] /\ Shows(t) \subseteq shown \cup Pending

\* They keep the virgin map exact when what they took off is shown or pending.
LEMMA MapTaken ==
  ASSUME MapInv, NEW t, UNCHANGED <<var_bytes, its>>, Takes(t), ChecksumsShown',
         shown' \cup Pending' = shown \cup Pending \cup Shows(t)
  PROVE  MapInv'
  <1>1. ASSUME NEW e \in Edges
        PROVE  Restored(e)' = {b \in Bits : e \notin var_bytes /\ <<e, b>> \notin shown' \cup Pending'}
    <2>1. Restored(e) = {b \in Bits : e \notin var_bytes /\ <<e, b>> \notin shown \cup Pending}
      BY DEF MapInv
    <2>2. \A b \in Bits : <<e, b>> \in Shows(t) <=> b \in ByteBits[t[e]]
      BY ShowsPairs
    <2>3. CASE virgin_bits'[e] = virgin_bits[e] \ ByteBits[t[e]]
      <3>1. Restored(e)' = Restored(e) \ ByteBits[t[e]]
        BY <2>3 DEF Restored
      <3> QED
        BY <2>1, <2>2, <3>1
    <2>4. CASE virgin_bits'[e] = virgin_bits[e] /\ Shows(t) \subseteq shown \cup Pending
      <3>1. Restored(e)' = Restored(e) /\ shown' \cup Pending' = shown \cup Pending
        BY <2>4 DEF Restored
      <3> QED
        BY <2>1, <3>1
    <2> QED
      BY <2>3, <2>4 DEF Takes
  <1>2. its'.phase = "on" => \A e \in Edges : virgin_bits'[e] \subseteq its'.backup[e]
    BY DEF MapInv, Takes
  <1> QED
    BY <1>1, <1>2 DEF MapInv

\* Steps that are not about a fault.
LEMMA FaultFrame ==
  ASSUME FaultInv, pc \notin {"fault", "crash"}, pc' # "rerun",
         UNCHANGED <<opt, virgin_crash, virgin_tmout, saved_crashes, saved_hangs,
                     crash_seen, crash_kept, hang_seen, hang_kept>>
  PROVE  FaultInv'
  <1>1. CrashAtHand = {} /\ HangAtHand = {}
    BY DEF CrashAtHand, HangAtHand
  <1> QED
    BY <1>1 DEF FaultInv, Lost

\* Steps that are not about a calibration.
LEMMA EntryFrame ==
  ASSUME EntryInv, ~Drying, pc # "exit", UNCHANGED queue, pc' \notin {"dry", "dried", "cal"}
  PROVE  EntryInv'
  BY DEF EntryInv, Drying

-----------------------------------------------------------------------------
(* The steps.                                                              *)

\* Init: nothing has been run.
LEMMA InitIInv == Init => IInv
  <1> SUFFICES ASSUME Init PROVE IInv
    OBVIOUS
  <1>1. opt \in Settings /\ opt \in Options
    BY CoverageAssumption DEF Init
  <1>2. opt.seeds \in Nat /\ opt.seeds > 0
    BY <1>1, SMT DEF Options
  <1>3. /\ queue \in Seq(Entry) /\ Len(queue) = opt.seeds
        /\ \A i \in DOMAIN queue : queue[i] = Fresh(None, 2)
    <2>1. Fresh(None, 2) \in Entry
      BY Records, SMT
    <2>2. queue = [i \in 1..opt.seeds |-> Fresh(None, 2)]
      BY DEF Init
    <2> HIDE DEF Fresh
    <2> QED
      BY <1>2, <2>1, <2>2, SMT
  <1>4. TypeOK /\ cal \in Cal /\ its \in Its
    <2>1. trace_bits \in Counts /\ virgin_bits \in Maps /\ virgin_tmout \in Maps /\ virgin_crash \in Maps
      BY ClassifiedTypes DEF Init
    <2>2. cal \in Cal /\ its \in Its /\ case \in Case
      BY Records DEF Init
    <2>3. cal.q \in 0..Len(queue) /\ cal.n \in 0..cal.max /\ cal.max \in 0..CalCyclesLong
      BY Bounds, <1>2, <1>3, SMT DEF Init, NoCal
    <2>4. its.phase \in {"off", "on", "combine", "last"}
      BY DEF Init, NoIts
    <2>5. saved_hangs \in 0..KeepHang /\ saved_crashes \in Nat
      BY Bounds, SMT DEF Init
    <2>6. var_bytes \subseteq Edges /\ fed \subseteq Counts /\ pc = "dry"
      BY DEF Init
    <2> QED
      BY <1>1, <1>3, <2>1, <2>2, <2>3, <2>4, <2>5, <2>6 DEF TypeOK, Counts, Entry, Case, Classified
  <1>5. TraceInv
    BY DEF Init, TraceInv
  <1>6. EntryInv
    <2>1. pc = "dry" /\ cal.q = 0
      BY DEF Init, NoCal
    <2>2. \A i \in DOMAIN queue : i \in Nat /\ i > 0
      BY <1>3, SMT
    <2>3. \A i \in DOMAIN queue : /\ queue[i].exec_cksum = None
                                  /\ queue[i].cal_failed = 0 /\ queue[i].disabled = FALSE
      BY <1>3, Records, SMT
    <2> QED
      BY <1>3, <2>1, <2>2, <2>3, SMT DEF EntryInv, Drying
  <1>7. MapInv
    <2>1. Pending = {} /\ its.phase = "off" /\ shown = {} /\ var_bytes = {}
      BY DEF Init, Pending, NoIts
    <2>2. \A e \in Edges : virgin_bits[e] = Bits
      BY DEF Init, Virgin
    <2>3. \A i \in DOMAIN queue : queue[i].exec_cksum = None
      BY <1>3, Records
    <2> QED
      BY <2>1, <2>2, <2>3 DEF MapInv, Restored, ChecksumsShown
  <1>8. FaultInv
    <2>1. \A e \in Edges : Virgin[e] = Bits
      BY DEF Virgin
    <2>2. Lost(Virgin) \subseteq {}
      BY <2>1 DEF Lost
    <2> QED
      BY <2>2 DEF Init, FaultInv
  <1> QED
    BY <1>4, <1>5, <1>6, <1>7, <1>8 DEF IInv, Shape

\* Steps that touch neither the queue nor the map of ordinary runs.
LEMMA PlainStep ==
  ASSUME IInv, ~Drying, pc \notin {"exit", "queue"},
         pc' \in {"fuzz", "judge", "queue", "fault", "rerun", "crash"},
         UNCHANGED <<opt, virgin_bits, var_bytes, queue, cal, shown>>,
         virgin_tmout' \in Maps, virgin_crash' \in Maps, trace_bits' \in Counts,
         saved_hangs' \in 0..KeepHang, saved_crashes' \in Nat, fed' \subseteq Counts,
         case' \in Case, its' \in Its, its'.save = its.save, its'.backup = its.backup,
         its'.phase = "on" <=> its.phase = "on",
         its'.phase \in {"combine", "last"} <=> its.phase \in {"combine", "last"},
         TraceInv', pc' = "queue" => ~case'.counted, FaultInv'
  PROVE  IInv'
  <1>1. Shape /\ EntryInv /\ MapInv
    BY DEF IInv
  <1>2. pc' \in Places
    BY DEF Places
  <1>3. Shape'
    BY <1>1, <1>2, Types, MakeShape
  <1>4. EntryInv'
    BY <1>1, EntryFrame
  <1>5. Pending' = Pending
    BY DEF Pending
  <1>6. MapInv'
    BY <1>1, <1>5, MapFrame
  <1> QED
    BY <1>3, <1>4, <1>6 DEF IInv

\* The CmpLog stage counts the combined input.
LEMMA ItsRan ==
  ASSUME its \in Its
  PROVE  /\ Ran \in Its /\ Ran.save = its.save /\ Ran.backup = its.backup
         /\ Ran.phase = "on" <=> its.phase = "on"
         /\ Ran.phase \in {"combine", "last"} <=> its.phase \in {"combine", "last"}
  <1>1. Ran = [its EXCEPT !.phase = IF its.phase = "combine" THEN "last" ELSE its.phase]
    BY DEF Ran
  <1> QED
    BY <1>1 DEF Its

\* Execute: what is in the map is a trace.
LEMMA ExecuteStep ==
  ASSUME IInv, NEW f \in Faults, NEW t \in Traces, Execute(f, t)
  PROVE  IInv'
  <1>1. /\ pc = "fuzz" /\ pc' = "judge" /\ trace_bits' = t
        /\ case' = [NoCase EXCEPT !.fault = f] /\ its' = Ran
        /\ UNCHANGED <<opt, virgin_bits, virgin_tmout, virgin_crash, var_bytes, queue,
                       saved_hangs, saved_crashes, fed, cal, shown, crash_seen, crash_kept,
                       hang_seen, hang_kept>>
    BY DEF Execute, Goto, history
  <1>2. Shape /\ FaultInv
    BY DEF IInv
  <1>3. case' \in Case /\ trace_bits' \in Counts
    BY <1>1, Records, CaseUpdates, ClassifiedTypes
  <1>4. TraceInv'
    BY <1>1 DEF TraceInv
  <1>5. FaultInv'
    BY <1>1, <1>2, FaultFrame
  <1>6. ~Drying
    BY <1>1 DEF Drying
  <1> QED
    BY <1>1, <1>2, <1>3, <1>4, <1>5, <1>6, Types, ItsRan, PlainStep

\* Discard: the result of a run is not looked at.
LEMMA DiscardStep ==
  ASSUME IInv, Discard
  PROVE  IInv'
  <1>1. /\ pc = "fuzz" /\ pc' = "fuzz" /\ trace_bits' = NoTrace /\ case' = NoCase /\ its' = Ran
        /\ UNCHANGED <<opt, virgin_bits, virgin_tmout, virgin_crash, var_bytes, queue,
                       saved_hangs, saved_crashes, fed, cal, shown, crash_seen, crash_kept,
                       hang_seen, hang_kept>>
    BY DEF Discard, Return, history
  <1>2. Shape /\ FaultInv
    BY DEF IInv
  <1>3. case' \in Case /\ trace_bits' \in Counts
    BY <1>1, Records, ClassifiedTypes
  <1>4. TraceInv'
    BY <1>1 DEF TraceInv
  <1>5. FaultInv'
    BY <1>1, <1>2, FaultFrame
  <1>6. ~Drying
    BY <1>1 DEF Drying
  <1> QED
    BY <1>1, <1>2, <1>3, <1>4, <1>5, <1>6, Types, ItsRan, PlainStep

\* A fault that shows something new is kept, one that does not shows what was kept.
LEMMA KeepNew ==
  ASSUME NEW s, NEW v \in Maps, NEW K, Lost(v) \subseteq K
  PROVE  LET kept == IF HasNewBits(s, v) # 0 THEN K \cup Shows(s) ELSE K IN
         Lost(Discover(s, v)) \subseteq kept /\ Shows(s) \subseteq kept /\ K \subseteq kept
  BY Discovered

\* JudgeFault: what the fault shows is at hand.
LEMMA JudgeFaultStep ==
  ASSUME IInv, JudgeFault
  PROVE  IInv'
  <1> DEFINE s == Shows(Simplify(trace_bits))
             ignored == case.fault = "tmout" /\ opt.ignore_timeouts
  <1>1. /\ pc = "judge"
        /\ IF ignored THEN pc' = "fuzz" /\ case' = NoCase /\ trace_bits' = NoTrace
           ELSE /\ pc' = "fault" /\ case' = [case EXCEPT !.classified = opt.hashing]
                /\ trace_bits' = IF opt.hashing THEN Classify(trace_bits) ELSE trace_bits
        /\ crash_seen' = IF case.fault = "crash" THEN SeenCrash(s) ELSE crash_seen
        /\ hang_seen' = IF case.fault = "tmout" /\ ~ignored THEN SeenHang(s) ELSE hang_seen
        /\ UNCHANGED <<opt, virgin_bits, virgin_tmout, virgin_crash, var_bytes, queue,
                       saved_hangs, saved_crashes, fed, cal, its, shown, crash_kept, hang_kept>>
    BY DEF JudgeFault, Return, Goto, settled
  <1> HIDE DEF s, ignored
  <1>2. Shape /\ FaultInv
    BY DEF IInv
  <1>3. case \in Case /\ trace_bits \in Counts /\ opt.hashing \in BOOLEAN
    BY <1>2, Types
  <1>4. /\ [case EXCEPT !.classified = opt.hashing] \in Case
        /\ [case EXCEPT !.classified = opt.hashing].fault = case.fault
    BY <1>3, CaseUpdates
  <1>5. /\ Classify(trace_bits) \in Counts
        /\ Simplify(Classify(trace_bits)) = Simplify(trace_bits)
    BY <1>3, TraceTypes
  <1>6. case' \in Case /\ trace_bits' \in Counts /\ pc' \in {"fuzz", "fault"}
    BY <1>1, <1>3, <1>4, <1>5, Records, ClassifiedTypes
  <1>7. pc' = "fault" =>
          /\ ~ignored /\ case'.fault = case.fault
          /\ Shows(Simplify(trace_bits))' = s
    BY <1>1, <1>4, <1>5 DEF s
  <1>8. FaultInv'
    <2>1. CrashAtHand = {} /\ HangAtHand = {}
      BY <1>1 DEF CrashAtHand, HangAtHand
    <2>2. crash_seen' \subseteq crash_kept' \cup CrashAtHand'
      BY <1>1, <1>2, <1>6, <1>7, <2>1 DEF FaultInv, CrashAtHand, SeenCrash, ignored
    <2>3. IF opt.generous THEN hang_seen' \subseteq hang_kept' \cup HangAtHand' ELSE hang_seen' = {}
      BY <1>1, <1>2, <1>6, <1>7, <2>1 DEF FaultInv, HangAtHand, SeenHang
    <2> QED
      BY <1>1, <1>2, <1>6, <2>2, <2>3 DEF FaultInv, Lost
  <1>9. TraceInv' /\ ~Drying
    BY <1>1, <1>6 DEF TraceInv, Drying
  <1> QED
    BY <1>1, <1>2, <1>6, <1>8, <1>9, Types, PlainStep

\* NoFault: nothing is at hand.
LEMMA NoFaultStep ==
  ASSUME IInv, NoFault
  PROVE  IInv'
  <1>1. /\ pc = "fault" /\ pc' = "fuzz" /\ case' = NoCase /\ trace_bits' = NoTrace
        /\ case.fault = "ok" \/ (case.fault = "tmout" /\ saved_hangs >= KeepHang)
        /\ UNCHANGED <<opt, virgin_bits, virgin_tmout, virgin_crash, var_bytes, queue,
                       saved_hangs, saved_crashes, fed, cal, its, shown, crash_seen,
                       crash_kept, hang_seen, hang_kept>>
    BY DEF NoFault, Return, settled, history
  <1>2. Shape /\ FaultInv
    BY DEF IInv
  <1>3. case' \in Case /\ trace_bits' \in Counts
    BY <1>1, Records, ClassifiedTypes
  <1>4. FaultInv'
    <2>1. ~(case.fault = "tmout" /\ saved_hangs < KeepHang)
      <3>1. saved_hangs \in 0..KeepHang /\ KeepHang \in Nat
        BY <1>2, Types, Bounds
      <3> QED
        BY <1>1, <3>1, SMT
    <2>2. CrashAtHand = {} /\ HangAtHand = {}
      BY <1>1, <2>1 DEF CrashAtHand, HangAtHand
    <2> QED
      BY <1>1, <1>2, <2>2 DEF FaultInv, Lost
  <1>5. TraceInv' /\ ~Drying
    BY <1>1 DEF TraceInv, Drying
  <1> QED
    BY <1>1, <1>2, <1>3, <1>4, <1>5, Types, PlainStep

\* Timeout: what a hang shows is kept, or was before; one that may not be a
\* hang was not counted as seen.
LEMMA TimeoutStep ==
  ASSUME IInv, Timeout
  PROVE  IInv'
  <1> DEFINE s == Simplify(trace_bits)
             new == HasNewBits(s, virgin_tmout) # 0
  <1>1. /\ pc = "fault" /\ case.fault = "tmout" /\ saved_hangs < KeepHang
        /\ virgin_tmout' = Discover(s, virgin_tmout)
        /\ UNCHANGED <<opt, virgin_bits, virgin_crash, var_bytes, queue, saved_crashes, fed,
                       cal, its, shown, crash_seen, crash_kept, hang_seen>>
        /\ \/ /\ ~new /\ pc' = "fuzz" /\ case' = NoCase /\ trace_bits' = NoTrace
              /\ UNCHANGED <<saved_hangs, hang_kept>>
           \/ /\ new /\ opt.generous /\ pc' = "fuzz" /\ case' = NoCase /\ trace_bits' = NoTrace
              /\ saved_hangs' = saved_hangs + 1 /\ hang_kept' = hang_kept \cup Shows(s)
           \/ /\ new /\ ~opt.generous /\ pc' = "rerun" /\ case' = case /\ trace_bits' = s
              /\ UNCHANGED <<saved_hangs, hang_kept>>
    BY DEF Timeout, Return, Goto, SaveHang, settled
  <1> HIDE DEF s, new
  <1>2. Shape /\ FaultInv
    BY DEF IInv
  <1>3. case \in Case /\ trace_bits \in Counts /\ virgin_tmout \in Maps
        /\ saved_hangs \in 0..KeepHang /\ KeepHang \in Nat
    BY <1>2, Types, Bounds
  <1>4. s \in Counts /\ virgin_tmout' \in Maps
    BY <1>1, <1>3, TraceTypes, Discovered DEF s
  <1>5. case' \in Case /\ trace_bits' \in Counts /\ pc' \in {"fuzz", "rerun"}
    BY <1>1, <1>3, <1>4, Records, ClassifiedTypes
  <1>6. saved_hangs' \in 0..KeepHang /\ (pc' = "rerun" => saved_hangs' < KeepHang)
    BY <1>1, <1>3, SMT
  <1>7. FaultInv'
    <2>1. CrashAtHand = {} /\ HangAtHand = Shows(s)
      BY <1>1 DEF CrashAtHand, HangAtHand, s
    <2>2. ASSUME opt.generous
          PROVE  Lost(virgin_tmout') \subseteq hang_kept' /\ hang_seen' \subseteq hang_kept'
      <3>1. Lost(virgin_tmout) \subseteq hang_kept /\ hang_seen \subseteq hang_kept \cup Shows(s)
        BY <1>2, <2>1, <2>2 DEF FaultInv
      <3>2. hang_kept' = IF HasNewBits(s, virgin_tmout) # 0 THEN hang_kept \cup Shows(s) ELSE hang_kept
        BY <1>1, <2>2 DEF new
      <3>3. /\ Lost(Discover(s, virgin_tmout)) \subseteq hang_kept'
            /\ Shows(s) \subseteq hang_kept' /\ hang_kept \subseteq hang_kept'
        BY <1>3, <3>1, <3>2, KeepNew
      <3> QED
        BY <1>1, <3>1, <3>3
    <2>3. opt' = opt /\ hang_seen' = hang_seen /\ virgin_crash' = virgin_crash
          /\ crash_seen' = crash_seen /\ crash_kept' = crash_kept
      BY <1>1
    <2> QED
      BY <1>2, <1>6, <2>1, <2>2, <2>3 DEF FaultInv, Lost
  <1>8. TraceInv' /\ ~Drying
    BY <1>1, <1>5 DEF TraceInv, Drying
  <1> QED
    BY <1>1, <1>2, <1>4, <1>5, <1>6, <1>7, <1>8, Types, PlainStep

\* Rerun: a crash of the second run is at hand; an input that is to be queued
\* after all is neither classified nor counted.
LEMMA RerunStep ==
  ASSUME IInv, NEW f \in Faults, NEW t \in Traces, Rerun(f, t)
  PROVE  IInv'
  <1>1. /\ pc = "rerun"
        /\ UNCHANGED <<opt, virgin_bits, virgin_tmout, virgin_crash, var_bytes, queue,
                       saved_crashes, fed, cal, its, shown, crash_kept, hang_seen>>
        /\ crash_seen' = IF f = "crash" THEN SeenCrash(Shows(Simplify(t))) ELSE crash_seen
    BY DEF Rerun, settled
  <1>2. \/ /\ f = "tmout" /\ pc' = "fuzz" /\ case' = NoCase /\ trace_bits' = NoTrace
           /\ saved_hangs' = saved_hangs + 1 /\ hang_kept' = hang_kept \cup {}
        \/ /\ f = "crash" /\ pc' = "crash" /\ case' = Forget(case) /\ trace_bits' = t
           /\ UNCHANGED <<saved_hangs, hang_kept>>
        \/ /\ f = "ok" /\ pc' = "queue" /\ case' = Forget(case) /\ trace_bits' = t
           /\ UNCHANGED <<saved_hangs, hang_kept>>
        \/ /\ f = "ok" /\ pc' = "fuzz" /\ case' = NoCase /\ trace_bits' = NoTrace
           /\ UNCHANGED <<saved_hangs, hang_kept>>
    BY DEF Rerun, Return, Goto, SaveHang, Faults
  <1>3. Shape /\ FaultInv
    BY DEF IInv
  <1>4. /\ case \in Case /\ saved_hangs \in 0..KeepHang /\ KeepHang \in Nat
        /\ saved_hangs < KeepHang
    BY <1>1, <1>3, Types, Bounds DEF FaultInv
  <1>5. Forget(case) \in Case /\ Forget(case).classified = FALSE /\ Forget(case).counted = FALSE
    BY <1>4, CaseUpdates
  <1>6. case' \in Case /\ trace_bits' \in Counts /\ pc' \in {"fuzz", "crash", "queue"}
    BY <1>2, <1>5, Records, ClassifiedTypes
  <1>7. saved_hangs' \in 0..KeepHang /\ hang_kept' = hang_kept
    BY <1>2, <1>4, SMT
  <1>8. FaultInv'
    <2>1. CrashAtHand = {} /\ HangAtHand = {}
      BY <1>1 DEF CrashAtHand, HangAtHand
    <2>2. crash_seen' \subseteq crash_kept' \cup CrashAtHand'
      BY <1>1, <1>2, <1>3, <2>1 DEF FaultInv, CrashAtHand, SeenCrash
    <2> QED
      BY <1>1, <1>3, <1>6, <1>7, <2>1, <2>2 DEF FaultInv, Lost
  <1>9. TraceInv' /\ ~Drying /\ (pc' = "queue" => ~case'.counted)
    BY <1>1, <1>2, <1>5 DEF TraceInv, Drying
  <1> QED
    BY <1>1, <1>3, <1>6, <1>7, <1>8, <1>9, Types, PlainStep

\* KeepCrashCase: what a crash shows is kept, or was before.
LEMMA KeepCrashStep ==
  ASSUME IInv, KeepCrashCase
  PROVE  IInv'
  <1> DEFINE s == Simplify(trace_bits)
             new == HasNewBits(s, virgin_crash) # 0
  <1>1. /\ pc = "crash" \/ (pc = "fault" /\ case.fault = "crash")
        /\ pc' = "fuzz" /\ case' = NoCase /\ trace_bits' = NoTrace
        /\ UNCHANGED <<opt, virgin_bits, virgin_tmout, var_bytes, queue, saved_hangs, fed,
                       cal, its, shown, crash_seen, hang_seen, hang_kept>>
        /\ \/ saved_crashes >= KeepCrash /\ UNCHANGED <<virgin_crash, saved_crashes, crash_kept>>
           \/ /\ ~(saved_crashes >= KeepCrash) /\ virgin_crash' = Discover(s, virgin_crash)
              /\ saved_crashes' = IF new THEN saved_crashes + 1 ELSE saved_crashes
              /\ crash_kept' = IF new THEN crash_kept \cup Shows(s) ELSE crash_kept
    BY DEF KeepCrashCase, Return, NewCrash, settled
  <1> HIDE DEF s, new
  <1>2. Shape /\ FaultInv
    BY DEF IInv
  <1>3. /\ trace_bits \in Counts /\ virgin_crash \in Maps /\ saved_crashes \in Nat /\ KeepCrash \in Nat
    BY <1>2, Types, Bounds
  <1>4. virgin_crash' \in Maps
    BY <1>1, <1>3, Discovered
  <1>5. saved_crashes' \in Nat /\ case' \in Case /\ trace_bits' \in Counts
    <2>1. saved_crashes' \in {saved_crashes, saved_crashes + 1}
      BY <1>1
    <2>2. case' \in Case /\ trace_bits' \in Counts
      BY <1>1, Records, ClassifiedTypes
    <2> QED
      BY <1>3, <2>1, <2>2, SMT
  <1>6. FaultInv'
    <2>1. HangAtHand = {} /\ CrashAtHand = IF saved_crashes < KeepCrash THEN Shows(s) ELSE {}
      BY <1>1 DEF CrashAtHand, HangAtHand, s
    <2>2. Lost(virgin_crash) \subseteq crash_kept /\ crash_seen \subseteq crash_kept \cup CrashAtHand
      BY <1>2 DEF FaultInv
    <2>3. ASSUME saved_crashes >= KeepCrash
          PROVE  Lost(virgin_crash)' \subseteq crash_kept' /\ crash_seen \subseteq crash_kept'
      <3>1. CrashAtHand = {}
        BY <1>3, <2>1, <2>3, SMT
      <3> QED
        BY <1>1, <2>2, <2>3, <3>1 DEF Lost
    <2>4. ASSUME ~(saved_crashes >= KeepCrash)
          PROVE  Lost(virgin_crash)' \subseteq crash_kept' /\ crash_seen \subseteq crash_kept'
      <3>1. crash_kept' = IF HasNewBits(s, virgin_crash) # 0 THEN crash_kept \cup Shows(s) ELSE crash_kept
        BY <1>1, <2>4 DEF new
      <3>2. /\ Lost(Discover(s, virgin_crash)) \subseteq crash_kept'
            /\ Shows(s) \subseteq crash_kept' /\ crash_kept \subseteq crash_kept'
        BY <1>3, <2>2, <3>1, KeepNew
      <3>3. virgin_crash' = Discover(s, virgin_crash)
        BY <1>1, <2>4
      <3>4. crash_seen \subseteq crash_kept'
        BY <2>1, <2>2, <3>2
      <3> QED
        BY <3>2, <3>3, <3>4 DEF Lost
    <2>5. opt' = opt /\ pc' = "fuzz" /\ virgin_tmout' = virgin_tmout /\ crash_seen' = crash_seen
          /\ hang_seen' = hang_seen /\ hang_kept' = hang_kept
      BY <1>1
    <2> QED
      BY <1>2, <2>1, <2>3, <2>4, <2>5 DEF FaultInv, Lost
  <1>7. TraceInv' /\ ~Drying
    BY <1>1 DEF TraceInv, Drying
  <1> QED
    BY <1>1, <1>2, <1>4, <1>5, <1>6, <1>7, Types, PlainStep

\* JudgeOrdinary: what is new is taken off the virgin map, and is pending.
LEMMA JudgeOrdinaryStep ==
  ASSUME IInv, JudgeOrdinary
  PROVE  IInv'
  <1> DEFINE t     == Classify(trace_bits)
             new   == HasNewBits(t, virgin_bits)
             class == opt.hashing \/ opt.san = "unique" \/ new # 0
  <1>1. /\ pc = "judge" /\ virgin_bits' = Discover(t, virgin_bits)
        /\ fed' = IF opt.san \in {"simplify", "unique"} /\ Feed(new) THEN fed \cup {SanKey} ELSE fed
        /\ UNCHANGED <<opt, virgin_tmout, virgin_crash, var_bytes, queue, saved_hangs,
                       saved_crashes, cal, its, shown, crash_seen, crash_kept, hang_seen, hang_kept>>
        /\ \E san_fault \in IF Feed(new) THEN {"ok", "crash"} ELSE {"ok"} :
             IF new = 0 /\ san_fault = "ok"
             THEN pc' = "fuzz" /\ case' = NoCase /\ trace_bits' = NoTrace
             ELSE /\ pc' = IF new = 0 THEN "fault" ELSE "queue"
                  /\ case' = [fault |-> san_fault, classified |-> class, counted |-> TRUE,
                              new_bits |-> new]
                  /\ trace_bits' = IF class THEN t ELSE trace_bits
    BY DEF JudgeOrdinary, Return, Goto, history
  <1> HIDE DEF t, new, class
  <1>2. PICK san_fault \in {"ok", "crash"} :
          IF new = 0 /\ san_fault = "ok"
          THEN pc' = "fuzz" /\ case' = NoCase /\ trace_bits' = NoTrace
          ELSE /\ pc' = IF new = 0 THEN "fault" ELSE "queue"
               /\ case' = [fault |-> san_fault, classified |-> class, counted |-> TRUE,
                           new_bits |-> new]
               /\ trace_bits' = IF class THEN t ELSE trace_bits
    BY <1>1
  <1>3. Shape /\ TraceInv /\ EntryInv /\ MapInv /\ FaultInv
    BY DEF IInv
  <1>4. trace_bits \in Counts /\ trace_bits \in Traces /\ virgin_bits \in Maps /\ fed \subseteq Counts
    BY <1>1, <1>3, Types DEF TraceInv
  <1>5. t \in Counts /\ t \in Classified /\ Simplify(trace_bits) \in Counts
    BY <1>4, TraceTypes DEF t, Classified
  <1>6. /\ virgin_bits' \in Maps /\ new \in 0..2 /\ (new = 0 => virgin_bits' = virgin_bits)
        /\ \A e \in Edges : virgin_bits'[e] = virgin_bits[e] \ ByteBits[t[e]]
    <2>1. new \in 0..2
      BY NewBits DEF new
    <2>2. /\ Discover(t, virgin_bits) \in Maps /\ (new = 0 => Discover(t, virgin_bits) = virgin_bits)
          /\ \A e \in Edges : Discover(t, virgin_bits)[e] = virgin_bits[e] \ ByteBits[t[e]]
      BY <1>4, Discovered DEF new
    <2> QED
      BY <1>1, <2>1, <2>2
  <1>7. fed' \subseteq Counts
    BY <1>1, <1>4, <1>5 DEF SanKey, t
  <1>8. class \in BOOLEAN /\ (new # 0 => class)
    BY DEF class
  <1>9. case' \in Case /\ trace_bits' \in Counts
    <2>1. [fault |-> san_fault, classified |-> class, counted |-> TRUE, new_bits |-> new] \in Case
      BY <1>6, <1>8 DEF Case, Faults
    <2> QED
      BY <1>2, <1>4, <1>5, <2>1, Records, ClassifiedTypes
  <1>10. FaultInv'
    BY <1>1, <1>2, <1>3, FaultFrame
  <1>11. ~Drying
    BY <1>1 DEF Drying
  <1>12. CASE new = 0
    <2>1. pc' \in {"fuzz", "fault"}
      BY <1>2, <1>12
    <2>2. TraceInv'
      BY <2>1 DEF TraceInv
    <2> QED
      BY <1>1, <1>3, <1>6, <1>7, <1>9, <1>10, <1>11, <1>12, <2>1, <2>2, Types, PlainStep, SMT
  <1>13. CASE new # 0
    <2>1. /\ pc' = "queue" /\ trace_bits' = t
          /\ case' = [fault |-> san_fault, classified |-> class, counted |-> TRUE, new_bits |-> new]
      BY <1>2, <1>8, <1>13
    <2>2. case'.counted = TRUE /\ case'.classified = class
      BY <2>1
    <2>3. Shape'
      BY <1>1, <1>3, <1>6, <1>7, <1>9, <2>1, Types, MakeShape DEF Places
    <2>4. TraceInv'
      BY <1>5, <1>8, <1>13, <2>1, <2>2 DEF TraceInv
    <2>5. EntryInv'
      BY <1>1, <1>3, <1>11, <2>1, EntryFrame
    <2>6. Pending = {} /\ Pending' = Shows(t)
      BY <1>1, <2>1, <2>2 DEF Pending
    <2>7. MapInv'
      <3>1. ChecksumsShown' /\ Takes(t) /\ UNCHANGED <<var_bytes, its>>
        BY <1>1, <1>3, <1>6 DEF MapInv, ChecksumsShown, Takes
      <3>2. shown' \cup Pending' = shown \cup Pending \cup Shows(t)
        BY <1>1, <2>6
      <3> QED
        BY <1>3, <3>1, <3>2, MapTaken
    <2> QED
      BY <1>10, <2>3, <2>4, <2>5, <2>7 DEF IInv
  <1> QED
    BY <1>12, <1>13

-----------------------------------------------------------------------------
(* Calibration.                                                            *)

\* An entry keeps its type when calibrate_case sets its fields.
LEMMA EntryUpdates ==
  ASSUME NEW c \in Entry, NEW x \in Classified \cup {None}, NEW n \in 0..CalChances
  PROVE  /\ c.exec_cksum \in Classified \cup {None} /\ c.cal_failed \in 0..CalChances
         /\ LET d == [c EXCEPT !.exec_cksum = x] IN
            /\ d \in Entry /\ d.exec_cksum = x /\ d.cal_failed = c.cal_failed
            /\ d.disabled = c.disabled
         /\ LET d == [c EXCEPT !.cal_failed = n] IN
            /\ d \in Entry /\ d.exec_cksum = c.exec_cksum /\ d.cal_failed = n
            /\ d.disabled = c.disabled
         /\ LET d == [c EXCEPT !.cal_failed = n, !.exec_cksum = x] IN
            /\ d \in Entry /\ d.exec_cksum = x /\ d.cal_failed = n /\ d.disabled = c.disabled
         /\ LET d == [c EXCEPT !.disabled = TRUE, !.cal_failed = n] IN
            /\ d \in Entry /\ d.exec_cksum = c.exec_cksum /\ d.cal_failed = n /\ d.disabled = TRUE
         /\ LET d == [c EXCEPT !.disabled = TRUE] IN
            /\ d \in Entry /\ d.exec_cksum = c.exec_cksum /\ d.cal_failed = c.cal_failed
            /\ d.disabled = TRUE
  <1>1. c.exec_cksum \in Classified \cup {None} /\ c.cal_failed \in 0..CalChances
    BY DEF Entry
  <1>2. LET d == [c EXCEPT !.exec_cksum = x] IN
        /\ d \in Entry /\ d.exec_cksum = x /\ d.cal_failed = c.cal_failed /\ d.disabled = c.disabled
    BY DEF Entry
  <1>3. LET d == [c EXCEPT !.cal_failed = n] IN
        /\ d \in Entry /\ d.exec_cksum = c.exec_cksum /\ d.cal_failed = n /\ d.disabled = c.disabled
    BY DEF Entry
  <1>4. LET d == [c EXCEPT !.cal_failed = n, !.exec_cksum = x] IN
        /\ d \in Entry /\ d.exec_cksum = x /\ d.cal_failed = n /\ d.disabled = c.disabled
    BY DEF Entry
  <1>5. LET d == [c EXCEPT !.disabled = TRUE, !.cal_failed = n] IN
        /\ d \in Entry /\ d.exec_cksum = c.exec_cksum /\ d.cal_failed = n /\ d.disabled = TRUE
    BY DEF Entry
  <1>6. LET d == [c EXCEPT !.disabled = TRUE] IN
        /\ d \in Entry /\ d.exec_cksum = c.exec_cksum /\ d.cal_failed = c.cal_failed
        /\ d.disabled = TRUE
    BY DEF Entry
  <1> QED
    BY <1>1, <1>2, <1>3, <1>4, <1>5, <1>6

\* calibrate_case up to its loop: what becomes of the entry, and of the map.
LEMMA CalStarts ==
  ASSUME NEW qs \in Seq(Entry), NEW i \in DOMAIN qs, NEW t \in Counts, NEW v \in Maps,
         NEW caller \in {"dry", "fault", "fuzz"},
         qs[i].cal_failed < CalChances, CalStart(qs, i, t, v, caller)
  PROVE  /\ queue' \in Seq(Entry) /\ Len(queue') = Len(qs) /\ DOMAIN queue' = DOMAIN qs
         /\ \A j \in DOMAIN qs : j # i => queue'[j] = qs[j]
         /\ queue'[i].cal_failed > 0 /\ queue'[i].disabled = qs[i].disabled
         /\ queue'[i].exec_cksum \in {None, qs[i].exec_cksum}
         /\ cal' \in Cal /\ cal'.q = i /\ cal'.n = 0 /\ cal'.max = CalCycles /\ cal'.caller = caller
         /\ virgin_bits' = IF queue'[i].exec_cksum # None THEN Discover(t, v) ELSE v
         /\ virgin_bits' \in Maps /\ pc' = "cal"
  <1> DEFINE n == qs[i].cal_failed + 1
             x == IF opt.cmplog THEN None ELSE qs[i].exec_cksum
             q == [qs[i] EXCEPT !.cal_failed = n, !.exec_cksum = x]
             first == IF q.exec_cksum # None THEN t ELSE NoTrace
  <1>1. /\ queue' = [qs EXCEPT ![i] = q] /\ pc' = "cal"
        /\ cal' = [q |-> i, n |-> 0, max |-> CalCycles, first |-> first, caller |-> caller]
        /\ virgin_bits' = IF q.exec_cksum # None THEN Discover(t, v) ELSE v
    BY DEF CalStart
  <1>2. /\ qs[i] \in Entry /\ x \in Classified \cup {None} /\ x \in {None, qs[i].exec_cksum}
        /\ n \in 0..CalChances /\ n > 0
    <2>1. qs[i] \in Entry
      BY SMT
    <2>2. qs[i].exec_cksum \in Classified \cup {None} /\ qs[i].cal_failed \in 0..CalChances
      BY <2>1 DEF Entry
    <2>3. x \in Classified \cup {None} /\ x \in {None, qs[i].exec_cksum}
      BY <2>2
    <2>4. n \in 0..CalChances /\ n > 0
      BY <2>2, Bounds, SMT
    <2> QED
      BY <2>1, <2>3, <2>4
  <1>3. /\ q \in Entry /\ q.cal_failed > 0 /\ q.disabled = qs[i].disabled
        /\ q.exec_cksum \in {None, qs[i].exec_cksum}
    <2> DEFINE c == qs[i]
    <2>1. c \in Entry /\ q = [c EXCEPT !.cal_failed = n, !.exec_cksum = x]
      BY <1>2
    <2> HIDE DEF n, x, c, q
    <2>2. /\ q \in Entry /\ q.cal_failed = n /\ q.disabled = c.disabled /\ q.exec_cksum = x
      BY <1>2, <2>1 DEF Entry
    <2> QED
      BY <1>2, <2>2 DEF c
  <1>4. first \in Counts
    BY ClassifiedTypes
  <1> HIDE DEF q, first
  <1>5. /\ queue' \in Seq(Entry) /\ Len(queue') = Len(qs) /\ DOMAIN queue' = DOMAIN qs
        /\ \A j \in DOMAIN qs : j # i => queue'[j] = qs[j]
        /\ queue'[i] = q
    BY <1>1, <1>3, SMT
  <1>6. i \in Nat /\ CalCycles \in Nat
    BY Bounds, SMT
  <1>7. cal' \in Cal
    BY <1>1, <1>4, <1>6 DEF Cal
  <1>8. cal'.q = i /\ cal'.n = 0 /\ cal'.max = CalCycles /\ cal'.caller = caller
    BY <1>1
  <1>9. virgin_bits' = (IF queue'[i].exec_cksum # None THEN Discover(t, v) ELSE v) /\ virgin_bits' \in Maps
    BY <1>1, <1>5, Discovered
  <1> QED
    BY <1>1, <1>3, <1>5, <1>7, <1>8, <1>9

\* A calibration begins after the dry run: no entry that stands for others is
\* touched by it.
LEMMA CalBegins ==
  ASSUME EntryInv, ~Drying, pc # "exit", NEW i, pc' = "cal", cal'.caller # "dry",
         cal'.q = i, i > 0, ~(cal'.n > 0), cal'.max > 0, DOMAIN queue \subseteq DOMAIN queue',
         \A j \in DOMAIN queue' : j # i => j \in DOMAIN queue /\ queue'[j] = queue[j],
         i \in DOMAIN queue => queue[i].cal_failed # 0,
         queue'[i].cal_failed # 0, queue'[i].cal_failed > 0, ~queue'[i].disabled
  PROVE  EntryInv'
  <1>1. ASSUME NEW j \in DOMAIN queue', queue'[j].disabled, queue'[j].cal_failed = 0
        PROVE  \E w \in DOMAIN queue' :
                 /\ ~queue'[w].disabled /\ queue'[w].cal_failed = 0
                 /\ queue'[w].exec_cksum = queue'[j].exec_cksum
    <2>1. j # i
      BY <1>1
    <2>2. j \in DOMAIN queue /\ queue'[j] = queue[j]
      BY <2>1
    <2>3. PICK w \in DOMAIN queue :
            /\ ~queue[w].disabled /\ queue[w].cal_failed = 0
            /\ queue[w].exec_cksum = queue[j].exec_cksum
      BY <1>1, <2>2 DEF EntryInv
    <2>4. w # i /\ w \in DOMAIN queue'
      BY <2>3
    <2>5. queue'[w] = queue[w]
      BY <2>4
    <2> QED
      BY <2>2, <2>3, <2>4, <2>5
  <1>2. ~Drying'
    BY DEF Drying
  <1> QED
    BY <1>1, <1>2 DEF EntryInv

\* Recalibrate: the entry has no checksum again.
LEMMA RecalibrateStep ==
  ASSUME IInv, NEW i \in DOMAIN queue, Recalibrate(i)
  PROVE  IInv'
  <1> DEFINE qs == [queue EXCEPT ![i].exec_cksum = None]
  <1>1. /\ pc = "fuzz" /\ ~queue[i].disabled /\ queue[i].cal_failed \in 1..(CalChances - 1)
        /\ CalStart(qs, i, trace_bits, virgin_bits, "fuzz")
        /\ UNCHANGED <<opt, virgin_tmout, virgin_crash, var_bytes, trace_bits, saved_hangs,
                       saved_crashes, fed, case, its, shown, crash_seen, crash_kept,
                       hang_seen, hang_kept>>
    BY DEF Recalibrate, history
  <1>2. Shape /\ EntryInv /\ MapInv /\ FaultInv
    BY DEF IInv
  <1>3. queue \in Seq(Entry) /\ trace_bits \in Counts /\ virgin_bits \in Maps
    BY <1>2, Types
  <1>4. /\ qs \in Seq(Entry) /\ DOMAIN qs = DOMAIN queue /\ Len(qs) = Len(queue)
        /\ \A j \in DOMAIN queue : j # i => qs[j] = queue[j]
        /\ qs[i].exec_cksum = None /\ qs[i].cal_failed = queue[i].cal_failed
        /\ qs[i].disabled = queue[i].disabled
    <2> DEFINE c == queue[i]
               d == [c EXCEPT !.exec_cksum = None]
    <2>1. c \in Entry /\ qs = [queue EXCEPT ![i] = d]
      BY <1>3, SMT
    <2>2. d \in Entry /\ d.exec_cksum = None /\ d.cal_failed = c.cal_failed /\ d.disabled = c.disabled
      <3> HIDE DEF c
      <3> QED
        BY <2>1 DEF Entry
    <2> HIDE DEF d, qs
    <2> QED
      BY <1>3, <2>1, <2>2, SMT
  <1> HIDE DEF qs
  <1>5. CalChances \in Nat /\ queue[i].cal_failed # 0 /\ qs[i].cal_failed < CalChances
    <2>1. queue[i].cal_failed \in 1..(CalChances - 1) /\ qs[i].cal_failed = queue[i].cal_failed
      BY <1>1, <1>4
    <2> QED
      BY <2>1, Bounds, SMT
  <1>6. /\ queue' \in Seq(Entry) /\ Len(queue') = Len(qs) /\ DOMAIN queue' = DOMAIN qs
        /\ \A j \in DOMAIN qs : j # i => queue'[j] = qs[j]
        /\ queue'[i].cal_failed > 0 /\ queue'[i].disabled = qs[i].disabled
        /\ queue'[i].exec_cksum \in {None, qs[i].exec_cksum}
        /\ cal' \in Cal /\ cal'.q = i /\ cal'.n = 0 /\ cal'.max = CalCycles /\ cal'.caller = "fuzz"
        /\ virgin_bits' = IF queue'[i].exec_cksum # None THEN Discover(trace_bits, virgin_bits) ELSE virgin_bits
        /\ virgin_bits' \in Maps /\ pc' = "cal"
    BY <1>1, <1>3, <1>4, <1>5, CalStarts
  <1>7. /\ queue'[i].exec_cksum = None /\ virgin_bits' = virgin_bits
        /\ \A j \in DOMAIN queue' : j # i => j \in DOMAIN queue /\ queue'[j] = queue[j]
    BY <1>4, <1>6
  <1>8. i \in Nat /\ i > 0 /\ i <= Len(queue')
    <2>1. Len(queue') = Len(queue)
      BY <1>4, <1>6
    <2> QED
      BY <1>3, <2>1, SMT
  <1>9. cal'.n <= cal'.max /\ cal'.max <= CalCyclesLong /\ cal'.max > 0 /\ ~(cal'.n > 0)
    <2>1. cal'.n = 0 /\ cal'.max = CalCycles
      BY <1>6
    <2> QED
      BY <2>1, Bounds, SMT
  <1>10. Shape'
    BY <1>1, <1>2, <1>6, <1>8, <1>9, Types, MakeShape DEF Places
  <1>11. TraceInv'
    BY <1>6 DEF TraceInv
  <1>12. EntryInv'
    <2>1. ~Drying /\ pc # "exit"
      BY <1>1 DEF Drying
    <2>2. queue'[i].cal_failed > 0 /\ ~queue'[i].disabled
      BY <1>1, <1>4, <1>6
    <2>3. queue'[i].cal_failed # 0
      BY <2>2, SMT
    <2> QED
      BY <1>2, <1>4, <1>5, <1>6, <1>7, <1>8, <1>9, <2>1, <2>2, <2>3, CalBegins
  <1>13. MapInv'
    <2>1. pc # "queue" /\ pc' # "queue"
      <3>1. pc = "fuzz" /\ pc' = "cal"
        BY <1>1, <1>6
      <3> QED
        BY <3>1
    <2>2. Pending' = Pending
      BY <2>1 DEF Pending
    <2>3. \A e \in Edges : Restored(e)' = Restored(e)
      BY <1>1, <1>7 DEF Restored
    <2>4. ChecksumsShown'
      BY <1>1, <1>2, <1>7 DEF MapInv, ChecksumsShown
    <2> QED
      BY <1>1, <1>2, <1>7, <2>2, <2>3, <2>4 DEF MapInv
  <1>14. FaultInv'
    <2>1. pc \notin {"fault", "crash"} /\ pc' # "rerun"
      <3>1. pc = "fuzz" /\ pc' = "cal"
        BY <1>1, <1>6
      <3> QED
        BY <3>1
    <2> QED
      BY <1>1, <1>2, <2>1, FaultFrame
  <1> QED
    BY <1>10, <1>11, <1>12, <1>13, <1>14 DEF IInv

\* SaveToQueue: what was pending is shown now.
LEMMA SaveToQueueStep ==
  ASSUME IInv, SaveToQueue
  PROVE  IInv'
  <1> DEFINE t  == IF case.classified THEN trace_bits ELSE Classify(trace_bits)
             v  == IF case.counted THEN virgin_bits ELSE Discover(t, virgin_bits)
             n  == CountAnew(virgin_bits, t)
             i  == Len(queue) + 1
             qs == Append(queue, Fresh(t, n))
  <1>1. /\ pc = "queue" /\ trace_bits' = t /\ shown' = shown \cup Shows(t)
        /\ CalStart(qs, i, t, v, "fault")
        /\ UNCHANGED <<opt, virgin_tmout, virgin_crash, var_bytes, saved_hangs, saved_crashes,
                       fed, case, its, crash_seen, crash_kept, hang_seen, hang_kept>>
    BY DEF SaveToQueue
  <1>2. Shape /\ TraceInv /\ EntryInv /\ MapInv /\ FaultInv
    BY DEF IInv
  <1>3. /\ queue \in Seq(Entry) /\ trace_bits \in Counts /\ virgin_bits \in Maps /\ case \in Case
    BY <1>2, Types
  <1>4. t \in Classified /\ t \in Counts /\ (case.counted => t = trace_bits)
    <2>1. /\ trace_bits \in IF case.classified THEN Classified ELSE Traces
          /\ case.counted => case.classified
      BY <1>1, <1>2 DEF TraceInv
    <2>2. t \in Classified /\ (case.counted => t = trace_bits)
      BY <2>1 DEF Classified
    <2> QED
      BY <2>2, ClassifiedTypes
  <1>5. /\ v \in Maps
        /\ \A e \in Edges : v[e] = IF case.counted THEN virgin_bits[e] ELSE virgin_bits[e] \ ByteBits[t[e]]
    <2> HIDE DEF t
    <2>1. /\ Discover(t, virgin_bits) \in Maps
          /\ \A e \in Edges : Discover(t, virgin_bits)[e] = virgin_bits[e] \ ByteBits[t[e]]
      BY <1>3, Discovered
    <2> QED
      BY <1>3, <2>1
  <1>6. n \in 0..2
    BY <1>3, NewBits, CaseUpdates DEF CountAnew
  <1>7. /\ Fresh(t, n) \in Entry /\ Fresh(t, n).exec_cksum = t /\ Fresh(t, n).cal_failed = 0
        /\ Fresh(t, n).disabled = FALSE
    <2> HIDE DEF t, n
    <2> QED
      BY <1>4, <1>6, Records
  <1> HIDE DEF t, v, n
  <1>8. /\ qs \in Seq(Entry) /\ Len(qs) = i /\ i \in DOMAIN qs /\ qs[i] = Fresh(t, n)
        /\ DOMAIN queue \subseteq DOMAIN qs /\ i \in Nat /\ i > 0 /\ i \notin DOMAIN queue
        /\ \A j \in DOMAIN qs : j # i => j \in DOMAIN queue /\ qs[j] = queue[j]
    <2> DEFINE f == Fresh(t, n)
    <2>1. f \in Entry
      BY <1>7
    <2> HIDE DEF f
    <2> QED
      BY <1>3, <2>1, SMT DEF f
  <1> HIDE DEF qs, i
  <1>9. qs[i].cal_failed < CalChances
    BY <1>7, <1>8, Bounds, SMT
  <1>10. /\ queue' \in Seq(Entry) /\ Len(queue') = Len(qs) /\ DOMAIN queue' = DOMAIN qs
         /\ \A j \in DOMAIN qs : j # i => queue'[j] = qs[j]
         /\ queue'[i].cal_failed > 0 /\ queue'[i].disabled = qs[i].disabled
         /\ queue'[i].exec_cksum \in {None, qs[i].exec_cksum}
         /\ cal' \in Cal /\ cal'.q = i /\ cal'.n = 0 /\ cal'.max = CalCycles /\ cal'.caller = "fault"
         /\ virgin_bits' = IF queue'[i].exec_cksum # None THEN Discover(t, v) ELSE v
         /\ virgin_bits' \in Maps /\ pc' = "cal"
    <2>1. /\ t \in Counts /\ v \in Maps /\ qs \in Seq(Entry) /\ i \in DOMAIN qs
          /\ CalStart(qs, i, t, v, "fault")
      BY <1>1, <1>4, <1>5, <1>8
    <2> QED
      BY <1>9, <2>1, CalStarts
  <1>11. /\ \A j \in DOMAIN queue' : j # i => j \in DOMAIN queue /\ queue'[j] = queue[j]
         /\ queue'[i].exec_cksum \in {None, t} /\ queue'[i].disabled = FALSE
    BY <1>7, <1>8, <1>10
  <1>12. cal'.n <= cal'.max /\ cal'.max <= CalCyclesLong /\ cal'.max > 0 /\ ~(cal'.n > 0)
         /\ cal'.q <= Len(queue')
    <2>1. cal'.n = 0 /\ cal'.max = CalCycles /\ cal'.q = i /\ Len(queue') = i /\ i \in Nat
      BY <1>8, <1>10
    <2> QED
      BY <2>1, Bounds, SMT
  <1>13. Shape'
    BY <1>1, <1>2, <1>4, <1>10, <1>12, Types, MakeShape DEF Places
  <1>14. TraceInv'
    BY <1>10 DEF TraceInv
  <1>15. EntryInv'
    <2>1. ~Drying /\ pc # "exit"
      BY <1>1 DEF Drying
    <2>2. queue'[i].cal_failed > 0 /\ ~queue'[i].disabled /\ DOMAIN queue \subseteq DOMAIN queue'
          /\ cal'.caller = "fault"
      BY <1>8, <1>10, <1>11
    <2>3. queue'[i].cal_failed # 0 /\ cal'.caller # "dry"
      BY <2>2, SMT
    <2> QED
      BY <1>2, <1>8, <1>10, <1>11, <1>12, <2>1, <2>2, <2>3, CalBegins
  <1>16. MapInv'
    <2>1. Takes(t)
      <3>1. ASSUME case.counted
            PROVE  Shows(t) \subseteq shown \cup Pending
        BY <1>1, <1>4, <3>1 DEF Pending
      <3>2. \A e \in Edges : Discover(t, v)[e] = v[e] \ ByteBits[t[e]]
        BY <1>5, Discovered
      <3>3. ASSUME NEW e \in Edges
            PROVE  \/ virgin_bits'[e] = virgin_bits[e] \ ByteBits[t[e]]
                   \/ virgin_bits'[e] = virgin_bits[e] /\ case.counted
        BY <1>5, <1>10, <3>2
      <3> QED
        BY <3>1, <3>3 DEF Takes
    <2>2. shown' \cup Pending' = shown \cup Pending \cup Shows(t)
      <3>1. Pending' = {} /\ Pending \subseteq Shows(t)
        BY <1>1, <1>4, <1>10 DEF Pending
      <3> QED
        BY <1>1, <3>1
    <2>3. ChecksumsShown'
      BY <1>1, <1>2, <1>11 DEF MapInv, ChecksumsShown
    <2> QED
      <3>1. MapInv /\ UNCHANGED <<var_bytes, its>>
        BY <1>1, <1>2
      <3> QED
        BY <2>1, <2>2, <2>3, <3>1, MapTaken
  <1>17. FaultInv'
    <2>1. pc \notin {"fault", "crash"} /\ pc' # "rerun"
      <3>1. pc = "queue" /\ pc' = "cal"
        BY <1>1, <1>10
      <3> QED
        BY <3>1, SMT
    <2> QED
      BY <1>1, <1>2, <2>1, FaultFrame
  <1> QED
    BY <1>13, <1>14, <1>15, <1>16, <1>17 DEF IInv

\* Dry: the next seed has no checksum yet.
LEMMA DryStep ==
  ASSUME IInv, Dry
  PROVE  IInv'
  <1> DEFINE i == cal.q + 1
  <1>1. /\ pc = "dry" /\ cal.q < opt.seeds
        /\ CalStart(queue, i, trace_bits, virgin_bits, "dry")
        /\ UNCHANGED <<opt, virgin_tmout, virgin_crash, var_bytes, trace_bits, saved_hangs,
                       saved_crashes, fed, case, its, shown, crash_seen, crash_kept,
                       hang_seen, hang_kept>>
    BY DEF Dry, history
  <1>2. Shape /\ EntryInv /\ MapInv /\ FaultInv
    BY DEF IInv
  <1>3. /\ queue \in Seq(Entry) /\ trace_bits \in Counts /\ virgin_bits \in Maps /\ cal \in Cal
        /\ opt.seeds \in Nat /\ CalChances \in Nat
    BY <1>2, Types, Bounds
  <1>4. /\ Len(queue) = opt.seeds
        /\ \A j \in DOMAIN queue :
             /\ j > cal.q => /\ queue[j].exec_cksum = None
                             /\ queue[j].cal_failed = 0 /\ ~queue[j].disabled
             /\ j <= cal.q /\ queue[j].cal_failed = 0 =>
                  queue[j].exec_cksum # None /\ ~queue[j].disabled
    BY <1>1, <1>2 DEF EntryInv, Drying
  <1>5. i \in DOMAIN queue /\ i \in Nat /\ i > 0 /\ i > cal.q /\ i <= Len(queue)
        /\ \A j \in DOMAIN queue : (j > i => j > cal.q) /\ (j <= i /\ j # i => j <= cal.q)
    <2>1. cal.q < opt.seeds /\ Len(queue) = opt.seeds /\ cal.q \in Nat
      BY <1>1, <1>3, <1>4 DEF Cal
    <2> QED
      BY <1>3, <2>1, SMT
  <1> HIDE DEF i
  <1>6. queue[i].exec_cksum = None /\ queue[i].cal_failed = 0 /\ ~queue[i].disabled
    BY <1>4, <1>5
  <1>7. queue[i].cal_failed < CalChances
    BY <1>6, Bounds, SMT
  <1>8. /\ queue' \in Seq(Entry) /\ Len(queue') = Len(queue) /\ DOMAIN queue' = DOMAIN queue
        /\ \A j \in DOMAIN queue : j # i => queue'[j] = queue[j]
        /\ queue'[i].cal_failed > 0 /\ queue'[i].disabled = queue[i].disabled
        /\ queue'[i].exec_cksum \in {None, queue[i].exec_cksum}
        /\ cal' \in Cal /\ cal'.q = i /\ cal'.n = 0 /\ cal'.max = CalCycles /\ cal'.caller = "dry"
        /\ virgin_bits' = IF queue'[i].exec_cksum # None THEN Discover(trace_bits, virgin_bits) ELSE virgin_bits
        /\ virgin_bits' \in Maps /\ pc' = "cal"
    BY <1>1, <1>3, <1>5, <1>7, CalStarts
  <1>9. queue'[i].exec_cksum = None /\ virgin_bits' = virgin_bits
    BY <1>6, <1>8
  <1>10. cal'.n <= cal'.max /\ cal'.max <= CalCyclesLong /\ cal'.max > 0 /\ ~(cal'.n > 0)
         /\ queue'[i].cal_failed # 0 /\ ~(i > i)
    <2>1. /\ cal'.n = 0 /\ cal'.max = CalCycles /\ queue'[i].cal_failed > 0 /\ i \in Nat
      BY <1>5, <1>8
    <2> QED
      BY <2>1, Bounds, SMT
  <1>11. Shape'
    BY <1>1, <1>2, <1>5, <1>8, <1>10, Types, MakeShape DEF Places
  <1>12. TraceInv'
    BY <1>8 DEF TraceInv
  <1>13. EntryInv'
    <2>1. ASSUME NEW j \in DOMAIN queue'
          PROVE  /\ j > i => /\ queue'[j].exec_cksum = None
                             /\ queue'[j].cal_failed = 0 /\ ~queue'[j].disabled
                 /\ j <= i /\ queue'[j].cal_failed = 0 =>
                      queue'[j].exec_cksum # None /\ ~queue'[j].disabled
      <3>1. CASE j = i
        BY <1>10, <3>1
      <3>2. CASE j # i
        <4>1. j \in DOMAIN queue /\ queue'[j] = queue[j]
          BY <1>8, <3>2
        <4> QED
          BY <1>4, <1>5, <3>2, <4>1
      <3> QED
        BY <3>1, <3>2
    <2>2. pc' # "dried" /\ Drying' /\ opt' = opt
      BY <1>1, <1>8 DEF Drying
    <2> QED
      BY <1>4, <1>5, <1>6, <1>8, <1>10, <2>1, <2>2 DEF EntryInv
  <1>14. MapInv'
    <2>1. Pending' = Pending
      BY <1>1, <1>8 DEF Pending
    <2>2. \A e \in Edges : Restored(e)' = Restored(e)
      BY <1>1, <1>9 DEF Restored
    <2>3. ChecksumsShown'
      BY <1>1, <1>2, <1>8, <1>9 DEF MapInv, ChecksumsShown
    <2>4. UNCHANGED <<its, virgin_bits, var_bytes, shown>>
      BY <1>1, <1>9
    <2> QED
      BY <1>2, <2>1, <2>2, <2>3, <2>4 DEF MapInv
  <1>15. FaultInv'
    <2>1. pc \notin {"fault", "crash"} /\ pc' # "rerun"
      BY <1>1, <1>8
    <2> QED
      BY <1>1, <1>2, <2>1, FaultFrame
  <1> QED
    BY <1>11, <1>12, <1>13, <1>14, <1>15 DEF IInv

\* What perform_dry_run changes when it disables an entry.
LEMMA Disabled ==
  ASSUME queue \in Seq(Entry), NEW i \in DOMAIN queue, NEW f \in 0..CalChances
  PROVE  LET qs == Disable(f, i) IN
         /\ qs \in Seq(Entry) /\ Len(qs) = Len(queue) /\ DOMAIN qs = DOMAIN queue
         /\ \A j \in DOMAIN queue : j # i => qs[j] = queue[j]
         /\ qs[i].cal_failed = f /\ qs[i].exec_cksum = queue[i].exec_cksum
  <1> DEFINE c == queue[i]
             d == [c EXCEPT !.disabled = TRUE, !.cal_failed = f]
  <1>1. c \in Entry /\ Disable(f, i) = [queue EXCEPT ![i] = d]
    <2>1. c \in Entry
      BY SMT
    <2>2. DOMAIN queue = 1..Len(queue)
      BY SMT
    <2> QED
      BY <2>1, <2>2 DEF Disable
  <1>2. d \in Entry /\ d.cal_failed = f /\ d.exec_cksum = c.exec_cksum
    <2> HIDE DEF c
    <2> QED
      BY <1>1 DEF Entry
  <1> HIDE DEF d
  <1> QED
    BY <1>1, <1>2, SMT

\* Dried: a seed whose calibration failed is not taken for a calibrated one; a
\* crash among the seeds is kept as any other.
LEMMA DriedEntries ==
  ASSUME EntryInv, pc = "dried", pc' \in {"dry", "exit"}, UNCHANGED <<opt, cal>>,
         DOMAIN queue' = DOMAIN queue, Len(queue') = Len(queue),
         \/ queue' = queue
         \/ /\ \A j \in DOMAIN queue : j # cal.q => queue'[j] = queue[j]
            /\ queue'[cal.q].cal_failed # 0 /\ ~(cal.q > cal.q)
  PROVE  EntryInv'
  <1>1. /\ Len(queue) = opt.seeds
        /\ \A j \in DOMAIN queue :
             /\ j > cal.q => /\ queue[j].exec_cksum = None
                             /\ queue[j].cal_failed = 0 /\ ~queue[j].disabled
             /\ j <= cal.q /\ queue[j].cal_failed = 0 =>
                  queue[j].exec_cksum # None /\ ~queue[j].disabled
    BY DEF EntryInv, Drying
  <1>2. ASSUME NEW j \in DOMAIN queue'
        PROVE  /\ j > cal.q => /\ queue'[j].exec_cksum = None
                               /\ queue'[j].cal_failed = 0 /\ ~queue'[j].disabled
               /\ j <= cal.q /\ queue'[j].cal_failed = 0 =>
                    queue'[j].exec_cksum # None /\ ~queue'[j].disabled
    <2>1. CASE queue'[j] = queue[j]
      BY <1>1, <2>1
    <2>2. CASE j = cal.q /\ queue'[cal.q].cal_failed # 0 /\ ~(cal.q > cal.q)
      BY <2>2
    <2> QED
      BY <2>1, <2>2
  <1>3. pc' \notin {"cal", "dried"} /\ cal' = cal /\ opt' = opt /\ (Drying' \/ pc' = "exit")
    BY DEF Drying
  <1> QED
    BY <1>1, <1>2, <1>3 DEF EntryInv

\* Dried: the seed stays, is disabled or sets the fuzzer's end.
LEMMA DriedStep ==
  ASSUME IInv, Dried
  PROVE  IInv'
  <1> DEFINE s     == Simplify(Classify(trace_bits))
             new   == HasNewBits(s, virgin_crash) # 0
  <1>1. /\ pc = "dried" /\ case' = NoCase /\ trace_bits' = NoTrace
        /\ UNCHANGED <<opt, virgin_bits, virgin_tmout, var_bytes, saved_hangs, fed, cal, its,
                       shown, hang_seen, hang_kept>>
        /\ DriedTimeout \/ DriedCrash \/ DriedOther
    BY DEF Dried
  <1>2. Shape /\ EntryInv /\ MapInv /\ FaultInv
    BY DEF IInv
  <1>3. /\ queue \in Seq(Entry) /\ trace_bits \in Counts /\ virgin_crash \in Maps /\ cal \in Cal
        /\ saved_crashes \in Nat /\ cal.q <= Len(queue) /\ opt.crash_mode \in {"ok", "crash"}
    BY <1>2, Types
  <1>4. cal.q \in DOMAIN queue /\ ~(cal.q > cal.q)
        /\ (case.fault # opt.crash_mode => queue[cal.q].cal_failed > 0)
    <2>1. cal.q > 0 /\ (case.fault # opt.crash_mode => queue[cal.q].cal_failed > 0)
      BY <1>1, <1>2 DEF EntryInv
    <2> QED
      BY <1>3, <2>1, SMT DEF Cal
  <1>5. pc' \in {"dry", "exit"}
    BY <1>1 DEF DriedTimeout, DriedCrash, DriedOther
  <1>6. \/ queue' = queue
        \/ /\ case.fault # opt.crash_mode
           /\ \E f \in {CalChances, queue[cal.q].cal_failed} : queue' = Disable(f, cal.q)
    BY <1>1, <1>3 DEF DriedTimeout, DriedCrash, DriedOther
  <1>7. /\ queue' \in Seq(Entry) /\ DOMAIN queue' = DOMAIN queue /\ Len(queue') = Len(queue)
        /\ \/ queue' = queue
           \/ /\ \A j \in DOMAIN queue : j # cal.q => queue'[j] = queue[j]
              /\ queue'[cal.q].cal_failed # 0
              /\ queue'[cal.q].exec_cksum = queue[cal.q].exec_cksum
    <2>1. CASE queue' = queue
      BY <1>3, <2>1
    <2>2. ASSUME NEW f \in {CalChances, queue[cal.q].cal_failed}, queue' = Disable(f, cal.q),
                 case.fault # opt.crash_mode
          PROVE  /\ queue' \in Seq(Entry) /\ DOMAIN queue' = DOMAIN queue /\ Len(queue') = Len(queue)
                 /\ \A j \in DOMAIN queue : j # cal.q => queue'[j] = queue[j]
                 /\ queue'[cal.q].cal_failed # 0
                 /\ queue'[cal.q].exec_cksum = queue[cal.q].exec_cksum
      <3>1. queue[cal.q] \in Entry
        BY <1>3, <1>4, SMT
      <3>2. queue[cal.q].cal_failed \in 0..CalChances
        BY <3>1 DEF Entry
      <3>3. f \in 0..CalChances /\ f # 0
        BY <1>4, <2>2, <3>2, Bounds, SMT
      <3> QED
        BY <1>3, <1>4, <2>2, <3>3, Disabled
    <2> QED
      BY <1>6, <2>1, <2>2
  <1>8. \/ UNCHANGED <<virgin_crash, saved_crashes, crash_seen, crash_kept>>
        \/ /\ virgin_crash' = Discover(s, virgin_crash)
           /\ saved_crashes' = saved_crashes + (IF new THEN 1 ELSE 0)
           /\ crash_seen' = crash_seen \cup Shows(s)
           /\ crash_kept' = IF new THEN crash_kept \cup Shows(s) ELSE crash_kept
    BY <1>1 DEF DriedTimeout, DriedCrash, DriedOther
  <1> HIDE DEF s, new
  <1>9. virgin_crash' \in Maps /\ saved_crashes' \in Nat
    <2>1. virgin_crash' \in Maps
      BY <1>3, <1>8, Discovered
    <2>2. saved_crashes' \in Nat
      BY <1>3, <1>8, SMT
    <2> QED
      BY <2>1, <2>2
  <1>10. Shape'
    <2>1. cal'.q <= Len(queue') /\ cal' \in Cal /\ pc' \in Places
      BY <1>1, <1>3, <1>5, <1>7 DEF Places
    <2> QED
      BY <1>1, <1>2, <1>7, <1>9, <2>1, Types, Records, ClassifiedTypes, MakeShape
  <1>11. TraceInv'
    BY <1>5 DEF TraceInv
  <1>12. EntryInv'
    BY <1>1, <1>2, <1>4, <1>5, <1>7, DriedEntries
  <1>13. MapInv'
    <2>1. Pending' = Pending
      BY <1>1, <1>5 DEF Pending
    <2>2. UNCHANGED <<its, virgin_bits, var_bytes, shown>>
      BY <1>1
    <2>3. \A e \in Edges : Restored(e)' = Restored(e)
      BY <2>2 DEF Restored
    <2>4. ChecksumsShown'
      BY <1>2, <1>7, <2>2 DEF MapInv, ChecksumsShown
    <2> QED
      BY <1>2, <2>1, <2>2, <2>3, <2>4 DEF MapInv
  <1>14. FaultInv'
    <2>1. CrashAtHand = {} /\ HangAtHand = {} /\ pc' # "rerun"
      BY <1>1, <1>5 DEF CrashAtHand, HangAtHand
    <2>2. Lost(virgin_crash) \subseteq crash_kept /\ crash_seen \subseteq crash_kept
      BY <1>2, <2>1 DEF FaultInv
    <2>3. /\ Lost(Discover(s, virgin_crash)) \subseteq (IF new THEN crash_kept \cup Shows(s) ELSE crash_kept)
          /\ Shows(s) \subseteq (IF new THEN crash_kept \cup Shows(s) ELSE crash_kept)
      BY <1>3, <2>2, KeepNew DEF new
    <2>4. Lost(virgin_crash') \subseteq crash_kept' /\ crash_seen' \subseteq crash_kept'
      <3>1. CASE UNCHANGED <<virgin_crash, saved_crashes, crash_seen, crash_kept>>
        BY <2>2, <3>1
      <3>2. CASE /\ virgin_crash' = Discover(s, virgin_crash)
                 /\ crash_seen' = crash_seen \cup Shows(s)
                 /\ crash_kept' = IF new THEN crash_kept \cup Shows(s) ELSE crash_kept
        BY <2>2, <2>3, <3>2
      <3> QED
        BY <1>8, <3>1, <3>2
    <2>5. UNCHANGED <<opt, virgin_tmout, hang_seen, hang_kept>>
      BY <1>1
    <2> QED
      BY <1>2, <2>1, <2>4, <2>5 DEF FaultInv, Lost
  <1> QED
    BY <1>10, <1>11, <1>12, <1>13, <1>14 DEF IInv

\* After the dry run, of the calibrated seeds with one trace a shortest is left.
LEMMA Smallest ==
  ASSUME NEW S \in SUBSET Nat, S # {}
  PROVE  \E i \in S : \A h \in S : ~(h < i)
  <1>1. PICK i \in S : \A h \in S : ~(<<h, i>> \in OpToRel(<, Nat))
    BY NatLessThanWellFounded, WFMin
  <1> QED
    BY <1>1 DEF OpToRel

\* Of the calibrated seeds with one trace, one is no duplicate.
LEMMA ShortestLeft ==
  ASSUME opt.seeds \in Nat, NEW len \in [1..opt.seeds -> 1..opt.seeds],
         NEW i \in 1..opt.seeds, Calibrated(i)
  PROVE  \E w \in 1..opt.seeds : /\ Calibrated(w) /\ w \notin Duplicates(len)
                                 /\ queue[w].exec_cksum = queue[i].exec_cksum
  <1> DEFINE S == {j \in 1..opt.seeds : Calibrated(j) /\ queue[j].exec_cksum = queue[i].exec_cksum}
             L == {len[j] : j \in S}
  <1>1. L \in SUBSET Nat /\ L # {}
    <2>1. i \in S
      OBVIOUS
    <2>2. \A j \in S : len[j] \in Nat
      BY SMT
    <2> HIDE DEF S
    <2> QED
      BY <2>1, <2>2
  <1>2. PICK l \in L : \A k \in L : ~(k < l)
    <2> HIDE DEF L
    <2> QED
      BY <1>1, Smallest
  <1> DEFINE M == {j \in S : len[j] = l}
  <1>3. M \in SUBSET Nat /\ M # {}
    <2>1. S \subseteq Nat
      BY SMT DEF S
    <2>2. \E j \in S : len[j] = l
      BY <1>2
    <2> HIDE DEF S
    <2> QED
      BY <2>1, <2>2
  <1>4. PICK w \in M : \A h \in M : ~(h < w)
    <2> HIDE DEF M
    <2> QED
      BY <1>3, Smallest
  <1>5. /\ w \in 1..opt.seeds /\ Calibrated(w) /\ queue[w].exec_cksum = queue[i].exec_cksum
        /\ len[w] = l
    BY <1>4
  <1>6. ASSUME NEW h \in 1..opt.seeds, Calibrated(h), Shorter(len, h, w),
               queue[h].exec_cksum = queue[w].exec_cksum
        PROVE  FALSE
    <2>1. h \in S
      BY <1>5, <1>6
    <2>2. ~(len[h] < len[w])
      BY <1>2, <1>5, <2>1
    <2>3. len[h] = len[w] /\ h < w
      BY <1>6, <2>2 DEF Shorter
    <2> QED
      BY <1>4, <1>5, <2>1, <2>3
  <1> QED
    BY <1>5, <1>6 DEF Duplicates

\* DryDone: a calibrated seed that is dropped has a twin that is not.
LEMMA DryDoneStep ==
  ASSUME IInv, DryDone
  PROVE  IInv'
  <1>1. /\ pc = "dry" /\ cal.q = opt.seeds /\ pc' \in {"exit", "fuzz"} /\ cal' = NoCal
        /\ UNCHANGED <<opt, virgin_bits, virgin_tmout, virgin_crash, var_bytes, trace_bits,
                       saved_hangs, saved_crashes, fed, case, its, shown, crash_seen, crash_kept,
                       hang_seen, hang_kept>>
    BY DEF DryDone, history
  <1>2. PICK len \in [1..opt.seeds -> 1..opt.seeds] :
          queue' = [i \in 1..opt.seeds |->
                      IF i \in Duplicates(len) THEN [queue[i] EXCEPT !.disabled = TRUE]
                      ELSE queue[i]]
    BY DEF DryDone
  <1>3. Shape /\ EntryInv /\ MapInv /\ FaultInv
    BY DEF IInv
  <1>4. queue \in Seq(Entry) /\ opt.seeds \in Nat
    BY <1>3, Types, SMT
  <1>5. /\ Len(queue) = opt.seeds /\ DOMAIN queue = 1..opt.seeds
        /\ \A i \in 1..opt.seeds : queue[i].cal_failed = 0 =>
             queue[i].exec_cksum # None /\ ~queue[i].disabled
    <2>1. /\ Len(queue) = opt.seeds
          /\ \A i \in DOMAIN queue : i <= cal.q /\ queue[i].cal_failed = 0 =>
               queue[i].exec_cksum # None /\ ~queue[i].disabled
      BY <1>1, <1>3 DEF EntryInv, Drying
    <2> QED
      BY <1>1, <1>4, <2>1, SMT
  <1>6. ASSUME NEW i \in 1..opt.seeds
        PROVE  /\ queue'[i] \in Entry /\ queue'[i].exec_cksum = queue[i].exec_cksum
               /\ queue'[i].cal_failed = queue[i].cal_failed
               /\ i \notin Duplicates(len) => queue'[i] = queue[i]
    <2> DEFINE c == queue[i]
               d == [c EXCEPT !.disabled = TRUE]
    <2>1. queue'[i] = IF i \in Duplicates(len) THEN d ELSE c
      BY <1>2
    <2>2. c \in Entry
      BY <1>4, <1>5, SMT
    <2>3. d \in Entry /\ d.exec_cksum = c.exec_cksum /\ d.cal_failed = c.cal_failed
      <3> HIDE DEF c
      <3> QED
        BY <2>2 DEF Entry
    <2> HIDE DEF d
    <2> QED
      BY <2>1, <2>2, <2>3
  <1>7. queue' \in Seq(Entry) /\ Len(queue') = opt.seeds /\ DOMAIN queue' = 1..opt.seeds
    <2> DEFINE q(i) == IF i \in Duplicates(len) THEN [queue[i] EXCEPT !.disabled = TRUE]
                       ELSE queue[i]
    <2>1. queue' = [i \in 1..opt.seeds |-> q(i)]
      BY <1>2
    <2> HIDE DEF q
    <2>2. DOMAIN queue' = 1..opt.seeds /\ queue' = [i \in 1..opt.seeds |-> queue'[i]]
      BY <2>1
    <2> QED
      BY <1>4, <1>6, <2>2, SMT
  <1>8. Shape'
    <2>1. cal'.q <= Len(queue') /\ cal'.n <= cal'.max /\ cal'.max <= CalCyclesLong /\ pc' \in Places
      BY <1>1, <1>4, <1>7, Bounds, SMT DEF NoCal, Places
    <2> QED
      BY <1>1, <1>3, <1>7, <2>1, Types, Records, MakeShape
  <1>9. TraceInv'
    BY <1>1 DEF TraceInv
  <1>10. EntryInv'
    <2>1. ASSUME NEW i \in DOMAIN queue', queue'[i].cal_failed = 0
          PROVE  \E j \in DOMAIN queue' :
                   /\ ~queue'[j].disabled /\ queue'[j].cal_failed = 0
                   /\ queue'[j].exec_cksum = queue'[i].exec_cksum
      <3>1. i \in 1..opt.seeds /\ Calibrated(i)
        BY <1>5, <1>6, <1>7, <2>1 DEF Calibrated
      <3>2. PICK w \in 1..opt.seeds : /\ Calibrated(w) /\ w \notin Duplicates(len)
                                      /\ queue[w].exec_cksum = queue[i].exec_cksum
        BY <1>4, <3>1, ShortestLeft
      <3> QED
        BY <1>6, <1>7, <3>1, <3>2 DEF Calibrated
    <2>2. pc' \notin {"cal", "dried"} /\ ~Drying'
      BY <1>1 DEF Drying
    <2> QED
      BY <2>1, <2>2 DEF EntryInv
  <1>11. MapInv'
    <2>1. Pending' = Pending
      BY <1>1 DEF Pending
    <2>2. UNCHANGED <<its, virgin_bits, var_bytes, shown>>
      BY <1>1
    <2>3. \A e \in Edges : Restored(e)' = Restored(e)
      BY <2>2 DEF Restored
    <2>4. ChecksumsShown'
      BY <1>3, <1>5, <1>6, <1>7, <2>2 DEF MapInv, ChecksumsShown
    <2> QED
      BY <1>3, <2>1, <2>2, <2>3, <2>4 DEF MapInv
  <1>12. FaultInv'
    <2>1. pc \notin {"fault", "crash"} /\ pc' # "rerun"
      BY <1>1
    <2> QED
      BY <1>1, <1>3, <2>1, FaultFrame
  <1> QED
    BY <1>8, <1>9, <1>10, <1>11, <1>12 DEF IInv

\* A run of the loop gives the entry a checksum, if it has none.
LEMMA CalEntries ==
  ASSUME EntryInv, pc = "cal", pc' = "cal", opt' = opt, cal'.q = cal.q, cal'.caller = cal.caller,
         cal'.max > 0, DOMAIN queue' = DOMAIN queue, Len(queue') = Len(queue),
         \A j \in DOMAIN queue : j # cal.q => queue'[j] = queue[j],
         queue'[cal.q].cal_failed = queue[cal.q].cal_failed, queue[cal.q].cal_failed # 0,
         queue'[cal.q].disabled = queue[cal.q].disabled, queue'[cal.q].exec_cksum # None,
         ~(cal.q > cal.q)
  PROVE  EntryInv'
  <1>1. /\ cal'.q > 0 /\ cal'.max > 0
        /\ queue'[cal'.q].cal_failed > 0 /\ ~queue'[cal'.q].disabled
        /\ queue'[cal'.q].exec_cksum # None
    BY DEF EntryInv
  <1>2. CASE cal.caller = "dry"
    <2>1. /\ Len(queue) = opt.seeds
          /\ \A j \in DOMAIN queue :
               /\ j > cal.q => /\ queue[j].exec_cksum = None
                               /\ queue[j].cal_failed = 0 /\ ~queue[j].disabled
               /\ j <= cal.q /\ queue[j].cal_failed = 0 =>
                    queue[j].exec_cksum # None /\ ~queue[j].disabled
      BY <1>2 DEF EntryInv, Drying
    <2>2. ASSUME NEW j \in DOMAIN queue'
          PROVE  /\ j > cal.q => /\ queue'[j].exec_cksum = None
                                 /\ queue'[j].cal_failed = 0 /\ ~queue'[j].disabled
                 /\ j <= cal.q /\ queue'[j].cal_failed = 0 =>
                      queue'[j].exec_cksum # None /\ ~queue'[j].disabled
      <3>1. CASE j = cal.q
        BY <3>1
      <3>2. CASE j # cal.q
        <4>1. j \in DOMAIN queue /\ queue'[j] = queue[j]
          BY <3>2
        <4> QED
          BY <2>1, <4>1
      <3> QED
        BY <3>1, <3>2
    <2>3. pc' # "dried" /\ Drying'
      BY <1>2 DEF Drying
    <2> QED
      BY <1>1, <2>1, <2>2, <2>3 DEF EntryInv
  <1>3. CASE cal.caller # "dry"
    <2>1. ~Drying /\ ~Drying' /\ pc # "exit" /\ pc' # "dried"
      BY <1>3 DEF Drying
    <2>2. ASSUME NEW j \in DOMAIN queue', queue'[j].disabled, queue'[j].cal_failed = 0
          PROVE  \E w \in DOMAIN queue' :
                   /\ ~queue'[w].disabled /\ queue'[w].cal_failed = 0
                   /\ queue'[w].exec_cksum = queue'[j].exec_cksum
      <3>1. j \in DOMAIN queue /\ queue'[j] = queue[j]
        BY <2>2
      <3>2. PICK w \in DOMAIN queue :
              /\ ~queue[w].disabled /\ queue[w].cal_failed = 0
              /\ queue[w].exec_cksum = queue[j].exec_cksum
        BY <2>1, <2>2, <3>1 DEF EntryInv
      <3>3. w \in DOMAIN queue' /\ queue'[w] = queue[w]
        BY <3>2
      <3> QED
        BY <3>1, <3>2, <3>3
    <2> QED
      BY <1>1, <2>1, <2>2 DEF EntryInv
  <1> QED
    BY <1>2, <1>3

\* An edge that varies has no bit left, and counts for nothing.
LEMMA MapMarked ==
  ASSUME MapInv, NEW c, its' = its, Pending = {}, Pending' = {}, shown' = shown \cup Shows(c),
         ChecksumsShown', NEW vary \in SUBSET Edges, var_bytes' = var_bytes \cup vary,
         \A e \in Edges : virgin_bits'[e] = IF e \in vary THEN {} ELSE virgin_bits[e] \ ByteBits[c[e]]
  PROVE  MapInv'
  <1>1. ASSUME NEW e \in Edges
        PROVE  Restored(e)' = {b \in Bits : e \notin var_bytes' /\ <<e, b>> \notin shown' \cup Pending'}
    <2>1. Restored(e) = {b \in Bits : e \notin var_bytes /\ <<e, b>> \notin shown}
      BY DEF MapInv
    <2>2. \A b \in Bits : <<e, b>> \in Shows(c) <=> b \in ByteBits[c[e]]
      BY ShowsPairs
    <2>3. CASE e \in vary
      <3>1. Restored(e)' = {} /\ e \in var_bytes'
        BY <2>3 DEF Restored
      <3> QED
        BY <3>1
    <2>4. CASE e \notin vary
      <3>1. Restored(e)' = Restored(e) \ ByteBits[c[e]] /\ (e \in var_bytes' <=> e \in var_bytes)
        BY <2>4 DEF Restored
      <3> QED
        BY <2>1, <2>2, <3>1
    <2> QED
      BY <2>3, <2>4
  <1>2. its'.phase = "on" => \A e \in Edges : virgin_bits'[e] \subseteq its'.backup[e]
    BY DEF MapInv
  <1> QED
    BY <1>1, <1>2 DEF MapInv

\* CalRun: a trace with the checksum shows nothing new; any other is taken off.
LEMMA CalRunStep ==
  ASSUME IInv, NEW t \in Traces, CalRun(t)
  PROVE  IInv'
  <1> DEFINE c    == Classify(t)
             k    == cal.q
             x    == queue[k].exec_cksum
             vary == {e \in Edges \ var_bytes : cal.first[e] # c[e]}
             same == /\ x = c /\ cal' = [cal EXCEPT !.n = @ + 1]
                     /\ UNCHANGED <<queue, virgin_bits, var_bytes>>
             differs == /\ x # None /\ var_bytes' = var_bytes \cup vary
                        /\ virgin_bits' = [e \in Edges |-> IF e \in vary THEN {}
                                                          ELSE Discover(c, virgin_bits)[e]]
                        /\ cal' = [cal EXCEPT !.n = @ + 1, !.max = CalCyclesLong]
                        /\ UNCHANGED queue
             first == /\ virgin_bits' = Discover(c, virgin_bits)
                      /\ queue' = [queue EXCEPT ![k].exec_cksum = c]
                      /\ cal' = [cal EXCEPT !.n = @ + 1, !.first = c]
                      /\ UNCHANGED var_bytes
  <1>1. /\ pc = "cal" /\ pc' = "cal" /\ cal.n < cal.max /\ trace_bits' = c
        /\ shown' = shown \cup Shows(c)
        /\ UNCHANGED <<opt, virgin_tmout, virgin_crash, saved_hangs, saved_crashes, fed, case,
                       its, crash_seen, crash_kept, hang_seen, hang_kept>>
    BY DEF CalRun
  <1>2. same \/ differs \/ first
    BY DEF CalRun, MarkVariable
  <1>3. Shape /\ EntryInv /\ MapInv /\ FaultInv
    BY DEF IInv
  <1>4. /\ queue \in Seq(Entry) /\ virgin_bits \in Maps /\ var_bytes \subseteq Edges /\ cal \in Cal
        /\ cal.q <= Len(queue) /\ cal.max <= CalCyclesLong
    BY <1>3, Types
  <1>5. c \in Counts /\ c \in Classified /\ c # None
    BY TraceTypes, ClassifiedTypes DEF Classified
  <1> HIDE DEF c
  <1>6. /\ k \in DOMAIN queue /\ ~(k > k) /\ cal.max > 0 /\ queue[k].cal_failed # 0
        /\ cal.n \in Nat /\ cal.max \in Nat /\ CalCyclesLong \in Nat /\ CalCyclesLong > 0
    <2>1. cal.q > 0 /\ cal.max > 0 /\ queue[k].cal_failed > 0
      BY <1>1, <1>3 DEF EntryInv
    <2>2. cal.q \in Nat /\ cal.n \in Nat /\ cal.max \in Nat
      BY <1>4 DEF Cal
    <2> QED
      BY <1>4, <2>1, <2>2, Bounds, SMT
  <1>7. /\ cal' \in Cal /\ cal'.q = k /\ cal'.caller = cal.caller /\ cal'.n <= cal'.max
        /\ cal'.max <= CalCyclesLong /\ cal'.max > 0
    <2> DEFINE m == cal.n + 1
    <2>1. m \in Nat /\ m <= cal.max /\ m <= CalCyclesLong
      BY <1>1, <1>4, <1>6, SMT
    <2>2. /\ cal' \in Cal /\ cal'.q = cal.q /\ cal'.caller = cal.caller /\ cal'.n = m
          /\ cal'.max \in {cal.max, CalCyclesLong}
      <3>1. \/ cal' = [cal EXCEPT !.n = m]
            \/ cal' = [cal EXCEPT !.n = m, !.max = CalCyclesLong]
            \/ cal' = [cal EXCEPT !.n = m, !.first = c]
        BY <1>2
      <3> HIDE DEF m
      <3>2. CASE cal' = [cal EXCEPT !.n = m]
        BY <1>4, <2>1, <3>2 DEF Cal
      <3>3. CASE cal' = [cal EXCEPT !.n = m, !.max = CalCyclesLong]
        BY <1>4, <1>6, <2>1, <3>3 DEF Cal
      <3>4. CASE cal' = [cal EXCEPT !.n = m, !.first = c]
        BY <1>4, <1>5, <2>1, <3>4 DEF Cal
      <3> QED
        BY <3>1, <3>2, <3>3, <3>4
    <2> QED
      BY <1>4, <1>6, <2>1, <2>2, SMT
  <1>8. /\ queue' \in Seq(Entry) /\ DOMAIN queue' = DOMAIN queue /\ Len(queue') = Len(queue)
        /\ \A j \in DOMAIN queue : j # k => queue'[j] = queue[j]
        /\ queue'[k].cal_failed = queue[k].cal_failed /\ queue'[k].disabled = queue[k].disabled
        /\ queue'[k].exec_cksum = (IF first THEN c ELSE x) /\ queue'[k].exec_cksum # None
    <2>1. CASE queue' = queue /\ x # None /\ ~first
      BY <1>4, <2>1
    <2>2. CASE first
      <3> DEFINE q == queue[k]
                 d == [q EXCEPT !.exec_cksum = c]
      <3>1. q \in Entry /\ queue' = [queue EXCEPT ![k] = d]
        <4>1. q \in Entry
          BY <1>4, <1>6, SMT
        <4> QED
          BY <2>2, <4>1
      <3>2. d \in Entry /\ d.exec_cksum = c /\ d.cal_failed = q.cal_failed /\ d.disabled = q.disabled
        <4> HIDE DEF q
        <4> QED
          BY <1>5, <3>1 DEF Entry
      <3> HIDE DEF d, k
      <3>3. /\ queue' \in Seq(Entry) /\ DOMAIN queue' = DOMAIN queue /\ Len(queue') = Len(queue)
            /\ \A j \in DOMAIN queue : j # k => queue'[j] = queue[j]
            /\ queue'[k] = d
        BY <1>4, <1>6, <3>1, <3>2, SMT
      <3>4. first
        BY <2>2
      <3> HIDE DEF first, x
      <3> QED
        BY <1>5, <3>2, <3>3, <3>4
    <2> QED
      BY <1>2, <1>5, <2>1, <2>2
  <1>9. virgin_bits' \in Maps /\ var_bytes' \subseteq Edges
    <2>1. Discover(c, virgin_bits) \in Maps
      BY <1>4, Discovered
    <2>2. CASE differs
      BY <1>4, <2>1, <2>2, SMT DEF Maps
    <2> QED
      BY <1>2, <1>4, <2>1, <2>2
  <1>10. Shape'
    <2>1. cal'.q <= Len(queue') /\ pc' \in Places
      BY <1>1, <1>4, <1>7, <1>8 DEF Places
    <2> QED
      BY <1>1, <1>3, <1>5, <1>7, <1>8, <1>9, <2>1, Types, MakeShape
  <1>11. TraceInv'
    BY <1>1 DEF TraceInv
  <1>12. EntryInv'
    BY <1>1, <1>3, <1>6, <1>7, <1>8, CalEntries
  <1>13. MapInv'
    <2>1. Pending = {} /\ Pending' = {}
      BY <1>1 DEF Pending
    <2>2. ChecksumsShown'
      <3>1. ASSUME NEW j \in DOMAIN queue', queue'[j].exec_cksum # None
            PROVE  Shows(queue'[j].exec_cksum) \subseteq shown'
        <4>1. j \in DOMAIN queue
          BY <1>8
        <4>2. \/ queue'[j].exec_cksum = queue[j].exec_cksum
              \/ queue'[j].exec_cksum = c
          BY <1>8, <4>1
        <4> QED
          BY <1>1, <1>3, <3>1, <4>1, <4>2 DEF MapInv, ChecksumsShown
      <3> QED
        BY <3>1 DEF ChecksumsShown
    <2>3. \A e \in Edges : Discover(c, virgin_bits)[e] = virgin_bits[e] \ ByteBits[c[e]]
      BY <1>4, Discovered
    <2>4. CASE same
      <3>1. Shows(c) \subseteq shown
        BY <1>3, <1>5, <1>6, <2>4 DEF MapInv, ChecksumsShown
      <3>2. Takes(c)
        BY <2>4, <3>1 DEF Takes
      <3> QED
        BY <1>1, <1>3, <2>1, <2>2, <2>4, <3>2, MapTaken, SMT
    <2>5. CASE differs
      <3>1. vary \in SUBSET Edges
        OBVIOUS
      <3>2. \A e \in Edges : virgin_bits'[e] = IF e \in vary THEN {} ELSE virgin_bits[e] \ ByteBits[c[e]]
        BY <2>3, <2>5
      <3>3. var_bytes' = var_bytes \cup vary /\ its' = its /\ shown' = shown \cup Shows(c)
        BY <1>1, <2>5
      <3> HIDE DEF vary
      <3> QED
        BY <1>3, <2>1, <2>2, <3>1, <3>2, <3>3, MapMarked
    <2>6. CASE first
      <3>1. Takes(c)
        BY <2>3, <2>6 DEF Takes
      <3> QED
        BY <1>1, <1>3, <2>1, <2>2, <2>6, <3>1, MapTaken
    <2> QED
      BY <1>2, <2>4, <2>5, <2>6
  <1>14. FaultInv'
    <2>1. pc \notin {"fault", "crash"} /\ pc' # "rerun"
      BY <1>1
    <2> QED
      BY <1>1, <1>3, <2>1, FaultFrame
  <1> QED
    BY <1>10, <1>11, <1>12, <1>13, <1>14 DEF IInv

\* The end of a calibration: to the dry run, to may_save_fault or to fuzz_one.
LEMMA CalReturns ==
  ASSUME Shape, NEW res \in Faults \cup {"noinst"}, NEW t \in Counts, CalReturn(res, t)
  PROVE  /\ trace_bits' \in Counts /\ case' \in Case
         /\ cal' \in Cal /\ cal'.q \in {0, cal.q} /\ cal'.n = 0 /\ cal'.max = 0
         /\ cal.caller = "dry" => pc' = "dried" /\ cal'.q = cal.q /\ case'.fault = res
         /\ cal.caller # "dry" => pc' \in {"fault", "fuzz"}
  <1>1. case \in Case /\ cal \in Cal
    BY Types
  <1>2. cal.q \in Nat /\ cal.caller \in {"dry", "fault", "fuzz"}
    BY <1>1 DEF Cal
  <1>3. trace_bits' \in Counts
    BY ClassifiedTypes DEF CalReturn
  <1>4. case' \in Case /\ (cal.caller = "dry" => case'.fault = res)
    BY <1>1, Records, CaseUpdates DEF CalReturn
  <1>5. /\ cal' \in Cal /\ cal'.q \in {0, cal.q} /\ cal'.n = 0 /\ cal'.max = 0
        /\ cal.caller = "dry" => cal'.q = cal.q
    <2> DEFINE m == IF cal.caller = "dry" THEN cal.q ELSE 0
    <2>1. m \in Nat /\ m \in {0, cal.q} /\ (cal.caller = "dry" => m = cal.q)
      BY <1>2
    <2>2. cal' = [NoCal EXCEPT !.q = m]
      BY DEF CalReturn
    <2>3. cal' = [q |-> m, n |-> 0, max |-> 0, first |-> NoTrace, caller |-> "fuzz"]
      BY <2>2 DEF NoCal
    <2> HIDE DEF m
    <2> QED
      BY <2>1, <2>3, ClassifiedTypes DEF Cal
  <1>6. /\ cal.caller = "dry" => pc' = "dried"
        /\ cal.caller # "dry" => pc' \in {"fault", "fuzz"}
    BY <1>2 DEF CalReturn
  <1> QED
    BY <1>3, <1>4, <1>5, <1>6

\* What the end of a calibration leaves alone, and what it does to the entry:
\* only a calibration that went through all of its runs makes it a calibrated
\* one, and by then the entry has a checksum.
CalApart ==
  UNCHANGED <<opt, virgin_bits, virgin_tmout, virgin_crash, var_bytes, saved_hangs,
              saved_crashes, fed, its, shown, crash_seen, crash_kept, hang_seen, hang_kept>>
CalEntry(res) ==
  /\ queue' \in Seq(Entry) /\ DOMAIN queue' = DOMAIN queue /\ Len(queue') = Len(queue)
  /\ \A j \in DOMAIN queue : j # cal.q => queue'[j] = queue[j]
  /\ queue'[cal.q].exec_cksum = queue[cal.q].exec_cksum
  /\ queue'[cal.q].disabled = queue[cal.q].disabled
  /\ \/ queue'[cal.q].cal_failed = queue[cal.q].cal_failed
     \/ res = opt.crash_mode /\ queue[cal.q].exec_cksum # None

\* calibrate_case returns to its caller.
LEMMA CalEnds ==
  ASSUME IInv, pc = "cal", NEW res \in Faults \cup {"noinst"}, NEW t \in Counts,
         CalReturn(res, t), CalApart, CalEntry(res)
  PROVE  IInv'
  <1>1. Shape /\ EntryInv /\ MapInv /\ FaultInv
    BY DEF IInv
  <1>2. /\ trace_bits' \in Counts /\ case' \in Case
        /\ cal' \in Cal /\ cal'.q \in {0, cal.q} /\ cal'.n = 0 /\ cal'.max = 0
        /\ cal.caller = "dry" => pc' = "dried" /\ cal'.q = cal.q /\ case'.fault = res
        /\ cal.caller # "dry" => pc' \in {"fault", "fuzz"}
    BY <1>1, CalReturns
  <1>3. pc' \in {"dried", "fault", "fuzz"}
    BY <1>2
  <1>4. cal.q > 0 /\ queue[cal.q].cal_failed > 0 /\ ~queue[cal.q].disabled
    BY <1>1 DEF EntryInv
  <1>5. cal \in Cal /\ cal.q <= Len(queue) /\ queue \in Seq(Entry)
    BY <1>1, Types
  <1>6. cal.q \in Nat /\ ~(cal.q > cal.q) /\ queue[cal.q].cal_failed # 0
    BY <1>4, <1>5, SMT DEF Cal
  <1>7. Shape'
    <2>1. cal'.q <= Len(queue') /\ cal'.n <= cal'.max /\ cal'.max <= CalCyclesLong /\ pc' \in Places
      <3>1. cal'.q \in {0, cal.q} /\ cal'.n = 0 /\ cal'.max = 0 /\ Len(queue') = Len(queue)
        BY <1>2 DEF CalEntry
      <3> QED
        BY <1>3, <1>5, <1>6, <3>1, Bounds, SMT DEF Places
    <2> QED
      BY <1>1, <1>2, <2>1, Types, MakeShape DEF CalApart, CalEntry
  <1>8. TraceInv'
    BY <1>3 DEF TraceInv
  <1>9. EntryInv'
    <2>1. CASE cal.caller = "dry"
      <3>1. /\ Len(queue) = opt.seeds
            /\ \A j \in DOMAIN queue :
                 /\ j > cal.q => /\ queue[j].exec_cksum = None
                                 /\ queue[j].cal_failed = 0 /\ ~queue[j].disabled
                 /\ j <= cal.q /\ queue[j].cal_failed = 0 =>
                      queue[j].exec_cksum # None /\ ~queue[j].disabled
        BY <1>1, <2>1 DEF EntryInv, Drying
      <3>2. ASSUME NEW j \in DOMAIN queue'
            PROVE  /\ j > cal.q => /\ queue'[j].exec_cksum = None
                                   /\ queue'[j].cal_failed = 0 /\ ~queue'[j].disabled
                   /\ j <= cal.q /\ queue'[j].cal_failed = 0 =>
                        queue'[j].exec_cksum # None /\ ~queue'[j].disabled
        <4>1. CASE j = cal.q
          BY <1>4, <1>6, <4>1 DEF CalEntry
        <4>2. CASE j # cal.q
          <5>1. j \in DOMAIN queue /\ queue'[j] = queue[j]
            BY <4>2 DEF CalEntry
          <5> QED
            BY <3>1, <5>1
        <4> QED
          BY <4>1, <4>2
      <3>3. pc' = "dried" /\ Drying' /\ opt' = opt /\ cal'.q = cal.q /\ case'.fault = res
        BY <1>2, <2>1 DEF Drying, CalApart
      <3>4. case'.fault # opt'.crash_mode => queue'[cal'.q].cal_failed > 0
        BY <1>4, <3>3 DEF CalEntry
      <3>5. pc' # "cal"
        BY <3>3
      <3> QED
        BY <1>4, <3>1, <3>2, <3>3, <3>4, <3>5 DEF EntryInv, CalEntry
    <2>2. CASE cal.caller # "dry"
      <3>1. ~Drying /\ ~Drying' /\ pc # "exit" /\ pc' \notin {"dried", "cal"}
        BY <1>2, <2>2 DEF Drying
      <3>2. ASSUME NEW j \in DOMAIN queue', queue'[j].disabled, queue'[j].cal_failed = 0
            PROVE  \E w \in DOMAIN queue' :
                     /\ ~queue'[w].disabled /\ queue'[w].cal_failed = 0
                     /\ queue'[w].exec_cksum = queue'[j].exec_cksum
        <4>1. j \in DOMAIN queue /\ queue'[j] = queue[j]
          BY <1>4, <3>2 DEF CalEntry
        <4>2. PICK w \in DOMAIN queue :
                /\ ~queue[w].disabled /\ queue[w].cal_failed = 0
                /\ queue[w].exec_cksum = queue[j].exec_cksum
          BY <1>1, <3>1, <3>2, <4>1 DEF EntryInv
        <4>3. w \in DOMAIN queue' /\ queue'[w] = queue[w]
          BY <1>6, <4>2 DEF CalEntry
        <4> QED
          BY <4>1, <4>2, <4>3
      <3> QED
        BY <3>1, <3>2 DEF EntryInv
    <2> QED
      BY <2>1, <2>2
  <1>10. MapInv'
    <2>1. Pending' = Pending
      BY <1>3 DEF Pending
    <2>2. UNCHANGED <<its, virgin_bits, var_bytes, shown>>
      BY DEF CalApart
    <2>3. \A e \in Edges : Restored(e)' = Restored(e)
      BY <2>2 DEF Restored
    <2>4. ChecksumsShown'
      <3>1. \A j \in DOMAIN queue' : j \in DOMAIN queue /\ queue'[j].exec_cksum = queue[j].exec_cksum
        BY DEF CalEntry
      <3> QED
        BY <1>1, <2>2, <3>1 DEF MapInv, ChecksumsShown
    <2> QED
      BY <1>1, <2>1, <2>2, <2>3, <2>4 DEF MapInv
  <1>11. FaultInv'
    <2>1. pc \notin {"fault", "crash"} /\ pc' # "rerun"
      BY <1>3
    <2> QED
      BY <1>1, <2>1, FaultFrame DEF CalApart
  <1> QED
    BY <1>7, <1>8, <1>9, <1>10, <1>11 DEF IInv

\* CalAbort: a run that fails leaves the entry uncalibrated.
LEMMA CalAbortStep ==
  ASSUME IInv, NEW f \in Faults, NEW t \in Traces, CalAbort(f, t)
  PROVE  IInv'
  <1> DEFINE res == IF f # opt.crash_mode THEN f ELSE "noinst"
  <1>1. /\ pc = "cal" /\ CalReturn(res, t)
        /\ UNCHANGED <<opt, virgin_bits, virgin_tmout, virgin_crash, var_bytes, queue, saved_hangs,
                       saved_crashes, fed, its, shown, crash_seen, crash_kept, hang_seen, hang_kept>>
    BY DEF CalAbort, settled, history
  <1>2. res \in Faults \cup {"noinst"} /\ t \in Counts
    BY ClassifiedTypes
  <1>3. queue \in Seq(Entry)
    BY Types DEF IInv
  <1> HIDE DEF res
  <1> QED
    BY <1>1, <1>2, <1>3, CalEnds DEF CalApart, CalEntry

\* CalDone: the entry is calibrated, and has a checksum.
LEMMA CalDoneStep ==
  ASSUME IInv, CalDone
  PROVE  IInv'
  <1> DEFINE k == cal.q
             q == queue[k]
             d == [q EXCEPT !.cal_failed = 0]
  <1>1. /\ pc = "cal" /\ cal.n = cal.max /\ queue' = [queue EXCEPT ![k].cal_failed = 0]
        /\ CalReturn(opt.crash_mode, trace_bits)
        /\ UNCHANGED <<opt, virgin_bits, virgin_tmout, virgin_crash, var_bytes, saved_hangs,
                       saved_crashes, fed, its, shown, crash_seen, crash_kept, hang_seen, hang_kept>>
    BY DEF CalDone, history
  <1>2. Shape /\ EntryInv
    BY DEF IInv
  <1>3. /\ queue \in Seq(Entry) /\ trace_bits \in Counts /\ cal \in Cal /\ cal.q <= Len(queue)
        /\ opt.crash_mode \in {"ok", "crash"}
    BY <1>2, Types
  <1>4. cal.q > 0 /\ cal.max > 0 /\ (cal.n > 0 => queue[cal.q].exec_cksum # None)
    BY <1>1, <1>2 DEF EntryInv
  <1>5. k \in DOMAIN queue /\ q.exec_cksum # None
    BY <1>1, <1>3, <1>4, SMT DEF Cal
  <1>6. q \in Entry /\ queue' = [queue EXCEPT ![k] = d]
    BY <1>1, <1>3, <1>5, SMT
  <1>7. d \in Entry /\ d.exec_cksum = q.exec_cksum /\ d.disabled = q.disabled
    <2> HIDE DEF q
    <2>1. 0 \in 0..CalChances
      BY Bounds, SMT
    <2> QED
      BY <1>6, <2>1 DEF Entry
  <1> HIDE DEF d
  <1>8. /\ queue' \in Seq(Entry) /\ DOMAIN queue' = DOMAIN queue /\ Len(queue') = Len(queue)
        /\ \A j \in DOMAIN queue : j # k => queue'[j] = queue[j]
        /\ queue'[k] = d
    BY <1>3, <1>5, <1>6, <1>7, SMT
  <1>9. opt.crash_mode \in Faults \cup {"noinst"}
    BY <1>3 DEF Faults
  <1>10. queue'[k].exec_cksum = queue[k].exec_cksum /\ queue'[k].disabled = queue[k].disabled
    BY <1>7, <1>8
  <1> QED
    <2>1. CalApart
      BY <1>1 DEF CalApart
    <2>2. CalEntry(opt.crash_mode)
      BY <1>5, <1>8, <1>10 DEF CalEntry
    <2> QED
      BY <1>1, <1>3, <1>9, <2>1, <2>2, CalEnds

-----------------------------------------------------------------------------
(* The CmpLog stage.                                                       *)

ItsApart ==
  UNCHANGED <<opt, virgin_tmout, virgin_crash, var_bytes, trace_bits, queue, saved_hangs,
              saved_crashes, fed, pc, case, cal, shown, crash_seen, crash_kept, hang_seen,
              hang_kept>>

\* A step of the stage that leaves alone what will be restored keeps the invariant.
LEMMA ItsMoves ==
  ASSUME IInv, pc = "fuzz", ItsApart,
         virgin_bits' \in Maps, its' \in Its, \A e \in Edges : Restored(e)' = Restored(e),
         its'.phase = "on" => \A e \in Edges : virgin_bits'[e] \subseteq its'.backup[e]
  PROVE  IInv'
  <1>1. Shape /\ EntryInv /\ MapInv /\ FaultInv
    BY DEF IInv
  <1>2. pc' = "fuzz" /\ pc' \in Places
    BY DEF ItsApart, Places
  <1>3. Shape'
    BY <1>1, <1>2, Types, MakeShape DEF ItsApart
  <1>4. TraceInv' /\ ~Drying
    BY <1>2 DEF TraceInv, Drying
  <1>5. EntryInv'
    <2>1. pc # "exit" /\ pc' \notin {"dry", "dried", "cal"}
      BY <1>2
    <2> QED
      BY <1>1, <1>4, <2>1, EntryFrame DEF ItsApart
  <1>6. Pending' = Pending
    BY DEF Pending, ItsApart
  <1>7. ChecksumsShown'
    BY <1>1 DEF MapInv, ChecksumsShown, ItsApart
  <1>8. MapInv'
    BY <1>1, <1>6, <1>7 DEF MapInv, ItsApart
  <1>9. FaultInv'
    <2>1. pc \notin {"fault", "crash"} /\ pc' # "rerun"
      BY <1>2
    <2> QED
      BY <1>1, <2>1, FaultFrame DEF ItsApart
  <1> QED
    BY <1>3, <1>4, <1>5, <1>8, <1>9 DEF IInv

\* ItsBegin: the map is backed up.
LEMMA ItsBeginStep ==
  ASSUME IInv, ItsBegin
  PROVE  IInv'
  <1>1. /\ pc = "fuzz" /\ its.phase = "off"
        /\ its' = [NoIts EXCEPT !.phase = "on", !.backup = virgin_bits, !.hits = Hits]
        /\ virgin_bits' = virgin_bits /\ ItsApart
    BY DEF ItsBegin, history, ItsApart
  <1>2. queue \in Seq(Entry) /\ saved_crashes \in Nat /\ virgin_bits \in Maps
    BY Types DEF IInv
  <1>3. Hits \in Nat
    BY <1>2, SMT DEF Hits
  <1>4. its' = [phase |-> "on", backup |-> virgin_bits, save |-> Virgin, hits |-> Hits]
    BY <1>1 DEF NoIts
  <1>5. its' \in Its /\ its'.phase = "on" /\ its'.backup = virgin_bits
    BY <1>2, <1>3, <1>4, ClassifiedTypes DEF Its
  <1>6. \A e \in Edges : Restored(e)' = Restored(e)
    BY <1>1, <1>5 DEF Restored
  <1> QED
    BY <1>1, <1>2, <1>5, <1>6, ItsMoves

\* ItsEnd: what the stage found is put back, and stays known.
LEMMA ItsEndStep ==
  ASSUME IInv, ItsEnd
  PROVE  IInv'
  <1>1. /\ pc = "fuzz" /\ its.phase = "on"
        /\ \/ /\ its' = [its EXCEPT !.save = virgin_bits, !.phase = "combine"]
              /\ virgin_bits' = its.backup
           \/ its' = NoIts /\ virgin_bits' = virgin_bits
        /\ ItsApart
    BY DEF ItsEnd, history, ItsApart
  <1>2. virgin_bits \in Maps /\ its \in Its
    BY Types DEF IInv
  <1>3. \A e \in Edges : virgin_bits[e] \subseteq its.backup[e]
    BY <1>1 DEF IInv, MapInv
  <1>4. CASE /\ its' = [its EXCEPT !.save = virgin_bits, !.phase = "combine"]
             /\ virgin_bits' = its.backup
    <2>1. its' \in Its /\ its'.phase = "combine" /\ its'.save = virgin_bits /\ its.backup \in Maps
      BY <1>2, <1>4 DEF Its
    <2>2. \A e \in Edges : Restored(e)' = Restored(e)
      BY <1>1, <1>3, <1>4, <2>1 DEF Restored
    <2>3. its'.phase # "on"
      BY <2>1
    <2> QED
      BY <1>1, <1>4, <2>1, <2>2, <2>3, ItsMoves
  <1>5. CASE its' = NoIts /\ virgin_bits' = virgin_bits
    <2>1. its' \in Its /\ its'.phase = "off"
      BY <1>5, Records DEF NoIts
    <2>2. \A e \in Edges : Restored(e)' = Restored(e)
      BY <1>1, <1>5, <2>1 DEF Restored
    <2>3. its'.phase # "on"
      BY <2>1
    <2> QED
      BY <1>1, <1>2, <1>5, <2>1, <2>2, <2>3, ItsMoves
  <1> QED
    BY <1>1, <1>4, <1>5

\* ItsCombined: what the stage found is taken off again.
LEMMA ItsCombinedStep ==
  ASSUME IInv, ItsCombined
  PROVE  IInv'
  <1>1. /\ pc = "fuzz" /\ its.phase = "last"
        /\ virgin_bits' = Combine(virgin_bits, its.save) /\ its' = NoIts
        /\ ItsApart
    BY DEF ItsCombined, history, ItsApart
  <1>2. virgin_bits \in Maps /\ its \in Its
    BY Types DEF IInv
  <1>3. virgin_bits' \in Maps /\ \A e \in Edges : virgin_bits'[e] = virgin_bits[e] \cap its.save[e]
    BY <1>1, <1>2 DEF Combine, Maps
  <1>4. its' \in Its /\ its'.phase = "off"
    BY <1>1, Records DEF NoIts
  <1>5. \A e \in Edges : Restored(e)' = Restored(e)
    BY <1>1, <1>3, <1>4 DEF Restored
  <1>6. its'.phase # "on"
    BY <1>4
  <1> QED
    BY <1>1, <1>3, <1>4, <1>5, <1>6, ItsMoves

-----------------------------------------------------------------------------
(* The results.                                                            *)

\* Every step keeps the invariant.
LEMMA Inductive == IInv /\ [Next]_vars => IInv'
  <1> SUFFICES ASSUME IInv, [Next]_vars PROVE IInv'
    OBVIOUS
  <1>1. ASSUME NEW t \in Traces, CalRun(t) PROVE IInv'
    BY <1>1, CalRunStep
  <1>2. ASSUME NEW f \in Faults, NEW t \in Traces, CalAbort(f, t) \/ Rerun(f, t) PROVE IInv'
    BY <1>2, CalAbortStep, RerunStep
  <1>3. CASE Dry \/ Dried \/ DryDone \/ CalDone
    BY <1>3, DryStep, DriedStep, DryDoneStep, CalDoneStep, SMT
  <1>4. CASE JudgeFault \/ JudgeOrdinary \/ SaveToQueue \/ NoFault \/ Timeout \/ KeepCrashCase
    BY <1>4, JudgeFaultStep, JudgeOrdinaryStep, SaveToQueueStep, NoFaultStep, TimeoutStep, KeepCrashStep
  <1>5. ASSUME NEW f \in Faults, NEW t \in Traces, Execute(f, t) PROVE IInv'
    BY <1>5, ExecuteStep
  <1>6. ASSUME NEW i \in DOMAIN queue, Recalibrate(i) PROVE IInv'
    BY <1>6, RecalibrateStep
  <1>7. CASE Discard \/ ItsBegin \/ ItsEnd \/ ItsCombined
    BY <1>7, DiscardStep, ItsBeginStep, ItsEndStep, ItsCombinedStep
  <1>8. CASE UNCHANGED vars
    <2>1. UNCHANGED <<opt, virgin_bits, virgin_tmout, virgin_crash, var_bytes, trace_bits, queue,
                      saved_hangs, saved_crashes, fed, pc, case, cal, its, shown, crash_seen,
                      crash_kept, hang_seen, hang_kept>>
      BY <1>8 DEF vars, history
    <2>2. Shape' /\ TraceInv'
      <3>1. Shape /\ TraceInv
        BY DEF IInv
      <3>2. Shape'
        BY <2>1, <3>1, Types, MakeShape
      <3>3. TraceInv'
        BY <2>1, <3>1 DEF TraceInv
      <3> QED
        BY <3>2, <3>3
    <2>3. EntryInv'
      BY <2>1 DEF IInv, EntryInv, Drying
    <2>4. MapInv'
      BY <2>1 DEF IInv, MapInv, Restored, Pending, ChecksumsShown
    <2>5. FaultInv'
      BY <2>1 DEF IInv, FaultInv, Lost, CrashAtHand, HangAtHand
    <2> QED
      BY <2>2, <2>3, <2>4, <2>5 DEF IInv
  <1> QED
    BY <1>1, <1>2, <1>3, <1>4, <1>5, <1>6, <1>7, <1>8 DEF Next, Step, Exited

\* Hence it holds at all times.
LEMMA Invariance == Spec => []IInv
  BY InitIInv, Inductive, PTL DEF Spec

\* Between two executions the virgin map has lost exactly what runs of queued
\* inputs have shown, and all of an edge that varies: has_new_bits,
\* calibrate_case and the CmpLog stage neither lose coverage nor invent it.
THEOREM CoverageIsExact == Spec => []SeenIsShown
  <1>1. IInv => SeenIsShown
    <2> SUFFICES ASSUME IInv PROVE SeenIsShown
      OBVIOUS
    <2>1. TypeOK /\ MapInv
      BY DEF IInv, Shape
    <2>2. ASSUME pc = "fuzz", its.phase \in {"off", "on"}, NEW e \in Edges
          PROVE  virgin_bits[e] = {b \in Bits : e \notin var_bytes /\ <<e, b>> \notin shown}
      <3>1. Restored(e) = virgin_bits[e] /\ shown \cup Pending = shown
        BY <2>2 DEF Restored, Pending
      <3> QED
        BY <2>1, <3>1 DEF MapInv
    <2> QED
      BY <2>1, <2>2 DEF SeenIsShown
  <1> QED
    BY <1>1, Invariance, PTL

\* Everything a crash or a hang has shown while there was room for one more is
\* shown by a saved one: may_save_fault drops only what shows nothing new.
THEOREM NewFaultsKept == Spec => []FaultsKept
  <1>1. IInv => FaultsKept
    <2> SUFFICES ASSUME IInv, pc = "fuzz"
                 PROVE  crash_seen \subseteq crash_kept /\ hang_seen \subseteq hang_kept
      BY DEF FaultsKept
    <2>1. CrashAtHand = {} /\ HangAtHand = {}
      BY DEF CrashAtHand, HangAtHand
    <2> QED
      BY <2>1 DEF IInv, FaultInv
  <1> QED
    BY <1>1, Invariance, PTL

\* The trace of every calibrated entry is the trace of an enabled one:
\* perform_dry_run drops duplicates of a seed, never the last of them.
THEOREM EveryTraceRepresented == Spec => []TracesRepresented
  <1>1. IInv => TracesRepresented
    <2> SUFFICES ASSUME IInv, pc = "fuzz", NEW i \in DOMAIN queue, queue[i].cal_failed = 0
                 PROVE  \E j \in DOMAIN queue :
                          ~queue[j].disabled /\ queue[j].exec_cksum = queue[i].exec_cksum
      BY DEF TracesRepresented
    <2>1. ~Drying /\ pc # "exit"
      BY DEF Drying
    <2>2. CASE queue[i].disabled
      BY <2>1, <2>2 DEF IInv, EntryInv
    <2>3. CASE ~queue[i].disabled
      BY <2>3
    <2> QED
      BY <2>2, <2>3
  <1> QED
    BY <1>1, Invariance, PTL
=============================================================================
