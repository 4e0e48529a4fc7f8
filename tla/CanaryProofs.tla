--------------------------- MODULE CanaryProofs ---------------------------
(***************************************************************************)
(* Proofs about Canary, for any number of bugs and records: type           *)
(* correctness, and the safety properties of the exchange through the      *)
(* shared file.  The inductive invariant says, for each place where a      *)
(* snapshot can be (the producer buffer, the consumer buffer, the          *)
(* monitor's copy, the poll files), when it may be trusted and which       *)
(* other places it is below.                                               *)
(***************************************************************************)
EXTENDS Canary, FiniteSetTheorems, TLAPS

\* Most steps are first-order; those that need arithmetic or records cite SMT.
USE Zenon

---------------------------------------------------------------------------
\* The inductive invariant.

(* Names are distinct and the used records come first. *)
WellFormed(buf) ==
  /\ \A r, s \in Slots : r # s /\ buf[r].name # NoBug =>
                           buf[r].name # buf[s].name
  /\ \A r, s \in Slots : r < s /\ buf[r].name = NoBug => buf[s].name = NoBug

(* No visible record was triggered more often than reached. *)
Sound(buf) ==
  \A s \in Slots : buf[s].name # NoBug => buf[s].triggered <= buf[s].reached

(* Until the file is set up there is nothing to lose. *)
SetupInv ==
  /\ file # "sized" \/ mpc \in {"truncate", "memset"} =>
       DOMAIN polls = {} /\ ~consumed
  /\ mpc # "poll" => file # "absent"
  /\ mpc \in {"fetch", "ack", "mv"} => file = "sized"

(* The target copies only while it owns the consumer buffer. *)
CopyInv ==
  /\ pc \in {"copy", "publish"} => consumed
  /\ pc = "copy" => \A s \in 1..(i - 1) : consumer_buffer[s] = producer_buffer[s]
  /\ pc = "publish" => consumer_buffer = producer_buffer
  /\ pc = "get" => call.bug \in Bugs
  /\ pc \notin {"copy", "publish"} => i = 1

(* The monitor copies only while it owns the consumer buffer. *)
FetchInv ==
  /\ mpc \in {"fetch", "ack"} => ~consumed
  /\ mpc = "fetch" => \A s \in 1..(mi - 1) : data[s] = consumer_buffer[s]
  /\ mpc = "ack" => data = consumer_buffer
  /\ mpc \notin {"fetch", "ack", "mv"} => mi = 1

(* Every poll file is the used prefix of a buffer. *)
PrefixInv ==
  \A t \in DOMAIN polls : \A s \in Slots :
    /\ polls[t][s].name # NoBug => \A r \in 1..s : polls[t][r].name # NoBug
    /\ polls[t][s].name = NoBug => polls[t][s] = Unused

(* Poll files <= the monitor's copy <= consumer buffer <= producer buffer, *)
(* each where it is to be trusted.                                         *)
ChainInv ==
  /\ \A t \in DOMAIN polls : Leq(polls[t], producer_buffer)
  /\ ~consumed => /\ Leq(consumer_buffer, producer_buffer)
                  /\ \A t \in DOMAIN polls : Leq(polls[t], consumer_buffer)
  /\ mpc = "mv" => /\ Leq(data, producer_buffer)
                   /\ ~consumed => Leq(data, consumer_buffer)
                   /\ \A t \in DOMAIN polls : Leq(polls[t], data)

(* The counts of one record, and the window between its two additions. *)
SoundInv ==
  /\ Sound(producer_buffer)
  /\ pc = "triggered" /\ ~magma_faulty /\ producer_buffer[cur].name # NoBug =>
       producer_buffer[cur].triggered < producer_buffer[cur].reached
  /\ ~consumed => Sound(consumer_buffer)
  /\ mpc = "mv" => Sound(data)
  /\ \A t \in DOMAIN polls : Sound(polls[t])

(* The clock is past every poll file, until it stops at its bound. *)
ClockInv ==
  /\ counter \in 1..(MaxPolls + 1)
  /\ counter <= MaxPolls => DOMAIN polls \subseteq 1..(counter - 1)

IInv ==
  /\ TypeOK
  /\ WellFormed(producer_buffer)
  /\ SetupInv /\ CopyInv /\ FetchInv
  /\ PrefixInv /\ ChainInv /\ PollsMonotone
  /\ SoundInv
  /\ ClockInv

---------------------------------------------------------------------------
\* Lemmas about the operators.

(* Leq is reflexive (it compares the records of snapshots). *)
LEMMA LeqReflexive ==
  ASSUME NEW a \in data_t
  PROVE  Leq(a, a)
BY SMT DEF Leq, data_t, canary_t

(* Leq is transitive: snapshots passed on from buffer to buffer.           *)
LEMMA LeqTransitive ==
  ASSUME NEW a \in data_t, NEW b \in data_t, NEW c \in data_t,
         Leq(a, b), Leq(b, c)
  PROVE  Leq(a, c)
BY SMT DEF Leq, data_t, canary_t

(* The dump of a buffer keeps its order with everything above it.          *)
LEMMA DumpBelow ==
  ASSUME NEW a \in data_t, NEW b \in data_t, Leq(a, b)
  PROVE  stor_forall(a) \in data_t /\ Leq(stor_forall(a), b)
BY DEF Leq, stor_forall, data_t, canary_t, Unused, Slots

(* A prefix that is below a buffer is below its dump.                      *)
LEMMA DumpAbove ==
  ASSUME NEW a \in data_t, NEW b \in data_t, Leq(a, b),
         \A s \in Slots : a[s].name # NoBug =>
           \A r \in 1..s : a[r].name # NoBug
  PROVE  Leq(a, stor_forall(b))
<1> USE BufferAssumption
<1> SUFFICES ASSUME NEW s \in Slots, a[s].name # NoBug
             PROVE  stor_forall(b)[s] = b[s]
  BY DEF Leq
<1>1. \A r \in 1..s : r \in Slots /\ a[r].name # NoBug
  BY SMT DEF Slots
<1>2. \A r \in 1..s : b[r].name # NoBug
  BY <1>1 DEF Leq
<1> QED
  BY <1>2 DEF stor_forall

---------------------------------------------------------------------------
\* The invariant holds initially and is kept by every step.

(* The files and processes of a new campaign satisfy the invariant.        *)
LEMMA InitIInv == Init => IInv
<1> SUFFICES ASSUME Init PROVE IInv
  OBVIOUS
<1> USE BufferAssumption
<1>1. Zeroed \in data_t
  BY DEF Zeroed, data_t, canary_t, Unused
<1>4. DOMAIN polls = {} /\ polls \in [{} -> data_t]
  BY DEF Init
<1>5. polls \in [DOMAIN polls -> data_t] /\ DOMAIN polls \subseteq 1..counter
  BY <1>4
<1>6. 1 \in Slots
  BY SMT DEF Slots
<1>7. NoCall \in [bug : Bugs \cup {NoBug}, condition : BOOLEAN]
  BY DEF NoCall
<1>2. TypeOK /\ DOMAIN polls = {}
  BY ZenonT(60), <1>1, <1>4, <1>5, <1>6, <1>7 DEF Init, TypeOK
<1>3. Leq(Zeroed, Zeroed)
  BY <1>1, LeqReflexive
<1> QED
  BY <1>2, <1>3, SMT DEF Init, IInv, WellFormed, Zeroed, Unused, SetupInv, CopyInv,
     FetchInv, PrefixInv, ChainInv, PollsMonotone, SoundInv, Sound, ClockInv

(* A producer buffer that has only grown keeps its place in the chain.     *)
LEMMA ProducerGrows ==
  ASSUME IInv, producer_buffer' \in data_t, Leq(producer_buffer, producer_buffer'),
         UNCHANGED <<file, consumed, consumer_buffer, monitor>>
  PROVE  SetupInv' /\ FetchInv' /\ PrefixInv' /\ ChainInv' /\ PollsMonotone'
         /\ ClockInv'
<1>1. SetupInv' /\ FetchInv' /\ PrefixInv' /\ PollsMonotone' /\ ClockInv'
  BY SMT DEF IInv, monitor, SetupInv, FetchInv, PrefixInv, PollsMonotone,
         ClockInv, Leq
<1>2. \A t \in DOMAIN polls : Leq(polls[t], producer_buffer')
  BY LeqTransitive DEF IInv, TypeOK, ChainInv
<1>3. ~consumed => Leq(consumer_buffer, producer_buffer')
  BY LeqTransitive DEF IInv, TypeOK, ChainInv
<1>4. mpc = "mv" => Leq(data, producer_buffer')
  <2>1. data \in data_t /\ producer_buffer \in data_t
    BY DEF IInv, TypeOK
  <2> QED
    BY <2>1, LeqTransitive DEF IInv, ChainInv
<1>5. ChainInv'
  BY <1>2, <1>3, <1>4, SMT DEF IInv, ChainInv, monitor, Leq
<1> QED
  BY <1>1, <1>5

(* The conjuncts that speak only of the files and of the monitor are kept  *)
(* by the steps of a target that touch neither.                            *)
LEMMA FilesKept ==
  ASSUME IInv, UNCHANGED <<shared, monitor>>
  PROVE  /\ WellFormed(producer_buffer)' /\ SetupInv' /\ FetchInv'
         /\ PrefixInv' /\ ChainInv' /\ PollsMonotone' /\ ClockInv'
         /\ Sound(producer_buffer)' /\ (~consumed => Sound(consumer_buffer))'
         /\ (mpc = "mv" => Sound(data))'
         /\ (\A t \in DOMAIN polls : Sound(polls[t]))'
<1>1. UNCHANGED <<file, consumed, producer_buffer, consumer_buffer, mpc, mi, data, counter, polls>>
  BY DEF shared, monitor
<1>2. WellFormed(producer_buffer)' /\ SetupInv' /\ FetchInv' /\ ClockInv'
  BY <1>1 DEF IInv, WellFormed, SetupInv, FetchInv, ClockInv
<1>3. PrefixInv' /\ ChainInv' /\ PollsMonotone'
  BY <1>1, SMT DEF IInv, PrefixInv, ChainInv, PollsMonotone, Leq
<1>4. /\ Sound(producer_buffer)' /\ (~consumed => Sound(consumer_buffer))'
      /\ (mpc = "mv" => Sound(data))'
      /\ (\A t \in DOMAIN polls : Sound(polls[t]))'
  BY <1>1 DEF IInv, SoundInv, Sound
<1> QED
  BY <1>2, <1>3, <1>4

(* What is said of the counts and the poll files alone stays true while    *)
(* they stand.                                                             *)
LEMMA PollsStand ==
  ASSUME IInv, UNCHANGED <<producer_buffer, polls>>
  PROVE  WellFormed(producer_buffer)' /\ PrefixInv' /\ PollsMonotone'
<1>1. WellFormed(producer_buffer)'
  BY DEF IInv, WellFormed
<1>2. PrefixInv'
  BY DEF IInv, PrefixInv
<1>3. PollsMonotone'
  BY SMT DEF IInv, PollsMonotone, Leq
<1> QED
  BY <1>1, <1>2, <1>3

(* So does the chain while both buffers and the flag stand too and the     *)
(* monitor is not about to write.                                          *)
LEMMA ChainStands ==
  ASSUME IInv, UNCHANGED <<consumed, producer_buffer, consumer_buffer, polls>>,
         mpc' # "mv"
  PROVE  ChainInv'
<1>1. (\A t \in DOMAIN polls : Leq(polls[t], producer_buffer))'
  BY DEF IInv, ChainInv, Leq
<1>2. (~consumed => Leq(consumer_buffer, producer_buffer))'
  BY DEF IInv, ChainInv, Leq
<1>3. (~consumed => \A t \in DOMAIN polls : Leq(polls[t], consumer_buffer))'
  BY SMT DEF IInv, ChainInv, Leq
<1> QED
  BY <1>1, <1>2, <1>3 DEF ChainInv

(* The process dies, or leaves magma_log. *)
LEMMA DieTyped ==
  ASSUME IInv, Die
  PROVE  /\ pc' = "dead" /\ mapped' = "no" /\ magma_faulty' = FALSE
         /\ call' \in [bug : Bugs \cup {NoBug}, condition : BOOLEAN]
         /\ cur' \in Slots /\ i' \in Slots /\ i' = 1
BY BufferAssumption, SMT DEF Die, Return, NoCall, Slots

(* The end of magma_log, fatal or not, leaves the locals in their types.   *)
LEMMA FatalTyped ==
  ASSUME IInv, NEW condition \in BOOLEAN, NEW faulty \in BOOLEAN,
         Fatal(condition, faulty)
  PROVE  /\ pc' \in {"dead", "run"} /\ mapped' \in {"no", "mapped", "disabled"}
         /\ magma_faulty' \in BOOLEAN
         /\ call' \in [bug : Bugs \cup {NoBug}, condition : BOOLEAN]
         /\ cur' \in Slots /\ i' \in Slots /\ i' = 1
<1>1. CASE FATAL /\ condition
  BY <1>1, DieTyped DEF Fatal
<1>2. CASE ~(FATAL /\ condition)
  <2>1. 1 \in Slots
    BY BufferAssumption, SMT DEF Slots
  <2>2. NoCall \in [bug : Bugs \cup {NoBug}, condition : BOOLEAN]
    BY DEF NoCall
  <2> QED
    BY <1>2, <2>1, <2>2 DEF Fatal, Return, IInv, TypeOK
<1> QED
  BY <1>1, <1>2

(* The copy to the consumer buffer, by the side that owns it.              *)
LEMMA CopyKeeps ==
  ASSUME IInv, Copy
  PROVE  IInv'
<1> USE BufferAssumption
<1>1. /\ pc = "copy" /\ consumed /\ i \in Slots
      /\ producer_buffer \in data_t /\ consumer_buffer \in data_t
      /\ UNCHANGED <<file, consumed, producer_buffer, mapped, magma_faulty,
                     call, cur, monitor>>
      /\ consumer_buffer' = [consumer_buffer EXCEPT ![i] = producer_buffer[i]]
  BY DEF IInv, TypeOK, CopyInv, Copy
<1>2. /\ consumer_buffer' \in data_t
      /\ \A s \in Slots \ {i} : consumer_buffer'[s] = consumer_buffer[s]
      /\ consumer_buffer'[i] = producer_buffer[i]
  BY <1>1, SMTT(60) DEF data_t
<1>3. \A s \in 1..i : consumer_buffer'[s] = producer_buffer[s]
  BY <1>1, <1>2, SMT DEF IInv, CopyInv, Slots
<1>4. CASE i = BUFFERLEN
  <2>1. pc' = "publish" /\ i' = i
    BY <1>4 DEF Copy
  <2>2. consumer_buffer' = producer_buffer
    <3>1. \A s \in Slots : consumer_buffer'[s] = producer_buffer[s]
      BY <1>3, <1>4 DEF Slots
    <3> QED
      BY <1>1, <1>2, <3>1, SMTT(60) DEF data_t
  <2>3. TypeOK' /\ CopyInv'
    BY <1>1, <1>2, <2>1, <2>2, SMTT(60) DEF IInv, TypeOK, CopyInv, monitor
  <2> QED
    BY <1>1, <2>1, <2>3, SMT DEF IInv, WellFormed, SetupInv, FetchInv, PrefixInv,
       ChainInv, PollsMonotone, SoundInv, Sound, ClockInv, Leq, monitor
<1>5. CASE i # BUFFERLEN
  <2>1. pc' = "copy" /\ i' = i + 1
    BY <1>1, <1>5 DEF Copy
  <2>2. i' \in Slots /\ i' - 1 = i
    BY <1>1, <1>5, <2>1, SMT DEF Slots
  <2>3. TypeOK' /\ CopyInv'
    BY <1>1, <1>2, <1>3, <2>1, <2>2, SMT DEF IInv, TypeOK, CopyInv, monitor
  <2> QED
    BY <1>1, <2>1, <2>3, SMT DEF IInv, WellFormed, SetupInv, FetchInv, PrefixInv,
       ChainInv, PollsMonotone, SoundInv, Sound, ClockInv, Leq, monitor
<1> QED
  BY <1>4, <1>5

(* The dump becomes a poll file: above the earlier ones, and below the     *)
(* buffers.                                                                *)
LEMMA MvKeeps ==
  ASSUME IInv, Mv
  PROVE  IInv'
<1> USE BufferAssumption
<1> DEFINE dump == stor_forall(data)
<1>1. /\ mpc = "mv" /\ mpc' = "poll" /\ mi' = 1 /\ data' = Zeroed
      /\ UNCHANGED <<shared, target>>
      /\ data \in data_t /\ producer_buffer \in data_t /\ consumer_buffer \in data_t
      /\ counter \in 1..(MaxPolls + 1)
      /\ file = "sized"
  BY DEF IInv, TypeOK, ClockInv, SetupInv, Mv
<1>2. /\ DOMAIN polls' = DOMAIN polls \cup {counter}
      /\ polls'[counter] = dump
      /\ \A t \in DOMAIN polls \ {counter} : polls'[t] = polls[t]
  BY DEF Mv
<1>3. /\ dump \in data_t /\ Leq(dump, producer_buffer)
      /\ ~consumed => Leq(dump, consumer_buffer)
  BY <1>1, DumpBelow DEF IInv, ChainInv
<1>4. \A t \in DOMAIN polls : Leq(polls[t], dump)
  <2> SUFFICES ASSUME NEW t \in DOMAIN polls
               PROVE  Leq(polls[t], dump)
    OBVIOUS
  <2>1. polls[t] \in data_t /\ Leq(polls[t], data)
    BY <1>1 DEF IInv, TypeOK, ChainInv
  <2>2. \A s \in Slots : polls[t][s].name # NoBug =>
          \A r \in 1..s : polls[t][r].name # NoBug
    BY DEF IInv, PrefixInv
  <2> QED
    BY <1>1, <2>1, <2>2, DumpAbove
<1>5. \A s \in Slots :
        /\ dump[s].name # NoBug => \A r \in 1..s : dump[r].name # NoBug
        /\ dump[s].name = NoBug => dump[s] = Unused
        /\ dump[s].name # NoBug => dump[s] = data[s]
  <2> SUFFICES ASSUME NEW s \in Slots
               PROVE  /\ dump[s].name # NoBug => \A r \in 1..s : dump[r].name # NoBug
                      /\ dump[s].name = NoBug => dump[s] = Unused
                      /\ dump[s].name # NoBug => dump[s] = data[s]
    OBVIOUS
  <2>1. dump[s] = IF \A r \in 1..s : data[r].name # NoBug THEN data[s] ELSE Unused
    BY DEF stor_forall
  <2>2. CASE \A r \in 1..s : data[r].name # NoBug
    <3>1. \A r \in 1..s : dump[r] = data[r]
      BY <2>2, SMT DEF stor_forall, Slots
    <3> QED
      BY <2>2, <3>1, <2>1, SMT DEF Slots
  <2>3. CASE ~ \A r \in 1..s : data[r].name # NoBug
    BY <2>1, <2>3, SMT DEF Unused
  <2> QED
    BY <2>2, <2>3
<1>6. Sound(dump)
  BY <1>1, <1>5 DEF IInv, SoundInv, Sound
<1>14. Zeroed \in data_t /\ 1 \in Slots
  BY SMT DEF Zeroed, data_t, canary_t, Unused, Slots
<1> HIDE DEF dump
<1>7. /\ counter' \in 1..(MaxPolls + 1) /\ counter <= counter'
      /\ counter' <= MaxPolls => counter' = counter + 1 /\ counter <= MaxPolls
  BY <1>1, SMT DEF Mv, Tick
<1>8. /\ DOMAIN polls' \subseteq 1..counter'
      /\ counter' <= MaxPolls => DOMAIN polls' \subseteq 1..(counter' - 1)
  <2>1. DOMAIN polls \subseteq 1..counter
    BY DEF IInv, TypeOK
  <2> QED
    BY <1>1, <1>2, <1>7, <2>1, SMT
<1>9. polls' \in [DOMAIN polls' -> data_t]
  <2>1. polls' = [t \in DOMAIN polls' |-> polls'[t]]
    BY DEF Mv
  <2>2. \A t \in DOMAIN polls' : polls'[t] \in data_t
    BY <1>2, <1>3 DEF IInv, TypeOK
  <2> QED
    BY <2>1, <2>2
<1>10. TypeOK'
  <2>1. counter' \in Nat
    BY <1>7, SMT
  <2> QED
    BY <1>1, <1>8, <1>9, <1>14, <2>1 DEF IInv, TypeOK, shared, target
<1>11. PollsMonotone'
  <2> SUFFICES ASSUME NEW t \in DOMAIN polls', NEW u \in DOMAIN polls', t < u
               PROVE  Leq(polls'[t], polls'[u])
    BY DEF PollsMonotone, Leq
  <2>1. DOMAIN polls \subseteq 1..counter
    BY DEF IInv, TypeOK
  <2>2. t # counter /\ t \in DOMAIN polls
    BY <1>1, <1>2, <2>1, SMT
  <2>3. CASE u = counter
    BY <1>2, <1>4, <2>2, <2>3
  <2>4. CASE u # counter
    BY <1>2, <2>2, <2>4, SMT DEF IInv, PollsMonotone
  <2> QED
    BY <2>3, <2>4
<1>12. PrefixInv' /\ SoundInv' /\ ChainInv'
  <2>1. PrefixInv'
    BY <1>2, <1>5, SMT DEF IInv, PrefixInv
  <2>2. SoundInv'
    BY <1>1, <1>2, <1>6 DEF IInv, SoundInv, Sound, shared, target
  <2>3. ChainInv'
    <3>1. mpc' # "mv" /\ UNCHANGED <<consumed, producer_buffer, consumer_buffer>>
      BY <1>1 DEF shared
    <3>2. \A t \in DOMAIN polls' :
            /\ Leq(polls'[t], producer_buffer)
            /\ ~consumed => Leq(polls'[t], consumer_buffer)
      BY <1>2, <1>3 DEF IInv, ChainInv
    <3>3. ~consumed => Leq(consumer_buffer, producer_buffer)
      BY DEF IInv, ChainInv
    <3> QED
      BY <3>1, <3>2, <3>3 DEF ChainInv, Leq
  <2> QED
    BY <2>1, <2>2, <2>3
<1>13. WellFormed(producer_buffer)' /\ SetupInv' /\ CopyInv' /\ FetchInv' /\ ClockInv'
  BY <1>1, <1>7, <1>8
  DEF IInv, WellFormed, SetupInv, CopyInv, FetchInv, ClockInv, shared, target
<1> QED
  BY <1>10, <1>11, <1>12, <1>13 DEF IInv

(* Publishing: the consumer buffer joins the chain, equal to the producer. *)
LEMMA PublishKeeps ==
  ASSUME IInv, Publish
  PROVE  IInv'
<1>1. /\ consumed /\ ~consumed' /\ consumer_buffer = producer_buffer
      /\ producer_buffer \in data_t
      /\ UNCHANGED <<file, producer_buffer, consumer_buffer, monitor>>
  BY DEF IInv, TypeOK, CopyInv, Publish
<1>2. /\ pc' \in {"dead", "run"} /\ mapped' \in {"no", "mapped", "disabled"}
      /\ magma_faulty' \in BOOLEAN
      /\ call' \in [bug : Bugs \cup {NoBug}, condition : BOOLEAN]
      /\ cur' \in Slots /\ i' \in Slots /\ i' = 1
  <2>1. call.condition \in BOOLEAN /\ (magma_faulty \/ call.condition) \in BOOLEAN
    BY DEF IInv, TypeOK
  <2> QED
    BY <2>1, FatalTyped DEF Publish, Finish
<1>3. TypeOK' /\ CopyInv'
  <2>1. consumed' \in BOOLEAN
    BY ZenonT(60) DEF Publish
  <2> QED
    BY <1>1, <1>2, <2>1 DEF IInv, TypeOK, CopyInv, monitor
<1>4. Leq(producer_buffer, producer_buffer)
  BY <1>1, LeqReflexive
<1>5. ChainInv'
  BY <1>1, <1>4, SMT DEF IInv, ChainInv, monitor, Leq
<1>6. SoundInv'
  BY ZenonT(60), <1>1, <1>2 DEF IInv, SoundInv, Sound, monitor
<1>7. SetupInv' /\ FetchInv' /\ ClockInv'
  BY <1>1 DEF IInv, SetupInv, FetchInv, ClockInv, monitor
<1>8. WellFormed(producer_buffer)' /\ PrefixInv' /\ PollsMonotone'
  BY <1>1, PollsStand DEF monitor
<1> QED
  BY <1>3, <1>5, <1>6, <1>7, <1>8 DEF IInv

(* The monitor hands the buffer back with its copy complete.               *)
LEMMA AckKeeps ==
  ASSUME IInv, Ack
  PROVE  IInv'
<1>1. /\ mpc = "ack" /\ mpc' = "mv" /\ ~consumed /\ consumed' /\ data = consumer_buffer
      /\ UNCHANGED <<file, producer_buffer, consumer_buffer, target, mi, data,
                     counter, polls>>
      /\ consumed' \in BOOLEAN
  BY DEF IInv, FetchInv, Ack
<1>2. TypeOK'
  BY <1>1 DEF IInv, TypeOK, target
<1>3. SetupInv' /\ CopyInv' /\ FetchInv'
  BY <1>1 DEF IInv, SetupInv, CopyInv, FetchInv, target
<1>4. ChainInv'
  BY <1>1, SMT DEF IInv, ChainInv, Leq
<1>5. SoundInv'
  BY <1>1 DEF IInv, SoundInv, Sound, target
<1>6. ClockInv'
  BY <1>1 DEF IInv, ClockInv
<1>7. WellFormed(producer_buffer)' /\ PrefixInv' /\ PollsMonotone'
  BY <1>1, PollsStand
<1> QED
  BY <1>2, <1>3, <1>4, <1>5, <1>6, <1>7 DEF IInv

(* The monitor's copy, record by record, of a buffer that stands still.    *)
LEMMA FetchKeeps ==
  ASSUME IInv, Fetch
  PROVE  IInv'
<1> USE BufferAssumption
<1>1. /\ mpc = "fetch" /\ ~consumed /\ mi \in Slots
      /\ data \in data_t /\ consumer_buffer \in data_t
      /\ UNCHANGED <<shared, target, counter, polls>>
      /\ data' = [data EXCEPT ![mi] = consumer_buffer[mi]]
  BY DEF IInv, TypeOK, FetchInv, Fetch
<1>2. /\ data' \in data_t
      /\ \A s \in Slots \ {mi} : data'[s] = data[s]
      /\ data'[mi] = consumer_buffer[mi]
  BY <1>1 DEF data_t
<1>3. \A s \in 1..mi : data'[s] = consumer_buffer[s]
  BY <1>1, <1>2, SMT DEF IInv, FetchInv, Slots
<1>4. /\ mpc' \in {"fetch", "ack"} /\ mi' \in Slots
      /\ mpc' = "fetch" => mi' - 1 = mi
      /\ mpc' = "ack" => data' = consumer_buffer
  <2>1. CASE mi = BUFFERLEN
    <3>1. mpc' = "ack" /\ mi' = mi
      BY <2>1 DEF Fetch
    <3>2. data' = consumer_buffer
      BY <1>1, <1>2, <1>3, <2>1 DEF data_t, Slots
    <3> QED
      BY <1>1, <3>1, <3>2
  <2>2. CASE mi # BUFFERLEN
    BY <1>1, <2>2, SMT DEF Fetch, Slots
  <2> QED
    BY <2>1, <2>2
<1>5. TypeOK'
  BY <1>1, <1>2, <1>4, SMT DEF IInv, TypeOK, shared, target
<1>6. FetchInv'
  BY <1>1, <1>3, <1>4 DEF FetchInv, shared
<1>7. SetupInv' /\ CopyInv' /\ ClockInv'
  BY <1>1, <1>4 DEF IInv, SetupInv, CopyInv, ClockInv, shared, target
<1>8. SoundInv'
  BY <1>1, <1>4 DEF IInv, SoundInv, Sound, shared, target
<1>9. ChainInv'
  BY <1>1, <1>4, ChainStands DEF shared
<1>10. WellFormed(producer_buffer)' /\ PrefixInv' /\ PollsMonotone'
  BY <1>1, PollsStand DEF shared
<1> QED
  BY <1>5, <1>6, <1>7, <1>8, <1>9, <1>10 DEF IInv

(* A nonempty set of naturals has a least element.                         *)
LEMMA LeastNatural ==
  ASSUME NEW T \in SUBSET Nat, T # {}
  PROVE  \E x \in T : \A y \in T : x <= y
<1> DEFINE R == {ss \in Nat \X Nat : ss[1] < ss[2]}
<1>1. IsWellFoundedOn(R, Nat)
  BY NatLessThanWellFounded DEF OpToRel
<1> HIDE DEF R
<1>2. PICK x \in T : \A y \in T : ~(<<y, x>> \in R)
  BY <1>1, WFMin
<1>3. \A y \in Nat : y < x => <<y, x>> \in R
  BY DEF R
<1>4. \A y \in T : ~(y < x)
  BY <1>2, <1>3
<1> QED
  BY <1>4, SMT

(* A nonempty bounded set of naturals has a greatest element (the last     *)
(* poll file that run.sh resumes from).                                    *)
LEMMA GreatestNatural ==
  ASSUME NEW n \in Nat, NEW T \in SUBSET (0..n), T # {}
  PROVE  \E x \in T : \A y \in T : x >= y
<1> DEFINE U == {n - y : y \in T}
<1>1. U \subseteq Nat
  BY SMT
<1>2. U # {}
  OBVIOUS
<1> HIDE DEF U
<1>5. PICK u \in U : \A v \in U : u <= v
  BY <1>1, <1>2, LeastNatural
<1> USE DEF U
<1>3. PICK x \in T : u = n - x
  BY <1>5
<1>4. \A y \in T : n - x <= n - y
  BY <1>5, <1>3
<1> QED
  BY <1>4, SMT

(* stor_get finds a record: there are at most as many bugs as records, so  *)
(* a full buffer of distinct names has every bug.                          *)
LEMMA StorGet ==
  ASSUME NEW buf \in data_t, WellFormed(buf), NEW bug \in Bugs
  PROVE  /\ stor_get(buf, bug) \in Slots
         /\ buf[stor_get(buf, bug)].name \in {bug, NoBug}
         /\ \A r \in 1..(stor_get(buf, bug) - 1) :
              buf[r].name \notin {bug, NoBug}
<1> USE BufferAssumption
<1> DEFINE Hit == {s \in Slots : buf[s].name \in {bug, NoBug}}
<1>1. Hit # {}
  <2> SUFFICES ASSUME \A s \in Slots : buf[s].name \notin {bug, NoBug}
               PROVE  FALSE
    OBVIOUS
  <2> DEFINE f == [s \in Slots |-> buf[s].name]
  <2>1. f \in [Slots -> Bugs \ {bug}]
    BY DEF data_t, canary_t
  <2>2. IsFiniteSet(Bugs \ {bug}) /\ Cardinality(Bugs \ {bug}) = Cardinality(Bugs) - 1
    BY RoomAssumption, FS_RemoveElement
  <2>3. IsFiniteSet(Slots) /\ Cardinality(Slots) = BUFFERLEN
    BY FS_Interval, SMT DEF Slots
  <2>4. Cardinality(Bugs) \in Nat
    BY RoomAssumption, FS_CardinalityType
  <2>5. Cardinality(Bugs \ {bug}) < Cardinality(Slots)
    BY <2>2, <2>3, <2>4, RoomAssumption, SMT
  <2> HIDE DEF f
  <2>6. PICK x, y \in Slots : x # y /\ f[x] = f[y]
    BY <2>1, <2>2, <2>3, <2>5, FS_PigeonHole, SMT
  <2> QED
    BY <2>6 DEF f, WellFormed
<1>4. Hit \subseteq Nat
  BY SMT DEF Slots
<1> HIDE DEF Hit
<1>2. PICK s \in Hit : \A r \in Hit : s <= r
  BY <1>1, <1>4, LeastNatural
<1> USE DEF Hit
<1>3. \A r \in 1..(s - 1) : buf[r].name \notin {bug, NoBug}
  BY <1>2, SMT DEF Slots
<1> QED
  BY <1>2, <1>3 DEF stor_get

(* The steps of the target that leave the files alone.                     *)
LEMMA TargetKeeps ==
  ASSUME IInv,
         \/ Start \/ Kill \/ Log \/ magma_init \/ magma_init_fails
         \/ Disabled \/ Bus \/ Test \/ Skip
  PROVE  IInv'
<1>1. UNCHANGED <<shared, monitor>>
  BY DEF Start, Kill, Log, magma_log, magma_init, magma_init_fails,
         Disabled, Bus, Test, Skip
<1>2. /\ pc' \in {"dead", "run", "get", "copy"}
      /\ mapped' \in {"no", "mapped", "disabled"}
      /\ magma_faulty' \in BOOLEAN
      /\ call' \in [bug : Bugs \cup {NoBug}, condition : BOOLEAN]
      /\ cur' \in Slots /\ i' \in Slots /\ i' = 1
      /\ pc' = "copy" => consumed
      /\ pc' = "get" => call'.bug \in Bugs
  <2>1. CASE Start
    BY <2>1 DEF Start, IInv, TypeOK, CopyInv
  <2>2. CASE Kill \/ Bus
    BY ZenonT(60), <2>2, DieTyped DEF Kill, Bus
  <2>3. CASE Log
    BY <2>3, SMT DEF Log, magma_log, IInv, TypeOK, CopyInv
  <2>4. CASE magma_init \/ magma_init_fails
    BY <2>4 DEF magma_init, magma_init_fails, IInv, TypeOK, CopyInv
  <2>5. CASE Disabled \/ Skip
    <3>1. call.condition \in BOOLEAN /\ magma_faulty \in BOOLEAN
      BY DEF IInv, TypeOK
    <3> QED
      BY <2>5, <3>1, FatalTyped DEF Disabled, Skip, Finish
  <2>6. CASE Test
    BY <2>6 DEF Test, IInv, TypeOK, CopyInv
  <2> QED
    BY <2>1, <2>2, <2>3, <2>4, <2>5, <2>6
<1>3. TypeOK'
  BY <1>1, <1>2 DEF IInv, TypeOK, shared, monitor
<1>4. CopyInv'
  BY <1>1, <1>2, SMT DEF CopyInv, shared
<1>5. SoundInv'
  BY <1>1, <1>2, FilesKept DEF SoundInv
<1> QED
  BY <1>1, <1>3, <1>4, <1>5, FilesKept DEF IInv

(* stor_get returns its record. *)
LEMMA GetKeeps ==
  ASSUME IInv, Get
  PROVE  IInv'
<1> USE BufferAssumption
<1> DEFINE s == stor_get(producer_buffer, call.bug)
<1>1. /\ s \in Slots
      /\ producer_buffer[s].name \in {call.bug, NoBug}
      /\ \A r \in 1..(s - 1) : producer_buffer[r].name \notin {call.bug, NoBug}
      /\ call.bug \in Bugs
  <2>1. call.bug \in Bugs
    BY DEF IInv, CopyInv, Get
  <2>2. producer_buffer \in data_t /\ WellFormed(producer_buffer)
    BY DEF IInv, TypeOK
  <2> QED
    BY <2>1, <2>2, StorGet
<1>2. /\ cur' = s /\ pc' = "reached"
      /\ UNCHANGED <<file, consumed, consumer_buffer, mapped, magma_faulty, call,
                     i, monitor>>
      /\ producer_buffer' =
           IF producer_buffer[s].name = call.bug THEN producer_buffer
           ELSE [producer_buffer EXCEPT
                   ![s] = [Unused EXCEPT !.name = call.bug]]
  BY DEF Get
<1>5. producer_buffer \in [Slots -> canary_t]
  BY DEF IInv, TypeOK, data_t
<1> HIDE DEF s
<1>3. CASE producer_buffer[s].name = call.bug
  <2>1. producer_buffer' = producer_buffer
    BY <1>2, <1>3
  <2>2. UNCHANGED <<shared, monitor>>
    BY <1>2, <2>1 DEF shared
  <2>3. TypeOK'
    BY <1>1, <1>2, <2>1, SMT DEF IInv, TypeOK, monitor
  <2>4. CopyInv' /\ SoundInv'
    BY <1>2, <2>2, FilesKept DEF CopyInv, SoundInv, IInv, Get
  <2> QED
    BY <2>2, <2>3, <2>4, FilesKept DEF IInv
<1>4. CASE producer_buffer[s].name # call.bug
  <2> DEFINE new == [name |-> call.bug, reached |-> 0, triggered |-> 0]
  <2>0. [Unused EXCEPT !.name = call.bug] = new
    BY SMT DEF Unused
  <2>1. producer_buffer' = [producer_buffer EXCEPT ![s] = new]
    BY <1>2, <1>4, <2>0
  <2>2. producer_buffer[s].name = NoBug
    BY <1>1, <1>4
  <2>9. new \in canary_t /\ new.name = call.bug /\ new.name # NoBug
    BY <1>1 DEF canary_t
  <2> HIDE DEF new
  <2>3. producer_buffer' \in data_t
    BY ZenonT(60), <1>5, <2>1, <2>9 DEF data_t
  <2>4. /\ producer_buffer'[s] = new
        /\ \A r \in Slots : r # s => producer_buffer'[r] = producer_buffer[r]
    BY <1>1, <1>5, <2>1
  <2>5. TypeOK'
    BY <1>1, <1>2, <2>3 DEF IInv, TypeOK, monitor
  <2>6. Leq(producer_buffer, producer_buffer')
    BY <2>2, <2>4, <1>5, SMT DEF Leq, canary_t
  <2>7. WellFormed(producer_buffer)'
    <3>1. \A r \in Slots : r > s => producer_buffer[r].name = NoBug
      BY <1>1, <2>2 DEF IInv, WellFormed, Slots
    <3>2. \A r \in Slots : r < s => producer_buffer[r].name \notin {call.bug, NoBug}
      BY <1>1, SMT DEF Slots
    <3>3. \A r \in Slots : r # s => producer_buffer[r].name # call.bug
      BY <3>1, <3>2, <1>1, SMT DEF Slots
    <3> QED
      BY <1>1, <2>2, <2>4, <2>9, <3>1, <3>2, <3>3, SMT DEF IInv, WellFormed, Slots
  <2>8. CopyInv' /\ SoundInv'
    <3>1. Sound(producer_buffer)'
      BY <2>4, SMT DEF IInv, SoundInv, Sound, new
    <3> QED
      BY <1>2, <3>1, SMT DEF CopyInv, SoundInv, IInv, Get, Sound, monitor
  <2> QED
    BY <1>2, <2>3, <2>5, <2>6, <2>7, <2>8, ProducerGrows DEF IInv
<1> QED
  BY <1>3, <1>4

(* The two additions: one record grows, and keeps its name.               *)
LEMMA AddKeeps ==
  ASSUME IInv, NEW dr \in Nat, NEW dt \in Nat,
         producer_buffer' = [producer_buffer EXCEPT ![cur] =
           [name |-> @.name, reached |-> @.reached + dr,
            triggered |-> @.triggered + dt]],
         UNCHANGED <<file, consumed, consumer_buffer, monitor>>
  PROVE  /\ producer_buffer' \in data_t
         /\ \A r \in Slots \ {cur} : producer_buffer'[r] = producer_buffer[r]
         /\ producer_buffer'[cur].name = producer_buffer[cur].name
         /\ producer_buffer'[cur].reached = producer_buffer[cur].reached + dr
         /\ producer_buffer'[cur].triggered = producer_buffer[cur].triggered + dt
         /\ WellFormed(producer_buffer)' /\ SetupInv' /\ FetchInv' /\ PrefixInv'
         /\ ChainInv' /\ PollsMonotone' /\ ClockInv'
<1> DEFINE new == [name |-> producer_buffer[cur].name,
                   reached |-> producer_buffer[cur].reached + dr,
                   triggered |-> producer_buffer[cur].triggered + dt]
<1>1. cur \in Slots /\ producer_buffer \in [Slots -> canary_t]
  BY DEF IInv, TypeOK, data_t
<1>2. new \in canary_t
  BY <1>1, SMT DEF canary_t
<1>3. /\ producer_buffer' \in data_t
      /\ \A r \in Slots \ {cur} : producer_buffer'[r] = producer_buffer[r]
      /\ producer_buffer'[cur] = new
  BY <1>1, <1>2 DEF data_t
<1>4. Leq(producer_buffer, producer_buffer')
  BY <1>1, <1>3, SMT DEF Leq, canary_t
<1>5. WellFormed(producer_buffer)'
  <2>1. \A r \in Slots : producer_buffer'[r].name = producer_buffer[r].name
    BY <1>1, <1>3
  <2> QED
    BY <2>1, SMT DEF IInv, WellFormed
<1>6. SetupInv' /\ FetchInv' /\ PrefixInv' /\ ChainInv' /\ PollsMonotone' /\ ClockInv'
  BY <1>3, <1>4, ProducerGrows
<1> QED
  BY <1>3, <1>5, <1>6, SMT

(* The first addition opens the window in which reached is ahead.          *)
LEMMA ReachedKeeps ==
  ASSUME IInv, Reached
  PROVE  IInv'
<1> DEFINE d == Counted(TRUE)
<1>1. d \in Nat /\ (~magma_faulty => d = 1)
  BY DEF Counted
<1>2. /\ pc' = "triggered"
      /\ UNCHANGED <<file, consumed, consumer_buffer, mapped, magma_faulty, call,
                     cur, i, monitor>>
      /\ producer_buffer' = [producer_buffer EXCEPT ![cur] =
           [name |-> @.name, reached |-> @.reached + d,
            triggered |-> @.triggered + 0]]
  <2>1. cur \in Slots /\ producer_buffer \in [Slots -> canary_t]
    BY DEF IInv, TypeOK, data_t
  <2>2. producer_buffer[cur] \in canary_t
    BY <2>1
  <2> HIDE DEF d
  <2>3. [producer_buffer[cur] EXCEPT !.reached = @ + d]
          = [name |-> producer_buffer[cur].name,
             reached |-> producer_buffer[cur].reached + d,
             triggered |-> producer_buffer[cur].triggered + 0]
    BY <1>1, <2>2, SMT DEF canary_t
  <2> QED
    BY <2>1, <2>3 DEF Reached, d
<1> HIDE DEF d
<1>3. /\ producer_buffer' \in data_t
      /\ \A r \in Slots \ {cur} : producer_buffer'[r] = producer_buffer[r]
      /\ producer_buffer'[cur].name = producer_buffer[cur].name
      /\ producer_buffer'[cur].reached = producer_buffer[cur].reached + d
      /\ producer_buffer'[cur].triggered = producer_buffer[cur].triggered + 0
      /\ WellFormed(producer_buffer)' /\ SetupInv' /\ FetchInv' /\ PrefixInv'
      /\ ChainInv' /\ PollsMonotone' /\ ClockInv'
  BY ZenonT(60), <1>1, <1>2, AddKeeps
<1>4. TypeOK' /\ CopyInv'
  BY <1>2, <1>3, SMT DEF IInv, TypeOK, CopyInv, monitor, Reached
<1>5. SoundInv'
  <2>0. /\ cur \in Slots
        /\ \A r \in Slots : /\ producer_buffer[r].reached \in Nat
                            /\ producer_buffer[r].triggered \in Nat
    BY DEF IInv, TypeOK, data_t, canary_t
  <2>1. Sound(producer_buffer)'
    BY <1>1, <1>3, <2>0, SMT DEF IInv, SoundInv, Sound
  <2>2. ~magma_faulty /\ producer_buffer'[cur].name # NoBug =>
          producer_buffer'[cur].triggered < producer_buffer'[cur].reached
    BY <1>1, <1>3, <2>0, SMT DEF IInv, SoundInv, Sound
  <2> QED
    BY <1>2, <2>1, <2>2 DEF IInv, SoundInv, Sound, monitor
<1> QED
  BY <1>3, <1>4, <1>5 DEF IInv

(* The second addition closes it.                                          *)
LEMMA TriggeredKeeps ==
  ASSUME IInv, Triggered
  PROVE  IInv'
<1> DEFINE d == Counted(call.condition)
<1>1. d \in Nat /\ d <= 1 /\ (magma_faulty => d = 0)
  BY SMT DEF Counted
<1>2. /\ pc' = "test"
      /\ UNCHANGED <<file, consumed, consumer_buffer, mapped, magma_faulty, call,
                     cur, i, monitor>>
      /\ producer_buffer' = [producer_buffer EXCEPT ![cur] =
           [name |-> @.name, reached |-> @.reached + 0,
            triggered |-> @.triggered + d]]
  <2>1. cur \in Slots /\ producer_buffer \in [Slots -> canary_t]
    BY DEF IInv, TypeOK, data_t
  <2>2. producer_buffer[cur] \in canary_t
    BY <2>1
  <2>3. [producer_buffer[cur] EXCEPT !.triggered = @ + d]
          = [name |-> producer_buffer[cur].name,
             reached |-> producer_buffer[cur].reached + 0,
             triggered |-> producer_buffer[cur].triggered + d]
    BY <1>1, <2>2, SMT DEF canary_t
  <2> QED
    BY <2>1, <2>3 DEF Triggered
<1> HIDE DEF d
<1>3. /\ producer_buffer' \in data_t
      /\ \A r \in Slots \ {cur} : producer_buffer'[r] = producer_buffer[r]
      /\ producer_buffer'[cur].name = producer_buffer[cur].name
      /\ producer_buffer'[cur].reached = producer_buffer[cur].reached + 0
      /\ producer_buffer'[cur].triggered = producer_buffer[cur].triggered + d
      /\ WellFormed(producer_buffer)' /\ SetupInv' /\ FetchInv' /\ PrefixInv'
      /\ ChainInv' /\ PollsMonotone' /\ ClockInv'
  BY ZenonT(60), <1>1, <1>2, AddKeeps
<1>4. TypeOK' /\ CopyInv'
  BY <1>2, <1>3, SMT DEF IInv, TypeOK, CopyInv, monitor, Triggered
<1>5. SoundInv'
  <2>1. Sound(producer_buffer)'
    BY <1>1, <1>3, SMT DEF IInv, TypeOK, data_t, canary_t, SoundInv, Sound, Triggered
  <2> QED
    BY <1>2, <2>1 DEF IInv, SoundInv, Sound, monitor
<1> QED
  BY <1>3, <1>4, <1>5 DEF IInv

(* The monitor's steps up to its copy, and the failed poll.               *)
LEMMA PollKeeps ==
  ASSUME IInv, Poll \/ Truncate \/ Check \/ Rm
  PROVE  IInv'
<1>1. UNCHANGED <<consumed, producer_buffer, consumer_buffer, target, mi,
                  data, polls>>
  BY DEF Poll, Truncate, Check, Rm, shared
<1>2. /\ file' \in {"absent", "empty", "sized"}
      /\ mpc' \in {"truncate", "memset", "check", "fetch", "rm", "poll"}
      /\ mpc' = "fetch" => ~consumed
      /\ mi = 1
      /\ SetupInv'
  BY SMT DEF Poll, Truncate, Check, Rm, IInv, TypeOK, FetchInv, SetupInv, shared
<1>3. /\ counter' \in 1..(MaxPolls + 1) /\ counter <= counter'
      /\ counter' <= MaxPolls => DOMAIN polls \subseteq 1..(counter' - 1)
  <2>1. CASE Rm
    BY <2>1, BufferAssumption, SMT DEF Rm, Tick, IInv, ClockInv, TypeOK
  <2>2. CASE Poll \/ Truncate \/ Check
    BY <2>2, BufferAssumption, SMT DEF Poll, Truncate, Check, IInv, ClockInv
  <2> QED
    BY <2>1, <2>2
<1>4. TypeOK'
  BY <1>1, <1>2, <1>3, BufferAssumption, SMT DEF IInv, TypeOK, ClockInv, target
<1>5. CopyInv'
  BY <1>1 DEF IInv, CopyInv, target
<1>6. FetchInv'
  BY <1>1, <1>2, SMT DEF FetchInv
<1>7. ClockInv'
  BY <1>1, <1>3 DEF IInv, ClockInv
<1>8. SoundInv'
  BY <1>1, <1>2 DEF IInv, SoundInv, Sound, target
<1>9. ChainInv'
  BY <1>1, <1>2, ChainStands
<1>10. WellFormed(producer_buffer)' /\ PrefixInv' /\ PollsMonotone'
  BY <1>1, PollsStand
<1> QED
  BY <1>2, <1>4, <1>5, <1>6, <1>7, <1>8, <1>9, <1>10 DEF IInv

(* The memset of a new file: nothing has been polled or published yet.     *)
LEMMA MemsetKeeps ==
  ASSUME IInv, Memset
  PROVE  IInv'
<1>1. /\ DOMAIN polls = {} /\ ~consumed /\ mi = 1 /\ mpc = "memset"
      /\ UNCHANGED <<file, target, mi, data, counter, polls>>
      /\ ~consumed' /\ consumed' \in BOOLEAN
      /\ producer_buffer' = Zeroed /\ consumer_buffer' = Zeroed
      /\ mpc' = "check"
  BY ZenonT(60) DEF Memset, IInv, SetupInv, FetchInv
<1>2. Zeroed \in data_t
  BY BufferAssumption DEF Zeroed, data_t, canary_t, Unused
<1>3. Leq(Zeroed, Zeroed)
  BY <1>2, LeqReflexive
<1>4. TypeOK'
  BY <1>1, <1>2, SMT DEF IInv, TypeOK, target
<1>5. CopyInv' /\ FetchInv'
  BY <1>1 DEF IInv, CopyInv, FetchInv, target
<1>6. WellFormed(producer_buffer)' /\ Sound(producer_buffer)' /\ Sound(consumer_buffer)'
  BY <1>1 DEF WellFormed, Sound, Zeroed, Unused
<1>7. SoundInv'
  <2>1. cur \in Slots
    BY DEF IInv, TypeOK
  <2>2. producer_buffer'[cur'].name = NoBug
    BY <1>1, <2>1 DEF Zeroed, Unused, target
  <2> QED
    BY <1>1, <1>6, <2>2 DEF SoundInv
<1>8. SetupInv' /\ ChainInv' /\ PrefixInv' /\ PollsMonotone' /\ ClockInv'
  BY <1>1, <1>3 DEF IInv, SetupInv, ChainInv, PrefixInv, PollsMonotone, ClockInv
<1> QED
  BY <1>4, <1>5, <1>6, <1>7, <1>8 DEF IInv

(* A restart finds the files as they were left.                            *)
LEMMA RestartKeeps ==
  ASSUME IInv, Restart
  PROVE  IInv'
<1> USE BufferAssumption
<1>1. /\ UNCHANGED <<shared, polls>> /\ mpc' = "poll" /\ mi' = 1
      /\ data' = Zeroed /\ counter' = FirstCounter /\ Die
      /\ counter <= MaxPolls /\ counter \in Nat
      /\ DOMAIN polls \subseteq 1..(counter - 1)
  BY DEF Restart, IInv, TypeOK, ClockInv
<1>2. /\ counter' \in 1..(MaxPolls + 1)
      /\ DOMAIN polls \subseteq 1..(counter' - 1)
  <2>1. CASE DOMAIN polls = {}
    BY <1>1, <2>1, SMT DEF FirstCounter
  <2>2. CASE DOMAIN polls # {}
    <3>1. PICK m \in DOMAIN polls : \A t \in DOMAIN polls : m >= t
      <4>1. DOMAIN polls \in SUBSET (0..counter)
        BY <1>1, SMT
      <4> QED
        BY <1>1, <2>2, <4>1, GreatestNatural
    <3>2. /\ Max(DOMAIN polls) \in DOMAIN polls
          /\ \A t \in DOMAIN polls : Max(DOMAIN polls) >= t
      BY <3>1 DEF Max
    <3> QED
      BY <1>1, <2>2, <3>2, SMT DEF FirstCounter
  <2> QED
    BY <2>1, <2>2
<1>3. Zeroed \in data_t /\ 1 \in Slots
  BY SMT DEF Zeroed, data_t, canary_t, Unused, Slots
<1>4. TypeOK'
  <2>1. counter' \in Nat /\ DOMAIN polls \subseteq 1..counter'
    BY <1>2, SMT
  <2> QED
    BY <1>1, <1>3, <2>1, DieTyped DEF IInv, TypeOK, shared
<1>5. CopyInv' /\ FetchInv' /\ SetupInv' /\ ClockInv'
  BY <1>1, <1>2, DieTyped DEF IInv, CopyInv, FetchInv, SetupInv, ClockInv, shared
<1>6. WellFormed(producer_buffer)' /\ PrefixInv' /\ ChainInv' /\ PollsMonotone'
  BY <1>1, PollsStand, ChainStands DEF shared
<1>7. SoundInv'
  BY ZenonT(60), <1>1, DieTyped DEF IInv, SoundInv, Sound, shared
<1> QED
  BY <1>4, <1>5, <1>6, <1>7 DEF IInv

(* Every step, a stutter included, keeps the invariant.                    *)
LEMMA StepIInv == IInv /\ [Next]_vars => IInv'
<1> SUFFICES ASSUME IInv, [Next]_vars PROVE IInv'
  OBVIOUS
<1>1. CASE \/ Start \/ Kill \/ Log \/ magma_init \/ magma_init_fails
           \/ Disabled \/ Bus \/ Test \/ Skip
  BY <1>1, TargetKeeps
<1>2. CASE Get \/ Reached \/ Triggered \/ Copy \/ Publish
  BY <1>2, GetKeeps, ReachedKeeps, TriggeredKeeps, CopyKeeps, PublishKeeps
<1>3. CASE Monitor
  BY <1>3, PollKeeps, MemsetKeeps, FetchKeeps, AckKeeps, MvKeeps DEF Monitor
<1>4. CASE Restart
  BY <1>4, RestartKeeps
<1>5. CASE UNCHANGED vars
  <2>1. UNCHANGED <<shared, monitor>> /\ UNCHANGED target
    BY <1>5 DEF vars
  <2>2. TypeOK' /\ CopyInv'
    BY <2>1, SMT DEF IInv, TypeOK, CopyInv, shared, target, monitor
  <2>3. SoundInv'
    BY ZenonT(60), <2>1, FilesKept DEF IInv, SoundInv, shared, target
  <2> QED
    BY <2>1, <2>2, <2>3, FilesKept DEF IInv
<1> QED
  BY <1>1, <1>2, <1>3, <1>4, <1>5 DEF Next, Target, InLog

(* The invariant holds in every reachable state.                           *)
THEOREM Invariance == Spec => []IInv
BY InitIInv, StepIInv, PTL DEF Spec

---------------------------------------------------------------------------
\* What follows from it, for any number of bugs, records, calls and polls.

(* The copies of target and monitor never index outside the buffers, and   *)
(* every file and buffer holds records (magma_log, fetch_file).            *)
THEOREM TypeCorrect == Spec => []TypeOK
<1>1. IInv => TypeOK
  BY DEF IInv
<1> QED
  BY <1>1, Invariance, PTL

(* The poll files tell one history, across kills and restarts: no bug or   *)
(* count of an earlier file is missing in a later one.                     *)
THEOREM PollsAreMonotone == Spec => []PollsMonotone
<1>1. IInv => PollsMonotone
  BY DEF IInv
<1> QED
  BY <1>1, Invariance, PTL

(* No poll file shows a bug triggered more often than reached, wherever    *)
(* the target was killed between the two additions of magma_log.           *)
THEOREM TriggeredIsReached == Spec => []TriggeredWasReached
<1>1. IInv => TriggeredWasReached
  <2> SUFFICES ASSUME IInv, NEW t \in DOMAIN polls, NEW s \in Slots
               PROVE  polls[t][s].triggered <= polls[t][s].reached
    BY DEF TriggeredWasReached
  <2>1. CASE polls[t][s].name # NoBug
    BY <2>1 DEF IInv, SoundInv, Sound
  <2>2. CASE polls[t][s].name = NoBug
    BY <2>2, SMT DEF IInv, PrefixInv, Unused
  <2> QED
    BY <2>1, <2>2
<1> QED
  BY <1>1, Invariance, PTL

(* The flag is cleared only over a whole copy of the producer buffer: what *)
(* a killed target left half copied is never published.                    *)
THEOREM PublishesWhole == Spec => PublishedWhole
<1>1. ASSUME IInv, [Next]_vars
      PROVE  [consumed /\ ~consumed' => consumer_buffer' = producer_buffer']_vars
  <2>1. CASE Publish
    BY <1>1, <2>1 DEF Publish, IInv, CopyInv
  <2>2. CASE Memset
    BY <2>2 DEF Memset
  <2>3. CASE Next /\ ~Publish /\ ~Memset
    <3>1. consumed' = consumed \/ consumed'
      BY <2>3 DEF Next, Target, InLog, Monitor, shared,
         Start, Kill, Log, magma_log, magma_init, magma_init_fails, Disabled,
         Bus, Get, Reached, Triggered, Test, Skip, Copy, Poll, Truncate,
         Check, Fetch, Ack, Mv, Rm, Restart
    <3> QED
      BY <3>1
  <2> QED
    BY <1>1, <2>1, <2>2, <2>3
<1> QED
  BY <1>1, Invariance, PTL DEF Spec, PublishedWhole

(* A published snapshot stays as it is until the monitor has taken it.     *)
THEOREM SnapshotsAreStable == Spec => SnapshotStable
<1>1. ASSUME IInv, [Next]_vars
      PROVE  [~consumed /\ mpc # "memset"
                => consumer_buffer' = consumer_buffer]_vars
  <2>1. CASE Copy
    BY <1>1, <2>1 DEF Copy, IInv, CopyInv
  <2>2. CASE Memset
    BY <2>2 DEF Memset
  <2>3. CASE Next /\ ~Copy /\ ~Memset
    <3>1. consumer_buffer' = consumer_buffer
      BY ZenonT(60), <2>3 DEF Next, Target, InLog, Monitor, shared,
         Start, Kill, Log, magma_log, magma_init, magma_init_fails, Disabled,
         Bus, Get, Reached, Triggered, Test, Skip, Publish, Poll, Truncate,
         Check, Fetch, Ack, Mv, Rm, Restart
    <3> QED
      BY <3>1
  <2> QED
    BY <1>1, <2>1, <2>2, <2>3
<1> QED
  BY <1>1, Invariance, PTL DEF Spec, SnapshotStable

(* No poll is overwritten or lost, across restarts of the script.          *)
THEOREM PollsAreKept == Spec => PollsKept
<1>1. ASSUME IInv, [Next]_vars
      PROVE  [\A t \in DOMAIN polls : t <= MaxPolls =>
                t \in DOMAIN polls' /\ polls'[t] = polls[t]]_vars
  <2>1. CASE Mv
    <3>1. \A t \in DOMAIN polls : t <= MaxPolls => t # counter
      BY <1>1, BufferAssumption, SMT DEF IInv, ClockInv
    <3> QED
      BY <2>1, <3>1 DEF Mv
  <2>2. CASE Next /\ ~Mv
    <3>1. polls' = polls
      BY <2>2 DEF Next, Target, InLog, Monitor, monitor,
         Start, Kill, Log, magma_log, magma_init, magma_init_fails, Disabled,
         Bus, Get, Reached, Triggered, Test, Skip, Copy, Publish, Poll,
         Truncate, Memset, Check, Fetch, Ack, Rm, Restart
    <3> QED
      BY <3>1
  <2> QED
    BY <1>1, <2>1, <2>2
<1> QED
  BY <1>1, Invariance, PTL DEF Spec, PollsKept

===========================================================================
