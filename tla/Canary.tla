------------------------------ MODULE Canary ------------------------------
(***************************************************************************)
(* Magma's bug canaries: the instrumented target (canary.c, storage.c)     *)
(* counts how often each bug is reached and triggered in a file it shares  *)
(* with the monitor (monitor.c), which the campaign script (run.sh) runs   *)
(* once per poll interval.                                                 *)
(*                                                                         *)
(* The file has two buffers of records and one flag.  The target counts in *)
(* producer_buffer; when `consumed' is set it copies that buffer over      *)
(* consumer_buffer and clears the flag.  The monitor reads consumer_buffer *)
(* only when the flag is clear, and sets it when it has the copy.  No lock *)
(* is taken, and the fuzzer may kill the target between any two steps.     *)
(*                                                                         *)
(* One target process runs at a time (the fork server waits for a child    *)
(* before it forks the next), so the target is one process that may die    *)
(* and be started again.  Both memcpy's go record by record.               *)
(***************************************************************************)
EXTENDS Naturals, FiniteSets, FiniteSetsExt

CONSTANTS
  Bugs,        \* the bug identifiers the target's canaries use
  NoBug,       \* the empty name of an unused record
  BUFFERLEN,   \* records in each buffer
  FATAL,       \* TRUE when built with MAGMA_FATAL_CANARIES
  MaxHits,     \* bound: counted canary calls
  MaxPolls     \* bound: poll intervals; the clock stops one later

ASSUME BufferAssumption ==
  /\ BUFFERLEN \in Nat \ {0}
  /\ NoBug \notin Bugs
  /\ FATAL \in BOOLEAN
  /\ MaxHits \in Nat
  /\ MaxPolls \in Nat

\* Every target of the benchmark has fewer canaries than the 31 records.
ASSUME RoomAssumption ==
  IsFiniteSet(Bugs) /\ Cardinality(Bugs) <= BUFFERLEN

VARIABLES
  file,             \* "absent", "empty" (created, size 0) or "sized"
  consumed, producer_buffer, consumer_buffer,      \* stored_data_t
  pc,               \* where the target process is
  mapped,           \* data_ptr: "no", "mapped", or "disabled" once init failed
  magma_faulty,     \* the target has met a true canary condition
  call,             \* the arguments of the current magma_log
  cur,              \* the record stor_get returned
  i,                \* next record of the target's memcpy
  mpc,              \* where the polling loop is
  mi,               \* next record of the monitor's memcpy
  data,             \* the monitor's private copy
  counter,          \* the loop's clock, in poll intervals
  polls             \* $MONITOR/<counter> files: poll time -> records

shared  == <<file, consumed, producer_buffer, consumer_buffer>>
target  == <<pc, mapped, magma_faulty, call, cur, i>>
monitor == <<mpc, mi, data, counter, polls>>
vars    == <<shared, target, monitor>>

Slots   == 1..BUFFERLEN
canary_t == [name : Bugs \cup {NoBug}, reached : Nat, triggered : Nat]
data_t  == [Slots -> canary_t]
Unused  == [name |-> NoBug, reached |-> 0, triggered |-> 0]
Zeroed  == [s \in Slots |-> Unused]
NoCall  == [bug |-> NoBug, condition |-> FALSE]

TypeOK ==
  /\ file \in {"absent", "empty", "sized"}
  /\ consumed \in BOOLEAN
  /\ producer_buffer \in data_t
  /\ consumer_buffer \in data_t
  /\ pc \in {"dead", "run", "get", "reached", "triggered", "test", "copy",
             "publish"}
  /\ mapped \in {"no", "mapped", "disabled"}
  /\ magma_faulty \in BOOLEAN
  /\ call \in [bug : Bugs \cup {NoBug}, condition : BOOLEAN]
  /\ cur \in Slots
  /\ i \in Slots
  /\ mpc \in {"poll", "truncate", "memset", "check", "fetch", "ack", "mv",
              "rm"}
  /\ mi \in Slots
  /\ data \in data_t
  /\ counter \in Nat
  /\ DOMAIN polls \subseteq 1..counter
  /\ polls \in [DOMAIN polls -> data_t]

Init ==
  /\ file = "absent"
  /\ consumed = FALSE /\ producer_buffer = Zeroed /\ consumer_buffer = Zeroed
  /\ pc = "dead" /\ mapped = "no" /\ magma_faulty = FALSE /\ call = NoCall
  /\ cur = 1 /\ i = 1
  /\ mpc = "poll" /\ mi = 1 /\ data = Zeroed
  /\ counter = 1      \* the empty directory's glob stays literal: see run.sh
  /\ polls = [t \in {} |-> Zeroed]

---------------------------------------------------------------------------
\* The target.

(* Calls the producer buffer has counted, for the bound on them. *)
Hits == MapThenSumSet(LAMBDA s : producer_buffer[s].reached, Slots)

(* The locals of magma_log go out of scope. *)
Return == call' = NoCall /\ cur' = 1 /\ i' = 1

(* The process is gone; the next one has the statics' initial values. *)
Die == pc' = "dead" /\ mapped' = "no" /\ magma_faulty' = FALSE /\ Return

(* The fork server starts a child. *)
Start ==
  /\ pc = "dead"
  /\ pc' = "run"
  /\ UNCHANGED <<mapped, magma_faulty, call, cur, i, shared, monitor>>

(* The child exits, crashes, or is killed on a timeout, wherever it is. *)
Kill ==
  /\ pc # "dead"
  /\ Die
  /\ UNCHANGED <<shared, monitor>>

(* Label fatal, the end of magma_log: kill(pid, condition * 11) sends a    *)
(* SIGSEGV or, with signal 0, nothing.                                     *)
Fatal(condition, faulty) ==
  IF FATAL /\ condition
  THEN Die
  ELSE pc' = "run" /\ magma_faulty' = faulty /\ Return /\ UNCHANGED mapped

(* magma_log is entered. *)
magma_log(bug, condition) ==
  /\ pc = "run"
  /\ ~magma_faulty => Hits < MaxHits
  /\ pc' = "get"
  /\ call' = [bug |-> bug, condition |-> condition]
  /\ UNCHANGED <<mapped, magma_faulty, cur, i, shared, monitor>>

(* The first call of a process opens and maps the file; when that fails no *)
(* later call of this process tries again.                                 *)
magma_init ==
  /\ pc = "get" /\ mapped = "no" /\ file # "absent"
  /\ mapped' = "mapped"
  /\ UNCHANGED <<pc, magma_faulty, call, cur, i, shared, monitor>>

magma_init_fails ==
  /\ pc = "get" /\ mapped = "no" /\ file = "absent"
  /\ mapped' = "disabled"
  /\ UNCHANGED <<pc, magma_faulty, call, cur, i, shared, monitor>>

(* Without a mapping magma_log counts nothing, and does not set            *)
(* magma_faulty.                                                           *)
Disabled ==
  /\ pc = "get" /\ mapped = "disabled"
  /\ Fatal(call.condition, magma_faulty)
  /\ UNCHANGED <<shared, monitor>>

(* The first record named `name', or else the first unused one. *)
stor_get(buffer, name) ==
  CHOOSE s \in Slots :
    /\ buffer[s].name \in {name, NoBug}
    /\ \A r \in 1..(s - 1) : buffer[r].name \notin {name, NoBug}

(* Touching the pages of a file that still has size 0 is a SIGBUS. *)
Bus ==
  /\ pc = "get" /\ mapped = "mapped" /\ file = "empty"
  /\ Die
  /\ UNCHANGED <<shared, monitor>>

(* Mutant of Get: a record that exists is zeroed as if it were new. *)
GetZeroes ==
  /\ pc = "get" /\ mapped = "mapped" /\ file = "sized"
  /\ cur' = stor_get(producer_buffer, call.bug)
  /\ producer_buffer' = [producer_buffer EXCEPT
                           ![cur'] = [Unused EXCEPT !.name = call.bug]]
  /\ pc' = "reached"
  /\ UNCHANGED <<file, consumed, consumer_buffer, mapped, magma_faulty, call,
                 i, monitor>>

(* stor_get returns its record; an unused one is named and zeroed. *)
Get ==
  /\ pc = "get" /\ mapped = "mapped" /\ file = "sized"
  /\ LET s == stor_get(producer_buffer, call.bug) IN
     /\ cur' = s
     /\ producer_buffer' =
          IF producer_buffer[s].name = call.bug THEN producer_buffer
          ELSE [producer_buffer EXCEPT
                  ![s] = [Unused EXCEPT !.name = call.bug]]
  /\ pc' = "reached"
  /\ UNCHANGED <<file, consumed, consumer_buffer, mapped, magma_faulty, call,
                 i, monitor>>

(* What a call adds: nothing once the process is faulty. *)
Counted(condition) == IF condition /\ ~magma_faulty THEN 1 ELSE 0

Reached ==
  /\ pc = "reached"
  /\ producer_buffer' = [producer_buffer EXCEPT
                           ![cur].reached = @ + Counted(TRUE)]
  /\ pc' = "triggered"
  /\ UNCHANGED <<file, consumed, consumer_buffer, mapped, magma_faulty, call,
                 cur, i, monitor>>

(* Mutant of Triggered: the mask with magma_faulty is forgotten. *)
TriggeredUnmasked ==
  /\ pc = "triggered"
  /\ producer_buffer' = [producer_buffer EXCEPT ![cur].triggered =
                           @ + (IF call.condition THEN 1 ELSE 0)]
  /\ pc' = "test"
  /\ UNCHANGED <<file, consumed, consumer_buffer, mapped, magma_faulty, call,
                 cur, i, monitor>>

Triggered ==
  /\ pc = "triggered"
  /\ producer_buffer' = [producer_buffer EXCEPT
                           ![cur].triggered = @ + Counted(call.condition)]
  /\ pc' = "test"
  /\ UNCHANGED <<file, consumed, consumer_buffer, mapped, magma_faulty, call,
                 cur, i, monitor>>

(* A true condition is remembered, and acted on. *)
Finish == Fatal(call.condition, magma_faulty \/ call.condition)

(* Mutant of Test: the flag is not tested. *)
TestAlways ==
  /\ pc = "test"
  /\ pc' = "copy"
  /\ UNCHANGED <<mapped, magma_faulty, call, cur, i, shared, monitor>>

(* if (data_ptr->consumed), and the case that it is not. *)
Test ==
  /\ pc = "test" /\ consumed
  /\ pc' = "copy"
  /\ UNCHANGED <<mapped, magma_faulty, call, cur, i, shared, monitor>>

Skip ==
  /\ pc = "test" /\ ~consumed
  /\ Finish
  /\ UNCHANGED <<shared, monitor>>

(* Mutant of Copy: it stops one record early. *)
CopyShort ==
  /\ pc = "copy"
  /\ consumer_buffer' = [consumer_buffer EXCEPT ![i] = producer_buffer[i]]
  /\ IF i + 1 >= BUFFERLEN
     THEN pc' = "publish" /\ UNCHANGED i
     ELSE i' = i + 1 /\ UNCHANGED pc
  /\ UNCHANGED <<file, consumed, producer_buffer, mapped, magma_faulty, call,
                 cur, monitor>>

(* Mutant of Copy: its index runs past the last record. *)
CopyLong ==
  /\ pc = "copy"
  /\ consumer_buffer' = [consumer_buffer EXCEPT ![i] = producer_buffer[i]]
  /\ i' = i + 1
  /\ pc' = IF i = BUFFERLEN THEN "publish" ELSE pc
  /\ UNCHANGED <<file, consumed, producer_buffer, mapped, magma_faulty, call,
                 cur, monitor>>

Copy ==
  /\ pc = "copy"
  /\ consumer_buffer' = [consumer_buffer EXCEPT ![i] = producer_buffer[i]]
  /\ IF i = BUFFERLEN
     THEN pc' = "publish" /\ UNCHANGED i
     ELSE i' = i + 1 /\ UNCHANGED pc
  /\ UNCHANGED <<file, consumed, producer_buffer, mapped, magma_faulty, call,
                 cur, monitor>>

(* Mutant of Publish: the flag is left set. *)
PublishNothing ==
  /\ pc = "publish"
  /\ Finish
  /\ UNCHANGED <<shared, monitor>>

(* After the memory barrier: consumed = false. *)
Publish ==
  /\ pc = "publish"
  /\ consumed' = FALSE
  /\ Finish
  /\ UNCHANGED <<file, producer_buffer, consumer_buffer, monitor>>

---------------------------------------------------------------------------
\* The polling loop of run.sh and the monitor it runs (--fetch file).

(* The monitor opens the file, or creates it. *)
Poll ==
  /\ mpc = "poll"
  /\ IF file = "absent"
     THEN file' = "empty" /\ mpc' = "truncate"
     ELSE mpc' = "check" /\ UNCHANGED file
  /\ UNCHANGED <<consumed, producer_buffer, consumer_buffer, target, mi, data,
                 counter, polls>>

Truncate ==
  /\ mpc = "truncate"
  /\ file' = "sized"
  /\ mpc' = "memset"
  /\ UNCHANGED <<consumed, producer_buffer, consumer_buffer, target, mi, data,
                 counter, polls>>

(* Zeroes the whole file; a target that opened it after the ftruncate may  *)
(* already have counted in it.                                             *)
Memset ==
  /\ mpc = "memset"
  /\ consumed' = FALSE
  /\ producer_buffer' = Zeroed /\ consumer_buffer' = Zeroed
  /\ mpc' = "check"
  /\ UNCHANGED <<file, target, mi, data, counter, polls>>

(* A file left with size 0 by an earlier life of the container is a SIGBUS *)
(* for the monitor too; like a set flag it makes the poll fail.            *)
Check ==
  /\ mpc = "check"
  /\ mpc' = IF file = "empty" \/ consumed THEN "rm" ELSE "fetch"
  /\ UNCHANGED <<shared, target, mi, data, counter, polls>>

Fetch ==
  /\ mpc = "fetch"
  /\ data' = [data EXCEPT ![mi] = consumer_buffer[mi]]
  /\ IF mi = BUFFERLEN
     THEN mpc' = "ack" /\ UNCHANGED mi
     ELSE mi' = mi + 1 /\ UNCHANGED mpc
  /\ UNCHANGED <<shared, target, counter, polls>>

(* After the memory barrier: consumed = true. *)
Ack ==
  /\ mpc = "ack"
  /\ consumed' = TRUE
  /\ mpc' = "mv"
  /\ UNCHANGED <<file, producer_buffer, consumer_buffer, target, mi, data,
                 counter, polls>>

(* The records of a dump: the used prefix is all stor_forall visits. *)
stor_forall(buffer) ==
  [s \in Slots |->
     IF \A r \in 1..s : buffer[r].name # NoBug THEN buffer[s] ELSE Unused]

(* One poll interval passes.  At its bound the clock stands still, and     *)
(* later polls of the unbounded loop share the last name.                  *)
Tick == counter' = IF counter <= MaxPolls THEN counter + 1 ELSE counter

(* The dump is complete: tmp becomes $MONITOR/$counter. *)
Mv ==
  /\ mpc = "mv"
  /\ polls' = [t \in DOMAIN polls \cup {counter} |->
                 IF t = counter THEN stor_forall(data) ELSE polls[t]]
  /\ Tick
  /\ mpc' = "poll" /\ mi' = 1 /\ data' = Zeroed
  /\ UNCHANGED <<shared, target>>

(* The monitor failed: tmp is removed, and the clock goes on. *)
Rm ==
  /\ mpc = "rm"
  /\ Tick
  /\ mpc' = "poll"
  /\ UNCHANGED <<shared, target, mi, data, polls>>

(* Mutant of FirstCounter: run.sh resumes at the last poll's time. *)
LastCounter == IF DOMAIN polls = {} THEN 1 ELSE Max(DOMAIN polls)

(* The clock run.sh starts from: one interval after the last poll file.    *)
(* With no poll file the unmatched glob is one literal word, which ends up *)
(* as a file name of $SHARED, an unset variable to the arithmetic: 0.      *)
FirstCounter == IF DOMAIN polls = {} THEN 1 ELSE Max(DOMAIN polls) + 1

(* The container stops, at any point, and is started on the same $SHARED:  *)
(* processes are gone, the files stay, `rm -f tmp*' drops an unmoved dump. *)
Restart ==
  /\ counter <= MaxPolls
  /\ Die
  /\ mpc' = "poll" /\ mi' = 1 /\ data' = Zeroed
  /\ counter' = FirstCounter
  /\ UNCHANGED <<shared, polls>>

---------------------------------------------------------------------------
Log     == \E bug \in Bugs, condition \in BOOLEAN : magma_log(bug, condition)
InLog   == \/ magma_init \/ magma_init_fails \/ Disabled \/ Bus
           \/ Get \/ Reached \/ Triggered
           \/ Test \/ Skip \/ Copy \/ Publish
Target  == Start \/ Kill \/ Log \/ InLog
Monitor == Poll \/ Truncate \/ Memset \/ Check \/ Fetch \/ Ack \/ Mv \/ Rm

Next == Target \/ Monitor \/ Restart

Spec == Init /\ [][Next]_vars

(* The processes run when they can, and the container is restarted         *)
(* finitely often; nobody promises that the target calls a canary or lives.*)
FairSpec ==
  Spec /\ WF_vars(Monitor) /\ WF_vars(InLog) /\ <>[][~Restart]_vars

---------------------------------------------------------------------------
\* Properties.

(* Every visible record of a is in b, in the same place, and has not lost  *)
(* a count.                                                                *)
Leq(a, b) ==
  \A s \in Slots :
    a[s].name # NoBug =>
      /\ b[s].name = a[s].name
      /\ a[s].reached <= b[s].reached
      /\ a[s].triggered <= b[s].triggered

(* The poll files of a campaign tell one history: a later file has every   *)
(* bug an earlier one has, with counts at least as large, whatever was     *)
(* killed or restarted in between (magma_log and fetch_file exchange the   *)
(* buffer with one unlocked flag).                                         *)
PollsMonotone ==
  \A t, u \in DOMAIN polls : t < u => Leq(polls[t], polls[u])

(* What a poll file says happened together: no bug is triggered more often *)
(* than it is reached (magma_log counts in that order and may be killed    *)
(* between the two additions).                                             *)
TriggeredWasReached ==
  \A t \in DOMAIN polls : \A s \in Slots :
    polls[t][s].triggered <= polls[t][s].reached

(* The flag is cleared only when consumer_buffer is a whole copy of the    *)
(* producer buffer of that instant: a copy a killed target left half done  *)
(* is never published by the next one.                                     *)
PublishedWhole ==
  [][consumed /\ ~consumed' => consumer_buffer' = producer_buffer']_vars

(* Once published, a snapshot is not touched until the monitor has it: no  *)
(* step changes consumer_buffer while the flag is clear (the memset of a   *)
(* new file excepted).                                                     *)
SnapshotStable ==
  [][~consumed /\ mpc # "memset" => consumer_buffer' = consumer_buffer]_vars

(* A poll file, once moved into place, is never lost or overwritten, across*)
(* restarts of run.sh too (it resumes its clock from the files it finds).  *)
PollsKept ==
  [][\A t \in DOMAIN polls : t <= MaxPolls =>
       t \in DOMAIN polls' /\ polls'[t] = polls[t]]_vars

(* A poll file has all that the named records of the target count.         *)
CaughtUp ==
  \E t \in DOMAIN polls : \A s \in Slots :
    producer_buffer[s].name # NoBug =>
      polls[t][s].reached >= producer_buffer[s].reached

(* While calls of magma_log run to their end again and again, every count  *)
(* reaches a poll file once the shared file has been set up: `consumed'    *)
(* never stays stuck on either side, and a target killed in the middle of  *)
(* its copy does not keep the next one from publishing.  (Counting stops   *)
(* at MaxHits; from then on a poll file must catch up with it.)            *)
CountsReachPolls ==
  []<><<Skip \/ Publish>>_vars =>
    (file = "sized" /\ mpc # "memset" ~> CaughtUp)
===========================================================================
