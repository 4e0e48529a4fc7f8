----------------------------- MODULE SyncQueue -----------------------------
(***************************************************************************)
(* How one instance (the reader) imports the queue of another (the source) *)
(* through the file system: sync_fuzzers and check_sync_fuzzers of         *)
(* afl-fuzz-run.c, with the files .synced/X (the id to go on from),        *)
(* .synced/X.last and .synced/X.max (the ids present at startup).          *)
(*                                                                         *)
(* The source numbers its files by how many entries it has.  It creates a  *)
(* file and then writes it, and it replaces the file of an entry that it   *)
(* has trimmed; it may be resumed (the queue moves to _resume and is       *)
(* linked back file by file) or started afresh.  The reader lists the      *)
(* queue once and then opens, runs and skips the files one by one; it may  *)
(* be stopped in between.                                                  *)
(***************************************************************************)
EXTENDS Integers, Sequences, FiniteSets

CONSTANTS
  Cases,     \* test cases
  Settings   \* what the two instances go through

\* Found: the test cases there are.  ReaderStarts: how the reader is started
\* again.  The others are bounds on the trims of a session of the source, on
\* the sessions that start afresh, on those that are resumed, and on the stops
\* of the reader.
Setting ==
  [Found: SUBSET Cases, Trims: Nat, SourceSessions: Nat \ {0}, Resumes: Nat,
   ReaderStarts: SUBSET {"fresh", "resume"}, MaxStops: Nat]

ASSUME SyncAssumption == \A c \in Settings : c \in Setting

VARIABLES
  setting,   \* what happens in this campaign
  queue,     \* the files of the source's queue/, in order of their names
  cut,       \* the position of the one it is writing, or 0
  gone,      \* that file is unlinked, and else still empty
  trimmed,   \* the cases it has trimmed
  old,       \* the files of its _resume/, or none
  session,   \* the source's current session
  resumes,   \* times it was resumed
  young,     \* its cmdline file was written within this second
  counter,   \* .synced/X
  max,       \* .synced/X.max, or -1
  known,     \* test cases the reader has run in its own session
  missed,    \* history: those a sync passed that were just being rewritten
  reader,    \* the reader: "off", "fuzz" or in "sync"
  names,     \* what is left of the directory listing it works on
  next,      \* next_min_accept
  start_id,  \* max_start_id
  lost,      \* history: those this sync has found absent or empty
  stops      \* times it was stopped

files == <<queue, cut, gone, trimmed, old>>
source == <<files, session, resumes, young>>
scan == <<names, next, start_id, lost>>
import == <<counter, max, known, missed, reader, scan, stops>>
syncVars == <<setting, source, import>>

\* A file: the id in its name, its content, whether its name says that it was
\* synced from the reader, and the session that created it (its name also holds
\* the time).
File ==
  [id: Nat, case: Cases, mine: BOOLEAN, born: 1 .. setting.SourceSessions]

Distinct(fs) == \A i, j \in DOMAIN fs : fs[i].case = fs[j].case => i = j
CasesOf(fs) == {fs[i].case : i \in DOMAIN fs}

SyncTypeOK ==
  /\ setting \in Settings
  /\ queue \in Seq(File) /\ Distinct(queue)
  /\ old \in Seq(File) /\ Distinct(old)
  /\ cut \in 0 .. Len(queue) /\ gone \in BOOLEAN /\ (gone => cut # 0)
  /\ trimmed \in SUBSET Cases
  /\ session \in 1 .. setting.SourceSessions
  /\ resumes \in 0 .. setting.Resumes
  /\ young \in BOOLEAN
  /\ counter \in Nat
  /\ max \in Nat \cup {-1}
  /\ known \in SUBSET Cases /\ missed \in SUBSET Cases
  /\ reader \in {"off", "fuzz", "sync"}
  /\ names \in Seq(File) /\ lost \in SUBSET Cases
  /\ next \in Nat /\ (reader = "sync" => counter <= next)
  /\ start_id \in Nat
  /\ stops \in 0 .. setting.MaxStops

SyncInit ==
  /\ setting \in Settings
  /\ queue = <<>> /\ old = <<>> /\ trimmed = {}
  /\ cut = 0 /\ gone = FALSE
  /\ session = 1 /\ resumes = 0
  /\ young = TRUE
  /\ counter = 0 /\ max = -1
  /\ known = {} /\ missed = {}
  /\ reader = "fuzz"
  /\ names = <<>> /\ next = 0 /\ start_id = 0 /\ lost = {}
  /\ stops = 0

(***************************************************************************)
(* The source.                                                             *)
(***************************************************************************)

\* Sequence fs with f put before position p, and without position p.
Insert(fs, p, f) ==
  [i \in 1 .. (Len(fs) + 1) |->
     IF i < p THEN fs[i] ELSE IF i = p THEN f ELSE fs[i - 1]]
Drop(fs, p) ==
  [i \in 1 .. (Len(fs) - 1) |-> IF i < p THEN fs[i] ELSE fs[i + 1]]

\* Position p is where id n belongs; for an id that is there already, before
\* or after it, as the rest of the names has it.
Fits(p, n) ==
  \A i \in DOMAIN queue : IF i < p THEN queue[i].id <= n ELSE queue[i].id >= n

\* save_if_interesting creates the file of a test case that the source found
\* (mine is FALSE) or that it ran while it synced from the reader (TRUE).
Queue(c, mine, p) ==
  /\ old = <<>> /\ cut = 0
  /\ c \notin CasesOf(queue)
  /\ mine => c \in known
  /\ Fits(p, Len(queue))
  /\ queue' = Insert(queue, p, [id |-> Len(queue), case |-> c, mine |-> mine,
                                born |-> session])
  /\ cut' = p
  /\ UNCHANGED <<setting, gone, trimmed, old, session, resumes, young, import>>

\* trim_case unlinks the file of an entry, once, and creates it again; with
\* AFL_NO_UNLINK it is truncated.
Trim(i) ==
  /\ old = <<>> /\ cut = 0
  /\ queue[i].case \notin trimmed /\ Cardinality(trimmed) < setting.Trims
  /\ trimmed' = trimmed \cup {queue[i].case}
  /\ cut' = i
  /\ gone' \in BOOLEAN
  /\ UNCHANGED <<setting, queue, old, session, resumes, young, import>>

Recreate ==
  /\ gone
  /\ gone' = FALSE
  /\ UNCHANGED <<setting, queue, cut, trimmed, old, session, resumes, young,
                 import>>

Write ==
  /\ cut # 0 /\ ~gone
  /\ cut' = 0
  /\ UNCHANGED <<setting, queue, gone, trimmed, old, session, resumes, young,
                 import>>

\* The source ends and its output directory is reused for a new session.
Restart ==
  /\ session < setting.SourceSessions
  /\ session' = session + 1
  /\ queue' = <<>> /\ old' = <<>> /\ cut' = 0 /\ gone' = FALSE /\ trimmed' = {}
  /\ young' = TRUE
  /\ UNCHANGED <<setting, resumes, import>>

\* The source ends and is resumed: queue/ becomes _resume/, unless there is
\* one from a resumption that did not finish.  Empty files are not read.
Resume ==
  /\ resumes < setting.Resumes
  /\ resumes' = resumes + 1
  /\ old' = IF old # <<>> THEN old
            ELSE IF cut # 0 THEN Drop(queue, cut) ELSE queue
  /\ queue' = <<>> /\ cut' = 0 /\ gone' = FALSE /\ trimmed' = {}
  /\ young' = TRUE
  /\ UNCHANGED <<setting, session, import>>

\* pivot_inputs links the next file back under its name; at the end
\* nuke_resume_dir removes _resume/.
Pivot ==
  /\ old # <<>>
  /\ queue' = Append(queue, old[Len(queue) + 1])
  /\ old' = IF Len(queue') = Len(old) THEN <<>> ELSE old
  /\ UNCHANGED <<setting, cut, gone, trimmed, session, resumes, young, import>>

\* The second in which cmdline was written is over.
Tick ==
  /\ young
  /\ young' = FALSE
  /\ UNCHANGED <<setting, files, session, resumes, import>>

(***************************************************************************)
(* The reader.                                                             *)
(***************************************************************************)

\* It finds a test case of its own.
Find(c) ==
  /\ reader = "fuzz"
  /\ known' = known \cup {c}
  /\ UNCHANGED <<setting, source, counter, max, missed, reader, scan, stops>>

\* .last is written before its time is compared with that of cmdline, so only
\* a cmdline of the same second counts as a restart of the source.  The
\* counter is reset and the source skipped.
SeenRestart ==
  /\ reader = "fuzz"
  /\ young
  /\ counter' = 0
  /\ UNCHANGED <<setting, source, max, known, missed, reader, scan, stops>>

\* max_start_id: 0 if there is no file.
StartId == IF max = -1 THEN 0 ELSE max

\* What scandir lists.
Listed == IF gone THEN Drop(queue, cut) ELSE queue

\* Mutant of HasNew: the search ends one name too early.
HasNewButLast(m) == Listed[m].id = counter /\ m < Len(Listed)

\* The search for the file with id counter ends at position m.
HasNew(m) == Listed[m].id = counter

First(m) == HasNew(m) /\ \A i \in 1 .. (m - 1) : ~HasNew(i)

BeginSync ==
  /\ reader = "fuzz"
  /\ ~young
  /\ max' = IF StartId < counter THEN -1 ELSE max
  /\ \/ /\ \A m \in DOMAIN Listed : ~HasNew(m)
        /\ UNCHANGED <<reader, scan>>
     \/ \E m \in DOMAIN Listed :
          /\ First(m)
          /\ reader' = "sync"
          /\ names' = SubSeq(Listed, m, Len(Listed))
          /\ next' = counter
          /\ start_id' = StartId
          /\ lost' = IF gone /\ cut \in m .. Len(Listed)
                     THEN {queue[cut].case} ELSE {}
  /\ UNCHANGED <<setting, source, counter, known, missed, stops>>

\* The file can be opened and is not empty.
Readable(f) == \E i \in DOMAIN queue : queue[i] = f /\ i # cut

\* Past the ids present at startup, the reader's own cases are not run.
Wanted(f, n) == n < start_id \/ ~f.mine

\* One file of the listing; next_min_accept has been incremented when it is
\* compared with max_start_id.
Visit ==
  /\ reader = "sync"
  /\ names # <<>>
  /\ next' = next + 1
  /\ names' = Tail(names)
  /\ LET f == Head(names) IN
     IF Readable(f)
     THEN /\ known' = IF Wanted(f, next') THEN known \cup {f.case} ELSE known
          /\ lost' = lost
     ELSE lost' = lost \cup {f.case} /\ known' = known
  /\ UNCHANGED <<setting, source, counter, max, missed, reader, start_id, stops>>

LeaveScan == names' = <<>> /\ next' = 0 /\ start_id' = 0 /\ lost' = {}

EndSync ==
  /\ reader = "sync"
  /\ names = <<>>
  /\ counter' = next
  /\ missed' = missed \cup lost
  /\ reader' = "fuzz"
  /\ LeaveScan
  /\ UNCHANGED <<setting, source, max, known, stops>>

\* Mutant of StoppedCounter: the counter is written for the whole listing.
StoppedCounterWritten ==
  IF reader = "sync" THEN next + Len(names) ELSE counter

\* A stop leaves the loop without writing the counter.
StoppedCounter == counter

Stop ==
  /\ reader # "off"
  /\ stops < setting.MaxStops
  /\ stops' = stops + 1
  /\ counter' = StoppedCounter
  /\ reader' = "off"
  /\ LeaveScan
  /\ UNCHANGED <<setting, source, max, known, missed>>

\* A resumed session keeps its queue and .synced/.
ResumeReader ==
  /\ "resume" \in setting.ReaderStarts
  /\ reader = "off"
  /\ reader' = "fuzz"
  /\ UNCHANGED <<setting, source, counter, max, known, missed, scan, stops>>

\* A fresh one starts without either; check_sync_fuzzers notes the highest id
\* of the source's queue, which it takes for the number of files less one.
FreshReader ==
  /\ "fresh" \in setting.ReaderStarts
  /\ reader = "off"
  /\ reader' = "fuzz"
  /\ known' = {} /\ missed' = {}
  /\ counter' = 0
  /\ max' = Len(Listed) - 1
  /\ UNCHANGED <<setting, source, scan, stops>>

SourceStep == Recreate \/ Write \/ Pivot \/ Tick
ReaderStep == SeenRestart \/ BeginSync \/ Visit \/ EndSync

SyncNext ==
  \/ \E c \in setting.Found : Find(c)
  \/ \E c \in setting.Found, mine \in BOOLEAN, p \in 1 .. (Len(queue) + 1) :
       Queue(c, mine, p)
  \/ \E i \in DOMAIN queue : Trim(i)
  \/ Restart
  \/ Resume
  \/ SourceStep
  \/ ReaderStep
  \/ Stop
  \/ ResumeReader
  \/ FreshReader

SyncSpec == SyncInit /\ [][SyncNext]_syncVars

\* Time passes, a file once created or unlinked is written, a resumed source
\* links its files back, and the reader's main loop calls sync_fuzzers
\* periodically.
SyncFairSpec ==
  /\ SyncSpec
  /\ WF_syncVars(Recreate) /\ WF_syncVars(Write) /\ WF_syncVars(Pivot)
  /\ WF_syncVars(Tick) /\ WF_syncVars(ReaderStep)

\* Whatever of the source's queue lies below the stored counter, the reader has
\* run in its present session, except what it came upon just when the source
\* was rewriting it.
LookedAt ==
  \A i \in DOMAIN queue : queue[i].id < counter => queue[i].case \in known \cup missed

\* "the first entry is newer than when we synced last - instance was restarted -
\* we have to reset our counter": when sync_fuzzers has made this check and goes
\* on to the files, there are none below its counter that it has not looked at.
RestartNoticed == [][reader = "fuzz" /\ reader' = "sync" => LookedAt]_syncVars

\* The source just runs on, and the reader is only ever resumed.
Steady ==
  /\ setting.SourceSessions = 1 /\ setting.Resumes = 0
  /\ setting.ReaderStarts = {"resume"}

\* "For every file queued by this fuzzer, parse ID and see if we have looked at
\* it before; exec a test case if not": of a steady source no file is passed
\* over that can be read when the reader comes to it, wherever the reader is
\* stopped and whatever is trimmed between the listing and the visit (and all
\* state keeps its type).
SteadyLookedAt == SyncTypeOK /\ (Steady => LookedAt)

\* Whatever a steady source queues, the reader runs some day, unless it comes
\* upon the file just when that is being rewritten, or is stopped for good: no
\* stale listing or interrupted sync makes it lose another file.
SteadyImportsAll ==
  Steady =>
    \A c \in Cases :
      c \in CasesOf(queue) ~> (c \in known \cup missed \/ reader = "off")

\* No id is missing, or given twice: a source that is killed while it trims is
\* resumed without the file.
Gapless == \A i \in DOMAIN queue : queue[i].id = i - 1

\* Whatever the source and the reader go through, the reader does not get
\* stuck before the end of the source's queue: its counter reaches the last
\* id, unless an id is missing there.
CatchesUp ==
  (counter < Len(queue))
    ~> (counter >= Len(queue) \/ ~Gapless \/ reader = "off")
=============================================================================
