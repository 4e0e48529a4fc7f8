------------------------------ MODULE Session ------------------------------
(***************************************************************************)
(* The output directory of afl-fuzz over several sessions: the queue that  *)
(* a session leaves on disk, the in-place resume that moves it to _resume/ *)
(* and imports it again, and fastresume.bin, the dump that lets a resume   *)
(* skip calibration.  The process may be killed between any two steps.     *)
(*                                                                         *)
(* A file of the queue is known by its name, its id and the rest, by which *)
(* directories are sorted.  A directory that is missing and one that is    *)
(* empty are not told apart: rename() replaces both.                       *)
(***************************************************************************)
EXTENDS Naturals, FiniteSets, Sequences

CONSTANTS
  Binaries,      \* builds of the target
  None,
  Seeds,         \* entries of the first session
  Tags,          \* the rest of a file name (source, time, operation)
  MaxEntries,    \* bound: queue length from which nothing more is found
  MaxKills       \* bound: how often the process is killed

ASSUME SessionAssumption ==
  /\ Seeds \in Nat \ {0} /\ MaxEntries \in Nat /\ Seeds <= MaxEntries
  /\ Tags \subseteq Nat /\ 0 \in Tags /\ MaxKills \in Nat
  /\ None \notin Binaries

Names == (0..(MaxEntries - 1)) \X Tags

VARIABLES
  queue, resume,   \* queue/ and _resume/: the files in them
  empty,           \* those that were created and not written
  target_hash,     \* the file of that name: a build, or None
  dump,            \* fastresume.bin, or None
  pc,              \* how far main() is; "off": there is no process
  binary,          \* the target of this session
  no_fastresume,   \* AFL_NO_FASTRESUME in this session
  prev_target_hash,
  opened,          \* fr_fd: the dump to load, or None
  queue_buf,       \* the entries in memory
  rec,             \* whose record each entry of queue_buf has
  maps,            \* the builds that records and virgin maps come from
  cur,             \* the file being written
  found,           \* history: every entry that was ever added
  torn,            \* history: what kills have cut short
  outdated,        \* history: a session ended and left a dump of another build
  kills

disk == <<queue, resume, empty, target_hash, dump>>
memory == <<queue_buf, rec, maps, cur>>
start == <<binary, no_fastresume, prev_target_hash, opened>>
history == <<found, torn, kills>>
vars == <<disk, pc, memory, start, history, outdated>>

\* The order of names, whose ids have six digits: there are fewer than 1000000.
Before(m, n) == m[1] < n[1] \/ (m[1] = n[1] /\ m[2] < n[2])

\* scandir() with alphasort
Sorted(S) ==
  [i \in 1..Cardinality(S) |->
     CHOOSE n \in S : Cardinality({m \in S : Before(m, n)}) = i - 1]

Ran(s) == {s[i] : i \in DOMAIN s}

\* In the first session, once the seeds are in place.
Init ==
  /\ queue = (0..(Seeds - 1)) \X {0} /\ resume = {} /\ empty = {}
  /\ binary \in Binaries /\ target_hash = binary /\ maps = {binary}
  /\ dump = None /\ opened = None /\ prev_target_hash = None
  /\ no_fastresume = FALSE
  /\ pc = "fuzz" /\ queue_buf = Sorted(queue) /\ rec = queue_buf /\ cur = None
  /\ found = queue /\ torn = {} /\ kills = 0 /\ outdated = FALSE
-----------------------------------------------------------------------------
(* Resuming.                                                               *)

\* handle_existing_out_dir moves queue/ to _resume/.  If there is a _resume/
\* with files in it already that fails, and the files of queue/ are deleted.
Start(b, nf) ==
  /\ pc = "off" /\ pc' = "clean"
  /\ binary' = b /\ no_fastresume' = nf
  /\ IF resume = {} THEN resume' = queue /\ queue' = {}
     ELSE UNCHANGED <<queue, resume>>
  /\ UNCHANGED <<empty, target_hash, dump, memory, prev_target_hash, opened,
                 history, outdated>>

CleanFile(n) ==
  /\ pc = "clean" /\ n \in queue
  /\ queue' = queue \ {n}
  /\ UNCHANGED <<resume, empty, target_hash, dump, pc, memory, start, history, outdated>>

\* setup_dirs_fds makes the directories anew; write_setup_file notes the build
\* after the note of the last session has been read.
Setup ==
  /\ pc = "clean" /\ queue = {} /\ pc' = "open"
  /\ prev_target_hash' = IF no_fastresume THEN None ELSE target_hash
  /\ target_hash' = binary
  /\ UNCHANGED <<queue, resume, empty, dump, memory, binary, no_fastresume, opened,
                 history, outdated>>

\* Mutant: the dump is left in place.
StillThere(d) == d
Unlinked(d) == None

\* A dump is opened, and removed, only for the build noted last.  One that was
\* cut short may lack even its version.
OpenDump ==
  /\ pc = "open" /\ pc' = "read"
  /\ IF no_fastresume \/ prev_target_hash # binary
     THEN UNCHANGED <<opened, dump>>
     ELSE /\ opened' = dump \/ (dump # None /\ ~dump.whole /\ opened' = None)
          /\ dump' = Unlinked(dump)
  /\ UNCHANGED <<queue, resume, empty, target_hash, memory, binary, no_fastresume,
                 prev_target_hash, history, outdated>>

\* FATAL, or the end of main().  A dump that the session did not replace, and
\* that another build wrote, is now beside this build's target_hash.
Off ==
  /\ pc' = "off" /\ queue_buf' = <<>> /\ rec' = <<>> /\ maps' = {} /\ cur' = None
  /\ binary' = None /\ no_fastresume' = FALSE /\ prev_target_hash' = None
  /\ opened' = None
  /\ outdated' = (outdated \/ (dump # None /\ dump.maps # {target_hash}))

\* read_testcases skips files without content.
ReadTestcases ==
  LET files == resume \ empty IN
  /\ pc = "read"
  /\ IF files = {} THEN Off
     ELSE /\ queue_buf' = Sorted(files) /\ pc' = "pivot"
          /\ UNCHANGED <<rec, maps, cur, start, outdated>>
  /\ UNCHANGED <<disk, history>>

\* pivot_inputs links the files into queue/, one by one, under their names.
Pivot ==
  /\ pc = "pivot" /\ Cardinality(queue) < Len(queue_buf)
  /\ queue' = queue \cup {queue_buf[Cardinality(queue) + 1]}
  /\ UNCHANGED <<resume, empty, target_hash, dump, pc, memory, start, history, outdated>>

\* Mutant: the last link is forgotten.
NukeTooEarly == pc = "pivot" /\ Cardinality(queue) + 1 >= Len(queue_buf)
Pivoted == pc = "pivot" /\ Cardinality(queue) = Len(queue_buf)

NukeBegin ==
  /\ Pivoted /\ pc' = "nuke"
  /\ UNCHANGED <<disk, memory, start, history, outdated>>

\* nuke_resume_dir
NukeFile(n) ==
  /\ pc = "nuke" /\ n \in resume
  /\ resume' = resume \ {n} /\ empty' = empty \ ({n} \ queue)
  /\ UNCHANGED <<queue, target_hash, dump, pc, memory, start, history, outdated>>

NukeDone ==
  /\ pc = "nuke" /\ resume = {} /\ pc' = "load"
  /\ UNCHANGED <<disk, memory, start, history, outdated>>

\* Mutant: the number of entries is not compared.
AnyLength(d) == d.whole
Fits(d) == d.whole /\ Len(d.recs) = Len(queue_buf)

\* The records of the dump are given to the entries in their order; without a
\* dump every entry is calibrated.
Load ==
  /\ pc = "load"
  /\ IF opened # None /\ ~Fits(opened) THEN Off
     ELSE /\ pc' = "fuzz"
          /\ rec' = IF opened = None THEN queue_buf ELSE opened.recs
          /\ maps' = IF opened = None THEN {binary} ELSE opened.maps
          /\ opened' = None /\ prev_target_hash' = None
          /\ UNCHANGED <<queue_buf, cur, binary, no_fastresume, outdated>>
  /\ UNCHANGED <<disk, history>>

\* The virgin maps of another build may be of another size: what is read as the
\* records is cut short, or data is left over, and that is FATAL.
LoadOtherMap ==
  /\ pc = "load" /\ opened # None /\ opened.maps # {binary} /\ Off
  /\ UNCHANGED <<disk, history>>
-----------------------------------------------------------------------------
(* Fuzzing.                                                                *)

\* Mutant: the id of the last entry is used again.
LastId == Len(queue_buf) - 1
NextId == Len(queue_buf)

\* save_if_interesting creates the file of a new entry, named after the number
\* of entries, and then writes it; trim_case replaces the file of an entry.
Find(tag) ==
  LET n == <<NextId, tag>> IN
  /\ pc = "fuzz" /\ Len(queue_buf) < MaxEntries /\ n \notin queue
  /\ queue' = queue \cup {n} /\ empty' = empty \cup {n}
  /\ cur' = n /\ pc' = "write"
  /\ UNCHANGED <<resume, target_hash, dump, queue_buf, rec, maps, start, history, outdated>>

Trim(n) ==
  /\ pc = "fuzz" /\ n \in Ran(queue_buf)
  /\ empty' = empty \cup {n} /\ cur' = n /\ pc' = "write"
  /\ UNCHANGED <<queue, resume, target_hash, dump, queue_buf, rec, maps, start,
                 history, outdated>>

Write ==
  /\ pc = "write" /\ pc' = "fuzz"
  /\ empty' = empty \ {cur} /\ cur' = None
  /\ found' = found \cup {cur}
  /\ IF cur \in Ran(queue_buf) THEN UNCHANGED <<queue_buf, rec, maps>>
     ELSE /\ queue_buf' = Append(queue_buf, cur) /\ rec' = Append(rec, cur)
          /\ maps' = maps \cup {binary}
  /\ UNCHANGED <<queue, resume, target_hash, dump, start, torn, kills, outdated>>

\* The end of main(): the dump is written, unless the user does not want one.
Stop ==
  /\ pc = "fuzz"
  /\ IF no_fastresume THEN Off /\ UNCHANGED dump
     ELSE /\ pc' = "dump" /\ UNCHANGED <<memory, start, outdated>>
          /\ dump' = [recs |-> rec, maps |-> maps, whole |-> FALSE]
  /\ UNCHANGED <<queue, resume, empty, target_hash, history>>

StopDone ==
  /\ pc = "dump" /\ Off
  /\ dump' = [dump EXCEPT !.whole = TRUE]
  /\ UNCHANGED <<queue, resume, empty, target_hash, history>>

\* A kill cuts short what the process was doing.
Kill ==
  /\ pc # "off" /\ kills < MaxKills /\ Off
  /\ kills' = kills + 1
  /\ torn' = torn \cup
       (IF pc = "nuke" /\ resume # {} /\ ~(Ran(queue_buf) \subseteq resume)
        THEN {"nuke"} ELSE {}) \cup
       (IF pc = "write" /\ cur \in Ran(queue_buf) THEN {"trim"} ELSE {})
  /\ UNCHANGED <<disk, found>>
-----------------------------------------------------------------------------
Resume ==
  \/ Setup \/ OpenDump \/ ReadTestcases \/ Pivot \/ NukeBegin \/ NukeDone \/ Load
  \/ LoadOtherMap \/ Write \/ StopDone
  \/ \E n \in Names : CleanFile(n) \/ NukeFile(n)
  \/ \E b \in Binaries, nf \in BOOLEAN : Start(b, nf)

Next ==
  \/ Resume \/ Stop \/ Kill
  \/ \E tag \in Tags : Find(tag)
  \/ \E n \in Names : Trim(n)

Spec == Init /\ [][Next]_vars

\* The user starts the fuzzer again when it has ended, and a process that is
\* not killed goes on.
FairSpec == Spec /\ WF_vars(Resume)
-----------------------------------------------------------------------------
\* Every variable holds a value of its type.
TypeOK ==
  /\ queue \subseteq Names /\ resume \subseteq Names
  /\ empty \subseteq queue \cup resume
  /\ target_hash \in Binaries
  /\ dump # None => Ran(dump.recs) \subseteq Names /\ dump.maps \subseteq Binaries
  /\ pc \in {"off", "clean", "open", "read", "pivot", "nuke", "load", "fuzz",
             "write", "dump"}
  /\ Ran(queue_buf) \subseteq Names /\ Ran(rec) \subseteq Names
  /\ found \subseteq Names /\ torn \subseteq {"nuke", "trim"} /\ kills \in 0..MaxKills
  /\ maps \subseteq Binaries /\ outdated \in BOOLEAN

\* Every entry that was ever added to the queue is in the queue of every later
\* session, wherever earlier ones were killed, if no kill has cut short the
\* deletion of _resume/ or the rewriting of a trimmed file (and all state keeps
\* its type).
EntriesSurvive ==
  TypeOK /\ (pc = "fuzz" /\ torn = {} => found \subseteq Ran(queue_buf))

\* No two entries ever have the same id, in one session or in several: the
\* other fuzzers look at every id once.
OneEntryPerId ==
  torn = {} => \A m, n \in found : m[1] = n[1] => m = n

\* Every entry has its own record, calibrated or loaded: a dump is taken for
\* what is in the queue, though other sessions may have come between.  Records
\* and virgin maps are those of this session's build, "the target binary has not
\* changed" since the dump, unless a session of another build has ended without
\* writing its own dump and left the old one there.
RecordsMatch ==
  pc = "fuzz" => /\ torn = {} => rec = queue_buf
                 /\ ~outdated => maps = {binary}

\* A fuzzer that has ended is in time fuzzing again, as long as a file with
\* content is left to start from.
Resumes ==
  pc = "off" ~> (pc = "fuzz" \/ (queue \cup resume) \subseteq empty)

\* "If _resume/ already exists, the current queue/ may be incomplete due to an
\* earlier abort, so we want to use the old _resume/ dir instead": what is used
\* is complete, wherever the abort was.
ResumeDirComplete ==
  pc = "fuzz" /\ torn \subseteq {"nuke"} => found \subseteq Ran(queue_buf)
=============================================================================
