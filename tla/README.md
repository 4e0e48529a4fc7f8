# A TLA+ verification of AFL++ and Magma

The repository holds AFL++ (a coverage-guided fuzzer, `src/AFLplusplus`) and a modified Magma (a fuzzing benchmark with
planted bugs, `src/magma`). This directory holds TLA+ specifications of the parts of both whose
correctness depends on the order in which things happen, the configurations that check them with TLC, and proofs that
TLAPS checks. In what follows, source paths are relative to `src/AFLplusplus/src` unless they say otherwise.

## 1. The system

| Part | Where | State it keeps | Who interacts |
|---|---|---|---|
| Canaries and monitor | `magma/magma/src/{canary,storage,monitor}.c`, `magma/magma/run.sh` | a memory-mapped file with two buffers and a flag; one poll file per interval | the target, the monitor, the campaign script; each may be killed and started again |
| Captain | `magma/tools/captain/run.sh` | lock files, campaign directories, flocks | one scheduler and one background shell per campaign |
| Fork server | `afl-forkserver.c`, `afl-fuzz.c`, `instrumentation/afl-compiler-rt.o.c`, `afl-fuzz-state.c` | two pipes, the shared map, process states, pending signals | afl-fuzz, the servers inside the builds of the target, their children |
| Coverage | `afl-fuzz-bitmap.c`, `afl-fuzz-run.c`, `afl-fuzz-init.c`, `afl-fuzz-redqueen.c` | three virgin maps, checksums and calibration state of the entries | one process, over executions that may end in any way and vary |
| Session | `afl-fuzz-init.c`, `afl-fuzz.c` | `queue/`, `_resume/`, `target_hash`, `fastresume.bin` | successive sessions, each of which may be killed |
| Test case cache | `afl-fuzz-queue.c`, `afl-fuzz-run.c` | an array of entries and six counters | one process, but its current entry, splice partners and trims share the buffers |
| Favored set | `afl-fuzz-queue.c`, `afl-fuzz-one.c`, `afl-fuzz-init.c`, `afl-fuzz.c` | winner of each edge, reference counts, kept traces, pending counters | one process over a long sequence of calibrations, cullings and cycles |
| Main node election | `afl-fuzz-run.c`, `afl-fuzz.c` | a marker file per instance, a flag in memory | all instances of a parallel campaign, through a shared directory only |
| Queue import | `afl-fuzz-run.c`, `afl-fuzz-init.c`, `afl-fuzz-bitmap.c` | `.synced/X`, `.last`, `.max` | two instances: one writes its queue while the other lists and reads it |

What is hard here is the same in all of them: nothing takes a lock that covers a whole operation. Shared memory is
guarded by one flag, processes coordinate through files and signals, and any of them can be killed between two steps.
`PROJECT.json` lists the hazards with the line at which each one bites and the properties that would catch it.

The other parts (section 5) are listed in `PROJECT.json` with the reason why they are not modelled. The features that the top-level
README describes as the course project's own (LCF-S, LCF-T, the adaptive schedules) are on other branches and not in this tree.

## 2. Modules

Each component module declares its constants, state, one action per step of the code and its properties. `MC*.tla`
extends it for TLC, with a symmetry set where model values are interchangeable and no liveness is checked. Definitions keep the source's names
where they can; `PROJECT.json` maps each to its lines. An operator defined just before another, and commented as a
mutant or named for a mistake (`CopyShort`, `FreeAny`), is a wrong variant used to show that the properties notice it;
nothing in the specification refers to it.

### Canary, MCCanary, CanaryProofs

`magma_log` is split at every access to the shared file that another process could see: finding the record, `reached`,
`triggered`, the test of the flag, each record of the copy, publication. The monitor's `fetch_file` is split
in the same way, with the creation of the file (create, `ftruncate`, `memset`) as three steps. `Kill` takes the target away
at any of them, `Restart` all processes. Each `memcpy` goes record by record, which is the granularity the code depends on: a
torn single counter would need a 64 bit store to be torn. One target process runs at a time, as under a fork server; several
concurrent producers, which the benchmark's documentation rules out, are not modelled.

### TestcaseCache, MCTestcaseCache, TestcaseCacheProofs

`queue_testcase_get` is a loop of `Evict` steps followed by `Place`; a victim is any slot the random draw accepts. Around it
`fuzz_one` picks an entry, loads it, perhaps trims it in one of the three ways the code has (in place, after a
post-processor, by a custom mutator), loads it again, and splices others. A buffer is its allocated size and
the version of the file it holds; lengths are small numbers, differences of lengths wrap at `U32` and the accounted size at `U64`, as in the
code. A custom mutator or a post-processor may leave the data longer than it was. One case is cut off there: a post-processor that returns more
than the cached buffer has room for (`Overruns`). The model records that in `overrun` and goes on as if nothing lay behind the buffer.

### RunTarget, ForkServer, Startup, Lifecycle, MCLifecycle, LifecycleProofs, StartupProofs

`RunTarget` is what callers rely on: one answer per request, with a verdict that input can have and a coverage map of that
input only. `ForkServer` has the three kinds of process, the two pipes as FIFO sequences, `waitpid` with and without
`WUNTRACED`, signals that stay pending on a stopped process, process ids that are used again, a timeout that may expire at any moment, and the
user's stop at any moment. It is shown to implement `RunTarget` under the refinement mapping `Service`. `KillSignal`
is the signal for a timed-out child (`AFL_KILL_SIGNAL`). The exits of afl-fuzz on a process id that is not positive, and of a server that
cannot fork or cannot write, are left out.

`Startup` is how the servers come up: `main()` starts the target, then the sanitizer builds, then the CmpLog build, each by the
handshake of `afl_fsrv_start` with `__afl_start_forkserver`, one message per step. When a build needs a larger map than there is
(`Reinit`), servers are killed, the map is made anew and servers are started again, with another environment. A server may die at
any point. Several reads do not look at how much they got; what the code goes on with is then the old value of the variable (the
options word: the complement of the hello) or, where it had none, a choice. A configuration (`Confs`) is `AFL_MAP_SIZE`, the builds
and the size of each, and what they offer. Map sizes are rounded up to multiples of `Unit`, which is 64 in the code.

`Lifecycle` composes the two: after `Handover` the server that was started, or died unnoticed, serves the runs of `ForkServer`.

### Coverage, MCCoverage, CoverageProofs

One judgement of an execution, from `common_fuzz_stuff` through `save_if_interesting` with its jumps (`queue`, `fault`, `rerun`,
`crash` are its labels) and into `calibrate_case`, whose loop is one step per run. Around it are the dry run of the seeds, the
recalibration of entries that failed, and the CmpLog stage as far as it swaps virgin maps. Whether the trace in the map is
already classified and counted is kept as the code keeps it, in flags. The target is arbitrary and need not be deterministic: every run
ends in any way with any of the traces. A virgin byte is the set of its bits and counts are bucketed by `CountClass`, so a new
hit count and a new edge differ. `shown`, `crash_seen`, `crash_kept`, `hang_seen` and `hang_kept` are history variables.

### Session, MCSession, SessionProofs

The output directory over several sessions. Every file that is deleted, linked, created or written is a step, and `Kill` may come
between any two. `Start` is a resume with any build of the target, with or without `AFL_NO_FASTRESUME`. A file is its id and the
rest of its name, which is what directories are sorted by; a file that was created and not written is in `empty`. A
record of `fastresume.bin` is the name of the entry it was made for, and the virgin maps are the set of builds they and the records come from
(`maps`). A dump of another build may be of another size, so that reading it ends the session (`LoadOtherMap`). Ids stay below
1000000, where names of six digits sort as their numbers do. `found`, `torn` and `outdated` are history: what was ever queued, which of the two
dangerous deletions a kill has cut short, and whether a session ended and left behind a dump that is not of its build.

### Favored, MCFavored

A trace is a set of edges, a cost the product of length and execution time. `Score` and `Rescored` are the two contests
for an edge, written as folds over the edges in map order, because the order decides what is freed. `Cull` is
`cull_queue` with `mark_as_redundant`; the main loop and `fuzz_one` supply the order in which entries are
calibrated, skipped, trimmed, abandoned and found. A trim leaves an entry shorter or longer (`grown` is history: the trim of the
entry made it longer), a recalibration may end without coverage (`RecalibrateNoBits`). A session begins with a dry run; one that takes its
reference counts from `fastresume.bin` is not modelled here. The schedules are told apart by what they compare
(`Rules`); with a fixed seed (`-s`) lengths are compared under every schedule, which is not modelled. After a change of schedule with nothing new to execute, the coverage map holds whatever
trace was executed last, hence any one.

### MainNode, MCMainNode, SyncProofs

Every look at another instance's directory is a step, and so is the removal of one's own marker after such a look.
`Start` distinguishes fresh sessions, which run `check_sync_fuzzers`, from resumed ones, which do not. Its marker is created where the
code creates it: under the path it last looked at. An uninitialised path is taken to lie outside the sync directory. The directory of an
instance and, for `-M`, its marker appear in one step.

### SyncQueue, MCSyncQueue, SyncProofs

One source and one reader. A file is its id, its content, and whether its name says that it came from the reader. The source creates a file
and then writes it (`cut` is the position of the one being written), and replaces the file of a trimmed entry, by truncating it or by
removing it and creating it again (`Trim`, `Recreate`, `Write`). It may start afresh, or be resumed at any of these points, in which case its
files disappear and come back one by one, without the empty ones. The reader takes a listing and works through it, and may be stopped.
`lost` and `missed` are history: the cases that the current sync, or an earlier one, found absent or empty and passed. File times matter in
one comparison only, so time is one bit: whether the source's `cmdline` was written within the current second.

### Captain, MCCaptain, CaptainProofs

One shell per campaign, from `start_ex` to `release_workers`, and the scheduler. A lock file is an inode: `mutex()` opens
a name, locks what it opened, and removes the name when its shell exits. The flocks on the campaign directories
belong to directories, so one that is removed or renamed takes its lock with it. `mv` is a rename, which it is as long as the cache and the
archive are on one file system.

## 3. Runs

A module's switches (an environment variable, how instances are started, whether results are archived) are variables that
`Init` chooses from a constant set and no step changes, so that one run covers all of their values. States are distinct
states; every run takes less than four minutes with two workers.

| Run | Instance | What it shows |
|---|---|---|
| `canary` | 2 bugs, 2 records, 1 counted call, 2 polls; 270 k states | Poll files tell one monotone, consistent history; a snapshot is published whole and not touched until fetched; poll files are kept; counts reach a poll file while canary calls complete |
| `cache` | 3 entries of lengths 1, 2 and 4, limit 7 bytes or 4 entries until it is learned, 2 trims; 632 k | Slots, counters and buffers agree; `in_buf` is never freed; contents follow files; memory stays within its limit; a load ends, even when the accounted size can never fall below the limit again |
| `forkserver` | 97 configurations of target, sanitizer and CmpLog builds, with maps that fit, that have to be remade once or twice, or that are refused; then one input each that returns, crashes and hangs, 2 process ids, 2 iterations, persistent or not; 238 k | After the start both sides agree on map, input and dictionary, or a server has died; a refusal has a cause; the start ends. The runs then implement `RunTarget`, no process is left unwaited, and every run returns, whatever the target does and even if its server is gone |
| `favored` | 3 entries, 2 edges, 2 lengths, under EXPLORE and FAST, cycling or not, redundant entries disabled or not; 1.4 M | Reference counts and pending counters are exact; winners are cheapest where no trim has lengthened an entry; culling covers what it can know; without cycling the smallest favored entry is fuzzed |
| `main` | 1 `-M` and 2 `-S`, fresh and resumed, stops and crashes; and 3 `-S`, resumed, clean stops; 131 k | Temporary main nodes step down for good for a `-M` instance that stays; without crashes and fresh starts markers agree with flags and there is always a main node again |
| `sync` | a quiet source with 3 cases and 1 trim, the reader stopped once; 2 cases with restarts and resumes on both sides; and 2 cases with a source interrupted while it trims; 595 k | From a steady source nothing below the counter was passed over but what was just being rewritten, and all is imported; from any other, as long as its ids have no gap, the reader never gets stuck |
| `coverage` | 2 edges, 4 traces, 7 sets of options, 1 or 2 seeds, 1 find besides the combined input, at most 1 hang and 2 crashes; 2.4 M | The virgin map has lost exactly what runs of queued inputs have shown; what a new crash or hang shows is kept; one of several seeds with the same trace stays |
| `session` | 2 builds, 2 seeds, 3 entries, 2 kills, any number of sessions; 1.7 M | Entries survive, ids are not used twice, records belong to their entries and, with the virgin maps, to the build that runs, and the fuzzer can always be started again |
| `captain` | 3 campaigns of 1, 1 and 2 CPUs, of 3, archived or moved; 602 k | Campaigns have their own directories and CPUs, although the mutex does not exclude; no lock file is left; every campaign ends |

Three more runs each show a place where the code does something other than a comment beside it says;
`PROJECT.json` quotes the line under `findings`.

| Run | What happens |
|---|---|
| `main_fresh` | A marker is created in another instance's directory, and no running instance is main |
| `sync_restart` | A reader that syncs more than a second after a fresh start of the source takes it for the old one and goes on from its old counter, above files it never looked at (`RestartNoticed`; a check made before `.last` is written anew would notice) |
| `session_nuke` | A kill during `nuke_resume_dir` leaves part of `_resume/`; the next start deletes the complete `queue/` and resumes from the part |

Other places where the models behave differently from a nearby comment. No run is kept for them, but each follows from the
actions of the module, and several are why a property carries a condition:

* `TestcaseCache`: `q_testcase_cache_size` drifts from the bytes cached, since in-place trims are not accounted and a larger shrink
  is added as an unsigned 32 bit difference (`afl-fuzz-queue.c:1496`). `LoadsWithinLimit` is about the memory really allocated. A
  post-processed test case that is longer than the cached buffer is copied into it all the same (hence `overrun` in `CachedIsFile` and
  `LoadsWithinLimit`).
* `Canary`: between its creation and `ftruncate` the shared file is empty, and a process that maps it then dies at the first access (`monitor.c:184`); the properties hold
  through such deaths.
* `TestcaseCache`: `AFL_TESTCACHE_ENTRIES` of 1 or 2 leaves no candidate for the search of a victim, which then has no end (excluded by `RoomForVictim`).
* `ForkServer`: with `KillSignal = "TERM"` a child that stops just before the signal arrives leaves server and fuzzer waiting for good
  (`RunReturns` fails), and a stop between `fork()` and the assignment of its result leaves the child running.
* `Startup`: a sanitizer build that needs a larger map than there is is always refused, after the message that maps are re-initialised, because it is
  restarted with the target's size as its limit (`afl-fuzz.c:2762`; the exception in `RefusedForCause`). If the CmpLog build makes the map larger, `ijon_bits`
  still points into the old one, and the target is restarted with `AFL_NO_IJON`. What afl-fuzz took for the options of a server that died before it sent them stays set when that server is started anew
  (the clause on `died` in `StartedRight`).
* `Coverage`: with `AFL_KEEP_TIMEOUTS` a slow run is queued even if it shows nothing new. A timeout that turns out not to be a hang has taken its
  bits off `virgin_tmout` all the same, so a later hang with that trace is not kept (hence `FaultsKept` counts a hang only when the first run had
  the full time).
* `Session`: a kill while a trimmed file is rewritten loses the entry. A dump of another build is not removed, and can be met
  again by its own build; what protects the queue then is the comparison of lengths (`Fits`). The dump is meant to be used for an unchanged target only
  (`afl-fuzz.c:2371`, `docs/Changelog.md:121`). But a session of another build that ends without a dump of its own, because it is killed or
  runs with `AFL_NO_FASTRESUME`, leaves its `target_hash` beside the older dump, and the next session of that build loads it (hence
  `outdated` in `RecordsMatch`).
* `Favored`: an edge may have no favored entry, because its winner's trace was freed by an earlier culling (hence `CullCovers` speaks of kept traces). A seed disabled as a duplicate may still be the winner of its edges and capture them (hence the disabled winners in `CullCovers`);
  a winner that a trim made longer keeps its edges against cheaper entries (hence `grown` in `WinnerIsCheapest`);
  after a change of schedule an entry may be given another entry's trace, and one that cannot be calibrated may be selected for ever
  (hence the condition on `cycle_schedules`).
* `MainNode`: two temporary main nodes in step can demote and elect themselves for ever, so `MainReturns` says that there is a main node again and again,
  not that one stays. The marker of a killed main node keeps all others from taking over (hence `Tidy`).
* `SyncQueue`: a file that is listed or opened while it is being rewritten is counted as seen but never run (hence `missed`). So are files at an
  off-by-two of the startup limit, and while the source resumes (hence `Steady`). A source killed within a trim drops the empty file when it
  is resumed, which leaves a gap in its ids at which the reader stops for good (hence `Gapless` in `CatchesUp`).
* `Captain`: two shells can be inside `mutex()` at once, since a lock file may be removed and created anew under a waiting shell, and two tar jobs run; they can also be given the same campaign id; the directory locks then keep them apart.
  A campaign whose archive could not be written keeps its directory; no property speaks of what is in it.

### Bounds and why they are enough

* Two bugs and two records show every order of two records in a copy, and a kill between them. One call is counted, but calls of a process that
  has met a bug go on naming records, so both records come into use; the theorems cover all sizes and bounds.
* In the cache three entries give a current one, a victim and a newcomer, a hole below a used slot and a search that starts in the middle. Lengths 1, 2
  and 4 with slack 1 have one shrink that reallocates and one that does not, and `U32` = 16 and `U64` = 256 are larger than the limit. The limit in
  entries takes effect once it has been learned.
* The map sizes 3, 7 and 13 edges against a map of 4, 12 or 16 give every order of the three builds' needs. Configurations other than size are varied one
  or two at a time.
* Four traces on two edges have no edge, one edge with two counts, and both edges: all three results of `has_new_bits`. One calibration run, two if the first differs,
  and two chances let a calibration succeed, vary, fail and be tried again.
* Two kills are needed to cut short a resume and then the resume of what that left. Two seeds and one find let a directory be partly moved.
* Two process ids let an id be used again for a different child, and two iterations let a child be woken once and then end.
* Two edges and three entries let a winner lose one edge and keep the other, and a third entry cover both. `n_fuzz` has two values: a contest
  only compares it, and any outcome of the comparisons of one entry with the winners can be had with two.
* Three test cases let the reader be stopped with one file behind it and one before it, and one trim can fall on any of them at any point of a
  sync. A second trim would only add to `missed`.
* Three instances are the least with which two temporary main nodes and a third one that looks at both exist. With the `-M` instance each starts once
  and one has a directory from an earlier campaign.
* Three campaigns are needed for a lock file with a holder, a waiter and a newcomer, and one that needs two CPUs makes the scheduler wait.
* `MaxHits`, `MaxPolls`, `MaxTrims`, `MaxItems`, `MaxLevel`, `MaxFinds`, `MaxEntries`, `MaxKills`, `MaxStarts`, `MaxStops`, `Trims`, `Resumes`, `SourceSessions` and `MaxId` only
  bound how long the model runs. At its bound the clock of `Canary` stands still, so `PollsKept` speaks of the names before it.

Deadlock is checked, except in `MainNode`, where all instances may have ended; `Captain` and `ForkServer` have an explicit `Finished`, `Lifecycle` a `Refused` and `Coverage` an `Exited`.

### Fairness

* `Canary`: the monitor and a call of `magma_log` that has begun go on; the container is restarted finitely often. Nothing makes the target call
  a canary, so `CountsReachPolls` assumes that calls complete again and again. It is checked without fatal canaries.
* `TestcaseCache`: a started `queue_testcase_get` goes on. The draw of a victim is not assumed fair: any victim will do.
* `ForkServer`: afl-fuzz and the server are scheduled. Nothing is assumed of the target, which may hang at any point.
* `Startup`: the processes are scheduled. A server need not die, and nothing bounds when it does.
* `Session`: a process that is not killed goes on, and the user starts the fuzzer again. Kills are bounded by `MaxKills`.
* `Coverage`: none; only safety is checked.
* `Favored`: the loop goes on from where it is, so that the dry run and the finds of one entry end, and its random skips do not fall on the same side for ever
  (strong fairness of fuzzing or of a custom mutator's refusal).
* `MainNode`: a running instance keeps calling `sync_fuzzers`. Nothing makes one start or end.
* `SyncQueue`: time passes, a file that was created or removed for a trim is written, a resumed source links its files back, the reader keeps syncing. The source need not find anything.
* `Captain`: shells go on; a campaign ends by its timeout.

## 4. Proofs

Each proof module extends its component and proves, from the named assumptions of that component, an inductive invariant and what follows from it. No bound of
section 3 is used: the theorems hold for all values of the constants that satisfy the assumptions.

| Module | Theorem | Statement |
|---|---|---|
| `CanaryProofs` | `Invariance`, `TypeCorrect` | `Spec => []IInv`, `Spec => []TypeOK` |
| | `PollsAreMonotone` | `Spec => []PollsMonotone` |
| | `TriggeredIsReached` | `Spec => []TriggeredWasReached` |
| | `PublishesWhole`, `SnapshotsAreStable`, `PollsAreKept` | the three action properties |
| `TestcaseCacheProofs` | `SlotsAlwaysAgree` | `Spec => []SlotsAgree` |
| | `InBufAlwaysValid` | `Spec => []InBufValid` |
| | `CacheHoldsFiles` | `Spec => []CachedIsFile` |
| `LifecycleProofs` | `NoZombieLeft`, `NoZombieInLife` | `Spec => []NoneLeftBehind`, and the same of `LifeSpec` |
| | `RunsAreAnswered`, `LifeIsService` | `Spec => AnswersItsRequest`, and the same of `LifeSpec`: both implement `RunTarget` |
| `StartupProofs` | `StartsRight` | `LifeSpec => []StartedRight` |
| | `RefusesForCause` | `LifeSpec => []RefusedForCause` |
| `CoverageProofs` | `CoverageIsExact` | `Spec => []SeenIsShown` |
| | `NewFaultsKept` | `Spec => []FaultsKept` |
| | `EveryTraceRepresented` | `Spec => []TracesRepresented` |
| `SessionProofs` | `NoEntryLost` | `Spec => []EntriesSurvive` |
| | `IdsGivenOnce` | `Spec => []OneEntryPerId` |
| | `RecordsAreOwn` | `Spec => []RecordsMatch` |
| `SyncProofs` | `MarkersAreFlags` | `NodeSpec => []MarkerIsFlag` |
| | `NothingPassedOver` | `SyncSpec => []SteadyLookedAt` |
| `CaptainProofs` | `CampaignsOwnDirectories` | `Spec => []OwnDirectories` |
| | `CampaignsOwnCpus` | `Spec => []OwnCpus` |
| | `NoLockLeft` | `Spec => []LocksGone` |

Every inductive invariant was checked with TLC on the instance of section 3 before it was proved. A proof has one lemma per action, and lemmas
for what several actions leave alone. `SyncProofs` is about the two modules at work in `sync_fuzzers`, `MainNode` and `SyncQueue`, and extends both. In every proof module Zenon is the
default prover (`USE Zenon`): most steps are first-order, and those that need arithmetic, records or sequences cite SMT.

### Assumptions

Most assumptions only give the constants their types: `BufferAssumption`, `CacheAssumption`, `ForkServerAssumption`, `StartupAssumption`, `SessionAssumption`,
`NodeAssumption`, `SyncAssumption`, `CaptainAssumption`, `CoverageAssumption`. Some say more.

* `RoomAssumption`: there are no more bugs than records, since `stor_get` does not look for the end of the buffer.
* `RoomForVictim`: the cache is allowed at least three entries, without which the search for a victim has no end (section 3).
* `InodeAssumption`: there are more inodes than open lock files, so that one that is open is not given to another file. A file system guarantees that.
* `CaptainAssumption` also has no campaign ask for more CPUs than there are, which `captainrc` has to see to.
* `StartupAssumption` also has what `config.h` has: the fixed sizes are multiples of `Unit`, and `MAP_SIZE` is at most the default size of the shared map and at most what IJON needs. The builds of a
  configuration differ, the target comes first and CmpLog last, and a build with the old handshake has neither shared-memory input nor IJON, nor more edges than `MAP_SIZE` (it cannot say so).
* `CoverageAssumption` also wants at least two chances of calibration (`CAL_CHANCES` is 3) and the long calibration no shorter than the short one.

### The inductive invariants

None of the properties is inductive.

**Canary.** Monotone polls need to know that what the monitor is about to write is above all earlier polls, hence that
the consumer buffer is whenever the monitor may read it, hence that the producer buffer always is, and that the
copy in progress is a prefix copy. `IInv` says this as a chain: poll files are below the monitor's copy, that below the consumer buffer,
and that below the producer buffer, each at the program points where it is to be trusted (`ChainInv`, with `CopyInv`
and `FetchInv` for copies under way). `SetupInv` says that nothing has been polled before the `memset`, the one step that
takes counts away. `SoundInv` carries the window between the two additions of a call. `WellFormed` makes a record's place its
bug's for ever, so that comparing by position is comparing by bug, and `ClockInv` keeps new poll files apart from old ones. There are also lemmas on the
order `Leq`, on `stor_get` and on the maximum of a set of poll times.

**TestcaseCache.** That a load stores inside the array depends on all counters at once. `ArrayInv` relates them: slots in use lie below `max_count`, all
slots below `smallest_free` are in use, `cache_count` is the number of used slots (which eviction and placement change by one, a fact about cardinalities), and after the limit has
been learned the array has one slot more than it. `GetInv` is about a load under way: the entry has no slot yet and the slot the search starts from is free. `FuzzInv` follows `in_buf`
through `fuzz_one`, with `overrun` excusing only the size and content of buffers, never the slots; the one place where it could dangle is the trim, where it must be known whether the entry was cached. The search upwards
for a free slot ends by a least-element argument over the slots of the array.

**ForkServer.** `PipeInv` lists what can be on the two pipes at each point of `afl_fsrv_run_target` and of the server's loop; it is what ties an answer to
its request. `ServerInv` and `OneChild` say what the server knows of its child, from which `NoneLeftBehind` follows. For the refinement the verdict has to be
true: `TraceInv` follows the map from the request on and says what a child that ended has left in it, and `Outcome` makes the status tell about the input only if
neither a timeout nor the stop interfered. `StopInv` is needed for persistent children: one that is told to continue is stopped and has no signal pending, unless it was
killed, in which case the next request says so. The refinement maps each step to a step of `RunTarget` or a stutter: a return of `afl_fsrv_run_target` is the answer,
everything else is hidden. `LifeInv` adds that until the handover no run has been made, so the theorems hold of the composed specification, in which the server may be dead from the start.

**Startup.** What afl-fuzz knows of a server when fuzzing begins was settled several handshakes, and perhaps a restart, earlier. `TalkInv` lists what is in the pipe for each place of afl-fuzz and of
the server, or for the place at which the server died (`Said`, `Where`), so that each read gets what it is taken for, or nothing; `Lost` is the one way of going on without the options. `SizeInv` says how large a
map a server that is being started may have: the first time at least the default and the map there is; when it is started anew, a size that was made to fit (`Bound`), and as long as no server dies the same as it
said before (`Kept`). `MainInv` keeps this for the target while later builds make the map larger. `PastInv` says that servers that are done with stay as `StartedRight` wants them (`Settled`), through the restarts of
others; it is why the target is restarted with every build that needs a larger map (`Restart`). `OnceInv` counts the dictionary. A target that is taken for one with an IJON area because it died too early
(`Mistaken`) is the subtle case: its map is then at most `MAP_SIZE`, too small for such an area, and `Fits` refuses it. `StartLife` carries the invariant to the handover of `Lifecycle`.

**Coverage.** `SeenIsShown` is about the moments between two executions. In between, bits are off the virgin map whose input is not queued yet (`Pending`), and during the CmpLog stage the map is an old one
that will be intersected with the one kept aside (`Restored`); `MapInv` says that the map so corrected has lost exactly what was shown. It needs `TraceInv`, which ties the flags `classified` and `counted` to what the
map really holds, and `ChecksumsShown`: an entry with the same checksum is not compared again, which loses nothing because the trace behind the checksum has been taken off. `FaultInv` does the same for the two maps of faults, with the crash
or hang at hand between being seen and being saved. `EntryInv` follows the seeds through the dry run; that one of several with the same trace stays enabled is a least-element argument over their lengths (`ShortestLeft`).

**Session.** `EntriesSurvive` says only what a session that is fuzzing has. The invariant has to follow the entries through the start: `Links` says which files each phase finds in
`queue/` and in `_resume/` (during the pivot, `queue/` holds the links of the first files of the listing), and `Kept` says that, if nothing was cut short, files with content are exactly the
entries ever found, numbered without a gap. That there is no gap makes the next id new, and the list of entries a function of the set. The records of `fastresume.bin`, though possibly those of
another build and of a much earlier session, are those of the first entries; so equal length, all that the code compares, means equal. `SortedLists`
shows that sorting a directory lists every file once, by a pigeonhole argument over ranks. `Builds` follows the build of the dump from one session to the next: unless a session has left an older
dump behind (`outdated`), it is the one whose hash is stored, so a hash that compares equal means maps of the same build.

**MainNode.** `MarkerIsFlag` rests on the order of writes: the flag is cleared before the marker is removed (`FlagFirst`), a marker is only written into a directory that exists
(`KnownDirs`), and resumed instances do not run `check_sync_fuzzers`, whose marker goes astray (`TidySkipsCheck`).

**SyncQueue.** What the reader has passed in its listing must be what it has passed in the queue, although the file that is being trimmed may be missing from the listing or found empty. `SteadyScan`
says where each file up to the reader's position plus the rest of its listing is: known, missed, lost in this sync, or still listed (`DealtWith`). It needs that ids are positions in the queue
(`Gapless`), so that the reader does not accept a file beyond one it has not been offered, and that the queue only grows. When the sync ends, what was lost becomes missed, and the counter is covered.
`Relinking` says that what a resumed source has linked back is the beginning of its old queue.

**Captain.** That campaigns do not share a directory does not depend on the mutex, which may be held twice: a shell goes on only with a directory it has flocked,
and `DirInv` says that what it flocked remains so under its ids, through removal and renaming by others. `CpuInv` follows each CPU from the pool to the scheduler, to a campaign and back. `MuxInv` says that
a lock file always has a shell left that will remove it by name, so that none remains in the end.

### What is only model-checked

* Liveness: `CountsReachPolls`, `GetReturns`, `RunReturns`, `StartupEnds`, `SmallestGetsFuzzed`, `TidyMainReturns`, `MainYields`, `SteadyImportsAll`, `CatchesUp`, `CampaignsEnd` and `Resumes`. The
  provers have no rule for fairness.
* `LoadsWithinLimit`, whose sum of buffer sizes, and the invariants of `Favored`, whose contests, are folds over data; they would need induction over the data.

## 5. Not modelled

Inside the modelled parts:

* Fork server: the extended old handshake (`FS_OPT_*`), QEMU, FRIDA and Nyx, `AFL_SKIP_BIN_CHECK`, a stop during the start, persistent recording, the
  content of the dictionary, and `AFL_OLD_FORKSERVER` with a shared-memory harness or IJON.
* Coverage: `n_fuzz`, counters that are only displayed, non-instrumented mode, the stop signal, empty inputs, file names.
* Session: starting over in an old directory, backups of crashes, hangs and IJON maxima (named after the second, so that two resumes within one use the same name), `deterministic_done` marks, copying where linking fails,
  files that are written in part, ids of seven digits, `AFL_SHA1_FILENAMES`.
* Test case cache: what a copy past the end of a buffer overwrites. Favored set: fixed seeds and fast-resumed sessions.
* Canary: the monitor's watch mode. Captain: interruption by a signal, a move across file systems. Sync: foreign directories.

Whole parts:

* Mutation stages, colorization and input-to-state matching are random or heuristic edits of byte strings. Beyond what they leave in the queue and the
  virgin maps, which `Coverage` has, they promise only to stay within a buffer of up to a megabyte, which a small instance says nothing about.
* Seed selection builds its alias table from floating-point weights, for which TLC has no arithmetic.
* Dictionaries, skipped deterministic bytes and IJON's table of maxima are sequential tables of one function each, with properties that a unit test reaches.
* Compiler wrappers and LLVM passes rewrite command lines and code and keep no state at run time; the stand-alone tools are sequential programs around one buffer.
* Statistics, user interface, build recipes, reports and the emulator back ends are output, straight-line scripts, or code in other projects.

These make up most of the lines of the repository, which is why the modules cover a small share of it.
