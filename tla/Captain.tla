------------------------------ MODULE Captain ------------------------------
(***************************************************************************)
(* Magma's captain (tools/captain/run.sh): campaigns of one program, each  *)
(* a background job with CPUs and two directories of its own.              *)
(*                                                                         *)
(* Everything is coordinated through files: a CPU is taken by creating its *)
(* lock file, ids are handed out, and archives written, one at a time      *)
(* under mutex(), and a job flocks the directories of its two ids.         *)
(* mutex() flocks a file that it creates, and removes that file by name    *)
(* when its shell exits, after the lock was released; a lock belongs to    *)
(* the file that was opened (its inode), not to the name.                  *)
(***************************************************************************)
EXTENDS Naturals, FiniteSets

CONSTANTS
  NumJobs,      \* campaigns to run
  Cpus,         \* WORKER_POOL
  Workers,      \* CAMPAIGN_WORKERS of each campaign
  NoArchive,    \* settings of NO_ARCHIVE to consider
  Inodes,       \* identities of lock files
  NoInode,      \* the name does not exist
  MaxId         \* bound: campaign ids

\* More CPUs per campaign than there are would never be allocated.
ASSUME CaptainAssumption ==
  /\ NumJobs \in Nat
  /\ IsFiniteSet(Cpus) /\ Workers \in [1 .. NumJobs -> 1 .. Cardinality(Cpus)]
  /\ NoArchive \in SUBSET BOOLEAN
  /\ NoInode \notin Inodes
  /\ MaxId \in Nat

\* There is an inode for every lock file that is named or open.
ASSUME InodeAssumption == IsFiniteSet(Inodes) => Cardinality(Inodes) > NumJobs + 1

\* Campaigns, in the order in which captainrc lists them; 0 is nobody.
Jobs == 1 .. NumJobs
NoJob == 0

Muxes == {"cid", "tar"}
Kinds == {"cache", "ar"}
Ids == 0 .. MaxId

VARIABLES
  held,    \* CPUs the scheduler has collected for the next job (WORKERSET)
  locked,  \* CPUs with a lock file
  cpus,    \* CPUs of each started job (AFFINITY)
  pc,      \* where each job is
  kind,    \* which id it is getting: in CACHEDIR or in ARDIR
  cid,     \* its ids (CACHECID, ARCID)
  file,    \* the lock file that each mutex name leads to
  fd,      \* the lock file that each job has open as descriptor 200
  owner,   \* who holds the lock of each lock file
  dirs,    \* the campaign directories that exist
  flocks,  \* who holds the flock on each of them
  full,    \* archive ids that hold a campaign's results
  no_archive  \* NO_ARCHIVE, which does not change

files == <<file, fd, owner>>
vars == <<no_archive, held, locked, cpus, pc, kind, cid, files, dirs, flocks, full>>

Places == {"new", "open", "wait", "list", "mkdir", "rm", "take", "take2",
           "run", "tarwait", "tar", "drop", "leave", "exit", "free",
           "done"}

\* In the critical section of mutex().
InCid(j) == pc[j] \in {"list", "mkdir"}
InTar(j) == pc[j] = "tar"

\* In launch_campaign, under both flocks.
Launched(j) == pc[j] \in {"run", "tarwait", "tar", "drop"}

TypeOK ==
  /\ held \in SUBSET locked
  /\ locked \in SUBSET Cpus
  /\ cpus \in [Jobs -> SUBSET Cpus]
  /\ pc \in [Jobs -> Places]
  /\ kind \in [Jobs -> Kinds]
  /\ cid \in [Jobs -> [Kinds -> Ids]]
  /\ file \in [Muxes -> Inodes \cup {NoInode}]
  /\ fd \in [Jobs -> Inodes \cup {NoInode}]
  /\ owner \in [Inodes -> Jobs \cup {NoJob}]
  /\ dirs \in [Kinds -> SUBSET Ids]
  /\ flocks \in [Kinds -> [Ids -> Jobs \cup {NoJob}]]
  /\ full \in SUBSET Ids
  /\ no_archive \in NoArchive
  /\ \A j \in Jobs : InCid(j) \/ InTar(j) => owner[fd[j]] = j

Init ==
  /\ held = {} /\ locked = {}
  /\ cpus = [j \in Jobs |-> {}]
  /\ pc = [j \in Jobs |-> "new"]
  /\ kind = [j \in Jobs |-> "cache"]
  /\ cid = [j \in Jobs |-> [k \in Kinds |-> 0]]
  /\ file = [m \in Muxes |-> NoInode]
  /\ fd = [j \in Jobs |-> NoInode]
  /\ owner = [i \in Inodes |-> NoJob]
  /\ dirs = [k \in Kinds |-> {}]
  /\ flocks = [k \in Kinds |-> [i \in Ids |-> NoJob]]
  /\ full = {}
  /\ no_archive \in NoArchive

Goto(j, place) == pc' = [pc EXCEPT ![j] = place]

(***************************************************************************)
(* The scheduler: one allocate_workers at a time, then start_ex &.         *)
(***************************************************************************)
Begun == {j \in Jobs : pc[j] # "new"}

\* Campaigns are started in their order.
NextJob == Cardinality(Begun) + 1

FreeAny == Cpus \ held

\* The lock files that can be created with noclobber.
Free == Cpus \ locked

Allocate(c) ==
  /\ Jobs # Begun
  /\ Cardinality(held) < Workers[NextJob]
  /\ c \in Free
  /\ held' = held \cup {c}
  /\ locked' = locked \cup {c}
  /\ UNCHANGED <<no_archive, cpus, pc, kind, cid, files, dirs, flocks, full>>

\* All are taken: inotifywait returns after a second and the loop goes on.
Poll ==
  /\ Jobs # Begun
  /\ Cardinality(held) < Workers[NextJob]
  /\ Free = {}
  /\ UNCHANGED vars

StartEx(j) ==
  /\ Jobs # Begun /\ j = NextJob
  /\ Cardinality(held) = Workers[j]
  /\ cpus' = [cpus EXCEPT ![j] = held]
  /\ held' = {}
  /\ Goto(j, "open")
  /\ UNCHANGED <<no_archive, locked, kind, cid, files, dirs, flocks, full>>

(***************************************************************************)
(* mutex().                                                                *)
(***************************************************************************)
Unused == Inodes \ ({file[m] : m \in Muxes} \cup {fd[j] : j \in Jobs})

\* 200> opens the file, or creates it.
Open(j, mux) ==
  /\ file' = [file EXCEPT ![mux] =
                IF @ = NoInode THEN CHOOSE i \in Unused : TRUE ELSE @]
  /\ fd' = [fd EXCEPT ![j] = file'[mux]]
  /\ UNCHANGED owner

LockFree(j) == owner[fd[j]] = NoJob

Lock(j) ==
  /\ LockFree(j)
  /\ owner' = [owner EXCEPT ![fd[j]] = j]
  /\ UNCHANGED <<file, fd>>

\* The subshell ends, and with it the last descriptor.
Unlock(j) ==
  /\ owner' = [owner EXCEPT ![fd[j]] = NoJob]
  /\ fd' = [fd EXCEPT ![j] = NoInode]
  /\ UNCHANGED file

RemovedNot(mux) == file[mux]

\* trap 'rm -f "$LOCKDIR/$mux"' EXIT
Removed(mux) == NoInode

Remove(mux) ==
  /\ file' = [file EXCEPT ![mux] = Removed(mux)]
  /\ UNCHANGED <<fd, owner>>

(***************************************************************************)
(* start_campaign: an id in CACHEDIR, an id in ARDIR, the flocks on both.  *)
(***************************************************************************)
OpenCid(j) ==
  /\ pc[j] = "open"
  /\ Open(j, "cid")
  /\ Goto(j, "wait")
  /\ UNCHANGED <<no_archive, held, locked, cpus, kind, cid, dirs, flocks, full>>

LockCid(j) ==
  /\ pc[j] = "wait"
  /\ Lock(j)
  /\ Goto(j, "list")
  /\ UNCHANGED <<no_archive, held, locked, cpus, kind, cid, dirs, flocks, full>>

\* get_next_cid: the first id without a directory.
NextId(k) == CHOOSE i \in Ids : i \notin dirs[k] /\ \A h \in 0 .. (i - 1) : h \in dirs[k]

List(j) ==
  /\ pc[j] = "list"
  /\ \E i \in Ids : i \notin dirs[kind[j]]
  /\ cid' = [cid EXCEPT ![j][kind[j]] = NextId(kind[j])]
  /\ Goto(j, "mkdir")
  /\ UNCHANGED <<no_archive, held, locked, cpus, kind, files, dirs, flocks, full>>

MkDir(j) ==
  /\ pc[j] = "mkdir"
  /\ dirs' = [dirs EXCEPT ![kind[j]] = @ \cup {cid[j][kind[j]]}]
  /\ Unlock(j)
  /\ Goto(j, "rm")
  /\ UNCHANGED <<no_archive, held, locked, cpus, kind, cid, flocks, full>>

RemoveCid(j) ==
  /\ pc[j] = "rm"
  /\ Remove("cid")
  /\ kind' = [kind EXCEPT ![j] = "ar"]
  /\ Goto(j, IF kind[j] = "cache" THEN "open" ELSE "take")
  /\ UNCHANGED <<no_archive, held, locked, cpus, cid, dirs, flocks, full>>

FlockAny(j, k) == TRUE

\* flock -xn on the directory of the id, as it is now under that name.
FlockFree(j, k) == flocks[k][cid[j][k]] = NoJob

\* flock opens the directory.  Where there is none it creates a file, which is
\* as good a lock; that the campaign cannot use it is left out.
Take(j, k, then) ==
  /\ FlockFree(j, k)
  /\ flocks' = [flocks EXCEPT ![k][cid[j][k]] = j]
  /\ dirs' = [dirs EXCEPT ![k] = @ \cup {cid[j][k]}]
  /\ Goto(j, then)
  /\ UNCHANGED <<no_archive, held, locked, cpus, kind, cid, files, full>>

Released(j) == [k \in Kinds |-> [i \in Ids |->
                  IF flocks[k][i] = j THEN NoJob ELSE flocks[k][i]]]

\* Somebody else has the directory: errno_lock, and the loop starts over with
\* new ids.
Retry(j, k) ==
  /\ ~FlockFree(j, k)
  /\ flocks' = Released(j)
  /\ kind' = [kind EXCEPT ![j] = "cache"]
  /\ Goto(j, "open")
  /\ UNCHANGED <<no_archive, held, locked, cpus, cid, files, dirs, full>>

TakeCache(j) == pc[j] = "take" /\ (Take(j, "cache", "take2") \/ Retry(j, "cache"))
TakeAr(j) == pc[j] = "take2" /\ (Take(j, "ar", "run") \/ Retry(j, "ar"))

(***************************************************************************)
(* launch_campaign: the container runs to its timeout, and the results are *)
(* moved or, under the other mutex, archived.                              *)
(***************************************************************************)
\* mv renames, as it does within one file system (CACHE_ON_DISK); across two it
\* would copy.
Move(j) ==
  /\ pc[j] = "run" /\ no_archive
  /\ IF cid[j].ar \in full
       THEN UNCHANGED <<dirs, full>>
       ELSE /\ dirs' = [dirs EXCEPT !.cache = @ \ {cid[j].cache}]
            /\ full' = full \cup {cid[j].ar}
  /\ flocks' = IF cid[j].ar \in full THEN flocks
                ELSE [flocks EXCEPT !.cache[cid[j].cache] = NoJob]
  /\ Goto(j, "exit")
  /\ UNCHANGED <<no_archive, held, locked, cpus, kind, cid, files>>

TarOpen(j) ==
  /\ pc[j] = "run" /\ ~no_archive
  /\ Open(j, "tar")
  /\ Goto(j, "tarwait")
  /\ UNCHANGED <<no_archive, held, locked, cpus, kind, cid, dirs, flocks, full>>

TarLock(j) ==
  /\ pc[j] = "tarwait"
  /\ Lock(j)
  /\ Goto(j, "tar")
  /\ UNCHANGED <<no_archive, held, locked, cpus, kind, cid, dirs, flocks, full>>

\* tar may fail, and then the campaign's directory is kept.
Tar(j, ok) ==
  /\ pc[j] = "tar"
  /\ full' = IF ok THEN full \cup {cid[j].ar} ELSE full
  /\ Unlock(j)
  /\ Goto(j, IF ok THEN "drop" ELSE "leave")
  /\ UNCHANGED <<no_archive, held, locked, cpus, kind, cid, dirs, flocks>>

\* rm -rf "$SHARED": whoever creates it again has another directory.
Drop(j) ==
  /\ pc[j] = "drop"
  /\ dirs' = [dirs EXCEPT !.cache = @ \ {cid[j].cache}]
  /\ flocks' = [flocks EXCEPT !.cache[cid[j].cache] = NoJob]
  /\ Goto(j, "leave")
  /\ UNCHANGED <<no_archive, held, locked, cpus, kind, cid, files, full>>

\* The shell that ran mutex() exits.
Leave(j) ==
  /\ pc[j] = "leave"
  /\ Remove("tar")
  /\ Goto(j, "exit")
  /\ UNCHANGED <<no_archive, held, locked, cpus, kind, cid, dirs, flocks, full>>

Exit(j) ==
  /\ pc[j] = "exit"
  /\ flocks' = Released(j)
  /\ Goto(j, "free")
  /\ UNCHANGED <<no_archive, held, locked, cpus, kind, cid, files, dirs, full>>

FreedNot(c) == {}

\* The lock file that release_workers removes for CPU c.
Freed(c) == {c}

ReleaseWorker(j, c) ==
  /\ pc[j] = "free"
  /\ c \in cpus[j]
  /\ locked' = locked \ Freed(c)
  /\ cpus' = [cpus EXCEPT ![j] = @ \ {c}]
  /\ Goto(j, IF cpus[j] = {c} THEN "done" ELSE "free")
  /\ UNCHANGED <<no_archive, held, kind, cid, files, dirs, flocks, full>>

Schedule == (\E c \in Cpus : Allocate(c)) \/ Poll \/ (\E j \in Jobs : StartEx(j))

Work(j) ==
  \/ OpenCid(j) \/ LockCid(j) \/ List(j) \/ MkDir(j) \/ RemoveCid(j)
  \/ TakeCache(j) \/ TakeAr(j)
  \/ Move(j) \/ TarOpen(j) \/ TarLock(j)
  \/ \E ok \in BOOLEAN : Tar(j, ok)
  \/ Drop(j) \/ Leave(j) \/ Exit(j)
  \/ \E c \in Cpus : ReleaseWorker(j, c)

AllDone == \A j \in Jobs : pc[j] = "done"

Finished == AllDone /\ UNCHANGED vars

Next == Schedule \/ (\E j \in Jobs : Work(j)) \/ Finished

Spec == Init /\ [][Next]_vars

\* Every shell goes on when it can: campaigns end by their timeout, and the
\* scheduler looks for a free CPU at least every second.
FairSpec == Spec /\ WF_vars(Schedule) /\ \A j \in Jobs : WF_vars(Work(j))

\* Two campaigns that run at the same time write to different directories and
\* archive under different ids, although the mutex around get_next_cid does
\* not exclude: the flocks on the directories catch what slips through.
OwnDirectories ==
  \A i, j \in Jobs :
    i # j /\ Launched(i) /\ Launched(j) => \A k \in Kinds : cid[i][k] # cid[j][k]

\* A campaign has the CPUs it asked for, that no other campaign runs on and
\* that the scheduler is not handing out, from its start to its end (and all
\* state keeps its type).
OwnCpus ==
  /\ TypeOK
  /\ \A i, j \in Jobs : i # j => cpus[i] \cap cpus[j] = {}
  /\ \A j \in Jobs :
       /\ cpus[j] \subseteq locked \ held
       /\ Launched(j) => Cardinality(cpus[j]) = Workers[j]

\* When every campaign is over, no lock file is left for cleanup to wait for:
\* it waits for the deletion of each one without a time limit.
LocksGone == AllDone => locked = {} /\ \A m \in Muxes : file[m] = NoInode

\* Every campaign of captainrc gets its CPUs and its ids and ends.
CampaignsEnd == <>AllDone
=============================================================================
