---------------------------- MODULE CaptainProofs ----------------------------
(***************************************************************************)
(* Proofs, for any number of campaigns, CPUs and ids, that campaigns never *)
(* share a CPU or a directory and leave no lock file behind (Captain).     *)
(***************************************************************************)
EXTENDS Captain, FiniteSetTheorems, TLAPS

\* Most steps are first-order; those that need arithmetic or records cite SMT.
USE Zenon

\* A job has the lock file open that it waits for or holds.
HasFd ==
  \A j \in Jobs :
    pc[j] \in {"wait", "list", "mkdir", "tarwait", "tar"} => fd[j] \in Inodes

TypeInv == TypeOK /\ HasFd

\* CPUs are handed from the pool to the scheduler to one campaign and back.
CpuInv ==
  /\ \E n \in 0 .. NumJobs : Begun = 1 .. n
  /\ Begun = Jobs => held = {}
  /\ \A i, j \in Jobs : i # j => cpus[i] \cap cpus[j] = {}
  /\ \A j \in Jobs : cpus[j] \subseteq locked \ held
  /\ \A c \in locked : c \in held \/ \E j \in Jobs : c \in cpus[j]
  /\ \A j \in Jobs :
       /\ pc[j] \in {"new", "done"} => cpus[j] = {}
       /\ pc[j] \notin {"new", "free", "done"} => Cardinality(cpus[j]) = Workers[j]

\* What a job flocked stays flocked by it, under the ids that it goes by.
DirInv ==
  \A j \in Jobs :
    /\ pc[j] = "take2" => flocks["cache"][cid[j]["cache"]] = j
    /\ Launched(j) => \A k \in Kinds : flocks[k][cid[j][k]] = j

\* The shell that will remove a mutex's file by name is still there.
MuxInv ==
  /\ file["cid"] # NoInode => \E j \in Jobs : pc[j] \in {"wait", "list", "mkdir", "rm"}
  /\ file["tar"] # NoInode => \E j \in Jobs : pc[j] \in {"tarwait", "tar", "drop", "leave"}

-----------------------------------------------------------------------------
\* A set of ids that is not empty has a least element.
LEMMA LeastElement ==
  ASSUME NEW S \in SUBSET Nat, S # {}
  PROVE  \E i \in S : \A h \in 0 .. (i - 1) : h \notin S
  <1>1. PICK i \in S : \A h \in S : ~(<<h, i>> \in OpToRel(<, Nat))
    BY NatLessThanWellFounded, WFMin
  <1>2. \A h \in S : ~(h < i)
    BY <1>1 DEF OpToRel
  <1> QED
    BY <1>2, SMT

\* get_next_cid returns an id without a directory, if there is one.
LEMMA NextIdIsNew ==
  ASSUME TypeOK, NEW k \in Kinds, \E i \in Ids : i \notin dirs[k]
  PROVE  NextId(k) \in Ids \ dirs[k]
  <1> DEFINE S == Ids \ dirs[k]
  <1>1. S \in SUBSET Nat /\ S # {}
    BY CaptainAssumption, SMT DEF Ids
  <1>2. PICK i \in S : \A h \in 0 .. (i - 1) : h \notin S
    <2> HIDE DEF S
    <2> QED
      BY <1>1, LeastElement
  <1>3. i \in Ids /\ i \notin dirs[k] /\ \A h \in 0 .. (i - 1) : h \in dirs[k]
    BY <1>2, CaptainAssumption, SMT DEF Ids
  <1> QED
    BY <1>3 DEF NextId

\* A mutex file that does not exist can be created.
LEMMA InodeLeft ==
  ASSUME TypeOK, NEW m \in Muxes, file[m] = NoInode
  PROVE  Unused # {}
  <1> DEFINE F == {file[n] : n \in Muxes}
             D == {fd[j] : j \in Jobs}
             U == F \cup D
  <1>1. IsFiniteSet(Muxes) /\ Cardinality(Muxes) <= 2
    <2>1. IsFiniteSet({"cid"}) /\ Cardinality({"cid"}) = 1
      BY FS_Singleton
    <2>2. /\ IsFiniteSet({"cid"} \cup {"tar"})
          /\ Cardinality({"cid"} \cup {"tar"}) =
               IF "tar" \in {"cid"} THEN Cardinality({"cid"}) ELSE Cardinality({"cid"}) + 1
      BY <2>1, FS_AddElement
    <2>3. Muxes = {"cid"} \cup {"tar"}
      BY DEF Muxes
    <2> QED
      BY <2>1, <2>2, <2>3, SMT
  <1>2. IsFiniteSet(Jobs) /\ Cardinality(Jobs) = NumJobs
    BY FS_Interval, CaptainAssumption, SMT DEF Jobs
  <1>3. IsFiniteSet(F) /\ Cardinality(F) <= 2
    <2>1. file \in Surjection(Muxes, F)
      BY DEF TypeOK, Surjection
    <2> HIDE DEF F
    <2> QED
      BY <1>1, <2>1, FS_Surjection, FS_CardinalityType, SMT
  <1>4. IsFiniteSet(D) /\ Cardinality(D) <= NumJobs
    <2>1. fd \in Surjection(Jobs, D)
      BY DEF TypeOK, Surjection
    <2> HIDE DEF D
    <2> QED
      BY <1>2, <2>1, FS_Surjection, FS_CardinalityType
  <1>5. NoInode \in U
    OBVIOUS
  <1> HIDE DEF F, D
  <1>6. IsFiniteSet(U) /\ Cardinality(U) <= NumJobs + 2
    <2>1. Cardinality(F \cap D) \in Nat
      BY <1>3, FS_Intersection, FS_CardinalityType
    <2>2. /\ IsFiniteSet(F \cup D)
          /\ Cardinality(F \cup D) = Cardinality(F) + Cardinality(D) - Cardinality(F \cap D)
      BY <1>3, <1>4, FS_Union
    <2>3. Cardinality(F) \in Nat /\ Cardinality(D) \in Nat
      BY <1>3, <1>4, FS_CardinalityType
    <2> QED
      BY <1>3, <1>4, <2>1, <2>2, <2>3, CaptainAssumption, SMT
  <1> HIDE DEF U
  <1>7. IsFiniteSet(U \ {NoInode}) /\ Cardinality(U \ {NoInode}) <= NumJobs + 1
    <2>1. /\ IsFiniteSet(U \ {NoInode})
          /\ Cardinality(U \ {NoInode}) = Cardinality(U) - 1
      BY <1>5, <1>6, FS_RemoveElement
    <2> QED
      BY <1>6, <2>1, FS_CardinalityType, CaptainAssumption, SMT
  <1>8. ASSUME Unused = {} PROVE FALSE
    <2>1. Inodes \in SUBSET (U \ {NoInode})
      BY <1>8, CaptainAssumption DEF Unused, U, F, D
    <2>2. IsFiniteSet(Inodes) /\ Cardinality(Inodes) <= Cardinality(U \ {NoInode})
      BY <1>7, <2>1, FS_Subset
    <2> QED
      BY <1>7, <2>2, InodeAssumption, FS_CardinalityType, CaptainAssumption, SMT
  <1> QED
    BY <1>8

-----------------------------------------------------------------------------
\* The types of the lock files, and who must hold what.
FilesOK ==
  /\ file \in [Muxes -> Inodes \cup {NoInode}]
  /\ fd \in [Jobs -> Inodes \cup {NoInode}]
  /\ owner \in [Inodes -> Jobs \cup {NoJob}]
  /\ \A j \in Jobs : InCid(j) \/ InTar(j) => owner[fd[j]] = j
  /\ HasFd

\* The types of all else.
RestOK ==
  /\ held \in SUBSET locked
  /\ locked \in SUBSET Cpus
  /\ cpus \in [Jobs -> SUBSET Cpus]
  /\ pc \in [Jobs -> Places]
  /\ kind \in [Jobs -> Kinds]
  /\ cid \in [Jobs -> [Kinds -> Ids]]
  /\ dirs \in [Kinds -> SUBSET Ids]
  /\ flocks \in [Kinds -> [Ids -> Jobs \cup {NoJob}]]
  /\ full \in SUBSET Ids
  /\ no_archive \in NoArchive

\* TypeInv in two parts.
LEMMA TypeParts == TypeInv <=> FilesOK /\ RestOK
  BY DEF TypeInv, TypeOK, FilesOK, RestOK

\* NoJob is no job.
LEMMA JobsAreNotNoJob == NoJob \notin Jobs
  BY SMT DEF NoJob, Jobs

\* 200>: the job has the mutex's file open and waits.
LEMMA OpenFiles ==
  ASSUME TypeInv, NEW j \in Jobs, NEW m \in Muxes, NEW p \in {"wait", "tarwait"},
         Open(j, m), Goto(j, p)
  PROVE  FilesOK'
  <1>1. TypeOK /\ HasFd
    BY DEF TypeInv
  <1>2. file'[m] \in Inodes /\ file' \in [Muxes -> Inodes \cup {NoInode}]
    <2>1. CASE file[m] = NoInode
      <3>1. Unused # {}
        BY <1>1, <2>1, InodeLeft
      <3>2. (CHOOSE i \in Unused : TRUE) \in Inodes
        BY <3>1 DEF Unused
      <3> QED
        BY <1>1, <2>1, <3>2 DEF Open, TypeOK
    <2>2. CASE file[m] # NoInode
      BY <1>1, <2>2 DEF Open, TypeOK
    <2> QED
      BY <2>1, <2>2
  <1>3. /\ fd' = [fd EXCEPT ![j] = file'[m]] /\ owner' = owner
        /\ pc' = [pc EXCEPT ![j] = p]
    BY DEF Open, Goto
  <1>4. \A i \in Jobs : InCid(i)' \/ InTar(i)' => owner'[fd'[i]] = i
    BY <1>1, <1>3 DEF InCid, InTar, TypeOK
  <1>5. HasFd'
    BY <1>1, <1>2, <1>3 DEF HasFd, TypeOK
  <1> QED
    BY <1>1, <1>2, <1>3, <1>4, <1>5 DEF FilesOK, TypeOK

\* flock: nobody held the lock of the file, now the job does.
LEMMA LockFiles ==
  ASSUME TypeInv, NEW j \in Jobs, NEW p \in {"list", "tar"},
         pc[j] \in {"wait", "tarwait"}, Lock(j), Goto(j, p)
  PROVE  FilesOK'
  <1>1. TypeOK /\ HasFd /\ fd[j] \in Inodes
    BY DEF TypeInv, HasFd
  <1>2. /\ owner' = [owner EXCEPT ![fd[j]] = j] /\ fd' = fd /\ file' = file
        /\ pc' = [pc EXCEPT ![j] = p] /\ owner[fd[j]] = NoJob
    BY DEF Lock, Goto, LockFree
  <1>3. \A i \in Jobs : InCid(i)' \/ InTar(i)' => owner'[fd'[i]] = i
    BY <1>1, <1>2, JobsAreNotNoJob DEF InCid, InTar, TypeOK, HasFd
  <1>4. HasFd'
    BY <1>1, <1>2 DEF HasFd, TypeOK
  <1>5. owner' \in [Inodes -> Jobs \cup {NoJob}]
    BY <1>1, <1>2 DEF TypeOK
  <1> QED
    BY <1>1, <1>2, <1>3, <1>4, <1>5 DEF FilesOK, TypeOK

\* The subshell ends: it held the lock, so nobody else loses it.
LEMMA UnlockFiles ==
  ASSUME TypeInv, NEW j \in Jobs, NEW p \in {"rm", "drop", "leave"},
         pc[j] \in {"mkdir", "tar"}, Unlock(j), Goto(j, p)
  PROVE  FilesOK'
  <1>1. TypeOK /\ HasFd /\ fd[j] \in Inodes /\ owner[fd[j]] = j
    BY DEF TypeInv, TypeOK, HasFd, InCid, InTar
  <1>2. /\ owner' = [owner EXCEPT ![fd[j]] = NoJob]
        /\ fd' = [fd EXCEPT ![j] = NoInode] /\ file' = file
        /\ pc' = [pc EXCEPT ![j] = p]
    BY DEF Unlock, Goto
  <1>3. \A i \in Jobs : InCid(i)' \/ InTar(i)' => owner'[fd'[i]] = i
    BY <1>1, <1>2 DEF InCid, InTar, TypeOK, HasFd
  <1>4. HasFd'
    BY <1>1, <1>2 DEF HasFd, TypeOK
  <1>5. /\ owner' \in [Inodes -> Jobs \cup {NoJob}]
        /\ fd' \in [Jobs -> Inodes \cup {NoInode}]
    BY <1>1, <1>2 DEF TypeOK
  <1> QED
    BY <1>1, <1>2, <1>3, <1>4, <1>5 DEF FilesOK, TypeOK

\* A step outside of mutex() that keeps the descriptors, or removes a name.
LEMMA OtherFiles ==
  ASSUME TypeInv, UNCHANGED files \/ \E m \in Muxes : Remove(m),
         \A i \in Jobs : pc'[i] = pc[i] \/
           pc'[i] \notin {"wait", "list", "mkdir", "tarwait", "tar"}
  PROVE  FilesOK'
  <1>1. TypeOK /\ HasFd
    BY DEF TypeInv
  <1>2. fd' = fd /\ owner' = owner /\ file' \in [Muxes -> Inodes \cup {NoInode}]
    BY <1>1, SMTT(60) DEF files, Remove, Removed, TypeOK
  <1> QED
    BY <1>1, <1>2 DEF FilesOK, TypeOK, HasFd, InCid, InTar

\* The types of all else are kept by a step of a job ...
LEMMA WorkRest ==
  ASSUME TypeInv, CpuInv, NEW j \in Jobs, Work(j)
  PROVE  RestOK'
  <1>1. RestOK /\ TypeOK
    BY TypeParts DEF TypeInv
  <1> USE DEF Goto
  <1>2. CASE OpenCid(j) \/ LockCid(j) \/ TarOpen(j) \/ TarLock(j) \/ Leave(j)
    BY <1>1, <1>2 DEF OpenCid, LockCid, TarOpen, TarLock, Leave, RestOK, Places
  <1>3. CASE List(j)
    <2>1. NextId(kind[j]) \in Ids
      BY <1>1, <1>3, NextIdIsNew DEF List, RestOK
    <2> QED
      BY <1>1, <1>3, <2>1 DEF List, RestOK, Places
  <1>4. CASE MkDir(j)
    BY <1>1, <1>4, SMT DEF MkDir, RestOK, Places
  <1>5. CASE RemoveCid(j)
    BY <1>1, <1>5 DEF RemoveCid, RestOK, Places, Kinds
  <1>6. ASSUME NEW k \in Kinds, NEW p \in {"take2", "run"}, Take(j, k, p) PROVE RestOK'
    BY <1>1, <1>6, SMT DEF Take, RestOK, Places
  <1>7. ASSUME NEW k \in Kinds, Retry(j, k) PROVE RestOK'
    <2>1. flocks' \in [Kinds -> [Ids -> Jobs \cup {NoJob}]]
      BY <1>1, <1>7 DEF Retry, Released, RestOK
    <2> QED
      BY <1>1, <1>7, <2>1 DEF Retry, RestOK, Places, Kinds
  <1>8. CASE TakeCache(j) \/ TakeAr(j)
    BY <1>6, <1>7, <1>8 DEF TakeCache, TakeAr, Kinds
  <1>9. CASE Move(j)
    <2>1. cid[j].ar \in Ids /\ cid[j].cache \in Ids
      BY <1>1, SMT DEF RestOK, Kinds
    <2>2. /\ UNCHANGED <<no_archive, held, locked, cpus, kind, cid>>
          /\ pc' = [pc EXCEPT ![j] = "exit"]
          /\ dirs' = dirs \/ dirs' = [dirs EXCEPT !.cache = @ \ {cid[j].cache}]
          /\ full' = full \/ full' = full \cup {cid[j].ar}
          /\ flocks' = flocks \/ flocks' = [flocks EXCEPT !.cache[cid[j].cache] = NoJob]
      BY <1>9 DEF Move
    <2>3. dirs' \in [Kinds -> SUBSET Ids]
      BY <1>1, <2>2, SMT DEF RestOK
    <2>4. flocks' \in [Kinds -> [Ids -> Jobs \cup {NoJob}]]
      <3>1. [flocks EXCEPT !.cache[cid[j].cache] = NoJob] \in
              [Kinds -> [Ids -> Jobs \cup {NoJob}]]
        BY <1>1 DEF RestOK
      <3> QED
        BY <1>1, <2>2, <3>1 DEF RestOK
    <2> QED
      BY <1>1, <2>1, <2>2, <2>3, <2>4 DEF RestOK, Places
  <1>10. CASE \E ok \in BOOLEAN : Tar(j, ok)
    <2>1. cid[j].ar \in Ids
      BY <1>1, SMT DEF RestOK, Kinds
    <2> QED
      BY <1>1, <1>10, <2>1 DEF Tar, RestOK, Places
  <1>11. CASE Drop(j)
    BY <1>1, <1>11 DEF Drop, RestOK, Places, Kinds
  <1>12. CASE Exit(j)
    <2>1. flocks' \in [Kinds -> [Ids -> Jobs \cup {NoJob}]]
      BY <1>1, <1>12 DEF Exit, Released, RestOK
    <2> QED
      BY <1>1, <1>12, <2>1 DEF Exit, RestOK, Places
  <1>13. CASE \E c \in Cpus : ReleaseWorker(j, c)
    <2> PICK c \in cpus[j] : ReleaseWorker(j, c)
      BY <1>13 DEF ReleaseWorker
    <2>1. c \notin held
      BY DEF CpuInv
    <2> QED
      BY <1>1, <2>1 DEF ReleaseWorker, Freed, RestOK, Places
  <1> QED
    BY <1>2, <1>3, <1>4, <1>5, <1>8, <1>9, <1>10, <1>11, <1>12, <1>13 DEF Work

\* ... and so are those of the lock files.
LEMMA WorkFiles ==
  ASSUME TypeInv, NEW j \in Jobs, Work(j)
  PROVE  FilesOK'
  <1>1. TypeOK /\ FilesOK /\ pc \in [Jobs -> Places]
    BY TypeParts DEF TypeInv, TypeOK
  <1>2. CASE OpenCid(j) \/ TarOpen(j)
    BY <1>2, OpenFiles DEF OpenCid, TarOpen, Muxes
  <1>3. CASE LockCid(j) \/ TarLock(j)
    BY <1>3, LockFiles DEF LockCid, TarLock
  <1>4. CASE MkDir(j) \/ \E ok \in BOOLEAN : Tar(j, ok)
    BY <1>4, UnlockFiles DEF MkDir, Tar
  <1>5. CASE List(j)
    BY <1>1, <1>5 DEF List, Goto, files, FilesOK, HasFd, InCid, InTar
  <1>6. ASSUME UNCHANGED files \/ \E m \in Muxes : Remove(m),
               NEW p \in Places \ {"wait", "list", "mkdir", "tarwait", "tar"}, Goto(j, p)
        PROVE  FilesOK'
    <2>1. \A i \in Jobs : pc'[i] = pc[i] \/
            pc'[i] \notin {"wait", "list", "mkdir", "tarwait", "tar"}
      BY <1>1, <1>6 DEF Goto
    <2> QED
      BY <1>6, <2>1, OtherFiles
  <1>7. CASE RemoveCid(j)
    BY <1>6, <1>7 DEF RemoveCid, Muxes, Places
  <1>8. CASE TakeCache(j) \/ TakeAr(j)
    BY <1>6, <1>8 DEF TakeCache, TakeAr, Take, Retry, Places
  <1>9. CASE Move(j) \/ Drop(j) \/ Exit(j)
    BY <1>6, <1>9 DEF Move, Drop, Exit, Places
  <1>10. CASE Leave(j)
    BY <1>6, <1>10 DEF Leave, Muxes, Places
  <1>11. CASE \E c \in Cpus : ReleaseWorker(j, c)
    BY <1>6, <1>11 DEF ReleaseWorker, Places
  <1> QED
    BY <1>2, <1>3, <1>4, <1>5, <1>7, <1>8, <1>9, <1>10, <1>11 DEF Work

-----------------------------------------------------------------------------
\* The campaign to start next is the first one of captainrc that has not been.
LEMMA NextJobIsNew ==
  ASSUME TypeInv, CpuInv, Jobs # Begun
  PROVE  /\ NextJob \in Jobs
         /\ pc[NextJob] = "new"
         /\ Begun \cup {NextJob} = 1 .. NextJob
  <1>1. PICK n \in 0 .. NumJobs : Begun = 1 .. n
    BY DEF CpuInv
  <1>2. NumJobs \in Nat
    BY CaptainAssumption
  <1>3. Cardinality(Begun) = n
    <2>1. Cardinality(1 .. n) = IF 1 > n THEN 0 ELSE n - 1 + 1
      BY <1>1, <1>2, FS_Interval, SMT
    <2> QED
      BY <1>1, <1>2, <2>1, SMT
  <1>4. NextJob = n + 1
    BY <1>3 DEF NextJob
  <1>5. n < NumJobs
    BY <1>1, <1>2, SMT DEF Jobs
  <1> QED
    BY <1>1, <1>2, <1>4, <1>5, SMT DEF Jobs, Begun

\* allocate_workers takes CPUs that have no lock file.
LEMMA AllocateCpu ==
  ASSUME TypeInv, CpuInv, NEW c \in Cpus, Allocate(c)
  PROVE  TypeInv' /\ CpuInv'
  <1> USE DEF Allocate, Free
  <1>1. TypeInv'
    BY DEF TypeInv, TypeOK, HasFd, files, InCid, InTar
  <1>2. Begun' = Begun /\ cpus' = cpus /\ pc' = pc
    BY DEF Begun
  <1>3. \A j \in Jobs : cpus'[j] \subseteq locked' \ held'
    BY <1>2, SMT DEF CpuInv
  <1>4. \A d \in locked' : d \in held' \/ \E j \in Jobs : d \in cpus'[j]
    BY <1>2 DEF CpuInv
  <1> QED
    BY <1>1, <1>2, <1>3, <1>4 DEF CpuInv

\* start_ex: the CPUs that the scheduler holds become the campaign's.
LEMMA StartExCpu ==
  ASSUME TypeInv, CpuInv, NEW j \in Jobs, StartEx(j)
  PROVE  TypeInv' /\ CpuInv'
  <1>1. /\ Jobs # Begun /\ j = NextJob /\ Cardinality(held) = Workers[j]
        /\ cpus' = [cpus EXCEPT ![j] = held] /\ held' = {} /\ locked' = locked
        /\ pc' = [pc EXCEPT ![j] = "open"]
        /\ UNCHANGED <<no_archive, kind, cid, file, fd, owner, dirs, flocks, full>>
    BY DEF StartEx, Goto, files
  <1>2. pc[j] = "new" /\ Begun \cup {j} = 1 .. j
    BY <1>1, NextJobIsNew
  <1>3. pc \in [Jobs -> Places] /\ cpus \in [Jobs -> SUBSET Cpus]
    BY DEF TypeInv, TypeOK
  <1>4. TypeInv'
    <2>1. cpus' \in [Jobs -> SUBSET Cpus] /\ pc' \in [Jobs -> Places]
      BY <1>1 DEF TypeInv, TypeOK, Places
    <2>2. HasFd' /\ \A i \in Jobs : InCid(i)' \/ InTar(i)' => owner'[fd'[i]] = i
      BY <1>1, <1>3 DEF TypeInv, TypeOK, HasFd, InCid, InTar
    <2> QED
      BY <1>1, <2>1, <2>2 DEF TypeInv, TypeOK
  <1>5. Begun' = Begun \cup {j}
    BY <1>1, <1>3 DEF Begun
  <1>6. \E n \in 0 .. NumJobs : Begun' = 1 .. n
    <2>1. j \in 0 .. NumJobs
      BY CaptainAssumption, SMT DEF Jobs
    <2> QED
      BY <1>2, <1>5, <2>1
  <1>7. cpus[j] = {}
    BY <1>2 DEF CpuInv
  <1>8. \A i \in Jobs : cpus[i] \cap held = {} /\ cpus[i] \subseteq locked
    BY DEF CpuInv
  <1>9. \A i, k \in Jobs : i # k => cpus'[i] \cap cpus'[k] = {}
    BY <1>1, <1>3, <1>8 DEF CpuInv
  <1>10. \A i \in Jobs : cpus'[i] \subseteq locked' \ held'
    BY <1>1, <1>3, <1>8 DEF TypeInv, TypeOK
  <1>11. \A c \in locked' : c \in held' \/ \E i \in Jobs : c \in cpus'[i]
    BY <1>1, <1>3, <1>7 DEF CpuInv
  <1>12. \A i \in Jobs :
           /\ pc'[i] \in {"new", "done"} => cpus'[i] = {}
           /\ pc'[i] \notin {"new", "free", "done"} => Cardinality(cpus'[i]) = Workers[i]
    BY <1>1, <1>3 DEF CpuInv
  <1> QED
    BY <1>1, <1>4, <1>6, <1>9, <1>10, <1>11, <1>12 DEF CpuInv

\* A running campaign keeps its CPUs until it is about to end.
LEMMA WorkKeepsCpus ==
  ASSUME NEW j \in Jobs, Work(j), ~\E c \in Cpus : ReleaseWorker(j, c)
  PROVE  /\ UNCHANGED <<held, locked, cpus>>
         /\ pc[j] \notin {"new", "free", "done"}
         /\ \E p \in Places \ {"new", "done"} : pc' = [pc EXCEPT ![j] = p]
  <1> USE DEF Goto, Places
  <1>1. CASE OpenCid(j) \/ LockCid(j) \/ List(j) \/ MkDir(j) \/ RemoveCid(j)
    BY <1>1 DEF OpenCid, LockCid, List, MkDir, RemoveCid
  <1>2. CASE TakeCache(j) \/ TakeAr(j)
    BY <1>2 DEF TakeCache, TakeAr, Take, Retry
  <1>3. CASE Move(j) \/ TarOpen(j) \/ TarLock(j) \/ \E ok \in BOOLEAN : Tar(j, ok)
    BY <1>3 DEF Move, TarOpen, TarLock, Tar
  <1>4. CASE Drop(j) \/ Leave(j) \/ Exit(j)
    BY <1>4 DEF Drop, Leave, Exit
  <1> QED
    BY <1>1, <1>2, <1>3, <1>4 DEF Work

\* release_workers frees the campaign's CPUs one by one; every other step of a
\* campaign keeps them.
LEMMA WorkCpu ==
  ASSUME TypeInv, CpuInv, NEW j \in Jobs, Work(j)
  PROVE  CpuInv'
  <1>1. pc \in [Jobs -> Places] /\ cpus \in [Jobs -> SUBSET Cpus]
    BY DEF TypeInv, TypeOK
  <1>2. CASE \E c \in Cpus : ReleaseWorker(j, c)
    <2> PICK c \in Cpus : ReleaseWorker(j, c)
      BY <1>2
    <2>1. /\ pc[j] = "free" /\ c \in cpus[j] /\ held' = held /\ locked' = locked \ {c}
          /\ cpus' = [cpus EXCEPT ![j] = @ \ {c}]
          /\ pc' = [pc EXCEPT ![j] = IF cpus[j] = {c} THEN "done" ELSE "free"]
      BY DEF ReleaseWorker, Goto, Freed
    <2>2. Begun' = Begun
      BY <1>1, <2>1 DEF Begun
    <2>3. \A i, k \in Jobs : i # k => cpus'[i] \cap cpus'[k] = {}
      BY <1>1, <2>1 DEF CpuInv
    <2>4. \A i \in Jobs : cpus'[i] \subseteq locked' \ held'
      BY <1>1, <2>1, SMT DEF CpuInv
    <2>5. \A d \in locked' : d \in held' \/ \E i \in Jobs : d \in cpus'[i]
      <3> SUFFICES ASSUME NEW d \in locked', d \notin held'
                   PROVE  \E i \in Jobs : d \in cpus'[i]
        OBVIOUS
      <3>1. d # c /\ d \in locked /\ d \notin held
        BY <2>1
      <3>2. PICK i \in Jobs : d \in cpus[i]
        BY <3>1 DEF CpuInv
      <3> QED
        BY <1>1, <2>1, <3>1, <3>2
    <2>6. \A i \in Jobs :
            /\ pc'[i] \in {"new", "done"} => cpus'[i] = {}
            /\ pc'[i] \notin {"new", "free", "done"} => Cardinality(cpus'[i]) = Workers[i]
      BY <1>1, <2>1 DEF CpuInv
    <2> QED
      BY <2>1, <2>2, <2>3, <2>4, <2>5, <2>6 DEF CpuInv
  <1>3. CASE ~\E c \in Cpus : ReleaseWorker(j, c)
    <2>1. /\ UNCHANGED <<held, locked, cpus>>
          /\ pc[j] \notin {"new", "free", "done"}
      BY <1>3, WorkKeepsCpus
    <2>2. PICK p \in Places \ {"new", "done"} : pc' = [pc EXCEPT ![j] = p]
      BY <1>3, WorkKeepsCpus
    <2>3. Begun' = Begun
      BY <1>1, <2>1, <2>2 DEF Begun
    <2> QED
      BY <1>1, <2>1, <2>2, <2>3 DEF CpuInv
  <1> QED
    BY <1>2, <1>3

\* The types and the CPUs are in order at every step.
LEMMA CpuStep == TypeInv /\ CpuInv /\ [Next]_vars => (TypeInv /\ CpuInv)'
  <1> SUFFICES ASSUME TypeInv, CpuInv, [Next]_vars PROVE (TypeInv /\ CpuInv)'
    OBVIOUS
  <1>1. CASE UNCHANGED vars
    BY <1>1 DEF vars, files, TypeInv, TypeOK, HasFd, InCid, InTar, CpuInv, Begun
  <1>2. CASE \E c \in Cpus : Allocate(c)
    BY <1>2, AllocateCpu
  <1>3. CASE \E j \in Jobs : StartEx(j)
    BY <1>3, StartExCpu
  <1>4. CASE \E j \in Jobs : Work(j)
    <2>1. FilesOK' /\ RestOK' /\ CpuInv'
      BY <1>4, WorkRest, WorkFiles, WorkCpu
    <2> QED
      BY <2>1 DEF TypeInv, TypeOK, FilesOK, RestOK
  <1> QED
    BY <1>1, <1>2, <1>3, <1>4 DEF Next, Schedule, Poll, Finished

\* Nothing runs at first, and every CPU is free.
LEMMA CpuInit == Init => TypeInv /\ CpuInv
  <1> SUFFICES ASSUME Init PROVE TypeInv /\ CpuInv
    OBVIOUS
  <1> USE DEF Init
  <1>1. TypeInv
    BY CaptainAssumption, SMT DEF TypeInv, TypeOK, HasFd, InCid, InTar, Places, Kinds, Ids
  <1>2. Begun = 1 .. 0 /\ 0 \in 0 .. NumJobs
    BY CaptainAssumption, SMT DEF Begun
  <1> QED
    BY <1>1, <1>2 DEF CpuInv

-----------------------------------------------------------------------------
\* A step of one job keeps what another one has flocked: it takes only what is
\* free, and gives up only what it has.
LEMMA OthersFlocks ==
  ASSUME TypeInv, DirInv, NEW j \in Jobs, Work(j), NEW i \in Jobs, i # j
  PROVE  /\ pc'[i] = pc[i] /\ cid'[i] = cid[i]
         /\ \A k \in Kinds : flocks[k][cid[i][k]] = i => flocks'[k][cid[i][k]] = i
  <1>1. RestOK
    BY TypeParts
  <1> USE DEF Goto
  <1>2. CASE \/ OpenCid(j) \/ LockCid(j) \/ List(j) \/ MkDir(j) \/ RemoveCid(j)
             \/ TarOpen(j) \/ TarLock(j) \/ Leave(j)
             \/ (\E ok \in BOOLEAN : Tar(j, ok)) \/ (\E c \in Cpus : ReleaseWorker(j, c))
    BY <1>1, <1>2 DEF OpenCid, LockCid, List, MkDir, RemoveCid, TarOpen, TarLock, Leave,
                      Tar, ReleaseWorker, RestOK
  <1>3. ASSUME NEW k \in Kinds, NEW p, Take(j, k, p)
        PROVE  /\ pc'[i] = pc[i] /\ cid'[i] = cid[i]
               /\ \A q \in Kinds : flocks[q][cid[i][q]] = i => flocks'[q][cid[i][q]] = i
    BY <1>1, <1>3, JobsAreNotNoJob, SMT DEF Take, FlockFree, RestOK
  <1>4. ASSUME flocks' = Released(j)
        PROVE  \A q \in Kinds : flocks[q][cid[i][q]] = i => flocks'[q][cid[i][q]] = i
    BY <1>1, <1>4, SMT DEF Released, RestOK
  <1>5. CASE TakeCache(j) \/ TakeAr(j)
    BY <1>1, <1>3, <1>4, <1>5 DEF TakeCache, TakeAr, Retry, Kinds, RestOK
  <1>6. CASE Exit(j)
    BY <1>1, <1>4, <1>6 DEF Exit, RestOK
  <1>7. ASSUME Launched(j),
               flocks' = flocks \/ flocks' = [flocks EXCEPT !.cache[cid[j].cache] = NoJob]
        PROVE  \A q \in Kinds : flocks[q][cid[i][q]] = i => flocks'[q][cid[i][q]] = i
    <2>1. flocks["cache"][cid[j]["cache"]] = j
      BY <1>7 DEF DirInv, Kinds
    <2>2. ASSUME NEW q \in Kinds, flocks[q][cid[i][q]] = i,
                 flocks' = [flocks EXCEPT !["cache"][cid[j]["cache"]] = NoJob]
          PROVE  flocks'[q][cid[i][q]] = i
      <3>1. CASE q = "cache"
        <4>1. cid[i]["cache"] # cid[j]["cache"]
          BY <2>1, <2>2, <3>1
        <4> QED
          BY <1>1, <2>2, <3>1, <4>1, SMT DEF RestOK
      <3>2. CASE q # "cache"
        BY <1>1, <2>2, <3>2 DEF RestOK
      <3> QED
        BY <3>1, <3>2
    <2> QED
      BY <1>7, <2>2
  <1>8. CASE Move(j) \/ Drop(j)
    <2>1. /\ Launched(j)
          /\ flocks' = flocks \/ flocks' = [flocks EXCEPT !.cache[cid[j].cache] = NoJob]
      BY <1>8 DEF Move, Drop, Launched
    <2>2. cid' = cid /\ pc'[i] = pc[i]
      BY <1>1, <1>8 DEF Move, Drop, RestOK
    <2> QED
      BY <1>7, <2>1, <2>2
  <1> QED
    BY <1>2, <1>5, <1>6, <1>8 DEF Work

\* The job itself has the flock of its first id, then both, then runs.
LEMMA OwnFlocks ==
  ASSUME TypeInv, DirInv, NEW j \in Jobs, Work(j)
  PROVE  /\ pc'[j] = "take2" => flocks'["cache"][cid'[j]["cache"]] = j
         /\ Launched(j)' => \A k \in Kinds : flocks'[k][cid'[j][k]] = j
  <1>1. RestOK
    BY TypeParts
  <1> USE DEF Goto, Launched
  <1>2. CASE \/ OpenCid(j) \/ LockCid(j) \/ List(j) \/ MkDir(j) \/ RemoveCid(j)
             \/ Move(j) \/ Drop(j) \/ Leave(j) \/ Exit(j)
             \/ (\E c \in Cpus : ReleaseWorker(j, c))
    BY <1>1, <1>2 DEF OpenCid, LockCid, List, MkDir, RemoveCid, Move, Drop, Leave, Exit,
                      ReleaseWorker, RestOK
  <1>3. CASE TarOpen(j) \/ TarLock(j) \/ \E ok \in BOOLEAN : Tar(j, ok)
    BY <1>1, <1>3 DEF TarOpen, TarLock, Tar, RestOK, DirInv
  <1>4. CASE TakeCache(j)
    BY <1>1, <1>4, SMT DEF TakeCache, Take, Retry, RestOK, Kinds
  <1>5. CASE TakeAr(j)
    BY <1>1, <1>5, SMT DEF TakeAr, Take, Retry, RestOK, Kinds, DirInv
  <1> QED
    BY <1>2, <1>3, <1>4, <1>5 DEF Work

\* No step takes a flocked directory from a job that goes by it.
LEMMA DirStep == TypeInv /\ CpuInv /\ DirInv /\ [Next]_vars => DirInv'
  <1> SUFFICES ASSUME TypeInv, CpuInv, DirInv, [Next]_vars PROVE DirInv'
    OBVIOUS
  <1>1. CASE UNCHANGED vars
    BY <1>1 DEF vars, DirInv, Launched
  <1>2. CASE \E c \in Cpus : Allocate(c)
    BY <1>2 DEF Allocate, DirInv, Launched
  <1>3. ASSUME NEW j \in Jobs, StartEx(j) PROVE DirInv'
    <2>1. pc \in [Jobs -> Places]
      BY DEF TypeInv, TypeOK
    <2> QED
      BY <1>3, <2>1 DEF StartEx, Goto, DirInv, Launched
  <1>4. ASSUME NEW j \in Jobs, Work(j) PROVE DirInv'
    <2> SUFFICES ASSUME NEW i \in Jobs
                 PROVE  /\ pc'[i] = "take2" => flocks'["cache"][cid'[i]["cache"]] = i
                        /\ Launched(i)' => \A k \in Kinds : flocks'[k][cid'[i][k]] = i
      BY DEF DirInv
    <2>1. CASE i = j
      BY <1>4, <2>1, OwnFlocks
    <2>2. CASE i # j
      <3>1. /\ pc'[i] = pc[i] /\ cid'[i] = cid[i]
            /\ \A k \in Kinds : flocks[k][cid[i][k]] = i => flocks'[k][cid[i][k]] = i
        BY <1>4, <2>2, OthersFlocks
      <3> QED
        BY <3>1 DEF DirInv, Launched, Kinds
    <2> QED
      BY <2>1, <2>2
  <1> QED
    BY <1>1, <1>2, <1>3, <1>4 DEF Next, Schedule, Poll, Finished

\* A job that leaves the mutex's shell has removed the file by name; one that
\* creates it enters.
LEMMA WorkFile ==
  ASSUME TypeInv, NEW j \in Jobs, Work(j)
  PROVE  /\ \/ file'["cid"] = NoInode
            \/ pc'[j] \in {"wait", "list", "mkdir", "rm"}
            \/ pc[j] \notin {"wait", "list", "mkdir", "rm"} /\ file'["cid"] = file["cid"]
         /\ \/ file'["tar"] = NoInode
            \/ pc'[j] \in {"tarwait", "tar", "drop", "leave"}
            \/ pc[j] \notin {"tarwait", "tar", "drop", "leave"} /\ file'["tar"] = file["tar"]
         /\ \A i \in Jobs \ {j} : pc'[i] = pc[i]
  <1>1. pc \in [Jobs -> Places] /\ file \in [Muxes -> Inodes \cup {NoInode}]
    BY DEF TypeInv, TypeOK
  <1> USE DEF Goto, files, Muxes
  <1>2. CASE OpenCid(j) \/ LockCid(j) \/ List(j) \/ MkDir(j)
    BY <1>1, <1>2 DEF OpenCid, LockCid, List, MkDir, Open, Lock, Unlock
  <1>3. CASE RemoveCid(j) \/ Leave(j)
    BY <1>1, <1>3 DEF RemoveCid, Leave, Remove, Removed
  <1>4. CASE TakeCache(j) \/ TakeAr(j) \/ Move(j) \/ Exit(j) \/ Drop(j)
             \/ \E c \in Cpus : ReleaseWorker(j, c)
    BY <1>1, <1>4 DEF TakeCache, TakeAr, Take, Retry, Move, Exit, Drop, ReleaseWorker
  <1>5. CASE TarOpen(j) \/ TarLock(j) \/ \E ok \in BOOLEAN : Tar(j, ok)
    BY <1>1, <1>5 DEF TarOpen, TarLock, Tar, Open, Lock, Unlock
  <1> QED
    BY <1>2, <1>3, <1>4, <1>5 DEF Work

\* A mutex's file has a shell that will remove it, at every step.
LEMMA MuxStep == TypeInv /\ CpuInv /\ MuxInv /\ [Next]_vars => MuxInv'
  <1> SUFFICES ASSUME TypeInv, CpuInv, MuxInv, [Next]_vars PROVE MuxInv'
    OBVIOUS
  <1>1. CASE UNCHANGED vars
    BY <1>1 DEF vars, files, MuxInv
  <1>2. CASE \E c \in Cpus : Allocate(c)
    BY <1>2 DEF Allocate, files, MuxInv
  <1>3. ASSUME NEW j \in Jobs, StartEx(j) PROVE MuxInv'
    <2>1. pc[j] = "new" /\ pc \in [Jobs -> Places]
      BY <1>3, NextJobIsNew DEF StartEx, TypeInv, TypeOK
    <2> QED
      BY <1>3, <2>1 DEF StartEx, Goto, files, MuxInv
  <1>4. ASSUME NEW j \in Jobs, Work(j) PROVE MuxInv'
    BY <1>4, WorkFile DEF MuxInv
  <1> QED
    BY <1>1, <1>2, <1>3, <1>4 DEF Next, Schedule, Poll, Finished

\* All of it together.
IInv == TypeInv /\ CpuInv /\ DirInv /\ MuxInv

\* Every reachable state satisfies the inductive invariant.
LEMMA Inductive == Spec => []IInv
  <1>1. Init => IInv
    <2>1. Init => DirInv /\ MuxInv
      BY DEF Init, DirInv, Launched, MuxInv, Muxes
    <2> QED
      BY <2>1, CpuInit DEF IInv
  <1>2. IInv /\ [Next]_vars => IInv'
    BY CpuStep, DirStep, MuxStep DEF IInv
  <1> QED
    BY <1>1, <1>2, PTL DEF Spec

-----------------------------------------------------------------------------
\* OwnDirectories for any number of campaigns and ids: whatever slips through
\* mutex(), whose file is removed by name after the lock was released, two
\* running campaigns never go by the same id in CACHEDIR or in ARDIR, because
\* start_campaign flocks both directories before launch_campaign.
THEOREM CampaignsOwnDirectories == Spec => []OwnDirectories
  <1>1. IInv => OwnDirectories
    BY SMT DEF IInv, DirInv, OwnDirectories
  <1> QED
    BY <1>1, Inductive, PTL

\* OwnCpus for any pool of CPUs: from allocate_workers to release_workers the
\* CPUs of a campaign are its own, and as many as it asked for.
THEOREM CampaignsOwnCpus == Spec => []OwnCpus
  <1>1. IInv => OwnCpus
    BY DEF IInv, TypeInv, CpuInv, OwnCpus, Launched
  <1> QED
    BY <1>1, Inductive, PTL

\* LocksGone: when all campaigns are done, run.sh's cleanup, which waits for
\* the deletion of every lock file, has none to wait for.
THEOREM NoLockLeft == Spec => []LocksGone
  <1>1. IInv => LocksGone
    <2> SUFFICES ASSUME IInv, AllDone PROVE locked = {} /\ \A m \in Muxes : file[m] = NoInode
      BY DEF LocksGone
    <2>1. Begun = Jobs
      BY DEF AllDone, Begun
    <2>2. locked = {}
      BY <2>1 DEF IInv, CpuInv, AllDone
    <2>3. \A m \in Muxes : file[m] = NoInode
      BY DEF IInv, MuxInv, AllDone, Muxes
    <2> QED
      BY <2>2, <2>3
  <1> QED
    BY <1>1, Inductive, PTL
=============================================================================
