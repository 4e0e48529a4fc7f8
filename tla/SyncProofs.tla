---------------------------- MODULE SyncProofs ------------------------------
(***************************************************************************)
(* Proofs about the instances that share a sync directory: for any number  *)
(* of them and any way of running them, that in a tidy campaign the        *)
(* markers on disk are the flags in memory (MainNode); and, for any test   *)
(* cases and settings, that a reader of a steady source has run whatever   *)
(* of its queue lies below the stored counter, but for what was just being *)
(* rewritten, wherever it was stopped and whatever the source trims        *)
(* (SyncQueue).                                                            *)
(***************************************************************************)
EXTENDS SyncQueue, MainNode, TLAPS

\* Most steps are first-order; those that need arithmetic or records cite SMT.
USE Zenon

-----------------------------------------------------------------------------
(* MainNode: the markers and the flags                                     *)

\* The directories an instance knows of exist, its own among them; so a marker
\* it writes lies in a directory.
KnownDirs ==
  /\ Running \subseteq outdirs
  /\ \A n \in Nodes : todo[n] \subseteq outdirs
  /\ \A n \in Nodes : last[n] \in outdirs \cup {NoNode}

\* The flag goes before the marker: an instance that is about to remove its
\* marker does not count itself as main any more.
FlagFirst == \A n \in Nodes : at[n] = "yield" => n \notin is_main_node

\* Resumed instances skip check_sync_fuzzers.
TidySkipsCheck == Tidy => \A n \in Nodes : at[n] \notin {"setup", "check"}

NodeInv == MarkerIsFlag /\ KnownDirs /\ FlagFirst /\ TidySkipsCheck

\* NodeInit (no instance runs) satisfies the invariant.
LEMMA NodeInitInv == NodeInit => NodeInv
  <1> SUFFICES ASSUME NodeInit PROVE NodeInv
    OBVIOUS
  <1> USE DEF NodeInit
  <1>1. campaign \in Campaign
    BY NodeAssumption
  <1>2. NodeTypeOK
    BY <1>1, SMT DEF NodeTypeOK, Campaign, Running
  <1>3. Running = {}
    BY DEF Running
  <1> QED
    BY <1>2, <1>3 DEF NodeInv, MarkerIsFlag, KnownDirs, FlagFirst, TidySkipsCheck

\* Start: an instance comes with its directory, and -M with flag and marker.
LEMMA NodeStartInv ==
  ASSUME NodeInv, NEW n \in Nodes, NEW mode \in campaign.StartModes, Start(n, mode)
  PROVE  NodeInv'
  <1> USE DEF NodeInv, MarkerIsFlag, Start, loop
  <1>1. campaign \in Campaign /\ mode \in {"fresh", "resume"}
    BY NodeAssumption DEF NodeTypeOK, Campaign
  <1>2. Running' = Running \cup {n}
    BY DEF NodeTypeOK, Running
  <1>3. NodeTypeOK'
    <2>1. starts' \in [Nodes -> 0 .. campaign'.MaxStarts]
      BY <1>1, SMT DEF NodeTypeOK, Campaign
    <2> QED
      BY <1>1, <1>2, <2>1 DEF NodeTypeOK
  <1>4. Tidy' => marker' = is_main_node' \cup {i \in Nodes : at'[i] = "yield"}
    BY <1>1 DEF NodeTypeOK, Tidy
  <1>5. KnownDirs'
    BY <1>2 DEF KnownDirs, NodeTypeOK
  <1>6. FlagFirst'
    BY <1>1 DEF FlagFirst, NodeTypeOK
  <1>7. TidySkipsCheck'
    BY DEF TidySkipsCheck, NodeTypeOK, Tidy
  <1> QED
    BY <1>3, <1>4, <1>5, <1>6, <1>7

\* check_sync_fuzzers: what is not a tidy campaign needs only its directories.
LEMMA NodeCheckInv ==
  ASSUME NodeInv, NEW n \in Nodes,
         BeginCheck(n) \/ (\E d \in Nodes : Check(n, d)) \/ EndCheck(n)
  PROVE  NodeInv'
  <1> USE DEF NodeInv, MarkerIsFlag
  <1>1. at[n] \in {"setup", "check"} /\ campaign' = campaign
    BY DEF BeginCheck, Check, EndCheck
  <1>2. ~Tidy' /\ TidySkipsCheck'
    BY <1>1 DEF TidySkipsCheck, Tidy
  <1>3. CASE BeginCheck(n)
    <2> USE <1>3 DEF BeginCheck
    <2>1. Running' = Running
      BY DEF NodeTypeOK, Running
    <2>2. NodeTypeOK'
      BY <2>1, SMT DEF NodeTypeOK
    <2>3. KnownDirs' /\ FlagFirst'
      BY <2>1 DEF KnownDirs, FlagFirst, NodeTypeOK
    <2> QED
      BY <1>2, <2>2, <2>3
  <1>4. CASE \E d \in Nodes : Check(n, d)
    <2> PICK d \in Nodes : Check(n, d)
      BY <1>4
    <2>1. /\ d \in todo[n] /\ todo' = [todo EXCEPT ![n] = @ \ {d}]
          /\ UNCHANGED <<campaign, outdirs, marker, is_main_node, at, entries, starts>>
      BY DEF Check
    <2>2. \/ found' = found /\ last' = last
          \/ /\ found' = [found EXCEPT ![n] = d \in marker]
             /\ last' = [last EXCEPT ![n] = d]
      BY DEF Check
    <2>3. found' \in [Nodes -> BOOLEAN] /\ last' \in [Nodes -> Nodes \cup {NoNode}]
      <3>1. found \in [Nodes -> BOOLEAN] /\ last \in [Nodes -> Nodes \cup {NoNode}]
        BY DEF NodeTypeOK
      <3>2. [found EXCEPT ![n] = d \in marker] \in [Nodes -> BOOLEAN]
        BY <3>1, SMT
      <3>3. [last EXCEPT ![n] = d] \in [Nodes -> Nodes \cup {NoNode}]
        BY <3>1
      <3> QED
        BY <2>2, <3>1, <3>2, <3>3
    <2>4. Running' = Running
      BY <2>1 DEF Running
    <2>5. NodeTypeOK'
      BY ZenonT(60), <2>1, <2>3, <2>4 DEF NodeTypeOK
    <2>6. KnownDirs' /\ FlagFirst'
      BY <2>1, <2>2, <2>4, SMT DEF KnownDirs, FlagFirst, NodeTypeOK
    <2> QED
      BY <1>2, <2>5, <2>6
  <1>5. CASE EndCheck(n)
    <2> USE <1>5 DEF EndCheck, Done, loop
    <2>1. Running' = Running /\ n \in Running
      BY DEF NodeTypeOK, Running
    <2>2. NodeTypeOK'
      BY <2>1, NodeAssumption, SMT DEF NodeTypeOK, KnownDirs
    <2>3. KnownDirs' /\ FlagFirst'
      BY <2>1, SMT DEF KnownDirs, FlagFirst, NodeTypeOK
    <2> QED
      BY <1>2, <2>2, <2>3
  <1> QED
    BY <1>3, <1>4, <1>5

\* sync_fuzzers: a downgrade takes the flag, then the marker; an election gives
\* both.
LEMMA NodeRoundInv ==
  ASSUME NodeInv, NEW n \in Nodes,
         BeginRound(n) \/ (\E d \in Nodes : VisitDir(n, d)) \/ Yield(n) \/ EndRound(n)
  PROVE  NodeInv'
  <1> USE DEF NodeInv, MarkerIsFlag
  <1>1. campaign' = campaign /\ outdirs' = outdirs /\ last' = last
    BY DEF BeginRound, VisitDir, Yield, EndRound, loop
  <1>2. Running' = Running /\ n \in Running
    BY SMT DEF BeginRound, VisitDir, Yield, EndRound, Running, NodeTypeOK
  <1>3. CASE BeginRound(n)
    <2> USE <1>3 DEF BeginRound
    <2>1. NodeTypeOK'
      BY <1>2 DEF NodeTypeOK
    <2>2. Tidy' => marker' = is_main_node' \cup {i \in Nodes : at'[i] = "yield"}
      BY DEF NodeTypeOK, Tidy
    <2>3. KnownDirs' /\ FlagFirst' /\ TidySkipsCheck'
      BY <1>2 DEF KnownDirs, FlagFirst, TidySkipsCheck, NodeTypeOK, Tidy
    <2> QED
      BY <2>1, <2>2, <2>3
  <1>4. CASE \E d \in Nodes : VisitDir(n, d)
    <2> PICK d \in Nodes : VisitDir(n, d)
      BY <1>4
    <2> USE DEF VisitDir, MustYield, Temporary
    <2>1. NodeTypeOK'
      BY SMTT(60), <1>2 DEF NodeTypeOK, SyncsFrom
    <2>2. Tidy' => marker' = is_main_node' \cup {i \in Nodes : at'[i] = "yield"}
      <3>1. CASE MustYield(n, d)
        BY <3>1, <1>1, SMT DEF NodeTypeOK, Tidy
      <3>2. CASE ~MustYield(n, d)
        BY SMTT(60), <3>2, <1>1 DEF Tidy
      <3> QED
        BY SMTT(60), <3>1, <3>2
    <2>3. KnownDirs' /\ FlagFirst' /\ TidySkipsCheck'
      BY <1>1, <1>2, SMT DEF KnownDirs, FlagFirst, TidySkipsCheck, NodeTypeOK, Tidy
    <2> QED
      BY <2>1, <2>2, <2>3
  <1>5. CASE Yield(n)
    <2> USE <1>5 DEF Yield, loop
    <2>1. NodeTypeOK'
      BY SMTT(60), <1>2 DEF NodeTypeOK
    <2>2. Tidy' => marker' = is_main_node' \cup {i \in Nodes : at'[i] = "yield"}
      BY DEF NodeTypeOK, Tidy, FlagFirst
    <2>3. KnownDirs' /\ FlagFirst' /\ TidySkipsCheck'
      BY <1>2 DEF KnownDirs, FlagFirst, TidySkipsCheck, NodeTypeOK, Tidy
    <2> QED
      BY <2>1, <2>2, <2>3
  <1>6. CASE EndRound(n)
    <2> USE <1>6 DEF EndRound, Done, loop
    <2>1. NodeTypeOK'
      BY <1>2 DEF NodeTypeOK, KnownDirs
    <2>2. Tidy' => marker' = is_main_node' \cup {i \in Nodes : at'[i] = "yield"}
      BY SMTT(60) DEF NodeTypeOK, Tidy
    <2>3. KnownDirs' /\ FlagFirst' /\ TidySkipsCheck'
      BY <1>2 DEF KnownDirs, FlagFirst, TidySkipsCheck, NodeTypeOK, Tidy
    <2> QED
      BY <2>1, <2>2, <2>3
  <1> QED
    BY <1>3, <1>4, <1>5, <1>6

\* A clean exit takes the marker with the flag; a crash happens in no tidy
\* campaign.
LEMMA NodeExitInv ==
  ASSUME NodeInv, NEW n \in Nodes, StopNode(n) \/ Crash(n)
  PROVE  NodeInv'
  <1> USE DEF NodeInv, MarkerIsFlag
  <1>1. /\ campaign' = campaign /\ outdirs' = outdirs /\ last' = last
        /\ Running' = Running \ {n}
    BY SMT DEF StopNode, Crash, loop, Running, NodeTypeOK
  <1>2. NodeTypeOK'
    <2>1. is_main_node' \in SUBSET Running'
      BY <1>1 DEF StopNode, Crash, NodeTypeOK
    <2> QED
      BY <1>1, <2>1, SMT DEF StopNode, Crash, loop, NodeTypeOK
  <1>3. Tidy' => marker' = is_main_node' \cup {i \in Nodes : at'[i] = "yield"}
    BY <1>1, SMT DEF StopNode, Crash, Unmark, Tidy, NodeTypeOK
  <1>4. KnownDirs' /\ FlagFirst' /\ TidySkipsCheck'
    BY <1>1, SMT DEF StopNode, Crash, loop, KnownDirs, FlagFirst, TidySkipsCheck, NodeTypeOK, Tidy
  <1> QED
    BY <1>2, <1>3, <1>4

\* MarkerIsFlag for every set of instances: in a campaign that is only resumed
\* and cleanly stopped, an is_main_node file stands for an instance whose flag
\* is set, or that is about to remove it, whatever the order in which the
\* instances look at each other's directories, elect themselves, step down
\* and exit (check_sync_fuzzers, sync_fuzzers).
THEOREM MarkersAreFlags == NodeSpec => []MarkerIsFlag
  <1>1. NodeInit => NodeInv
    BY NodeInitInv
  <1>2. NodeInv /\ [NodeNext]_nodeVars => NodeInv'
    <2> SUFFICES ASSUME NodeInv, [NodeNext]_nodeVars PROVE NodeInv'
      BY SMTT(60)
    <2>1. CASE UNCHANGED nodeVars
      BY SMTT(60), <2>1 DEF nodeVars, loop, NodeInv, MarkerIsFlag, NodeTypeOK, Tidy, KnownDirs, FlagFirst,
                  TidySkipsCheck, Running
    <2>2. CASE NodeNext
      BY <2>2, NodeStartInv, NodeCheckInv, NodeRoundInv, NodeExitInv DEF NodeNext, Step
    <2> QED
      BY <2>1, <2>2
  <1>3. NodeInv => MarkerIsFlag
    BY DEF NodeInv
  <1> QED
    BY <1>1, <1>2, <1>3, PTL DEF NodeSpec

-----------------------------------------------------------------------------
(* SyncQueue: the counter and what was run                                 *)

\* While a resumed source links its files back, its queue is the beginning of
\* _resume, and something is left to link.
Relinking ==
  old # <<>> => Len(queue) < Len(old) /\ \A i \in DOMAIN queue : queue[i] = old[i]

\* What the present sync deals with, once it has ended.
DealtWith == known \cup missed \cup lost \cup CasesOf(names)

\* No id of a steady source is missing, and the counter is not ahead of them;
\* the reader knows what bears its name; and wherever it is in its listing, the
\* files up to where the listing ends are those it has run, those that were not
\* there or empty, and those that are left.
SteadyScan ==
  /\ old = <<>> /\ max = -1 /\ start_id = 0 /\ Gapless /\ counter <= Len(queue)
  /\ \A i \in DOMAIN queue : queue[i].mine => queue[i].case \in known
  /\ \A k \in DOMAIN names : names[k].mine => names[k].case \in known
  /\ reader = "sync" =>
       /\ next + Len(names) <= Len(queue)
       /\ \A i \in DOMAIN queue : i <= next + Len(names) => queue[i].case \in DealtWith

SyncInv == SteadyLookedAt /\ Relinking /\ (Steady => SteadyScan)

\* The bounds of a campaign are numbers.
LEMMA SettingType ==
  ASSUME setting \in Settings
  PROVE  /\ setting.Found \subseteq Cases /\ setting.Trims \in Nat
         /\ setting.SourceSessions \in Nat \ {0}
         /\ setting.Resumes \in Nat /\ setting.MaxStops \in Nat
  BY SyncAssumption DEF Setting

\* An empty queue.
LEMMA EmptyQueue ==
  /\ <<>> \in Seq(File) /\ Distinct(<<>>) /\ Len(<<>>) = 0 /\ DOMAIN <<>> = {}
  /\ CasesOf(<<>>) = {}
  <1>1. <<>> \in Seq(File) /\ Len(<<>>) = 0 /\ DOMAIN <<>> = {}
    BY SMT
  <1> QED
    BY <1>1 DEF Distinct, CasesOf

\* A queue without one of its files.
LEMMA DropFile ==
  ASSUME NEW S, NEW s \in Seq(S), NEW p \in 1 .. Len(s)
  PROVE  /\ Drop(s, p) \in Seq(S) /\ Len(Drop(s, p)) = Len(s) - 1
         /\ Len(s) \in Nat \ {0} /\ DOMAIN s = 1 .. Len(s)
         /\ DOMAIN Drop(s, p) = 1 .. (Len(s) - 1)
         /\ \A i \in 1 .. (Len(s) - 1) :
              /\ i < p => Drop(s, p)[i] = s[i]
              /\ i >= p => Drop(s, p)[i] = s[i + 1]
  BY SMT DEF Drop

\* A queue with one more file.
LEMMA InsertFile ==
  ASSUME NEW S, NEW s \in Seq(S), NEW p \in 1 .. (Len(s) + 1), NEW e \in S
  PROVE  /\ Insert(s, p, e) \in Seq(S) /\ Len(Insert(s, p, e)) = Len(s) + 1
         /\ Len(s) \in Nat /\ DOMAIN s = 1 .. Len(s)
         /\ DOMAIN Insert(s, p, e) = 1 .. (Len(s) + 1)
         /\ Insert(s, p, e)[p] = e
         /\ \A i \in 1 .. (Len(s) + 1) :
              /\ i < p => Insert(s, p, e)[i] = s[i]
              /\ i > p => Insert(s, p, e)[i] = s[i - 1]
  BY SMT DEF Insert

\* A case that was not there makes no double.
LEMMA InsertDistinct ==
  ASSUME NEW s \in Seq(File), NEW p \in 1 .. (Len(s) + 1), NEW e \in File, Distinct(s),
         \A i \in DOMAIN s : s[i].case # e.case
  PROVE  Distinct(Insert(s, p, e))
  <1> DEFINE t == Insert(s, p, e)
             from(i) == IF i < p THEN i ELSE i - 1
  <1>1. /\ DOMAIN s = 1 .. Len(s) /\ DOMAIN t = 1 .. (Len(s) + 1) /\ t[p] = e
        /\ \A i \in 1 .. (Len(s) + 1) : (i < p => t[i] = s[i]) /\ (i > p => t[i] = s[i - 1])
    BY InsertFile, SMT
  <1>2. Len(s) \in Nat
    BY InsertFile, SMT
  <1> HIDE DEF t
  <1>3. \A i \in DOMAIN t : i # p => from(i) \in DOMAIN s /\ t[i] = s[from(i)]
    BY <1>1, <1>2, SMT
  <1>4. \A i, j \in DOMAIN t : i # p /\ j # p /\ from(i) = from(j) => i = j
    BY <1>1, <1>2, SMT
  <1> HIDE DEF from
  <1>5. ASSUME NEW i \in DOMAIN t, NEW j \in DOMAIN t, t[i].case = t[j].case
        PROVE  i = j
    <2>1. CASE i = p \/ j = p
      BY <1>1, <1>3, <1>5, <2>1
    <2>2. CASE i # p /\ j # p
      <3>1. from(i) \in DOMAIN s /\ from(j) \in DOMAIN s /\ s[from(i)].case = s[from(j)].case
        BY <1>3, <1>5, <2>2
      <3>2. from(i) = from(j)
        BY <3>1 DEF Distinct
      <3> QED
        BY <1>4, <2>2, <3>2
    <2> QED
      BY <2>1, <2>2
  <1> QED
    BY <1>5 DEF Distinct, t

\* Nor does a case less.
LEMMA DropDistinct ==
  ASSUME NEW s \in Seq(File), NEW p \in 1 .. Len(s), Distinct(s)
  PROVE  Distinct(Drop(s, p))
  <1> DEFINE t == Drop(s, p)
             from(i) == IF i < p THEN i ELSE i + 1
  <1>1. /\ DOMAIN s = 1 .. Len(s) /\ DOMAIN t = 1 .. (Len(s) - 1)
        /\ \A i \in 1 .. (Len(s) - 1) : (i < p => t[i] = s[i]) /\ (i >= p => t[i] = s[i + 1])
    BY SMT DEF Drop
  <1>2. Len(s) \in Nat
    BY SMT DEF Drop
  <1> HIDE DEF t
  <1>3. \A i \in DOMAIN t : from(i) \in DOMAIN s /\ t[i] = s[from(i)]
    BY <1>1, <1>2, SMT
  <1>4. \A i, j \in DOMAIN t : from(i) = from(j) => i = j
    BY <1>1, <1>2, SMT
  <1> HIDE DEF from
  <1>5. ASSUME NEW i \in DOMAIN t, NEW j \in DOMAIN t, t[i].case = t[j].case
        PROVE  i = j
    <2>1. from(i) \in DOMAIN s /\ from(j) \in DOMAIN s /\ s[from(i)].case = s[from(j)].case
      BY <1>3, <1>5
    <2>2. from(i) = from(j)
      BY <2>1 DEF Distinct
    <2> QED
      BY <1>4, <2>2
  <1> QED
    BY <1>5 DEF Distinct, t

\* The rest of a listing.
LEMMA RestOfListing ==
  ASSUME NEW S, NEW s \in Seq(S), NEW m \in 1 .. Len(s)
  PROVE  LET r == SubSeq(s, m, Len(s)) IN
         /\ r \in Seq(S) /\ Len(r) = Len(s) - m + 1
         /\ DOMAIN r = 1 .. (Len(s) - m + 1)
         /\ \A k \in 1 .. (Len(s) - m + 1) : r[k] = s[m + k - 1]
  BY SMTT(60)

\* The first name of a listing, and the others.
LEMMA NextOfListing ==
  ASSUME NEW S, NEW s \in Seq(S), s # <<>>
  PROVE  /\ Head(s) = s[1] /\ Head(s) \in S /\ 1 \in DOMAIN s
         /\ Tail(s) \in Seq(S) /\ Len(Tail(s)) = Len(s) - 1 /\ Len(s) \in Nat
         /\ DOMAIN s = 1 .. Len(s) /\ DOMAIN Tail(s) = 1 .. (Len(s) - 1)
         /\ \A k \in 1 .. (Len(s) - 1) : Tail(s)[k] = s[k + 1]
  BY SMT

\* Appending a file to a queue.
LEMMA AppendFile ==
  ASSUME NEW S, NEW s \in Seq(S), NEW e \in S
  PROVE  /\ Append(s, e) \in Seq(S) /\ Append(s, e) # <<>>
         /\ Len(Append(s, e)) = Len(s) + 1 /\ Len(s) \in Nat
         /\ DOMAIN s = 1 .. Len(s) /\ DOMAIN Append(s, e) = 1 .. Len(s) + 1
         /\ Append(s, e)[Len(s) + 1] = e
         /\ \A i \in 1 .. Len(s) : Append(s, e)[i] = s[i]
  BY SMT

\* Before anything happened.
LEMMA SyncInitInv == SyncInit => SyncInv
  <1> SUFFICES ASSUME SyncInit PROVE SyncInv
    OBVIOUS
  <1> USE DEF SyncInit
  <1>1. SyncTypeOK
    <2>1. setting.SourceSessions \in Nat \ {0} /\ setting.Resumes \in Nat
          /\ setting.MaxStops \in Nat
      BY SettingType
    <2>2. <<>> \in Seq(File) /\ Distinct(<<>>)
      BY EmptyQueue
    <2>3. /\ session \in 1 .. setting.SourceSessions /\ resumes \in 0 .. setting.Resumes
          /\ counter \in Nat /\ max \in Nat \cup {-1} /\ start_id \in Nat
          /\ next \in Nat /\ stops \in 0 .. setting.MaxStops /\ cut \in 0 .. Len(queue)
      BY <2>1, SMT
    <2> QED
      BY <2>2, <2>3 DEF SyncTypeOK
  <1> QED
    BY <1>1, SMT DEF SyncInv, SteadyLookedAt, LookedAt, Relinking, SteadyScan, Gapless

\* The types of the queue and of the reader.
LEMMA SyncTypes ==
  ASSUME SyncInv
  PROVE  /\ setting \in Settings /\ queue \in Seq(File) /\ Distinct(queue)
         /\ names \in Seq(File)
         /\ cut \in 0 .. Len(queue) /\ gone \in BOOLEAN /\ (gone => cut # 0)
         /\ counter \in Nat /\ max \in Nat \cup {-1}
         /\ known \in SUBSET Cases /\ missed \in SUBSET Cases /\ lost \in SUBSET Cases
         /\ reader \in {"off", "fuzz", "sync"} /\ start_id \in Nat
         /\ next \in Nat /\ (reader = "sync" => counter <= next)
         /\ Len(queue) \in Nat /\ DOMAIN queue = 1 .. Len(queue)
         /\ Len(names) \in Nat /\ DOMAIN names = 1 .. Len(names)
         /\ Steady => LookedAt /\ SteadyScan
  <1>1. SyncTypeOK /\ (Steady => LookedAt /\ SteadyScan)
    BY DEF SyncInv, SteadyLookedAt
  <1>2. queue \in Seq(File) /\ names \in Seq(File)
    BY <1>1 DEF SyncTypeOK
  <1>3. /\ Len(queue) \in Nat /\ DOMAIN queue = 1 .. Len(queue)
        /\ Len(names) \in Nat /\ DOMAIN names = 1 .. Len(names)
    BY <1>2, SMT
  <1> QED
    BY <1>1, <1>2, <1>3 DEF SyncTypeOK

\* Queue: the new file lies past the counter and past any listing.
LEMMA QueueStep ==
  ASSUME SyncInv, NEW c \in setting.Found, NEW mine \in BOOLEAN,
         NEW p \in 1 .. (Len(queue) + 1), Queue(c, mine, p)
  PROVE  SyncInv'
  <1> DEFINE f == [id |-> Len(queue), case |-> c, mine |-> mine, born |-> session]
  <1>1. /\ old = <<>> /\ c \notin CasesOf(queue) /\ (mine => c \in known)
        /\ Fits(p, Len(queue)) /\ queue' = Insert(queue, p, f) /\ cut' = p
        /\ UNCHANGED <<setting, gone, trimmed, old, session, resumes, young>>
        /\ UNCHANGED <<counter, max, known, missed, reader, names, next, start_id, lost, stops>>
    BY DEF Queue, import, scan
  <1>2. c \in Cases /\ session \in 1 .. setting.SourceSessions
    BY SettingType, SyncTypes DEF SyncInv, SteadyLookedAt, SyncTypeOK
  <1>3. /\ f \in File /\ f.id = Len(queue) /\ f.case = c /\ f.mine = mine
        /\ File' = File
    BY <1>1, <1>2, SyncTypes DEF File
  <1> HIDE DEF f
  <1>4. /\ queue' \in Seq(File) /\ Len(queue') = Len(queue) + 1
        /\ DOMAIN queue' = 1 .. (Len(queue) + 1) /\ queue'[p] = f
        /\ \A i \in 1 .. (Len(queue) + 1) :
             /\ i < p => queue'[i] = queue[i]
             /\ i > p => queue'[i] = queue[i - 1]
    <2>1. queue \in Seq(File) /\ f \in File /\ queue' = Insert(queue, p, f)
      BY <1>1, <1>3, SyncTypes
    <2> HIDE DEF SyncInv
    <2> QED
      BY <2>1, SyncTypes, SMT DEF Insert
  <1>5. \A i \in DOMAIN queue : queue[i].case # c
    BY <1>1 DEF CasesOf
  <1>6. Distinct(queue)'
    BY <1>1, <1>3, <1>5, SyncTypes, InsertDistinct
  <1>7. cut' \in 0 .. Len(queue') /\ cut' # 0
    BY <1>1, <1>4, SyncTypes, SMT
  <1>8. SyncTypeOK'
    BY <1>1, <1>3, <1>4, <1>6, <1>7 DEF SyncInv, SteadyLookedAt, SyncTypeOK, Distinct
  <1>9. Relinking'
    BY <1>1 DEF Relinking
  <1>10. ASSUME Steady PROVE LookedAt' /\ SteadyScan'
    <2>1. LookedAt /\ SteadyScan
      BY <1>10, SyncTypes
    <2>2. \A i \in DOMAIN queue : queue[i].id = i - 1
      BY <2>1 DEF SteadyScan, Gapless
    <2>3. p = Len(queue) + 1
      BY <1>1, <2>2, SyncTypes, SMT DEF Fits
    <2>4. \A i \in DOMAIN queue' : (i \in DOMAIN queue /\ queue'[i] = queue[i])
                                   \/ (i = Len(queue) + 1 /\ queue'[i] = f)
      BY <1>4, <2>3, SyncTypes, SMT
    <2>5. Gapless'
      <3>1. Len(queue) = (Len(queue) + 1) - 1
        BY SyncTypes, SMT
      <3> QED
        BY <1>3, <2>2, <2>4, <3>1 DEF Gapless
    <2>6. counter <= Len(queue) /\ counter' <= Len(queue')
      BY <1>1, <1>4, <2>1, SyncTypes, SMT DEF SteadyScan
    <2>7. LookedAt'
      <3>1. ~(Len(queue) < counter)
        BY <2>6, SyncTypes, SMT
      <3> QED
        BY <1>1, <1>3, <2>1, <2>4, <3>1 DEF LookedAt
    <2>8. \A i \in DOMAIN queue' : queue'[i].mine => queue'[i].case \in known
      BY <1>1, <1>3, <2>1, <2>4 DEF SteadyScan
    <2>9. ASSUME reader = "sync"
          PROVE  /\ next + Len(names) <= Len(queue')
                 /\ \A i \in DOMAIN queue' :
                      i <= next + Len(names) => queue'[i].case \in DealtWith
      <3>1. /\ next + Len(names) <= Len(queue)
            /\ \A i \in DOMAIN queue : i <= next + Len(names) => queue[i].case \in DealtWith
        BY <2>1, <2>9 DEF SteadyScan
      <3>2. next + Len(names) <= Len(queue') /\ ~(Len(queue) + 1 <= next + Len(names))
        BY <1>4, <3>1, SyncTypes, SMT
      <3> QED
        BY <2>4, <3>1, <3>2
    <2>10. DealtWith' = DealtWith
      BY <1>1 DEF DealtWith, CasesOf
    <2> QED
      BY <1>1, <2>1, <2>5, <2>6, <2>7, <2>8, <2>9, <2>10 DEF SteadyScan
  <1>11. Steady' = Steady
    BY <1>1 DEF Steady
  <1> QED
    BY <1>8, <1>9, <1>10, <1>11 DEF SyncInv, SteadyLookedAt

\* Trim, Recreate, Write, Tick, SeenRestart, Find: no name and no listing changes.
LEMMA SmallStep ==
  ASSUME SyncInv,
         \/ \E i \in DOMAIN queue : Trim(i)
         \/ Recreate \/ Write \/ Tick \/ SeenRestart
         \/ \E c \in setting.Found : Find(c)
  PROVE  SyncInv'
  <1>0. /\ SyncTypeOK /\ Relinking /\ young \in BOOLEAN /\ trimmed \in SUBSET Cases
        /\ 0 \in 0 .. Len(queue)
    <2>1. SyncTypeOK /\ Relinking
      BY DEF SyncInv, SteadyLookedAt
    <2>2. 0 \in 0 .. Len(queue)
      BY SyncTypes, SMT
    <2> QED
      BY <2>1, <2>2 DEF SyncTypeOK
  <1>1. /\ UNCHANGED <<setting, queue, old, session, resumes>>
        /\ UNCHANGED <<max, missed, reader, names, next, start_id, lost, stops>>
        /\ known \subseteq known' /\ known' \in SUBSET Cases
        /\ counter' = counter \/ (counter' = 0 /\ reader = "fuzz")
        /\ cut' \in 0 .. Len(queue) /\ gone' \in BOOLEAN /\ (gone' => cut' # 0)
        /\ trimmed' \in SUBSET Cases /\ young' \in BOOLEAN
    <2>1. CASE \E i \in DOMAIN queue : Trim(i)
      <3>1. PICK i \in DOMAIN queue : Trim(i)
        BY <2>1
      <3>2. queue[i] \in File /\ i \in 0 .. Len(queue) /\ i # 0
        BY SyncTypes, SMT
      <3>3. queue[i].case \in Cases
        BY <3>2 DEF File
      <3> QED
        BY <1>0, <3>1, <3>2, <3>3, SyncTypes DEF Trim, import, scan
    <2>2. CASE Recreate
      BY <1>0, <2>2, SyncTypes DEF Recreate, import, scan
    <2>3. CASE Write
      BY <1>0, <2>3, SyncTypes DEF Write, import, scan
    <2>4. CASE Tick
      BY <1>0, <2>4, SyncTypes DEF Tick, import, scan, files
    <2>5. CASE SeenRestart
      BY <1>0, <2>5, SyncTypes DEF SeenRestart, source, scan, files
    <2>6. CASE \E c \in setting.Found : Find(c)
      <3>1. PICK c \in setting.Found : Find(c)
        BY <2>6
      <3>2. c \in Cases
        BY SettingType, SyncTypes
      <3> QED
        BY <1>0, <3>1, <3>2, SyncTypes DEF Find, source, scan, files
    <2> QED
      BY <2>1, <2>2, <2>3, <2>4, <2>5, <2>6
  <1>2. counter' \in Nat /\ counter' <= counter /\ (reader = "sync" => counter' <= next)
    BY <1>1, SyncTypes, SMT
  <1>3. File' = File /\ Distinct(queue)' = Distinct(queue) /\ Distinct(old)' = Distinct(old)
        /\ Relinking' = Relinking /\ Steady' = Steady
    BY <1>1 DEF File, Distinct, Relinking, Steady
  <1>4. SyncTypeOK'
    BY <1>0, <1>1, <1>2, <1>3 DEF SyncTypeOK
  <1>5. ASSUME Steady PROVE LookedAt' /\ SteadyScan'
    <2>1. LookedAt /\ SteadyScan
      BY <1>5, SyncTypes
    <2>2. \A i \in DOMAIN queue : queue[i].id < counter' => queue[i].id < counter
      <3>1. \A i \in DOMAIN queue : queue[i] \in File
        BY SyncTypes, SMT
      <3>2. \A i \in DOMAIN queue : queue[i].id \in Nat
        BY <3>1 DEF File
      <3> QED
        BY <1>2, <3>2, SyncTypes, SMT
    <2>3. LookedAt'
      BY <1>1, <2>1, <2>2 DEF LookedAt
    <2>4. DealtWith \subseteq DealtWith'
      BY <1>1 DEF DealtWith, CasesOf
    <2>5. Gapless' = Gapless
      BY <1>1 DEF Gapless
    <2>6. counter' <= Len(queue)
      BY <1>2, <2>1, SyncTypes, SMT DEF SteadyScan
    <2> QED
      BY <1>1, <2>1, <2>3, <2>4, <2>5, <2>6 DEF SteadyScan
  <1> QED
    BY <1>0, <1>3, <1>4, <1>5 DEF SyncInv, SteadyLookedAt

\* Restart and Resume do not happen to a steady source; _resume keeps its type.
LEMMA EndOfSource ==
  ASSUME SyncInv, Restart \/ Resume
  PROVE  SyncInv'
  <1>0. SyncTypeOK
    BY DEF SyncInv, SteadyLookedAt
  <1>1. /\ queue' = <<>> /\ cut' = 0 /\ gone' = FALSE /\ trimmed' = {} /\ young' = TRUE
        /\ setting' = setting
        /\ UNCHANGED <<counter, max, known, missed, reader, names, next, start_id, lost, stops>>
        /\ \/ session < setting.SourceSessions /\ session' = session + 1 /\ resumes' = resumes
           \/ resumes < setting.Resumes /\ resumes' = resumes + 1 /\ session' = session
    BY DEF Restart, Resume, import, scan
  <1>2. /\ setting.SourceSessions \in Nat \ {0} /\ setting.Resumes \in Nat /\ File' = File
        /\ session \in 1 .. setting.SourceSessions /\ resumes \in 0 .. setting.Resumes
    BY <1>0, <1>1, SettingType DEF SyncTypeOK, File
  <1>3. ~Steady'
    <2>1. setting.SourceSessions # 1 \/ setting.Resumes # 0
      BY <1>1, <1>2, SMT
    <2> QED
      BY <1>1, <2>1 DEF Steady
  <1>4. old' \in Seq(File) /\ Distinct(old)'
    <2>1. CASE old' = <<>> \/ old' = old \/ old' = queue
      BY <1>0, <2>1, EmptyQueue DEF SyncTypeOK, Distinct
    <2>2. CASE cut # 0 /\ old' = Drop(queue, cut)
      <3>1. cut \in 1 .. Len(queue) /\ queue \in Seq(File) /\ Distinct(queue)
        BY <2>2, SyncTypes, SMT
      <3>2. Drop(queue, cut) \in Seq(File)
        BY <3>1, DropFile
      <3>3. Distinct(Drop(queue, cut))
        BY <3>1, DropDistinct
      <3> QED
        BY <2>2, <3>2, <3>3 DEF Distinct
    <2> QED
      BY <2>1, <2>2 DEF Restart, Resume
  <1>5. session' \in 1 .. setting.SourceSessions /\ resumes' \in 0 .. setting.Resumes
    BY <1>1, <1>2, SMT
  <1>6. queue' \in Seq(File) /\ Distinct(queue)' /\ cut' \in 0 .. Len(queue')
    BY <1>1, EmptyQueue, SMT DEF Distinct
  <1>7. SyncTypeOK'
    BY <1>0, <1>1, <1>2, <1>4, <1>5, <1>6 DEF SyncTypeOK
  <1>8. Relinking'
    <2>1. old' # <<>> => 0 < Len(old')
      BY <1>4, SMT
    <2> QED
      BY <1>1, <2>1, EmptyQueue DEF Relinking
  <1> QED
    BY <1>3, <1>7, <1>8 DEF SyncInv, SteadyLookedAt

\* One more, and not yet there.
LEMMA StillBelow ==
  ASSUME NEW m \in Nat, NEW n \in Nat, NEW k, m < n, k = m + 1, k # n
  PROVE  k < n
  BY SMT

\* Pivot: the next file goes back under its name.
LEMMA PivotStep ==
  ASSUME SyncInv, Pivot
  PROVE  SyncInv'
  <1>1. /\ queue \in Seq(File) /\ old \in Seq(File) /\ Distinct(old) /\ old # <<>>
        /\ Len(queue) < Len(old) /\ \A i \in DOMAIN queue : queue[i] = old[i]
    BY DEF SyncInv, SteadyLookedAt, SyncTypeOK, Pivot, Relinking
  <1> DEFINE f == old[Len(queue) + 1]
  <1>2. /\ queue' = Append(queue, f)
        /\ old' = IF Len(queue') = Len(old) THEN <<>> ELSE old
        /\ UNCHANGED <<setting, cut, gone, trimmed, session, resumes, young>>
        /\ UNCHANGED <<counter, max, known, missed, reader, names, next, start_id, lost, stops>>
    BY DEF Pivot, import, scan
  <1>3. Len(queue) \in Nat /\ Len(old) \in Nat /\ DOMAIN old = 1 .. Len(old)
    BY <1>1, SMT
  <1>4. Len(queue) + 1 \in DOMAIN old /\ f \in File
    BY <1>1, <1>3, SMT
  <1>5. f = old[Len(queue) + 1]
    OBVIOUS
  <1> HIDE DEF f
  <1>6. /\ queue' \in Seq(File) /\ queue' # <<>> /\ Len(queue') = Len(queue) + 1
        /\ DOMAIN queue = 1 .. Len(queue) /\ DOMAIN queue' = 1 .. Len(queue) + 1
        /\ queue'[Len(queue) + 1] = f
        /\ \A i \in 1 .. Len(queue) : queue'[i] = queue[i]
    BY <1>1, <1>2, <1>4, AppendFile, SMT
  <1>7. \A i \in DOMAIN queue' : i \in DOMAIN old /\ queue'[i] = old[i]
    BY <1>1, <1>3, <1>5, <1>6, SMT
  <1>8. Distinct(queue)'
    BY <1>1, <1>7 DEF Distinct
  <1>9. (old' = <<>> \/ old' = old) /\ (old' # <<>> => Len(queue') < Len(old'))
    <2>1. CASE Len(queue') = Len(old)
      BY <1>2, <2>1
    <2>2. CASE Len(queue') # Len(old)
      <3>1. old' = old
        BY <1>2, <2>2
      <3>2. Len(queue') < Len(old)
        BY <1>1, <1>3, <1>6, <2>2, StillBelow
      <3> QED
        BY <3>1, <3>2
    <2> QED
      BY <2>1, <2>2
  <1>10. old' \in Seq(File) /\ Distinct(old)'
    BY <1>1, <1>9, EmptyQueue DEF Distinct
  <1>11. ~Steady' /\ File' = File
    BY <1>1, <1>2 DEF SyncInv, SteadyScan, Steady, File
  <1>12. cut' \in 0 .. Len(queue')
    <2>1. cut \in 0 .. Len(queue) /\ cut' = cut
      BY <1>2, SyncTypes
    <2>2. Len(queue') = Len(queue) + 1
      BY <1>6
    <2> QED
      BY <1>3, <2>1, <2>2, SMT
  <1>13. SyncTypeOK'
    BY <1>2, <1>6, <1>8, <1>10, <1>11, <1>12 DEF SyncInv, SteadyLookedAt, SyncTypeOK
  <1>14. Relinking'
    BY <1>7, <1>9 DEF Relinking
  <1> QED
    BY <1>11, <1>13, <1>14 DEF SyncInv, SteadyLookedAt

\* What every step of the reader leaves alone, with the types of the source.
LEMMA SourceKept ==
  ASSUME SyncInv, UNCHANGED <<setting, source>>,
         counter' \in Nat, max' \in Nat \cup {-1},
         known' \in SUBSET Cases, missed' \in SUBSET Cases, lost' \in SUBSET Cases,
         reader' \in {"off", "fuzz", "sync"}, names' \in Seq(File), next' \in Nat,
         reader' = "sync" => counter' <= next', start_id' \in Nat,
         stops' \in 0 .. setting.MaxStops,
         Steady => LookedAt' /\ SteadyScan'
  PROVE  SyncInv'
  <1>1. UNCHANGED <<setting, queue, cut, gone, trimmed, old, session, resumes, young>>
    BY DEF source, files
  <1>2. File' = File /\ Distinct(queue)' = Distinct(queue) /\ Distinct(old)' = Distinct(old)
        /\ Steady' = Steady /\ Relinking' = Relinking
    BY <1>1 DEF File, Distinct, Steady, Relinking
  <1>3. SyncTypeOK /\ Relinking
    BY DEF SyncInv, SteadyLookedAt
  <1>4. SyncTypeOK'
    BY <1>1, <1>2, <1>3 DEF SyncTypeOK
  <1> QED
    BY <1>2, <1>3, <1>4 DEF SyncInv, SteadyLookedAt

\* A listing has files of the queue, in their order, and all but one that is gone.
LEMMA ListedFiles ==
  ASSUME SyncInv
  PROVE  /\ Listed \in Seq(File) /\ Len(Listed) \in Nat /\ DOMAIN Listed = 1 .. Len(Listed)
         /\ ~gone => Listed = queue
         /\ gone => /\ Len(Listed) = Len(queue) - 1 /\ cut \in 1 .. Len(queue)
                    /\ \A i \in 1 .. Len(Listed) :
                         (i < cut => Listed[i] = queue[i]) /\ (i >= cut => Listed[i] = queue[i + 1])
         /\ \A i \in DOMAIN Listed : \E j \in DOMAIN queue : Listed[i] = queue[j]
  <1>1. CASE ~gone
    BY <1>1, SyncTypes DEF Listed
  <1>2. CASE gone
    <2>1. cut \in 1 .. Len(queue) /\ queue \in Seq(File)
      BY <1>2, SyncTypes, SMT
    <2>2. Listed = Drop(queue, cut)
      BY <1>2 DEF Listed
    <2>3. /\ Drop(queue, cut) \in Seq(File) /\ Len(Drop(queue, cut)) = Len(queue) - 1
          /\ DOMAIN Drop(queue, cut) = 1 .. (Len(queue) - 1)
          /\ \A i \in 1 .. (Len(queue) - 1) :
               /\ i < cut => Drop(queue, cut)[i] = queue[i]
               /\ i >= cut => Drop(queue, cut)[i] = queue[i + 1]
      BY <2>1, DropFile
    <2>4. Len(queue) - 1 \in Nat
      BY <2>1, SyncTypes, SMT
    <2>5. \A i \in 1 .. (Len(queue) - 1) : i \in DOMAIN queue /\ i + 1 \in DOMAIN queue
                                           /\ (i < cut \/ i >= cut)
      BY <2>1, SyncTypes, SMT
    <2>6. \A i \in DOMAIN Listed : \E j \in DOMAIN queue : Listed[i] = queue[j]
      BY <2>2, <2>3, <2>5
    <2> QED
      BY <1>2, <2>1, <2>2, <2>3, <2>4, <2>6
  <1> QED
    BY <1>1, <1>2

\* Where the id that the counter stands at is found: past it the listing is the
\* queue, less one file if that is gone.
LEMMA ListedRest ==
  ASSUME SyncInv, Gapless, NEW m \in DOMAIN Listed, Listed[m].id = counter
  PROVE  /\ counter + (Len(Listed) - m + 1) <= Len(queue)
         /\ \A i \in DOMAIN queue :
              counter < i /\ i <= counter + (Len(Listed) - m + 1) =>
                \/ gone /\ i = cut /\ cut \in m .. Len(Listed)
                \/ \E k \in m .. Len(Listed) : Listed[k] = queue[i]
  <1>0. /\ Len(queue) \in Nat /\ Len(Listed) \in Nat /\ counter \in Nat
        /\ DOMAIN queue = 1 .. Len(queue) /\ m \in 1 .. Len(Listed)
        /\ \A i \in 1 .. Len(queue) : queue[i].id = i - 1
    BY SyncTypes, ListedFiles DEF Gapless
  <1>1. CASE ~gone
    <2>1. Listed = queue
      BY <1>1, ListedFiles
    <2>2. counter = m - 1
      BY <1>0, <2>1, SMT
    <2> QED
      BY <1>0, <2>1, <2>2, SMT
  <1>2. CASE gone
    <2>1. /\ Len(Listed) = Len(queue) - 1 /\ cut \in 1 .. Len(queue)
          /\ \A i \in 1 .. Len(Listed) :
                 (i < cut => Listed[i] = queue[i]) /\ (i >= cut => Listed[i] = queue[i + 1])
      BY <1>2, ListedFiles
    <2>2. (m < cut /\ counter = m - 1) \/ (m >= cut /\ counter = m)
      <3>1. CASE m < cut
        <4>1. Listed[m] = queue[m] /\ m \in 1 .. Len(queue)
          BY <1>0, <2>1, <3>1, SMT
        <4>2. counter = m - 1
          BY <1>0, <4>1
        <4> QED
          BY <3>1, <4>2
      <3>2. CASE m >= cut
        <4>1. Listed[m] = queue[m + 1] /\ m + 1 \in 1 .. Len(queue) /\ (m + 1) - 1 = m
          BY <1>0, <2>1, <3>2, SMT
        <4>2. counter = m
          BY <1>0, <4>1
        <4> QED
          BY <3>2, <4>2
      <3> QED
        BY <1>0, <2>1, <3>1, <3>2, SMT
    <2>3. counter + (Len(Listed) - m + 1) <= Len(queue)
      BY <1>0, <2>1, <2>2, SMT
    <2>4. ASSUME NEW i \in DOMAIN queue, counter < i, i <= counter + (Len(Listed) - m + 1)
          PROVE  \/ i = cut /\ cut \in m .. Len(Listed)
                 \/ \E k \in m .. Len(Listed) : Listed[k] = queue[i]
      <3>0. /\ Len(Listed) = Len(queue) - 1 /\ cut \in 1 .. Len(queue)
            /\ i \in 1 .. Len(queue) /\ Len(queue) \in Nat /\ m \in 1 .. Len(Listed)
            /\ (m < cut /\ counter = m - 1) \/ (m >= cut /\ counter = m)
        BY <1>0, <2>1, <2>2
      <3>1. CASE i < cut
        <4>1. i \in m .. Len(Listed) /\ i \in 1 .. Len(Listed)
          BY <2>4, <3>0, <3>1, SMT
        <4>2. Listed[i] = queue[i]
          BY <2>1, <3>1, <4>1
        <4> QED
          BY <4>1, <4>2
      <3>2. CASE i = cut
        BY <2>4, <3>0, <3>2, SMT
      <3>3. CASE i > cut
        <4>1. /\ i - 1 \in m .. Len(Listed) /\ i - 1 \in 1 .. Len(Listed)
              /\ i - 1 >= cut /\ (i - 1) + 1 = i
          <5>1. i - 1 <= Len(Listed) /\ i - 1 >= cut /\ (i - 1) + 1 = i /\ i - 1 \in Nat
            BY <3>0, <3>3, SMT
          <5>2. m <= i - 1
            BY <2>4, <3>0, <3>3, SMT
          <5> QED
            BY <3>0, <5>1, <5>2, SMT
        <4>2. Listed[i - 1] = queue[i]
          BY <2>1, <4>1
        <4> QED
          BY <4>1, <4>2
      <3>4. i < cut \/ i = cut \/ i > cut
        BY <1>0, <2>1, SMT
      <3> QED
        BY <3>1, <3>2, <3>3, <3>4
    <2> QED
      BY <1>2, <2>3, <2>4
  <1> QED
    BY <1>1, <1>2

\* BeginSync: the files the counter has passed were looked at, the others are
\* in the listing, or gone.
LEMMA BeginSyncStep ==
  ASSUME SyncInv, BeginSync
  PROVE  SyncInv'
  <1>1. /\ UNCHANGED <<setting, source, counter, known, missed, stops>>
        /\ reader = "fuzz" /\ max' = (IF StartId < counter THEN -1 ELSE max)
        /\ \/ UNCHANGED <<reader, names, next, start_id, lost>>
           \/ \E m \in DOMAIN Listed :
                /\ Listed[m].id = counter /\ reader' = "sync"
                /\ names' = SubSeq(Listed, m, Len(Listed))
                /\ next' = counter /\ start_id' = StartId
                /\ lost' = IF gone /\ cut \in m .. Len(Listed) THEN {queue[cut].case} ELSE {}
    BY DEF BeginSync, scan, First, HasNew
  <1>2. /\ max' \in Nat \cup {-1} /\ StartId \in Nat /\ (max = -1 => max' = -1 /\ StartId = 0)
        /\ stops' \in 0 .. setting.MaxStops /\ queue' = queue /\ old' = old
    BY <1>1, SyncTypes DEF StartId, source, files, SyncInv, SteadyLookedAt, SyncTypeOK
  <1>3. counter' \in Nat /\ known' \in SUBSET Cases /\ missed' \in SUBSET Cases
    BY <1>1, SyncTypes
  <1>4. Steady => LookedAt' /\ Gapless'
    BY <1>1, <1>2, SyncTypes DEF LookedAt, SteadyScan, Gapless
  <1>5. CASE UNCHANGED <<reader, names, next, start_id, lost>>
    <2>1. ASSUME Steady PROVE SteadyScan'
      BY <1>1, <1>2, <1>4, <1>5, <2>1, SyncTypes DEF SteadyScan
    <2>2. /\ reader' \in {"off", "fuzz", "sync"} /\ reader' # "sync" /\ names' \in Seq(File)
          /\ next' \in Nat /\ start_id' \in Nat /\ lost' \in SUBSET Cases
      BY <1>1, <1>5, SyncTypes
    <2> QED
      BY <1>1, <1>2, <1>3, <1>4, <2>1, <2>2, SourceKept
  <1>6. ASSUME NEW m \in DOMAIN Listed, Listed[m].id = counter, reader' = "sync",
               names' = SubSeq(Listed, m, Len(Listed)), next' = counter, start_id' = StartId,
               lost' = IF gone /\ cut \in m .. Len(Listed) THEN {queue[cut].case} ELSE {}
        PROVE  SyncInv'
    <2>1. /\ Listed \in Seq(File) /\ m \in 1 .. Len(Listed) /\ Len(Listed) \in Nat
          /\ \A i \in DOMAIN Listed : \E j \in DOMAIN queue : Listed[i] = queue[j]
          /\ DOMAIN Listed = 1 .. Len(Listed)
      BY <1>6, ListedFiles
    <2>2. /\ names' \in Seq(File) /\ Len(names') = Len(Listed) - m + 1
          /\ DOMAIN names' = 1 .. (Len(Listed) - m + 1)
          /\ \A k \in 1 .. (Len(Listed) - m + 1) : names'[k] = Listed[m + k - 1]
      BY <1>6, <2>1, RestOfListing
    <2>3. \A k \in DOMAIN names' : m + k - 1 \in DOMAIN Listed
      BY <2>1, <2>2, SMT
    <2>4. \A k \in m .. Len(Listed) : Listed[k].case \in CasesOf(names')
      <3>1. \A k \in m .. Len(Listed) : k - m + 1 \in DOMAIN names' /\ m + (k - m + 1) - 1 = k
        BY <2>1, <2>2, SMT
      <3>2. \A k \in m .. Len(Listed) : names'[k - m + 1] = Listed[k]
        BY <2>2, <3>1
      <3> QED
        BY <3>1, <3>2 DEF CasesOf
    <2>5. lost' \in SUBSET Cases
      <3>1. CASE gone /\ cut \in m .. Len(Listed)
        <4>1. queue[cut] \in File
          BY <3>1, <2>1, SyncTypes, SMT
        <4> QED
          BY <1>6, <3>1, <4>1 DEF File
      <3> QED
        BY <1>6, <3>1
    <2>6. counter' <= next' /\ next' \in Nat /\ start_id' \in Nat
      BY <1>1, <1>2, <1>6, SyncTypes, SMT
    <2>7. ASSUME Steady PROVE SteadyScan'
      <3>1. LookedAt /\ SteadyScan
        BY <2>7, SyncTypes
      <3>2. /\ counter + (Len(Listed) - m + 1) <= Len(queue)
            /\ \A i \in DOMAIN queue :
                 counter < i /\ i <= counter + (Len(Listed) - m + 1) =>
                   \/ gone /\ i = cut /\ cut \in m .. Len(Listed)
                   \/ \E k \in m .. Len(Listed) : Listed[k] = queue[i]
        BY <1>6, <3>1, ListedRest DEF SteadyScan
      <3>3. ASSUME NEW i \in DOMAIN queue, i <= next' + Len(names')
            PROVE  queue[i].case \in DealtWith'
        <4>1. CASE i <= counter
          <5>1. queue[i].id < counter
            BY <3>1, <4>1, SyncTypes, SMT DEF SteadyScan, Gapless
          <5> QED
            BY <1>1, <3>1, <5>1 DEF LookedAt, DealtWith
        <4>2. CASE counter < i
          <5>1. i <= counter + (Len(Listed) - m + 1)
            BY <1>6, <2>2, <3>3
          <5>2. CASE gone /\ i = cut /\ cut \in m .. Len(Listed)
            BY <1>6, <5>2 DEF DealtWith
          <5>3. CASE \E k \in m .. Len(Listed) : Listed[k] = queue[i]
            BY <2>4, <5>3 DEF DealtWith, CasesOf
          <5> QED
            BY <3>2, <4>2, <5>1, <5>2, <5>3
        <4>3. i <= counter \/ counter < i
          BY SyncTypes, SMT
        <4> QED
          BY <4>1, <4>2, <4>3
      <3>4. \A k \in DOMAIN names' : names'[k].mine => names'[k].case \in known'
        BY <1>1, <2>1, <2>2, <2>3, <3>1 DEF SteadyScan
      <3>5. next' + Len(names') <= Len(queue')
        BY <1>2, <1>6, <2>2, <3>2
      <3> QED
        BY <1>1, <1>2, <1>4, <1>6, <2>7, <3>1, <3>3, <3>4, <3>5 DEF SteadyScan
    <2> QED
      BY <1>1, <1>2, <1>3, <1>4, <1>6, <2>2, <2>5, <2>6, <2>7, SourceKept
  <1> QED
    BY <1>1, <1>5, <1>6

\* Visit: the next file of the listing is run, or known, or found missing.
LEMMA VisitStep ==
  ASSUME SyncInv, Visit
  PROVE  SyncInv'
  <1> DEFINE f == Head(names)
  <1>1. /\ UNCHANGED <<setting, source, counter, max, missed, reader, start_id, stops>>
        /\ reader = "sync" /\ names # <<>> /\ next' = next + 1 /\ names' = Tail(names)
        /\ \/ /\ known' = IF Wanted(f, next') THEN known \cup {f.case} ELSE known
              /\ lost' = lost
           \/ lost' = lost \cup {f.case} /\ known' = known
    BY DEF Visit
  <1>2. /\ f = names[1] /\ f \in File /\ 1 \in DOMAIN names
        /\ names' \in Seq(File) /\ Len(names') = Len(names) - 1
        /\ DOMAIN names' = 1 .. (Len(names) - 1)
        /\ \A k \in 1 .. (Len(names) - 1) : names'[k] = names[k + 1]
    BY <1>1, SyncTypes, NextOfListing
  <1>3. f.case \in Cases
    BY <1>2 DEF File
  <1> HIDE DEF f
  <1>4. /\ known \subseteq known' /\ known' \in SUBSET Cases /\ lost' \in SUBSET Cases
        /\ lost \subseteq lost'
    BY <1>1, <1>3, SyncTypes
  <1>5. /\ next' \in Nat /\ counter <= next' /\ next' + Len(names') = next + Len(names)
        /\ \A k \in DOMAIN names' : k + 1 \in DOMAIN names
        /\ \A k \in DOMAIN names : k = 1 \/ (k - 1 \in DOMAIN names' /\ (k - 1) + 1 = k)
    <2>1. /\ next \in Nat /\ counter \in Nat /\ counter <= next /\ Len(names) \in Nat
          /\ DOMAIN names = 1 .. Len(names)
      BY <1>1, SyncTypes
    <2>2. /\ next' = next + 1 /\ Len(names') = Len(names) - 1
          /\ DOMAIN names' = 1 .. (Len(names) - 1)
      BY <1>1, <1>2
    <2>3. next' \in Nat /\ counter <= next' /\ next' + Len(names') = next + Len(names)
      BY <2>1, <2>2, SMT
    <2> QED
      BY <2>1, <2>2, <2>3, SMT
  <1>6. ASSUME Steady PROVE LookedAt' /\ SteadyScan'
    <2>1. LookedAt /\ SteadyScan /\ queue' = queue /\ old' = old
      BY <1>1, <1>6, SyncTypes DEF source, files
    <2>2. f.case \in known' \cup lost'
      <3>1. CASE f.mine
        BY <1>2, <1>4, <2>1, <3>1 DEF SteadyScan
      <3>2. CASE ~f.mine
        BY <1>1, <3>2 DEF Wanted
      <3> QED
        BY <3>1, <3>2
    <2>3. \A k \in DOMAIN names : names[k].case = f.case \/ names[k].case \in CasesOf(names')
      <3>1. \A k \in DOMAIN names : k = 1 \/ names[k] = names'[k - 1]
        BY <1>2, <1>5
      <3> QED
        BY <1>2, <1>5, <3>1 DEF CasesOf
    <2>4. DealtWith \subseteq DealtWith'
      <3>1. CasesOf(names) \subseteq {f.case} \cup CasesOf(names')
        BY <2>3 DEF CasesOf
      <3>2. CasesOf(names)' = CasesOf(names')
        BY DEF CasesOf
      <3> QED
        BY <1>1, <1>4, <2>2, <3>1, <3>2 DEF DealtWith
    <2>5. \A k \in DOMAIN names' : names'[k].mine => names'[k].case \in known'
      <3>1. \A k \in DOMAIN names' : names'[k] = names[k + 1] /\ k + 1 \in DOMAIN names
        BY <1>2, <1>5
      <3> QED
        BY <1>4, <2>1, <3>1 DEF SteadyScan
    <2>6. LookedAt'
      BY <1>1, <1>4, <2>1 DEF LookedAt
    <2>7. Gapless'
      BY <2>1 DEF SteadyScan, Gapless
    <2> QED
      BY <1>1, <1>4, <1>5, <2>1, <2>4, <2>5, <2>6, <2>7 DEF SteadyScan
  <1>7. /\ counter' \in Nat /\ max' \in Nat \cup {-1} /\ start_id' \in Nat
        /\ missed' \in SUBSET Cases /\ reader' \in {"off", "fuzz", "sync"}
        /\ counter' <= next' /\ stops' \in 0 .. setting.MaxStops
    BY <1>1, <1>5, SyncTypes DEF SyncInv, SteadyLookedAt, SyncTypeOK
  <1> QED
    BY <1>1, <1>2, <1>4, <1>5, <1>6, <1>7, SourceKept

\* EndSync: whatever the counter passes was run or found missing; Stop forgets
\* the listing and keeps the counter; a fresh reader is none of a steady campaign.
LEMMA LeaveStep ==
  ASSUME SyncInv, EndSync \/ Stop \/ ResumeReader \/ FreshReader
  PROVE  SyncInv'
  <1>1. UNCHANGED <<setting, source>> /\ queue' = queue /\ old' = old
    BY DEF EndSync, Stop, ResumeReader, FreshReader, source, files
  <1>2. /\ <<>> \in Seq(File) /\ 0 \in Nat /\ {} \in SUBSET Cases /\ DOMAIN <<>> = {}
        /\ Len(<<>>) = 0 /\ CasesOf(<<>>) = {}
    BY EmptyQueue, SMT
  <1>3. setting.MaxStops \in Nat /\ stops \in 0 .. setting.MaxStops
    BY SettingType, SyncTypes DEF SyncInv, SteadyLookedAt, SyncTypeOK
  <1>4. CASE EndSync
    <2>1. /\ UNCHANGED <<stops, max, known>> /\ counter' = next /\ names = <<>>
          /\ missed' = missed \cup lost /\ reader = "sync" /\ reader' = "fuzz"
          /\ names' = <<>> /\ next' = 0 /\ start_id' = 0 /\ lost' = {}
      BY <1>4 DEF EndSync, LeaveScan
    <2>2. ASSUME Steady PROVE LookedAt' /\ SteadyScan'
      <3>1. LookedAt /\ SteadyScan
        BY <2>2, SyncTypes
      <3>2. next + Len(names) = next
        BY <1>2, <2>1, SyncTypes, SMT
      <3>3. /\ next <= Len(queue)
            /\ \A i \in DOMAIN queue : i <= next => queue[i].case \in known \cup missed \cup lost
        BY <1>2, <2>1, <3>1, <3>2 DEF SteadyScan, DealtWith
      <3>4. \A i \in DOMAIN queue : queue[i].id < next => i <= next
        BY <3>1, SyncTypes, SMT DEF SteadyScan, Gapless
      <3>5. LookedAt'
        BY <1>1, <2>1, <3>3, <3>4 DEF LookedAt
      <3>6. Gapless'
        BY <1>1, <3>1 DEF SteadyScan, Gapless
      <3> QED
        BY <1>1, <1>2, <2>1, <3>1, <3>3, <3>5, <3>6 DEF SteadyScan
    <2>3. /\ counter' \in Nat /\ max' \in Nat \cup {-1} /\ known' \in SUBSET Cases
          /\ missed' \in SUBSET Cases
      BY <2>1, SyncTypes
    <2> QED
      BY <1>1, <1>2, <1>3, <2>1, <2>2, <2>3, SourceKept
  <1>5. CASE Stop
    <2>1. /\ UNCHANGED <<max, known, missed, counter>> /\ stops' = stops + 1
          /\ stops < setting.MaxStops /\ reader' = "off"
          /\ names' = <<>> /\ next' = 0 /\ start_id' = 0 /\ lost' = {}
      BY <1>5 DEF Stop, LeaveScan, StoppedCounter
    <2>2. stops' \in 0 .. setting.MaxStops
      BY <1>3, <2>1, SMT
    <2>3. ASSUME Steady PROVE LookedAt' /\ SteadyScan'
      <3>1. LookedAt /\ SteadyScan
        BY <2>3, SyncTypes
      <3> QED
        BY <1>1, <1>2, <2>1, <3>1 DEF LookedAt, SteadyScan, Gapless
    <2>4. /\ counter' \in Nat /\ max' \in Nat \cup {-1} /\ known' \in SUBSET Cases
          /\ missed' \in SUBSET Cases
      BY <2>1, SyncTypes
    <2> QED
      BY <1>1, <1>2, <2>1, <2>2, <2>3, <2>4, SourceKept
  <1>6. CASE ResumeReader
    <2>1. /\ UNCHANGED <<counter, max, known, missed, names, next, start_id, lost, stops>>
          /\ reader' = "fuzz"
      BY <1>6 DEF ResumeReader, scan
    <2>2. ASSUME Steady PROVE LookedAt' /\ SteadyScan'
      <3>1. LookedAt /\ SteadyScan
        BY <2>2, SyncTypes
      <3> QED
        BY <1>1, <2>1, <3>1 DEF LookedAt, SteadyScan, Gapless
    <2>3. /\ counter' \in Nat /\ max' \in Nat \cup {-1} /\ known' \in SUBSET Cases
          /\ missed' \in SUBSET Cases /\ lost' \in SUBSET Cases
          /\ names' \in Seq(File) /\ next' \in Nat /\ start_id' \in Nat
      BY <2>1, SyncTypes
    <2> QED
      BY <1>1, <1>3, <2>1, <2>2, <2>3, SourceKept
  <1>7. CASE FreshReader
    <2>1. /\ UNCHANGED <<names, next, start_id, lost, stops>>
          /\ "fresh" \in setting.ReaderStarts /\ reader' = "fuzz"
          /\ known' = {} /\ missed' = {} /\ counter' = 0 /\ max' = Len(Listed) - 1
      BY <1>7 DEF FreshReader, scan
    <2>2. ~Steady
      BY <2>1, SMT DEF Steady
    <2>3. /\ counter' \in Nat /\ known' \in SUBSET Cases /\ missed' \in SUBSET Cases
          /\ lost' \in SUBSET Cases
          /\ names' \in Seq(File) /\ next' \in Nat /\ start_id' \in Nat
      BY <1>2, <2>1, SyncTypes
    <2>4. max' \in Nat \cup {-1}
      BY <2>1, ListedFiles, SMT
    <2> QED
      BY <1>1, <1>3, <2>1, <2>2, <2>3, <2>4, SourceKept
  <1> QED
    BY <1>4, <1>5, <1>6, <1>7

\* Every step keeps it.
LEMMA SyncInductive == SyncInv /\ [SyncNext]_syncVars => SyncInv'
  <1> SUFFICES ASSUME SyncInv, [SyncNext]_syncVars PROVE SyncInv'
    OBVIOUS
  <1>1. CASE SyncNext
    <2>1. CASE \E c \in setting.Found, mine \in BOOLEAN, p \in 1 .. (Len(queue) + 1) :
                 Queue(c, mine, p)
      BY <2>1, QueueStep
    <2>2. CASE \/ \E i \in DOMAIN queue : Trim(i)
               \/ Recreate \/ Write \/ Tick \/ SeenRestart
               \/ \E c \in setting.Found : Find(c)
      BY <2>2, SmallStep
    <2>3. CASE Restart \/ Resume
      BY <2>3, EndOfSource
    <2>4. CASE Pivot
      BY <2>4, PivotStep
    <2>5. CASE BeginSync \/ Visit
      BY <2>5, BeginSyncStep, VisitStep
    <2>6. CASE EndSync \/ Stop \/ ResumeReader \/ FreshReader
      BY <2>6, LeaveStep
    <2> QED
      BY <1>1, <2>1, <2>2, <2>3, <2>4, <2>5, <2>6 DEF SyncNext, SourceStep, ReaderStep
  <1>2. CASE UNCHANGED syncVars
    <2>1. /\ UNCHANGED <<setting, source, counter, max, known, missed, reader, names, next,
                         start_id, lost, stops>>
          /\ queue' = queue /\ old' = old
      BY <1>2 DEF syncVars, source, files, import, scan
    <2>2. Steady => LookedAt' /\ SteadyScan'
      BY <2>1, SyncTypes DEF LookedAt, SteadyScan, Gapless, DealtWith, CasesOf
    <2>3. stops \in 0 .. setting.MaxStops
      BY DEF SyncInv, SteadyLookedAt, SyncTypeOK
    <2> QED
      BY <2>1, <2>2, <2>3, SyncTypes, SourceKept
  <1> QED
    BY <1>1, <1>2

\* Whatever lies below the stored counter in the queue of a steady source, the
\* reader has run (sync_fuzzers), except what it found absent or empty because
\* the source was just rewriting it: however often it was stopped and resumed in
\* the middle of a sync, and whatever was queued or trimmed between its listing
\* and its visits.  All state keeps its type whatever the two go through.
THEOREM NothingPassedOver == SyncSpec => []SteadyLookedAt
  <1>1. SyncInv => SteadyLookedAt
    BY DEF SyncInv
  <1> QED
    BY <1>1, SyncInitInv, SyncInductive, PTL DEF SyncSpec
=============================================================================
