--------------------------- MODULE SessionProofs ----------------------------
(***************************************************************************)
(* Proof, for any builds, names and bounds, that no session loses an entry *)
(* of an earlier one, gives an id twice or takes the record of one entry   *)
(* for that of another (Session), wherever the process was killed.         *)
(***************************************************************************)
EXTENDS Session, FiniteSetTheorems, TLAPS

\* Most steps are first-order; those that need arithmetic or records cite SMT.
USE Zenon

\* What fastresume.bin holds.
Dumps == [recs : Seq(Names), maps : SUBSET Binaries, whole : BOOLEAN]

\* The ids of a list of entries are its positions, from 0.
Numbered(s) == \A i \in DOMAIN s : s[i][1] = i - 1
NoTwice(s) == \A i, j \in DOMAIN s : s[i] = s[j] => i = j
First(s, k) == {s[i] : i \in 1..k}

\* A session has read its queue, and has gone on to fuzz.
HasRead == pc \in {"pivot", "nuke", "load", "fuzz", "write", "dump"}
Fuzzing == pc \in {"fuzz", "write", "dump"}

Shape ==
  /\ queue \in SUBSET Names /\ resume \in SUBSET Names /\ empty \subseteq queue \cup resume
  /\ target_hash \in Binaries /\ found \in SUBSET Names
  /\ torn \subseteq {"nuke", "trim"} /\ kills \in 0..MaxKills
  /\ pc \in {"off", "clean", "open", "read", "pivot", "nuke", "load", "fuzz", "write", "dump"}
  /\ IsFiniteSet(queue) /\ IsFiniteSet(resume)
  /\ queue_buf \in Seq(Names) /\ rec \in Seq(Names)
  /\ pc # "off" => binary \in Binaries
  /\ dump # None \/ pc = "dump" => dump \in Dumps
  /\ opened # None => opened \in Dumps
  /\ maps \in SUBSET Binaries

\* What is in queue/ and _resume/, wherever the session is.  While there is a
\* _resume/, the files of queue/ are links to those of it that have content.
Links ==
  /\ resume # {} => queue \cap empty = {}
  /\ pc = "clean" /\ resume = {} => queue = {}
  /\ pc \in {"open", "read"} => queue = {}
  /\ pc = "pivot" =>
       /\ NoTwice(queue_buf) /\ Ran(queue_buf) \subseteq resume \ empty
       /\ \E k \in 0..Len(queue_buf) : queue = First(queue_buf, k)
  /\ HasRead /\ pc # "pivot" => Ran(queue_buf) \subseteq queue
  /\ Fuzzing \/ pc = "load" => resume = {}
  /\ pc = "write" => cur \in queue

\* The directory the next session reads.
Store == IF resume = {} THEN queue ELSE resume

\* The records are those of the first entries.
Recorded(d) == d # None => Numbered(d.recs) /\ Ran(d.recs) \subseteq found

\* If no kill has cut anything short, the files with content are the entries that
\* were found, these are numbered without a gap, and a session that has read its
\* queue has them all.
Kept ==
  torn = {} =>
    /\ queue \cup resume \subseteq found \cup empty
    /\ \A n \in found \cap empty : pc = "write" /\ n = cur
    /\ ~HasRead => found \subseteq Store
    /\ \E s \in Seq(Names) : Numbered(s) /\ Ran(s) = found
    /\ HasRead => Numbered(queue_buf) /\ Ran(queue_buf) = found
    /\ pc = "write" /\ cur \notin found => cur[1] = Len(queue_buf)
    /\ Recorded(dump) /\ Recorded(opened)
    /\ Fuzzing => rec = queue_buf
    /\ pc = "dump" => dump.recs = queue_buf

IInv == Shape /\ Links /\ Kept

\* The build that records and virgin maps are of, wherever the session is: a dump
\* that is left on disk is of the build that target_hash names, and the one that
\* is opened of the build of the session.
Builds ==
  /\ outdated \in BOOLEAN
  /\ pc \in {"off", "clean", "open"} => opened = None
  /\ pc \notin {"off", "clean"} => target_hash = binary
  /\ ~outdated =>
       /\ pc \in {"off", "clean"} /\ dump # None => dump.maps = {target_hash}
       /\ pc = "open" /\ dump # None /\ ~no_fastresume => dump.maps = {prev_target_hash}
       /\ opened # None => opened.maps = {binary}
       /\ Fuzzing => maps = {binary}
       /\ pc = "dump" => dump.maps = {binary}

-----------------------------------------------------------------------------
\* A name has two parts.
LEMMA NameParts ==
  ASSUME NEW m \in Names
  PROVE  m[1] \in Nat /\ m[2] \in Nat /\ m = <<m[1], m[2]>>
  <1>1. PICK a \in 0..(MaxEntries - 1), b \in Tags : m = <<a, b>>
    BY SMT DEF Names
  <1>2. a \in Nat /\ b \in Nat
    BY SessionAssumption, SMT
  <1> QED
    BY <1>1, <1>2

\* By which names are ordered.
LEMMA BeforeOrders ==
  ASSUME NEW l \in Names, NEW m \in Names, NEW n \in Names
  PROVE  /\ ~Before(m, m)
         /\ m # n => Before(m, n) \/ Before(n, m)
         /\ Before(l, m) /\ Before(m, n) => Before(l, n)
  <1>1. /\ l[1] \in Nat /\ l[2] \in Nat /\ m[1] \in Nat /\ m[2] \in Nat
        /\ n[1] \in Nat /\ n[2] \in Nat
    BY NameParts
  <1>2. m[1] = n[1] /\ m[2] = n[2] => m = n
    BY NameParts
  <1> QED
    BY <1>1, <1>2, SMT DEF Before

\* The rank of a name of a directory: a number, another one for every name.
LEMMA Ranks ==
  ASSUME NEW S \in SUBSET Names, IsFiniteSet(S)
  PROVE  /\ \A n \in S : Cardinality({m \in S : Before(m, n)}) \in 0..(Cardinality(S) - 1)
         /\ \A n, o \in S :
              Cardinality({m \in S : Before(m, n)}) = Cardinality({m \in S : Before(m, o)})
                => n = o
  <1> DEFINE B(n) == {m \in S : Before(m, n)}
  <1>1. \A n \in S : IsFiniteSet(B(n)) /\ Cardinality(B(n)) \in Nat /\ B(n) \in SUBSET S
    BY FS_Subset, FS_CardinalityType
  <1>2. Cardinality(S) \in Nat
    BY FS_CardinalityType
  <1>3. \A n \in S : Cardinality(B(n)) \in 0..(Cardinality(S) - 1)
    <2> SUFFICES ASSUME NEW n \in S PROVE Cardinality(B(n)) \in 0..(Cardinality(S) - 1)
      OBVIOUS
    <2>1. n \notin B(n)
      BY BeforeOrders
    <2>2. B(n) \in SUBSET S /\ B(n) # S
      BY <2>1
    <2> HIDE DEF B
    <2>3. Cardinality(B(n)) <= Cardinality(S) /\ Cardinality(B(n)) # Cardinality(S)
      BY <2>2, FS_Subset
    <2> QED
      BY <1>1, <1>2, <2>3, SMT
  <1>4. \A n, o \in S : Before(n, o) => Cardinality(B(n)) # Cardinality(B(o))
    <2> SUFFICES ASSUME NEW n \in S, NEW o \in S, Before(n, o)
                 PROVE  Cardinality(B(n)) # Cardinality(B(o))
      OBVIOUS
    <2>1. B(n) \in SUBSET B(o)
      BY BeforeOrders
    <2>2. n \in B(o) /\ n \notin B(n)
      BY BeforeOrders
    <2>3. IsFiniteSet(B(o))
      BY <1>1
    <2> HIDE DEF B
    <2> QED
      BY <2>1, <2>2, <2>3, FS_Subset
  <1>5. \A n, o \in S : Cardinality(B(n)) = Cardinality(B(o)) => n = o
    <2> HIDE DEF B
    <2> QED
      BY <1>4, BeforeOrders
  <1> QED
    BY <1>3, <1>5

\* scandir() lists every file of a directory once.
LEMMA SortedLists ==
  ASSUME NEW S \in SUBSET Names, IsFiniteSet(S)
  PROVE  /\ Sorted(S) \in Seq(S) /\ Sorted(S) \in Seq(Names)
         /\ NoTwice(Sorted(S)) /\ Ran(Sorted(S)) = S
  <1> DEFINE R(n) == Cardinality({m \in S : Before(m, n)})
             N == Cardinality(S)
  <1>1. /\ \A n \in S : R(n) \in 0..(N - 1)
        /\ \A n, o \in S : R(n) = R(o) => n = o
    BY Ranks
  <1>2. N \in Nat
    BY FS_CardinalityType
  <1>3. Sorted(S) = [i \in 1..N |-> CHOOSE n \in S : R(n) = i - 1]
    BY DEF Sorted
  <1> HIDE DEF R, N
  <1>4. \A i \in 1..N : \E n \in S : R(n) = i - 1
    <2> SUFFICES ASSUME NEW i \in 1..N, \A n \in S : R(n) # i - 1 PROVE FALSE
      OBVIOUS
    <2> DEFINE D == 0..(N - 1)
               h == i - 1
               f == [n \in S |-> R(n)]
    <2>1. f \in [S -> D \ {h}] /\ \A n \in S : f[n] = R(n)
      BY <1>1
    <2>2. IsFiniteSet(D) /\ Cardinality(D) = N
      BY <1>2, FS_Interval, SMT
    <2>3. h \in D
      BY <1>2, SMT
    <2> HIDE DEF D, h, f
    <2>4. IsFiniteSet(D \ {h}) /\ Cardinality(D \ {h}) = Cardinality(D) - 1
      BY <2>2, <2>3, FS_RemoveElement
    <2>5. Cardinality(D \ {h}) < Cardinality(S)
      BY <1>2, <2>2, <2>4, SMT DEF N
    <2>6. \E x, y \in S : x # y /\ f[x] = f[y]
      <3> DEFINE T == D \ {h}
      <3>1. f \in [S -> T] /\ IsFiniteSet(T) /\ Cardinality(T) < Cardinality(S)
        BY <2>1, <2>4, <2>5
      <3> HIDE DEF T
      <3> QED
        BY <3>1, FS_PigeonHole
    <2> QED
      BY <1>1, <2>1, <2>6
  <1> DEFINE s == Sorted(S)
  <1>5. \A i \in 1..N : s[i] \in S /\ R(s[i]) = i - 1
    BY <1>3, <1>4
  <1>6. DOMAIN s = 1..N /\ s \in [1..N -> S]
    BY <1>3, <1>5
  <1> HIDE DEF s
  <1>7. s \in Seq(S)
    BY <1>2, <1>6, SMT
  <1>8. s \in Seq(Names)
    BY <1>2, <1>6, SMT
  <1>9. NoTwice(s)
    BY <1>2, <1>5, <1>6, SMT DEF NoTwice
  <1>10. ASSUME NEW n \in S PROVE n \in Ran(s)
    <2>1. R(n) + 1 \in 1..N /\ R(n) = (R(n) + 1) - 1
      BY <1>1, <1>2, SMT
    <2>2. s[R(n) + 1] = n
      BY <1>1, <1>5, <2>1
    <2> QED
      BY <1>6, <2>1, <2>2 DEF Ran
  <1>11. Ran(s) = S
    BY <1>5, <1>6, <1>10 DEF Ran
  <1> QED
    BY <1>7, <1>8, <1>9, <1>11 DEF s

\* How many files have been linked.
LEMMA FirstCount ==
  ASSUME NEW s \in Seq(Names), NoTwice(s), NEW k \in 0..Len(s)
  PROVE  IsFiniteSet(First(s, k)) /\ Cardinality(First(s, k)) = k
  <1> DEFINE f == [i \in 1..k |-> s[i]]
  <1>1. 1..k \subseteq DOMAIN s
    BY SMT
  <1>2. f \in [1..k -> First(s, k)] /\ \A i, j \in 1..k : f[i] = f[j] => i = j
    BY <1>1 DEF First, NoTwice
  <1>3. \A n \in First(s, k) : \E i \in 1..k : f[i] = n
    BY DEF First
  <1>4. f \in Bijection(1..k, First(s, k))
    BY <1>2, <1>3 DEF Bijection, Injection, Surjection, IsInjective
  <1>5. ExistsBijection(1..k, First(s, k))
    BY <1>4 DEF ExistsBijection
  <1>6. IsFiniteSet(1..k) /\ Cardinality(1..k) = k
    BY FS_Interval, SMT
  <1> QED
    BY <1>5, <1>6, FS_Bijection

\* All of a list.
LEMMA FirstAll ==
  ASSUME NEW s \in Seq(Names)
  PROVE  /\ Ran(s) = First(s, Len(s)) /\ Ran(s) \in SUBSET Names
         /\ Len(s) \in Nat /\ DOMAIN s = 1..Len(s)
  BY SMT DEF Ran, First

\* In a numbered list an id, and so an entry, occurs once.
LEMMA NumberedOnce ==
  ASSUME NEW s \in Seq(Names), Numbered(s)
  PROVE  /\ NoTwice(s) /\ IsFiniteSet(Ran(s)) /\ Cardinality(Ran(s)) = Len(s)
         /\ \A m, n \in Ran(s) : m[1] = n[1] => m = n
  <1>1. \A i, j \in DOMAIN s : s[i][1] = s[j][1] => i = j
    <2> SUFFICES ASSUME NEW i \in DOMAIN s, NEW j \in DOMAIN s, s[i][1] = s[j][1] PROVE i = j
      OBVIOUS
    <2>1. i \in Nat /\ j \in Nat /\ i - 1 = j - 1
      BY SMT DEF Numbered
    <2> QED
      BY <2>1, SMT
  <1>2. NoTwice(s)
    BY <1>1 DEF NoTwice
  <1>3. Len(s) \in 0..Len(s)
    BY FirstAll, SMT
  <1>4. IsFiniteSet(Ran(s)) /\ Cardinality(Ran(s)) = Len(s)
    BY <1>2, <1>3, FirstAll, FirstCount
  <1> QED
    BY <1>1, <1>2, <1>4 DEF Ran

\* ... and scandir() lists its files in its order.
LEMMA SortedNumbered ==
  ASSUME NEW s \in Seq(Names), Numbered(s)
  PROVE  Sorted(Ran(s)) = s
  <1> DEFINE S == Ran(s)
             R(n) == Cardinality({m \in S : Before(m, n)})
  <1>1. S \in SUBSET Names /\ IsFiniteSet(S) /\ Cardinality(S) = Len(s) /\ NoTwice(s)
        /\ Len(s) \in Nat /\ DOMAIN s = 1..Len(s)
    BY FirstAll, NumberedOnce
  <1>2. ASSUME NEW i \in 1..Len(s) PROVE R(s[i]) = i - 1
    <2>0. \A j \in DOMAIN s : Before(s[j], s[i]) <=> j < i
      <3> SUFFICES ASSUME NEW j \in DOMAIN s PROVE Before(s[j], s[i]) <=> j < i
        OBVIOUS
      <3>1. i \in Nat /\ j \in Nat /\ s[j][1] = j - 1 /\ s[i][1] = i - 1
        BY <1>1, SMT DEF Numbered
      <3>2. CASE i = j
        BY <1>1, <3>2, <3>1, BeforeOrders, SMT
      <3>3. CASE i # j
        BY <3>1, <3>3, SMT DEF Before
      <3> QED
        BY <3>2, <3>3
    <2>1. {m \in S : Before(m, s[i])} = First(s, i - 1)
      <3>1. \A j \in 1..(i - 1) : j \in DOMAIN s /\ j < i
        BY <1>1, SMT
      <3>2. \A j \in DOMAIN s : j < i => j \in 1..(i - 1)
        BY <1>1, SMT
      <3> QED
        BY <2>0, <3>1, <3>2 DEF Ran, First
    <2>2. i - 1 \in 0..Len(s)
      BY <1>1, SMT
    <2> QED
      BY <1>1, <2>1, <2>2, FirstCount
  <1>3. \A n, o \in S : R(n) = R(o) => n = o
    BY <1>1, Ranks
  <1>4. Sorted(S) = [i \in 1..Len(s) |-> CHOOSE n \in S : R(n) = i - 1]
    BY <1>1 DEF Sorted
  <1>5. \A i \in 1..Len(s) : s[i] \in S
    BY <1>1 DEF Ran
  <1> HIDE DEF R, S
  <1>6. \A i \in 1..Len(s) : (CHOOSE n \in S : R(n) = i - 1) = s[i]
    BY <1>2, <1>3, <1>5
  <1>7. Sorted(S) = [i \in 1..Len(s) |-> s[i]]
    BY <1>4, <1>6
  <1>8. s = [i \in 1..Len(s) |-> s[i]]
    BY <1>1, SMT
  <1> QED
    BY <1>7, <1>8 DEF S

\* A dump of as many records as there are entries is one of these entries.
LEMMA SameRecords ==
  ASSUME NEW s \in Seq(Names), Numbered(s), NEW r \in Seq(Names), Numbered(r),
         Ran(r) \subseteq Ran(s), Len(r) = Len(s)
  PROVE  r = s
  <1>1. Len(s) \in Nat /\ DOMAIN s = 1..Len(s) /\ DOMAIN r = 1..Len(s)
    BY FirstAll
  <1>2. ASSUME NEW i \in 1..Len(s) PROVE r[i] = s[i]
    <2>1. r[i] \in Ran(s) /\ s[i] \in Ran(s)
      BY <1>1 DEF Ran
    <2>2. r[i][1] = i - 1 /\ s[i][1] = i - 1
      BY <1>1 DEF Numbered
    <2> QED
      BY <2>1, <2>2, NumberedOnce
  <1> QED
    BY <1>1, <1>2, SMT

\* A new entry is numbered by how many there are.
LEMMA AppendEntry ==
  ASSUME NEW s \in Seq(Names), NEW n \in Names
  PROVE  /\ Append(s, n) \in Seq(Names) /\ Ran(Append(s, n)) = Ran(s) \cup {n}
         /\ Numbered(s) /\ n[1] = Len(s) => Numbered(Append(s, n))
  <1>1. /\ Append(s, n) \in Seq(Names) /\ Len(s) \in Nat /\ DOMAIN s = 1..Len(s)
        /\ DOMAIN Append(s, n) = 1..(Len(s) + 1) /\ Append(s, n)[Len(s) + 1] = n
        /\ \A i \in 1..Len(s) : Append(s, n)[i] = s[i]
    BY SMT
  <1> DEFINE a == Append(s, n)
  <1> HIDE DEF a
  <1>2. \A i \in 1..(Len(s) + 1) : i \in 1..Len(s) \/ i = Len(s) + 1
    BY <1>1, SMT
  <1>3. Ran(a) = Ran(s) \cup {n}
    <2>1. \A i \in 1..Len(s) : i \in 1..(Len(s) + 1)
      BY <1>1, SMT
    <2>2. Len(s) + 1 \in 1..(Len(s) + 1)
      BY <1>1, SMT
    <2> QED
      BY <1>1, <1>2, <2>1, <2>2 DEF Ran, a
  <1>4. ASSUME Numbered(s), n[1] = Len(s) PROVE Numbered(a)
    BY <1>1, <1>2, <1>4, SMT DEF Numbered, a
  <1> QED
    BY <1>1, <1>3, <1>4 DEF a

-----------------------------------------------------------------------------
\* The first session starts with the seeds.
LEMMA InitIInv == Init => IInv
  <1> SUFFICES ASSUME Init PROVE IInv
    OBVIOUS
  <1>0. /\ queue = (0..(Seeds - 1)) \X {0} /\ resume = {} /\ empty = {} /\ torn = {}
        /\ found = queue /\ queue_buf = Sorted(queue) /\ rec = queue_buf /\ pc = "fuzz"
        /\ binary \in Binaries /\ target_hash = binary /\ maps = {binary}
        /\ dump = None /\ opened = None /\ kills = 0
    BY DEF Init
  <1> DEFINE s == [i \in 1..Seeds |-> <<i - 1, 0>>]
  <1>1. \A i \in 1..Seeds : <<i - 1, 0>> \in Names /\ <<i - 1, 0>> \in queue
    BY <1>0, SessionAssumption, SMT DEF Names
  <1>2. s \in [1..Seeds -> Names] /\ DOMAIN s = 1..Seeds /\ \A i \in 1..Seeds : s[i] = <<i - 1, 0>>
    BY <1>1
  <1> HIDE DEF s
  <1>3. s \in Seq(Names)
    BY <1>2, SessionAssumption, SMT
  <1>4. Numbered(s)
    BY <1>2, SMT DEF Numbered
  <1>5. \A n \in queue : \E i \in 1..Seeds : n = <<i - 1, 0>>
    <2> SUFFICES ASSUME NEW a \in 0..(Seeds - 1) PROVE \E i \in 1..Seeds : <<a, 0>> = <<i - 1, 0>>
      BY <1>0, SMT
    <2>1. a + 1 \in 1..Seeds /\ a = (a + 1) - 1
      BY SessionAssumption, SMT
    <2> QED
      BY <2>1
  <1>6. Ran(s) = queue
    <2>1. ASSUME NEW n \in queue PROVE n \in Ran(s)
      BY <1>2, <1>5 DEF Ran
    <2>2. ASSUME NEW n \in Ran(s) PROVE n \in queue
      BY <1>1, <1>2 DEF Ran
    <2> QED
      BY <2>1, <2>2
  <1>7. queue_buf = s /\ queue \in SUBSET Names /\ IsFiniteSet(queue)
    BY <1>0, <1>3, <1>4, <1>6, SortedNumbered, NumberedOnce, FirstAll
  <1>8. kills \in 0..MaxKills
    BY <1>0, SessionAssumption, SMT
  <1>9. IsFiniteSet({})
    BY FS_EmptySet
  <1>10. Shape
    BY <1>0, <1>3, <1>6, <1>7, <1>8, <1>9 DEF Shape
  <1>11. Links
    BY <1>0, <1>6, <1>7 DEF Links, HasRead, Fuzzing
  <1>12. Kept
    BY <1>0, <1>3, <1>4, <1>6, <1>7 DEF Kept, HasRead, Recorded
  <1> QED
    BY <1>10, <1>11, <1>12 DEF IInv

\* The types of the state.
LEMMA Types ==
  ASSUME Shape
  PROVE  /\ queue \in SUBSET Names /\ resume \in SUBSET Names
         /\ empty \subseteq queue \cup resume
         /\ target_hash \in Binaries /\ found \in SUBSET Names
         /\ torn \subseteq {"nuke", "trim"} /\ kills \in 0..MaxKills
         /\ IsFiniteSet(queue) /\ IsFiniteSet(resume)
         /\ queue_buf \in Seq(Names) /\ rec \in Seq(Names)
         /\ Ran(queue_buf) \in SUBSET Names /\ Ran(rec) \in SUBSET Names
         /\ pc # "off" => binary \in Binaries
         /\ dump # None \/ pc = "dump" => dump \in Dumps
         /\ opened # None => opened \in Dumps
         /\ maps \in SUBSET Binaries
  BY FirstAll DEF Shape

\* What is enough for Shape.
LEMMA MakeShape ==
  ASSUME queue' \in SUBSET Names, resume' \in SUBSET Names, (empty \subseteq queue \cup resume)',
         target_hash' \in Binaries, found' \in SUBSET Names,
         torn' \subseteq {"nuke", "trim"}, kills' \in 0..MaxKills,
         IsFiniteSet(queue'), IsFiniteSet(resume'),
         queue_buf' \in Seq(Names), rec' \in Seq(Names),
         pc' \in {"off", "clean", "open", "read", "pivot", "nuke", "load", "fuzz", "write",
                  "dump"},
         pc' # "off" => binary' \in Binaries,
         dump' # None \/ pc' = "dump" => dump' \in Dumps,
         opened' # None => opened' \in Dumps,
         maps' \in SUBSET Binaries
  PROVE  Shape'
  <1>1. Names' = Names /\ Dumps' = Dumps
    BY DEF Names, Dumps
  <1> QED
    BY <1>1 DEF Shape

\* The process ends, by itself or killed: the next session can start from what is
\* on disk.
LEMMA GoOff ==
  ASSUME IInv, Off, UNCHANGED <<queue, resume, empty, target_hash, found>>,
         dump' # None => dump' \in Dumps,
         torn' \subseteq {"nuke", "trim"}, kills' \in 0..MaxKills,
         torn' = {} => /\ torn = {} /\ found \subseteq Store /\ found \cap empty = {}
                       /\ Recorded(dump)'
  PROVE  IInv'
  <1>1. pc' = "off" /\ queue_buf' = <<>> /\ rec' = <<>> /\ opened' = None /\ maps' = {}
    BY DEF Off
  <1>2. <<>> \in Seq(Names)
    BY SMT
  <1>3. Shape /\ Links /\ Kept
    BY DEF IInv
  <1>4. Shape'
    BY <1>1, <1>2, <1>3, Types, MakeShape DEF Fuzzing
  <1>5. Links'
    BY <1>1, <1>3 DEF Links, HasRead, Fuzzing
  <1>6. Kept'
    BY <1>1, <1>3 DEF Kept, HasRead, Fuzzing, Recorded, Store, Numbered, Ran
  <1> QED
    BY <1>4, <1>5, <1>6 DEF IInv

\* A dump that stays, or is taken off the disk.
LEMMA RecordsStay ==
  ASSUME found \subseteq found', dump' \in {dump, None}, opened' \in {opened, dump, None},
         Recorded(dump), Recorded(opened)
  PROVE  Recorded(dump)' /\ Recorded(opened)'
  BY DEF Recorded

\* Kept while the queue is not read.
LEMMA KeptUnread ==
  ASSUME Kept, UNCHANGED <<found, torn>>, ~HasRead',
         torn = {} => /\ (queue \cup resume \subseteq found \cup empty)'
                      /\ found \cap empty' = {} /\ (found \subseteq Store)'
                      /\ Recorded(dump)' /\ Recorded(opened)'
  PROVE  Kept'
  <1>1. pc' # "write" /\ pc' # "dump" /\ ~Fuzzing'
    BY DEF HasRead, Fuzzing
  <1>2. ASSUME torn = {} PROVE (\E s \in Seq(Names) : Numbered(s) /\ Ran(s) = found)'
    BY <1>2 DEF Kept, Numbered, Ran
  <1> QED
    BY <1>1, <1>2 DEF Kept

\* Start: _resume/ is what queue/ was, or stays.
LEMMA StartStep ==
  ASSUME IInv, NEW b \in Binaries, NEW nf \in BOOLEAN, Start(b, nf)
  PROVE  IInv'
  <1>1. /\ pc = "off" /\ pc' = "clean" /\ binary' = b
        /\ UNCHANGED <<empty, target_hash, dump, queue_buf, rec, maps, cur, prev_target_hash,
                       opened, found, torn, kills>>
        /\ \/ resume = {} /\ resume' = queue /\ queue' = {}
           \/ resume # {} /\ resume' = resume /\ queue' = queue
    BY DEF Start, memory, history
  <1>2. Shape /\ Links /\ Kept
    BY DEF IInv
  <1>3. Shape'
    <2>1. /\ queue' \in SUBSET Names /\ resume' \in SUBSET Names
          /\ (empty \subseteq queue \cup resume)' /\ IsFiniteSet(queue') /\ IsFiniteSet(resume')
      BY <1>1, <1>2, Types, FS_EmptySet
    <2> QED
      BY <1>1, <1>2, <2>1, Types, MakeShape DEF Fuzzing
  <1>4. Links'
    BY <1>1, <1>2 DEF Links, HasRead, Fuzzing
  <1>5. Kept'
    <2>1. ~HasRead /\ ~HasRead' /\ pc # "write"
      BY <1>1 DEF HasRead
    <2>2. queue' \cup resume' = queue \cup resume
      BY <1>1
    <2>3. torn = {} => (found \subseteq Store)' /\ found \cap empty' = {}
      BY <1>1, <1>2, <2>1 DEF Kept, Store
    <2>4. torn = {} => Recorded(dump)' /\ Recorded(opened)'
      BY <1>1, <1>2, RecordsStay DEF Kept
    <2> QED
      BY <1>1, <1>2, <2>1, <2>2, <2>3, <2>4, KeptUnread DEF Kept
  <1> QED
    BY <1>3, <1>4, <1>5 DEF IInv

\* CleanFile: only what _resume/ holds as well is deleted.
LEMMA CleanStep ==
  ASSUME IInv, NEW n \in Names, CleanFile(n)
  PROVE  IInv'
  <1>1. /\ pc = "clean" /\ pc' = pc /\ n \in queue /\ queue' = queue \ {n}
        /\ UNCHANGED <<resume, empty, target_hash, dump, queue_buf, rec, maps, cur, binary,
                       opened, found, torn, kills>>
    BY DEF CleanFile, memory, history, start
  <1>2. Shape /\ Links /\ Kept
    BY DEF IInv
  <1>3. resume # {} /\ queue \cap empty = {} /\ resume' # {}
    BY <1>1, <1>2 DEF Links
  <1>4. Shape'
    <2>1. queue' \in SUBSET Names /\ (empty \subseteq queue \cup resume)' /\ IsFiniteSet(queue')
      BY <1>1, <1>2, <1>3, Types, FS_RemoveElement
    <2> QED
      BY <1>1, <1>2, <2>1, Types, MakeShape DEF Fuzzing
  <1>5. Links'
    BY <1>1, <1>2, <1>3 DEF Links, HasRead, Fuzzing
  <1>6. Kept'
    <2>1. ~HasRead /\ ~HasRead' /\ pc # "write"
      BY <1>1 DEF HasRead
    <2>2. torn = {} => (found \subseteq Store)' /\ found \cap empty' = {}
      BY <1>1, <1>2, <1>3, <2>1 DEF Kept, Store
    <2>3. torn = {} => Recorded(dump)' /\ Recorded(opened)'
      BY <1>1, <1>2, RecordsStay DEF Kept
    <2> QED
      BY <1>1, <1>2, <2>1, <2>2, <2>3, KeptUnread DEF Kept
  <1> QED
    BY <1>4, <1>5, <1>6 DEF IInv

\* Setup and OpenDump: the directories stay; the dump is taken off the disk.
LEMMA OpenStep ==
  ASSUME IInv, Setup \/ OpenDump
  PROVE  IInv'
  <1>1. /\ \/ pc = "clean" /\ queue = {} /\ pc' = "open" /\ target_hash' = binary /\ opened' = opened
              /\ dump' = dump
           \/ pc = "open" /\ pc' = "read" /\ target_hash' = target_hash
              /\ opened' \in {opened, dump, None} /\ dump' \in {dump, None}
        /\ UNCHANGED <<queue, resume, empty, queue_buf, rec, maps, cur, binary, found, torn, kills>>
    <2>1. CASE Setup
      BY <2>1 DEF Setup, memory, history
    <2>2. CASE OpenDump
      BY <2>2 DEF OpenDump, Unlinked, memory, history
    <2> QED
      BY <2>1, <2>2
  <1>2. Shape /\ Links /\ Kept
    BY DEF IInv
  <1>3. Shape'
    <2>1. target_hash' \in Binaries /\ binary' \in Binaries
          /\ (dump' # None => dump' \in Dumps) /\ (opened' # None => opened' \in Dumps)
      BY <1>1, <1>2, Types
    <2> QED
      BY <1>1, <1>2, <2>1, Types, MakeShape DEF Fuzzing
  <1>4. Links'
    BY <1>1, <1>2 DEF Links, HasRead, Fuzzing
  <1>5. Kept'
    <2>1. ~HasRead /\ ~HasRead' /\ pc # "write"
      BY <1>1 DEF HasRead
    <2>2. torn = {} => (found \subseteq Store)' /\ found \cap empty' = {}
      BY <1>1, <1>2, <2>1 DEF Kept, Store
    <2>3. torn = {} => Recorded(dump)' /\ Recorded(opened)'
      BY <1>1, <1>2, RecordsStay DEF Kept
    <2> QED
      BY <1>1, <1>2, <2>1, <2>2, <2>3, KeptUnread DEF Kept
  <1> QED
    BY <1>3, <1>4, <1>5 DEF IInv

\* Kept once the queue is read, unless a file is being written.
LEMMA KeptRead ==
  ASSUME Kept, UNCHANGED <<found, torn>>, HasRead', pc' # "write",
         torn = {} => /\ (queue \cup resume \subseteq found \cup empty)'
                      /\ found \cap empty' = {}
                      /\ Numbered(queue_buf') /\ Ran(queue_buf') = found
                      /\ Recorded(dump)' /\ Recorded(opened)'
                      /\ Fuzzing' => rec' = queue_buf'
                      /\ pc' = "dump" => dump'.recs = queue_buf'
  PROVE  Kept'
  <1>1. ASSUME torn = {} PROVE (\E s \in Seq(Names) : Numbered(s) /\ Ran(s) = found)'
    BY <1>1 DEF Kept, Numbered, Ran
  <1> QED
    BY <1>1 DEF Kept, Numbered, Ran

\* ReadTestcases: the files with content are the entries found.
LEMMA ReadStep ==
  ASSUME IInv, ReadTestcases
  PROVE  IInv'
  <1> DEFINE files == resume \ empty
  <1>1. /\ pc = "read" /\ UNCHANGED <<queue, resume, empty, target_hash, dump, found, torn, kills>>
        /\ \/ files = {} /\ Off
           \/ /\ files # {} /\ queue_buf' = Sorted(files) /\ pc' = "pivot"
              /\ UNCHANGED <<rec, maps, cur, binary, opened>>
    BY DEF ReadTestcases, disk, history, start
  <1>2. Shape /\ Links /\ Kept
    BY DEF IInv
  <1>3. ~HasRead /\ pc # "write" /\ pc # "off" /\ queue = {}
    BY <1>1, <1>2 DEF HasRead, Links
  <1>4. torn = {} => /\ found \subseteq Store /\ found \cap empty = {}
                     /\ Recorded(dump) /\ Recorded(opened)
                     /\ queue \cup resume \subseteq found \cup empty
    BY <1>2, <1>3 DEF Kept
  <1>5. torn = {} /\ UNCHANGED <<dump, opened>> => Recorded(dump)' /\ Recorded(opened)'
    BY <1>1, <1>4, RecordsStay
  <1>6. CASE files = {} /\ Off
    <2>1. torn = {} => Recorded(dump)'
      BY <1>1, <1>4 DEF Recorded
    <2> QED
      BY <1>1, <1>2, <1>4, <1>6, <2>1, Types, GoOff
  <1>7. CASE /\ files # {} /\ queue_buf' = Sorted(files) /\ pc' = "pivot"
             /\ UNCHANGED <<rec, maps, cur, binary, opened>>
    <2>1. files \in SUBSET Names /\ IsFiniteSet(files) /\ resume # {} /\ resume' # {}
      BY <1>1, <1>2, <1>7, Types, FS_Difference
    <2>2. queue_buf' \in Seq(Names) /\ NoTwice(queue_buf') /\ Ran(queue_buf') = files
      BY <1>7, <2>1, SortedLists
    <2>3. Shape'
      BY <1>1, <1>2, <1>3, <1>7, <2>2, Types, MakeShape DEF Fuzzing
    <2>4. Links'
      <3>1. queue' = First(queue_buf', 0) /\ 0 \in 0..Len(queue_buf')
        BY <1>1, <1>3, <2>2, FirstAll, SMT DEF First
      <3>2. \E k \in 0..Len(queue_buf') : queue' = First(queue_buf', k)
        BY <3>1
      <3> QED
        BY <1>1, <1>3, <1>7, <2>2, <3>2 DEF Links, HasRead, Fuzzing, NoTwice, Ran, First
    <2>5. Kept'
      <3>1. ASSUME torn = {} PROVE Numbered(queue_buf') /\ Ran(queue_buf') = found
        <4>1. found \subseteq resume
          BY <1>4, <2>1, <3>1 DEF Store
        <4>2. files = found
          BY <1>4, <3>1, <4>1
        <4>3. PICK s \in Seq(Names) : Numbered(s) /\ Ran(s) = found
          BY <1>2, <3>1 DEF Kept
        <4>4. Sorted(files) = s
          BY <4>2, <4>3, SortedNumbered
        <4> QED
          BY <1>7, <4>3, <4>4
      <3>2. HasRead' /\ ~Fuzzing'
        BY <1>7 DEF HasRead, Fuzzing
      <3> QED
        BY <1>1, <1>2, <1>4, <1>5, <1>7, <3>1, <3>2, KeptRead
    <2> QED
      BY <2>3, <2>4, <2>5 DEF IInv
  <1> QED
    BY <1>1, <1>6, <1>7

\* Pivot: one more link.
LEMMA PivotStep ==
  ASSUME IInv, Pivot
  PROVE  IInv'
  <1>1. /\ pc = "pivot" /\ pc' = "pivot" /\ Cardinality(queue) < Len(queue_buf)
        /\ queue' = queue \cup {queue_buf[Cardinality(queue) + 1]}
        /\ UNCHANGED <<resume, empty, target_hash, dump, queue_buf, rec, maps, cur, binary, opened,
                       found, torn, kills>>
    BY DEF Pivot, memory, start, history
  <1>2. Shape /\ Links /\ Kept
    BY DEF IInv
  <1>3. /\ NoTwice(queue_buf) /\ Ran(queue_buf) \subseteq resume \ empty
        /\ queue_buf \in Seq(Names) /\ Ran(queue_buf) \in SUBSET Names
    BY <1>1, <1>2, Types DEF Links
  <1>4. PICK k \in 0..Len(queue_buf) : queue = First(queue_buf, k)
    BY <1>1, <1>2 DEF Links
  <1>5. Cardinality(queue) = k
    BY <1>3, <1>4, FirstCount
  <1>6. Len(queue_buf) \in Nat /\ DOMAIN queue_buf = 1..Len(queue_buf)
    BY <1>3, FirstAll
  <1>7. k + 1 \in 0..Len(queue_buf) /\ k + 1 \in DOMAIN queue_buf /\ k \in Nat
    BY <1>1, <1>5, <1>6, SMT
  <1> DEFINE n == queue_buf[k + 1]
  <1>8. n \in Ran(queue_buf) /\ queue' = queue \cup {n}
    BY <1>1, <1>5, <1>7 DEF Ran
  <1>9. queue' = First(queue_buf, k + 1)
    <2>1. \A i \in 1..(k + 1) : i \in 1..k \/ i = k + 1
      BY <1>7, SMT
    <2>2. \A i \in 1..k : i \in 1..(k + 1)
      BY <1>7, SMT
    <2>3. k + 1 \in 1..(k + 1)
      BY <1>7, SMT
    <2>4. ASSUME NEW m \in queue' PROVE m \in First(queue_buf, k + 1)
      BY <1>4, <1>8, <2>2, <2>3 DEF First
    <2>5. ASSUME NEW m \in First(queue_buf, k + 1) PROVE m \in queue'
      BY <1>4, <1>8, <2>1 DEF First
    <2> QED
      BY <2>4, <2>5
  <1> HIDE DEF n
  <1>10. Shape'
    <2>1. IsFiniteSet(queue')
      BY <1>2, <1>8, Types, FS_AddElement
    <2>2. queue' \in SUBSET Names /\ (empty \subseteq queue \cup resume)'
      BY <1>1, <1>2, <1>3, <1>8, Types
    <2> QED
      BY <1>1, <1>2, <2>1, <2>2, Types, MakeShape DEF Fuzzing
  <1>11. Links'
    <2>1. resume # {} => queue' \cap empty' = {}
      BY <1>1, <1>2, <1>3, <1>8 DEF Links
    <2>2. \E j \in 0..Len(queue_buf') : queue' = First(queue_buf', j)
      BY <1>1, <1>7, <1>9
    <2>3. NoTwice(queue_buf') /\ Ran(queue_buf') \subseteq resume' \ empty'
      BY <1>1, <1>3
    <2> QED
      BY <1>1, <2>1, <2>2, <2>3 DEF Links, HasRead, Fuzzing, NoTwice, Ran, First
  <1>12. Kept'
    <2>1. HasRead /\ HasRead' /\ ~Fuzzing'
      BY <1>1 DEF HasRead, Fuzzing
    <2>2. torn = {} => /\ Numbered(queue_buf) /\ Ran(queue_buf) = found
                       /\ Recorded(dump) /\ Recorded(opened) /\ found \cap empty = {}
                       /\ queue \cup resume \subseteq found \cup empty
      BY <1>1, <1>2, <2>1 DEF Kept
    <2>3. torn = {} => Recorded(dump)' /\ Recorded(opened)'
      BY <1>1, <2>2, RecordsStay
    <2>4. torn = {} => queue' \cup resume' \subseteq found' \cup empty'
      BY <1>1, <1>8, <2>2
    <2> QED
      BY <1>1, <1>2, <2>1, <2>2, <2>3, <2>4, KeptRead
  <1> QED
    BY <1>10, <1>11, <1>12 DEF IInv

\* NukeBegin, NukeFile, NukeDone: the files of _resume/ go once all are linked.
LEMMA NukeStep ==
  ASSUME IInv, NukeBegin \/ NukeDone \/ \E n \in Names : NukeFile(n)
  PROVE  IInv'
  <1>1. UNCHANGED <<queue, target_hash, dump, queue_buf, rec, maps, cur, binary, opened, found, torn,
                    kills>>
    BY DEF NukeBegin, NukeDone, NukeFile, disk, memory, start, history
  <1>2. Shape /\ Links /\ Kept
    BY DEF IInv
  <1>3. /\ pc \in {"pivot", "nuke"} /\ pc' \in {"nuke", "load"} /\ resume' \subseteq resume
        /\ empty' \subseteq empty /\ (pc' = "load" => resume' = {})
        /\ \A m \in empty : m \in queue \cup resume' => m \in empty'
        /\ \A m \in empty' : m \in queue \cup resume'
    <2>0. empty \subseteq queue \cup resume
      BY <1>2, Types
    <2>1. CASE NukeBegin
      BY <2>0, <2>1 DEF NukeBegin, Pivoted, disk
    <2>2. CASE NukeDone
      BY <2>0, <2>2 DEF NukeDone, disk
    <2>3. CASE \E n \in Names : NukeFile(n)
      <3>1. PICK n \in Names : NukeFile(n)
        BY <2>3
      <3>2. pc = "nuke" /\ pc' = "nuke" /\ resume' = resume \ {n} /\ empty' = empty \ ({n} \ queue)
        BY <3>1 DEF NukeFile
      <3> QED
        BY <2>0, <3>2
    <2> QED
      BY <2>1, <2>2, <2>3
  <1>4. Ran(queue_buf) \subseteq queue
    <2>1. CASE pc = "nuke"
      BY <1>2, <2>1 DEF Links, HasRead
    <2>2. CASE pc = "pivot"
      <3>1. Cardinality(queue) = Len(queue_buf)
        BY <2>2 DEF NukeBegin, NukeDone, NukeFile, Pivoted
      <3>2. NoTwice(queue_buf) /\ queue_buf \in Seq(Names)
        BY <1>2, <2>2, Types DEF Links
      <3>3. PICK k \in 0..Len(queue_buf) : queue = First(queue_buf, k)
        BY <1>2, <2>2 DEF Links
      <3>4. k = Len(queue_buf)
        BY <3>1, <3>2, <3>3, FirstCount
      <3> QED
        BY <3>2, <3>3, <3>4, FirstAll
    <2> QED
      BY <1>3, <2>1, <2>2
  <1>5. Shape'
    <2>1. resume' \in SUBSET Names /\ IsFiniteSet(resume')
      BY <1>2, <1>3, Types, FS_Subset
    <2>2. (empty \subseteq queue \cup resume)'
      BY <1>1, <1>3
    <2>3. pc # "off" /\ pc' # "dump" /\ ~Fuzzing'
      BY <1>3 DEF Fuzzing
    <2> QED
      BY <1>1, <1>2, <1>3, <2>1, <2>2, <2>3, Types, MakeShape
  <1>6. Links'
    <2>1. resume' # {} => queue' \cap empty' = {}
      BY <1>1, <1>2, <1>3 DEF Links
    <2> QED
      BY <1>1, <1>3, <1>4, <2>1 DEF Links, HasRead, Fuzzing, Ran
  <1>7. Kept'
    <2>1. HasRead /\ HasRead' /\ ~Fuzzing' /\ pc # "write" /\ pc' \notin {"write", "dump"}
      BY <1>3 DEF HasRead, Fuzzing
    <2>2. torn = {} => /\ Numbered(queue_buf) /\ Ran(queue_buf) = found
                       /\ Recorded(dump) /\ Recorded(opened) /\ found \cap empty = {}
                       /\ queue \cup resume \subseteq found \cup empty
      BY <1>2, <2>1 DEF Kept
    <2>3. torn = {} => Recorded(dump)' /\ Recorded(opened)'
      BY <1>1, <2>2, RecordsStay
    <2>4. torn = {} => queue' \cup resume' \subseteq found' \cup empty' /\ found \cap empty' = {}
      BY <1>1, <1>3, <2>2
    <2> QED
      BY <1>1, <1>2, <2>1, <2>2, <2>3, <2>4, KeptRead
  <1> QED
    BY <1>5, <1>6, <1>7 DEF IInv

\* Load: the records of the dump, if there are as many, are those of the entries.
LEMMA LoadStep ==
  ASSUME IInv, Load \/ LoadOtherMap
  PROVE  IInv'
  <1>1. /\ pc = "load" /\ UNCHANGED <<queue, resume, empty, target_hash, dump, found, torn, kills>>
        /\ \/ Off
           \/ /\ pc' = "fuzz" /\ opened' = None /\ UNCHANGED <<queue_buf, cur, binary>>
              /\ \/ opened = None /\ rec' = queue_buf /\ maps' = {binary}
                 \/ /\ opened # None /\ rec' = opened.recs /\ maps' = opened.maps
                    /\ Len(opened.recs) = Len(queue_buf)
    BY DEF Load, LoadOtherMap, Fits, disk, history
  <1>2. Shape /\ Links /\ Kept
    BY DEF IInv
  <1>3. HasRead /\ pc # "write" /\ pc # "off" /\ resume = {} /\ Ran(queue_buf) \subseteq queue
    BY <1>1, <1>2 DEF HasRead, Links
  <1>4. torn = {} => /\ Numbered(queue_buf) /\ Ran(queue_buf) = found
                     /\ Recorded(dump) /\ Recorded(opened) /\ found \cap empty = {}
                     /\ queue \cup resume \subseteq found \cup empty
    BY <1>2, <1>3 DEF Kept
  <1>5. CASE Off
    <2>1. torn = {} => Recorded(dump)' /\ found \subseteq Store
      BY <1>1, <1>3, <1>4 DEF Recorded, Store
    <2> QED
      BY <1>1, <1>2, <1>4, <1>5, <2>1, <1>3, Types, GoOff
  <1>6. CASE /\ pc' = "fuzz" /\ opened' = None /\ UNCHANGED <<queue_buf, cur, binary>>
             /\ \/ opened = None /\ rec' = queue_buf /\ maps' = {binary}
                \/ /\ opened # None /\ rec' = opened.recs /\ maps' = opened.maps
                   /\ Len(opened.recs) = Len(queue_buf)
    <2>1. opened # None => opened.recs \in Seq(Names) /\ opened.maps \in SUBSET Binaries
      BY <1>2, Types DEF Dumps
    <2>2. rec' \in Seq(Names) /\ maps' \in SUBSET Binaries
      BY <1>2, <1>3, <1>6, <2>1, Types
    <2>3. torn = {} => rec' = queue_buf
      BY <1>2, <1>4, <1>6, <2>1, Types, SameRecords DEF Recorded
    <2>4. Shape'
      BY <1>1, <1>2, <1>3, <1>6, <2>2, Types, MakeShape, SMT
    <2>5. Links'
      BY <1>1, <1>2, <1>3, <1>6 DEF Links, HasRead, Fuzzing, Ran
    <2>6. torn = {} => Recorded(dump)' /\ Recorded(opened)'
      BY <1>1, <1>4, <1>6, RecordsStay
    <2>7. HasRead' /\ pc' # "write"
      BY <1>6 DEF HasRead
    <2>8. Kept'
      BY <1>1, <1>2, <1>4, <1>6, <2>3, <2>6, <2>7, KeptRead
    <2> QED
      BY <2>4, <2>5, <2>8 DEF IInv
  <1> QED
    BY <1>1, <1>5, <1>6

\* Find, Trim: a file is created, or emptied to be written anew.
LEMMA CreateStep ==
  ASSUME IInv, (\E tag \in Tags : Find(tag)) \/ (\E n \in Names : Trim(n))
  PROVE  IInv'
  <1>1. /\ pc = "fuzz" /\ pc' = "write" /\ queue' = queue \cup {cur'} /\ empty' = empty \cup {cur'}
        /\ UNCHANGED <<resume, target_hash, dump, queue_buf, rec, maps, binary, opened, found, torn,
                       kills>>
        /\ \/ cur' \in Ran(queue_buf)
           \/ cur' \in Names /\ cur' \notin queue /\ cur'[1] = Len(queue_buf)
    <2>1. CASE \E tag \in Tags : Find(tag)
      <3>1. PICK tag \in Tags : Find(tag)
        BY <2>1
      <3>2. Len(queue_buf) \in Nat /\ Len(queue_buf) < MaxEntries
        BY <3>1, Types, FirstAll DEF Find, IInv
      <3>3. <<Len(queue_buf), tag>> \in Names
        BY <3>2, SessionAssumption, SMT DEF Names
      <3>4. cur' = <<Len(queue_buf), tag>>
        BY <3>1 DEF Find, NextId
      <3>5. cur' \in Names /\ cur'[1] = Len(queue_buf)
        BY <3>3, <3>4
      <3> QED
        BY <3>1, <3>5 DEF Find, start, history
    <2>2. CASE \E n \in Names : Trim(n)
      <3>1. Ran(queue_buf) \subseteq queue
        BY <2>2 DEF IInv, Links, HasRead, Trim
      <3>2. cur' \in Ran(queue_buf) /\ queue' = queue
        BY <2>2 DEF Trim
      <3>3. queue' = queue \cup {cur'}
        BY <3>1, <3>2
      <3> QED
        BY <2>2, <3>2, <3>3 DEF Trim, start, history
    <2> QED
      BY <2>1, <2>2
  <1>2. Shape /\ Links /\ Kept
    BY DEF IInv
  <1>3. Ran(queue_buf) \subseteq queue /\ resume = {} /\ cur' \in Names /\ HasRead /\ Fuzzing
    BY <1>1, <1>2, Types DEF Links, HasRead, Fuzzing
  <1>4. Shape'
    <2>1. IsFiniteSet(queue')
      BY <1>1, <1>2, Types, FS_AddElement
    <2>2. queue' \in SUBSET Names /\ (empty \subseteq queue \cup resume)'
      BY <1>1, <1>2, <1>3, Types
    <2> QED
      BY <1>1, <1>2, <1>3, <2>1, <2>2, Types, MakeShape
  <1>5. Links'
    BY <1>1, <1>3 DEF Links, HasRead, Fuzzing, Ran
  <1>6. Kept'
    <2>1. SUFFICES ASSUME torn = {} PROVE Kept'
      BY <1>1 DEF Kept
    <2>2. /\ Numbered(queue_buf) /\ Ran(queue_buf) = found /\ rec = queue_buf
          /\ Recorded(dump) /\ Recorded(opened) /\ found \cap empty = {}
          /\ queue \cup resume \subseteq found \cup empty
      BY <1>1, <1>2, <1>3, <2>1 DEF Kept
    <2>3. Recorded(dump)' /\ Recorded(opened)'
      BY <1>1, <2>2, RecordsStay
    <2>4. (queue \cup resume \subseteq found \cup empty)' /\ (\A n \in found \cap empty : n = cur)'
      BY <1>1, <2>2
    <2>5. cur' \notin found' => cur'[1] = Len(queue_buf')
      BY <1>1, <2>2
    <2>6. (\E s \in Seq(Names) : Numbered(s) /\ Ran(s) = found)'
      BY <1>1, <1>2, <2>1 DEF Kept, Numbered, Ran
    <2>7. Numbered(queue_buf') /\ Ran(queue_buf') = found' /\ rec' = queue_buf'
      BY <1>1, <2>2
    <2>8. HasRead' /\ pc' = "write" /\ pc' # "dump"
      BY <1>1 DEF HasRead
    <2> QED
      BY <2>3, <2>4, <2>5, <2>6, <2>7, <2>8 DEF Kept, Numbered, Ran
  <1> QED
    BY <1>4, <1>5, <1>6 DEF IInv

\* Write: the entry is found.
LEMMA WriteStep ==
  ASSUME IInv, Write
  PROVE  IInv'
  <1>1. /\ pc = "write" /\ pc' = "fuzz" /\ empty' = empty \ {cur} /\ found' = found \cup {cur}
        /\ \/ cur \in Ran(queue_buf) /\ UNCHANGED <<queue_buf, rec>>
           \/ /\ cur \notin Ran(queue_buf)
              /\ queue_buf' = Append(queue_buf, cur) /\ rec' = Append(rec, cur)
        /\ maps' \subseteq maps \cup {binary}
        /\ UNCHANGED <<queue, resume, target_hash, dump, binary, opened, torn, kills>>
    BY DEF Write, start
  <1>2. Shape /\ Links /\ Kept
    BY DEF IInv
  <1>3. Ran(queue_buf) \subseteq queue /\ resume = {} /\ cur \in queue /\ HasRead /\ Fuzzing
    BY <1>1, <1>2 DEF Links, HasRead, Fuzzing
  <1>4. cur \in Names /\ queue_buf \in Seq(Names) /\ rec \in Seq(Names)
    BY <1>2, <1>3, Types
  <1>5. /\ queue_buf' \in Seq(Names) /\ rec' \in Seq(Names) /\ Ran(queue_buf') = Ran(queue_buf) \cup {cur}
        /\ Numbered(queue_buf) /\ (cur \notin Ran(queue_buf) => cur[1] = Len(queue_buf))
             => Numbered(queue_buf')
    <2>1. CASE cur \in Ran(queue_buf) /\ UNCHANGED <<queue_buf, rec>>
      BY <1>4, <2>1
    <2>2. CASE /\ cur \notin Ran(queue_buf)
               /\ queue_buf' = Append(queue_buf, cur) /\ rec' = Append(rec, cur)
      BY <1>4, <2>2, AppendEntry
    <2> QED
      BY <1>1, <2>1, <2>2
  <1>6. Shape'
    <2>1. /\ found' \in SUBSET Names /\ (empty \subseteq queue \cup resume)'
          /\ maps' \in SUBSET Binaries
      BY <1>1, <1>2, <1>4, Types
    <2> QED
      BY <1>1, <1>2, <1>3, <1>5, <2>1, Types, MakeShape
  <1>7. Links'
    <2>1. Ran(queue_buf') \subseteq queue
      BY <1>3, <1>5
    <2> QED
      BY <1>1, <1>3, <2>1 DEF Links, HasRead, Fuzzing, Ran
  <1>8. Kept'
    <2>1. SUFFICES ASSUME torn = {} PROVE Kept'
      BY <1>1 DEF Kept
    <2>2. /\ Numbered(queue_buf) /\ Ran(queue_buf) = found /\ rec = queue_buf
          /\ Recorded(dump) /\ Recorded(opened) /\ (\A n \in found \cap empty : n = cur)
          /\ queue \cup resume \subseteq found \cup empty
          /\ (cur \notin found => cur[1] = Len(queue_buf))
      BY <1>1, <1>2, <1>3, <2>1 DEF Kept
    <2>3. Recorded(dump)' /\ Recorded(opened)'
      BY <1>1, <2>2, RecordsStay
    <2>4. (queue \cup resume \subseteq found \cup empty)' /\ (found \cap empty = {})'
      BY <1>1, <2>2
    <2>5. Numbered(queue_buf') /\ Ran(queue_buf') = found'
      BY <1>1, <1>5, <2>2
    <2>6. rec' = queue_buf'
      BY <1>1, <2>2
    <2>7. HasRead' /\ pc' # "write" /\ pc' # "dump"
      BY <1>1 DEF HasRead
    <2>8. \E s \in Seq(Names) : Numbered(s) /\ Ran(s) = found'
      BY <1>5, <2>5
    <2> QED
      BY <2>3, <2>4, <2>5, <2>6, <2>7, <2>8 DEF Kept, Numbered, Ran
  <1> QED
    BY <1>6, <1>7, <1>8 DEF IInv

\* What a session that is fuzzing would leave.
LEMMA FuzzingLeaves ==
  ASSUME IInv, Fuzzing, torn = {}
  PROVE  /\ found \subseteq Store /\ (pc # "write" => found \cap empty = {})
         /\ Numbered(queue_buf) /\ Ran(queue_buf) = found /\ rec = queue_buf
         /\ Recorded(dump) /\ Recorded(opened)
         /\ queue \cup resume \subseteq found \cup empty
         /\ pc = "dump" => dump.recs = queue_buf
  <1>1. HasRead /\ pc # "pivot"
    BY DEF HasRead, Fuzzing
  <1>2. Ran(queue_buf) \subseteq queue /\ resume = {} /\ Ran(queue_buf) = found
    BY <1>1 DEF IInv, Links, Kept
  <1>3. found \subseteq Store
    BY <1>2 DEF Store
  <1> QED
    BY <1>1, <1>3 DEF IInv, Kept

\* Stop, StopDone: the dump has the records of all entries.
LEMMA StopStep ==
  ASSUME IInv, Stop \/ StopDone
  PROVE  IInv'
  <1>1. UNCHANGED <<queue, resume, empty, target_hash, found, torn, kills>>
    BY DEF Stop, StopDone, history
  <1>2. Shape /\ Links /\ Kept
    BY DEF IInv
  <1>3. Fuzzing /\ HasRead /\ pc # "write" /\ pc # "off"
    BY DEF Stop, StopDone, Fuzzing, HasRead
  <1>4. CASE Stop /\ Off /\ UNCHANGED dump
    <2>1. torn = {} => Recorded(dump)' /\ found \subseteq Store /\ found \cap empty = {}
      BY <1>1, <1>3, <1>4, FuzzingLeaves DEF Recorded
    <2> QED
      BY <1>1, <1>2, <1>4, <2>1, Types, GoOff
  <1>5. CASE StopDone
    <2>1. Off /\ pc = "dump" /\ dump' = [dump EXCEPT !.whole = TRUE]
      BY <1>5 DEF StopDone
    <2>2. dump \in Dumps
      BY <1>2, <2>1, Types
    <2>3. dump' \in Dumps /\ dump'.recs = dump.recs
      BY <2>1, <2>2 DEF Dumps
    <2>4. torn = {} => Recorded(dump)' /\ found \subseteq Store /\ found \cap empty = {}
      BY <1>1, <1>3, <2>1, <2>3, FuzzingLeaves DEF Recorded
    <2> QED
      BY <1>1, <1>2, <2>1, <2>3, <2>4, Types, GoOff
  <1>6. CASE Stop /\ ~(Off /\ UNCHANGED dump)
    <2>1. /\ pc' = "dump" /\ UNCHANGED <<queue_buf, rec, maps, cur, binary, opened>>
          /\ dump' = [recs |-> rec, maps |-> maps, whole |-> FALSE]
      BY <1>6 DEF Stop, memory, start
    <2>2. dump' \in Dumps /\ dump'.recs = rec
      BY <1>2, <1>3, <2>1, Types DEF Dumps
    <2>3. Shape'
      BY <1>1, <1>2, <1>3, <2>1, <2>2, Types, MakeShape
    <2>4. Links'
      BY <1>1, <1>2, <1>3, <2>1 DEF Links, HasRead, Fuzzing, Ran
    <2>5. ASSUME torn = {}
          PROVE  /\ Recorded(dump)' /\ Recorded(opened)' /\ found \cap empty' = {}
                 /\ (queue \cup resume \subseteq found \cup empty)'
                 /\ Numbered(queue_buf') /\ Ran(queue_buf') = found
                 /\ rec' = queue_buf' /\ dump'.recs = queue_buf'
      <3>1. /\ Numbered(queue_buf) /\ Ran(queue_buf) = found /\ rec = queue_buf
            /\ Recorded(opened) /\ found \cap empty = {}
            /\ queue \cup resume \subseteq found \cup empty
        BY <1>3, <2>5, FuzzingLeaves
      <3>2. Recorded(opened)'
        BY <1>1, <2>1, <3>1 DEF Recorded
      <3>3. Recorded(dump)'
        BY <1>1, <2>2, <3>1 DEF Recorded
      <3>4. queue_buf' = queue_buf /\ rec' = rec /\ queue' = queue /\ resume' = resume /\ empty' = empty
        BY <1>1, <2>1
      <3> QED
        BY <1>1, <2>2, <3>1, <3>2, <3>3, <3>4
    <2>6. HasRead' /\ pc' # "write"
      BY <2>1 DEF HasRead
    <2>7. Kept'
      BY <1>1, <1>2, <2>5, <2>6, KeptRead
    <2> QED
      BY <2>3, <2>4, <2>7 DEF IInv
  <1> QED
    BY <1>4, <1>5, <1>6

\* Kill: what the next session reads is complete, or something was cut short.
LEMMA KillStep ==
  ASSUME IInv, Kill
  PROVE  IInv'
  <1> DEFINE nuke == pc = "nuke" /\ resume # {} /\ ~(Ran(queue_buf) \subseteq resume)
             trim == pc = "write" /\ cur \in Ran(queue_buf)
  <1>1. /\ Off /\ kills < MaxKills /\ kills' = kills + 1
        /\ torn' = torn \cup (IF nuke THEN {"nuke"} ELSE {}) \cup (IF trim THEN {"trim"} ELSE {})
        /\ UNCHANGED <<queue, resume, empty, target_hash, dump, found>>
    BY DEF Kill, disk
  <1>2. Shape /\ Links /\ Kept
    BY DEF IInv
  <1>3. kills' \in 0..MaxKills
    BY <1>1, <1>2, Types, SessionAssumption, SMT
  <1>4. torn' \subseteq {"nuke", "trim"}
    BY <1>1, <1>2, Types
  <1>5. torn' = {} => torn = {} /\ ~nuke /\ ~trim
    BY <1>1
  <1> HIDE DEF nuke, trim
  <1>6. ASSUME torn = {}, ~nuke, ~trim PROVE found \subseteq Store /\ found \cap empty = {}
    <2>1. CASE ~HasRead
      <3>1. pc # "write"
        BY <2>1 DEF HasRead
      <3> QED
        BY <1>2, <1>6, <2>1, <3>1 DEF Kept
    <2>2. CASE pc = "pivot"
      <3>1. HasRead /\ pc # "write" /\ Ran(queue_buf) \subseteq resume
        BY <1>2, <2>2 DEF HasRead, Links
      <3>2. Ran(queue_buf) = found /\ found \cap empty = {}
        BY <1>2, <1>6, <3>1 DEF Kept
      <3> QED
        BY <3>1, <3>2 DEF Store
    <2>3. CASE pc = "nuke"
      <3>1. HasRead /\ pc # "write" /\ Ran(queue_buf) \subseteq queue
        BY <1>2, <2>3 DEF HasRead, Links
      <3>2. Ran(queue_buf) = found /\ found \cap empty = {}
        BY <1>2, <1>6, <3>1 DEF Kept
      <3> QED
        BY <1>6, <2>3, <3>1, <3>2 DEF Store, nuke
    <2>4. CASE pc = "load"
      <3>1. HasRead /\ pc # "write" /\ Ran(queue_buf) \subseteq queue /\ resume = {}
        BY <1>2, <2>4 DEF HasRead, Links
      <3>2. Ran(queue_buf) = found /\ found \cap empty = {}
        BY <1>2, <1>6, <3>1 DEF Kept
      <3> QED
        BY <3>1, <3>2 DEF Store
    <2>5. CASE Fuzzing
      <3>1. found \subseteq Store /\ Ran(queue_buf) = found /\ (pc # "write" => found \cap empty = {})
        BY <1>6, <2>5, FuzzingLeaves
      <3>2. CASE pc = "write"
        <4>1. cur \notin found
          BY <1>6, <3>1, <3>2 DEF trim
        <4>2. \A n \in found \cap empty : n = cur
          BY <1>2, <1>6 DEF Kept
        <4> QED
          BY <3>1, <4>1, <4>2
      <3> QED
        BY <3>1, <3>2
    <2> QED
      BY <2>1, <2>2, <2>3, <2>4, <2>5 DEF HasRead, Fuzzing
  <1>7. torn' = {} => Recorded(dump)'
    BY <1>1, <1>2, <1>5 DEF Kept, Recorded
  <1> QED
    BY <1>1, <1>2, <1>3, <1>4, <1>5, <1>6, <1>7, Types, GoOff

\* Every step keeps it.
LEMMA Inductive == IInv /\ [Next]_vars => IInv'
  <1> SUFFICES ASSUME IInv, [Next]_vars PROVE IInv'
    OBVIOUS
  <1>1. CASE Next
    <2>1. CASE Setup \/ OpenDump
      BY <2>1, OpenStep
    <2>2. CASE ReadTestcases \/ Pivot \/ Load \/ LoadOtherMap \/ Write
      BY <2>2, ReadStep, PivotStep, LoadStep, WriteStep
    <2>3. CASE NukeBegin \/ NukeDone \/ \E n \in Names : NukeFile(n)
      BY <2>3, NukeStep
    <2>4. CASE Stop \/ StopDone \/ Kill
      BY <2>4, StopStep, KillStep
    <2>5. CASE \E n \in Names : CleanFile(n)
      BY <2>5, CleanStep
    <2>6. CASE \E b \in Binaries, nf \in BOOLEAN : Start(b, nf)
      BY <2>6, StartStep
    <2>7. CASE (\E tag \in Tags : Find(tag)) \/ (\E n \in Names : Trim(n))
      BY <2>7, CreateStep
    <2> QED
      BY <1>1, <2>1, <2>2, <2>3, <2>4, <2>5, <2>6, <2>7 DEF Next, Resume
  <1>2. CASE UNCHANGED vars
    <2>1. /\ UNCHANGED <<queue, resume, empty, target_hash, dump, pc, queue_buf, rec, maps, cur,
                         binary, opened, found, torn, kills>>
      BY <1>2 DEF vars, disk, memory, start, history
    <2>2. Shape'
      BY <2>1, Types, MakeShape DEF IInv, Shape
    <2>3. Links'
      BY <2>1 DEF IInv, Links, HasRead, Fuzzing
    <2>4. Kept'
      BY <2>1 DEF IInv, Kept, Recorded, HasRead, Fuzzing, Store
    <2> QED
      BY <2>2, <2>3, <2>4 DEF IInv
  <1> QED
    BY <1>1, <1>2

\* The end of a process: a dump of another build that stays makes outdated true.
LEMMA BuildsOff ==
  ASSUME Off, outdated \in BOOLEAN, target_hash' = target_hash,
         dump' # None => \/ dump # None /\ dump'.maps = dump.maps
                         \/ outdated \/ dump'.maps = {target_hash}
  PROVE  Builds'
  BY DEF Off, Builds, Fuzzing

\* Every step keeps the builds apart.
LEMMA BuildsStep ==
  ASSUME IInv, Builds, [Next]_vars
  PROVE  Builds'
  <1>0. outdated \in BOOLEAN /\ Shape
    BY DEF Builds, IInv
  <1>1. CASE \E b \in Binaries, nf \in BOOLEAN : Start(b, nf)
    <2>1. pc = "off" /\ pc' = "clean" /\ UNCHANGED <<target_hash, dump, opened, outdated>>
      BY <1>1 DEF Start
    <2> QED
      BY <2>1 DEF Builds, Fuzzing
  <1>2. CASE Setup
    BY <1>2 DEF Setup, Builds, Fuzzing, memory, history
  <1>3. CASE OpenDump
    BY <1>3 DEF OpenDump, Unlinked, Builds, Fuzzing, memory, history
  <1>4. CASE ReadTestcases
    <2>1. CASE Off /\ UNCHANGED disk
      BY <1>0, <2>1, BuildsOff DEF disk
    <2>2. CASE ~(Off /\ UNCHANGED disk)
      BY <1>4, <2>2 DEF ReadTestcases, Builds, Fuzzing, disk, start
    <2> QED
      BY <2>1, <2>2
  <1>5. CASE Pivot \/ NukeBegin \/ NukeDone \/ \E n \in Names : CleanFile(n) \/ NukeFile(n)
    BY <1>5 DEF Pivot, Pivoted, NukeBegin, NukeDone, CleanFile, NukeFile, Builds, Fuzzing, disk,
                memory, start
  <1>6. CASE Load \/ LoadOtherMap
    <2>1. CASE Off /\ UNCHANGED disk
      BY <1>0, <2>1, BuildsOff DEF disk
    <2>2. CASE ~(Off /\ UNCHANGED disk)
      BY <1>6, <2>2 DEF Load, LoadOtherMap, Builds, Fuzzing, disk
    <2> QED
      BY <2>1, <2>2
  <1>7. CASE (\E tag \in Tags : Find(tag)) \/ (\E n \in Names : Trim(n))
    BY <1>7 DEF Find, Trim, Builds, Fuzzing, start
  <1>8. CASE Write
    BY <1>8 DEF Write, Builds, Fuzzing, start
  <1>9. CASE Stop
    <2>1. CASE Off /\ UNCHANGED <<dump, target_hash>>
      BY <1>0, <2>1, BuildsOff
    <2>2. CASE ~(Off /\ UNCHANGED <<dump, target_hash>>)
      <3>1. /\ pc = "fuzz" /\ pc' = "dump" /\ UNCHANGED <<target_hash, maps, binary, opened, outdated>>
            /\ dump' = [recs |-> rec, maps |-> maps, whole |-> FALSE]
        BY <1>9, <2>2 DEF Stop, memory, start
      <3>2. dump'.maps = maps
        BY <3>1
      <3> QED
        BY <3>1, <3>2 DEF Builds, Fuzzing
    <2> QED
      BY <2>1, <2>2
  <1>10. CASE StopDone
    <2>1. Off /\ pc = "dump" /\ dump' = [dump EXCEPT !.whole = TRUE] /\ target_hash' = target_hash
      BY <1>10 DEF StopDone
    <2>2. dump \in Dumps /\ dump'.maps = dump.maps
      BY <1>0, <2>1, Types DEF Dumps
    <2>3. outdated \/ dump'.maps = {target_hash}
      BY <2>1, <2>2 DEF Builds
    <2> QED
      BY <1>0, <2>1, <2>3, BuildsOff
  <1>11. CASE Kill
    BY <1>0, <1>11, BuildsOff DEF Kill, disk
  <1>12. CASE UNCHANGED vars
    BY <1>12 DEF vars, disk, memory, start, Builds, Fuzzing
  <1> QED
    BY <1>1, <1>2, <1>3, <1>4, <1>5, <1>6, <1>7, <1>8, <1>9, <1>10, <1>11, <1>12 DEF Next, Resume

\* Every reachable state satisfies both.
LEMMA Invariants == Spec => [](IInv /\ Builds)
  <1>1. Init => Builds
    BY DEF Init, Builds, Fuzzing
  <1> QED
    BY <1>1, InitIInv, Inductive, BuildsStep, PTL DEF Spec

\* What the invariants say of ids and records.
LEMMA Consequences ==
  ASSUME IInv, Builds
  PROVE  EntriesSurvive /\ OneEntryPerId /\ RecordsMatch
  <1>1. pc = "fuzz" => HasRead /\ Fuzzing
    BY DEF HasRead, Fuzzing
  <1>2. TypeOK
    <2>1. dump # None => Ran(dump.recs) \subseteq Names /\ dump.maps \subseteq Binaries
      <3> SUFFICES ASSUME dump \in Dumps
                   PROVE  Ran(dump.recs) \subseteq Names /\ dump.maps \subseteq Binaries
        BY Types DEF IInv
      <3>1. dump.recs \in Seq(Names) /\ dump.maps \in SUBSET Binaries
        BY DEF Dumps
      <3> QED
        BY <3>1, FirstAll
    <2> QED
      BY <2>1, Types DEF IInv, Shape, Builds, TypeOK
  <1>3. EntriesSurvive /\ RecordsMatch
    BY <1>1, <1>2 DEF IInv, Kept, Builds, EntriesSurvive, RecordsMatch
  <1>4. ASSUME torn = {} PROVE \A m, n \in found : m[1] = n[1] => m = n
    <2>1. PICK s \in Seq(Names) : Numbered(s) /\ Ran(s) = found
      BY <1>4 DEF IInv, Kept
    <2> QED
      BY <2>1, NumberedOnce
  <1> QED
    BY <1>3, <1>4 DEF OneEntryPerId

\* Every entry ever added is in the queue of every later session
\* (handle_existing_out_dir, read_testcases, pivot_inputs, nuke_resume_dir), wherever
\* the process was killed, unless the deletion of _resume/ or a trim was cut short.
THEOREM NoEntryLost == Spec => []EntriesSurvive
  BY Invariants, Consequences, PTL

\* Over all these sessions no id is given to two entries (save_if_interesting).
THEOREM IdsGivenOnce == Spec => []OneEntryPerId
  BY Invariants, Consequences, PTL

\* The records loaded from fastresume.bin are those of the entries they are given
\* to, though nothing but their number is compared, and of the build that runs,
\* unless another build's session ended without a dump of its own (main).
THEOREM RecordsAreOwn == Spec => []RecordsMatch
  BY Invariants, Consequences, PTL
=============================================================================
