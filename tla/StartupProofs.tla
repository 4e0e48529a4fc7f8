--------------------------- MODULE StartupProofs ----------------------------
(***************************************************************************)
(* Proofs, for any builds, configurations and map sizes and wherever a     *)
(* server dies, that fuzzing starts with servers that agree with afl-fuzz, *)
(* and that a start is refused only for a cause (Startup, Lifecycle).      *)
(***************************************************************************)
EXTENDS Lifecycle, TLAPS

\* Most steps are first-order; those that need arithmetic or records cite SMT.
USE Zenon

-----------------------------------------------------------------------------
(* The inductive invariant of the start                                    *)

\* What the server of build b tells afl-fuzz of its map, as things are.
WithIjon == conf.ijon /\ ~env.noijon
Map(b)   == MapOf(b, WithIjon)
Need(b)  == Round(Map(b))

Now     == conf.bins[k]
Talking == phase \in {"hello", "options", "size", "dict", "welcome"}
Working == phase = "start" \/ Talking
Asked   == phase \in {"start", "hello", "options", "size"}
Told    == phase \in {"dict", "welcome"}

FsrvType == [map_size : Nat, use_shmem : BOOLEAN, use_ijon : BOOLEAN]
Points   == {"none", "exec", "hello", "reply", "options", "size", "dict", "welcome", "loop",
             "dead", "error"}
SrvType  == [pc : Points, seg : Nat, size : Nat, map : Nat, ijon : BOOLEAN]

StartType ==
  /\ conf \in Confs /\ k \in DOMAIN conf.bins /\ again \in BOOLEAN
  /\ map_size \in Nat /\ shm \in [seg : Nat, size : Nat] /\ shm.size = map_size
  /\ fsrv \in [Bins -> FsrvType]
  /\ env \in [size : Nat, noauto : BOOLEAN, noijon : BOOLEAN]
  /\ extras \in Nat /\ srv \in [Bins -> SrvType] /\ died \subseteq Bins
  /\ Working \/ phase \in {"prepare", "up", "ready", "fatal"}

\* Which servers are being started, and in which environment.
TodoInv ==
  /\ again => env.noauto
  /\ k = 1 /\ phase \notin {"ready", "fatal"} =>
       /\ ~env.noijon /\ (~again => env.noauto = conf.noauto)
       /\ phase = "prepare" => ~again
  /\ Working => todo = <<Now>> \/ (again /\ k > 1 /\ todo = <<"main", Now>>)
  /\ phase \in {"prepare", "up", "ready"} => todo = <<>>
  /\ phase = "ready" => k = Len(conf.bins)

\* What is in the pipe when the server is, or was when it died, at p.
Offer == {"mapsize"} \cup (IF conf.shmem THEN {"shmem"} ELSE {})
           \cup (IF conf.dict THEN {"dict"} ELSE {})
           \cup (IF WithIjon THEN {"ijon"} ELSE {})
InHello(p) ==
  \/ p \in {"exec", "hello"} /\ from = <<>>
  \/ p = "reply" /\ conf.proto = "new" /\ from = <<"hello">>
  \/ p = "reply" /\ conf.proto = "unsupported" /\ from = <<"unsupported">>
  \/ p = "loop" /\ conf.proto = "old" /\ from = <<"old">>
  \/ p = "error" /\ from = <<"error">>
InOptions(p) ==
  \/ p \in {"reply", "options"} /\ from = <<>>
  \/ p = "size" /\ from = <<Offer>>
  \/ p = "dict" /\ conf.dict /\ from = <<Offer, Map(Bin)>>
  \/ p = "welcome" /\ ~conf.dict /\ from = <<Offer, Map(Bin)>>
  \/ p = "welcome" /\ conf.dict /\ from = <<Offer, Map(Bin), "dictionary">>
  \/ p = "loop" /\ ~conf.dict /\ from = <<Offer, Map(Bin), "hello">>
  \/ p = "loop" /\ conf.dict /\ from = <<Offer, Map(Bin), "dictionary", "hello">>
InSize(p) ==
  \/ p = "size" /\ from = <<>>
  \/ p = "dict" /\ conf.dict /\ from = <<Map(Bin)>>
  \/ p = "welcome" /\ ~conf.dict /\ from = <<Map(Bin)>>
  \/ p = "welcome" /\ conf.dict /\ from = <<Map(Bin), "dictionary">>
  \/ p = "loop" /\ ~conf.dict /\ from = <<Map(Bin), "hello">>
  \/ p = "loop" /\ conf.dict /\ from = <<Map(Bin), "dictionary", "hello">>
InDict(p) ==
  /\ conf.dict
  /\ \/ p = "dict" /\ from = <<>>
     \/ p = "welcome" /\ from = <<"dictionary">>
     \/ p = "loop" /\ from = <<"dictionary", "hello">>
InWelcome(p) ==
  \/ p = "welcome" /\ from = <<>>
  \/ p = "loop" /\ from = <<"hello">>
Said(p) ==
  /\ phase = "hello" => InHello(p)
  /\ phase = "options" => InOptions(p)
  /\ phase = "size" => InSize(p) /\ opts = Offer
  /\ phase = "dict" => InDict(p) /\ opts = Offer
  /\ phase = "welcome" => InWelcome(p)
Where(p) ==
  IF Lives(Bin) THEN srv[Bin].pc = p /\ p # "error" ELSE Bin \in died \/ p = "error"

\* The server died before it sent its options.
Lost ==
  /\ phase \in {"size", "welcome"} /\ ~Lives(Bin) /\ Bin \in died /\ from = <<>>
  /\ phase = "size" => opts = {"shmem", "ijon"}

Attached(b) ==
  Lives(b) /\ srv[b].pc # "exec" =>
    srv[b].seg = shm.seg /\ srv[b].size = shm.size /\ srv[b].ijon = WithIjon /\ srv[b].map = Map(b)

\* The two sides of the handshake keep step.
TalkInv ==
  Talking => /\ phase = "hello" => to = <<>>
             /\ phase # "hello" => conf.proto = "new"
             /\ Attached(Bin)
             /\ Lost \/ \E p \in Points : Said(p) /\ Where(p)

\* A map that was made for a server is large enough for it.
Bound(b) == fsrv[b].map_size <= map_size \/ Need(b) <= map_size

\* As long as no server dies a restarted one says nothing new.
Kept(b) == died = {} /\ conf.proto = "new" => Need(b) <= fsrv[b].map_size
Known(b) == b \in {"main", "cmplog"} => Kept(b)

\* What afl-fuzz knows of the server of b once it has read the size.
Answered(b) ==
  /\ fsrv[b].map_size >= MAP_SIZE \/ fsrv[b].map_size = Need(b)
  /\ conf.proto = "old" => fsrv[b].map_size = MAP_SIZE
  /\ again => Bound(b)
  /\ fsrv[b].use_shmem => conf.shmem \/ b \in died
  /\ IF Lives(b)
     THEN /\ srv[b].pc # "exec" /\ Attached(b) /\ (conf.shmem => fsrv[b].use_shmem)
          /\ conf.proto # "old" => fsrv[b].map_size = Need(b)
     ELSE b \in died

\* How large a map the servers being started may have.
SizeInv ==
  /\ Asked => /\ fsrv[Bin].use_shmem => conf.shmem \/ Bin \in died
              /\ ~again => fsrv[Bin].map_size >= map_size /\ fsrv[Bin].map_size >= DEFAULT_SHMEM_SIZE
              /\ again => Bound(Bin) /\ Known(Bin)
  /\ Working /\ todo = <<"main", Now>> => Bound(Now) /\ Known(Now)
                                          /\ (fsrv[Now].use_shmem => conf.shmem \/ Now \in died)
  /\ Working /\ again => Need(Now) <= map_size \/ MAP_SIZE <= map_size
  /\ Told => Answered(Bin)
  /\ phase = "up" => Answered(Now)

\* The dictionary; and a target whose options were not read is taken for one
\* with an IJON area, for which its map is too small.
Want == IF conf.proto = "new" /\ conf.dict /\ ~conf.noauto THEN 1 ELSE 0
Mistaken == fsrv["main"].use_ijon /\ fsrv["main"].map_size <= MAP_SIZE
OnceInv ==
  /\ phase = "ready" \/ (k > 1 /\ phase # "fatal") => extras = Want
  /\ k = 1 /\ (phase = "up" \/ phase = "welcome" \/ (again /\ Working)) => extras = Want \/ Mistaken
  /\ k = 1 /\ ~again /\ (phase = "prepare" \/ Asked \/ phase = "dict") => extras = 0
  /\ k = 1 /\ fsrv["main"].use_ijon => conf.ijon \/ (Mistaken /\ died # {})

\* The target: its map, and what it may grow to when it is started anew.
MainInv ==
  phase # "fatal" =>
    /\ again \/ k > 1 =>
         /\ fsrv["main"].map_size <= map_size \/ fsrv["main"].map_size <= MAP_SIZE
         /\ Need("main") <= map_size \/ MAP_SIZE <= map_size
         /\ conf.proto = "old" => MAP_SIZE <= map_size
    /\ k > 1 => Kept("main")
    /\ k = 1 /\ phase = "prepare" => fsrv["main"].map_size = map_size

\* The servers that are done with.
Settled(b) ==
  IF Lives(b)
  THEN /\ srv[b].map <= srv[b].size
       /\ b \in {"main", "cmplog"} => srv[b].seg = shm.seg
       /\ conf.shmem => fsrv[b].use_shmem
       /\ fsrv[b].use_shmem => conf.shmem \/ b \in died
       /\ b = "main" =>
            /\ fsrv[b].map_size + (IF srv[b].ijon THEN IjonBytes ELSE 0) >= srv[b].map
            /\ fsrv[b].map_size <= map_size
  ELSE b \in died
Before(b) == \E i \in 1..(k - 1) : b = conf.bins[i]
Past(b) == \/ Before(b) /\ ~(Working /\ b = Bin)
           \/ phase = "ready" /\ b = Now
PastInv == phase # "fatal" => \A b \in Bins : Past(b) => Settled(b)

StartInv ==
  /\ StartType /\ TodoInv /\ TalkInv /\ SizeInv /\ OnceInv /\ MainInv /\ PastInv
  /\ RefusedForCause

-----------------------------------------------------------------------------
(* Sizes, sequences and configurations                                     *)

\* The sizes of config.h are numbers.
LEMMA Sizes ==
  /\ Unit \in Nat /\ Unit > 0 /\ MAP_SIZE \in Nat /\ MAP_SIZE > 0 /\ DEFAULT_SHMEM_SIZE \in Nat
  /\ IjonMap \in Nat /\ IjonMap > 0 /\ IjonBytes \in Nat /\ IjonBytes > 0
  /\ MAP_SIZE <= DEFAULT_SHMEM_SIZE /\ MAP_SIZE <= IjonMap + IjonBytes
  BY StartupAssumption, SMT

\* Sizes are rounded up.
LEMMA RoundedUp ==
  ASSUME NEW n \in Nat
  PROVE  Round(n) \in Nat /\ Round(n) >= n
  <1> DEFINE q == (n + Unit - 1) \div Unit
  <1>1. q \in Nat /\ n + Unit - 1 = Unit * q + ((n + Unit - 1) % Unit)
        /\ (n + Unit - 1) % Unit <= Unit - 1
    BY Sizes, SMT
  <1>2. q * Unit = Unit * q /\ q * Unit \in Nat
    BY <1>1, Sizes, SMT
  <1>3. Round(n) = q * Unit
    BY DEF Round
  <1> HIDE DEF q
  <1> QED
    BY <1>1, <1>2, <1>3, Sizes, SMT

\* What is written to a pipe.
LEMMA Writes ==
  ASSUME NEW a, NEW b, NEW c, NEW d
  PROVE  /\ Append(<<>>, a) = <<a>>
         /\ Append(<<a>>, b) = <<a, b>>
         /\ Append(<<a, b>>, c) = <<a, b, c>>
         /\ Append(<<a, b, c>>, d) = <<a, b, c, d>>
  <1> DEFINE S == {a, b, c, d}
  <1>1. <<a>> \in Seq(S) /\ <<a, b>> \in Seq(S) /\ <<a, b, c>> \in Seq(S)
        /\ <<a, b, c, d>> \in Seq(S) /\ b \in S /\ c \in S /\ d \in S
    BY SMT
  <1> HIDE DEF S
  <1>2. Append(<<>>, a) = <<a>>
    BY SMT
  <1>3. Append(<<a>>, b) = <<a, b>>
    <2> DEFINE s == Append(<<a>>, b)
               t == <<a, b>>
    <2>1. s \in Seq(S) /\ t \in Seq(S) /\ Len(s) = 2 /\ Len(t) = 2
      BY <1>1, SMT
    <2>2. s[1] = t[1] /\ s[2] = t[2]
      BY <1>1, SMT
    <2> HIDE DEF s, t
    <2>3. \A i \in 1..2 : s[i] = t[i]
      BY <2>2, SMT
    <2>4. s = t
      BY <2>1, <2>3, SMT
    <2> QED
      BY <2>4 DEF s, t
  <1>4. Append(<<a, b>>, c) = <<a, b, c>>
    <2> DEFINE s == Append(<<a, b>>, c)
               t == <<a, b, c>>
    <2>1. s \in Seq(S) /\ t \in Seq(S) /\ Len(s) = 3 /\ Len(t) = 3
      BY <1>1, SMT
    <2>2. s[1] = t[1] /\ s[2] = t[2] /\ s[3] = t[3]
      BY <1>1, SMT
    <2> HIDE DEF s, t
    <2>3. \A i \in 1..3 : s[i] = t[i]
      BY <2>2, SMT
    <2>4. s = t
      BY <2>1, <2>3, SMT
    <2> QED
      BY <2>4 DEF s, t
  <1>5. Append(<<a, b, c>>, d) = <<a, b, c, d>>
    <2> DEFINE s == Append(<<a, b, c>>, d)
               t == <<a, b, c, d>>
    <2>1. s \in Seq(S) /\ t \in Seq(S) /\ Len(s) = 4 /\ Len(t) = 4
      BY <1>1, SMT
    <2>2. s[1] = t[1] /\ s[2] = t[2] /\ s[3] = t[3] /\ s[4] = t[4]
      BY <1>1, SMT
    <2> HIDE DEF s, t
    <2>3. \A i \in 1..4 : s[i] = t[i]
      BY <2>2, SMT
    <2>4. s = t
      BY <2>1, <2>3, SMT
    <2> QED
      BY <2>4 DEF s, t
  <1> QED
    BY <1>2, <1>3, <1>4, <1>5

\* What a configuration is.
LEMMA ConfFacts ==
  ASSUME StartType
  PROVE  /\ conf.bins \in Seq(Bins) /\ Len(conf.bins) \in Nat
         /\ DOMAIN conf.bins = 1..Len(conf.bins)
         /\ k \in Nat /\ k >= 1 /\ k <= Len(conf.bins)
         /\ Now \in Bins /\ "main" \in Bins /\ "cmplog" \in Bins /\ conf.bins[1] = "main"
         /\ Now = "main" <=> k = 1
         /\ Now = "cmplog" => k = Len(conf.bins)
         /\ ~Before(Now)
         /\ k > 1 => Before("main")
         /\ conf.proto \in {"new", "old", "unsupported"}
         /\ {conf.dict, conf.ijon, conf.shmem, conf.noauto} \subseteq BOOLEAN
         /\ conf.proto = "old" =>
              ~conf.shmem /\ ~conf.ijon /\ \A b \in Bins : conf.edges[b] <= MAP_SIZE
         /\ \A b \in Bins : conf.edges[b] \in Nat /\ conf.edges[b] > 0
  <1>1. ConfType(conf)
    BY StartupAssumption DEF StartType
  <1>2. /\ conf.bins \in Seq(Bins) /\ conf.bins # <<>> /\ conf.bins[1] = "main"
        /\ \A i, j \in DOMAIN conf.bins : conf.bins[i] = conf.bins[j] => i = j
        /\ \A i \in DOMAIN conf.bins : conf.bins[i] = "cmplog" => i = Len(conf.bins)
        /\ conf.edges \in [Bins -> Nat \ {0}]
    BY <1>1 DEF ConfType
  <1>3. DOMAIN conf.bins = 1..Len(conf.bins) /\ Len(conf.bins) \in Nat /\ Len(conf.bins) >= 1
    BY <1>2, SMT
  <1>4. k \in Nat /\ k >= 1 /\ k <= Len(conf.bins) /\ k \in DOMAIN conf.bins
    BY <1>3, SMT DEF StartType
  <1>5. Now \in Bins
    BY <1>2, <1>4, SMT DEF Now
  <1>6. 1 \in DOMAIN conf.bins
    BY <1>3, SMT
  <1>7. (Now = "main" <=> k = 1) /\ (Now = "cmplog" => k = Len(conf.bins))
    BY <1>2, <1>4, <1>6 DEF Now
  <1>8. ~Before(Now)
    <2> SUFFICES ASSUME NEW i \in 1..(k - 1), Now = conf.bins[i] PROVE FALSE
      BY DEF Before
    <2>1. i \in DOMAIN conf.bins /\ i # k
      BY <1>3, <1>4, SMT
    <2> QED
      BY <1>2, <1>4, <2>1 DEF Now
  <1>9. k > 1 => Before("main")
    <2> SUFFICES ASSUME k > 1 PROVE \E i \in 1..(k - 1) : "main" = conf.bins[i]
      BY DEF Before
    <2>1. 1 \in 1..(k - 1)
      BY <1>4, SMT
    <2> QED
      BY <1>2, <2>1
  <1>10. "main" \in Bins /\ "cmplog" \in Bins
    BY StartupAssumption
  <1>11. /\ conf.proto \in {"new", "old", "unsupported"}
         /\ {conf.dict, conf.ijon, conf.shmem, conf.noauto} \subseteq BOOLEAN
         /\ conf.proto = "old" =>
              ~conf.shmem /\ ~conf.ijon /\ \A b \in Bins : conf.edges[b] <= MAP_SIZE
    BY <1>1 DEF ConfType
  <1>12. \A b \in Bins : conf.edges[b] \in Nat /\ conf.edges[b] > 0
    BY <1>2, SMT
  <1> QED
    BY <1>2, <1>3, <1>4, <1>5, <1>7, <1>8, <1>9, <1>10, <1>11, <1>12

\* What a server needs.
LEMMA NeedFacts ==
  ASSUME StartType, NEW b \in Bins
  PROVE  /\ Map(b) \in Nat /\ Map(b) > 0 /\ Need(b) \in Nat /\ Need(b) >= Map(b)
         /\ WithIjon => /\ Map(b) > IjonMap + IjonBytes
                        /\ Map(b) >= MAP_SIZE
         /\ conf.proto = "old" => ~WithIjon /\ Map(b) <= MAP_SIZE
  <1>1. conf.edges[b] \in Nat /\ conf.edges[b] > 0
    BY ConfFacts
  <1>2. Round(conf.edges[b]) \in Nat /\ Round(conf.edges[b]) >= conf.edges[b]
    BY <1>1, RoundedUp
  <1>3. Map(b) = IF WithIjon THEN Round(conf.edges[b]) + IjonMap + IjonBytes ELSE conf.edges[b]
    BY DEF Map, MapOf
  <1>4. Map(b) \in Nat /\ Map(b) > 0 /\ (WithIjon => Map(b) > IjonMap + IjonBytes)
    BY <1>1, <1>2, <1>3, Sizes, SMT
  <1>5. Need(b) \in Nat /\ Need(b) >= Map(b)
    BY <1>4, RoundedUp DEF Need
  <1>6. conf.proto = "old" => ~conf.ijon /\ conf.edges[b] <= MAP_SIZE
    BY ConfFacts
  <1>7. conf.proto = "old" => ~WithIjon /\ Map(b) <= MAP_SIZE
    BY <1>3, <1>6 DEF WithIjon
  <1> QED
    BY <1>4, <1>5, <1>7, Sizes, SMT

\* The records.
LEMMA RecordFacts ==
  ASSUME StartType, NEW b \in Bins
  PROVE  /\ fsrv[b].map_size \in Nat /\ fsrv[b].use_shmem \in BOOLEAN
         /\ fsrv[b].use_ijon \in BOOLEAN
         /\ srv[b].pc \in Points /\ srv[b].seg \in Nat /\ srv[b].size \in Nat
         /\ srv[b].map \in Nat /\ srv[b].ijon \in BOOLEAN
  BY DEF StartType, FsrvType, SrvType

\* Which server is in hand.
LEMMA TodoFacts ==
  ASSUME StartType, TodoInv, Working
  PROVE  /\ todo # <<>> /\ Bin \in Bins
         /\ Len(todo) = 1 => Bin = Now /\ todo = <<Now>> /\ Tail(todo) = <<>>
         /\ Len(todo) # 1 => /\ again /\ k > 1 /\ Bin = "main" /\ Now # "main"
                             /\ todo = <<"main", Now>> /\ Tail(todo) = <<Now>>
         /\ k = 1 => Bin = "main" /\ Now = "main" /\ Len(todo) = 1
  <1>1. todo = <<Now>> \/ (again /\ k > 1 /\ todo = <<"main", Now>>)
    BY DEF TodoInv
  <1>2. Now \in Bins /\ "main" \in Bins /\ (Now = "main" <=> k = 1)
    BY ConfFacts
  <1>3. CASE todo = <<Now>>
    <2>1. todo # <<>> /\ Bin = Now /\ Len(todo) = 1 /\ Tail(todo) = <<>>
      BY <1>3, SMT DEF Bin
    <2> QED
      BY <1>2, <1>3, <2>1
  <1>4. CASE again /\ k > 1 /\ todo = <<"main", Now>>
    <2>1. todo # <<>> /\ Bin = "main" /\ Len(todo) = 2 /\ Tail(todo) = <<Now>>
      BY <1>4, SMT DEF Bin
    <2> QED
      BY <1>2, <1>4, <2>1, SMT
  <1> QED
    BY <1>1, <1>3, <1>4

\* Before anything has been started.
LEMMA StartInit == StartupInit => StartInv
  <1> SUFFICES ASSUME StartupInit PROVE StartInv
    OBVIOUS
  <1> DEFINE first(c) == IF c.user = 0 THEN DEFAULT_SHMEM_SIZE ELSE Round(c.user)
  <1>1. PICK c \in Confs :
          /\ conf = c /\ phase = "prepare" /\ k = 1 /\ todo = <<>> /\ again = FALSE
          /\ map_size = first(c) /\ shm = [seg |-> 1, size |-> first(c)]
          /\ fsrv = [b \in Bins |->
                       [map_size |-> first(c), use_shmem |-> FALSE, use_ijon |-> FALSE]]
          /\ env = [size |-> c.user, noauto |-> c.noauto, noijon |-> FALSE]
          /\ extras = 0 /\ srv = [b \in Bins |-> NoSrv] /\ died = {}
    BY DEF StartupInit
  <1>2. ConfType(c)
    BY StartupAssumption
  <1>3. c.user \in Nat /\ c.noauto \in BOOLEAN /\ 1 \in DOMAIN c.bins /\ "main" \in Bins
    BY <1>2, StartupAssumption, SMT DEF ConfType
  <1>4. first(c) \in Nat
    BY <1>3, RoundedUp, Sizes
  <1> HIDE DEF first
  <1>5. ~Working /\ ~Asked /\ ~Told /\ ~Talking
    BY <1>1 DEF Working, Asked, Told, Talking
  <1>6. StartType
    <2>1. shm \in [seg : Nat, size : Nat] /\ shm.size = map_size
      BY <1>1, <1>4
    <2>2. fsrv \in [Bins -> FsrvType]
      BY <1>1, <1>4 DEF FsrvType
    <2>3. env \in [size : Nat, noauto : BOOLEAN, noijon : BOOLEAN]
      BY <1>1, <1>3
    <2>4. srv \in [Bins -> SrvType]
      BY <1>1 DEF NoSrv, SrvType, Points
    <2> QED
      BY <1>1, <1>3, <1>4, <2>1, <2>2, <2>3, <2>4 DEF StartType
  <1>7. TodoInv
    BY <1>1, <1>5 DEF TodoInv
  <1>8. TalkInv /\ SizeInv
    BY <1>1, <1>5 DEF TalkInv, SizeInv
  <1>9. OnceInv
    BY <1>1, <1>3, <1>5, SMT DEF OnceInv
  <1>10. MainInv
    BY <1>1, <1>3, SMT DEF MainInv
  <1>11. PastInv
    BY <1>1, SMT DEF PastInv, Past, Before
  <1>12. RefusedForCause
    BY <1>1 DEF RefusedForCause
  <1> QED
    BY <1>6, <1>7, <1>8, <1>9, <1>10, <1>11, <1>12 DEF StartInv

\* A fatal error is the end.
LEMMA FatalStep ==
  ASSUME StartInv, phase' = "fatal", UNCHANGED <<program, fsrv, extras, died>>,
         srv' \in [Bins -> SrvType], RefusedForCause'
  PROVE  StartInv'
  <1>1. UNCHANGED <<conf, k, again, map_size, shm, env>>
    BY DEF program
  <1>2. ~Working' /\ ~Asked' /\ ~Told' /\ ~Talking'
    BY DEF Working, Asked, Told, Talking
  <1>3. StartType'
    BY <1>1 DEF StartInv, StartType
  <1>4. TodoInv'
    BY <1>1, <1>2 DEF StartInv, TodoInv
  <1>5. TalkInv' /\ SizeInv'
    BY <1>2 DEF TalkInv, SizeInv
  <1>6. Mistaken' <=> Mistaken
    BY DEF Mistaken
  <1>7. OnceInv'
    BY <1>1, <1>2, <1>6 DEF StartInv, OnceInv
  <1>8. MainInv' /\ PastInv'
    BY DEF MainInv, PastInv
  <1> QED
    BY <1>3, <1>4, <1>5, <1>7, <1>8 DEF StartInv

-----------------------------------------------------------------------------
(* The main program                                                        *)

\* Nothing happens.
LEMMA StandsStill ==
  ASSUME StartInv, UNCHANGED sVars
  PROVE  StartInv'
  <1>1. /\ UNCHANGED <<conf, k, again, map_size, shm, env>>
        /\ UNCHANGED <<phase, todo, fsrv, extras, opts, why, srv, died, to, from>>
    BY DEF sVars, program, handshake, target
  <1>2. StartType' /\ TodoInv'
    BY <1>1 DEF StartInv, StartType, TodoInv, Working, Talking, Now
  <1>3. TalkInv'
    <2>1. /\ Bin' = Bin /\ (Talking' <=> Talking) /\ (Lost' <=> Lost)
          /\ (Attached(Bin)' <=> Attached(Bin))
      BY <1>1 DEF Bin, Talking, Lost, Attached, Lives, Map, MapOf, WithIjon
    <2>2. \A p : InHello(p)' <=> InHello(p)
      BY <1>1 DEF InHello
    <2>3. \A p : (InOptions(p)' <=> InOptions(p)) /\ (InSize(p)' <=> InSize(p)) /\ Offer' = Offer
      <3>1. Offer' = Offer /\ Map(Bin)' = Map(Bin)
        BY <1>1 DEF Offer, Map, MapOf, WithIjon, Bin
      <3>2. \A p : InOptions(p)' <=> InOptions(p)
        BY <1>1, <3>1, SMT DEF InOptions
      <3>3. \A p : InSize(p)' <=> InSize(p)
        BY <1>1, <3>1 DEF InSize
      <3> QED
        BY <3>1, <3>2, <3>3
    <2>4. \A p : (InDict(p)' <=> InDict(p)) /\ (InWelcome(p)' <=> InWelcome(p))
      BY <1>1 DEF InDict, InWelcome
    <2>5. \A p : (Said(p)' <=> Said(p)) /\ (Where(p)' <=> Where(p))
      BY <1>1, <2>1, <2>2, <2>3, <2>4 DEF Said, Where, Lives
    <2> QED
      BY <1>1, <2>1, <2>5 DEF StartInv, TalkInv
  <1>4. SizeInv'
    <2>1. /\ Bin' = Bin /\ Now' = Now /\ (Asked' <=> Asked) /\ (Told' <=> Told)
          /\ (Working' <=> Working)
      BY <1>1 DEF Bin, Now, Asked, Told, Working, Talking
    <2>2. Need(Now)' = Need(Now) /\ Need(Bin)' = Need(Bin)
      BY <1>1 DEF Need, Map, MapOf, WithIjon, Now, Bin
    <2>3. /\ (Bound(Bin)' <=> Bound(Bin)) /\ (Bound(Now)' <=> Bound(Now))
          /\ (Known(Bin)' <=> Known(Bin)) /\ (Known(Now)' <=> Known(Now))
      BY <1>1, <2>1, <2>2 DEF Bound, Known, Kept
    <2>4. (Answered(Bin)' <=> Answered(Bin)) /\ (Answered(Now)' <=> Answered(Now))
      <3>1. (Attached(Bin)' <=> Attached(Bin)) /\ (Attached(Now)' <=> Attached(Now))
        BY <1>1, <2>1 DEF Attached, Lives, Map, MapOf, WithIjon
      <3> QED
        BY <1>1, <2>1, <2>2, <2>3, <3>1 DEF Answered, Lives
    <2> QED
      BY <1>1, <2>1, <2>2, <2>3, <2>4 DEF StartInv, SizeInv
  <1>5. OnceInv' /\ MainInv'
    BY <1>1, SMT DEF StartInv, OnceInv, MainInv, Want, Mistaken, Working, Talking, Asked, Kept, Need,
         Map, MapOf, WithIjon
  <1>6. PastInv'
    BY <1>1 DEF StartInv, PastInv, Past, Before, Settled, Working, Talking, Now, Bin, Lives
  <1>7. RefusedForCause'
    BY <1>1 DEF StartInv, RefusedForCause, Bin
  <1> QED
    BY <1>2, <1>3, <1>4, <1>5, <1>6, <1>7 DEF StartInv

\* The first start of the next build, in the largest map.
LEMMA PrepareStep ==
  ASSUME StartInv, Prepare
  PROVE  StartInv'
  <1> DEFINE large == MAX(map_size, DEFAULT_SHMEM_SIZE)
             grow  == \/ map_size <= DEFAULT_SHMEM_SIZE
                      \/ Now # "main" /\ fsrv["main"].map_size < map_size
             size  == IF grow THEN large ELSE fsrv["main"].map_size
             new   == [map_size |-> size, use_shmem |-> FALSE, use_ijon |-> FALSE]
  <1>1. /\ phase = "prepare" /\ phase' = "start" /\ todo' = <<Now>> /\ ~again' /\ again' = FALSE
        /\ fsrv' = [fsrv EXCEPT ![Now] = new]
        /\ env' = IF grow THEN [env EXCEPT !.size = large] ELSE env
        /\ UNCHANGED <<conf, k, map_size, shm, extras, srv, died>>
    BY DEF Prepare, Now, target
  <1>2. /\ Now \in Bins /\ "main" \in Bins /\ (Now = "main" <=> k = 1) /\ ~Before(Now)
        /\ k \in Nat /\ k >= 1 /\ map_size \in Nat /\ fsrv \in [Bins -> FsrvType]
        /\ env \in [size : Nat, noauto : BOOLEAN, noijon : BOOLEAN]
        /\ DEFAULT_SHMEM_SIZE \in Nat
    BY ConfFacts, Sizes DEF StartInv, StartType
  <1>3. fsrv["main"].map_size \in Nat
    BY <1>2, RecordFacts DEF StartInv
  <1>4. size \in Nat /\ size >= map_size /\ size >= DEFAULT_SHMEM_SIZE
    <2>1. k = 1 => fsrv["main"].map_size = map_size
      BY <1>1 DEF StartInv, MainInv
    <2> QED
      BY <1>2, <1>3, <2>1, SMT DEF MAX
  <1>5. large \in Nat
    BY <1>2 DEF MAX
  <1> HIDE DEF size, large
  <1>6. new \in FsrvType /\ new.map_size = size /\ ~new.use_shmem /\ ~new.use_ijon
    BY <1>4 DEF FsrvType
  <1> HIDE DEF new
  <1>7. /\ fsrv' \in [Bins -> FsrvType] /\ fsrv'[Now] = new
        /\ \A b \in Bins : b # Now => fsrv'[b] = fsrv[b]
    BY <1>1, <1>2, <1>6
  <1>8. /\ env' \in [size : Nat, noauto : BOOLEAN, noijon : BOOLEAN]
        /\ env'.noauto = env.noauto /\ env'.noijon = env.noijon
    BY <1>1, <1>2, <1>5
  <1> HIDE DEF grow
  <1>9. /\ Working' /\ ~Talking' /\ Asked' /\ ~Told' /\ Now' = Now /\ Bin' = Now
        /\ WithIjon' = WithIjon
    BY <1>1, <1>8, SMT DEF Working, Talking, Asked, Told, Now, Bin, WithIjon
  <1>10. \A b \in Bins : Need(b)' = Need(b) /\ (Before(b)' <=> Before(b))
    BY <1>1, <1>9 DEF Need, Map, MapOf, Before
  <1>11. StartType'
    BY <1>1, <1>7, <1>8, <1>9 DEF StartInv, StartType
  <1>12. TodoInv'
    BY <1>1, <1>8, <1>9 DEF StartInv, TodoInv
  <1>13. TalkInv'
    BY <1>9 DEF TalkInv
  <1>14. SizeInv'
    <2>1. todo' # <<"main", Now>>
      BY <1>1
    <2> QED
      BY <1>1, <1>4, <1>6, <1>7, <1>9, <2>1 DEF SizeInv
  <1>15. OnceInv'
    <2>1. k = 1 => extras = 0
      BY <1>1 DEF StartInv, OnceInv, TodoInv
    <2>2. k > 1 => extras = Want /\ Want' = Want
      BY <1>1 DEF StartInv, OnceInv, Want
    <2>3. k = 1 => ~(fsrv["main"].use_ijon)'
      BY <1>2, <1>6, <1>7
    <2> QED
      BY <1>1, <2>1, <2>2, <2>3 DEF OnceInv
  <1>16. MainInv'
    <2> SUFFICES ASSUME k > 1
                 PROVE  /\ (fsrv["main"].map_size <= map_size \/ fsrv["main"].map_size <= MAP_SIZE)'
                        /\ (Need("main") <= map_size \/ MAP_SIZE <= map_size)'
                        /\ (conf.proto = "old" => MAP_SIZE <= map_size)'
                        /\ Kept("main")'
      BY <1>1 DEF MainInv
    <2>1. fsrv'["main"] = fsrv["main"] /\ Need("main")' = Need("main")
      BY <1>2, <1>7, <1>10, SMT
    <2>2. Kept("main") => Kept("main")'
      BY <1>1, <2>1 DEF Kept
    <2> QED
      BY <1>1, <2>1, <2>2 DEF StartInv, MainInv
  <1>17. PastInv'
    <2> SUFFICES ASSUME NEW b \in Bins, Past(b)' PROVE Settled(b)'
      BY DEF PastInv
    <2>1. Before(b) /\ b # Now
      BY <1>1, <1>2, <1>10 DEF Past
    <2>2. Settled(b)
      BY <1>1, <2>1 DEF StartInv, PastInv, Past, Working, Talking
    <2>3. fsrv'[b] = fsrv[b]
      BY <1>7, <2>1
    <2> QED
      BY <1>1, <2>2, <2>3 DEF Settled, Lives
  <1>18. RefusedForCause'
    BY <1>1 DEF RefusedForCause
  <1> QED
    BY <1>11, <1>12, <1>13, <1>14, <1>15, <1>16, <1>17, <1>18 DEF StartInv

\* A larger map: the target, and the build that needs it, are started anew.
LEMMA ReinitStep ==
  ASSUME StartInv, Reinit
  PROVE  StartInv'
  <1> DEFINE size == fsrv[Now].map_size
  <1>1. /\ phase = "up" /\ ~again /\ map_size < size
        /\ phase' = "start" /\ todo' = Restart(Now) /\ again' = TRUE
        /\ map_size' = size /\ shm' = [seg |-> shm.seg + 1, size |-> size]
        /\ fsrv' = IF Now \in {"main", "cmplog"} THEN fsrv
                   ELSE [fsrv EXCEPT ![Now].map_size = fsrv["main"].map_size]
        /\ env' = NoAutodict(env)
        /\ srv' = [x \in Bins |-> IF x \in {"main", Now} THEN NoSrv ELSE srv[x]]
        /\ UNCHANGED <<conf, k, extras, died>>
    BY DEF Reinit, Now
  <1>2. /\ Now \in Bins /\ "main" \in Bins /\ (Now = "main" <=> k = 1)
        /\ k \in Nat /\ k >= 1 /\ (k > 1 => Before("main"))
        /\ \A b \in Bins : Before(b) => b # Now /\ b # "cmplog"
    <2>1. \A b \in Bins : Before(b) => b # "cmplog"
      <3> SUFFICES ASSUME NEW b \in Bins, Before(b), b = "cmplog"
                   PROVE  FALSE
        OBVIOUS
      <3>1. PICK i \in 1..(k - 1) : conf.bins[i] = "cmplog"
        BY DEF Before
      <3>2. ConfType(conf)
        BY StartupAssumption DEF StartInv, StartType
      <3> QED
        BY <3>1, <3>2, ConfFacts, SMT DEF ConfType, StartInv
    <2> QED
      BY <2>1, ConfFacts DEF StartInv
  <1>3. /\ map_size \in Nat /\ fsrv \in [Bins -> FsrvType] /\ srv \in [Bins -> SrvType]
        /\ env \in [size : Nat, noauto : BOOLEAN, noijon : BOOLEAN]
        /\ shm \in [seg : Nat, size : Nat] /\ MAP_SIZE \in Nat
    BY Sizes DEF StartInv, StartType
  <1>4. size \in Nat /\ fsrv["main"].map_size \in Nat /\ Need("main") \in Nat /\ Need(Now) \in Nat
    BY <1>2, RecordFacts, NeedFacts DEF StartInv
  <1>5. Answered(Now)
    BY <1>1 DEF StartInv, SizeInv
  <1>6. MAP_SIZE <= size \/ size = Need(Now)
    BY <1>3, <1>4, <1>5 DEF Answered
  <1>7. k > 1 => Settled("main")
    BY <1>1, <1>2 DEF StartInv, PastInv, Past, Working, Talking
  <1>8. /\ env' \in [size : Nat, noauto : BOOLEAN, noijon : BOOLEAN]
        /\ env'.noauto /\ env'.noijon = env.noijon
    BY <1>1, <1>3 DEF NoAutodict
  <1>9. /\ fsrv' \in [Bins -> FsrvType] /\ \A b \in Bins : b # Now => fsrv'[b] = fsrv[b]
        /\ fsrv'[Now].use_shmem = fsrv[Now].use_shmem
        /\ Now \in {"main", "cmplog"} => fsrv' = fsrv
        /\ Now \notin {"main", "cmplog"} => fsrv'[Now].map_size = fsrv["main"].map_size
        /\ fsrv'["main"] = fsrv["main"]
    <2>1. CASE Now \in {"main", "cmplog"}
      BY <1>1, <1>3, <2>1
    <2>2. CASE Now \notin {"main", "cmplog"}
      <3> DEFINE s == [fsrv[Now] EXCEPT !.map_size = fsrv["main"].map_size]
      <3>1. fsrv[Now] \in FsrvType
        BY <1>2, <1>3
      <3>2. s \in FsrvType /\ s.map_size = fsrv["main"].map_size /\ s.use_shmem = fsrv[Now].use_shmem
        BY <1>4, <3>1 DEF FsrvType
      <3>3. fsrv' = [fsrv EXCEPT ![Now] = s]
        BY <1>1, <2>2
      <3> HIDE DEF s
      <3> QED
        BY <1>2, <1>3, <2>2, <3>2, <3>3
    <2> QED
      BY <2>1, <2>2
  <1>10. /\ srv' \in [Bins -> SrvType]
         /\ \A b \in Bins : b # "main" /\ b # Now => srv'[b] = srv[b]
    <2>1. NoSrv \in SrvType
      BY DEF NoSrv, SrvType, Points
    <2> QED
      BY <1>1, <1>3, <2>1
  <1>11. /\ Working' /\ ~Talking' /\ Asked' /\ ~Told' /\ Now' = Now /\ Bin' = "main"
         /\ WithIjon' = WithIjon
    BY <1>1, <1>8, SMT DEF Working, Talking, Asked, Told, Now, Bin, Restart, WithIjon
  <1>12. \A b \in Bins : Need(b)' = Need(b) /\ (Before(b)' <=> Before(b))
    BY <1>1, <1>11 DEF Need, Map, MapOf, Before
  <1>13. k = 1 => todo' = <<Now>>
    BY <1>1, <1>2 DEF Restart
  <1>14. k > 1 => todo' = <<"main", Now>>
    BY <1>1, <1>2 DEF Restart
  <1> HIDE DEF size
  <1>15. StartType'
    <2>1. shm' \in [seg : Nat, size : Nat] /\ shm'.size = map_size'
      BY <1>1, <1>3, <1>4, SMT
    <2> QED
      BY <1>1, <1>4, <1>8, <1>9, <1>10, <1>11, <2>1 DEF StartInv, StartType
  <1>16. TodoInv'
    <2>1. k = 1 => ~env'.noijon
      BY <1>1, <1>8 DEF StartInv, TodoInv
    <2> QED
      BY <1>1, <1>2, <1>8, <1>11, <1>13, <1>14, <2>1, SMT DEF TodoInv
  <1>17. TalkInv'
    BY <1>11 DEF TalkInv
  <1>18. Kept("main") /\ Kept("main")'
    <2>1. Kept("main")
      <3>1. CASE k > 1
        BY <1>1, <3>1 DEF StartInv, MainInv
      <3>2. CASE k = 1
        <4>1. died = {} /\ conf.proto = "new" => fsrv["main"].map_size = Need("main")
          BY <1>2, <1>5, <3>2 DEF Answered
        <4> QED
          BY <1>4, <4>1, SMT DEF Kept
      <3> QED
        BY <1>2, <3>1, <3>2, SMT
    <2> QED
      BY <1>1, <1>2, <1>9, <1>12, <2>1 DEF Kept
  <1>19. /\ fsrv["main"].map_size <= size \/ fsrv["main"].map_size <= MAP_SIZE
         /\ Need("main") <= size \/ MAP_SIZE <= size
         /\ conf.proto = "old" => MAP_SIZE <= size
    <2>1. CASE k > 1
      BY <1>1, <1>3, <1>4, <2>1, SMT DEF StartInv, MainInv
    <2>2. CASE k = 1
      <3>1. Now = "main" /\ size = fsrv["main"].map_size
        BY <1>2, <2>2 DEF size
      <3>2. conf.proto = "old" => size = MAP_SIZE
        BY <1>5, <3>1 DEF Answered
      <3> QED
        BY <1>3, <1>4, <1>6, <3>1, <3>2, SMT
    <2> QED
      BY <1>2, <2>1, <2>2, SMT
  <1>20. SizeInv'
    <2>1. Bound("main")'
      BY <1>1, <1>2, <1>3, <1>4, <1>9, <1>12, <1>19, SMT DEF Bound
    <2>2. (fsrv["main"].use_shmem => conf.shmem \/ "main" \in died)'
      <3>1. CASE k > 1
        BY <1>1, <1>7, <1>9, <3>1 DEF Settled
      <3>2. CASE k = 1
        BY <1>1, <1>2, <1>5, <1>9, <3>2 DEF Answered
      <3> QED
        BY <1>2, <3>1, <3>2, SMT
    <2>3. Bound(Now)'
      <3>1. CASE Now \in {"main", "cmplog"}
        <4>1. fsrv'[Now].map_size = map_size'
          BY <1>1, <1>9, <3>1 DEF size
        <4> QED
          BY <1>1, <1>4, <1>11, <4>1, SMT DEF Bound
      <3>2. CASE Now \notin {"main", "cmplog"}
        <4>1. fsrv'[Now].map_size = fsrv["main"].map_size /\ Need(Now)' = Need(Now) /\ Now' = Now
          BY <1>2, <1>9, <1>11, <1>12, <3>2
        <4>2. fsrv["main"].map_size <= size \/ Need(Now) <= size
          BY <1>3, <1>4, <1>6, <1>19, SMT
        <4> QED
          BY <1>1, <4>1, <4>2 DEF Bound
      <3> QED
        BY <3>1, <3>2
    <2>4. Known(Now)'
      <3>1. CASE Now \in {"main", "cmplog"}
        <4>1. died = {} /\ conf.proto = "new" => Need(Now) <= fsrv[Now].map_size
          BY <1>4, <1>5, SMT DEF Answered
        <4>2. fsrv'[Now] = fsrv[Now] /\ Need(Now)' = Need(Now) /\ Now' = Now
          BY <1>2, <1>9, <1>11, <1>12, <3>1
        <4>3. Kept(Now)'
          BY <1>1, <4>1, <4>2 DEF Kept
        <4> QED
          BY <4>3 DEF Known
      <3>2. CASE Now \notin {"main", "cmplog"}
        BY <1>11, <3>2 DEF Known
      <3> QED
        BY <3>1, <3>2
    <2>5. (fsrv[Now].use_shmem => conf.shmem \/ Now \in died)'
      BY <1>1, <1>5, <1>9, <1>11 DEF Answered
    <2>6. (Need(Now) <= map_size \/ MAP_SIZE <= map_size)'
      <3>1. Need(Now)' = Need(Now)
        BY <1>2, <1>11, <1>12
      <3> QED
        BY <1>1, <1>4, <1>6, <3>1, SMT
    <2>7. Known("main")'
      BY <1>18 DEF Known
    <2>8. phase' # "up"
      BY <1>1
    <2> QED
      BY <1>1, <1>11, <2>1, <2>2, <2>3, <2>4, <2>5, <2>6, <2>7, <2>8 DEF SizeInv
  <1>21. OnceInv'
    <2>1. (Mistaken' <=> Mistaken) /\ Want' = Want /\ fsrv'["main"] = fsrv["main"]
      BY <1>1, <1>9 DEF Mistaken, Want
    <2> QED
      BY <1>1, <2>1 DEF StartInv, OnceInv
  <1>22. MainInv'
    <2>1. fsrv'["main"] = fsrv["main"] /\ Need("main")' = Need("main")
      BY <1>2, <1>9, <1>12
    <2> QED
      BY <1>1, <1>18, <1>19, <2>1 DEF MainInv
  <1>23. PastInv'
    <2> SUFFICES ASSUME NEW b \in Bins, Past(b)' PROVE Settled(b)'
      BY DEF PastInv
    <2>1. Before(b) /\ b # "main" /\ b # Now /\ b # "cmplog"
      BY <1>1, <1>2, <1>11, <1>12 DEF Past
    <2>2. Settled(b)
      BY <1>1, <2>1 DEF StartInv, PastInv, Past, Working, Talking
    <2>3. fsrv'[b] = fsrv[b] /\ srv'[b] = srv[b]
      BY <1>9, <1>10, <2>1
    <2> QED
      BY <1>1, <2>1, <2>2, <2>3 DEF Settled, Lives
  <1>24. RefusedForCause'
    BY <1>1 DEF RefusedForCause
  <1> QED
    BY <1>15, <1>16, <1>17, <1>20, <1>21, <1>22, <1>23, <1>24 DEF StartInv

\* The server fits: its size goes to the IJON area and the next build follows.
LEMMA FitsStep ==
  ASSUME StartInv, Fits
  PROVE  StartInv'
  <1> DEFINE ijon == Now = "main" /\ fsrv["main"].use_ijon
             rest == fsrv["main"].map_size - IjonBytes
  <1>1. /\ phase = "up" /\ (again \/ map_size >= fsrv[Now].map_size)
        /\ UNCHANGED <<conf, todo, again, map_size, shm, extras, srv, died>>
        /\ ijon /\ rest <= IjonMap =>
             /\ phase' = "fatal" /\ why' = "ijon" /\ UNCHANGED <<k, fsrv, env>>
        /\ ~(ijon /\ rest <= IjonMap) =>
             /\ phase' = IF k = Len(conf.bins) THEN "ready" ELSE "prepare"
             /\ k' = IF k = Len(conf.bins) THEN k ELSE k + 1
             /\ fsrv' = IF ijon THEN [fsrv EXCEPT !["main"].map_size = rest] ELSE fsrv
             /\ env' = IF ijon THEN [env EXCEPT !.noijon = TRUE] ELSE env
    BY DEF Fits, Now, target
  <1>2. /\ Now \in Bins /\ "main" \in Bins /\ (Now = "main" <=> k = 1)
        /\ k \in Nat /\ k >= 1 /\ k <= Len(conf.bins) /\ Len(conf.bins) \in Nat
        /\ conf.bins[1] = "main" /\ DOMAIN conf.bins = 1..Len(conf.bins)
    BY ConfFacts DEF StartInv
  <1>3. /\ map_size \in Nat /\ fsrv \in [Bins -> FsrvType] /\ srv \in [Bins -> SrvType]
        /\ env \in [size : Nat, noauto : BOOLEAN, noijon : BOOLEAN] /\ shm.size = map_size
        /\ MAP_SIZE \in Nat /\ IjonMap \in Nat /\ IjonBytes \in Nat
        /\ MAP_SIZE <= IjonMap + IjonBytes
    BY Sizes DEF StartInv, StartType
  <1>4. /\ fsrv[Now].map_size \in Nat /\ fsrv["main"].map_size \in Nat
        /\ Need("main") \in Nat /\ Need(Now) \in Nat /\ Map(Now) \in Nat /\ Need(Now) >= Map(Now)
        /\ srv[Now].map \in Nat
    BY <1>2, RecordFacts, NeedFacts DEF StartInv
  <1>5. Answered(Now)
    BY <1>1 DEF StartInv, SizeInv
  <1>6. Lives(Now) => /\ srv[Now].map = Map(Now) /\ srv[Now].size = map_size
                      /\ srv[Now].seg = shm.seg /\ srv[Now].ijon = WithIjon
    BY <1>3, <1>5 DEF Answered, Attached
  <1>7. Lives(Now) => Map(Now) <= map_size
    <2> SUFFICES ASSUME Lives(Now)
                 PROVE  Map(Now) <= map_size
      OBVIOUS
    <2>1. CASE conf.proto = "old"
      <3>1. fsrv[Now].map_size = MAP_SIZE /\ Map(Now) <= MAP_SIZE
        BY <1>2, <1>5, <2>1, NeedFacts DEF Answered, StartInv
      <3>2. MAP_SIZE <= map_size \/ Need(Now) <= map_size
        BY <1>1, <1>3, <1>5, <3>1 DEF Answered, Bound
      <3> QED
        BY <1>3, <1>4, <3>1, <3>2, SMT
    <2>2. CASE conf.proto # "old"
      <3>1. fsrv[Now].map_size = Need(Now)
        BY <1>5, <2>2 DEF Answered
      <3> QED
        BY <1>1, <1>3, <1>4, <1>5, <3>1, SMT DEF Answered, Bound
    <2> QED
      BY <2>1, <2>2
  <1>8. /\ fsrv["main"].map_size <= map_size \/ fsrv["main"].map_size <= MAP_SIZE
        /\ Need("main") <= map_size \/ MAP_SIZE <= map_size
        /\ conf.proto = "old" => MAP_SIZE <= map_size
    <2>1. CASE again \/ k > 1
      BY <1>1, <2>1 DEF StartInv, MainInv
    <2>2. CASE ~again /\ k = 1
      <3>1. Now = "main" /\ fsrv["main"].map_size <= map_size
        BY <1>1, <1>2, <1>3, <1>4, <2>2
      <3> QED
        BY <1>3, <1>4, <1>5, <3>1, SMT DEF Answered
    <2> QED
      BY <1>2, <2>1, <2>2, SMT
  <1>9. Now = "main" /\ Lives("main") =>
          /\ fsrv["main"].map_size >= Map("main") /\ fsrv["main"].map_size <= map_size
          /\ conf.proto # "old" => fsrv["main"].map_size = Need("main")
    <2> SUFFICES ASSUME Now = "main", Lives("main")
                 PROVE  /\ fsrv["main"].map_size >= Map("main") /\ fsrv["main"].map_size <= map_size
                        /\ conf.proto # "old" => fsrv["main"].map_size = Need("main")
      OBVIOUS
    <2>1. CASE conf.proto = "old"
      <3>1. fsrv["main"].map_size = MAP_SIZE /\ Map("main") <= MAP_SIZE
        BY <1>2, <1>5, <2>1, NeedFacts DEF Answered, StartInv
      <3> QED
        BY <1>3, <1>4, <1>8, <2>1, <3>1
    <2>2. CASE conf.proto # "old"
      <3>1. fsrv["main"].map_size = Need("main")
        BY <1>5, <2>2 DEF Answered
      <3> QED
        BY <1>1, <1>3, <1>4, <1>5, <3>1 DEF Answered, Bound
    <2> QED
      BY <2>1, <2>2
  <1>10. ijon => /\ ~env.noijon /\ k = 1
                 /\ WithIjon \/ (Mistaken /\ died # {})
    BY <1>1, <1>2 DEF StartInv, TodoInv, OnceInv, WithIjon
  <1>11. WithIjon => Map("main") > IjonMap + IjonBytes /\ conf.proto # "old"
    BY <1>2, NeedFacts DEF StartInv
  <1>12. CASE ijon /\ rest <= IjonMap
    <2>1. phase' = "fatal" /\ UNCHANGED <<program, fsrv, extras, died, srv>>
      BY <1>12 DEF Fits, Now, program, target
    <2>2. died # {}
      <3> SUFFICES ASSUME died = {}
                   PROVE  FALSE
        OBVIOUS
      <3>1. WithIjon /\ Lives("main")
        BY <1>5, <1>10, <1>12 DEF Answered
      <3>2. fsrv["main"].map_size > IjonMap + IjonBytes
        BY <1>3, <1>4, <1>9, <1>11, <1>12, <3>1, SMT
      <3> QED
        BY <1>3, <1>4, <1>12, <3>2, SMT
    <2>3. RefusedForCause'
      BY <2>1, <2>2 DEF RefusedForCause
    <2> QED
      BY <1>3, <2>1, <2>3, FatalStep
  <1>13. CASE ~(ijon /\ rest <= IjonMap)
    <2>1. /\ phase' = IF k = Len(conf.bins) THEN "ready" ELSE "prepare"
          /\ k' = IF k = Len(conf.bins) THEN k ELSE k + 1
          /\ fsrv' = IF ijon THEN [fsrv EXCEPT !["main"].map_size = rest] ELSE fsrv
          /\ env' = IF ijon THEN [env EXCEPT !.noijon = TRUE] ELSE env
      BY <1>1, <1>13
    <2>2. ijon => ~Mistaken /\ WithIjon /\ rest \in Nat
      <3>1. ijon => rest > IjonMap /\ rest \in Nat
        BY <1>3, <1>4, <1>13, SMT
      <3>2. ijon => ~Mistaken
        BY <1>3, <1>4, <3>1, SMT DEF Mistaken
      <3> QED
        BY <1>10, <3>1, <3>2
    <2>3. /\ fsrv' \in [Bins -> FsrvType] /\ \A b \in Bins : b # "main" => fsrv'[b] = fsrv[b]
          /\ fsrv'["main"].map_size = IF ijon THEN rest ELSE fsrv["main"].map_size
          /\ fsrv'["main"].use_shmem = fsrv["main"].use_shmem
          /\ fsrv'["main"].use_ijon = fsrv["main"].use_ijon
      <3>1. CASE ijon
        <4> DEFINE s == [fsrv["main"] EXCEPT !.map_size = rest]
        <4>1. fsrv["main"] \in FsrvType /\ rest \in Nat
          BY <1>2, <1>3, <2>2, <3>1
        <4> HIDE DEF rest
        <4>2. /\ s \in FsrvType /\ s.map_size = rest /\ s.use_shmem = fsrv["main"].use_shmem
              /\ s.use_ijon = fsrv["main"].use_ijon
          BY <4>1 DEF FsrvType
        <4>3. fsrv' = [fsrv EXCEPT !["main"] = s]
          BY <2>1, <3>1
        <4> HIDE DEF s
        <4> QED
          BY <1>2, <1>3, <3>1, <4>2, <4>3
      <3>2. CASE ~ijon
        BY <1>3, <2>1, <3>2
      <3> QED
        BY <3>1, <3>2
    <2>4. /\ env' \in [size : Nat, noauto : BOOLEAN, noijon : BOOLEAN]
          /\ env'.noauto = env.noauto /\ (ijon => env'.noijon) /\ (~ijon => env' = env)
      BY <1>3, <2>1
    <2>5. phase' \in {"ready", "prepare"} /\ ~Working' /\ ~Talking' /\ ~Asked' /\ ~Told'
      BY <2>1 DEF Working, Talking, Asked, Told
    <2>6. /\ phase' = "ready" => k = Len(conf.bins) /\ k' = k
          /\ phase' = "prepare" => k' = k + 1 /\ k + 1 <= Len(conf.bins)
      BY <1>2, <2>1, SMT
    <2>7. StartType'
      <3>1. k' \in DOMAIN conf.bins
        BY <1>2, <2>5, <2>6, SMT
      <3> QED
        BY <1>1, <2>3, <2>4, <2>5, <3>1 DEF StartInv, StartType
    <2>8. TodoInv'
      <3>1. todo = <<>> /\ (again => env.noauto)
        BY <1>1 DEF StartInv, TodoInv
      <3>2. phase' = "prepare" => k' # 1
        BY <1>2, <2>6, SMT
      <3> QED
        BY <1>1, <2>4, <2>5, <2>6, <3>1, <3>2 DEF TodoInv
    <2>9. TalkInv' /\ SizeInv'
      BY <2>5 DEF TalkInv, SizeInv
    <2>10. OnceInv'
      <3>1. extras = Want
        <4>1. k = 1 => extras = Want \/ Mistaken
          BY <1>1 DEF StartInv, OnceInv
        <4>2. k = 1 => ~Mistaken
          BY <1>2, <2>2 DEF Mistaken
        <4>3. k > 1 => extras = Want
          BY <1>1 DEF StartInv, OnceInv
        <4> QED
          BY <1>2, <4>1, <4>2, <4>3, SMT
      <3>2. Want' = Want
        BY <1>1 DEF Want
      <3>3. k' = 1 => k = 1 /\ phase' = "ready"
        BY <1>2, <2>5, <2>6, SMT
      <3>4. k = 1 /\ fsrv'["main"].use_ijon => conf.ijon
        BY <1>2, <2>2, <2>3 DEF WithIjon
      <3> QED
        BY <1>1, <2>5, <3>1, <3>2, <3>3, <3>4 DEF OnceInv
    <2>11. MainInv'
      <3>1. /\ Need("main")' \in Nat /\ Need("main")' <= Need("main")
            /\ ijon => Need("main")' + IjonBytes <= Need("main")
        <4>1. CASE ijon
          <5>1. WithIjon /\ ~WithIjon'
            BY <2>2, <2>4, <4>1 DEF WithIjon
          <5>2. /\ Map("main") = Round(conf.edges["main"]) + IjonMap + IjonBytes
                /\ Map("main")' = conf.edges["main"]
            BY <1>1, <5>1 DEF Map, MapOf
          <5>3. Need("main")' = Round(conf.edges["main"])
            BY <5>2 DEF Need
          <5>4. conf.edges["main"] \in Nat
            BY <1>2, ConfFacts DEF StartInv
          <5>5. Round(conf.edges["main"]) \in Nat /\ Need("main") >= Map("main")
            BY <1>2, <5>4, RoundedUp, NeedFacts DEF StartInv
          <5> QED
            BY <1>3, <1>4, <5>2, <5>3, <5>5, SMT
        <4>2. CASE ~ijon
          <5>1. Need("main")' = Need("main")
            BY <1>1, <2>4, <4>2 DEF Need, Map, MapOf, WithIjon
          <5> QED
            BY <1>4, <4>2, <5>1, SMT
        <4> QED
          BY <4>1, <4>2
      <3>2. fsrv'["main"].map_size \in Nat /\ fsrv'["main"].map_size <= fsrv["main"].map_size
        BY <1>3, <1>4, <2>2, <2>3, SMT
      <3>3. Kept("main")'
        <4> SUFFICES ASSUME died = {}, conf.proto = "new"
                     PROVE  Need("main")' <= fsrv'["main"].map_size
          BY <1>1 DEF Kept
        <4>1. Need("main") <= fsrv["main"].map_size
          <5>1. CASE k = 1
            <6>1. Now = "main" /\ Lives("main")
              BY <1>2, <1>5, <5>1 DEF Answered
            <6> QED
              BY <1>4, <1>9, <6>1, SMT
          <5>2. CASE k > 1
            BY <1>1, <5>2 DEF StartInv, MainInv, Kept
          <5> QED
            BY <1>2, <5>1, <5>2, SMT
        <4> QED
          BY <1>3, <1>4, <2>3, <3>1, <4>1, SMT
      <3>4. phase' = "prepare" => k' # 1
        BY <1>2, <2>6, SMT
      <3>5. /\ fsrv'["main"].map_size <= map_size \/ fsrv'["main"].map_size <= MAP_SIZE
            /\ Need("main")' <= map_size \/ MAP_SIZE <= map_size
        BY <1>3, <1>4, <1>8, <3>1, <3>2, SMT
      <3> QED
        BY <1>1, <1>8, <3>3, <3>4, <3>5 DEF MainInv
    <2>12. PastInv'
      <3> SUFFICES ASSUME NEW b \in Bins, Past(b)' PROVE Settled(b)'
        BY DEF PastInv
      <3>1. Before(b) \/ b = Now
        <4>1. phase' = "ready" => Now' = Now /\ (Before(b)' <=> Before(b))
          BY <1>1, <2>6 DEF Now, Before
        <4>2. phase' = "prepare" /\ Before(b)' => Before(b) \/ b = Now
          <5> SUFFICES ASSUME NEW i \in 1..(k' - 1), b = conf'.bins[i], k' = k + 1
                       PROVE  Before(b) \/ b = Now
            BY <2>6 DEF Before
          <5>1. i \in 1..(k - 1) \/ i = k
            BY <1>2, SMT
          <5> QED
            BY <1>1, <5>1 DEF Before, Now
        <4> QED
          BY <2>5, <4>1, <4>2 DEF Past
      <3>2. CASE b # Now
        <4>1. Settled(b)
          BY <1>1, <3>1, <3>2 DEF StartInv, PastInv, Past, Working, Talking
        <4>2. fsrv'[b] = fsrv[b]
          BY <1>2, <2>1, <2>3, <3>2
        <4> QED
          BY <1>1, <4>1, <4>2 DEF Settled, Lives
      <3>3. CASE b = Now /\ b # "main"
        <4>1. fsrv'[b] = fsrv[b]
          BY <2>3, <3>3
        <4> QED
          BY <1>1, <1>5, <1>6, <1>7, <3>3, <4>1 DEF Settled, Answered, Lives
      <3>4. CASE b = Now /\ b = "main"
        <4>1. CASE Lives("main")
          <5>1. /\ srv["main"].map <= srv["main"].size /\ srv["main"].seg = shm.seg
                /\ conf.shmem => fsrv["main"].use_shmem
                /\ fsrv["main"].use_shmem => conf.shmem \/ "main" \in died
            BY <1>5, <1>6, <1>7, <3>4, <4>1 DEF Answered
          <5>2. /\ fsrv'["main"].map_size + (IF srv["main"].ijon THEN IjonBytes ELSE 0)
                     >= srv["main"].map
                /\ fsrv'["main"].map_size <= map_size
            BY <1>3, <1>4, <1>6, <1>9, <2>2, <2>3, <3>4, <4>1, SMT
          <5> QED
            BY <1>1, <2>3, <3>4, <4>1, <5>1, <5>2 DEF Settled, Lives
        <4>2. CASE ~Lives("main")
          BY <1>1, <1>5, <3>4, <4>2 DEF Settled, Answered, Lives
        <4> QED
          BY <4>1, <4>2
      <3> QED
        BY <3>2, <3>3, <3>4
    <2>13. RefusedForCause'
      BY <2>5 DEF RefusedForCause
    <2> QED
      BY <2>7, <2>8, <2>9, <2>10, <2>11, <2>12, <2>13 DEF StartInv
  <1> QED
    BY <1>12, <1>13

\* Fuzzing starts with servers that are all settled.
LEMMA SettledIsRight == StartInv => StartedRight /\ RefusedForCause
  <1> SUFFICES ASSUME StartInv, phase = "ready", NEW i \in DOMAIN conf.bins
               PROVE  LET b == conf.bins[i] IN
                      IF ~Lives(b) THEN b \in died ELSE
                        /\ srv[b].map <= srv[b].size
                        /\ b \in {"main", "cmplog"} => srv[b].seg = shm.seg
                        /\ conf.shmem => fsrv[b].use_shmem
                        /\ fsrv[b].use_shmem => conf.shmem \/ b \in died
                        /\ b = "main" =>
                             /\ fsrv[b].map_size + (IF srv[b].ijon THEN IjonBytes ELSE 0) >= srv[b].map
                             /\ fsrv[b].map_size <= map_size /\ map_size <= shm.size
                             /\ extras = Want
    BY DEF StartInv, StartedRight, Want
  <1>1. /\ conf.bins \in Seq(Bins) /\ k = Len(conf.bins) /\ k \in Nat
        /\ DOMAIN conf.bins = 1..Len(conf.bins)
    BY ConfFacts DEF StartInv, TodoInv
  <1>2. conf.bins[i] \in Bins
    BY <1>1, SMT
  <1>3. Past(conf.bins[i])
    <2>1. i \in 1..(k - 1) \/ i = k
      BY <1>1, SMT
    <2>2. ~Working
      BY DEF Working, Talking
    <2> QED
      BY <2>1, <2>2 DEF Past, Before, Now
  <1>4. Settled(conf.bins[i])
    BY <1>2, <1>3 DEF StartInv, PastInv
  <1>5. extras = Want /\ shm.size = map_size /\ map_size \in Nat
    BY DEF StartInv, OnceInv, StartType
  <1>6. map_size <= shm.size
    BY <1>5, SMT
  <1> QED
    BY <1>4, <1>5, <1>6 DEF Settled

-----------------------------------------------------------------------------
(* The handshake                                                           *)

\* During the handshakes afl-fuzz settles nothing.
LEMMA HandshakeFrame ==
  ASSUME StartInv, Working, Working', UNCHANGED <<program, todo, fsrv>>,
         srv' \in [Bins -> SrvType], \A b \in Bins : b # Bin => srv'[b] = srv[b],
         died \subseteq died', died' \subseteq Bins, extras' \in Nat,
         Asked' => Asked, Told' => Answered(Bin)', TalkInv', OnceInv'
  PROVE  StartInv'
  <1>1. UNCHANGED <<conf, k, again, map_size, shm, env, todo, fsrv>>
    BY DEF program
  <1>2. /\ phase \notin {"prepare", "up", "ready", "fatal"} /\ Bin \in Bins
        /\ phase' \notin {"prepare", "up", "ready", "fatal"}
    BY TodoFacts DEF Working, Talking, StartInv
  <1>3. Now' = Now /\ Bin' = Bin
    BY <1>1 DEF Now, Bin
  <1>4. \A b \in Bins : Need(b)' = Need(b)
    BY <1>1 DEF Need, Map, MapOf, WithIjon
  <1>5. "main" \in Bins /\ Now \in Bins
    BY ConfFacts DEF StartInv
  <1>6. \A b \in Bins : /\ Bound(b) => Bound(b)'
                        /\ Kept(b) => Kept(b)'
                        /\ Known(b) => Known(b)'
    BY <1>1, <1>4 DEF Bound, Kept, Known
  <1>7. StartType'
    BY <1>1 DEF StartInv, StartType
  <1>8. TodoInv'
    BY <1>1, <1>2, <1>3 DEF StartInv, TodoInv
  <1>9. SizeInv'
    <2>1. Asked' => /\ fsrv'[Bin'].use_shmem => conf'.shmem \/ Bin' \in died'
                    /\ ~again' => /\ fsrv'[Bin'].map_size >= map_size'
                                  /\ fsrv'[Bin'].map_size >= DEFAULT_SHMEM_SIZE
                    /\ again' => Bound(Bin)' /\ Known(Bin)'
      BY <1>1, <1>2, <1>3, <1>6 DEF StartInv, SizeInv
    <2>2. Working' /\ todo' = <<"main", Now'>> =>
            /\ Bound(Now)' /\ Known(Now)'
            /\ (fsrv'[Now'].use_shmem => conf'.shmem \/ Now' \in died')
      BY <1>1, <1>3, <1>5, <1>6 DEF StartInv, SizeInv
    <2>3. Working' /\ again' => Need(Now)' <= map_size' \/ MAP_SIZE <= map_size'
      BY <1>1, <1>3, <1>4, <1>5 DEF StartInv, SizeInv
    <2> QED
      BY <1>2, <2>1, <2>2, <2>3 DEF SizeInv
  <1>10. MainInv'
    BY <1>1, <1>2, <1>4, <1>5, <1>6 DEF StartInv, MainInv
  <1>11. PastInv'
    <2> SUFFICES ASSUME NEW b \in Bins, Past(b)' PROVE Settled(b)'
      BY DEF PastInv
    <2>1. Past(b) /\ b # Bin
      BY <1>1, <1>2, <1>3 DEF Past, Before
    <2>2. Settled(b) /\ srv'[b] = srv[b]
      BY <1>2, <2>1 DEF StartInv, PastInv
    <2> QED
      BY <1>1, <2>2 DEF Settled, Lives
  <1>12. RefusedForCause'
    BY <1>2 DEF RefusedForCause
  <1> QED
    BY <1>7, <1>8, <1>9, <1>10, <1>11, <1>12 DEF StartInv

-----------------------------------------------------------------------------
(* The target                                                              *)

\* A step of the server in hand leaves what afl-fuzz knows as it is.
LEMMA TargetFrame ==
  ASSUME StartInv, Talking, UNCHANGED program, UNCHANGED handshake,
         srv' \in [Bins -> SrvType], \A b \in Bins : b # Bin => srv'[b] = srv[b],
         died \subseteq died', died' \subseteq Bins, Told => Answered(Bin)', TalkInv'
  PROVE  StartInv'
  <1>1. UNCHANGED <<conf, k, again, phase, todo, fsrv, extras>>
    BY DEF program, handshake
  <1>2. /\ (Working' <=> Working) /\ (Asked' <=> Asked) /\ (Told' <=> Told)
        /\ (Mistaken' <=> Mistaken) /\ Want' = Want /\ (died # {} => died' # {})
    BY <1>1 DEF Working, Talking, Asked, Told, Mistaken, Want
  <1>3. OnceInv'
    BY <1>1, <1>2 DEF StartInv, OnceInv
  <1>4. Working /\ extras' \in Nat
    BY <1>1 DEF Working, StartInv, StartType
  <1> QED
    BY <1>1, <1>2, <1>3, <1>4, HandshakeFrame

\* A server in the middle of its handshake and what it has said.
LEMMA LiveServer ==
  ASSUME StartInv, todo # <<>>, phase \notin {"fatal", "up", "start"}, Lives(Bin)
  PROVE  /\ Talking /\ Bin \in Bins /\ Said(srv[Bin].pc) /\ Attached(Bin)
         /\ srv[Bin].pc \in Points \ {"none", "dead", "error"}
         /\ phase = "hello" => to = <<>>
         /\ phase # "hello" => conf.proto = "new"
  <1>1. Talking
    BY DEF StartInv, StartType, TodoInv, Working
  <1>2. Working /\ Bin \in Bins
    BY <1>1, TodoFacts DEF StartInv, Working
  <1>3. /\ phase = "hello" => to = <<>>
        /\ phase # "hello" => conf.proto = "new"
        /\ Attached(Bin)
        /\ Lost \/ \E p \in Points : Said(p) /\ Where(p)
    BY <1>1 DEF StartInv, TalkInv
  <1>4. \E p \in Points : Said(p) /\ Where(p)
    BY <1>3 DEF Lost
  <1>5. PICK p \in Points : Said(p) /\ srv[Bin].pc = p /\ p # "error"
    BY <1>4 DEF Where
  <1>6. p \notin {"none", "dead"}
    BY <1>5 DEF Lives
  <1> QED
    BY <1>1, <1>2, <1>3, <1>5, <1>6

\* Its program counter.
LEMMA GotoFacts ==
  ASSUME StartType, Bin \in Bins, NEW p \in Points, Goto(p)
  PROVE  /\ srv' \in [Bins -> SrvType] /\ \A b \in Bins : b # Bin => srv'[b] = srv[b]
         /\ srv'[Bin].pc = p /\ srv'[Bin].seg = srv[Bin].seg /\ srv'[Bin].size = srv[Bin].size
         /\ srv'[Bin].map = srv[Bin].map /\ srv'[Bin].ijon = srv[Bin].ijon
  <1>1. srv \in [Bins -> SrvType] /\ srv[Bin] \in SrvType
    BY DEF StartType
  <1> DEFINE s == [srv[Bin] EXCEPT !.pc = p]
  <1>2. /\ s \in SrvType /\ s.pc = p /\ s.seg = srv[Bin].seg /\ s.size = srv[Bin].size
        /\ s.map = srv[Bin].map /\ s.ijon = srv[Bin].ijon
    BY <1>1 DEF SrvType
  <1>3. srv' = [srv EXCEPT ![Bin] = s]
    BY DEF Goto
  <1> HIDE DEF s
  <1>4. srv'[Bin] = s /\ srv' \in [Bins -> SrvType] /\ \A b \in Bins : b # Bin => srv'[b] = srv[b]
    BY <1>1, <1>2, <1>3
  <1> QED
    BY <1>2, <1>4

\* A step after which the server lives on.
LEMMA GotoStep ==
  ASSUME StartInv, todo # <<>>, phase \notin {"fatal", "up", "start"}, Lives(Bin),
         srv[Bin].pc # "exec", NEW p \in Points \ {"none", "dead", "error", "exec"}, Goto(p),
         UNCHANGED program, UNCHANGED handshake, died' = died,
         phase = "hello" => to' = <<>>, Said(p)'
  PROVE  StartInv'
  <1>1. UNCHANGED <<conf, k, again, map_size, shm, env, phase, todo, fsrv, extras, opts>>
    BY DEF program, handshake
  <1>2. /\ Talking /\ Bin \in Bins /\ Attached(Bin)
        /\ phase # "hello" => conf.proto = "new"
    BY LiveServer
  <1>3. Bin' = Bin /\ (Talking' <=> Talking)
    BY <1>1 DEF Bin, Talking
  <1>4. /\ srv' \in [Bins -> SrvType] /\ \A b \in Bins : b # Bin => srv'[b] = srv[b]
        /\ srv'[Bin].pc = p /\ srv'[Bin].seg = srv[Bin].seg /\ srv'[Bin].size = srv[Bin].size
        /\ srv'[Bin].map = srv[Bin].map /\ srv'[Bin].ijon = srv[Bin].ijon
    BY <1>2, GotoFacts DEF StartInv
  <1>5. Lives(Bin)' /\ srv'[Bin'].pc # "exec"
    BY <1>3, <1>4 DEF Lives
  <1>6. WithIjon' = WithIjon /\ Map(Bin)' = Map(Bin) /\ Need(Bin)' = Need(Bin)
    BY <1>1, <1>3 DEF Need, Map, MapOf, WithIjon
  <1>7. Attached(Bin)'
    BY <1>1, <1>2, <1>3, <1>4, <1>6 DEF Attached
  <1>8. Where(p)'
    BY <1>3, <1>4, <1>5 DEF Where
  <1>9. TalkInv'
    BY <1>1, <1>2, <1>3, <1>7, <1>8 DEF TalkInv
  <1>10. Told => Answered(Bin)'
    <2> SUFFICES ASSUME Told PROVE Answered(Bin)'
      OBVIOUS
    <2>1. Answered(Bin)
      BY DEF StartInv, SizeInv
    <2>2. Bound(Bin) => Bound(Bin)'
      BY <1>1, <1>3, <1>6 DEF Bound
    <2> QED
      BY <1>1, <1>3, <1>5, <1>6, <1>7, <2>1, <2>2 DEF Answered
  <1> QED
    BY <1>2, <1>4, <1>9, <1>10, TargetFrame DEF StartInv, StartType

\* The server attaches the map, or cannot; it has said nothing before.
LEMMA AttachStep ==
  ASSUME StartInv, Attach
  PROVE  StartInv'
  <1>1. /\ todo # <<>> /\ phase \notin {"fatal", "up", "start"} /\ srv[Bin].pc = "exec"
        /\ srv' = [srv EXCEPT ![Bin] = [pc |-> "hello", seg |-> shm.seg, size |-> shm.size,
                                        map |-> Map(Bin), ijon |-> WithIjon]]
        /\ UNCHANGED program /\ UNCHANGED handshake /\ died' = died /\ to' = to /\ from' = from
    BY DEF Attach, Server, Map, WithIjon
  <1>2. Talking /\ Bin \in Bins /\ Said("exec") /\ (phase = "hello" => to = <<>>)
    BY <1>1, LiveServer DEF Lives
  <1>3. phase = "hello" /\ from = <<>>
    BY <1>2 DEF Talking, Said, InHello, InOptions, InSize, InDict, InWelcome
  <1>4. UNCHANGED <<conf, k, again, map_size, shm, env, phase, todo, fsrv, extras, opts>>
    BY <1>1 DEF program, handshake
  <1>5. Bin' = Bin /\ WithIjon' = WithIjon /\ Map(Bin)' = Map(Bin) /\ Talking'
    BY <1>2, <1>4 DEF Bin, Map, MapOf, WithIjon, Talking
  <1> DEFINE s == [pc |-> "hello", seg |-> shm.seg, size |-> shm.size,
                   map |-> Map(Bin), ijon |-> WithIjon]
  <1>6. s \in SrvType
    <2>1. Map(Bin) \in Nat /\ WithIjon \in BOOLEAN
      BY <1>2, NeedFacts DEF StartInv, WithIjon
    <2>2. shm.seg \in Nat /\ shm.size \in Nat
      BY DEF StartInv, StartType
    <2> QED
      BY <2>1, <2>2 DEF SrvType, Points
  <1>7. /\ s.pc = "hello" /\ s.seg = shm.seg /\ s.size = shm.size /\ s.map = Map(Bin)
        /\ s.ijon = WithIjon
    OBVIOUS
  <1>8. srv' = [srv EXCEPT ![Bin] = s]
    BY <1>1
  <1> HIDE DEF s
  <1>9. /\ srv' \in [Bins -> SrvType] /\ \A b \in Bins : b # Bin => srv'[b] = srv[b]
        /\ srv'[Bin] = s
    BY <1>2, <1>6, <1>8 DEF StartInv, StartType
  <1>10. Lives(Bin)' /\ Attached(Bin)'
    BY <1>4, <1>5, <1>7, <1>9 DEF Lives, Attached
  <1>11. Said("hello")' /\ Where("hello")'
    BY <1>1, <1>3, <1>4, <1>5, <1>7, <1>9, <1>10 DEF Said, InHello, Where
  <1>12. TalkInv'
    BY <1>1, <1>2, <1>3, <1>4, <1>10, <1>11 DEF TalkInv, Points
  <1>13. ~Told
    BY <1>3 DEF Told
  <1> QED
    BY <1>1, <1>2, <1>9, <1>12, <1>13, TargetFrame DEF StartInv, StartType

\* The server cannot attach the map: it says so, and is gone.
LEMMA AttachFailsStep ==
  ASSUME StartInv, AttachFails
  PROVE  StartInv'
  <1>1. /\ todo # <<>> /\ phase \notin {"fatal", "up", "start"} /\ srv[Bin].pc = "exec"
        /\ Goto("dead") /\ from' = Append(from, "error")
        /\ UNCHANGED program /\ UNCHANGED handshake /\ died' = died /\ to' = to
    BY DEF AttachFails, Server, Send
  <1>2. Talking /\ Bin \in Bins /\ Said("exec") /\ (phase = "hello" => to = <<>>)
    BY <1>1, LiveServer DEF Lives
  <1>3. phase = "hello" /\ from = <<>>
    BY <1>2 DEF Talking, Said, InHello, InOptions, InSize, InDict, InWelcome
  <1>4. UNCHANGED <<conf, k, again, map_size, shm, env, phase, todo, fsrv, extras, opts>>
    BY <1>1 DEF program, handshake
  <1>5. Bin' = Bin
    BY <1>4 DEF Bin
  <1>6. /\ srv' \in [Bins -> SrvType] /\ \A b \in Bins : b # Bin => srv'[b] = srv[b]
        /\ srv'[Bin].pc = "dead"
    BY <1>1, <1>2, GotoFacts DEF StartInv, Points
  <1>7. ~Lives(Bin)' /\ from' = <<"error">>
    BY <1>1, <1>3, <1>5, <1>6, Writes DEF Lives
  <1>8. Attached(Bin)' /\ Said("error")' /\ Where("error")'
    BY <1>3, <1>4, <1>7 DEF Attached, Said, InHello, Where
  <1>9. TalkInv'
    BY <1>1, <1>2, <1>3, <1>4, <1>8 DEF TalkInv, Points
  <1>10. ~Told
    BY <1>3 DEF Told
  <1> QED
    BY <1>1, <1>2, <1>6, <1>9, <1>10, TargetFrame DEF StartInv, StartType

\* The server takes up the protocol it was built with, and is answered.
LEMMA SendHelloStep ==
  ASSUME StartInv, SendHello
  PROVE  StartInv'
  <1>1. /\ todo # <<>> /\ phase \notin {"fatal", "up", "start"} /\ srv[Bin].pc = "hello"
        /\ UNCHANGED program /\ UNCHANGED handshake /\ died' = died /\ to' = to
    BY DEF SendHello, Server, Send
  <1>2. Lives(Bin) /\ Talking /\ Said("hello") /\ (phase = "hello" => to = <<>>)
    BY <1>1, LiveServer DEF Lives
  <1>3. phase = "hello" /\ from = <<>>
    BY <1>2 DEF Talking, Said, InHello, InOptions, InSize, InDict, InWelcome
  <1>4. UNCHANGED <<conf, phase>>
    BY <1>1 DEF program, handshake
  <1>5. CASE conf.proto = "new" /\ Goto("reply") /\ Send("hello")
    <2>1. from' = <<"hello">>
      BY <1>3, <1>5, Writes DEF Send
    <2>2. Said("reply")'
      BY <1>3, <1>4, <1>5, <2>1 DEF Said, InHello
    <2> QED
      BY <1>1, <1>2, <1>5, <2>2, GotoStep DEF Points
  <1>6. CASE conf.proto = "old" /\ Goto("loop") /\ Send("old")
    <2>1. from' = <<"old">>
      BY <1>3, <1>6, Writes DEF Send
    <2>2. Said("loop")'
      BY <1>3, <1>4, <1>6, <2>1 DEF Said, InHello
    <2> QED
      BY <1>1, <1>2, <1>6, <2>2, GotoStep DEF Points
  <1>7. CASE conf.proto = "unsupported" /\ Goto("reply") /\ Send("unsupported")
    <2>1. from' = <<"unsupported">>
      BY <1>3, <1>7, Writes DEF Send
    <2>2. Said("reply")'
      BY <1>3, <1>4, <1>7, <2>1 DEF Said, InHello
    <2> QED
      BY <1>1, <1>2, <1>7, <2>2, GotoStep DEF Points
  <1> QED
    BY <1>5, <1>6, <1>7 DEF SendHello

\* The server reads the answer to its hello.
LEMMA GetReplyStep ==
  ASSUME StartInv, GetReply
  PROVE  StartInv'
  <1>1. /\ todo # <<>> /\ phase \notin {"fatal", "up", "start"} /\ srv[Bin].pc = "reply"
        /\ to # <<>> /\ Goto("options") /\ from' = from
        /\ UNCHANGED program /\ UNCHANGED handshake /\ died' = died
    BY DEF GetReply, Server
  <1>2. Lives(Bin) /\ Talking /\ Said("reply") /\ (phase = "hello" => to = <<>>)
    BY <1>1, LiveServer DEF Lives
  <1>3. phase = "options" /\ from = <<>>
    BY <1>1, <1>2 DEF Talking, Said, InOptions, InSize, InDict, InWelcome
  <1>4. phase' = phase
    BY <1>1 DEF handshake
  <1>5. Said("options")'
    BY <1>1, <1>3, <1>4 DEF Said, InOptions
  <1> QED
    BY <1>1, <1>2, <1>3, <1>5, GotoStep DEF Points

\* The server sends on without waiting for afl-fuzz, which may be behind.
LEMMA SendOptionsStep ==
  ASSUME StartInv, SendOptions
  PROVE  StartInv'
  <1>1. /\ todo # <<>> /\ phase \notin {"fatal", "up", "start"} /\ srv[Bin].pc = "options"
        /\ Goto("size") /\ UNCHANGED program /\ UNCHANGED handshake /\ died' = died /\ to' = to
    BY DEF SendOptions, Server, Send
  <1>2. Lives(Bin) /\ Talking /\ Said("options") /\ Attached(Bin)
    BY <1>1, LiveServer DEF Lives
  <1>3. phase = "options" /\ from = <<>>
    BY <1>2 DEF Talking, Said, InHello, InOptions, InSize, InDict, InWelcome
  <1>4. srv[Bin].ijon = WithIjon
    BY <1>1, <1>2 DEF Attached
  <1>5. from' = Append(from, Offer)
    BY <1>4 DEF SendOptions, Send, Offer
  <1>6. from' = <<Offer>>
    BY <1>3, <1>5, Writes
  <1>7. UNCHANGED <<conf, env, phase, todo>>
    BY <1>1 DEF program, handshake
  <1>8. Offer' = Offer
    BY <1>7 DEF Offer, WithIjon
  <1>9. Said("size")'
    BY <1>3, <1>6, <1>7, <1>8 DEF Said, InOptions
  <1> QED
    BY <1>1, <1>2, <1>3, <1>9, GotoStep DEF Points

\* The size of its map is that of the build, whatever map it is in.
LEMMA SendSizeStep ==
  ASSUME StartInv, SendSize
  PROVE  StartInv'
  <1>1. /\ todo # <<>> /\ phase \notin {"fatal", "up", "start"} /\ srv[Bin].pc = "size"
        /\ (conf.dict => Goto("dict")) /\ (~conf.dict => Goto("welcome"))
        /\ from' = Append(from, srv[Bin].map)
        /\ UNCHANGED program /\ UNCHANGED handshake /\ died' = died /\ to' = to
    BY DEF SendSize, Server, Send
  <1>2. Lives(Bin) /\ Talking /\ Said("size") /\ Attached(Bin)
    BY <1>1, LiveServer DEF Lives
  <1>3. srv[Bin].map = Map(Bin)
    BY <1>1, <1>2 DEF Attached
  <1>4. UNCHANGED <<conf, env, phase, todo, opts>>
    BY <1>1 DEF program, handshake
  <1>5. Offer' = Offer /\ Map(Bin)' = Map(Bin)
    BY <1>4 DEF Offer, WithIjon, Map, MapOf, Bin
  <1>6. \/ phase = "options" /\ from = <<Offer>>
        \/ phase = "size" /\ from = <<>> /\ opts = Offer
    BY <1>2 DEF Talking, Said, InHello, InOptions, InSize, InDict, InWelcome
  <1>7. (conf.dict => Said("dict")') /\ (~conf.dict => Said("welcome")')
    <2>1. CASE phase = "options" /\ from = <<Offer>>
      <3>1. from' = <<Offer, Map(Bin)>>
        BY <1>1, <1>3, <2>1, Writes
      <3>2. phase' = "options" /\ conf' = conf /\ from' = <<Offer', Map(Bin)'>>
        BY <1>4, <1>5, <2>1, <3>1
      <3> QED
        BY <3>2 DEF Said, InOptions
    <2>2. CASE phase = "size" /\ from = <<>> /\ opts = Offer
      <3>1. from' = <<Map(Bin)>>
        BY <1>1, <1>3, <2>2, Writes
      <3>2. phase' = "size" /\ conf' = conf /\ opts' = Offer' /\ from' = <<Map(Bin)'>>
        BY <1>4, <1>5, <2>2, <3>1
      <3> QED
        BY <3>2 DEF Said, InSize
    <2> QED
      BY <1>6, <2>1, <2>2
  <1>8. phase # "hello"
    BY <1>6
  <1>9. CASE conf.dict
    BY <1>1, <1>2, <1>7, <1>8, <1>9, GotoStep DEF Points
  <1>10. CASE ~conf.dict
    BY <1>1, <1>2, <1>7, <1>8, <1>10, GotoStep DEF Points
  <1> QED
    BY <1>9, <1>10

\* The dictionary, when it has offered one.
LEMMA SendDictStep ==
  ASSUME StartInv, SendDict
  PROVE  StartInv'
  <1>1. /\ todo # <<>> /\ phase \notin {"fatal", "up", "start"} /\ srv[Bin].pc = "dict"
        /\ Goto("welcome") /\ from' = Append(from, "dictionary")
        /\ UNCHANGED program /\ UNCHANGED handshake /\ died' = died /\ to' = to
    BY DEF SendDict, Server, Send
  <1>2. Lives(Bin) /\ Talking /\ Said("dict")
    BY <1>1, LiveServer DEF Lives
  <1>3. UNCHANGED <<conf, env, phase, todo, opts>>
    BY <1>1 DEF program, handshake
  <1>4. Offer' = Offer /\ Map(Bin)' = Map(Bin)
    BY <1>3 DEF Offer, WithIjon, Map, MapOf, Bin
  <1>5. /\ conf.dict
        /\ \/ phase = "options" /\ from = <<Offer, Map(Bin)>>
           \/ phase = "size" /\ from = <<Map(Bin)>> /\ opts = Offer
           \/ phase = "dict" /\ from = <<>> /\ opts = Offer
    BY <1>2 DEF Talking, Said, InHello, InOptions, InSize, InDict, InWelcome
  <1>6. Said("welcome")'
    <2>1. CASE phase = "options" /\ from = <<Offer, Map(Bin)>>
      <3>1. from' = <<Offer, Map(Bin), "dictionary">>
        BY <1>1, <2>1, Writes
      <3> QED
        BY <1>3, <1>4, <1>5, <2>1, <3>1 DEF Said, InOptions
    <2>2. CASE phase = "size" /\ from = <<Map(Bin)>> /\ opts = Offer
      <3>1. from' = <<Map(Bin), "dictionary">>
        BY <1>1, <2>2, Writes
      <3> QED
        BY <1>3, <1>4, <1>5, <2>2, <3>1 DEF Said, InSize
    <2>3. CASE phase = "dict" /\ from = <<>> /\ opts = Offer
      <3>1. from' = <<"dictionary">>
        BY <1>1, <2>3, Writes
      <3> QED
        BY <1>3, <1>4, <1>5, <2>3, <3>1 DEF Said, InDict
    <2> QED
      BY <1>5, <2>1, <2>2, <2>3
  <1>7. phase # "hello"
    BY <1>5
  <1> QED
    BY <1>1, <1>2, <1>6, <1>7, GotoStep DEF Points

\* The final message.
LEMMA SendWelcomeStep ==
  ASSUME StartInv, SendWelcome
  PROVE  StartInv'
  <1>1. /\ todo # <<>> /\ phase \notin {"fatal", "up", "start"} /\ srv[Bin].pc = "welcome"
        /\ Goto("loop") /\ from' = Append(from, "hello")
        /\ UNCHANGED program /\ UNCHANGED handshake /\ died' = died /\ to' = to
    BY DEF SendWelcome, Server, Send
  <1>2. Lives(Bin) /\ Talking /\ Said("welcome")
    BY <1>1, LiveServer DEF Lives
  <1>3. UNCHANGED <<conf, env, phase, todo, opts>>
    BY <1>1 DEF program, handshake
  <1>4. Offer' = Offer /\ Map(Bin)' = Map(Bin)
    BY <1>3 DEF Offer, WithIjon, Map, MapOf, Bin
  <1>5. phase # "hello"
    BY <1>2 DEF Said, InHello
  <1>6. CASE phase = "options"
    <2>0. \/ ~conf.dict /\ from = <<Offer, Map(Bin)>>
          \/ conf.dict /\ from = <<Offer, Map(Bin), "dictionary">>
      BY <1>2, <1>6 DEF Said, InOptions
    <2>1. \/ ~conf.dict /\ from' = <<Offer, Map(Bin), "hello">>
          \/ conf.dict /\ from' = <<Offer, Map(Bin), "dictionary", "hello">>
      BY <1>1, <2>0, Writes
    <2>2. Said("loop")'
      BY <1>3, <1>4, <1>6, <2>1 DEF Said, InOptions
    <2> QED
      BY <1>1, <1>2, <1>5, <2>2, GotoStep DEF Points
  <1>7. CASE phase = "size"
    <2>0. /\ opts = Offer
          /\ \/ ~conf.dict /\ from = <<Map(Bin)>>
             \/ conf.dict /\ from = <<Map(Bin), "dictionary">>
      BY <1>2, <1>7 DEF Said, InSize
    <2>1. /\ opts = Offer
          /\ \/ ~conf.dict /\ from' = <<Map(Bin), "hello">>
             \/ conf.dict /\ from' = <<Map(Bin), "dictionary", "hello">>
      BY <1>1, <2>0, Writes
    <2>2. Said("loop")'
      BY <1>3, <1>4, <1>7, <2>1 DEF Said, InSize
    <2> QED
      BY <1>1, <1>2, <1>5, <2>2, GotoStep DEF Points
  <1>8. CASE phase = "dict"
    <2>0. opts = Offer /\ conf.dict /\ from = <<"dictionary">>
      BY <1>2, <1>8 DEF Said, InDict
    <2>1. opts = Offer /\ conf.dict /\ from' = <<"dictionary", "hello">>
      BY <1>1, <2>0, Writes
    <2>2. Said("loop")'
      BY <1>3, <1>4, <1>8, <2>1 DEF Said, InDict
    <2> QED
      BY <1>1, <1>2, <1>5, <2>2, GotoStep DEF Points
  <1>9. CASE phase = "welcome"
    <2>1. from' = <<"hello">>
      BY <1>1, <1>2, <1>9, Writes DEF Said, InWelcome
    <2>2. Said("loop")'
      BY <1>3, <1>9, <2>1 DEF Said, InWelcome
    <2> QED
      BY <1>1, <1>2, <1>5, <2>2, GotoStep DEF Points
  <1> QED
    BY <1>2, <1>5, <1>6, <1>7, <1>8, <1>9 DEF Talking

\* Death leaves what was said in the pipe.
LEMMA DieStep ==
  ASSUME StartInv, Die
  PROVE  StartInv'
  <1>1. /\ todo # <<>> /\ phase \notin {"fatal", "up", "start"} /\ Lives(Bin)
        /\ Goto("dead") /\ died' = died \cup {Bin}
        /\ UNCHANGED program /\ UNCHANGED handshake /\ to' = to /\ from' = from
    BY DEF Die
  <1>2. /\ Talking /\ Bin \in Bins /\ Said(srv[Bin].pc) /\ srv[Bin].pc \in Points
        /\ phase = "hello" => to = <<>>
        /\ phase # "hello" => conf.proto = "new"
    BY <1>1, LiveServer
  <1>3. UNCHANGED <<conf, k, again, map_size, shm, env, phase, todo, fsrv, extras, opts>>
    BY <1>1 DEF program, handshake
  <1>4. /\ srv' \in [Bins -> SrvType] /\ \A b \in Bins : b # Bin => srv'[b] = srv[b]
        /\ srv'[Bin].pc = "dead"
    BY <1>1, <1>2, GotoFacts DEF StartInv, Points
  <1>5. Bin' = Bin /\ (Talking' <=> Talking)
    BY <1>3 DEF Bin, Talking
  <1>6. ~Lives(Bin)' /\ Bin' \in died'
    BY <1>1, <1>4, <1>5 DEF Lives
  <1>7. WithIjon' = WithIjon /\ Offer' = Offer /\ Map(Bin)' = Map(Bin) /\ Need(Bin)' = Need(Bin)
    BY <1>3, <1>5 DEF Need, Map, MapOf, WithIjon, Offer
  <1>8. \A p : Said(p) => Said(p)'
    BY <1>1, <1>3, <1>7, SMT DEF Said, InHello, InOptions, InSize, InDict, InWelcome
  <1>9. Attached(Bin)' /\ \A p \in Points : Where(p)'
    BY <1>6 DEF Attached, Where
  <1>10. TalkInv'
    <2>1. \E p \in Points : Said(p)' /\ Where(p)'
      BY <1>2, <1>8, <1>9
    <2> QED
      BY <1>1, <1>2, <1>3, <1>9, <2>1 DEF TalkInv
  <1>11. Told => Answered(Bin)'
    <2> SUFFICES ASSUME Told PROVE Answered(Bin)'
      OBVIOUS
    <2>1. Answered(Bin)
      BY DEF StartInv, SizeInv
    <2>2. Bound(Bin) => Bound(Bin)'
      BY <1>3, <1>5, <1>7 DEF Bound
    <2> QED
      BY <1>3, <1>5, <1>6, <1>7, <2>1, <2>2 DEF Answered
  <1> QED
    BY <1>1, <1>2, <1>4, <1>10, <1>11, TargetFrame DEF StartInv, StartType

-----------------------------------------------------------------------------
(* afl_fsrv_start                                                          *)

\* The server is spawned in a new conversation.
LEMMA SpawnStep ==
  ASSUME StartInv, Spawn
  PROVE  StartInv'
  <1>1. /\ phase = "start" /\ phase' = "hello" /\ to' = <<>> /\ from' = <<>>
        /\ srv' = [srv EXCEPT ![Bin] = [NoSrv EXCEPT !.pc = "exec"]]
        /\ UNCHANGED <<program, todo, fsrv, extras, died>>
    BY DEF Spawn
  <1>2. Working /\ Working' /\ Asked /\ ~Told'
    BY <1>1 DEF Working, Talking, Asked, Told
  <1>3. Bin \in Bins
    BY <1>2, TodoFacts DEF StartInv
  <1>4. /\ srv' \in [Bins -> SrvType] /\ \A b \in Bins : b # Bin => srv'[b] = srv[b]
        /\ srv'[Bin].pc = "exec"
    <2> DEFINE s == [NoSrv EXCEPT !.pc = "exec"]
    <2>1. s \in SrvType /\ s.pc = "exec"
      BY DEF NoSrv, SrvType, Points
    <2>2. srv' = [srv EXCEPT ![Bin] = s]
      BY <1>1
    <2> HIDE DEF s
    <2> QED
      BY <1>3, <2>1, <2>2 DEF StartInv, StartType
  <1>5. Bin' = Bin /\ Lives(Bin)'
    BY <1>1, <1>4 DEF Bin, Lives
  <1>6. Attached(Bin)' /\ Said("exec")' /\ Where("exec")'
    BY <1>1, <1>4, <1>5 DEF Attached, Said, InHello, Where
  <1>7. TalkInv'
    BY <1>1, <1>6 DEF TalkInv, Points
  <1>8. /\ (Mistaken' <=> Mistaken) /\ Want' = Want /\ (Asked' <=> Asked)
        /\ UNCHANGED <<conf, k, again>>
    BY <1>1 DEF Mistaken, Want, Asked, program
  <1>9. OnceInv'
    BY <1>1, <1>2, <1>8 DEF StartInv, OnceInv
  <1>10. extras' \in Nat /\ died' \subseteq Bins /\ died \subseteq died'
    BY <1>1 DEF StartInv, StartType
  <1> QED
    BY <1>1, <1>2, <1>4, <1>7, <1>9, <1>10, HandshakeFrame

\* afl-fuzz reads on: the server, alive or dead, stays where it is.
LEMMA ReadOn ==
  ASSUME StartInv, Talking, UNCHANGED <<program, todo, srv, died>>, Talking', phase' # "hello",
         conf.proto = "new", NEW p \in Points, Where(p), Said(p)'
  PROVE  TalkInv'
  <1>1. UNCHANGED <<conf, env, shm>> /\ Bin' = Bin
    BY DEF program, Bin
  <1>2. Attached(Bin)
    BY DEF StartInv, TalkInv
  <1>3. Attached(Bin)' /\ Where(p)'
    BY <1>1, <1>2 DEF Attached, Where, Lives, Map, MapOf, WithIjon
  <1> QED
    BY <1>1, <1>3 DEF TalkInv

\* The server in hand is up; if it is the target that was started anew, it is done
\* with, and otherwise main() takes over.
LEMMA DoneStep ==
  ASSUME StartInv, Working, Done, UNCHANGED <<program, extras, srv, died>>,
         fsrv' \in [Bins -> FsrvType], \A b \in Bins : b # Bin => fsrv'[b] = fsrv[b],
         Len(todo) = 1 => Answered(Now)', Len(todo) # 1 => Settled("main")',
         OnceInv', MainInv'
  PROVE  StartInv'
  <1>1. UNCHANGED <<conf, k, again, map_size, shm, env, extras, srv, died>>
    BY DEF program
  <1>2. /\ Bin \in Bins /\ Now' = Now /\ Now \in Bins /\ ~Before(Now)
        /\ \A b \in Bins : Before(b)' <=> Before(b)
    BY <1>1, TodoFacts, ConfFacts DEF StartInv, Now, Before
  <1>3. \A b \in Bins : Need(b)' = Need(b)
    BY <1>1 DEF Need, Map, MapOf, WithIjon
  <1>4. CASE Len(todo) = 1
    <2>1. phase' = "up" /\ todo' = <<>> /\ Bin = Now
      BY <1>4, TodoFacts DEF Done, StartInv
    <2>2. ~Working' /\ ~Asked' /\ ~Told' /\ ~Talking'
      BY <2>1 DEF Working, Asked, Told, Talking
    <2>3. StartType'
      BY <1>1, <2>1 DEF StartInv, StartType
    <2>4. TodoInv'
      BY <1>1, <2>1, <2>2 DEF StartInv, TodoInv, Working, Talking
    <2>5. TalkInv' /\ SizeInv'
      BY <1>2, <1>4, <2>1, <2>2 DEF TalkInv, SizeInv
    <2>6. PastInv'
      <3> SUFFICES ASSUME NEW b \in Bins, Past(b)' PROVE Settled(b)'
        BY DEF PastInv
      <3>1. Before(b) /\ b # Bin
        BY <1>2, <2>1 DEF Past
      <3>2. Settled(b)
        BY <3>1 DEF StartInv, PastInv, Past, Working, Talking
      <3> QED
        BY <1>1, <3>1, <3>2 DEF Settled, Lives
    <2>7. RefusedForCause'
      BY <2>1 DEF RefusedForCause
    <2> QED
      BY <2>3, <2>4, <2>5, <2>6, <2>7 DEF StartInv
  <1>5. CASE Len(todo) # 1
    <2>1. /\ phase' = "start" /\ todo' = <<Now>> /\ Bin = "main" /\ again /\ k > 1 /\ Now # "main"
          /\ todo = <<"main", Now>>
      BY <1>5, TodoFacts DEF Done, StartInv
    <2>2. Working' /\ Asked' /\ ~Told' /\ ~Talking' /\ Bin' = Now
      BY <2>1, SMT DEF Working, Asked, Told, Talking, Bin
    <2>3. StartType'
      BY <1>1, <2>1, <2>2 DEF StartInv, StartType
    <2>4. TodoInv'
      BY <1>1, <1>2, <2>1, <2>2, SMT DEF StartInv, TodoInv
    <2>5. Bound(Now) /\ Known(Now) /\ (fsrv[Now].use_shmem => conf.shmem \/ Now \in died)
      BY <2>1 DEF StartInv, SizeInv
    <2>6. fsrv'[Now] = fsrv[Now]
      BY <1>2, <2>1
    <2>7. Bound(Now)' /\ Known(Now)' /\ (fsrv'[Now].use_shmem => conf.shmem \/ Now \in died)
      BY <1>1, <1>2, <1>3, <2>5, <2>6 DEF Bound, Known, Kept
    <2>8. todo' # <<"main", Now>>
      BY <2>1
    <2>9. Need(Now)' <= map_size' \/ MAP_SIZE <= map_size'
      BY <1>1, <1>2, <1>3, <2>1 DEF StartInv, SizeInv
    <2>10. TalkInv' /\ SizeInv'
      BY <1>1, <1>2, <2>1, <2>2, <2>7, <2>8, <2>9 DEF TalkInv, SizeInv
    <2>11. PastInv'
      <3> SUFFICES ASSUME NEW b \in Bins, Past(b)', b # "main" PROVE Settled(b)'
        BY <1>5 DEF PastInv
      <3>1. Before(b) /\ b # Bin
        BY <1>2, <2>1, <2>2 DEF Past
      <3>2. Settled(b)
        BY <3>1 DEF StartInv, PastInv, Past, Working, Talking
      <3> QED
        BY <1>1, <3>1, <3>2 DEF Settled, Lives
    <2>12. RefusedForCause'
      BY <2>1 DEF RefusedForCause
    <2> QED
      BY <2>3, <2>4, <2>10, <2>11, <2>12 DEF StartInv
  <1> QED
    BY <1>4, <1>5

\* A pipe with one message.
LEMMA OneMessage == \A m : Head(<<m>>) = m /\ Tail(<<m>>) = <<>>
  BY SMT

\* What afl-fuzz can hear first, and from whom.
LEMMA HelloHeard ==
  ASSUME StartInv, phase = "hello"
  PROVE  /\ Working /\ Talking /\ Asked /\ Bin \in Bins /\ Attached(Bin)
         /\ \/ from = <<>> /\ (Lives(Bin) \/ Bin \in died)
            \/ from = <<"hello">> /\ conf.proto = "new" /\ Where("reply")
            \/ from = <<"unsupported">>
            \/ from = <<"old">> /\ conf.proto = "old" /\ Where("loop")
            \/ from = <<"error">>
  <1>1. Talking /\ Working /\ Asked
    BY DEF Talking, Working, Asked
  <1>2. Bin \in Bins
    BY <1>1, TodoFacts DEF StartInv
  <1>3. Attached(Bin) /\ (Lost \/ \E p \in Points : Said(p) /\ Where(p))
    BY <1>1 DEF StartInv, TalkInv
  <1>4. PICK p \in Points : InHello(p) /\ Where(p)
    BY <1>3 DEF Lost, Said
  <1>5. p \in {"exec", "hello"} => Lives(Bin) \/ Bin \in died
    BY <1>4 DEF Where
  <1> QED
    BY <1>1, <1>2, <1>3, <1>4, <1>5 DEF InHello

\* Hello: it is answered; or the server is an old one; or it cannot be used.
LEMMA HelloStep ==
  ASSUME StartInv, Hello
  PROVE  StartInv'
  <1>1. /\ phase = "hello" /\ from # <<>> /\ from' = Tail(from)
        /\ UNCHANGED program /\ srv' = srv /\ died' = died
    BY DEF Hello
  <1>2. /\ Working /\ Talking /\ Asked /\ Bin \in Bins /\ Attached(Bin)
        /\ \/ from = <<"hello">> /\ conf.proto = "new" /\ Where("reply")
           \/ from = <<"unsupported">>
           \/ from = <<"old">> /\ conf.proto = "old" /\ Where("loop")
           \/ from = <<"error">>
    BY <1>1, HelloHeard
  <1>3. UNCHANGED <<conf, k, again, map_size, shm, env>>
    BY <1>1 DEF program
  <1>4. /\ srv' \in [Bins -> SrvType] /\ died' \subseteq Bins /\ extras \in Nat
        /\ fsrv \in [Bins -> FsrvType]
    BY <1>1 DEF StartInv, StartType
  <1>5. CASE /\ Head(from) = "hello" /\ phase' = "options"
             /\ UNCHANGED <<todo, fsrv, extras>>
    <2>1. from' = <<>> /\ conf.proto = "new" /\ Where("reply")
      <3>1. from = <<"hello">> /\ conf.proto = "new" /\ Where("reply")
        <4>1. from \in {<<"unsupported">>, <<"old">>, <<"error">>} => Head(from) # "hello"
          BY SMT
        <4> QED
          BY <1>2, <1>5, <4>1
      <3> QED
        BY <1>1, <3>1, OneMessage
    <2>2. Working' /\ Talking' /\ Asked' /\ ~Told'
      BY <1>5 DEF Working, Talking, Asked, Told
    <2>3. Said("reply")'
      BY <1>5, <2>1 DEF Said, InOptions
    <2>4. TalkInv'
      BY <1>1, <1>2, <1>5, <2>1, <2>2, <2>3, ReadOn DEF Points
    <2>5. (Mistaken' <=> Mistaken) /\ Want' = Want
      BY <1>3, <1>5 DEF Mistaken, Want
    <2>6. OnceInv'
      BY <1>1, <1>2, <1>3, <1>5, <2>2, <2>5 DEF StartInv, OnceInv
    <2> QED
      BY <1>1, <1>2, <1>4, <1>5, <2>2, <2>4, <2>6, HandshakeFrame
  <1>6. CASE /\ Head(from) = "old" /\ Done /\ fsrv' = [fsrv EXCEPT ![Bin].map_size = MAP_SIZE]
             /\ extras' = extras
    <2>1. conf.proto = "old" /\ Where("loop")
      BY <1>2, <1>6, SMT
    <2>2. /\ fsrv' \in [Bins -> FsrvType] /\ \A b \in Bins : b # Bin => fsrv'[b] = fsrv[b]
          /\ fsrv'[Bin].map_size = MAP_SIZE /\ fsrv'[Bin].use_shmem = fsrv[Bin].use_shmem
          /\ fsrv'[Bin].use_ijon = fsrv[Bin].use_ijon
      <3> DEFINE s == [fsrv[Bin] EXCEPT !.map_size = MAP_SIZE]
      <3>1. fsrv[Bin] \in FsrvType /\ MAP_SIZE \in Nat
        BY <1>2, <1>4, Sizes
      <3>2. /\ s \in FsrvType /\ s.map_size = MAP_SIZE /\ s.use_shmem = fsrv[Bin].use_shmem
            /\ s.use_ijon = fsrv[Bin].use_ijon
        BY <3>1 DEF FsrvType
      <3>3. fsrv' = [fsrv EXCEPT ![Bin] = s]
        BY <1>6
      <3> HIDE DEF s
      <3>4. fsrv'[Bin] = s /\ fsrv' \in [Bins -> FsrvType]
            /\ \A b \in Bins : b # Bin => fsrv'[b] = fsrv[b]
        BY <1>2, <1>4, <3>2, <3>3
      <3> QED
        BY <3>2, <3>4
    <2>3. Now' = Now /\ Now \in Bins /\ "main" \in Bins /\ (Now = "main" <=> k = 1)
      BY <1>3, ConfFacts DEF Now, StartInv
    <2>4. \A b \in Bins : Need(b)' = Need(b) /\ Map(b)' = Map(b)
      BY <1>3 DEF Need, Map, MapOf, WithIjon
    <2>5. (again \/ k > 1) => MAP_SIZE <= map_size
      BY <1>1, <2>1 DEF StartInv, MainInv
    <2>6. ~conf.shmem /\ ~WithIjon /\ MAP_SIZE \in Nat /\ map_size \in Nat
      BY <2>1, ConfFacts, Sizes DEF StartInv, StartType, WithIjon
    <2>7. fsrv[Bin].use_shmem => conf.shmem \/ Bin \in died
      BY <1>2 DEF StartInv, SizeInv
    <2>8. IF Lives(Bin) THEN srv[Bin].pc = "loop" ELSE Bin \in died
      BY <2>1 DEF Where
    <2>9. Len(todo) = 1 => Answered(Now)'
      <3> SUFFICES ASSUME Len(todo) = 1 PROVE Answered(Now)'
        OBVIOUS
      <3>1. Now = Bin
        BY <1>2, TodoFacts DEF StartInv
      <3>2. again => Bound(Now)'
        BY <1>3, <2>2, <2>3, <2>5, <3>1 DEF Bound
      <3>3. Lives(Now)' <=> Lives(Bin)
        BY <1>1, <2>3, <3>1 DEF Lives
      <3>4. Attached(Now)'
        BY <1>1, <1>2, <1>3, <2>3, <2>4, <3>1 DEF Attached, Lives, WithIjon
      <3> QED
        BY <1>1, <1>3, <2>1, <2>2, <2>3, <2>6, <2>7, <2>8, <3>1, <3>2, <3>3, <3>4, SMT DEF Answered
    <2>10. Len(todo) # 1 => Settled("main")'
      <3> SUFFICES ASSUME Len(todo) # 1 PROVE Settled("main")'
        OBVIOUS
      <3>1. Bin = "main" /\ again /\ MAP_SIZE <= map_size
        BY <1>2, <2>5, TodoFacts DEF StartInv
      <3>2. Map("main") \in Nat /\ Map("main") <= MAP_SIZE
        BY <2>1, <2>3, NeedFacts DEF StartInv
      <3>3. CASE Lives("main")
        <4>1. /\ srv["main"].seg = shm.seg /\ srv["main"].size = map_size /\ ~srv["main"].ijon
              /\ srv["main"].map = Map("main")
          BY <1>2, <2>6, <2>8, <3>1, <3>3 DEF Attached, StartInv, StartType
        <4>2. srv["main"].map <= srv["main"].size /\ MAP_SIZE <= map_size /\ MAP_SIZE >= srv["main"].map
          BY <2>6, <3>1, <3>2, <4>1, SMT
        <4>3. fsrv'["main"].map_size + (IF srv["main"].ijon THEN IjonBytes ELSE 0) >= srv["main"].map
          BY <2>2, <2>6, <3>1, <4>1, <4>2, SMT
        <4>4. fsrv'["main"].map_size = MAP_SIZE /\ fsrv'["main"].use_shmem = fsrv["main"].use_shmem
          BY <2>2, <3>1
        <4> QED
          BY <1>1, <1>3, <2>6, <2>7, <3>1, <3>3, <4>1, <4>2, <4>3, <4>4 DEF Settled, Lives
      <3>4. CASE ~Lives("main")
        BY <1>1, <2>8, <3>1, <3>4 DEF Settled, Lives
      <3> QED
        BY <3>3, <3>4
    <2>11. Mistaken => Mistaken'
      BY <2>2, <2>3, <2>6, SMT DEF Mistaken
    <2>12. OnceInv'
      <3>1. Want' = Want /\ Want = 0
        BY <1>3, <2>1 DEF Want
      <3>2. phase' \in {"up", "start"}
        BY <1>6 DEF Done
      <3>3. k = 1 => Bin = "main" /\ Len(todo) = 1
        BY <1>2, TodoFacts DEF StartInv
      <3>4. k = 1 => extras = Want \/ Mistaken
        BY <1>2, <3>1 DEF StartInv, OnceInv
      <3>5. k > 1 => extras = Want
        BY <1>1 DEF StartInv, OnceInv
      <3>6. k = 1 /\ fsrv["main"].use_ijon => conf.ijon \/ (Mistaken /\ died # {})
        BY DEF StartInv, OnceInv
      <3>7. k = 1 => phase' = "up" /\ fsrv'["main"].use_ijon = fsrv["main"].use_ijon
        BY <1>6, <2>2, <3>3 DEF Done
      <3> QED
        BY <1>1, <1>3, <1>6, <2>11, <3>1, <3>2, <3>4, <3>5, <3>6, <3>7 DEF OnceInv, Asked
    <2>13. MainInv'
      <3>1. phase' # "prepare"
        BY <1>6 DEF Done
      <3>2. (again \/ k > 1) => /\ fsrv["main"].map_size <= map_size \/ fsrv["main"].map_size <= MAP_SIZE
                                /\ Need("main") <= map_size \/ MAP_SIZE <= map_size
        BY <1>1 DEF StartInv, MainInv
      <3>3. fsrv'["main"].map_size = fsrv["main"].map_size \/ fsrv'["main"].map_size = MAP_SIZE
        BY <2>2, <2>3
      <3>4. Kept("main")'
        BY <1>3, <2>1 DEF Kept
      <3> QED
        BY <1>3, <2>3, <2>4, <2>5, <2>6, <3>1, <3>2, <3>3, <3>4 DEF MainInv
    <2> QED
      BY <1>1, <1>2, <1>6, <2>2, <2>9, <2>10, <2>12, <2>13, DoneStep
  <1>7. CASE Fatal(Head(from)) /\ Head(from) \in {"unsupported", "error", "old"}
    <2>1. RefusedForCause'
      BY <1>7 DEF Fatal, RefusedForCause
    <2> QED
      BY <1>1, <1>4, <1>7, <2>1, FatalStep DEF Fatal
  <1> QED
    BY <1>5, <1>6, <1>7 DEF Hello

\* No hello comes, and afl-fuzz gives up.
LEMMA NoHelloStep ==
  ASSUME StartInv, NoHello
  PROVE  StartInv'
  <1>1. /\ phase = "hello" /\ from = <<>> /\ Fatal(IF Lives(Bin) THEN "timeout" ELSE "died")
        /\ Goto("dead") /\ UNCHANGED program /\ died' = died
    BY DEF NoHello, Goto
  <1>2. Bin \in Bins /\ (Lives(Bin) \/ Bin \in died)
    BY <1>1, HelloHeard
  <1>3. RefusedForCause'
    BY <1>1, <1>2 DEF Fatal, RefusedForCause
  <1>4. srv' \in [Bins -> SrvType]
    BY <1>1, <1>2, GotoFacts DEF StartInv, Points
  <1> QED
    BY <1>1, <1>3, <1>4, FatalStep DEF Fatal

\* The options word, or what is taken for it.
LEMMA OptionsStep ==
  ASSUME StartInv, Options
  PROVE  StartInv'
  <1>1. /\ phase = "options" /\ (from # <<>> \/ Empty) /\ phase' = "size"
        /\ opts' = IF Empty THEN {"shmem", "ijon"} ELSE Head(from)
        /\ from' = IF Empty THEN from ELSE Tail(from)
        /\ UNCHANGED <<program, todo, fsrv, extras, srv, died>>
    BY DEF Options
  <1>2. Talking /\ Working /\ Asked /\ Talking' /\ Working' /\ Asked' /\ ~Told'
    BY <1>1 DEF Talking, Working, Asked, Told
  <1>3. /\ Attached(Bin) /\ conf.proto = "new"
        /\ Lost \/ \E p \in Points : Said(p) /\ Where(p)
    BY <1>1, <1>2 DEF StartInv, TalkInv
  <1>4. PICK p \in Points : InOptions(p) /\ Where(p)
    BY <1>1, <1>3 DEF Lost, Said
  <1>5. UNCHANGED <<conf, k, again, map_size, shm, env, todo>> /\ Bin' = Bin
    BY <1>1 DEF program, Bin
  <1>6. Offer' = Offer /\ Map(Bin)' = Map(Bin) /\ WithIjon' = WithIjon
    BY <1>5 DEF Offer, WithIjon, Map, MapOf
  <1>7. TalkInv'
    <2>1. CASE from = <<>>
      <3>1. Empty
        BY <1>1, <2>1
      <3>2. from' = <<>> /\ opts' = {"shmem", "ijon"}
        BY <1>1, <2>1, <3>1
      <3>3. ~Lives(Bin) /\ Bin \in died
        BY <1>4, <2>1, <3>1 DEF InOptions, Where, Empty
      <3>4. Lost'
        BY <1>1, <1>5, <3>2, <3>3 DEF Lost, Lives
      <3>5. Attached(Bin)'
        BY <1>1, <1>5, <3>3 DEF Attached, Lives
      <3> QED
        BY <1>1, <1>3, <1>5, <3>4, <3>5 DEF TalkInv
    <2>2. CASE from # <<>>
      <3>1. opts' = Head(from) /\ from' = Tail(from)
        BY <1>1, <2>2 DEF Empty
      <3>2. opts' = Offer /\ InSize(p)'
        <4>1. CASE p = "size" /\ from = <<Offer>>
          <5>1. opts' = Offer /\ from' = <<>>
            BY <3>1, <4>1, SMT
          <5> QED
            BY <4>1, <5>1 DEF InSize
        <4>2. CASE /\ from = <<Offer, Map(Bin)>>
                   /\ (p = "dict" /\ conf.dict) \/ (p = "welcome" /\ ~conf.dict)
          <5>1. opts' = Offer /\ from' = <<Map(Bin)'>>
            BY <1>6, <3>1, <4>2, SMT
          <5> QED
            BY <1>5, <4>2, <5>1 DEF InSize
        <4>3. CASE p = "welcome" /\ conf.dict /\ from = <<Offer, Map(Bin), "dictionary">>
          <5>1. opts' = Offer /\ from' = <<Map(Bin)', "dictionary">>
            BY <1>6, <3>1, <4>3, SMT
          <5> QED
            BY <1>5, <4>3, <5>1 DEF InSize
        <4>4. CASE p = "loop" /\ ~conf.dict /\ from = <<Offer, Map(Bin), "hello">>
          <5>1. opts' = Offer /\ from' = <<Map(Bin)', "hello">>
            BY <1>6, <3>1, <4>4, SMT
          <5> QED
            BY <1>5, <4>4, <5>1 DEF InSize
        <4>5. CASE p = "loop" /\ conf.dict /\ from = <<Offer, Map(Bin), "dictionary", "hello">>
          <5>1. opts' = Offer /\ from' = <<Map(Bin)', "dictionary", "hello">>
            BY <1>6, <3>1, <4>5, SMT
          <5> QED
            BY <1>5, <4>5, <5>1 DEF InSize
        <4> QED
          BY <1>4, <2>2, <4>1, <4>2, <4>3, <4>4, <4>5 DEF InOptions
      <3>3. Said(p)'
        BY <1>1, <1>6, <3>2 DEF Said
      <3> QED
        BY <1>1, <1>2, <1>3, <1>4, <3>3, ReadOn
    <2> QED
      BY <2>1, <2>2
  <1>8. OnceInv'
    <2>1. (Mistaken' <=> Mistaken) /\ Want' = Want
      BY <1>1, <1>5 DEF Mistaken, Want
    <2> QED
      BY <1>1, <1>2, <1>5, <2>1 DEF StartInv, OnceInv
  <1>9. /\ srv' \in [Bins -> SrvType] /\ died' \subseteq Bins /\ died \subseteq died'
        /\ extras' \in Nat
    BY <1>1 DEF StartInv, StartType
  <1> QED
    BY <1>1, <1>2, <1>7, <1>8, <1>9, HandshakeFrame

\* What afl-fuzz takes for the size is stored, with the options.
LEMMA AfterSizeFacts ==
  ASSUME StartInv, Bin \in Bins, NEW n \in Nat, AfterSize(n)
  PROVE  /\ fsrv' \in [Bins -> FsrvType] /\ \A b \in Bins : b # Bin => fsrv'[b] = fsrv[b]
         /\ fsrv'[Bin].map_size = n
         /\ fsrv'[Bin].use_shmem <=> fsrv[Bin].use_shmem \/ "shmem" \in opts
         /\ fsrv'[Bin].use_ijon <=> fsrv[Bin].use_ijon \/ "ijon" \in opts
  <1>1. fsrv \in [Bins -> FsrvType] /\ fsrv[Bin] \in FsrvType
    BY DEF StartInv, StartType
  <1> DEFINE sh == fsrv[Bin].use_shmem \/ "shmem" \in opts
             ij == fsrv[Bin].use_ijon \/ "ijon" \in opts
             s  == [[[fsrv[Bin] EXCEPT !.map_size = n] EXCEPT !.use_shmem = sh] EXCEPT !.use_ijon = ij]
  <1>2. sh \in BOOLEAN /\ ij \in BOOLEAN
    OBVIOUS
  <1>3. fsrv' = [fsrv EXCEPT ![Bin] = s]
    BY <1>1 DEF AfterSize, FsrvType
  <1> HIDE DEF sh, ij
  <1>4. s \in FsrvType /\ s.map_size = n /\ s.use_shmem = sh /\ s.use_ijon = ij
    BY <1>1, <1>2 DEF FsrvType
  <1> HIDE DEF s
  <1>5. fsrv'[Bin] = s /\ fsrv' \in [Bins -> FsrvType] /\ \A b \in Bins : b # Bin => fsrv'[b] = fsrv[b]
    BY <1>1, <1>3, <1>4
  <1> QED
    BY <1>4, <1>5 DEF sh, ij

\* Once the size is stored, what is left to show is that it is right.
LEMMA AfterSizeStep ==
  ASSUME StartInv, phase = "size", NEW n \in Nat, AfterSize(n),
         UNCHANGED <<program, srv, died>>,
         n <= fsrv[Bin].map_size \/ n = MAP_SIZE,
         Answered(Bin)', TalkInv', OnceInv', Bin = "main" => Kept("main")'
  PROVE  StartInv'
  <1>1. UNCHANGED <<conf, k, again, map_size, shm, env, todo, extras, srv, died>>
    BY DEF program, AfterSize
  <1>2. Working /\ Asked /\ phase' \in {"dict", "welcome"}
    BY DEF Working, Talking, Asked, AfterSize
  <1>3. Working' /\ Told' /\ ~Asked'
    BY <1>2 DEF Working, Talking, Told, Asked
  <1>4. /\ Bin \in Bins /\ Bin' = Bin /\ Now' = Now /\ Now \in Bins /\ "main" \in Bins
        /\ todo = <<"main", Now>> => Bin = "main" /\ Now # "main"
    <2>1. /\ Bin \in Bins /\ Bin' = Bin /\ Now' = Now /\ Now \in Bins /\ "main" \in Bins
      BY <1>1, <1>2, TodoFacts, ConfFacts DEF StartInv, Bin, Now
    <2>2. todo = <<"main", Now>> => Len(todo) = 2
      BY SMT
    <2>3. Len(todo) # 1 => Bin = "main" /\ Now # "main"
      BY <1>2, TodoFacts DEF StartInv
    <2> QED
      BY <2>1, <2>2, <2>3, SMT
  <1>5. /\ fsrv' \in [Bins -> FsrvType] /\ \A b \in Bins : b # Bin => fsrv'[b] = fsrv[b]
        /\ fsrv'[Bin].map_size = n
    BY <1>4, AfterSizeFacts
  <1>6. \A b \in Bins : Need(b)' = Need(b)
    BY <1>1 DEF Need, Map, MapOf, WithIjon
  <1>7. StartType'
    BY <1>1, <1>3, <1>5 DEF StartInv, StartType
  <1>8. TodoInv'
    BY <1>1, <1>2, <1>3, <1>4 DEF StartInv, TodoInv
  <1>9. SizeInv'
    <2>1. Working' /\ todo' = <<"main", Now'>> =>
            /\ Bound(Now)' /\ Known(Now)'
            /\ (fsrv'[Now'].use_shmem => conf'.shmem \/ Now' \in died')
      <3> SUFFICES ASSUME todo = <<"main", Now>>
                   PROVE  /\ Bound(Now)' /\ Known(Now)'
                          /\ (fsrv'[Now].use_shmem => conf.shmem \/ Now \in died)
        BY <1>1, <1>4
      <3>1. fsrv'[Now] = fsrv[Now]
        BY <1>4, <1>5
      <3>2. Bound(Now) /\ Known(Now) /\ (fsrv[Now].use_shmem => conf.shmem \/ Now \in died)
        BY <1>2 DEF StartInv, SizeInv
      <3> QED
        BY <1>1, <1>4, <1>6, <3>1, <3>2 DEF Bound, Known, Kept
    <2>2. Working' /\ again' => Need(Now)' <= map_size' \/ MAP_SIZE <= map_size'
      BY <1>1, <1>2, <1>4, <1>6 DEF StartInv, SizeInv
    <2> QED
      BY <1>2, <1>3, <2>1, <2>2 DEF SizeInv
  <1>10. MainInv'
    <2>1. again \/ k > 1 =>
            /\ fsrv["main"].map_size <= map_size \/ fsrv["main"].map_size <= MAP_SIZE
            /\ Need("main") <= map_size \/ MAP_SIZE <= map_size
            /\ conf.proto = "old" => MAP_SIZE <= map_size
      BY DEF StartInv, MainInv
    <2>2. fsrv["main"].map_size \in Nat /\ map_size \in Nat /\ MAP_SIZE \in Nat
      BY <1>4, RecordFacts, Sizes DEF StartInv, StartType
    <2>3. again \/ k > 1 =>
            fsrv'["main"].map_size <= map_size \/ fsrv'["main"].map_size <= MAP_SIZE
      BY <1>4, <1>5, <2>1, <2>2, SMT
    <2>4. k > 1 => Kept("main")'
      <3>1. CASE Bin = "main"
        BY <3>1
      <3>2. CASE Bin # "main"
        <4>1. fsrv'["main"] = fsrv["main"] /\ (k > 1 => Kept("main"))
          BY <1>4, <1>5, <3>2 DEF StartInv, MainInv
        <4> QED
          BY <1>1, <1>4, <1>6, <4>1 DEF Kept
      <3> QED
        BY <3>1, <3>2
    <2> QED
      BY <1>1, <1>2, <1>4, <1>6, <2>1, <2>3, <2>4 DEF MainInv
  <1>11. PastInv'
    <2> SUFFICES ASSUME NEW b \in Bins, Past(b)' PROVE Settled(b)'
      BY DEF PastInv
    <2>1. Past(b) /\ b # Bin
      BY <1>1, <1>2, <1>3, <1>4 DEF Past, Before
    <2>2. Settled(b) /\ fsrv'[b] = fsrv[b]
      BY <1>5, <2>1 DEF StartInv, PastInv
    <2> QED
      BY <1>1, <2>2 DEF Settled, Lives
  <1>12. RefusedForCause'
    BY <1>2 DEF RefusedForCause
  <1> QED
    BY <1>3, <1>4, <1>7, <1>8, <1>9, <1>10, <1>11, <1>12 DEF StartInv

\* A server that is started anew fits, or its map is an old one.
LEMMA AgainRoom ==
  ASSUME StartInv, Working, again
  PROVE  Need(Bin) <= map_size \/ MAP_SIZE <= map_size
  <1>1. Bin = Now \/ Bin = "main"
    BY TodoFacts DEF StartInv
  <1>2. Need("main") <= map_size \/ MAP_SIZE <= map_size
    BY DEF StartInv, MainInv, Working, Talking
  <1>3. Need(Now) <= map_size \/ MAP_SIZE <= map_size
    BY DEF StartInv, SizeInv
  <1> QED
    BY <1>1, <1>2, <1>3

\* What a size that was taken for the server's leaves to be shown.
LEMMA SizeTaken ==
  ASSUME StartInv, phase = "size", NEW n \in Nat, AfterSize(n),
         UNCHANGED <<program, srv, died>>, TalkInv', conf.proto = "new",
         n <= fsrv[Bin].map_size \/ n = MAP_SIZE,
         n = Need(Bin) \/ (n >= MAP_SIZE /\ ~Lives(Bin) /\ Bin \in died),
         Lives(Bin) => srv[Bin].pc # "exec" /\ Attached(Bin),
         ~Lives(Bin) => Bin \in died,
         opts = Offer \/ (~Lives(Bin) /\ Bin \in died /\ opts = {"shmem", "ijon"} /\ n = MAP_SIZE)
  PROVE  StartInv'
  <1>1. /\ UNCHANGED <<conf, k, again, map_size, shm, env, todo, extras, srv, died>>
        /\ phase' = IF "dict" \in opts THEN "dict" ELSE "welcome"
    BY DEF program, AfterSize
  <1>2. Working /\ Asked
    BY DEF Talking, Working, Asked
  <1>3. /\ Bin \in Bins /\ "main" \in Bins /\ map_size \in Nat /\ Bin' = Bin
        /\ k = 1 => Bin = "main"
    BY <1>1, <1>2, TodoFacts, ConfFacts DEF StartInv, StartType, Bin
  <1>4. fsrv[Bin].map_size \in Nat /\ Need(Bin) \in Nat /\ MAP_SIZE \in Nat
    BY <1>3, RecordFacts, NeedFacts, Sizes DEF StartInv
  <1>5. /\ fsrv'[Bin].map_size = n
        /\ fsrv'[Bin].use_shmem <=> fsrv[Bin].use_shmem \/ "shmem" \in opts
        /\ fsrv'[Bin].use_ijon <=> fsrv[Bin].use_ijon \/ "ijon" \in opts
    BY <1>3, AfterSizeFacts
  <1>6. Need(Bin)' = Need(Bin) /\ Map(Bin)' = Map(Bin) /\ WithIjon' = WithIjon
    BY <1>1, <1>3 DEF Need, Map, MapOf, WithIjon
  <1>7. /\ "shmem" \in Offer <=> conf.shmem
        /\ "dict" \in Offer <=> conf.dict
        /\ "ijon" \in Offer <=> WithIjon
    BY DEF Offer
  <1>8. (Lives(Bin)' <=> Lives(Bin)) /\ srv'[Bin].pc = srv[Bin].pc
    BY <1>1, <1>3 DEF Lives
  <1>9. Answered(Bin)'
    <2>1. again => Bound(Bin)'
      <3> SUFFICES ASSUME again PROVE Bound(Bin)'
        OBVIOUS
      <3>1. Need(Bin) <= map_size \/ MAP_SIZE <= map_size
        BY <1>2, AgainRoom
      <3>2. fsrv[Bin].map_size <= map_size \/ Need(Bin) <= map_size
        BY <1>2 DEF StartInv, SizeInv, Bound
      <3>3. n <= map_size \/ Need(Bin) <= map_size
        BY <1>3, <1>4, <3>1, <3>2, SMT
      <3> QED
        BY <1>1, <1>3, <1>5, <1>6, <3>3 DEF Bound
    <2>2. fsrv'[Bin].use_shmem => conf.shmem \/ Bin \in died
      <3>1. fsrv[Bin].use_shmem => conf.shmem \/ Bin \in died
        BY <1>2 DEF StartInv, SizeInv
      <3> QED
        BY <1>5, <1>7, <3>1
    <2>3. Lives(Bin) => Attached(Bin)'
      BY <1>1, <1>3, <1>6, <1>8 DEF Attached
    <2>4. Lives(Bin) => n = Need(Bin) /\ (conf.shmem => fsrv'[Bin].use_shmem)
      BY <1>5, <1>7
    <2> QED
      BY <1>1, <1>3, <1>4, <1>5, <1>6, <1>8, <2>1, <2>2, <2>3, <2>4 DEF Answered
  <1>10. k = 1 => (Mistaken => Mistaken')
    <2> SUFFICES ASSUME k = 1, Mistaken PROVE Mistaken'
      OBVIOUS
    <2>1. Bin = "main" /\ fsrv["main"].use_ijon /\ fsrv["main"].map_size <= MAP_SIZE
      BY <1>3 DEF Mistaken
    <2>2. fsrv'["main"].use_ijon /\ n <= MAP_SIZE /\ fsrv'["main"].map_size = n
      BY <1>4, <1>5, <2>1, SMT
    <2> QED
      BY <2>2 DEF Mistaken
  <1>11. OnceInv'
    <2>1. /\ Want' = Want /\ phase' \in {"dict", "welcome"} /\ ~Asked'
          /\ conf.dict \/ Want = 0
      BY <1>1 DEF Want, Asked
    <2>2. k > 1 => extras = Want
      BY DEF StartInv, OnceInv
    <2>3. k = 1 /\ again => extras = Want \/ Mistaken
      BY <1>2 DEF StartInv, OnceInv
    <2>4. k = 1 /\ ~again => extras = 0
      BY <1>2 DEF StartInv, OnceInv
    <2>5. CASE opts = Offer
      <3>1. phase' = "welcome" => Want = 0
        BY <1>1, <1>7, <2>1, <2>5
      <3>2. k = 1 /\ fsrv'["main"].use_ijon => conf.ijon \/ (Mistaken' /\ died # {})
        <4> SUFFICES ASSUME k = 1, fsrv'["main"].use_ijon, ~conf.ijon PROVE Mistaken' /\ died # {}
          OBVIOUS
        <4>1. fsrv["main"].use_ijon
          BY <1>3, <1>5, <1>7, <2>5 DEF WithIjon
        <4> QED
          BY <1>10, <4>1 DEF StartInv, OnceInv
      <3> QED
        BY <1>1, <1>10, <2>1, <2>2, <2>3, <2>4, <3>1, <3>2 DEF OnceInv
    <2>6. CASE ~Lives(Bin) /\ Bin \in died /\ opts = {"shmem", "ijon"} /\ n = MAP_SIZE
      <3>1. phase' = "welcome"
        BY <1>1, <2>6
      <3>2. k = 1 => Mistaken' /\ died # {}
        BY <1>3, <1>4, <1>5, <2>6, SMT DEF Mistaken
      <3> QED
        BY <1>1, <2>1, <2>2, <3>1, <3>2 DEF OnceInv
    <2> QED
      BY <2>5, <2>6
  <1>12. Bin = "main" => Kept("main")'
    <2> SUFFICES ASSUME Bin = "main", died = {} PROVE Need("main")' <= fsrv'["main"].map_size
      BY <1>1 DEF Kept
    <2>1. n = Need("main")
      OBVIOUS
    <2> QED
      BY <1>3, <1>4, <1>5, <1>6, <2>1, SMT
  <1> QED
    BY <1>9, <1>11, <1>12, AfterSizeStep

\* The size: that of a server that sent it, that of one taken for an old one, or
\* anything when the server died before.
LEMMA ReadSizeStep ==
  ASSUME StartInv, ReadSize
  PROVE  StartInv'
  <1>1. phase = "size" /\ UNCHANGED program /\ srv' = srv /\ died' = died
    BY DEF ReadSize
  <1>2. Talking /\ Working /\ Asked
    BY <1>1 DEF Talking, Working, Asked
  <1>3. /\ Attached(Bin) /\ conf.proto = "new"
        /\ Lost \/ \E p \in Points : Said(p) /\ Where(p)
    BY <1>1, <1>2 DEF StartInv, TalkInv
  <1>4. UNCHANGED <<conf, k, again, map_size, shm, env, srv, died>>
    BY <1>1 DEF program
  <1>5. Bin \in Bins /\ map_size \in Nat /\ srv \in [Bins -> SrvType] /\ died \subseteq Bins
    BY <1>2, TodoFacts DEF StartInv, StartType
  <1>6. fsrv[Bin].map_size \in Nat /\ Need(Bin) \in Nat /\ Map(Bin) \in Nat
    BY <1>5, RecordFacts, NeedFacts DEF StartInv
  <1>7. Offer' = Offer
    BY <1>4 DEF Offer, WithIjon
  <1>8. CASE Lost
    <2>1. ~Lives(Bin) /\ Bin \in died /\ from = <<>> /\ opts = {"shmem", "ijon"}
      BY <1>1, <1>8 DEF Lost
    <2>2. AfterSize(MAP_SIZE) /\ from' = from
      BY <2>1 DEF ReadSize
    <2>3. phase' = "welcome" /\ todo' = todo
      BY <2>1, <2>2 DEF AfterSize
    <2>4. Bin' = Bin /\ ~Lives(Bin)' /\ Bin' \in died'
      BY <1>4, <2>1, <2>3 DEF Bin, Lives
    <2>5. TalkInv'
      BY <1>3, <1>4, <2>1, <2>2, <2>3, <2>4 DEF TalkInv, Lost, Attached
    <2>6. MAP_SIZE \in Nat
      BY Sizes
    <2> QED
      BY <1>1, <1>3, <2>1, <2>2, <2>5, <2>6, SizeTaken, SMT
  <1>9. CASE ~Lost
    <2>1. PICK p \in Points : InSize(p) /\ Where(p) /\ opts = Offer
      BY <1>1, <1>3, <1>9 DEF Said
    <2>2. p \notin {"error", "exec"} /\ "mapsize" \in opts
      BY <2>1 DEF InSize, Offer
    <2>3. Lives(Bin) => srv[Bin].pc # "exec"
      BY <2>1, <2>2 DEF Where
    <2>4. ~Lives(Bin) => Bin \in died
      BY <2>1, <2>2 DEF Where
    <2>5. CASE from # <<>> /\ Size(Head(from)) /\ from' = Tail(from)
      <3>1. Head(from) = Map(Bin)
        BY <2>1, <2>5, SMT DEF InSize
      <3>2. Size(Map(Bin)) /\ Round(Map(Bin)) = Need(Bin)
        BY <2>5, <3>1 DEF Need
      <3>3. CASE Need(Bin) > fsrv[Bin].map_size
        <4>1. Fatal("larger")
          BY <3>2, <3>3 DEF Size
        <4>2. phase' = "fatal" /\ why' = "larger" /\ Bin' = Bin /\ UNCHANGED <<fsrv, extras>>
          BY <4>1 DEF Fatal, Bin
        <4>3. RefusedForCause'
          <5> SUFFICES ASSUME died = {}
                       PROVE  \/ Round(srv[Bin].map) > MAX(map_size, DEFAULT_SHMEM_SIZE)
                              \/ again /\ Bin \notin {"main", "cmplog"}
            BY <1>4, <4>2 DEF RefusedForCause, MAX
          <5>1. Lives(Bin) /\ srv[Bin].map = Map(Bin)
            BY <1>3, <2>3, <2>4 DEF Attached
          <5>2. Round(srv[Bin].map) = Need(Bin)
            BY <3>2, <5>1
          <5>3. CASE ~again
            <6>1. fsrv[Bin].map_size >= map_size /\ fsrv[Bin].map_size >= DEFAULT_SHMEM_SIZE
              BY <1>2, <5>3 DEF StartInv, SizeInv
            <6>2. DEFAULT_SHMEM_SIZE \in Nat
              BY Sizes
            <6> QED
              BY <1>5, <1>6, <3>3, <5>2, <6>1, <6>2, SMT DEF MAX
          <5>4. CASE again
            <6>1. Known(Bin)
              BY <1>2, <5>4 DEF StartInv, SizeInv
            <6>2. Bin \notin {"main", "cmplog"}
              BY <1>3, <1>6, <3>3, <6>1, SMT DEF Known, Kept
            <6> QED
              BY <5>4, <6>2
          <5> QED
            BY <5>3, <5>4
        <4> QED
          BY <1>1, <1>5, <4>2, <4>3, FatalStep
      <3>4. CASE ~(Need(Bin) > fsrv[Bin].map_size)
        <4>1. AfterSize(Need(Bin)) /\ Need(Bin) <= fsrv[Bin].map_size
          BY <1>6, <3>2, <3>4, SMT DEF Size
        <4>2. /\ todo' = todo /\ opts' = Offer' /\ conf' = conf
              /\ phase' = IF "dict" \in opts THEN "dict" ELSE "welcome"
          BY <1>4, <1>7, <2>1, <4>1 DEF AfterSize
        <4>3. "dict" \in opts <=> conf.dict
          BY <2>1 DEF Offer
        <4>4. Said(p)'
          <5>1. CASE conf.dict
            <6>1. phase' = "dict"
              BY <4>2, <4>3, <5>1
            <6>2. InDict(p)'
              <7>1. CASE p = "dict" /\ from = <<Map(Bin)>>
                BY <2>5, <4>2, <5>1, <7>1, SMT DEF InDict
              <7>2. CASE p = "welcome" /\ from = <<Map(Bin), "dictionary">>
                BY <2>5, <4>2, <5>1, <7>2, SMT DEF InDict
              <7>3. CASE p = "loop" /\ from = <<Map(Bin), "dictionary", "hello">>
                BY <2>5, <4>2, <5>1, <7>3, SMT DEF InDict
              <7> QED
                BY <2>1, <2>5, <5>1, <7>1, <7>2, <7>3 DEF InSize
            <6> QED
              BY <4>2, <6>1, <6>2 DEF Said
          <5>2. CASE ~conf.dict
            <6>1. phase' = "welcome"
              BY <4>2, <4>3, <5>2
            <6>2. InWelcome(p)'
              <7>1. CASE p = "welcome" /\ from = <<Map(Bin)>>
                BY <2>5, <7>1, SMT DEF InWelcome
              <7>2. CASE p = "loop" /\ from = <<Map(Bin), "hello">>
                BY <2>5, <7>2, SMT DEF InWelcome
              <7> QED
                BY <2>1, <2>5, <5>2, <7>1, <7>2 DEF InSize
            <6> QED
              BY <6>1, <6>2 DEF Said
          <5> QED
            BY <5>1, <5>2
        <4>5. Talking' /\ phase' # "hello"
          BY <4>2 DEF Talking
        <4>6. TalkInv'
          BY <1>1, <1>2, <1>3, <2>1, <4>2, <4>4, <4>5, ReadOn
        <4> QED
          BY <1>1, <1>3, <1>6, <2>1, <2>3, <2>4, <4>1, <4>6, SizeTaken
      <3> QED
        BY <3>3, <3>4
    <2>6. CASE Empty /\ from' = from /\ \E n \in {MAP_SIZE, DEFAULT_SHMEM_SIZE + 1} : Size(n)
      <3>1. ~Lives(Bin) /\ Bin \in died /\ from' = <<>>
        BY <2>4, <2>6 DEF Empty
      <3>2. PICK n \in {MAP_SIZE, DEFAULT_SHMEM_SIZE + 1} : Size(n)
        BY <2>6
      <3>3. n \in Nat /\ n >= MAP_SIZE /\ MAP_SIZE \in Nat
        BY Sizes, SMT
      <3>4. Round(n) \in Nat /\ Round(n) >= MAP_SIZE
        BY <3>3, RoundedUp, SMT
      <3>5. CASE Round(n) > fsrv[Bin].map_size
        <4>1. phase' = "fatal" /\ UNCHANGED <<fsrv, extras>>
          BY <3>2, <3>5 DEF Size, Fatal
        <4>2. RefusedForCause'
          BY <1>4, <3>1 DEF RefusedForCause
        <4> QED
          BY <1>1, <1>5, <4>1, <4>2, FatalStep
      <3>6. CASE ~(Round(n) > fsrv[Bin].map_size)
        <4>1. AfterSize(Round(n)) /\ Round(n) <= fsrv[Bin].map_size
          BY <1>6, <3>2, <3>4, <3>6, SMT DEF Size
        <4>2. /\ todo' = todo /\ opts' = Offer' /\ conf' = conf
              /\ phase' = IF "dict" \in opts THEN "dict" ELSE "welcome"
          BY <1>4, <1>7, <2>1, <4>1 DEF AfterSize
        <4>3. "dict" \in opts <=> conf.dict
          BY <2>1 DEF Offer
        <4>4. Talking' /\ phase' # "hello"
          BY <4>2 DEF Talking
        <4>5. CASE conf.dict
          <5>1. Said("dict")' /\ Where("dict")
            BY <3>1, <4>2, <4>3, <4>5 DEF Said, InDict, Where
          <5>2. TalkInv'
            <6>1. "dict" \in Points
              BY DEF Points
            <6> QED
              BY <1>1, <1>2, <1>3, <4>2, <4>4, <5>1, <6>1, ReadOn
          <5> QED
            BY <1>1, <1>3, <2>1, <3>1, <3>4, <4>1, <5>2, SizeTaken
        <4>6. CASE ~conf.dict
          <5>1. Said("welcome")' /\ Where("welcome")
            BY <3>1, <4>2, <4>3, <4>6 DEF Said, InWelcome, Where
          <5>2. TalkInv'
            BY <1>1, <1>2, <1>3, <4>2, <4>4, <5>1, ReadOn DEF Points
          <5> QED
            BY <1>1, <1>3, <2>1, <3>1, <3>4, <4>1, <5>2, SizeTaken
        <4> QED
          BY <4>5, <4>6
      <3> QED
        BY <3>5, <3>6
    <2> QED
      BY <2>2, <2>5, <2>6 DEF ReadSize
  <1> QED
    BY <1>8, <1>9

\* The dictionary is read in any case, and kept the first time the target sends it.
LEMMA ReadDictStep ==
  ASSUME StartInv, ReadDict
  PROVE  StartInv'
  <1>1. phase = "dict" /\ UNCHANGED program /\ srv' = srv /\ died' = died
    BY DEF ReadDict
  <1>2. Talking /\ Working /\ Told /\ ~Asked
    BY <1>1 DEF Talking, Working, Told, Asked
  <1>3. PICK p \in Points : InDict(p) /\ Where(p)
    BY <1>1, <1>2 DEF StartInv, TalkInv, Lost, Said
  <1>4. conf.dict /\ conf.proto = "new"
    BY <1>1, <1>2, <1>3 DEF StartInv, TalkInv, InDict
  <1>5. UNCHANGED <<conf, k, again, map_size, shm, env, srv, died>>
    BY <1>1 DEF program
  <1>6. srv \in [Bins -> SrvType] /\ died \subseteq Bins /\ extras \in Nat
    BY DEF StartInv, StartType
  <1>7. CASE Empty
    <2>1. phase' = "fatal" /\ UNCHANGED <<fsrv, extras>>
      BY <1>7 DEF ReadDict, Fatal
    <2>2. p = "dict"
      BY <1>3, <1>7 DEF InDict, Empty
    <2>3. Bin \in died
      BY <1>3, <1>7, <2>2 DEF Where, Empty
    <2>4. RefusedForCause'
      BY <1>5, <2>3 DEF RefusedForCause
    <2> QED
      BY <1>1, <1>6, <2>1, <2>4, FatalStep
  <1>8. CASE ~Empty
    <2>1. /\ from # <<>> /\ from' = Tail(from) /\ phase' = "welcome"
          /\ extras' = IF Bin = "main" /\ ~env.noauto THEN extras + 1 ELSE extras
          /\ UNCHANGED <<todo, fsrv, opts, why>>
      BY <1>8 DEF ReadDict, DictRead
    <2>2. Talking' /\ Working' /\ ~Asked' /\ Bin' = Bin /\ extras' \in Nat
      BY <1>6, <2>1, SMT DEF Talking, Working, Asked, Bin
    <2>3. InWelcome(p)'
      <3>1. CASE p = "welcome" /\ from = <<"dictionary">>
        BY <2>1, <3>1, SMT DEF InWelcome
      <3>2. CASE p = "loop" /\ from = <<"dictionary", "hello">>
        BY <2>1, <3>2, SMT DEF InWelcome
      <3> QED
        BY <1>3, <2>1, <3>1, <3>2 DEF InDict
    <2>4. Said(p)'
      BY <2>1, <2>3 DEF Said
    <2>5. TalkInv'
      BY <1>1, <1>2, <1>3, <1>4, <2>1, <2>2, <2>4, ReadOn
    <2>6. Answered(Bin)'
      <3>1. Answered(Bin)
        BY <1>2 DEF StartInv, SizeInv
      <3> QED
        BY <1>5, <2>1, <2>2, <3>1
        DEF Answered, Bound, Need, Map, MapOf, WithIjon, Lives, Attached
    <2>7. OnceInv'
      <3>1. k = 1 /\ ~again => extras = 0 /\ env.noauto = conf.noauto /\ Bin = "main"
        <4> SUFFICES ASSUME k = 1, ~again
                     PROVE  extras = 0 /\ env.noauto = conf.noauto /\ Bin = "main"
          OBVIOUS
        <4>1. todo = <<Now>> /\ env.noauto = conf.noauto
          BY <1>1, <1>2 DEF StartInv, TodoInv
        <4>2. Now = "main"
          BY ConfFacts DEF Now, StartInv, StartType
        <4> QED
          BY <1>1, <4>1, <4>2, SMT DEF StartInv, OnceInv, Bin
      <3>2. again \/ k > 1 => extras' = extras
        <4>1. again => env.noauto
          BY DEF StartInv, TodoInv
        <4>2. k > 1 /\ Bin = "main" => again
          BY <1>2, TodoFacts, ConfFacts DEF StartInv
        <4> QED
          BY <2>1, <4>1, <4>2
      <3>3. Want' = Want /\ Mistaken' = Mistaken
        BY <1>5, <2>1 DEF Want, Mistaken
      <3>4. k = 1 /\ ~again => extras' = Want
        BY <1>4, <1>5, <2>1, <3>1, SMT DEF Want
      <3>5. k \in Nat /\ k >= 1
        BY ConfFacts DEF StartInv
      <3>6. k > 1 => extras = Want
        BY <1>1 DEF StartInv, OnceInv
      <3>7. k = 1 /\ again => extras = Want \/ Mistaken
        BY <1>2 DEF StartInv, OnceInv
      <3>8. k = 1 /\ fsrv["main"].use_ijon => conf.ijon \/ (Mistaken /\ died # {})
        BY DEF StartInv, OnceInv
      <3> QED
        BY <1>5, <2>1, <2>2, <3>2, <3>3, <3>4, <3>5, <3>6, <3>7, <3>8 DEF OnceInv
    <2> QED
      BY <1>1, <1>2, <1>5, <1>6, <2>1, <2>2, <2>5, <2>6, <2>7, HandshakeFrame
  <1> QED
    BY <1>7, <1>8

\* The final message, or what is taken for it.
LEMMA WelcomeStep ==
  ASSUME StartInv, Welcome
  PROVE  StartInv'
  <1>1. phase = "welcome" /\ UNCHANGED program /\ srv' = srv /\ died' = died
    BY DEF Welcome
  <1>2. Talking /\ Working /\ Told
    BY <1>1 DEF Talking, Working, Told
  <1>3. UNCHANGED <<conf, k, again, map_size, shm, env, srv, died>>
    BY <1>1 DEF program
  <1>4. srv \in [Bins -> SrvType] /\ fsrv \in [Bins -> FsrvType]
    BY DEF StartInv, StartType
  <1>5. (Lost /\ from = <<>> /\ Bin \in died) \/ \E p \in Points : InWelcome(p) /\ Where(p)
    BY <1>1, <1>2 DEF StartInv, TalkInv, Said, Lost
  <1>6. from # <<>> => Head(from) = "hello"
    BY <1>5, SMT DEF InWelcome
  <1>7. Empty => Bin \in died
    BY <1>5 DEF InWelcome, Where, Empty
  <1>8. CASE Done /\ UNCHANGED <<fsrv, extras, opts, why>>
    <2>1. Answered(Bin)
      BY <1>2 DEF StartInv, SizeInv
    <2>2. Len(todo) = 1 => Answered(Now)'
      <3> SUFFICES ASSUME Len(todo) = 1
                   PROVE  Answered(Now)'
        OBVIOUS
      <3>1. Answered(Now) /\ Now' = Now
        BY <1>2, <1>3, <2>1, TodoFacts DEF StartInv, Now
      <3> QED
        BY <1>3, <1>8, <3>1
        DEF Answered, Bound, Need, Map, MapOf, WithIjon, Lives, Attached
    <2>3. Len(todo) # 1 => Settled("main")'
      <3> SUFFICES ASSUME Len(todo) # 1
                   PROVE  Settled("main")'
        OBVIOUS
      <3>1. again /\ Bin = "main" /\ "main" \in Bins
        BY <1>2, TodoFacts DEF StartInv
      <3>2. Answered("main") /\ Bound("main")
        BY <2>1, <3>1 DEF Answered
      <3>3. /\ Need("main") \in Nat /\ Map("main") \in Nat /\ Need("main") >= Map("main")
            /\ map_size \in Nat /\ IjonBytes \in Nat /\ shm.size = map_size
        BY <3>1, NeedFacts, Sizes DEF StartInv, StartType
      <3>4. conf.proto = "new"
        BY <1>1, <1>2 DEF StartInv, TalkInv
      <3>5. Lives("main") => /\ srv["main"].seg = shm.seg /\ srv["main"].size = map_size
                             /\ srv["main"].map = Map("main")
                             /\ fsrv["main"].map_size = Need("main") /\ Need("main") <= map_size
        BY <3>2, <3>3, <3>4 DEF Answered, Attached, Bound
      <3>6. Settled("main")
        BY <3>2, <3>3, <3>5, SMT DEF Settled, Answered
      <3> QED
        BY <1>3, <1>8, <3>6 DEF Settled, Lives
    <2>4. phase' \in {"up", "start"} /\ (k = 1 => phase' = "up")
      BY <1>2, <1>8, TodoFacts DEF Done, StartInv
    <2>5. (Mistaken' <=> Mistaken) /\ Want' = Want
      BY <1>3, <1>8 DEF Mistaken, Want
    <2>6. OnceInv'
      BY <1>1, <1>3, <1>8, <2>4, <2>5 DEF StartInv, OnceInv, Asked
    <2>7. MainInv'
      <3>1. UNCHANGED <<Need("main"), fsrv>> /\ (Kept("main") => Kept("main")')
        BY <1>3, <1>8 DEF Need, Map, MapOf, WithIjon, Kept
      <3> QED
        BY <1>1, <1>3, <2>4, <3>1 DEF StartInv, MainInv
    <2> QED
      BY <1>1, <1>2, <1>4, <1>8, <2>2, <2>3, <2>6, <2>7, DoneStep
  <1>9. CASE Empty /\ Fatal("communication")
    <2>1. phase' = "fatal" /\ UNCHANGED <<fsrv, extras>>
      BY <1>9 DEF Fatal
    <2>2. RefusedForCause'
      BY <1>3, <1>7, <1>9 DEF RefusedForCause
    <2> QED
      BY <1>1, <1>4, <2>1, <2>2, FatalStep
  <1> QED
    BY <1>6, <1>8, <1>9 DEF Welcome

\* Every step of the start keeps the invariant.
LEMMA StartInductive == StartInv /\ [StartupNext]_sVars => StartInv'
  <1> SUFFICES ASSUME StartInv, [StartupNext]_sVars
               PROVE  StartInv'
    OBVIOUS
  <1>1. CASE Prepare
    BY <1>1, PrepareStep
  <1>2. CASE Reinit
    BY <1>2, ReinitStep
  <1>3. CASE Fits
    BY <1>3, FitsStep
  <1>4. CASE Spawn
    BY <1>4, SpawnStep
  <1>5. CASE Hello
    BY <1>5, HelloStep
  <1>6. CASE NoHello
    BY <1>6, NoHelloStep
  <1>7. CASE Options
    BY <1>7, OptionsStep
  <1>8. CASE ReadSize
    BY <1>8, ReadSizeStep
  <1>9. CASE ReadDict
    BY <1>9, ReadDictStep
  <1>10. CASE Welcome
    BY <1>10, WelcomeStep
  <1>11. CASE Attach
    BY <1>11, AttachStep
  <1>12. CASE AttachFails
    BY <1>12, AttachFailsStep
  <1>13. CASE SendHello
    BY <1>13, SendHelloStep
  <1>14. CASE GetReply
    BY <1>14, GetReplyStep
  <1>15. CASE SendOptions
    BY <1>15, SendOptionsStep
  <1>16. CASE SendSize
    BY <1>16, SendSizeStep
  <1>17. CASE SendDict
    BY <1>17, SendDictStep
  <1>18. CASE SendWelcome
    BY <1>18, SendWelcomeStep
  <1>19. CASE Die
    BY <1>19, DieStep
  <1>20. CASE UNCHANGED sVars
    BY <1>20, StandsStill
  <1> QED
    BY <1>1, <1>2, <1>3, <1>4, <1>5, <1>6, <1>7, <1>8, <1>9, <1>10, <1>11, <1>12, <1>13, <1>14,
       <1>15, <1>16, <1>17, <1>18, <1>19, <1>20, Zenon
    DEF StartupNext, ProgramStep, StartStep, TargetStep

-----------------------------------------------------------------------------
(* The whole life of the server                                            *)

\* Until fuzzing begins the invariant of the start holds; after that nothing of
\* the start is left to be done.
StartLife == IF phase = "over" THEN todo = <<>> ELSE StartInv

\* Once fuzzing has begun, no step of the start is taken.
LEMMA StartIsOver ==
  ASSUME StartupNext, todo = <<>>
  PROVE  phase # "over"
  <1>1. CASE ProgramStep
    BY <1>1 DEF ProgramStep, Prepare, Reinit, Fits
  <1>2. CASE StartStep
    BY <1>2 DEF StartStep, Spawn, Hello, NoHello, Options, ReadSize, ReadDict, Welcome
  <1>3. ~TargetStep /\ ~Die
    BY DEF TargetStep, Attach, AttachFails, SendHello, GetReply, SendOptions, SendSize, SendDict,
         SendWelcome, Server, Die
  <1> QED
    BY <1>1, <1>2, <1>3 DEF StartupNext

\* Starting, handing over and serving keep it.
LEMMA StartLifeInductive == StartLife /\ [LifeNext]_<<vars, sVars>> => StartLife'
  <1> SUFFICES ASSUME StartLife, [LifeNext]_<<vars, sVars>>
               PROVE  StartLife'
    OBVIOUS
  <1>1. CASE Starting
    <2>1. StartupNext /\ phase # "over"
      BY <1>1, StartIsOver DEF Starting, StartLife
    <2>2. StartInv'
      BY <2>1, StartInductive DEF StartLife
    <2>3. phase' # "over"
      BY <2>2 DEF StartInv, StartType, Working, Talking
    <2> QED
      BY <2>2, <2>3 DEF StartLife
  <1>2. CASE Handover
    BY <1>2 DEF Handover, StartLife
  <1>3. CASE UNCHANGED sVars
    <2>1. phase' = phase /\ todo' = todo
      BY <1>3 DEF sVars, handshake
    <2>2. phase # "over" => StartInv'
      BY <1>3, StandsStill DEF StartLife
    <2> QED
      BY <2>1, <2>2 DEF StartLife
  <1> QED
    BY <1>1, <1>2, <1>3 DEF LifeNext, Serving, Refused

\* Whatever the configuration, the sizes of the maps and the builds, and wherever
\* servers die: when main() begins to fuzz, the two sides of every handshake
\* agree, though maps were remade and servers started anew.
THEOREM StartsRight == LifeSpec => []StartedRight
  <1>1. LifeInit => StartLife
    BY StartInit DEF LifeInit, StartLife, StartupInit
  <1>2. StartLife => StartedRight
    BY SettledIsRight DEF StartLife, StartedRight
  <1> QED
    BY <1>1, <1>2, StartLifeInductive, PTL DEF LifeSpec

\* And afl_fsrv_start and main() give up only for a cause: while no server dies,
\* the messages never get out of step and no map turns out too small, but for the
\* sanitizer builds that Reinit restarts with the size of the target's map.
THEOREM RefusesForCause == LifeSpec => []RefusedForCause
  <1>1. LifeInit => StartLife
    BY StartInit DEF LifeInit, StartLife, StartupInit
  <1>2. StartLife => RefusedForCause
    BY SettledIsRight DEF StartLife, RefusedForCause
  <1> QED
    BY <1>1, <1>2, StartLifeInductive, PTL DEF LifeSpec
=============================================================================
