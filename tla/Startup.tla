------------------------------ MODULE Startup -------------------------------
(***************************************************************************)
(* How afl-fuzz brings up the fork servers of the target, of the sanitizer *)
(* builds and of the CmpLog build: the handshake of afl_fsrv_start with    *)
(* __afl_start_forkserver, and the part of main() that makes the shared    *)
(* map larger, and starts servers anew, when a build needs a larger map    *)
(* than the ones before it.                                                *)
(*                                                                         *)
(* Only one handshake is under way at a time, over a fresh pair of pipes.  *)
(* A server may die at any point of it.  Most of the reads of afl-fuzz do  *)
(* not look at the number of bytes they got: what they use then is what    *)
(* was in the variable before, or anything if it had no value.             *)
(***************************************************************************)
EXTENDS Integers, Sequences

CONSTANTS
  Confs,                \* the ways of starting afl-fuzz to consider
  Bins,                 \* "main", "cmplog", and the sanitizer builds
  MAP_SIZE, DEFAULT_SHMEM_SIZE,
  Unit,                 \* map sizes are rounded up to multiples of this
  IjonMap, IjonBytes    \* MAP_SIZE_IJON_MAP and MAP_SIZE_IJON_BYTES

\* One way of starting it: AFL_MAP_SIZE or 0, the builds in the order they are
\* started (the target, the sanitizer builds, CmpLog), the number of instrumented
\* edges of each, and what they offer.
ConfType(c) ==
  /\ c.user \in Nat
  /\ c.bins \in Seq(Bins) /\ c.bins # <<>> /\ c.bins[1] = "main"
  /\ \A i, j \in DOMAIN c.bins : c.bins[i] = c.bins[j] => i = j
  /\ \A i \in DOMAIN c.bins : c.bins[i] = "cmplog" => i = Len(c.bins)
  /\ c.edges \in [Bins -> Nat \ {0}]
  /\ {c.dict, c.ijon, c.shmem, c.noauto} \subseteq BOOLEAN
  /\ c.proto \in {"new", "old", "unsupported"}
  /\ c.proto = "old" =>
       ~c.shmem /\ ~c.ijon /\ \A b \in Bins : c.edges[b] <= MAP_SIZE

ASSUME StartupAssumption ==
  /\ {"main", "cmplog"} \subseteq Bins
  /\ {MAP_SIZE, DEFAULT_SHMEM_SIZE, Unit, IjonMap, IjonBytes} \subseteq Nat \ {0}
  /\ \A n \in {MAP_SIZE, DEFAULT_SHMEM_SIZE, IjonMap, IjonBytes} : n % Unit = 0
  /\ MAP_SIZE <= DEFAULT_SHMEM_SIZE /\ MAP_SIZE <= IjonMap + IjonBytes
  /\ \A c \in Confs : ConfType(c)

VARIABLES
  conf,         \* the way it was started
  phase,        \* where afl-fuzz is
  k,            \* the build of conf.bins it deals with
  todo,         \* the servers still to be started for it, the current one first
  again,        \* they are started anew, in a larger map
  map_size,     \* main's map_size: the size of the virgin maps
  shm,          \* the shared map: number and size of the segment
  fsrv,         \* afl_forkserver_t of each build
  env,          \* AFL_MAP_SIZE, AFL_NO_AUTODICT, AFL_NO_IJON
  ijon_bits,    \* where afl-fuzz looks for the IJON maxima
  extras,       \* how often the dictionary of the target was added
  opts,         \* the options word of the current handshake
  why,          \* what the fatal error was about
  srv,          \* the server process of each build
  died,         \* history: the builds whose server has died in a handshake
  to, from      \* the pipes of the current handshake

program   == <<conf, k, again, map_size, shm, env, ijon_bits>>
handshake == <<phase, todo, fsrv, extras, opts, why>>
target    == <<srv, died, to, from>>
sVars     == <<program, handshake, target>>

MAX(a, b) == IF a > b THEN a ELSE b
Round(n) == ((n + Unit - 1) \div Unit) * Unit

Bin   == Head(todo)
NoSrv == [pc |-> "none", seg |-> 0, size |-> 0, map |-> 0, ijon |-> FALSE]
Lives(b) == srv[b].pc \notin {"none", "dead"}

\* get_map_size(), then afl_shm_init with that size.
StartupInit ==
  \E c \in Confs :
    LET size == IF c.user = 0 THEN DEFAULT_SHMEM_SIZE ELSE Round(c.user) IN
    /\ conf = c /\ phase = "prepare" /\ k = 1 /\ todo = <<>> /\ again = FALSE
    /\ map_size = size /\ shm = [seg |-> 1, size |-> size]
    /\ fsrv = [b \in Bins |->
                 [map_size |-> size, use_shmem |-> FALSE, use_ijon |-> FALSE]]
    /\ env = [size |-> c.user, noauto |-> c.noauto, noijon |-> FALSE]
    /\ ijon_bits = [seg |-> 0, at |-> 0] /\ extras = 0 /\ opts = {} /\ why = "none"
    /\ srv = [b \in Bins |-> NoSrv] /\ died = {} /\ to = <<>> /\ from = <<>>

(***************************************************************************)
(* The main program                                                        *)
(***************************************************************************)

\* The map size the server is first started with: as large as can be.
Prepare ==
  LET b     == conf.bins[k]
      large == MAX(map_size, DEFAULT_SHMEM_SIZE)
      grow  == \/ map_size <= DEFAULT_SHMEM_SIZE
               \/ b # "main" /\ fsrv["main"].map_size < map_size IN
  /\ phase = "prepare"
  /\ phase' = "start" /\ todo' = <<b>> /\ again' = FALSE
  /\ fsrv' = [fsrv EXCEPT ![b] =
       [map_size  |-> IF grow THEN large ELSE fsrv["main"].map_size,
        use_shmem |-> FALSE, use_ijon |-> FALSE]]
  /\ env' = IF grow THEN [env EXCEPT !.size = large] ELSE env
  /\ UNCHANGED <<conf, k, map_size, shm, ijon_bits, extras, opts, why, target>>

NoAutodict(e) == [e EXCEPT !.noauto = TRUE]

\* Mutant: only the server that needs the larger map is started in it.
RestartOne(b) == <<b>>
Restart(b) == IF b = "main" THEN <<b>> ELSE <<"main", b>>

\* The server is up and its map does not fit: kill, make a larger map, restart.
\* A sanitizer build gets the size of the target's map, not the new one.
Reinit ==
  LET b    == conf.bins[k]
      size == fsrv[b].map_size IN
  /\ phase = "up" /\ ~again /\ map_size < size
  /\ phase' = "start" /\ todo' = Restart(b) /\ again' = TRUE
  /\ map_size' = size /\ shm' = [seg |-> shm.seg + 1, size |-> size]
  /\ fsrv' = IF b \in {"main", "cmplog"} THEN fsrv
             ELSE [fsrv EXCEPT ![b].map_size = fsrv["main"].map_size]
  /\ env' = NoAutodict(env)
  /\ srv' = [x \in Bins |-> IF x \in {"main", b} THEN NoSrv ELSE srv[x]]
  /\ UNCHANGED <<conf, k, ijon_bits, extras, opts, why, died, to, from>>

\* The server is up in a map that is large enough: the IJON area is set up once
\* the target is, and the next build follows.  (The 4 bytes by which the code
\* wants the map larger make no difference to multiples of Unit.)
Fits ==
  LET ijon == conf.bins[k] = "main" /\ fsrv["main"].use_ijon
      rest == fsrv["main"].map_size - IjonBytes IN
  /\ phase = "up" /\ (again \/ map_size >= fsrv[conf.bins[k]].map_size)
  /\ IF ijon /\ rest <= IjonMap
     THEN /\ phase' = "fatal" /\ why' = "ijon"
          /\ UNCHANGED <<k, fsrv, ijon_bits, env>>
     ELSE /\ phase' = IF k = Len(conf.bins) THEN "ready" ELSE "prepare"
          /\ k' = IF k = Len(conf.bins) THEN k ELSE k + 1
          /\ fsrv' = IF ijon THEN [fsrv EXCEPT !["main"].map_size = rest] ELSE fsrv
          /\ ijon_bits' = IF ijon THEN [seg |-> shm.seg, at |-> rest] ELSE ijon_bits
          /\ env' = IF ijon THEN [env EXCEPT !.noijon = TRUE] ELSE env
          /\ UNCHANGED why
  /\ UNCHANGED <<conf, todo, again, map_size, shm, extras, opts, target>>

(***************************************************************************)
(* afl_fsrv_start                                                          *)
(***************************************************************************)

Fatal(cause) ==
  /\ phase' = "fatal" /\ why' = cause
  /\ UNCHANGED <<todo, fsrv, extras, opts>>

Empty == from = <<>> /\ ~Lives(Bin)

\* The pipes and the process; it inherits the environment of this moment.
Spawn ==
  /\ phase = "start"
  /\ phase' = "hello" /\ to' = <<>> /\ from' = <<>>
  /\ srv' = [srv EXCEPT ![Bin] = [NoSrv EXCEPT !.pc = "exec"]]
  /\ UNCHANGED <<program, todo, fsrv, extras, opts, why, died>>

\* The server in hand is up.
Done ==
  /\ todo' = Tail(todo)
  /\ phase' = IF Len(todo) = 1 THEN "up" ELSE "start"

\* An old server sends no options: it uses the default map.  A reply to one that
\* has died is taken for written; the code may also end there with FATAL.
Hello ==
  /\ phase = "hello" /\ from # <<>> /\ from' = Tail(from)
  /\ \/ /\ Head(from) = "hello"
        /\ to' = Append(to, "reply") /\ phase' = "options"
        /\ UNCHANGED <<todo, fsrv, extras, opts, why>>
     \/ /\ Head(from) = "old" /\ Bin # "cmplog"
        /\ Done /\ fsrv' = [fsrv EXCEPT ![Bin].map_size = MAP_SIZE]
        /\ UNCHANGED <<to, extras, opts, why>>
     \/ /\ \/ Head(from) \in {"unsupported", "error"}
           \/ Head(from) = "old" /\ Bin = "cmplog"
        /\ Fatal(Head(from)) /\ UNCHANGED to
  /\ UNCHANGED <<program, srv, died>>

\* No hello within the time limit, or the server is gone.
NoHello ==
  /\ phase = "hello" /\ from = <<>>
  /\ Fatal(IF Lives(Bin) THEN "timeout" ELSE "died")
  /\ srv' = [srv EXCEPT ![Bin].pc = "dead"]
  /\ UNCHANGED <<program, died, to, from>>

\* Without an answer the word is still the complement of the hello, in which
\* the bits of shared memory and of IJON happen to be set.
Options ==
  /\ phase = "options" /\ (from # <<>> \/ Empty)
  /\ opts' = IF Empty THEN {"shmem", "ijon"} ELSE Head(from)
  /\ from' = IF Empty THEN from ELSE Tail(from)
  /\ phase' = "size"
  /\ UNCHANGED <<program, todo, fsrv, extras, why, to, srv, died>>

AfterSize(n) ==
  /\ fsrv' = [fsrv EXCEPT ![Bin].map_size = n,
                ![Bin].use_shmem = @ \/ "shmem" \in opts,
                ![Bin].use_ijon = @ \/ "ijon" \in opts]
  /\ phase' = IF "dict" \in opts THEN "dict" ELSE "welcome"
  /\ UNCHANGED <<todo, extras, opts, why>>

Size(n) == IF Round(n) > fsrv[Bin].map_size THEN Fatal("larger") ELSE AfterSize(Round(n))

\* tmp_map_size has no value when the server died before it sent one.
ReadSize ==
  /\ phase = "size"
  /\ \/ "mapsize" \notin opts /\ AfterSize(MAP_SIZE) /\ UNCHANGED from
     \/ "mapsize" \in opts /\ from # <<>> /\ Size(Head(from)) /\ from' = Tail(from)
     \/ /\ "mapsize" \in opts /\ Empty /\ UNCHANGED from
        /\ \E n \in {MAP_SIZE, DEFAULT_SHMEM_SIZE + 1} : Size(n)
  /\ UNCHANGED <<program, to, srv, died>>

\* Mutant: a dictionary nobody asked for is left in the pipe.
DictUnread == IF env.noauto THEN from ELSE Tail(from)
DictRead == Tail(from)

\* It is read in any case, and added only for the target itself.
ReadDict ==
  /\ phase = "dict" /\ (from # <<>> \/ Empty)
  /\ IF Empty THEN Fatal("died") /\ UNCHANGED from
     ELSE /\ from' = DictRead
          /\ extras' = IF Bin = "main" /\ ~env.noauto THEN extras + 1 ELSE extras
          /\ phase' = "welcome"
          /\ UNCHANGED <<todo, fsrv, opts, why>>
  /\ UNCHANGED <<program, to, srv, died>>

\* status2 has no value when the server died before the final message.
Welcome ==
  /\ phase = "welcome"
  /\ \/ /\ from # <<>> /\ from' = Tail(from)
        /\ IF Head(from) = "hello" THEN Done /\ UNCHANGED <<fsrv, extras, opts, why>>
           ELSE Fatal("communication")
     \/ /\ Empty /\ UNCHANGED from
        /\ \/ Done /\ UNCHANGED <<fsrv, extras, opts, why>>
           \/ Fatal("communication")
  /\ UNCHANGED <<program, to, srv, died>>

(***************************************************************************)
(* __afl_map_shm and __afl_start_forkserver                                *)
(***************************************************************************)

Server(pc) == phase \notin {"fatal", "up", "start"} /\ todo # <<>> /\ srv[Bin].pc = pc
Goto(pc)   == srv' = [srv EXCEPT ![Bin].pc = pc]
Send(m)    == from' = Append(from, m) /\ UNCHANGED <<program, handshake, died, to>>

MapOf(b, ijon) ==
  IF ijon THEN Round(conf.edges[b]) + IjonMap + IjonBytes ELSE conf.edges[b]

\* The server attaches the map of the environment it was started with.
Attach ==
  LET ijon == conf.ijon /\ ~env.noijon
      map  == MapOf(Bin, ijon) IN
  /\ Server("exec")
  /\ (map > MAP_SIZE /\ ~ijon) => env.size >= MAP_SIZE
  /\ srv' = [srv EXCEPT ![Bin] = [pc |-> "hello", seg |-> shm.seg, size |-> shm.size,
                                  map |-> map, ijon |-> ijon]]
  /\ UNCHANGED <<program, handshake, died, to, from>>

\* It cannot: no AFL_MAP_SIZE although the map is large, or the kernel refuses.
AttachFails == Server("exec") /\ Goto("dead") /\ Send("error")

SendHello ==
  /\ Server("hello")
  /\ \/ conf.proto = "new" /\ Goto("reply") /\ Send("hello")
     \/ conf.proto = "old" /\ Goto("loop") /\ Send("old")
     \/ conf.proto = "unsupported" /\ Goto("reply") /\ Send("unsupported")

GetReply ==
  /\ Server("reply") /\ to # <<>>
  /\ Goto("options") /\ to' = Tail(to)
  /\ UNCHANGED <<program, handshake, died, from>>

SendOptions ==
  /\ Server("options") /\ Goto("size")
  /\ Send({"mapsize"} \cup (IF conf.shmem THEN {"shmem"} ELSE {})
            \cup (IF conf.dict THEN {"dict"} ELSE {})
            \cup (IF srv[Bin].ijon THEN {"ijon"} ELSE {}))

SendSize ==
  /\ Server("size") /\ Goto(IF conf.dict THEN "dict" ELSE "welcome")
  /\ Send(srv[Bin].map)

SendDict == Server("dict") /\ Goto("welcome") /\ Send("dictionary")

\* Mutant: the server waits for a second reply before its final message.
WelcomeAcknowledged == Server("welcome") /\ to # <<>> /\ Goto("loop") /\ Send("hello")
SendWelcome == Server("welcome") /\ Goto("loop") /\ Send("hello")

\* The server is killed, or gives up, in the middle of the handshake.
Die ==
  /\ todo # <<>> /\ phase \notin {"fatal", "up", "start"} /\ Lives(Bin)
  /\ Goto("dead") /\ died' = died \cup {Bin}
  /\ UNCHANGED <<program, handshake, to, from>>

(***************************************************************************)
(* The specification                                                       *)
(***************************************************************************)

ProgramStep == Prepare \/ Reinit \/ Fits
StartStep   == \/ Spawn \/ Hello \/ NoHello \/ Options \/ ReadSize \/ ReadDict \/ Welcome
TargetStep  == \/ Attach \/ AttachFails \/ SendHello \/ GetReply \/ SendOptions
               \/ SendSize \/ SendDict \/ SendWelcome

StartupNext == ProgramStep \/ StartStep \/ TargetStep \/ Die

Ended == phase \in {"ready", "fatal"}

\* The processes are scheduled; a server need not die.
StartupFairness ==
  WF_sVars(ProgramStep) /\ WF_sVars(StartStep) /\ WF_sVars(TargetStep)

(***************************************************************************)
(* Properties                                                              *)
(***************************************************************************)

\* When fuzzing starts, every server is up, or has died in its handshake, and
\* the two sides of each agree, though maps were remade and servers restarted on
\* the way: the target and CmpLog servers are attached to the map afl-fuzz reads,
\* all of them fit into theirs, afl-fuzz clears and compares the edges the target
\* has and keeps virgin maps that large, input goes the way both expect, and the
\* dictionary was added once.  (What afl-fuzz took for the options of a server
\* that died before it sent them stays set when the server is started anew.)
StartedRight ==
  phase = "ready" =>
    \A i \in DOMAIN conf.bins :
      LET b == conf.bins[i] IN
      IF ~Lives(b) THEN b \in died ELSE
        /\ srv[b].map <= srv[b].size
        /\ b \in {"main", "cmplog"} => srv[b].seg = shm.seg
        /\ conf.shmem => fsrv[b].use_shmem
        /\ fsrv[b].use_shmem => conf.shmem \/ b \in died
        /\ b = "main" =>
             /\ fsrv[b].map_size + (IF srv[b].ijon THEN IjonBytes ELSE 0) >= srv[b].map
             /\ fsrv[b].map_size <= map_size /\ map_size <= shm.size
             /\ extras = IF conf.proto = "new" /\ conf.dict /\ ~conf.noauto
                         THEN 1 ELSE 0

\* afl-fuzz refuses to start only for a cause: while no server dies, the messages
\* of the two sides never get out of step, the map is never too small for IJON,
\* and one is too large only if it exceeds both AFL_MAP_SIZE and the default.
\* The exception is a sanitizer build that needs a larger map, see Reinit.
RefusedForCause ==
  phase = "fatal" /\ died = {} =>
    /\ why \notin {"communication", "died", "ijon"}
    /\ why = "larger" =>
         \/ Round(srv[Bin].map) > MAX(map_size, DEFAULT_SHMEM_SIZE)
         \/ again /\ Bin \notin {"main", "cmplog"}

\* The start comes to an end: no message one side waits for is never sent.
StartupEnds == <>Ended
=============================================================================
