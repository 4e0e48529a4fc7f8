----------------------------- MODULE ForkServer ----------------------------
(***************************************************************************)
(* One execution of the target: afl-fuzz (afl_fsrv_run_target), the fork   *)
(* server inside the target (__afl_start_forkserver), and the children it  *)
(* forks, which in persistent mode run several inputs and stop themselves  *)
(* with SIGSTOP in between (__afl_persistent_loop).                        *)
(*                                                                         *)
(* afl-fuzz and the server talk over two pipes: a request says whether the *)
(* previous run was killed, and is answered by a process id and, later, by *)
(* a wait status.  A timeout may race the child's own end or stop, and a   *)
(* stop signal to afl-fuzz may arrive between any two steps.               *)
(***************************************************************************)
EXTENDS Naturals, Sequences, FiniteSets

CONSTANTS
  Inputs, NoInput, Behaviour,   \* as in RunTarget
  Pids, NoPid,                  \* process ids; a free one may be used again
  Persistent,                   \* settings of `persistent' to consider
  Cycles,                       \* its argument: iterations of one process
  KillSignal                    \* child_kill_signal: "KILL" or "TERM"

ASSUME ForkServerAssumption ==
  /\ NoInput \notin Inputs /\ NoPid \notin Pids
  /\ Behaviour \in [Inputs -> {"ok", "crash", "hang"}]
  /\ Persistent \in SUBSET BOOLEAN /\ Cycles \in Nat \ {0}
  /\ KillSignal \in {"KILL", "TERM"}

VARIABLES
  fpc,                  \* where afl_fsrv_run_target is
  testcase,             \* the input in the shared test case buffer
  trace_bits,           \* the inputs whose traces are in the shared map
  child_pid,            \* fsrv->child_pid
  last_run_timed_out,   \* fsrv->last_run_timed_out
  result,               \* what the last run returned
  stop_soon,            \* the user asked afl-fuzz to stop
  ctl, st,              \* the two pipes
  spc,                  \* where the fork server is
  newborn,              \* what its fork() has just returned
  srv_child,            \* its child_pid
  child_stopped, was_killed, status,
  persistent,           \* the target uses __AFL_LOOP
  term,                 \* SIGTERM was sent to the fork server
  proc,                 \* the state of each process
  cycle_cnt,            \* its iterations left, 0 before the first
  reading,              \* the input it works on
  pending               \* processes with a terminating signal pending

fuzzer   == <<fpc, testcase, child_pid, last_run_timed_out, result, stop_soon>>
server   == <<persistent, spc, newborn, srv_child, child_stopped, was_killed,
              status>>
children == <<proc, cycle_cnt, reading, pending>>
vars     == <<fuzzer, trace_bits, ctl, st, server, term, children>>

Alive   == {"start", "run", "traced", "stopped"}
Zombie  == {"exited", "killed"}
Results == {"none", "OK", "CRASH", "TMOUT", "stopped", "fatal"}

\* Every variable holds a value of its type.
TypeOK ==
  /\ fpc \in {"idle", "ask", "pid", "poll", "kill", "late"}
  /\ testcase \in Inputs \cup {NoInput}
  /\ trace_bits \subseteq Inputs
  /\ child_pid \in Pids \cup {NoPid}
  /\ last_run_timed_out \in BOOLEAN /\ stop_soon \in BOOLEAN
  /\ result \in Results
  /\ ctl \in Seq(BOOLEAN)
  /\ st \in Seq(Pids \cup Zombie \cup {"stopped"})
  /\ persistent \in Persistent
  /\ spc \in {"read", "reap", "fork", "forked", "cont", "pid", "wait", "relay",
              "dead"}
  /\ newborn \in Pids \cup {NoPid} /\ srv_child \in Pids \cup {NoPid}
  /\ child_stopped \in BOOLEAN /\ was_killed \in BOOLEAN /\ term \in BOOLEAN
  /\ status \in Zombie \cup {"stopped"}
  /\ proc \in [Pids -> {"free"} \cup Alive \cup Zombie]
  /\ cycle_cnt \in [Pids -> 0..Cycles]
  /\ reading \in [Pids -> Inputs \cup {NoInput}]
  /\ pending \subseteq Pids

Init ==
  /\ fpc = "idle" /\ testcase = NoInput /\ trace_bits = {}
  /\ child_pid = NoPid /\ last_run_timed_out = FALSE /\ result = "none"
  /\ stop_soon = FALSE /\ ctl = <<>> /\ st = <<>>
  /\ persistent \in Persistent
  /\ spc = "read" /\ newborn = NoPid /\ srv_child = NoPid /\ child_stopped = FALSE
  /\ was_killed = FALSE /\ status = "exited" /\ term = FALSE
  /\ proc = [p \in Pids |-> "free"] /\ cycle_cnt = [p \in Pids |-> 0]
  /\ reading = [p \in Pids |-> NoInput] /\ pending = {}

(***************************************************************************)
(* Signals                                                                 *)
(***************************************************************************)

\* A stopped process acts on SIGKILL at once, on others when it is continued.
Signal(p, sig) ==
  IF p \notin Pids \/ proc[p] \notin Alive THEN UNCHANGED <<proc, pending>>
  ELSE IF sig = "TERM" /\ proc[p] = "stopped"
       THEN pending' = pending \cup {p} /\ UNCHANGED proc
       ELSE proc' = [proc EXCEPT ![p] = "killed"] /\ UNCHANGED pending

(***************************************************************************)
(* afl-fuzz                                                                *)
(***************************************************************************)

\* The caller, who looks at stop_soon after every run, writes the test case;
\* the run begins by clearing the map.
Run(in) ==
  /\ fpc = "idle" /\ ~stop_soon /\ result # "fatal"
  /\ fpc' = "ask" /\ testcase' = in /\ trace_bits' = {} /\ result' = "none"
  /\ UNCHANGED <<child_pid, last_run_timed_out, stop_soon, ctl, st, server,
                 term, children>>

\* Mutant: the server is not told that the previous run was killed.
WriteValueForgotten == FALSE
WriteValue == last_run_timed_out

Ask ==
  /\ fpc = "ask" /\ spc # "dead"
  /\ ctl' = Append(ctl, WriteValue)
  /\ last_run_timed_out' = FALSE
  /\ fpc' = "pid"
  /\ UNCHANGED <<testcase, child_pid, result, stop_soon, trace_bits, st,
                 server, term, children>>

\* A server that cannot fork sends no pid and is given up with FATAL, which is
\* left out.
ReadPid ==
  /\ fpc = "pid" /\ st # <<>>
  /\ child_pid' = Head(st) /\ st' = Tail(st)
  /\ fpc' = "poll"
  /\ UNCHANGED <<testcase, last_run_timed_out, result, stop_soon, trace_bits,
                 ctl, server, term, children>>

Verdict(s) ==
  IF last_run_timed_out THEN "TMOUT" ELSE IF s = "killed" THEN "CRASH" ELSE "OK"

\* The status has been read: the run returns.
Report(s) ==
  /\ child_pid' = IF s = "stopped" THEN child_pid ELSE NoPid
  /\ result' = Verdict(s)
  /\ fpc' = "idle"
  /\ st' = Tail(st)
  /\ UNCHANGED <<testcase, last_run_timed_out, stop_soon, trace_bits, ctl,
                 server, term, children>>

\* read_s32_timed: a status arrived before the time limit.
ReadStatus == fpc = "poll" /\ st # <<>> /\ ~stop_soon /\ Report(Head(st))

\* read_s32_timed: poll() found nothing within the time limit.
Expire ==
  /\ fpc = "poll" /\ st = <<>> /\ spc # "dead"
  /\ fpc' = "kill"
  /\ UNCHANGED <<testcase, child_pid, last_run_timed_out, result, stop_soon,
                 trace_bits, ctl, st, server, term, children>>

\* Mutant: child_pid is cleared before the signal is sent.
VictimCleared == NoPid
Victim == child_pid

Kill ==
  /\ fpc = "kill"
  /\ Signal(Victim, KillSignal)
  /\ child_pid' = NoPid /\ last_run_timed_out' = TRUE
  /\ fpc' = "late"
  /\ UNCHANGED <<testcase, result, stop_soon, trace_bits, ctl, st, server, term,
                 cycle_cnt, reading>>

\* The blocking read after the kill.
ReadLate == fpc = "late" /\ st # <<>> /\ Report(Head(st))

\* The pipes are closed, or the user stopped the fuzzer while it polled.
GiveUp ==
  /\ \/ fpc = "ask" /\ spc = "dead"
     \/ fpc \in {"pid", "poll", "late"} /\ st = <<>> /\ spc = "dead"
     \/ fpc = "poll" /\ st # <<>> /\ stop_soon
  /\ result' = IF stop_soon THEN "stopped" ELSE "fatal"
  /\ fpc' = "idle"
  /\ UNCHANGED <<testcase, child_pid, last_run_timed_out, stop_soon, trace_bits,
                 ctl, st, server, term, children>>

\* handle_stop_sig, at any moment: flag, then the child, then the server.
Stop ==
  /\ ~stop_soon /\ result # "fatal"
  /\ stop_soon' = TRUE
  /\ Signal(child_pid, KillSignal)
  /\ term' = TRUE
  /\ UNCHANGED <<fpc, testcase, child_pid, last_run_timed_out, result,
                 trace_bits, ctl, st, server, cycle_cnt, reading>>

(***************************************************************************)
(* The fork server                                                         *)
(***************************************************************************)

Unmoved == UNCHANGED <<fuzzer, trace_bits, term, persistent>>

\* A stopped child is written off if it was killed, and woken otherwise.
AfterRead(killed) ==
  IF ~child_stopped THEN "fork" ELSE IF killed THEN "reap" ELSE "cont"

ServerRead ==
  /\ spc = "read" /\ ctl # <<>>
  /\ was_killed' = Head(ctl) /\ ctl' = Tail(ctl)
  /\ spc' = AfterRead(Head(ctl))
  /\ child_stopped' = FALSE
  /\ UNCHANGED <<newborn, srv_child, status, st, children>> /\ Unmoved

\* Mutant: the killed child is never waited for.
ReapNot ==
  /\ spc = "reap" /\ spc' = "fork"
  /\ UNCHANGED <<newborn, srv_child, child_stopped, was_killed, status, ctl, st,
                 children>> /\ Unmoved

\* waitpid(child_pid, &status, 0): a stop does not end this wait.
Reap ==
  /\ spc = "reap" /\ proc[srv_child] \in Zombie
  /\ proc' = [proc EXCEPT ![srv_child] = "free"]
  /\ spc' = "fork"
  /\ UNCHANGED <<newborn, srv_child, child_stopped, was_killed, status, ctl, st,
                 cycle_cnt, reading, pending>> /\ Unmoved

\* fork() has made the child; child_pid still holds the previous one.
Fork(p) ==
  /\ spc = "fork" /\ proc[p] = "free"
  /\ proc' = [proc EXCEPT ![p] = "start"]
  /\ cycle_cnt' = [cycle_cnt EXCEPT ![p] = 0]
  /\ reading' = [reading EXCEPT ![p] = NoInput]
  /\ pending' = pending \ {p}
  /\ newborn' = p /\ spc' = "forked"
  /\ UNCHANGED <<srv_child, child_stopped, was_killed, status, ctl, st>>
  /\ Unmoved

Forked ==
  /\ spc = "forked"
  /\ srv_child' = newborn /\ newborn' = NoPid /\ spc' = "pid"
  /\ UNCHANGED <<child_stopped, was_killed, status, ctl, st, children>>
  /\ Unmoved

ForkFails ==
  /\ spc = "fork" /\ spc' = "dead"
  /\ UNCHANGED <<newborn, srv_child, child_stopped, was_killed, status, ctl, st,
                 children>> /\ Unmoved

\* kill(child_pid, SIGCONT): a pending signal is delivered at that moment.
Continue ==
  /\ spc = "cont"
  /\ proc' = IF proc[srv_child] # "stopped" THEN proc
             ELSE [proc EXCEPT ![srv_child] =
                     IF srv_child \in pending THEN "killed" ELSE "start"]
  /\ pending' = pending \ {srv_child}
  /\ spc' = "pid"
  /\ UNCHANGED <<newborn, srv_child, child_stopped, was_killed, status, ctl, st,
                 cycle_cnt, reading>> /\ Unmoved

WritePid ==
  /\ spc = "pid"
  /\ st' = Append(st, srv_child) /\ spc' = "wait"
  /\ UNCHANGED <<newborn, srv_child, child_stopped, was_killed, status, ctl,
                 children>> /\ Unmoved

\* waitpid(child_pid, &status, WUNTRACED): the child ended, or stopped itself.
Wait ==
  /\ spc = "wait" /\ proc[srv_child] \in Zombie \cup {"stopped"}
  /\ status' = proc[srv_child]
  /\ child_stopped' = (proc[srv_child] = "stopped")
  /\ proc' = IF proc[srv_child] = "stopped" THEN proc
             ELSE [proc EXCEPT ![srv_child] = "free"]
  /\ spc' = "relay"
  /\ UNCHANGED <<newborn, srv_child, was_killed, ctl, st, cycle_cnt, reading,
                 pending>> /\ Unmoved

Relay ==
  /\ spc = "relay"
  /\ st' = Append(st, status) /\ spc' = "read"
  /\ UNCHANGED <<newborn, srv_child, child_stopped, was_killed, status, ctl,
                 children>> /\ Unmoved

\* The SIGTERM handler at_exit: kill and wait for child_pid, then leave.
AtExit ==
  /\ term /\ spc # "dead"
  /\ spc' = "dead"
  /\ proc' = IF srv_child = NoPid THEN proc ELSE [proc EXCEPT ![srv_child] = "free"]
  /\ UNCHANGED <<newborn, srv_child, child_stopped, was_killed, status, ctl, st,
                 cycle_cnt, reading, pending>> /\ Unmoved

(***************************************************************************)
(* The children                                                            *)
(***************************************************************************)

ChildOnly == UNCHANGED <<fuzzer, ctl, st, server, term, pending>>

FirstCycles(p) ==
  IF cycle_cnt[p] = 0 THEN [cycle_cnt EXCEPT ![p] = Cycles] ELSE cycle_cnt

\* An iteration begins; the first one clears the map.
Begin(p) ==
  /\ proc[p] = "start"
  /\ proc' = [proc EXCEPT ![p] = "run"]
  /\ reading' = [reading EXCEPT ![p] = testcase]
  /\ trace_bits' = IF persistent /\ cycle_cnt[p] = 0 THEN {} ELSE trace_bits
  /\ cycle_cnt' = FirstCycles(p)
  /\ ChildOnly

Trace(p) ==
  /\ proc[p] = "run"
  /\ proc' = [proc EXCEPT ![p] = "traced"]
  /\ trace_bits' = trace_bits \cup {reading[p]}
  /\ UNCHANGED <<cycle_cnt, reading>> /\ ChildOnly

\* The input has been processed, or has crashed the process; a hang does neither.
End(p) ==
  /\ proc[p] = "traced" /\ Behaviour[reading[p]] # "hang"
  /\ LET left == cycle_cnt[p] - 1 IN
     IF Behaviour[reading[p]] = "crash"
     THEN proc' = [proc EXCEPT ![p] = "killed"] /\ UNCHANGED cycle_cnt
     ELSE /\ proc' = [proc EXCEPT ![p] =
                        IF persistent /\ left > 0 THEN "stopped" ELSE "exited"]
          /\ cycle_cnt' = [cycle_cnt EXCEPT ![p] = left]
  /\ UNCHANGED <<reading, trace_bits>> /\ ChildOnly

(***************************************************************************)
(* The specification                                                       *)
(***************************************************************************)

FuzzerStep == Ask \/ ReadPid \/ ReadStatus \/ Expire \/ Kill \/ ReadLate \/ GiveUp

ServerStep ==
  \/ ServerRead \/ Reap \/ (\E p \in Pids : Fork(p)) \/ Forked \/ ForkFails
  \/ Continue \/ WritePid \/ Wait \/ Relay \/ AtExit

ChildStep == \E p \in Pids : Begin(p) \/ Trace(p) \/ End(p)

\* No run is under way and none will follow.
Finished == fpc = "idle" /\ (stop_soon \/ result = "fatal") /\ UNCHANGED vars

Next ==
  \/ \E in \in Inputs : Run(in)
  \/ FuzzerStep \/ Stop \/ ServerStep \/ ChildStep \/ Finished

Spec == Init /\ [][Next]_vars

\* afl-fuzz and the server are scheduled; nothing is assumed of the target.
FairSpec == Spec /\ WF_vars(FuzzerStep) /\ WF_vars(ServerStep)

(***************************************************************************)
(* Properties                                                              *)
(***************************************************************************)

\* afl_fsrv_run_target implements RunTarget: whatever races with the timeout,
\* a status or a trace of one run is never taken for that of another.
Service == INSTANCE RunTarget WITH
  req     <- IF fpc = "idle" THEN NoInput ELSE testcase,
  verdict <- result,
  cov     <- IF result \in {"OK", "CRASH", "TMOUT"} THEN trace_bits ELSE {}

\* Every behaviour of the fork server protocol is one of RunTarget.
AnswersItsRequest == Service!Spec

\* While the fork server lives, every process but its current child has been
\* waited for: the write-off of a killed child leaves no zombie behind (and all
\* state keeps its type).
NoneLeftBehind ==
  /\ TypeOK
  /\ spc # "dead" =>
       \A p \in Pids : proc[p] # "free" => p = IF spc = "forked" THEN newborn ELSE srv_child

\* Every run returns: no order of timeout, kill, stop and wait leaves the three
\* processes waiting for each other.
RunReturns == fpc # "idle" ~> fpc = "idle"
=============================================================================
