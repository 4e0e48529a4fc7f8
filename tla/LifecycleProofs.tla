-------------------------- MODULE LifecycleProofs ---------------------------
(***************************************************************************)
(* Proofs about the runs of a fork server and its whole life, start and    *)
(* handover included (ForkServer, Lifecycle), for any inputs, process ids, *)
(* iterations, builds and configurations and either kill signal: no        *)
(* process is left behind, and callers see the service RunTarget.          *)
(***************************************************************************)
EXTENDS Lifecycle, TLAPS

\* Most steps are first-order; those that need arithmetic or records cite SMT.
USE Zenon

-----------------------------------------------------------------------------
(* The inductive invariant                                                 *)

\* A process in one of these states changes its state by itself.
Busy == {"start", "run", "traced"}

\* While the server lives, its current child is the only process there is.
OneChild ==
  spc # "dead" =>
    \A p \in Pids : proc[p] # "free" => p = IF spc = "forked" THEN newborn ELSE srv_child

\* What the server knows of its child at each point of its loop.
ServerInv ==
  /\ spc \in {"pid", "wait"} => srv_child \in Pids /\ proc[srv_child] # "free"
  /\ spc = "forked" => newborn \in Pids /\ proc[newborn] # "free"
  /\ spc \in {"reap", "cont"} \/ (spc \in {"relay", "read"} /\ child_stopped) =>
       srv_child \in Pids /\ proc[srv_child] \in {"stopped", "killed"}
  /\ spc = "fork" \/ (spc \in {"relay", "read"} /\ ~child_stopped) =>
       \A p \in Pids : proc[p] = "free"

\* A signal waits only for a process that has stopped; processes exist
\* only once there is an input; and an iteration has one, and counts.
ChildInv ==
  \A p \in Pids :
    /\ proc[p] \in Busy => p \notin pending
    /\ proc[p] # "free" => testcase \in Inputs
    /\ proc[p] \in {"run", "traced"} => cycle_cnt[p] > 0 /\ reading[p] \in Inputs

\* How far the exchange of the run under way has got on the two pipes.
PipeInv ==
  /\ fpc \in {"idle", "ask"} =>
       /\ spc \in {"read", "dead"} /\ (spc = "read" => ctl = <<>>)
       /\ fpc = "ask" \/ (~stop_soon /\ result # "fatal") => ctl = <<>> /\ st = <<>>
  /\ fpc = "pid" =>
       \/ Len(ctl) = 1 /\ st = <<>> /\ spc \in {"read", "dead"}
       \/ ctl = <<>> /\ st = <<>>
          /\ spc \in {"reap", "fork", "forked", "cont", "pid", "dead"}
       \/ ctl = <<>> /\ srv_child \in Pids /\ st = <<srv_child>>
          /\ spc \in {"wait", "relay", "dead"}
       \/ ctl = <<>> /\ srv_child \in Pids /\ spc \in {"read", "dead"}
          /\ Len(st) = 2 /\ st[1] = srv_child /\ st[2] = status
  /\ fpc \in {"poll", "kill", "late"} =>
       /\ ctl = <<>>
       /\ \/ st = <<>> /\ spc \in {"wait", "relay", "dead"}
          \/ Len(st) = 1 /\ st[1] = status /\ spc \in {"read", "dead"}

\* The status of the run under way is on the pipe.
Told == (fpc = "pid" /\ Len(st) = 2) \/ (fpc \in {"poll", "kill", "late"} /\ st # <<>>)

\* No run is under way, or no child of it yet, or no more: nobody may run.
Calm ==
  \/ fpc = "idle" /\ result \notin {"stopped", "fatal"}
  \/ fpc = "ask" \/ (fpc = "pid" /\ ctl # <<>>) \/ Told

RunInv ==
  /\ fpc # "idle" => testcase \in Inputs /\ result = "none"
  /\ result = "stopped" => stop_soon
  /\ fpc \in {"pid", "poll", "kill"} => ~last_run_timed_out
  /\ fpc = "late" => last_run_timed_out
  /\ Calm => \A p \in Pids : proc[p] \notin Busy

\* What a child of the current run that ended with s has left in the map.  Only
\* if nobody interfered does s tell what the input did.
Outcome(s) ==
  /\ trace_bits \in {{}, {testcase}}
  /\ ~stop_soon /\ ~last_run_timed_out =>
       /\ trace_bits = {testcase}
       /\ Behaviour[testcase] = IF s = "killed" THEN "crash" ELSE "ok"

\* The map between the request and the answer.
TraceInv ==
  /\ fpc = "ask" \/ spc \in {"reap", "fork", "cont"} \/ (fpc = "pid" /\ ctl # <<>>) =>
       trace_bits = {}
  /\ spc \in {"forked", "pid", "wait"} => \A p \in Pids :
       /\ proc[p] \in {"start", "run"} => trace_bits = {}
       /\ proc[p] \in {"run", "traced"} => reading[p] = testcase
       /\ proc[p] = "traced" => trace_bits = {testcase}
       /\ proc[p] \in Zombie \cup {"stopped"} => Outcome(proc[p])
  /\ spc = "relay" \/ Told => Outcome(status)

\* Nobody has signalled the child the server last saw.
Unharmed ==
  ~stop_soon /\ ~last_run_timed_out /\ (ctl # <<>> => Head(ctl) = FALSE)

\* A stopped child is only ever continued if it is still there and will go on.
StopInv ==
  Unharmed /\ spc \notin {"reap", "dead"} =>
    /\ \A p \in Pids : proc[p] = "stopped" => p \notin pending
    /\ (spc \in {"relay", "read"} /\ child_stopped) \/ spc = "cont" =>
         proc[srv_child] = "stopped"

IInv ==
  TypeOK /\ OneChild /\ ServerInv /\ ChildInv /\ PipeInv /\ RunInv /\ TraceInv /\ StopInv

-----------------------------------------------------------------------------
(* afl-fuzz                                                                *)

\* Of two messages in a pipe the second is the first one left.
LEMMA SecondOfTwo ==
  ASSUME NEW S, NEW s \in Seq(S), Len(s) = 2
  PROVE  Head(s) = s[1] /\ Len(Tail(s)) = 1 /\ Tail(s)[1] = s[2]
  <1>1. s # <<>>
    BY SMT
  <1> QED
    BY <1>1, SMT

\* Before the first run no process exists and the pipes are empty.
LEMMA InitIInv == Init => IInv
  <1> SUFFICES ASSUME Init PROVE IInv
    OBVIOUS
  <1> USE ForkServerAssumption DEF Init
  <1>0. /\ proc \in [Pids -> {"free"} \cup Alive \cup Zombie]
        /\ cycle_cnt \in [Pids -> 0..Cycles]
        /\ reading \in [Pids -> Inputs \cup {NoInput}]
        /\ ctl \in Seq(BOOLEAN) /\ st \in Seq(Pids \cup Zombie \cup {"stopped"})
    BY SMT
  <1>1. TypeOK
    BY <1>0 DEF TypeOK, Zombie, Results
  <1>2. OneChild /\ ServerInv /\ ChildInv
    BY DEF OneChild, ServerInv, ChildInv, Busy
  <1>3. PipeInv /\ RunInv
    BY DEF PipeInv, RunInv, Busy, Calm, Told
  <1>4. TraceInv /\ StopInv
    BY DEF TraceInv, StopInv, Told, Unharmed
  <1> QED
    BY <1>1, <1>2, <1>3, <1>4 DEF IInv

\* A step of afl-fuzz that sends no signal leaves server and children alone.
LEMMA SameChildren ==
  ASSUME OneChild, ServerInv, ChildInv, UNCHANGED <<server, children>>,
         testcase' = testcase \/ testcase' \in Inputs
  PROVE  OneChild' /\ ServerInv' /\ ChildInv'
  BY DEF OneChild, ServerInv, ChildInv, server, children

\* What a signal can do: kill a process that is alive, or stay pending for one
\* that has stopped.
LEMMA SignalEffect ==
  ASSUME TypeOK, NEW q \in Pids \cup {NoPid}, NEW sig, Signal(q, sig)
  PROVE  /\ proc' \in [Pids -> {"free"} \cup Alive \cup Zombie]
         /\ pending' \subseteq Pids
         /\ \A p \in Pids :
              /\ proc'[p] = proc[p] \/ (proc[p] \in Alive /\ proc'[p] = "killed")
              /\ p \in pending' => p \in pending \/ proc[p] = "stopped"
  <1> USE DEF TypeOK, Signal, Alive, Zombie
  <1>1. CASE UNCHANGED <<proc, pending>>
    BY <1>1
  <1>2. CASE /\ q \in Pids /\ proc[q] = "stopped"
             /\ pending' = pending \cup {q} /\ UNCHANGED proc
    BY <1>2
  <1>3. CASE /\ q \in Pids /\ proc[q] \in Alive
             /\ proc' = [proc EXCEPT ![q] = "killed"] /\ UNCHANGED pending
    BY <1>3
  <1> QED
    BY <1>1, <1>2, <1>3

\* So whoever is signalled, the server finds its child where it left it.
LEMMA SignalledChildren ==
  ASSUME IInv, NEW q \in Pids \cup {NoPid}, NEW sig, Signal(q, sig),
         UNCHANGED <<server, cycle_cnt, reading, testcase>>
  PROVE  OneChild' /\ ServerInv' /\ ChildInv'
  <1>1. /\ proc' \in [Pids -> {"free"} \cup Alive \cup Zombie]
        /\ pending' \subseteq Pids
        /\ \A p \in Pids :
              /\ proc'[p] = proc[p] \/ (proc[p] \in Alive /\ proc'[p] = "killed")
              /\ p \in pending' => p \in pending \/ proc[p] = "stopped"
    BY SignalEffect DEF IInv
  <1>2. OneChild'
    BY <1>1 DEF IInv, TypeOK, OneChild, server, Alive
  <1>3. ServerInv'
    BY <1>1 DEF IInv, ServerInv, server, Alive
  <1>4. ChildInv'
    BY <1>1 DEF IInv, TypeOK, ChildInv, Busy, Alive
  <1> QED
    BY <1>2, <1>3, <1>4

\* Run: a new request finds both pipes empty, clears the map, and nobody runs.
LEMMA RunStep ==
  ASSUME IInv, NEW in \in Inputs, Run(in)
  PROVE  IInv'
  <1> USE DEF IInv, Run, fuzzer, server, children
  <1>1. TypeOK'
    BY SMT DEF TypeOK, Results
  <1>2. OneChild' /\ ServerInv' /\ ChildInv'
    BY SameChildren
  <1>3. PipeInv'
    BY DEF PipeInv, TypeOK
  <1>4. RunInv'
    BY DEF RunInv, PipeInv, TypeOK, Calm, Told
  <1>5. TraceInv'
    BY DEF TraceInv, PipeInv, Told, Outcome
  <1>6. StopInv'
    BY DEF StopInv, Unharmed
  <1> QED
    BY <1>1, <1>2, <1>3, <1>4, <1>5, <1>6

\* Ask: the request carries the flag that the previous run left.
LEMMA AskStep ==
  ASSUME IInv, Ask
  PROVE  IInv'
  <1> USE DEF IInv, Ask, WriteValue, fuzzer, server, children
  <1>1. ctl = <<>> /\ st = <<>> /\ spc = "read"
    BY DEF PipeInv, TypeOK
  <1>2. last_run_timed_out \in BOOLEAN
    BY DEF TypeOK
  <1>3. /\ ctl' \in Seq(BOOLEAN) /\ ctl' # <<>> /\ Len(ctl') = 1
        /\ Head(ctl') = last_run_timed_out
    BY <1>1, <1>2, SMT
  <1>4. TypeOK'
    <2>1. ctl' \in Seq(BOOLEAN) /\ last_run_timed_out' \in BOOLEAN
      BY <1>3
    <2>2. UNCHANGED <<testcase, child_pid, result, stop_soon, trace_bits, st, persistent,
             spc, newborn, srv_child, child_stopped, was_killed, status, term, proc,
             cycle_cnt, reading, pending>> /\ fpc' = "pid"
      OBVIOUS
    <2> HIDE DEF Ask
    <2> QED
      BY <2>1, <2>2, SMT DEF TypeOK
  <1>5. OneChild' /\ ServerInv' /\ ChildInv'
    BY SameChildren
  <1>6. PipeInv'
    BY <1>1, <1>3 DEF PipeInv
  <1>7. RunInv'
    BY <1>1, <1>3 DEF RunInv, Calm, Told
  <1>8. TraceInv'
    BY <1>1, SMT DEF TraceInv, Told
  <1>9. StopInv'
    BY <1>1, <1>2, <1>3 DEF StopInv, Unharmed
  <1> QED
    BY <1>4, <1>5, <1>6, <1>7, <1>8, <1>9

\* ReadPid: what comes first on the status pipe is the process id.
LEMMA ReadPidStep ==
  ASSUME IInv, ReadPid
  PROVE  IInv'
  <1> USE DEF IInv, ReadPid, fuzzer, server, children
  <1>1. /\ ctl = <<>> /\ child_pid' \in Pids
        /\ \/ st = <<srv_child>> /\ st' = <<>> /\ spc \in {"wait", "relay", "dead"}
           \/ /\ Len(st) = 2 /\ Len(st') = 1 /\ st'[1] = status
              /\ spc \in {"read", "dead"}
    <2>1. CASE srv_child \in Pids /\ st = <<srv_child>>
      BY <2>1, SMT DEF PipeInv
    <2>2. CASE srv_child \in Pids /\ Len(st) = 2 /\ st[1] = srv_child /\ st[2] = status
      <3>1. ctl = <<>> /\ spc \in {"read", "dead"}
        BY <2>2, SMT DEF PipeInv
      <3>2. st' = Tail(st) /\ child_pid' = Head(st) /\ st \in Seq(Pids \cup Zombie \cup {"stopped"})
        BY DEF TypeOK
      <3> HIDE DEF IInv, ReadPid
      <3>3. Head(st) = st[1] /\ Len(Tail(st)) = 1 /\ Tail(st)[1] = st[2]
        BY <2>2, <3>2, SecondOfTwo
      <3> QED
        BY <2>2, <3>1, <3>2, <3>3
    <2> QED
      BY <2>1, <2>2 DEF PipeInv
  <1>2. TypeOK'
    BY <1>1, SMT DEF TypeOK
  <1>3. OneChild' /\ ServerInv' /\ ChildInv'
    BY SameChildren
  <1>4. PipeInv'
    BY <1>1 DEF PipeInv
  <1>5. Told' = Told
    BY <1>1, SMT DEF Told
  <1>6. RunInv'
    BY <1>1, <1>5 DEF RunInv, Calm
  <1>7. TraceInv'
    BY <1>1, <1>5 DEF TraceInv, Outcome
  <1>8. StopInv'
    BY DEF StopInv, Unharmed
  <1> QED
    BY <1>2, <1>3, <1>4, <1>6, <1>7, <1>8

\* ReadStatus and ReadLate: the status is the last thing on the pipe.
LEMMA ReportStep ==
  ASSUME IInv, ReadStatus \/ ReadLate
  PROVE  IInv'
  <1> USE DEF IInv, fuzzer, server, children
  <1>1. fpc \in {"poll", "late"} /\ st # <<>> /\ Report(Head(st))
    BY DEF ReadStatus, ReadLate
  <1> USE <1>1 DEF Report
  <1>2. Len(st) = 1 /\ st' = <<>> /\ ctl = <<>> /\ spc \in {"read", "dead"}
    BY SMT DEF PipeInv, TypeOK
  <1>3. result' \in {"OK", "CRASH", "TMOUT"}
    BY DEF Verdict
  <1>4. TypeOK'
    BY <1>2, <1>3, SMT DEF TypeOK, Results
  <1>5. OneChild' /\ ServerInv' /\ ChildInv'
    BY SameChildren
  <1>6. PipeInv'
    BY <1>2 DEF PipeInv
  <1>7. RunInv'
    BY <1>3 DEF RunInv, Calm, Told
  <1>8. TraceInv'
    BY <1>2 DEF TraceInv, Told
  <1>9. StopInv'
    BY DEF StopInv, Unharmed
  <1> QED
    BY <1>4, <1>5, <1>6, <1>7, <1>8, <1>9

\* Expire: nothing but the place in the code changes.
LEMMA ExpireStep ==
  ASSUME IInv, Expire
  PROVE  IInv'
  <1> USE DEF IInv, Expire, fuzzer, server, children
  <1>1. TypeOK'
    BY SMT DEF TypeOK
  <1>2. OneChild' /\ ServerInv' /\ ChildInv'
    BY SameChildren
  <1>3. PipeInv'
    BY DEF PipeInv
  <1>4. RunInv'
    BY DEF RunInv, Calm, Told
  <1>5. TraceInv'
    BY DEF TraceInv, Told, Outcome
  <1>6. StopInv'
    BY DEF StopInv, Unharmed
  <1> QED
    BY <1>1, <1>2, <1>3, <1>4, <1>5, <1>6

\* A signal from afl-fuzz, sent by Kill or by Stop, leaves the map between the
\* request and the answer as it must be: what the child's status says of the
\* input no longer counts.
LEMMA SignalledTrace ==
  ASSUME IInv, NEW q \in Pids \cup {NoPid}, NEW sig, Signal(q, sig),
         UNCHANGED <<server, reading, trace_bits, testcase, ctl, st>>,
         fpc' = fpc \/ (fpc = "kill" /\ fpc' = "late"),
         stop_soon' \/ last_run_timed_out'
  PROVE  TraceInv' /\ StopInv'
  <1>0. TypeOK /\ TraceInv /\ UNCHANGED <<spc, child_stopped, srv_child, status>>
    BY DEF IInv, server
  <1>1. /\ proc' \in [Pids -> {"free"} \cup Alive \cup Zombie]
        /\ pending' \subseteq Pids
        /\ \A p \in Pids :
              /\ proc'[p] = proc[p] \/ (proc[p] \in Alive /\ proc'[p] = "killed")
              /\ p \in pending' => p \in pending \/ proc[p] = "stopped"
    BY <1>0, SignalEffect
  <1>2. Told' = Told
    BY <1>0 DEF Told
  <1>3. ASSUME NEW s, NEW t, Outcome(s)
        PROVE  Outcome(t)'
    BY <1>3 DEF Outcome
  <1>4. ASSUME spc' \in {"forked", "pid", "wait"}, NEW p \in Pids
        PROVE  (/\ proc[p] \in {"start", "run"} => trace_bits = {}
                /\ proc[p] \in {"run", "traced"} => reading[p] = testcase
                /\ proc[p] = "traced" => trace_bits = {testcase}
                /\ proc[p] \in Zombie \cup {"stopped"} => Outcome(proc[p]))'
    <2>1. CASE proc'[p] = proc[p]
      BY <1>0, <1>3, <1>4, <2>1 DEF TraceInv
    <2>2. CASE proc[p] \in Alive /\ proc'[p] = "killed"
      <3>1. trace_bits \in {{}, {testcase}}
        BY <1>0, <1>4, <2>2 DEF TraceInv, Alive, Outcome
      <3> QED
        BY <1>0, <2>2, <3>1 DEF Outcome
    <2> QED
      BY <1>1, <2>1, <2>2
  <1>5. TraceInv'
    <2>1. (fpc = "ask" \/ spc \in {"reap", "fork", "cont"} \/ (fpc = "pid" /\ ctl # <<>>) =>
             trace_bits = {})'
      BY <1>0 DEF TraceInv
    <2>2. (spc = "relay" \/ Told => Outcome(status))'
      BY <1>0, <1>2, <1>3 DEF TraceInv
    <2> QED
      BY <1>4, <2>1, <2>2 DEF TraceInv
  <1>6. StopInv'
    BY <1>0 DEF StopInv, Unharmed
  <1> QED
    BY <1>5, <1>6

\* Kill: the time is up.
LEMMA KillStep ==
  ASSUME IInv, Kill
  PROVE  IInv'
  <1> USE DEF IInv, Kill, fuzzer, server
  <1>0. child_pid \in Pids \cup {NoPid} /\ Signal(child_pid, KillSignal)
    BY DEF TypeOK, Victim
  <1>1. /\ proc' \in [Pids -> {"free"} \cup Alive \cup Zombie]
        /\ pending' \subseteq Pids
        /\ \A p \in Pids :
              /\ proc'[p] = proc[p] \/ (proc[p] \in Alive /\ proc'[p] = "killed")
              /\ p \in pending' => p \in pending \/ proc[p] = "stopped"
    BY <1>0, SignalEffect
  <1>2. TypeOK'
    BY <1>1, SMT DEF TypeOK
  <1>3. OneChild' /\ ServerInv' /\ ChildInv'
    BY <1>0, SignalledChildren
  <1>4. PipeInv'
    BY DEF PipeInv
  <1>5. RunInv'
    BY <1>1 DEF RunInv, Calm, Told, Busy
  <1>6. TraceInv' /\ StopInv'
    BY <1>0, SignalledTrace
  <1> QED
    BY <1>2, <1>3, <1>4, <1>5, <1>6

\* GiveUp: the request is dropped; what is still on the pipes is never read.
LEMMA GiveUpStep ==
  ASSUME IInv, GiveUp
  PROVE  IInv'
  <1> USE DEF IInv, GiveUp, fuzzer, server, children
  <1>1. TypeOK'
    BY SMT DEF TypeOK, Results
  <1>2. OneChild' /\ ServerInv' /\ ChildInv'
    BY SameChildren
  <1>3. PipeInv'
    BY DEF PipeInv, TypeOK
  <1>4. RunInv'
    BY DEF RunInv, Calm, Told, TypeOK
  <1>5. TraceInv'
    BY DEF TraceInv, PipeInv, Told, Outcome
  <1>6. StopInv'
    BY DEF StopInv, Unharmed
  <1> QED
    BY <1>1, <1>2, <1>3, <1>4, <1>5, <1>6

\* Stop: handle_stop_sig, between any two steps.
LEMMA StopStep ==
  ASSUME IInv, Stop
  PROVE  IInv'
  <1> USE DEF IInv, Stop, fuzzer, server
  <1>0. child_pid \in Pids \cup {NoPid} /\ Signal(child_pid, KillSignal)
    BY DEF TypeOK
  <1>1. /\ proc' \in [Pids -> {"free"} \cup Alive \cup Zombie]
        /\ pending' \subseteq Pids
        /\ \A p \in Pids :
              /\ proc'[p] = proc[p] \/ (proc[p] \in Alive /\ proc'[p] = "killed")
              /\ p \in pending' => p \in pending \/ proc[p] = "stopped"
    BY <1>0, SignalEffect
  <1>2. TypeOK'
    BY <1>1, SMT DEF TypeOK
  <1>3. OneChild' /\ ServerInv' /\ ChildInv'
    BY <1>0, SignalledChildren
  <1>4. PipeInv'
    BY DEF PipeInv
  <1>5. RunInv'
    BY <1>1 DEF RunInv, Calm, Told, Busy
  <1>6. TraceInv' /\ StopInv'
    BY <1>0, SignalledTrace
  <1> QED
    BY <1>2, <1>3, <1>4, <1>5, <1>6

-----------------------------------------------------------------------------
(* The fork server                                                         *)

\* ServerRead: the request is taken from the pipe.  A stopped child is written
\* off exactly if afl-fuzz killed it.
LEMMA ServerReadStep ==
  ASSUME IInv, ServerRead
  PROVE  IInv'
  <1> USE DEF IInv
  <1>1. /\ spc = "read" /\ ctl # <<>> /\ ctl' = Tail(ctl)
        /\ child_stopped' = FALSE
        /\ UNCHANGED <<fpc, testcase, child_pid, last_run_timed_out, result, stop_soon,
              trace_bits, term, persistent, newborn, srv_child, status, st, proc,
              cycle_cnt, reading, pending>>
    BY DEF ServerRead, Unmoved, fuzzer, children
  <1>2. fpc = "pid" /\ Len(ctl) = 1 /\ ctl \in Seq(BOOLEAN) /\ st = <<>>
    BY <1>1 DEF PipeInv, TypeOK
  <1>3. ctl' = <<>> /\ ctl' \in Seq(BOOLEAN)
    BY <1>1, <1>2, SMT
  <1>4. Head(ctl) \in BOOLEAN /\ child_stopped \in BOOLEAN
    BY <1>1, <1>2, SMT DEF TypeOK
  <1>5. \/ spc' = "fork" /\ child_stopped = FALSE
        \/ spc' \in {"reap", "cont"} /\ child_stopped
    BY <1>4 DEF ServerRead, AfterRead
  <1>6. spc' = "cont" => Head(ctl) = FALSE
    BY <1>4 DEF ServerRead, AfterRead
  <1>7. TypeOK'
    <2>1. was_killed' \in BOOLEAN
      BY <1>4 DEF ServerRead
    <2>2. spc' \in {"fork", "reap", "cont"} /\ child_stopped' \in BOOLEAN
      BY <1>1, <1>5
    <2> QED
      BY <1>1, <1>3, <2>1, <2>2, SMT DEF TypeOK
  <1>8. OneChild' /\ ServerInv' /\ ChildInv'
    BY <1>1, <1>5 DEF OneChild, ServerInv, ChildInv, TypeOK
  <1>9. PipeInv'
    BY <1>1, <1>2, <1>3, <1>5 DEF PipeInv
  <1>10. RunInv'
    BY <1>1, <1>2, <1>3 DEF RunInv, Calm, Told
  <1>11. TraceInv'
    BY <1>1, <1>2, <1>5, SMT DEF TraceInv, Told
  <1>12. StopInv'
    <2>1. CASE spc' = "fork"
      BY <1>1, <1>5, <2>1 DEF StopInv, ServerInv
    <2>2. CASE spc' = "cont"
      <3>1. Unharmed' => Unharmed
        BY <1>1, <1>6, <2>2 DEF Unharmed
      <3> QED
        BY <1>1, <1>5, <2>2, <3>1 DEF StopInv
    <2> QED
      BY <1>5, <2>1, <2>2 DEF StopInv
  <1> QED
    BY <1>7, <1>8, <1>9, <1>10, <1>11, <1>12

\* Reap: the child that was written off is gone.
LEMMA ReapStep ==
  ASSUME IInv, Reap
  PROVE  IInv'
  <1>1. UNCHANGED <<fpc, testcase, child_pid, last_run_timed_out, result, stop_soon, trace_bits,
           ctl, st, persistent, newborn, srv_child, child_stopped, was_killed, status, term,
           cycle_cnt, reading, pending>>
    BY DEF Reap, Unmoved, fuzzer
  <1>2. /\ spc = "reap" /\ spc' = "fork" /\ srv_child \in Pids
        /\ proc' = [proc EXCEPT ![srv_child] = "free"]
    BY DEF IInv, Reap, ServerInv
  <1>3. proc \in [Pids -> {"free"} \cup Alive \cup Zombie]
    BY DEF IInv, TypeOK
  <1>4. /\ proc' \in [Pids -> {"free"} \cup Alive \cup Zombie]
        /\ \A p \in Pids : proc'[p] = "free"
    BY <1>2, <1>3 DEF IInv, OneChild
  <1>5. TypeOK'
    BY <1>1, <1>2, <1>4, SMT DEF IInv, TypeOK
  <1>6. OneChild' /\ ServerInv' /\ ChildInv'
    BY <1>2, <1>4 DEF OneChild, ServerInv, ChildInv, Busy
  <1>7. PipeInv'
    BY <1>1, <1>2 DEF IInv, PipeInv
  <1>8. RunInv'
    BY <1>1, <1>4 DEF IInv, RunInv, Busy
  <1>9. TraceInv'
    BY <1>1, <1>2, SMT DEF IInv, TraceInv, PipeInv, Told
  <1>10. StopInv'
    BY <1>2, <1>4 DEF StopInv
  <1> QED
    BY <1>5, <1>6, <1>7, <1>8, <1>9, <1>10 DEF IInv

\* Fork: the new process is the only one, and works on the request under way.
LEMMA ForkStep ==
  ASSUME IInv, NEW q \in Pids, Fork(q)
  PROVE  IInv'
  <1> USE ForkServerAssumption DEF IInv, Fork, Unmoved, fuzzer
  <1>0. fpc = "pid" /\ ctl = <<>> /\ st = <<>>
    BY DEF PipeInv, TypeOK
  <1>1. TypeOK'
    BY SMT DEF TypeOK, Alive
  <1>2. OneChild' /\ ServerInv' /\ ChildInv'
    BY <1>0, SMT DEF OneChild, ServerInv, ChildInv, RunInv, TypeOK, Busy
  <1>3. PipeInv'
    BY DEF PipeInv
  <1>4. RunInv'
    BY <1>0, SMT DEF RunInv, Calm, Told
  <1>5. TraceInv'
    BY <1>0, SMT DEF TraceInv, ServerInv, Told, TypeOK, Zombie
  <1>6. StopInv'
    BY DEF StopInv, ServerInv, Unharmed, TypeOK
  <1> QED
    BY <1>1, <1>2, <1>3, <1>4, <1>5, <1>6

\* Forked, ForkFails: the server notes its child, or leaves without one.
LEMMA ForkedStep ==
  ASSUME IInv, Forked \/ ForkFails
  PROVE  IInv'
  <1> USE DEF IInv, Forked, ForkFails, Unmoved, fuzzer, children
  <1>1. TypeOK'
    BY SMT DEF TypeOK
  <1>2. OneChild' /\ ServerInv' /\ ChildInv'
    BY DEF OneChild, ServerInv, ChildInv
  <1>3. PipeInv'
    BY DEF PipeInv
  <1>4. RunInv'
    BY SMT DEF RunInv, Calm, Told
  <1>5. TraceInv'
    BY DEF TraceInv, PipeInv, Told, Outcome
  <1>6. StopInv'
    BY DEF StopInv, Unharmed
  <1> QED
    BY <1>1, <1>2, <1>3, <1>4, <1>5, <1>6

\* Continue: a child nobody signalled goes on with the request under way; one
\* that was signalled dies of it now, but then afl-fuzz is about to stop.
LEMMA ContinueStep ==
  ASSUME IInv, Continue
  PROVE  IInv'
  <1> USE DEF IInv, Continue, Unmoved, fuzzer
  <1>0. fpc = "pid" /\ ctl = <<>> /\ st = <<>>
    BY DEF PipeInv, TypeOK
  <1>1. srv_child \in Pids /\ proc' \in [Pids -> {"free"} \cup Alive \cup Zombie]
    BY DEF ServerInv, TypeOK, Alive, Zombie
  <1>2. /\ proc'[srv_child] \in {"start", "killed"}
        /\ ~stop_soon => proc'[srv_child] = "start"
        /\ \A p \in Pids \ {srv_child} : proc'[p] = "free"
    BY <1>0 DEF ServerInv, OneChild, TypeOK, StopInv, Unharmed, RunInv
  <1>3. TypeOK'
    BY <1>1, SMT DEF TypeOK
  <1>4. OneChild' /\ ServerInv' /\ ChildInv'
    BY <1>1, <1>2 DEF OneChild, ServerInv, ChildInv, TypeOK, Busy
  <1>5. PipeInv'
    BY DEF PipeInv
  <1>6. RunInv'
    BY <1>0, SMT DEF RunInv, Calm, Told
  <1>7. TraceInv'
    BY <1>0, <1>1, <1>2 DEF TraceInv, Told, Outcome, Zombie
  <1>8. StopInv'
    BY <1>2 DEF StopInv, Unharmed
  <1> QED
    BY <1>3, <1>4, <1>5, <1>6, <1>7, <1>8

\* WritePid: the first half of the answer.
LEMMA WritePidStep ==
  ASSUME IInv, WritePid
  PROVE  IInv'
  <1> USE DEF IInv, WritePid, Unmoved, fuzzer, children
  <1>0. fpc = "pid" /\ ctl = <<>> /\ st = <<>> /\ srv_child \in Pids
    BY DEF PipeInv, ServerInv, TypeOK
  <1>1. st' = <<srv_child>> /\ Len(st') = 1
    BY <1>0, SMT
  <1>2. TypeOK'
    BY <1>0, SMT DEF TypeOK
  <1>3. OneChild' /\ ServerInv' /\ ChildInv'
    BY DEF OneChild, ServerInv, ChildInv
  <1>4. PipeInv'
    BY <1>0, <1>1 DEF PipeInv
  <1>5. RunInv'
    BY <1>0, <1>1, SMT DEF RunInv, Calm, Told
  <1>6. TraceInv'
    BY <1>0, <1>1, SMT DEF TraceInv, Told, Outcome
  <1>7. StopInv'
    BY DEF StopInv, Unharmed
  <1> QED
    BY <1>2, <1>3, <1>4, <1>5, <1>6, <1>7

\* Wait: a child that ended is gone, one that stopped itself stays.
LEMMA WaitStep ==
  ASSUME IInv, Wait
  PROVE  IInv'
  <1> USE DEF IInv, Wait, Unmoved, fuzzer
  <1>0. srv_child \in Pids
    BY DEF ServerInv
  <1>1. \/ proc[srv_child] = "stopped" /\ proc' = proc /\ child_stopped' = TRUE
        \/ /\ proc[srv_child] \in Zombie /\ proc' = [proc EXCEPT ![srv_child] = "free"]
           /\ child_stopped' = FALSE
    BY DEF Zombie
  <1>2. TypeOK'
    <2>1. /\ proc' \in [Pids -> {"free"} \cup Alive \cup Zombie]
          /\ status' \in Zombie \cup {"stopped"}
      BY <1>0, <1>1 DEF TypeOK
    <2>2. child_stopped' \in BOOLEAN
      BY <1>1
    <2> QED
      BY <2>1, <2>2, SMT DEF TypeOK
  <1>3. OneChild' /\ ChildInv'
    BY <1>0, <1>1 DEF OneChild, ChildInv, TypeOK, Busy
  <1>4. ServerInv'
    BY <1>0, <1>1 DEF OneChild, ServerInv, TypeOK
  <1>5. PipeInv'
    BY DEF PipeInv
  <1>6. RunInv'
    BY <1>0, <1>1 DEF RunInv, Calm, Told, TypeOK, Busy
  <1>7. TraceInv'
    BY <1>0 DEF TraceInv, PipeInv, Told, Outcome
  <1>8. StopInv'
    BY <1>0, <1>1 DEF StopInv, Unharmed, TypeOK
  <1> QED
    BY <1>2, <1>3, <1>4, <1>5, <1>6, <1>7, <1>8

\* Relay: the second half of the answer; from now on nobody runs.
LEMMA RelayStep ==
  ASSUME IInv, Relay
  PROVE  IInv'
  <1> USE DEF IInv, Relay, Unmoved, fuzzer, children
  <1>0. /\ ctl = <<>>
        /\ \/ fpc = "pid" /\ srv_child \in Pids /\ st = <<srv_child>>
              /\ Len(st') = 2 /\ st'[1] = srv_child /\ st'[2] = status
           \/ fpc \in {"poll", "kill", "late"} /\ st = <<>>
              /\ Len(st') = 1 /\ st'[1] = status
    <2>1. CASE fpc = "pid"
      <3>1. ctl = <<>> /\ srv_child \in Pids /\ st = <<srv_child>>
        BY <2>1 DEF PipeInv
      <3> QED
        BY <2>1, <3>1, SMT
    <2>2. CASE fpc # "pid"
      <3>1. ctl = <<>> /\ fpc \in {"poll", "kill", "late"} /\ st = <<>>
        BY <2>2 DEF PipeInv, TypeOK
      <3> QED
        BY <3>1, SMT
    <2> QED
      BY <2>1, <2>2
  <1>1. TypeOK'
    BY SMT DEF TypeOK
  <1>2. OneChild' /\ ServerInv' /\ ChildInv'
    BY DEF OneChild, ServerInv, ChildInv
  <1>3. PipeInv'
    BY <1>0 DEF PipeInv
  <1>4. RunInv'
    <2>1. \A p \in Pids : proc[p] \notin Busy
      BY DEF OneChild, ServerInv, TypeOK, Busy
    <2> QED
      BY <1>0, <2>1 DEF RunInv
  <1>5. TraceInv'
    BY <1>0 DEF TraceInv, Outcome
  <1>6. StopInv'
    BY DEF StopInv, Unharmed
  <1> QED
    BY <1>1, <1>2, <1>3, <1>4, <1>5, <1>6

\* AtExit: a server that is gone owes nothing, and an answer it has already
\* given stands, because nobody runs any more.
LEMMA AtExitStep ==
  ASSUME IInv, AtExit
  PROVE  IInv'
  <1> USE ForkServerAssumption DEF IInv, AtExit, Unmoved, fuzzer
  <1>1. /\ proc' \in [Pids -> {"free"} \cup Alive \cup Zombie]
        /\ \A p \in Pids : proc'[p] \in {proc[p], "free"}
    BY DEF TypeOK
  <1>2. TypeOK'
    BY <1>1, SMT DEF TypeOK
  <1>3. OneChild' /\ ServerInv' /\ ChildInv'
    BY <1>1 DEF OneChild, ServerInv, ChildInv, Busy
  <1>4. PipeInv'
    BY DEF PipeInv
  <1>5. RunInv'
    BY <1>1 DEF RunInv, Calm, Told, Busy
  <1>6. TraceInv'
    BY DEF TraceInv, Told, Outcome
  <1>7. StopInv'
    BY DEF StopInv
  <1> QED
    BY <1>2, <1>3, <1>4, <1>5, <1>6, <1>7

-----------------------------------------------------------------------------
(* The children                                                            *)

\* A process runs only between the fork and the status of its end: the run is
\* under way, and afl-fuzz has not been told its outcome.
LEMMA BusyMeansOpen ==
  ASSUME IInv, NEW q \in Pids, proc[q] \in Busy
  PROVE  /\ ~Calm
         /\ spc \in {"forked", "pid", "wait", "dead"}
         /\ spc # "dead" => fpc # "idle" /\ \A p \in Pids \ {q} : proc[p] = "free"
  <1> USE DEF IInv
  <1>1. ~Calm
    BY DEF RunInv
  <1>2. proc[q] \notin {"free", "stopped", "killed"}
    BY DEF Busy
  <1>3. spc \in {"forked", "pid", "wait", "dead"}
    BY <1>2 DEF ServerInv, OneChild, TypeOK
  <1>4. spc # "dead" => fpc # "idle" /\ \A p \in Pids \ {q} : proc[p] = "free"
    BY <1>2, <1>3 DEF OneChild, PipeInv
  <1> QED
    BY <1>1, <1>3, <1>4

\* A step of a child is seen by neither of the others, and what the child leaves
\* in the map has to agree with the input of the run.
LEMMA ChildMoves ==
  ASSUME IInv, NEW q \in Pids, proc[q] \in Busy, ChildOnly,
         proc' \in [Pids -> {"free"} \cup Alive \cup Zombie],
         cycle_cnt' \in [Pids -> 0..Cycles],
         reading' \in [Pids -> Inputs \cup {NoInput}],
         trace_bits' \in SUBSET Inputs,
         \A p \in Pids \ {q} : /\ proc'[p] = proc[p]
                               /\ cycle_cnt'[p] = cycle_cnt[p] /\ reading'[p] = reading[p],
         proc'[q] # "free",
         proc'[q] \in {"run", "traced"} => cycle_cnt'[q] > 0 /\ reading'[q] \in Inputs,
         spc # "dead" =>
           (/\ proc[q] \in {"start", "run"} => trace_bits = {}
            /\ proc[q] \in {"run", "traced"} => reading[q] = testcase
            /\ proc[q] = "traced" => trace_bits = {testcase}
            /\ proc[q] \in Zombie \cup {"stopped"} => Outcome(proc[q]))'
  PROVE  IInv'
  <1>1. UNCHANGED <<fpc, testcase, child_pid, last_run_timed_out, result, stop_soon, ctl, st>>
    BY DEF ChildOnly, fuzzer
  <1>2. UNCHANGED <<persistent, spc, newborn, srv_child, child_stopped, was_killed, status,
                    term, pending>>
    BY DEF ChildOnly, server
  <1>3. /\ ~Calm /\ spc \in {"forked", "pid", "wait", "dead"}
        /\ spc # "dead" => \A p \in Pids \ {q} : proc[p] = "free"
    BY BusyMeansOpen
  <1>4. ~Calm'
    BY <1>1, <1>3 DEF Calm, Told
  <1>5. TypeOK'
    BY <1>1, <1>2, SMT DEF IInv, TypeOK
  <1>6. OneChild'
    <2>1. proc[q] # "free"
      BY DEF Busy
    <2> QED
      BY <1>2, <2>1 DEF IInv, OneChild
  <1>7. ServerInv'
    BY <1>2, <1>3 DEF IInv, ServerInv
  <1>8. ChildInv'
    <2>1. proc[q] # "free" /\ q \notin pending /\ testcase \in Inputs
      BY DEF IInv, ChildInv, Busy
    <2> QED
      BY <1>1, <1>2, <2>1 DEF IInv, ChildInv
  <1>9. PipeInv'
    BY <1>1, <1>2 DEF IInv, PipeInv
  <1>10. RunInv'
    BY <1>1, <1>4 DEF IInv, RunInv
  <1>11. TraceInv'
    <2>1. ~(fpc = "ask" \/ spc \in {"reap", "fork", "cont"} \/ (fpc = "pid" /\ ctl # <<>>))'
      BY <1>1, <1>2, <1>3 DEF Calm
    <2>2. ~(spc = "relay" \/ Told)'
      BY <1>2, <1>3, <1>4 DEF Calm
    <2> QED
      BY <1>2, <1>3, <2>1, <2>2 DEF TraceInv, Zombie
  <1>12. StopInv'
    <2>1. Unharmed' = Unharmed
      BY <1>1 DEF Unharmed
    <2>2. q \notin pending
      BY DEF IInv, ChildInv
    <2> QED
      BY <1>2, <1>3, <2>1, <2>2 DEF IInv, StopInv
  <1> QED
    BY <1>5, <1>6, <1>7, <1>8, <1>9, <1>10, <1>11, <1>12 DEF IInv

\* What the map holds of the input of the run while its child goes from one
\* point of its iteration to the next.
LEMMA BusyTrace ==
  ASSUME IInv, NEW q \in Pids, proc[q] \in Busy
  PROVE  /\ testcase \in Inputs
         /\ spc # "dead" => /\ proc[q] \in {"start", "run"} => trace_bits = {}
                            /\ proc[q] \in {"run", "traced"} => reading[q] = testcase
                            /\ proc[q] = "traced" => trace_bits = {testcase}
  <1>1. testcase \in Inputs
    BY DEF IInv, ChildInv, Busy
  <1>2. spc \in {"forked", "pid", "wait", "dead"}
    BY BusyMeansOpen
  <1> QED
    BY <1>1, <1>2 DEF IInv, TraceInv

\* Begin: the child takes up the input of the run under way; the map is empty.
LEMMA BeginStep ==
  ASSUME IInv, NEW q \in Pids, Begin(q)
  PROVE  IInv'
  <1>1. /\ proc[q] = "start" /\ proc[q] \in Busy /\ ChildOnly
        /\ proc' = [proc EXCEPT ![q] = "run"]
        /\ reading' = [reading EXCEPT ![q] = testcase]
        /\ cycle_cnt' = FirstCycles(q)
        /\ trace_bits' \in {{}, trace_bits}
    BY DEF Begin, Busy
  <1>2. testcase' = testcase
    BY <1>1 DEF ChildOnly, fuzzer
  <1>3. testcase \in Inputs /\ (spc # "dead" => trace_bits = {})
    BY <1>1, BusyTrace
  <1>4. /\ proc \in [Pids -> {"free"} \cup Alive \cup Zombie]
        /\ cycle_cnt \in [Pids -> 0..Cycles] /\ Cycles \in Nat \ {0}
        /\ reading \in [Pids -> Inputs \cup {NoInput}]
        /\ trace_bits \in SUBSET Inputs
    BY ForkServerAssumption DEF IInv, TypeOK
  <1>5. /\ cycle_cnt' \in [Pids -> 0..Cycles] /\ cycle_cnt'[q] > 0
        /\ \A p \in Pids \ {q} : cycle_cnt'[p] = cycle_cnt[p]
    BY <1>1, <1>4, SMT DEF FirstCycles
  <1>6. /\ proc' \in [Pids -> {"free"} \cup Alive \cup Zombie] /\ proc'[q] = "run"
        /\ \A p \in Pids \ {q} : proc'[p] = proc[p]
    BY <1>1, <1>4 DEF Alive
  <1>7. /\ reading' \in [Pids -> Inputs \cup {NoInput}] /\ reading'[q] = testcase
        /\ \A p \in Pids \ {q} : reading'[p] = reading[p]
    BY <1>1, <1>3, <1>4
  <1>8. /\ trace_bits' \in SUBSET Inputs
        /\ spc # "dead" =>
             (/\ proc[q] \in {"start", "run"} => trace_bits = {}
              /\ proc[q] \in {"run", "traced"} => reading[q] = testcase
              /\ proc[q] = "traced" => trace_bits = {testcase}
              /\ proc[q] \in Zombie \cup {"stopped"} => Outcome(proc[q]))'
    BY <1>1, <1>2, <1>3, <1>4, <1>6, <1>7 DEF Zombie
  <1> QED
    BY <1>1, <1>3, <1>5, <1>6, <1>7, <1>8, ChildMoves

\* Trace: its trace is that of the input of the run under way.
LEMMA TraceStep ==
  ASSUME IInv, NEW q \in Pids, Trace(q)
  PROVE  IInv'
  <1>1. /\ proc[q] = "run" /\ proc[q] \in Busy /\ ChildOnly
        /\ proc' = [proc EXCEPT ![q] = "traced"]
        /\ trace_bits' = trace_bits \cup {reading[q]}
        /\ UNCHANGED <<cycle_cnt, reading>>
    BY DEF Trace, Busy
  <1>2. testcase' = testcase
    BY <1>1 DEF ChildOnly, fuzzer
  <1>3. spc # "dead" => trace_bits = {} /\ reading[q] = testcase
    BY <1>1, BusyTrace
  <1>4. /\ proc \in [Pids -> {"free"} \cup Alive \cup Zombie]
        /\ cycle_cnt \in [Pids -> 0..Cycles]
        /\ reading \in [Pids -> Inputs \cup {NoInput}]
        /\ trace_bits \in SUBSET Inputs
    BY DEF IInv, TypeOK
  <1>5. cycle_cnt[q] > 0 /\ reading[q] \in Inputs
    BY <1>1 DEF IInv, ChildInv
  <1>6. /\ proc' \in [Pids -> {"free"} \cup Alive \cup Zombie] /\ proc'[q] = "traced"
        /\ \A p \in Pids \ {q} : proc'[p] = proc[p]
    BY <1>1, <1>4 DEF Alive
  <1>7. /\ trace_bits' \in SUBSET Inputs
        /\ spc # "dead" =>
             (/\ proc[q] \in {"start", "run"} => trace_bits = {}
              /\ proc[q] \in {"run", "traced"} => reading[q] = testcase
              /\ proc[q] = "traced" => trace_bits = {testcase}
              /\ proc[q] \in Zombie \cup {"stopped"} => Outcome(proc[q]))'
    BY <1>1, <1>2, <1>3, <1>4, <1>5, <1>6 DEF Zombie
  <1> QED
    BY <1>1, <1>4, <1>5, <1>6, <1>7, ChildMoves

\* End: what the child ends with tells what the input did, and the map is full.
LEMMA EndStep ==
  ASSUME IInv, NEW q \in Pids, End(q)
  PROVE  IInv'
  <1>1. /\ proc[q] = "traced" /\ proc[q] \in Busy /\ Behaviour[reading[q]] # "hang"
        /\ UNCHANGED <<reading, trace_bits>> /\ ChildOnly
    BY DEF End, Busy
  <1>2. UNCHANGED <<testcase, stop_soon, last_run_timed_out>>
    BY <1>1 DEF ChildOnly, fuzzer
  <1>3. spc # "dead" => reading[q] = testcase /\ trace_bits = {testcase}
    BY <1>1, BusyTrace
  <1>4. /\ proc \in [Pids -> {"free"} \cup Alive \cup Zombie]
        /\ cycle_cnt \in [Pids -> 0..Cycles] /\ Cycles \in Nat
        /\ reading \in [Pids -> Inputs \cup {NoInput}]
        /\ trace_bits \in SUBSET Inputs
    BY ForkServerAssumption DEF IInv, TypeOK
  <1>5. cycle_cnt[q] > 0 /\ cycle_cnt[q] \in 0..Cycles /\ reading[q] \in Inputs
    BY <1>1, <1>4 DEF IInv, ChildInv
  <1>6. PICK s \in {"stopped", "exited", "killed"} :
          /\ proc' = [proc EXCEPT ![q] = s]
          /\ Behaviour[reading[q]] = IF s = "killed" THEN "crash" ELSE "ok"
          /\ cycle_cnt' = cycle_cnt \/ cycle_cnt' = [cycle_cnt EXCEPT ![q] = cycle_cnt[q] - 1]
    <2>1. Behaviour[reading[q]] \in {"ok", "crash"}
      BY <1>1, <1>5, ForkServerAssumption
    <2> QED
      BY <2>1 DEF End
  <1>7. /\ proc' \in [Pids -> {"free"} \cup Alive \cup Zombie] /\ proc'[q] = s
        /\ \A p \in Pids \ {q} : proc'[p] = proc[p]
    BY <1>4, <1>6 DEF Alive, Zombie
  <1>8. /\ cycle_cnt' \in [Pids -> 0..Cycles]
        /\ \A p \in Pids \ {q} : cycle_cnt'[p] = cycle_cnt[p]
    BY <1>4, <1>5, <1>6, SMT
  <1>9. spc # "dead" => Outcome(proc[q])'
    BY <1>1, <1>2, <1>3, <1>6, <1>7 DEF Outcome
  <1> QED
    BY <1>1, <1>2, <1>3, <1>4, <1>7, <1>8, <1>9, ChildMoves

-----------------------------------------------------------------------------
(* The invariant is inductive                                              *)

\* The invariant is about these variables only.
LEMMA StutterStep ==
  ASSUME IInv, UNCHANGED vars
  PROVE  IInv'
  <1> USE DEF vars, fuzzer, server, children
  <1>1. TypeOK' /\ OneChild' /\ ServerInv' /\ ChildInv'
    BY SMT DEF IInv, TypeOK, OneChild, ServerInv, ChildInv
  <1>2. PipeInv' /\ RunInv'
    BY DEF IInv, PipeInv, RunInv, Calm, Told
  <1>3. TraceInv' /\ StopInv'
    BY DEF IInv, TraceInv, StopInv, Unharmed, Told, Outcome
  <1> QED
    BY <1>1, <1>2, <1>3 DEF IInv

\* Every step of afl-fuzz, of the server or of a child keeps the invariant.
LEMMA Inductive == IInv /\ [Next]_vars => IInv'
  <1> SUFFICES ASSUME IInv, [Next]_vars PROVE IInv'
    OBVIOUS
  <1>1. CASE \E in \in Inputs : Run(in)
    BY <1>1, RunStep
  <1>2. CASE FuzzerStep
    BY <1>2, AskStep, ReadPidStep, ReportStep, ExpireStep, KillStep, GiveUpStep
       DEF FuzzerStep
  <1>3. CASE Stop
    BY <1>3, StopStep
  <1>4. CASE ServerStep
    BY <1>4, ServerReadStep, ReapStep, ForkStep, ForkedStep, ContinueStep, WritePidStep,
       WaitStep, RelayStep, AtExitStep DEF ServerStep
  <1>5. CASE ChildStep
    BY <1>5, BeginStep, TraceStep, EndStep DEF ChildStep
  <1>6. CASE UNCHANGED vars
    BY <1>6, StutterStep
  <1> QED
    BY <1>1, <1>2, <1>3, <1>4, <1>5, <1>6 DEF Next, Finished

\* While the fork server lives, every process but its current child has been
\* waited for, whatever races with the timeout.
THEOREM NoZombieLeft == Spec => []NoneLeftBehind
  <1>1. IInv => NoneLeftBehind
    BY DEF IInv, NoneLeftBehind, OneChild
  <1> QED
    BY <1>1, InitIInv, Inductive, PTL DEF Spec

-----------------------------------------------------------------------------
(* ForkServer implements RunTarget                                         *)

\* A step that neither opens nor closes a request does not show to the caller:
\* the map may change only while a run is under way or after one was given up.
LEMMA Unseen ==
  ASSUME IInv, UNCHANGED <<testcase, result>>,
         fpc' = fpc \/ (fpc # "idle" /\ fpc' # "idle"),
         trace_bits' = trace_bits \/ ~Calm
  PROVE  UNCHANGED Service!vars
  <1>1. trace_bits' # trace_bits => result \notin {"OK", "CRASH", "TMOUT"}
    BY DEF IInv, RunInv, Calm
  <1> QED
    BY <1>1 DEF Service!vars

\* ReadStatus, ReadLate: the answer is one the input can have, and the map holds
\* the trace of that input and no other.
LEMMA AnswerStep ==
  ASSUME IInv, ReadStatus \/ ReadLate
  PROVE  Service!Answer
  <1> USE DEF IInv
  <1>1. fpc \in {"poll", "late"} /\ st # <<>> /\ Report(Head(st))
    BY DEF ReadStatus, ReadLate
  <1>2. /\ Head(st) = status /\ fpc' = "idle" /\ result' = Verdict(status)
        /\ trace_bits' = trace_bits
    BY <1>1, SMT DEF PipeInv, Report
  <1>3. testcase \in Inputs /\ testcase # NoInput /\ Behaviour[testcase] \in {"ok", "crash", "hang"}
    BY <1>1, ForkServerAssumption DEF RunInv
  <1>4. Outcome(status)
    BY <1>1 DEF TraceInv, Told
  <1>5. CASE ReadStatus
    <2>1. ~stop_soon /\ ~last_run_timed_out
      BY <1>5 DEF ReadStatus, RunInv
    <2>2. /\ trace_bits = {testcase}
          /\ \/ status = "killed" /\ Behaviour[testcase] = "crash" /\ result' = "CRASH"
             \/ status # "killed" /\ Behaviour[testcase] = "ok" /\ result' = "OK"
      BY <1>2, <1>4, <2>1 DEF Outcome, Verdict
    <2>3. result' \in Service!Possible(testcase)
      BY <2>2 DEF Service!Possible
    <2> QED
      BY <1>1, <1>2, <1>3, <2>2, <2>3 DEF Service!Answer
  <1>6. CASE ReadLate
    <2>1. result' = "TMOUT"
      BY <1>2, <1>6 DEF ReadLate, RunInv, Verdict
    <2>2. result' \in Service!Possible(testcase)
      BY <1>3, <2>1 DEF Service!Possible
    <2>3. trace_bits \in {{}, {testcase}}
      BY <1>4 DEF Outcome
    <2> QED
      BY <1>1, <1>2, <1>3, <2>1, <2>2, <2>3 DEF Service!Answer
  <1> QED
    BY <1>5, <1>6

\* Every step of the protocol is a step of the service, or none.
LEMMA ServiceStep == IInv /\ [Next]_vars => [Service!Next]_(Service!vars)
  <1> SUFFICES ASSUME IInv, [Next]_vars PROVE Service!Next \/ UNCHANGED Service!vars
    OBVIOUS
  <1>1. ASSUME NEW in \in Inputs, Run(in) PROVE Service!Request(in)
    BY <1>1 DEF Run, Service!Request
  <1>2. CASE ReadStatus \/ ReadLate
    BY <1>2, AnswerStep DEF Service!Next
  <1>3. ASSUME GiveUp PROVE Service!GiveUp
    <2>1. fpc # "idle" /\ testcase # NoInput
      BY <1>3, ForkServerAssumption DEF GiveUp, IInv, RunInv
    <2> QED
      BY <1>3, <2>1 DEF GiveUp, Service!GiveUp
  <1>4. CASE Ask \/ ReadPid \/ Expire \/ Kill \/ Stop
    BY <1>4, Unseen DEF Ask, ReadPid, Expire, Kill, Stop
  <1>5. CASE ServerStep
    <2>1. UNCHANGED <<fuzzer, trace_bits>>
      BY <1>5 DEF ServerStep, ServerRead, Reap, Fork, Forked, ForkFails, Continue,
         WritePid, Wait, Relay, AtExit, Unmoved
    <2> QED
      BY <2>1, Unseen DEF fuzzer
  <1>6. CASE ChildStep
    <2>1. PICK q \in Pids : Begin(q) \/ Trace(q) \/ End(q)
      BY <1>6 DEF ChildStep
    <2>2. proc[q] \in {"start", "run", "traced"} /\ ChildOnly
      BY <2>1 DEF Begin, Trace, End
    <2>3. UNCHANGED <<fpc, testcase, result>>
      BY <2>2 DEF ChildOnly, fuzzer
    <2>4. ~Calm
      BY <2>2, BusyMeansOpen DEF Busy
    <2> QED
      BY <2>3, <2>4, Unseen
  <1>7. CASE UNCHANGED vars
    BY <1>7, Unseen DEF vars, fuzzer
  <1> QED
    BY <1>1, <1>2, <1>3, <1>4, <1>5, <1>6, <1>7 DEF Next, FuzzerStep, Finished, Service!Next

\* afl_fsrv_run_target keeps the promise of RunTarget: a request is answered
\* once, with a verdict of its own input, and with the trace of that input and
\* no other in the map, whatever races with the timeout and wherever the user
\* stops the fuzzer.
THEOREM RunsAreAnswered == Spec => AnswersItsRequest
  <1>1. Init => Service!Init
    BY DEF Init, Service!Init
  <1> QED
    BY <1>1, InitIInv, Inductive, ServiceStep, PTL DEF Spec, AnswersItsRequest, Service!Spec

-----------------------------------------------------------------------------
(* The start and the handover                                              *)

\* Until fuzzing begins no run has been made.
LifeInv == IInv /\ (phase # "over" => Init)

\* Handover: the server waits for the first request, or is gone already.
LEMMA HandoverStep ==
  ASSUME LifeInv, Handover
  PROVE  IInv'
  <1> USE ForkServerAssumption DEF LifeInv, IInv
  <1>0. Init
    BY DEF Handover
  <1>1. /\ spc' \in {"read", "dead"}
        /\ UNCHANGED <<fpc, testcase, child_pid, last_run_timed_out, result, stop_soon,
              trace_bits, ctl, st, persistent, newborn, srv_child, child_stopped,
              was_killed, status, term, proc, cycle_cnt, reading, pending>>
    BY DEF Handover, fuzzer, children
  <1>2. TypeOK'
    BY <1>1, SMT DEF TypeOK
  <1>3. OneChild' /\ ServerInv' /\ ChildInv'
    BY <1>0, <1>1 DEF Init, OneChild, ServerInv, ChildInv, Busy
  <1>4. PipeInv'
    BY <1>0, <1>1 DEF Init, PipeInv
  <1>5. RunInv'
    BY <1>1 DEF RunInv, Calm, Told
  <1>6. TraceInv'
    BY <1>0, <1>1 DEF Init, TraceInv, Told
  <1>7. StopInv'
    BY <1>0, <1>1 DEF Init, StopInv
  <1> QED
    BY <1>2, <1>3, <1>4, <1>5, <1>6, <1>7

\* A step of the start is none of the runs, and the start is not taken up again.
LEMMA StartingStep ==
  ASSUME StartupNext
  PROVE  phase = "over" => phase' = "over"
  <1>1. CASE ProgramStep
    BY <1>1 DEF ProgramStep, Prepare, Reinit, Fits
  <1>2. CASE Spawn \/ Hello \/ NoHello \/ Options
    BY <1>2 DEF Spawn, Hello, NoHello, Options
  <1>3. CASE ReadSize \/ ReadDict \/ Welcome
    BY <1>3 DEF ReadSize, ReadDict, Welcome
  <1>4. TargetStep \/ Die => UNCHANGED handshake
    BY DEF TargetStep, Die, Attach, AttachFails, SendHello, GetReply, SendOptions,
       SendSize, SendDict, SendWelcome, Send
  <1>5. UNCHANGED handshake => phase' = phase
    BY DEF handshake
  <1> QED
    BY <1>1, <1>2, <1>3, <1>4, <1>5 DEF StartupNext, StartStep

-----------------------------------------------------------------------------
(* The whole life of the server                                            *)

\* Starting, handing over, serving: the invariant holds in the composition, and
\* what the caller of the runs sees is the service.
LEMMA LifeInductive ==
  LifeInv /\ [LifeNext]_<<vars, sVars>> => LifeInv' /\ [Service!Next]_(Service!vars)
  <1> SUFFICES ASSUME LifeInv, [LifeNext]_<<vars, sVars>>
               PROVE  LifeInv' /\ [Service!Next]_(Service!vars)
    OBVIOUS
  <1>1. CASE UNCHANGED vars /\ (phase = "over" => phase' = "over")
    <2>1. IInv' /\ [Service!Next]_(Service!vars)
      BY <1>1, Inductive, ServiceStep DEF LifeInv
    <2>2. Init => Init'
      BY <1>1 DEF vars, fuzzer, server, children, Init
    <2> QED
      BY <1>1, <2>1, <2>2 DEF LifeInv
  <1>2. CASE Handover
    <2>1. UNCHANGED Service!vars
      BY <1>2 DEF Handover, fuzzer, Service!vars
    <2>2. phase' = "over"
      BY <1>2 DEF Handover
    <2> QED
      BY <1>2, <2>1, <2>2, HandoverStep DEF LifeInv
  <1>3. CASE Serving
    <2>1. Next /\ phase = "over" /\ phase' = "over"
      BY <1>3 DEF Serving, sVars, handshake
    <2> QED
      BY <2>1, Inductive, ServiceStep DEF LifeInv
  <1>4. CASE Starting
    BY <1>1, <1>4, StartingStep DEF Starting
  <1>5. CASE Refused \/ UNCHANGED <<vars, sVars>>
    BY <1>1, <1>5 DEF Refused, sVars, handshake
  <1> QED
    BY <1>2, <1>3, <1>4, <1>5 DEF LifeNext

\* In the whole life of the server, from its start on, no process is left
\* behind while it lives.
THEOREM NoZombieInLife == LifeSpec => []NoneLeftBehind
  <1>1. LifeInit => LifeInv
    BY InitIInv DEF LifeInit, LifeInv
  <1>2. LifeInv => NoneLeftBehind
    BY DEF LifeInv, IInv, NoneLeftBehind, OneChild
  <1> QED
    BY <1>1, <1>2, LifeInductive, PTL DEF LifeSpec

\* However the start went, what follows it is the service RunTarget.
THEOREM LifeIsService == LifeSpec => AnswersItsRequest
  <1>1. LifeInit => LifeInv /\ Service!Init
    BY InitIInv DEF LifeInit, LifeInv, Init, Service!Init
  <1> QED
    BY <1>1, LifeInductive, PTL DEF LifeSpec, AnswersItsRequest, Service!Spec
=============================================================================
