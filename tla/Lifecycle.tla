----------------------------- MODULE Lifecycle ------------------------------
(***************************************************************************)
(* The life of the target's fork server as afl-fuzz sees it: brought up by *)
(* the handshakes of Startup, it then serves the runs of ForkServer.       *)
(***************************************************************************)
EXTENDS Startup, ForkServer

LifeInit == StartupInit /\ Init

Starting == StartupNext /\ UNCHANGED vars

\* Fuzzing begins.  The server waits in its loop, or is already gone: nobody
\* has looked since the handshake.  No run looks at what else the start left
\* behind, and it is forgotten.
Handover ==
  /\ phase = "ready" /\ phase' = "over"
  /\ spc' = IF Lives("main") THEN "read" ELSE "dead"
  /\ conf' = (CHOOSE c \in Confs : TRUE) /\ k' = 0 /\ todo' = <<>> /\ again' = FALSE
  /\ map_size' = 0 /\ shm' = [seg |-> 0, size |-> 0] /\ opts' = {} /\ why' = "none"
  /\ fsrv' = [b \in Bins |-> [map_size |-> 0, use_shmem |-> FALSE, use_ijon |-> FALSE]]
  /\ env' = [size |-> 0, noauto |-> FALSE, noijon |-> FALSE]
  /\ ijon_bits' = [seg |-> 0, at |-> 0] /\ extras' = 0
  /\ srv' = [b \in Bins |-> NoSrv] /\ died' = {} /\ to' = <<>> /\ from' = <<>>
  /\ UNCHANGED <<fuzzer, trace_bits, ctl, st, persistent, newborn, srv_child,
                 child_stopped, was_killed, status, term, children>>

Serving == phase = "over" /\ Next /\ UNCHANGED sVars

Refused == phase = "fatal" /\ UNCHANGED <<vars, sVars>>

LifeNext == Starting \/ Handover \/ Serving \/ Refused

\* Nothing is assumed of the target but that its fork server is scheduled.
LifeSpec ==
  /\ LifeInit /\ [][LifeNext]_<<vars, sVars>>
  /\ StartupFairness /\ WF_<<vars, sVars>>(Handover)
  /\ WF_vars(FuzzerStep) /\ WF_vars(ServerStep)
=============================================================================
