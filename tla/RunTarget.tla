----------------------------- MODULE RunTarget -----------------------------
(***************************************************************************)
(* What afl_fsrv_run_target promises its callers: a request for one input  *)
(* is answered once, with a verdict the execution of that input can have,  *)
(* and the coverage map then holds the trace of that input and no other.   *)
(* A request may also be given up, because the user stops the fuzzer or    *)
(* because the fork server is lost.                                        *)
(***************************************************************************)
CONSTANTS
  Inputs,      \* test cases
  NoInput,     \* no request is open
  Behaviour    \* what the target does with an input: "ok", "crash", "hang"

VARIABLES
  req,         \* the input whose execution is requested
  verdict,     \* the last answer
  cov          \* the inputs whose traces are in the coverage map

vars == <<req, verdict, cov>>

\* Any execution may exceed the time limit; a hanging one always does.
Possible(in) ==
  CASE Behaviour[in] = "ok"    -> {"OK", "TMOUT"}
    [] Behaviour[in] = "crash" -> {"CRASH", "TMOUT"}
    [] Behaviour[in] = "hang"  -> {"TMOUT"}

Init == req = NoInput /\ verdict = "none" /\ cov = {}

Request(in) ==
  /\ req = NoInput /\ verdict # "fatal"
  /\ req' = in /\ verdict' = "none" /\ cov' = {}

\* A run that was cut short may leave no trace at all.
Answer ==
  /\ req # NoInput
  /\ verdict' \in Possible(req)
  /\ cov' = {req} \/ (verdict' = "TMOUT" /\ cov' = {})
  /\ req' = NoInput

GiveUp ==
  /\ req # NoInput
  /\ verdict' \in {"stopped", "fatal"}
  /\ req' = NoInput /\ cov' = {}

Next == Answer \/ GiveUp \/ \E in \in Inputs : Request(in)

Spec == Init /\ [][Next]_vars
=============================================================================
