----------------------------- MODULE MCCoverage -----------------------------
EXTENDS Coverage, TLC

CONSTANTS e1, e2

MCTraces == {(e1 :> 0) @@ (e2 :> 0), (e1 :> 1) @@ (e2 :> 0),
             (e1 :> 3) @@ (e2 :> 0), (e1 :> 1) @@ (e2 :> 5)}

Default == [crash_mode |-> "ok", keep_timeouts |-> FALSE,
            ignore_timeouts |-> FALSE, generous |-> TRUE, hashing |-> FALSE,
            san |-> "none", cmplog |-> FALSE, seed_faults |-> "skip", seeds |-> 1]

Slow == [Default EXCEPT !.generous = FALSE, !.keep_timeouts = TRUE,
                        !.hashing = TRUE]

MCSettings ==
  {[Default EXCEPT !.seed_faults = "save", !.seeds = 2, !.ignore_timeouts = TRUE],
   [Default EXCEPT !.generous = FALSE, !.hashing = TRUE, !.seed_faults = "exit"],
   [Default EXCEPT !.crash_mode = "crash", !.san = "unique"],
   [Default EXCEPT !.cmplog = TRUE, !.hashing = TRUE, !.ignore_timeouts = TRUE],
   Slow,
   [Default EXCEPT !.san = "simplify", !.ignore_timeouts = TRUE],
   [Default EXCEPT !.san = "coverage"]}
=============================================================================
