----------------------------- MODULE MCMainNode -----------------------------
(***************************************************************************)
(* MainNode for TLC: three instances, one of which may be started with -M. *)
(***************************************************************************)
EXTENDS MainNode

CONSTANTS m, a, b

Instances == {m, a, b}

\* A -M instance and two secondaries, one of which has a directory already;
\* they may be killed.
Mixed ==
  [Fixed |-> {m}, Left |-> {a}, StartModes |-> {"fresh", "resume"},
   Exits |-> {"stop", "crash"}, MaxStarts |-> 1]

\* Three secondaries, of a campaign that is resumed.
Resumed ==
  [Fixed |-> {}, Left |-> Instances, StartModes |-> {"resume"},
   Exits |-> {"stop"}, MaxStarts |-> 2]

\* Secondaries of a new campaign.
Fresh ==
  [Fixed |-> {}, Left |-> {}, StartModes |-> {"fresh"},
   Exits |-> {"stop"}, MaxStarts |-> 1]

Handled == {Mixed, Resumed}
OnlyFresh == {Fresh}
=============================================================================
