---------------------------- MODULE MCSyncQueue ----------------------------
(***************************************************************************)
(* SyncQueue for TLC: a quiet pair of instances, an eventful one, one      *)
(* whose source is interrupted while it trims, and one whose source is     *)
(* started afresh.                                                         *)
(***************************************************************************)
EXTENDS SyncQueue

CONSTANTS x, y, z

Three == {x, y, z}

Quiet ==
  [Found |-> Three, Trims |-> 1, SourceSessions |-> 1, Resumes |-> 0,
   ReaderStarts |-> {"resume"}, MaxStops |-> 1]

Eventful ==
  [Found |-> {x, y}, Trims |-> 0, SourceSessions |-> 2, Resumes |-> 1,
   ReaderStarts |-> {"fresh", "resume"}, MaxStops |-> 1]

Interrupted ==
  [Found |-> {x, y}, Trims |-> 1, SourceSessions |-> 1, Resumes |-> 1,
   ReaderStarts |-> {"fresh"}, MaxStops |-> 1]

Restarted ==
  [Found |-> {x, y}, Trims |-> 0, SourceSessions |-> 2,
   Resumes |-> 0, ReaderStarts |-> {}, MaxStops |-> 0]

Handled == {Quiet, Eventful, Interrupted}
OnlyRestarted == {Restarted}
=============================================================================
