----------------------------- MODULE MCCaptain -----------------------------
(***************************************************************************)
(* Captain for TLC.                                                        *)
(***************************************************************************)
EXTENDS Captain, TLC

\* The last campaign needs two of the CPUs, and gets them one by one.
OneOneTwo == <<1, 1, 2>>
AllOne == <<1, 1, 1>>

\* CPUs are interchangeable (used where no liveness is checked).
Symmetry == Permutations(Cpus)
=============================================================================
