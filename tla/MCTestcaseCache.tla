-------------------------- MODULE MCTestcaseCache --------------------------
(* Small instance of TestcaseCache: a seed and two entries found while      *)
(* fuzzing, which do not all fit in the cache if two of them are large.     *)
EXTENDS TestcaseCache
=============================================================================
