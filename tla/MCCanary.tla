----------------------------- MODULE MCCanary -----------------------------
(* Small instance of Canary: two bugs that fill the buffer. *)
EXTENDS Canary
===========================================================================
