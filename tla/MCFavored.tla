----------------------------- MODULE MCFavored -----------------------------
(* Instance of Favored for model checking. *)
EXTENDS Favored
=============================================================================
