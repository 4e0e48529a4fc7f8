---------------------------- MODULE MCLifecycle -----------------------------
(* Instance of Lifecycle: one input of each behaviour and two process ids    *)
(* for the runs; for the start, maps that fit at once, that fit after one or *)
(* two restarts, and that do not fit.                                        *)
EXTENDS Lifecycle, TLC

CONSTANTS ok, crash, hang

AllInputs == {ok, crash, hang}
AllBehaviours == ok :> "ok" @@ crash :> "crash" @@ hang :> "hang"

Plain ==
  [user |-> 4, bins |-> <<"main", "san", "cmplog">>, edges |-> [b \in Bins |-> 3],
   dict |-> FALSE, ijon |-> FALSE, shmem |-> FALSE, noauto |-> FALSE, proto |-> "new"]

AllConfs ==
  {[Plain EXCEPT !.user = u, !.edges = e] :
     u \in {0, 4, 16}, e \in [Bins -> {3, 7, 13}]}
  \cup {[Plain EXCEPT !.user = u, !.edges = [main |-> 3, san |-> 7, cmplog |-> 11]] :
           u \in {2, 4}}
  \cup {[Plain EXCEPT !.dict = TRUE, !.ijon = i, !.noauto = a, !.edges["main"] = n,
                       !.edges["cmplog"] = 11] : i, a \in BOOLEAN, n \in {3, 7}}
  \cup {[Plain EXCEPT !.shmem = TRUE, !.bins = x] :
           x \in {<<"main">>, <<"main", "cmplog">>}}
  \cup {[Plain EXCEPT !.proto = p, !.bins = x] :
           p \in {"old", "unsupported"}, x \in {<<"main", "san">>, <<"main", "cmplog">>}}
=============================================================================
