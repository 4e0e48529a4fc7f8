------------------------------ MODULE MainNode ------------------------------
(***************************************************************************)
(* Which instance of a parallel campaign is the main node                  *)
(* (afl-fuzz-run.c: check_sync_fuzzers, sync_fuzzers).                     *)
(*                                                                         *)
(* The instances share nothing but a directory.  An instance is known as   *)
(* main by the file is_main_node in its output directory (its marker) and  *)
(* knows itself as main by a flag in memory.  -M instances are main for as *)
(* long as they run; a -S instance that finds no marker elects itself, and *)
(* steps down when it later finds one.  Each look at another directory is  *)
(* a step of its own, so that looks, markers, starts and exits interleave. *)
(***************************************************************************)
EXTENDS Naturals, FiniteSets

CONSTANTS
  Nodes,       \* instances, each with its output directory
  NoNode,      \* qd_main_path before it is first written
  Campaigns    \* the campaigns to consider, by how they are run

\* Of a campaign: the instances started with -M (the others are -S
\* secondaries), the output directories that an earlier campaign left when it
\* was cleanly stopped, how instances are started and how they end, and a bound
\* on the starts of one instance.
Campaign ==
  [Fixed: SUBSET Nodes, Left: SUBSET Nodes,
   StartModes: SUBSET {"fresh", "resume"}, Exits: SUBSET {"stop", "crash"},
   MaxStarts: Nat]

ASSUME NodeAssumption ==
  /\ IsFiniteSet(Nodes)
  /\ NoNode \notin Nodes
  /\ \A c \in Campaigns : c \in Campaign

VARIABLES
  campaign,      \* how this campaign is run
  outdirs,       \* output directories in the sync directory
  marker,        \* the ones with an is_main_node file
  is_main_node,  \* instances whose flag is set
  at,            \* where each instance is
  todo,          \* directories its readdir loop has still to return
  found,         \* have_main, or synced > 0
  last,          \* the directory qd_main_path names
  entries,       \* entries > 0: sync_fuzzers saw another directory
  starts         \* times it was started

loop == <<todo, found, last, entries>>
nodeVars == <<campaign, outdirs, marker, is_main_node, at, loop, starts>>

Running == {n \in Nodes : at[n] # "off"}

NodeTypeOK ==
  /\ campaign \in Campaigns
  /\ outdirs \in SUBSET Nodes
  /\ marker \in SUBSET outdirs
  /\ is_main_node \in SUBSET Running
  /\ at \in [Nodes -> {"off", "setup", "check", "fuzz", "sync", "yield"}]
  /\ todo \in [Nodes -> SUBSET Nodes]
  /\ found \in [Nodes -> BOOLEAN]
  /\ last \in [Nodes -> Nodes \cup {NoNode}]
  /\ entries \in [Nodes -> BOOLEAN]
  /\ starts \in [Nodes -> 0 .. campaign.MaxStarts]
  /\ \A n \in Nodes : at[n] \notin {"check", "sync", "yield"} => todo[n] = {}

NodeInit ==
  /\ campaign \in Campaigns
  /\ outdirs = campaign.Left
  /\ marker = {}
  /\ is_main_node = {}
  /\ at = [n \in Nodes |-> "off"]
  /\ todo = [n \in Nodes |-> {}]
  /\ found = [n \in Nodes |-> FALSE]
  /\ last = [n \in Nodes |-> NoNode]
  /\ entries = [n \in Nodes |-> FALSE]
  /\ starts = [n \in Nodes |-> 0]

(***************************************************************************)
(* Starting: -M sets the flag and, with the output directory, the marker.  *)
(* A marker that an earlier session left in the directory stays there.     *)
(* Only a session that is not resumed runs check_sync_fuzzers.  The        *)
(* directory and its marker are made in one step here.                     *)
(***************************************************************************)
Start(n, mode) ==
  /\ at[n] = "off"
  /\ starts[n] < campaign.MaxStarts
  /\ mode = "resume" => n \in outdirs
  /\ outdirs' = outdirs \cup {n}
  /\ is_main_node' = is_main_node \cup ({n} \cap campaign.Fixed)
  /\ marker' = marker \cup ({n} \cap campaign.Fixed)
  /\ at' = [at EXCEPT ![n] = IF mode = "resume" THEN "fuzz" ELSE "setup"]
  /\ starts' = [starts EXCEPT ![n] = @ + 1]
  /\ UNCHANGED <<campaign, loop>>

\* check_sync_fuzzers opens the sync directory.
BeginCheck(n) ==
  /\ at[n] = "setup"
  /\ at' = [at EXCEPT ![n] = "check"]
  /\ todo' = [todo EXCEPT ![n] = outdirs \ {n}]
  /\ found' = [found EXCEPT ![n] = n \in is_main_node]
  /\ last' = [last EXCEPT ![n] = NoNode]
  /\ UNCHANGED <<campaign, outdirs, marker, is_main_node, entries, starts>>

\* It looks for the marker of the next directory, until it has found one.
Check(n, d) ==
  /\ at[n] = "check"
  /\ d \in todo[n]
  /\ todo' = [todo EXCEPT ![n] = @ \ {d}]
  /\ IF found[n]
       THEN UNCHANGED <<found, last>>
       ELSE /\ last' = [last EXCEPT ![n] = d]
            /\ found' = [found EXCEPT ![n] = d \in marker]
  /\ UNCHANGED <<campaign, outdirs, marker, is_main_node, at, entries, starts>>

\* readdir has returned every directory.
Done(n) == todo[n] = {}

\* Without a main node it becomes one.  The marker is created where
\* qd_main_path points, in the last directory it looked at; without any, the
\* path is uninitialised and taken to lie outside the sync directory.
EndCheck(n) ==
  /\ at[n] = "check"
  /\ Done(n)
  /\ at' = [at EXCEPT ![n] = "fuzz"]
  /\ IF found[n]
       THEN UNCHANGED <<is_main_node, marker>>
       ELSE /\ is_main_node' = is_main_node \cup {n}
            /\ marker' = marker \cup ({last[n]} \cap Nodes)
  /\ UNCHANGED <<campaign, outdirs, loop, starts>>

\* sync_fuzzers opens the sync directory.
BeginRound(n) ==
  /\ at[n] = "fuzz"
  /\ at' = [at EXCEPT ![n] = "sync"]
  /\ todo' = [todo EXCEPT ![n] = outdirs \ {n}]
  /\ found' = [found EXCEPT ![n] = FALSE]
  /\ entries' = [entries EXCEPT ![n] = outdirs # {n}]
  /\ UNCHANGED <<campaign, outdirs, marker, is_main_node, last, starts>>

Temporary(n) == n \in is_main_node \ campaign.Fixed

MustYieldNever(n, d) == FALSE

\* An elected main node that sees another marker is downgraded.
MustYield(n, d) == Temporary(n) /\ d \in marker

SyncsFromAny(n, d) == TRUE

\* Secondaries sync from main nodes only, main nodes from everyone.
SyncsFrom(n, d) == n \in is_main_node \/ d \in marker

VisitDir(n, d) ==
  /\ at[n] = "sync"
  /\ d \in todo[n]
  /\ todo' = [todo EXCEPT ![n] = @ \ {d}]
  /\ IF MustYield(n, d)
       THEN /\ is_main_node' = is_main_node \ {n}
            /\ at' = [at EXCEPT ![n] = "yield"]
       ELSE UNCHANGED <<is_main_node, at>>
  /\ found' = [found EXCEPT ![n] = @ \/ SyncsFrom(n, d)]
  /\ UNCHANGED <<campaign, outdirs, marker, last, entries, starts>>

\* Its own marker goes in a system call after the one that saw the other's.
Yield(n) ==
  /\ at[n] = "yield"
  /\ marker' = marker \ {n}
  /\ at' = [at EXCEPT ![n] = "sync"]
  /\ UNCHANGED <<campaign, outdirs, is_main_node, loop, starts>>

\* A secondary that found no main node among its entries becomes one.
Elected(n) == n \notin campaign.Fixed /\ ~found[n] /\ entries[n]

EndRound(n) ==
  /\ at[n] = "sync"
  /\ Done(n)
  /\ at' = [at EXCEPT ![n] = "fuzz"]
  /\ is_main_node' = IF Elected(n) THEN is_main_node \cup {n} ELSE is_main_node
  /\ marker' = IF Elected(n) THEN marker \cup {n} ELSE marker
  /\ UNCHANGED <<campaign, outdirs, loop, starts>>

UnmarkNot(n) == {}

\* The marker that an exiting instance removes.
Unmark(n) == {n} \cap is_main_node

StopNode(n) ==
  /\ "stop" \in campaign.Exits
  /\ at[n] = "fuzz"
  /\ marker' = marker \ Unmark(n)
  /\ is_main_node' = is_main_node \ {n}
  /\ at' = [at EXCEPT ![n] = "off"]
  /\ UNCHANGED <<campaign, outdirs, loop, starts>>

\* Killed, or the machine goes down.
Crash(n) ==
  /\ "crash" \in campaign.Exits
  /\ at[n] # "off"
  /\ is_main_node' = is_main_node \ {n}
  /\ at' = [at EXCEPT ![n] = "off"]
  /\ todo' = [todo EXCEPT ![n] = {}]
  /\ UNCHANGED <<campaign, outdirs, marker, found, last, entries, starts>>

Step(n) ==
  \/ BeginCheck(n)
  \/ \E d \in Nodes : Check(n, d)
  \/ EndCheck(n)
  \/ BeginRound(n)
  \/ \E d \in Nodes : VisitDir(n, d)
  \/ Yield(n)
  \/ EndRound(n)

NodeNext ==
  \E n \in Nodes :
    \/ \E mode \in campaign.StartModes : Start(n, mode)
    \/ Step(n)
    \/ StopNode(n)
    \/ Crash(n)

NodeSpec == NodeInit /\ [][NodeNext]_nodeVars

\* A running instance keeps running: its main loop calls sync_fuzzers again
\* and again.  Nothing makes an instance start or end.
NodeFairSpec == NodeSpec /\ \A n \in Nodes : WF_nodeVars(Step(n))

\* Instances only stop cleanly, and campaigns are only resumed, so that every
\* election is sync_fuzzers'.
Tidy == campaign.StartModes = {"resume"} /\ campaign.Exits = {"stop"}

\* In a tidy campaign a marker stands for a running main node, or one that is
\* about to remove it, and every main node has one: what one instance believes
\* of itself is what the others can see, through every interleaving of
\* elections, downgrades and exits (and all state keeps its type).
MarkerIsFlag ==
  /\ NodeTypeOK
  /\ Tidy => marker = is_main_node \cup {n \in Nodes : at[n] = "yield"}

\* "If we are a secondary and no main was found to sync then become the main":
\* if instances run and have someone to sync with, then one of them will be
\* the main node, or they stop.  Without a main node no secondary imports
\* anything.
MainReturns ==
  (Running # {} /\ Cardinality(outdirs) >= 2)
    ~> (Running = {} \/ Running \cap is_main_node # {})

\* In a tidy campaign that is so.
TidyMainReturns == Tidy => MainReturns

\* If a -M instance runs on, the temporary main nodes elected before, or in a
\* race with its start, step down for good.
MainYields ==
  (\E m \in Nodes : m \in campaign.Fixed /\ <>[](m \in Running))
    => <>[](is_main_node \subseteq campaign.Fixed)
=============================================================================
