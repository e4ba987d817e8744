----------------------------- MODULE GraphOnDemand -----------------------------
(***************************************************************************)
(* What Build in internal/graph/graph.go promises to those who call it,    *)
(* cache or no cache: the graph of the sources as they are on disk, under  *)
(* the configuration asked for.  How it comes by the graph does not show.  *)
(* The promise is void once the sources were edited while a run was at     *)
(* work: from then on only the configuration is sure to be the right one.  *)
(***************************************************************************)
CONSTANTS
  Procs,      \* runs of the tool, side by side on one machine
  Configs,    \* tags, patterns and build environment
  Trees,      \* the contents the source tree may have
  NoGraph

VARIABLES
  disk,       \* the source tree
  asked,      \* the configuration each run was given
  status,     \* "idle", "working", "answered" or "over" (failed or killed)
  answer,     \* the graph each run was given
  calm        \* whether every edit so far has found all the runs at rest

vars == <<disk, asked, status, answer, calm>>

GraphOf(config, tree) == [config |-> config, sources |-> tree]

Init ==
  /\ disk \in Trees
  /\ asked \in [Procs -> Configs]
  /\ status = [p \in Procs |-> "idle"]
  /\ answer = [p \in Procs |-> NoGraph]
  /\ calm = TRUE

Call(p) ==
  /\ status[p] = "idle"
  /\ status' = [status EXCEPT ![p] = "working"]
  /\ UNCHANGED <<disk, asked, answer, calm>>

Answer(p) ==
  /\ status[p] = "working"
  /\ status' = [status EXCEPT ![p] = "answered"]
  /\ \E tree \in Trees :
        /\ calm => tree = disk
        /\ answer' = [answer EXCEPT ![p] = GraphOf(asked[p], tree)]
  /\ UNCHANGED <<disk, asked, calm>>

(* The sources cannot be loaded, or the run is killed. *)
GiveUp(p) ==
  /\ status[p] = "working"
  /\ status' = [status EXCEPT ![p] = "over"]
  /\ UNCHANGED <<disk, asked, answer, calm>>

Edit ==
  /\ disk' \in Trees
  /\ calm' = (calm /\ \A p \in Procs : status[p] # "working")
  /\ UNCHANGED <<asked, status, answer>>

Next == Edit \/ \E p \in Procs : Call(p) \/ Answer(p) \/ GiveUp(p)

Spec == Init /\ [][Next]_vars
=============================================================================
