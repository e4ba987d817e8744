------------------------------- MODULE GraphWalk -------------------------------
(***************************************************************************)
(* What the two walks of internal/graph/graph.go, that of reaching and     *)
(* that of Boundaries, have in common: the question they are asked, and    *)
(* the loop variables of a breadth-first search.                           *)
(***************************************************************************)
EXTENDS CallGraph

CONSTANTS
  Graphs,    \* the graphs a query may be asked of
  Questions  \* the sets of keys it may be asked about

ASSUME GraphsAssumption == \A g \in Graphs : IsGraph(g)

ASSUME QuestionsAssumption == Questions \subseteq SUBSET Keys

VARIABLES
  graph,    \* the receiver g
  changed,  \* the keys the diff touched, dead code included
  queue,    \* nodes to look at, in order; one may be queued several times
  visited   \* nodes already looked at

(* What a walk has met so far. *)
Frontier == visited \cup Range(queue)
=============================================================================
