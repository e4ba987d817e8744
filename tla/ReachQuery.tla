------------------------------ MODULE ReachQuery ------------------------------
(***************************************************************************)
(* What Graph.Reaching promises whoever calls it, with no walk in it       *)
(* (internal/graph/graph.go, doc comment at 314-325): a question does not  *)
(* change while it is answered, no test is ever reported that cannot reach *)
(* a changed symbol, no reported test is taken back, and nothing is        *)
(* missing when the answer is handed over.                                 *)
(***************************************************************************)

CONSTANTS
  Graphs, Questions,  \* what may be asked
  Answer(_, _)        \* the right answer to it

VARIABLES graph, changed, answer, done

vars == <<graph, changed, answer, done>>

Right == Answer(graph, changed)

Init ==
  /\ graph \in Graphs
  /\ changed \in Questions
  /\ answer = {}
  /\ done \in BOOLEAN
  /\ done => Right = {}

Learn ==
  /\ ~ done
  /\ answer' \in SUBSET Right
  /\ answer \subseteq answer'
  /\ done' \in BOOLEAN
  /\ done' => answer' = Right
  /\ UNCHANGED <<graph, changed>>

Next == Learn

Spec == Init /\ [][Next]_vars
=============================================================================
