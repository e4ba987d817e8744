------------------------------ MODULE Boundaries ------------------------------
(***************************************************************************)
(* Graph.Boundaries in internal/graph/graph.go: the symbols at which a     *)
(* backward walk from the changed ones stops for want of a caller although *)
(* they are not entered by a test or by the runtime.  Such a symbol is     *)
(* taken to be called through reflection.                                  *)
(*                                                                         *)
(* Unlike reaching, this is one walk from all the changed keys at once,    *)
(* and it does not group them by package.  The keys come in map order.     *)
(***************************************************************************)
EXTENDS GraphWalk

VARIABLES
  found,     \* the boundary keys: the result, once the queue is empty
  finished

boundaryVars == <<graph, changed, queue, visited, found, finished>>

BoundariesInit ==
  /\ graph \in Graphs
  /\ changed \in Questions
  /\ queue \in Orders(NodesOf(graph, changed))
  /\ visited = {}
  /\ found = {}
  /\ finished = FALSE

(* Takes the head of the queue; a node queued again is dropped. *)
Visit(n) ==
  /\ queue # << >>
  /\ n = Head(queue)
  /\ visited' = visited \cup {n}

StopAt(n) == queue' = Tail(queue) /\ UNCHANGED <<graph, changed, finished>>

(* Mutant: the queue is advanced after the check for visited nodes. *)
SkipSeenStuck(n) ==
  /\ Visit(n)
  /\ n \in visited
  /\ UNCHANGED <<graph, changed, queue, found, finished>>

SkipSeen(n) ==
  /\ Visit(n)
  /\ n \in visited
  /\ StopAt(n)
  /\ UNCHANGED found

StopAtTest(n) ==
  /\ Visit(n)
  /\ n \notin visited
  /\ IsTestNode(graph, n)
  /\ StopAt(n)
  /\ UNCHANGED found

(* Mutant: an entry point is taken for a boundary. *)
StopWithoutCallerOrEntry(n) ==
  /\ Visit(n)
  /\ n \notin visited
  /\ ~ IsTestNode(graph, n)
  /\ graph.rev[n] = << >>
  /\ found' = found \cup {graph.nodeKey[n]}
  /\ StopAt(n)

(* Mutant: a changed symbol nothing calls is taken for dead code. *)
StopWithoutCallerDead(n) ==
  /\ Visit(n)
  /\ n \notin visited
  /\ ~ IsTestNode(graph, n)
  /\ graph.rev[n] = << >>
  /\ found' = IF \/ isEntry(graph, graph.nodeKey[n])
                 \/ graph.nodeKey[n] \in changed
              THEN found ELSE found \cup {graph.nodeKey[n]}
  /\ StopAt(n)

StopWithoutCaller(n) ==
  /\ Visit(n)
  /\ n \notin visited
  /\ ~ IsTestNode(graph, n)
  /\ graph.rev[n] = << >>
  /\ found' = IF isEntry(graph, graph.nodeKey[n])
              THEN found ELSE found \cup {graph.nodeKey[n]}
  /\ StopAt(n)

GoOn(n) ==
  /\ Visit(n)
  /\ n \notin visited
  /\ ~ IsTestNode(graph, n)
  /\ graph.rev[n] # << >>
  /\ queue' = Tail(queue) \o graph.rev[n]
  /\ UNCHANGED <<graph, changed, found, finished>>

Finish ==
  /\ ~ finished
  /\ queue = << >>
  /\ finished' = TRUE
  /\ UNCHANGED <<graph, changed, queue, visited, found>>

BoundariesStep ==
  \/ \E n \in Nodes(graph) :
        SkipSeen(n) \/ StopAtTest(n) \/ StopWithoutCaller(n) \/ GoOn(n)
  \/ Finish

BoundariesReturn == finished /\ UNCHANGED boundaryVars

BoundariesNext == BoundariesStep \/ BoundariesReturn

BoundariesSpec ==
  /\ BoundariesInit
  /\ [][BoundariesNext]_boundaryVars
  /\ WF_boundaryVars(BoundariesStep)

-----------------------------------------------------------------------------
(* The types the proofs rest on: what is queued is a node of the graph and *)
(* what is found is a key (graph.go 402-449).                              *)
BoundariesTypeOK ==
  /\ graph \in Graphs
  /\ changed \in Questions
  /\ queue \in Seq(Nodes(graph))
  /\ visited \in SUBSET Nodes(graph)
  /\ found \in SUBSET Keys
  /\ finished \in BOOLEAN

(* In whatever order the nodes are met, the answer is every callerless     *)
(* symbol that is not an entry point and from which a chain of calls leads *)
(* to a changed one without passing through a test (graph.go 386-401).     *)
BoundariesExact == finished => found = BoundaryKeys(graph, changed)

(* The walk never comes back with nothing where it cannot see: if it met   *)
(* no recursion and no point at which a test or the runtime enters, then   *)
(* it reports a boundary (graph.go 386-401, 427-432).  Recursion has to be *)
(* left out: a function that only calls itself has a caller, and for it    *)
(* the code does come back with nothing.                                   *)
Recursive(g, S) ==
  \E T \in SUBSET S : T # {} /\ \A n \in T : Callers(g, n) \cap T # {}

NoSilentZero ==
  finished /\ visited # {} /\ ~ Recursive(graph, visited)
    => \/ found # {}
       \/ \E n \in visited : isEntry(graph, graph.nodeKey[n])

(* The walk ends on cyclic graphs too (graph.go 416-440).  Fairness: the   *)
(* loop runs on one goroutine and never blocks.                            *)
BoundariesEnd == <>finished

-----------------------------------------------------------------------------
(* Why BoundariesExact holds: what has been met lies in the cone of the    *)
(* changed nodes, what has not been met is behind a node in the queue, and *)
(* the boundaries among the visited nodes are those found (graph.go        *)
(* 408-440).                                                               *)
BoundariesInv ==
  /\ NodesOf(graph, changed) \subseteq Frontier
  /\ Frontier \subseteq Cone(graph, NodesOf(graph, changed))
  /\ \A n \in visited : IsTestNode(graph, n) \/ Callers(graph, n) \subseteq Frontier
  /\ found = {graph.nodeKey[n] : n \in {m \in visited : IsBoundary(graph, m)}}
  /\ finished => queue = << >>
=============================================================================
