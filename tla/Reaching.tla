------------------------------- MODULE Reaching -------------------------------
(***************************************************************************)
(* Graph.reaching in internal/graph/graph.go: which tests can reach the    *)
(* changed symbols.  The changed keys are grouped by declaring package and *)
(* each group is walked backwards, breadth first, from its nodes.  A test  *)
(* that is met is recorded with the changed key the walk came from.        *)
(*                                                                         *)
(* Go ranges over its maps in an order it does not fix: any group may come *)
(* next, and the seeds of a group may be queued in any order.              *)
(***************************************************************************)
EXTENDS GraphWalk

ASSUME SentinelsAssumption ==
  /\ NoKey \notin Keys
  /\ NoTest \notin Tests

VARIABLES
  todo,     \* the groups still to be walked
  group,    \* the set holding the group being walked, empty between two
  from,     \* the changed key a queued node was found from
  hits      \* the changed key a test was found from: the result

vars == <<graph, changed, todo, group, queue, visited, from, hits>>

NoHits == [t \in Tests |-> NoKey]
NoFrom(g) == [n \in Nodes(g) |-> NoKey]

Hit == {t \in Tests : hits[t] # NoKey}
Returned == todo = {} /\ group = {}

Init ==
  /\ graph \in Graphs
  /\ changed \in Questions
  /\ todo = Groups(graph, changed)
  /\ group = {}
  /\ queue = << >>
  /\ visited = {}
  /\ from = NoFrom(graph)
  /\ hits = NoHits

StartGroup(pkg) ==
  /\ group = {}
  /\ pkg \in todo
  /\ todo' = todo \ {pkg}
  /\ group' = {pkg}
  /\ visited' = {}
  /\ LET seeds == Seeds(graph, changed, pkg)
     IN  /\ queue' \in Orders(seeds)
         /\ from' = [n \in Nodes(graph) |->
                       IF n \in seeds THEN graph.nodeKey[n] ELSE NoKey]
  /\ UNCHANGED <<graph, changed, hits>>

(* Mutant: the queue is advanced after the check for visited nodes. *)
SkipVisitedStuck ==
  /\ queue # << >>
  /\ Head(queue) \in visited
  /\ UNCHANGED vars

(* The node was queued again after it had been looked at. *)
SkipVisited ==
  /\ queue # << >>
  /\ Head(queue) \in visited
  /\ queue' = Tail(queue)
  /\ UNCHANGED <<graph, changed, todo, group, visited, from, hits>>

(* Mutant: the import closure is not consulted. *)
ArriveAtTestBlind(pkg) ==
  /\ group = {pkg}
  /\ queue # << >>
  /\ LET n == Head(queue)
         t == TestAt(graph, n)
     IN  /\ n \notin visited
         /\ t # NoTest
         /\ visited' = visited \cup {n}
         /\ hits' = IF hits[t] = NoKey THEN [hits EXCEPT ![t] = from[n]] ELSE hits
  /\ queue' = Tail(queue)
  /\ UNCHANGED <<graph, changed, todo, group, from>>

(* A test is an answer, if its binary can see the group at all, and the    *)
(* walk does not go past it.                                               *)
ArriveAtTest(pkg) ==
  /\ group = {pkg}
  /\ queue # << >>
  /\ LET n == Head(queue)
         t == TestAt(graph, n)
     IN  /\ n \notin visited
         /\ t # NoTest
         /\ visited' = visited \cup {n}
         /\ hits' = IF hits[t] = NoKey /\ visible(graph, t, pkg)
                    THEN [hits EXCEPT ![t] = from[n]]
                    ELSE hits
  /\ queue' = Tail(queue)
  /\ UNCHANGED <<graph, changed, todo, group, from>>

(* Mutant: a caller is said to come from the function it calls. *)
ExpandFromCallee ==
  /\ queue # << >>
  /\ LET n == Head(queue)
     IN  /\ n \notin visited
         /\ ~ IsTestNode(graph, n)
         /\ visited' = visited \cup {n}
         /\ from' = [m \in Nodes(graph) |->
                       IF m \in Callers(graph, n) /\ from[m] = NoKey
                       THEN graph.nodeKey[n] ELSE from[m]]
         /\ queue' = Tail(queue) \o graph.rev[n]
  /\ UNCHANGED <<graph, changed, todo, group, hits>>

(* Mutant: callers are queued without an origin; the seeds alone have one. *)
ExpandNoOrigin ==
  /\ queue # << >>
  /\ LET n == Head(queue)
     IN  /\ n \notin visited
         /\ ~ IsTestNode(graph, n)
         /\ visited' = visited \cup {n}
         /\ queue' = Tail(queue) \o graph.rev[n]
  /\ UNCHANGED <<graph, changed, todo, group, from, hits>>

(* Mutant: a visited node is expanded again. *)
ExpandAgain ==
  /\ queue # << >>
  /\ LET n == Head(queue)
     IN  /\ ~ IsTestNode(graph, n)
         /\ visited' = visited \cup {n}
         /\ from' = [m \in Nodes(graph) |->
                       IF m \in Callers(graph, n) /\ from[m] = NoKey
                       THEN from[n] ELSE from[m]]
         /\ queue' = Tail(queue) \o graph.rev[n]
  /\ UNCHANGED <<graph, changed, todo, group, hits>>

(* Every caller is queued; one met for the first time inherits the origin. *)
Expand ==
  /\ queue # << >>
  /\ LET n == Head(queue)
     IN  /\ n \notin visited
         /\ ~ IsTestNode(graph, n)
         /\ visited' = visited \cup {n}
         /\ from' = [m \in Nodes(graph) |->
                       IF m \in Callers(graph, n) /\ from[m] = NoKey
                       THEN from[n] ELSE from[m]]
         /\ queue' = Tail(queue) \o graph.rev[n]
  /\ UNCHANGED <<graph, changed, todo, group, hits>>

(* Mutant: a package initialiser counts without looking at the imports. *)
FinishGroupBlind(pkg) ==
  /\ group = {pkg}
  /\ queue = << >>
  /\ hits' = [t \in Tests |->
                IF hits[t] = NoKey /\ graph.initNode[t] \in visited
                THEN from[graph.initNode[t]]
                ELSE hits[t]]
  /\ group' = {}
  /\ UNCHANGED <<graph, changed, todo, queue, visited, from>>

(* The queue has run dry.  A package initialiser the walk went through     *)
(* runs before every test of its package.                                  *)
FinishGroup(pkg) ==
  /\ group = {pkg}
  /\ queue = << >>
  /\ hits' = [t \in Tests |->
                IF /\ hits[t] = NoKey
                   /\ graph.initNode[t] \in visited
                   /\ visible(graph, t, pkg)
                THEN from[graph.initNode[t]]
                ELSE hits[t]]
  /\ group' = {}
  /\ UNCHANGED <<graph, changed, todo, queue, visited, from>>

Walk ==
  \/ \E pkg \in Pkgs \cup {NoPkg} :
        StartGroup(pkg) \/ ArriveAtTest(pkg) \/ FinishGroup(pkg)
  \/ SkipVisited
  \/ Expand

(* hits has been returned; nothing happens any more. *)
Return == Returned /\ UNCHANGED vars

Next == Walk \/ Return

Spec == Init /\ [][Next]_vars /\ WF_vars(Walk)

-----------------------------------------------------------------------------
(* Every variable keeps to its type, and no node is queued or looked at    *)
(* without an origin: from is a second map beside the queue, and a node    *)
(* that is missing from it would give its test an empty reason (graph.go   *)
(* 345-371, 379).                                                          *)
TypeOK ==
  /\ graph \in Graphs
  /\ changed \in Questions
  /\ todo \in SUBSET (Pkgs \cup {NoPkg})
  /\ group \in SUBSET (Pkgs \cup {NoPkg})
  /\ queue \in Seq(Nodes(graph))
  /\ visited \in SUBSET Nodes(graph)
  /\ from \in [Nodes(graph) -> Keys \cup {NoKey}]
  /\ \A n \in Frontier : from[n] # NoKey
  /\ hits \in [Tests -> Keys \cup {NoKey}]

(* Whatever order the maps are ranged over in, however the queue grows and *)
(* whichever group meets a test first, the answer is exactly the tests     *)
(* with a chain of callers back from a changed symbol, inside the import   *)
(* closure of their binary, none of whose inner links is a test (graph.go  *)
(* 314-384).                                                               *)
WalkIsExact == Returned => Hit = ReachingTests(graph, changed)

(* The reason a test is reported with is one that would select it alone: a *)
(* changed symbol, visible to that test, from which it can be reached.     *)
(* from is inherited along edges in the order they are met (graph.go 347,  *)
(* 366-371), and is what -explain shows the user.                          *)
ReasonJustified ==
  \A t \in Hit : /\ hits[t] \in changed
                 /\ t \in ReachingTests(graph, {hits[t]})

(* A node may be queued once for each edge into it, but its callers are    *)
(* queued once only, so the queue never holds more than the seeds and the  *)
(* calls of the nodes already visited (graph.go 350-357): without it the   *)
(* walk over a cyclic graph has no bound.                                  *)
CallsOf(S) == UNION {{n} \X DOMAIN graph.rev[n] : n \in S}

QueueBounded ==
  \A pkg \in group :
    Len(queue) + Cardinality(visited)
      <= Cardinality(Seeds(graph, changed, pkg)) + Cardinality(CallsOf(visited))

(* On recursive and mutually recursive code too, the walk ends (graph.go   *)
(* 350-372).  Fairness: the loop runs on one goroutine and never blocks.   *)
Terminates == <>Returned

(* The walk gives only what a query may give, at every moment of it: see   *)
(* ReachQuery for the promise (graph.go 314-384).                          *)
Query == INSTANCE ReachQuery
           WITH Answer <- ReachingTests, answer <- Hit, done <- Returned

ImplementsQuery == Query!Spec

-----------------------------------------------------------------------------
(***************************************************************************)
(* Why WalkIsExact and ReasonJustified hold.                               *)
(***************************************************************************)
(* Half-way through a group, what has been met lies in the cone of its     *)
(* seeds, and what has not been met yet is behind a node in the queue.     *)
WalkInv ==
  \A pkg \in group :
    /\ Seeds(graph, changed, pkg) \subseteq Frontier
    /\ Frontier \subseteq Cone(graph, Seeds(graph, changed, pkg))
    /\ \A n \in visited : IsTestNode(graph, n) \/ Callers(graph, n) \subseteq Frontier
    /\ \A n \in visited :
         IsTestNode(graph, n) /\ visible(graph, TestAt(graph, n), pkg)
           => TestAt(graph, n) \in Hit

(* Between groups, nothing reported is wrong, and nothing is missing from  *)
(* the groups that are done.                                               *)
GroupsInv ==
  /\ todo \subseteq Groups(graph, changed)
  /\ group \subseteq Groups(graph, changed) \ todo
  /\ group = {} \/ \E pkg \in group : group = {pkg}
  /\ Hit \subseteq ReachingTests(graph, changed)
  /\ \A pkg \in Groups(graph, changed) \ (todo \cup group) :
       ReachedFrom(graph, changed, pkg) \subseteq Hit

(* The origin a node inherited is a changed key of the group being walked  *)
(* from which the node is reached.                                         *)
OriginOf(k, n) ==
  /\ k \in changed
  /\ graph.keyPkg[k] \in group
  /\ n \in Cone(graph, NodesOf(graph, {k}))

FromInv ==
  group # {} => \A n \in Nodes(graph) : from[n] # NoKey => OriginOf(from[n], n)

(* The inductive invariant, TypeOK aside (graph.go 333-382).               *)
IInv == WalkInv /\ GroupsInv /\ FromInv
=============================================================================
