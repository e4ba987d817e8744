---------------------------- MODULE ReachingProofs ----------------------------
(***************************************************************************)
(* Reaching answers exactly, with true reasons, and implements ReachQuery, *)
(* for every finite call graph, every question and every order in which    *)
(* the maps may be ranged over; and so does Boundaries, the other walk     *)
(* over the same graphs, as far as it promises anything.                   *)
(***************************************************************************)
EXTENDS Reaching, Boundaries, FiniteSetTheorems, SequenceTheorems, TLAPS

-----------------------------------------------------------------------------
(***************************************************************************)
(* Queues, cones and graphs.                                               *)
(***************************************************************************)

(* A queue holds its head and what is left of it. *)
LEMMA RangeOfTail ==
  ASSUME NEW S, NEW q \in Seq(S), q # << >>
  PROVE  /\ Head(q) \in S
         /\ Tail(q) \in Seq(S)
         /\ Range(q) = {Head(q)} \cup Range(Tail(q))
<1>1. <<Head(q)>> \in Seq(S) /\ Tail(q) \in Seq(S) /\ q = <<Head(q)>> \o Tail(q)
  OBVIOUS
<1>2. Range(<<Head(q)>>) = {Head(q)}
  BY DEF Range
<1>3. Range(q) = Range(<<Head(q)>>) \cup Range(Tail(q))
  BY <1>1, RangeConcatenation
<1> QED BY <1>1, <1>2, <1>3

(* An order of a set of nodes is a queue holding just that set. *)
LEMMA OrderIsQueue ==
  ASSUME NEW N, IsFiniteSet(N), NEW S \in SUBSET N, NEW q \in Orders(S)
  PROVE  q \in Seq(N) /\ Range(q) = S
<1>1. Cardinality(S) \in Nat
  BY FS_Subset, FS_CardinalityType
<1>2. q \in Seq(S)
  BY <1>1 DEF Orders
<1> QED BY <1>2 DEF Orders

(* The cone is the least closed set around its seeds. *)
LEMMA ConeHoldsSeeds ==
  ASSUME NEW h, NEW seeds \in SUBSET Nodes(h)
  PROVE  seeds \subseteq Cone(h, seeds) /\ Cone(h, seeds) \subseteq Nodes(h)
BY DEF Cone

LEMMA ConeHoldsCallers ==
  ASSUME NEW h, NEW seeds, NEW n \in Cone(h, seeds), ~ IsTestNode(h, n),
         Callers(h, n) \subseteq Nodes(h)
  PROVE  Callers(h, n) \subseteq Cone(h, seeds)
BY DEF Cone, Closed

LEMMA ConeIsLeast ==
  ASSUME NEW h, NEW seeds, NEW S \in SUBSET Nodes(h),
         seeds \subseteq S, Closed(h, S)
  PROVE  Cone(h, seeds) \subseteq S
BY DEF Cone

(* What every step of a walk takes for granted about the graph. *)
LEMMA GraphFacts ==
  ASSUME NEW h, IsGraph(h)
  PROVE  /\ IsFiniteSet(Nodes(h))
         /\ NoNode \notin Nodes(h)
         /\ \A n \in Nodes(h) : /\ h.rev[n] \in Seq(Nodes(h))
                                /\ Callers(h, n) \subseteq Nodes(h)
                                /\ h.nodeKey[n] \in Keys
                                /\ TestAt(h, n) \in Tests \cup {NoTest}
         /\ \A k \in Keys : h.keyPkg[k] \in Pkgs \cup {NoPkg}
         /\ \A t \in Tests : h.initNode[t] \in Nodes(h) \cup {NoNode}
<1>1. \A n \in Nodes(h) : h.rev[n] \in Seq(Nodes(h))
  BY DEF IsGraph
<1>2. \A n \in Nodes(h) : Callers(h, n) \subseteq Nodes(h)
  BY <1>1, RangeOfSeq DEF Callers
<1> QED BY <1>1, <1>2 DEF IsGraph, TestAt

LEMMA SeedsAreNodes ==
  ASSUME NEW h, NEW ks, NEW pkg
  PROVE  Seeds(h, ks, pkg) \subseteq Nodes(h) /\ NodesOf(h, ks) \subseteq Nodes(h)
BY DEF Seeds, NodesOf

-----------------------------------------------------------------------------
(* Type correctness: the walk never leaves the nodes of the graph, has an  *)
(* origin for every node it has met, and gives each test at most one key   *)
(* (graph.go 326-384).                                                     *)
LEMMA TypeInit == Init => TypeOK
<1> SUFFICES ASSUME Init PROVE TypeOK
  OBVIOUS
<1>1. Groups(graph, changed) \subseteq Pkgs \cup {NoPkg}
  BY GraphsAssumption, GraphFacts DEF Init, Groups, NodesOf
<1>2. Frontier = {}
  BY DEF Init, Frontier, Range
<1> QED BY <1>1, <1>2 DEF Init, TypeOK, NoFrom, NoHits

LEMMA TypeNext == TypeOK /\ [Next]_vars => TypeOK'
<1> SUFFICES ASSUME TypeOK, [Next]_vars PROVE TypeOK'
  OBVIOUS
<1> USE DEF TypeOK
<1>1. ASSUME NEW pkg \in Pkgs \cup {NoPkg}, StartGroup(pkg) PROVE TypeOK'
  <2>1. queue' \in Seq(Nodes(graph))
    BY <1>1, GraphsAssumption, GraphFacts, SeedsAreNodes, OrderIsQueue DEF StartGroup
  <2>2. from' \in [Nodes(graph) -> Keys \cup {NoKey}]
    BY <1>1, GraphsAssumption, GraphFacts DEF StartGroup
  <2>3. Frontier' = Seeds(graph, changed, pkg)
    <3>1. visited' = {} /\ queue' \in Orders(Seeds(graph, changed, pkg))
      BY <1>1 DEF StartGroup
    <3> QED BY <3>1, GraphsAssumption, GraphFacts, SeedsAreNodes, OrderIsQueue DEF Frontier
  <2>4. \A n \in Frontier' : from'[n] # NoKey
    <3>1. \A n \in Nodes(graph) : n \in Seeds(graph, changed, pkg)
                                   => from'[n] = graph.nodeKey[n]
      BY <1>1 DEF StartGroup
    <3>2. \A n \in Nodes(graph) : graph.nodeKey[n] \in Keys
      BY GraphsAssumption, GraphFacts
    <3> QED BY <2>3, <3>1, <3>2, SeedsAreNodes, SentinelsAssumption
  <2> QED BY <1>1, <2>1, <2>2, <2>4 DEF StartGroup
<1>2. CASE SkipVisited
  <2>1. /\ Tail(queue) \in Seq(Nodes(graph))
        /\ Range(queue) = {Head(queue)} \cup Range(Tail(queue))
    BY <1>2, RangeOfTail DEF SkipVisited
  <2>2. Frontier' = Frontier
    BY <1>2, <2>1 DEF SkipVisited, Frontier
  <2> QED BY <1>2, <2>1, <2>2 DEF SkipVisited
<1>3. ASSUME NEW pkg \in Pkgs \cup {NoPkg}, ArriveAtTest(pkg) PROVE TypeOK'
  <2>1. /\ Head(queue) \in Nodes(graph) /\ Tail(queue) \in Seq(Nodes(graph))
        /\ Range(queue) = {Head(queue)} \cup Range(Tail(queue))
    BY <1>3, RangeOfTail DEF ArriveAtTest
  <2>2. hits' \in [Tests -> Keys \cup {NoKey}]
    BY <1>3, <2>1 DEF ArriveAtTest
  <2>3. Frontier' = Frontier
    BY <1>3, <2>1 DEF ArriveAtTest, Frontier
  <2> QED BY <1>3, <2>1, <2>2, <2>3 DEF ArriveAtTest
<1>4. CASE Expand
  <2>1. /\ Head(queue) \in Nodes(graph) /\ Tail(queue) \in Seq(Nodes(graph))
        /\ Range(queue) = {Head(queue)} \cup Range(Tail(queue))
    BY <1>4, RangeOfTail DEF Expand
  <2>2. queue' \in Seq(Nodes(graph))
    BY <1>4, <2>1, GraphsAssumption, GraphFacts, RangeConcatenation DEF Expand
  <2>3. from' \in [Nodes(graph) -> Keys \cup {NoKey}]
    BY <1>4, <2>1 DEF Expand
  <2>4. /\ Frontier' = Frontier \cup Callers(graph, Head(queue))
        /\ Head(queue) \in Frontier /\ Frontier \subseteq Nodes(graph)
        /\ Callers(graph, Head(queue)) \subseteq Nodes(graph)
    <3>1. /\ graph.rev[Head(queue)] \in Seq(Nodes(graph))
          /\ Callers(graph, Head(queue)) \subseteq Nodes(graph)
      BY <2>1, GraphsAssumption, GraphFacts
    <3>2. \A q, r \in Seq(Nodes(graph)) : Range(q \o r) = Range(q) \cup Range(r)
      BY RangeConcatenation
    <3>3. Range(queue') = Range(Tail(queue)) \cup Callers(graph, Head(queue))
      BY <1>4, <2>1, <3>1, <3>2 DEF Expand, Callers
    <3>4. Range(queue) \subseteq Nodes(graph)
      BY RangeOfSeq
    <3> QED BY <1>4, <2>1, <3>1, <3>3, <3>4 DEF Expand, Frontier
  <2>5. \A m \in Nodes(graph) :
          from'[m] = IF m \in Callers(graph, Head(queue)) /\ from[m] = NoKey
                     THEN from[Head(queue)] ELSE from[m]
    BY <1>4 DEF Expand
  <2>6. \A m \in Frontier' : from'[m] # NoKey
    BY <2>4, <2>5
  <2> QED BY <1>4, <2>1, <2>2, <2>3, <2>6 DEF Expand
<1>5. ASSUME NEW pkg \in Pkgs \cup {NoPkg}, FinishGroup(pkg) PROVE TypeOK'
  <2>1. hits' \in [Tests -> Keys \cup {NoKey}]
    BY <1>5 DEF FinishGroup
  <2> QED BY <1>5, <2>1 DEF FinishGroup, Frontier
<1>6. CASE UNCHANGED vars
  BY <1>6 DEF vars, Frontier
<1> QED BY <1>1, <1>2, <1>3, <1>4, <1>5, <1>6 DEF Next, Walk, Return

(* The walk keeps to the nodes of the graph, gives a test at most one key, *)
(* and has an origin for every node it has visited or queued (graph.go     *)
(* 326-384).                                                               *)
THEOREM TypeCorrect == Spec => []TypeOK
<1> QED BY TypeInit, TypeNext, PTL DEF Spec

-----------------------------------------------------------------------------
(* What the walk over one group must meet, spelled out. *)
LEMMA GroupOfKey ==
  ASSUME NEW h, NEW ks, NEW n \in NodesOf(h, ks)
  PROVE  /\ h.keyPkg[h.nodeKey[n]] \in Groups(h, ks)
         /\ n \in Seeds(h, ks, h.keyPkg[h.nodeKey[n]])
         /\ h.nodeKey[n] \in ks
         /\ n \in NodesOf(h, {h.nodeKey[n]})
BY DEF NodesOf, Groups, Seeds

(* A test in the cone of one changed key, visible to its binary, is        *)
(* reached from that key.                                                  *)
LEMMA ReachedFromKey ==
  ASSUME NEW h \in Graphs, NEW k, NEW t \in Tests,
         t \in TestsIn(h, Cone(h, NodesOf(h, {k}))), visible(h, t, h.keyPkg[k])
  PROVE  t \in ReachingTests(h, {k})
<1>1. Seeds(h, {k}, h.keyPkg[k]) = NodesOf(h, {k})
  BY DEF Seeds, NodesOf
<1>2. NodesOf(h, {k}) # {}
  <2> SUFFICES ASSUME NodesOf(h, {k}) = {} PROVE FALSE
    OBVIOUS
  <2>1. Closed(h, {})
    BY DEF Closed
  <2>2. Cone(h, NodesOf(h, {k})) = {}
    BY <2>1, ConeIsLeast
  <2>3. h.initNode[t] \in {} \/ \E n \in {} : TestAt(h, n) = t
    BY <2>2 DEF TestsIn
  <2> QED BY <2>3
<1>3. h.keyPkg[k] \in Groups(h, {k})
  BY <1>2 DEF Groups, NodesOf
<1>4. t \in ReachedFrom(h, {k}, h.keyPkg[k])
  BY <1>1 DEF ReachedFrom
<1> QED BY <1>3, <1>4 DEF ReachingTests

(* The invariant, with the truth of the reasons given so far. *)
Inv == TypeOK /\ IInv /\ ReasonJustified

LEMMA InvInit == Init => Inv
<1> SUFFICES ASSUME Init PROVE Inv
  OBVIOUS
<1>1. TypeOK
  BY TypeInit
<1>2. Hit = {} /\ Frontier = {}
  BY DEF Init, Hit, NoHits, Frontier, Range
<1>3. IInv
  BY <1>2 DEF Init, IInv, WalkInv, GroupsInv, FromInv
<1> QED BY <1>1, <1>2, <1>3 DEF Inv, ReasonJustified

(* StartGroup: the frontier is made of the seeds, which are their own      *)
(* origins.                                                                *)
LEMMA InvStartGroup ==
  ASSUME Inv, TypeOK', NEW pkg \in Pkgs \cup {NoPkg}, StartGroup(pkg)
  PROVE  Inv'
<1> DEFINE seeds == Seeds(graph, changed, pkg)
<1>1. /\ graph \in Graphs /\ graph' = graph /\ changed' = changed /\ hits' = hits
      /\ group = {} /\ group' = {pkg} /\ todo' = todo \ {pkg} /\ pkg \in todo
  BY DEF Inv, TypeOK, StartGroup
<1>2. seeds \subseteq Nodes(graph)
  BY SeedsAreNodes
<1>3. Frontier' = seeds
  <2>1. visited' = {} /\ queue' \in Orders(seeds)
    BY DEF StartGroup
  <2> QED BY <1>1, <1>2, <2>1, GraphsAssumption, GraphFacts, OrderIsQueue DEF Frontier
<1>4. Hit' = Hit
  BY <1>1 DEF Hit
<1>5. WalkInv'
  <2>1. seeds \subseteq Cone(graph, seeds)
    BY <1>2, ConeHoldsSeeds
  <2> QED BY <1>1, <1>3, <2>1 DEF WalkInv, StartGroup
<1>6. GroupsInv'
  BY <1>1, <1>4 DEF Inv, IInv, GroupsInv
<1>7. FromInv'
  <2>1. \A n \in Nodes(graph) : from'[n] = IF n \in seeds THEN graph.nodeKey[n] ELSE NoKey
    BY DEF StartGroup
  <2>2. ASSUME NEW n \in seeds
        PROVE  OriginOf(from[n], n)'
    <3>1. from'[n] = graph.nodeKey[n] /\ graph.nodeKey[n] \in Keys
      BY <1>1, <1>2, <2>1, GraphsAssumption, GraphFacts
    <3>2. n \in NodesOf(graph, changed) /\ graph.keyPkg[graph.nodeKey[n]] = pkg
      BY DEF Seeds
    <3>3. n \in Cone(graph, NodesOf(graph, {graph.nodeKey[n]}))
      BY <3>2, GroupOfKey, SeedsAreNodes, ConeHoldsSeeds
    <3> QED BY <1>1, <3>1, <3>2, <3>3, GroupOfKey, SentinelsAssumption DEF OriginOf
  <2> QED BY <1>1, <1>2, <1>3, <2>1, <2>2 DEF FromInv
<1>8. ReasonJustified'
  BY <1>1, <1>4 DEF Inv, ReasonJustified
<1> QED BY <1>5, <1>6, <1>7, <1>8 DEF Inv, IInv

(* SkipVisited: a node that was looked at stays in the frontier. *)
LEMMA InvSkipVisited ==
  ASSUME Inv, TypeOK', SkipVisited
  PROVE  Inv'
<1>1. UNCHANGED <<graph, changed, todo, group, visited, from, hits>>
  BY DEF SkipVisited
<1>2. Frontier' = Frontier
  <2>1. Range(queue) = {Head(queue)} \cup Range(Tail(queue))
    BY RangeOfTail DEF Inv, TypeOK, SkipVisited
  <2> QED BY <1>1, <2>1 DEF Frontier, SkipVisited
<1>3. Hit' = Hit
  BY <1>1 DEF Hit
<1> QED BY <1>1, <1>2, <1>3
  DEF Inv, IInv, WalkInv, GroupsInv, FromInv, OriginOf, ReasonJustified

(* A test that is reported because the walk met the node n, which is the   *)
(* test itself or its package's initialiser, is reported with a reason     *)
(* that holds, and belongs to the answer.                                  *)
LEMMA ReportIsRight ==
  ASSUME Inv, NEW pkg \in group, NEW n \in Frontier, NEW t \in Tests,
         visible(graph, t, pkg),
         graph.initNode[t] = n \/ TestAt(graph, n) = t
  PROVE  /\ from[n] # NoKey
         /\ from[n] \in changed
         /\ t \in ReachingTests(graph, {from[n]})
         /\ t \in ReachedFrom(graph, changed, pkg)
         /\ t \in ReachingTests(graph, changed)
<1>1. graph \in Graphs /\ Frontier \subseteq Nodes(graph)
  BY RangeOfSeq DEF Inv, TypeOK, Frontier
<1>2. from[n] # NoKey /\ OriginOf(from[n], n)
  BY <1>1 DEF Inv, IInv, FromInv, TypeOK
<1>3. graph.keyPkg[from[n]] = pkg
  BY <1>2 DEF OriginOf, Inv, IInv, GroupsInv
<1>4. t \in TestsIn(graph, Cone(graph, NodesOf(graph, {from[n]})))
  BY <1>2 DEF OriginOf, TestsIn
<1>5. t \in ReachingTests(graph, {from[n]})
  BY <1>1, <1>3, <1>4, ReachedFromKey
<1>6. n \in Cone(graph, Seeds(graph, changed, pkg))
  BY DEF Inv, IInv, WalkInv
<1>7. t \in ReachedFrom(graph, changed, pkg)
  BY <1>6 DEF ReachedFrom, TestsIn
<1>8. pkg \in Groups(graph, changed)
  BY DEF Inv, IInv, GroupsInv
<1> QED BY <1>2, <1>5, <1>7, <1>8 DEF OriginOf, ReachingTests

(* ArriveAtTest: the node moves from the queue to the visited ones, and    *)
(* the test, if its binary sees the group, is in Hit from now on.          *)
LEMMA InvArriveAtTest ==
  ASSUME Inv, TypeOK', NEW pkg \in Pkgs \cup {NoPkg}, ArriveAtTest(pkg)
  PROVE  Inv'
<1> DEFINE n == Head(queue)
           t == TestAt(graph, n)
<1>1. /\ UNCHANGED <<graph, changed, todo, group, from>>
      /\ group = {pkg} /\ visited' = visited \cup {n} /\ queue' = Tail(queue)
      /\ t # NoTest
  BY DEF ArriveAtTest
<1>2. n \in Frontier /\ n \in Nodes(graph) /\ Frontier' = Frontier
  <2>1. n \in Nodes(graph) /\ Range(queue) = {n} \cup Range(Tail(queue))
    BY RangeOfTail DEF Inv, TypeOK, ArriveAtTest
  <2> QED BY <1>1, <2>1 DEF Frontier
<1>3. t \in Tests
  BY <1>1, <1>2, GraphsAssumption, GraphFacts DEF Inv, TypeOK
<1>4. hits' = IF hits[t] = NoKey /\ visible(graph, t, pkg)
              THEN [hits EXCEPT ![t] = from[n]] ELSE hits
  BY DEF ArriveAtTest
<1>5. hits \in [Tests -> Keys \cup {NoKey}]
  BY DEF Inv, TypeOK
<1>6. visible(graph, t, pkg) =>
        /\ from[n] # NoKey
        /\ from[n] \in changed
        /\ t \in ReachingTests(graph, {from[n]})
        /\ t \in ReachingTests(graph, changed)
  BY <1>1, <1>2, <1>3, ReportIsRight
<1>7. Hit' = IF visible(graph, t, pkg) THEN Hit \cup {t} ELSE Hit
  BY <1>3, <1>4, <1>5, <1>6 DEF Hit
<1>8. WalkInv'
  <2>1. ASSUME NEW m \in visited'
        PROVE  /\ IsTestNode(graph, m) \/ Callers(graph, m) \subseteq Frontier
               /\ IsTestNode(graph, m) /\ visible(graph, TestAt(graph, m), pkg)
                    => TestAt(graph, m) \in Hit'
    BY <1>1, <1>7 DEF Inv, IInv, WalkInv, IsTestNode
  <2> QED BY <1>1, <1>2, <2>1 DEF Inv, IInv, WalkInv
<1>9. GroupsInv'
  BY <1>1, <1>6, <1>7 DEF Inv, IInv, GroupsInv
<1>10. FromInv'
  BY <1>1, <1>2 DEF Inv, IInv, FromInv, OriginOf
<1>11. ReasonJustified'
  BY <1>1, <1>3, <1>4, <1>5, <1>6, <1>7 DEF Inv, ReasonJustified, Hit
<1> QED BY <1>8, <1>9, <1>10, <1>11 DEF Inv, IInv

(* Expand: the callers of a node in the cone are in the cone, and those    *)
(* met for the first time are reached from the node's own origin.          *)
LEMMA InvExpand ==
  ASSUME Inv, TypeOK', Expand
  PROVE  Inv'
<1> DEFINE n == Head(queue)
<1>1. /\ UNCHANGED <<graph, changed, todo, group, hits>>
      /\ visited' = visited \cup {n} /\ queue' = Tail(queue) \o graph.rev[n]
      /\ ~ IsTestNode(graph, n)
      /\ graph \in Graphs
  BY DEF Expand, Inv, TypeOK
<1>2. n \in Frontier /\ n \in Nodes(graph)
      /\ Range(queue) = {n} \cup Range(Tail(queue)) /\ Tail(queue) \in Seq(Nodes(graph))
  <2>1. /\ n \in Nodes(graph) /\ Tail(queue) \in Seq(Nodes(graph))
        /\ Range(queue) = {n} \cup Range(Tail(queue))
    BY RangeOfTail DEF Inv, TypeOK, Expand
  <2> QED BY <2>1 DEF Frontier
<1>3. Frontier' = Frontier \cup Callers(graph, n)
  <2>1. graph.rev[n] \in Seq(Nodes(graph))
    BY <1>1, <1>2, GraphsAssumption, GraphFacts
  <2>2. \A q, r \in Seq(Nodes(graph)) : Range(q \o r) = Range(q) \cup Range(r)
    BY RangeConcatenation
  <2>3. Range(queue') = Range(Tail(queue)) \cup Callers(graph, n)
    BY <1>1, <1>2, <2>1, <2>2 DEF Callers
  <2> QED BY <1>1, <1>2, <2>3 DEF Frontier
<1>4. Callers(graph, n) \subseteq Nodes(graph)
  BY <1>1, <1>2, GraphsAssumption, GraphFacts
<1>5. Hit' = Hit
  BY <1>1 DEF Hit
<1>6. WalkInv'
  <2> SUFFICES ASSUME NEW pkg \in group
               PROVE  /\ Seeds(graph, changed, pkg) \subseteq Frontier'
                      /\ Frontier' \subseteq Cone(graph, Seeds(graph, changed, pkg))
                      /\ \A m \in visited' : \/ IsTestNode(graph, m)
                                             \/ Callers(graph, m) \subseteq Frontier'
                      /\ \A m \in visited' :
                           IsTestNode(graph, m) /\ visible(graph, TestAt(graph, m), pkg)
                             => TestAt(graph, m) \in Hit
    BY <1>1, <1>5 DEF WalkInv
  <2>1. Callers(graph, n) \subseteq Cone(graph, Seeds(graph, changed, pkg))
    BY <1>1, <1>2, <1>4, ConeHoldsCallers DEF Inv, IInv, WalkInv
  <2> QED BY <1>1, <1>3, <2>1 DEF Inv, IInv, WalkInv
<1>7. GroupsInv'
  BY <1>1, <1>5 DEF Inv, IInv, GroupsInv
<1>8. FromInv'
  <2>1. \A m \in Nodes(graph) : from'[m] = IF m \in Callers(graph, n) /\ from[m] = NoKey
                                         THEN from[n] ELSE from[m]
    BY DEF Expand
  <2>2. from[n] # NoKey /\ Frontier \subseteq Nodes(graph)
    BY <1>2, RangeOfSeq DEF Inv, Frontier, TypeOK
  <2>3. ASSUME group # {}, NEW m \in Nodes(graph), from'[m] # NoKey
        PROVE  OriginOf(from'[m], m)
    <3>1. OriginOf(from[n], n)
      BY <1>2, <2>2, <2>3 DEF Inv, IInv, FromInv
    <3>2. CASE m \in Callers(graph, n) /\ from[m] = NoKey
      <4>1. m \in Cone(graph, NodesOf(graph, {from[n]}))
        BY <1>1, <1>4, <3>1, <3>2, ConeHoldsCallers DEF OriginOf
      <4> QED BY <2>1, <3>1, <3>2, <4>1 DEF OriginOf
    <3>3. CASE ~ (m \in Callers(graph, n) /\ from[m] = NoKey)
      BY <2>1, <2>3, <3>3 DEF Inv, IInv, FromInv
    <3> QED BY <3>2, <3>3
  <2> QED BY <1>1, <2>3 DEF FromInv, OriginOf
<1>9. ReasonJustified'
  BY <1>1, <1>5 DEF Inv, ReasonJustified
<1> QED BY <1>6, <1>7, <1>8, <1>9 DEF Inv, IInv

(* FinishGroup: nothing is left to expand, so the visited nodes are closed *)
(* and hence the whole cone.                                               *)
LEMMA InvFinishGroup ==
  ASSUME Inv, TypeOK', NEW pkg \in Pkgs \cup {NoPkg}, FinishGroup(pkg)
  PROVE  Inv'
<1> DEFINE cone == Cone(graph, Seeds(graph, changed, pkg))
<1>1. /\ UNCHANGED <<graph, changed, todo, queue, visited, from>>
      /\ group = {pkg} /\ group' = {} /\ queue = << >> /\ graph \in Graphs
      /\ visited \subseteq Nodes(graph)
  BY DEF FinishGroup, Inv, TypeOK
<1>2. Frontier = visited /\ Frontier' = Frontier
  BY <1>1 DEF Frontier, Range
<1>3. visited = cone
  <2>1. Closed(graph, visited)
    BY <1>1, <1>2 DEF Inv, IInv, WalkInv, Closed
  <2>2. Seeds(graph, changed, pkg) \subseteq visited
    BY <1>1, <1>2 DEF Inv, IInv, WalkInv
  <2>3. cone \subseteq visited
    BY <1>1, <2>1, <2>2, ConeIsLeast
  <2> QED BY <1>1, <1>2, <2>3 DEF Inv, IInv, WalkInv
<1>4. hits' = [t \in Tests |->
                 IF /\ hits[t] = NoKey
                    /\ graph.initNode[t] \in visited
                    /\ visible(graph, t, pkg)
                 THEN from[graph.initNode[t]] ELSE hits[t]]
  BY DEF FinishGroup
<1>5. ASSUME NEW t \in Tests, graph.initNode[t] \in visited, visible(graph, t, pkg)
      PROVE  /\ from[graph.initNode[t]] # NoKey
             /\ from[graph.initNode[t]] \in changed
             /\ t \in ReachingTests(graph, {from[graph.initNode[t]]})
             /\ t \in ReachingTests(graph, changed)
  BY <1>1, <1>2, <1>5, ReportIsRight
<1>6. Hit \subseteq Hit'
  BY <1>4, <1>5 DEF Hit
<1>7. Hit' \subseteq Hit \cup ReachingTests(graph, changed)
  BY <1>4, <1>5 DEF Hit
<1>8. ReachedFrom(graph, changed, pkg) \subseteq Hit'
  <2> SUFFICES ASSUME NEW t \in Tests, t \in TestsIn(graph, visited), visible(graph, t, pkg)
               PROVE  t \in Hit'
    BY <1>3 DEF ReachedFrom, TestsIn
  <2>1. CASE graph.initNode[t] \in visited
    BY <1>4, <1>5, <2>1 DEF Hit
  <2>2. ASSUME NEW n \in visited, TestAt(graph, n) = t
        PROVE  t \in Hit'
    <3>1. IsTestNode(graph, n)
      BY <2>2, SentinelsAssumption DEF IsTestNode
    <3> QED BY <1>1, <1>6, <2>2, <3>1 DEF Inv, IInv, WalkInv
  <2> QED BY <2>1, <2>2 DEF TestsIn
<1>9. WalkInv'
  BY <1>1 DEF WalkInv
<1>10. GroupsInv'
  BY <1>1, <1>6, <1>7, <1>8 DEF Inv, IInv, GroupsInv
<1>11. FromInv'
  BY <1>1, <1>2 DEF Inv, IInv, FromInv
<1>12. ReasonJustified'
  <2> SUFFICES ASSUME NEW t \in Tests, hits'[t] # NoKey
               PROVE  hits'[t] \in changed /\ t \in ReachingTests(graph, {hits'[t]})
    BY <1>1 DEF ReasonJustified, Hit
  <2>1. CASE hits[t] = NoKey
    BY <1>4, <1>5, <2>1
  <2>2. CASE hits[t] # NoKey
    BY <1>4, <2>2 DEF Inv, ReasonJustified, Hit
  <2> QED BY <2>1, <2>2
<1> QED BY <1>9, <1>10, <1>11, <1>12 DEF Inv, IInv

LEMMA InvNext == Inv /\ [Next]_vars => Inv'
<1> SUFFICES ASSUME Inv, [Next]_vars PROVE Inv'
  OBVIOUS
<1>1. TypeOK'
  BY TypeNext DEF Inv
<1>2. CASE UNCHANGED vars
  BY <1>1, <1>2 DEF vars, Inv, IInv, WalkInv, GroupsInv, FromInv, OriginOf,
                    Frontier, Hit, ReasonJustified
<1> QED BY <1>1, <1>2, InvStartGroup, InvSkipVisited, InvArriveAtTest, InvExpand,
           InvFinishGroup DEF Next, Walk, Return

(* Half-way through, the walk has met only what is in the cone of the      *)
(* group, and holds what it has yet to see in the queue (graph.go 341-382).*)
THEOREM Invariance == Spec => []Inv
<1> QED BY InvInit, InvNext, PTL DEF Spec

(* The answer is exact when it is handed over: with no group left, every   *)
(* group is among those that are done (graph.go 314-384).                  *)
LEMMA InvGivesExact == Inv => WalkIsExact
<1> SUFFICES ASSUME Inv, Returned PROVE Hit = ReachingTests(graph, changed)
  BY DEF WalkIsExact
<1>1. \A pkg \in Groups(graph, changed) : ReachedFrom(graph, changed, pkg) \subseteq Hit
  BY DEF Returned, Inv, IInv, GroupsInv
<1>2. Hit \subseteq ReachingTests(graph, changed)
  BY DEF Inv, IInv, GroupsInv
<1> QED BY <1>1, <1>2 DEF ReachingTests

(* The answer is ReachingTests whatever the order of the maps (graph.go    *)
(* 326-384).                                                               *)
THEOREM Exactness == Spec => []WalkIsExact
<1> QED BY Invariance, InvGivesExact, PTL

(* A reason given to the user is one that would select the test by itself  *)
(* (graph.go 347, 358-371, 379).                                           *)
THEOREM Reasons == Spec => []ReasonJustified
<1>1. Inv => ReasonJustified
  BY DEF Inv
<1> QED BY <1>1, Invariance, PTL

-----------------------------------------------------------------------------
(* Visiting one more node makes its calls, and no others, count. *)
LEMMA OneMoreVisited ==
  ASSUME TypeOK, IsFiniteSet(CallsOf(visited)), NEW n \in Nodes(graph) \ visited
  PROVE  LET calls == CallsOf(visited \cup {n})
         IN  /\ IsFiniteSet(calls)
             /\ Cardinality(calls) = Cardinality(CallsOf(visited)) + Len(graph.rev[n])
<1> DEFINE new == {n} \X DOMAIN graph.rev[n]
<1>1. graph.rev[n] \in Seq(Nodes(graph))
  BY GraphsAssumption, GraphFacts DEF TypeOK
<1>2. DOMAIN graph.rev[n] = 1 .. Len(graph.rev[n]) /\ Len(graph.rev[n]) \in Nat
  BY <1>1
<1>3. IsFiniteSet(DOMAIN graph.rev[n]) /\ Cardinality(DOMAIN graph.rev[n]) = Len(graph.rev[n])
  BY <1>2, FS_Interval
<1>4. IsFiniteSet(new) /\ Cardinality(new) = Len(graph.rev[n])
  <2>1. IsFiniteSet({n}) /\ Cardinality({n}) = 1
    BY FS_Singleton
  <2>2. IsFiniteSet(new) /\ Cardinality(new) = 1 * Len(graph.rev[n])
    BY <1>3, <2>1, FS_Product
  <2> QED BY <1>2, <2>2
<1>5. CallsOf(visited \cup {n}) = CallsOf(visited) \cup new
  BY DEF CallsOf
<1>6. CallsOf(visited) \cap new = {}
  BY DEF CallsOf
<1> HIDE DEF new
<1>7. Cardinality(CallsOf(visited)) \in Nat
  BY FS_CardinalityType
<1>8. /\ IsFiniteSet(CallsOf(visited) \cup new)
      /\ Cardinality(CallsOf(visited) \cup new)
           = Cardinality(CallsOf(visited)) + Cardinality(new) - Cardinality({})
  BY <1>4, <1>6, FS_Union
<1>9. Cardinality(CallsOf(visited) \cup new)
        = Cardinality(CallsOf(visited)) + Len(graph.rev[n])
  <2>1. Cardinality({}) = 0
    BY FS_EmptySet
  <2> QED BY <1>2, <1>4, <1>7, <1>8, <2>1
<1> QED BY <1>5, <1>8, <1>9

(* What the walk counts stays finite, which QueueBounded takes for granted. *)
CountInv == QueueBounded /\ (group # {} => IsFiniteSet(CallsOf(visited)))

LEMMA CountNext ==
  ASSUME TypeOK, TypeOK', CountInv, [Next]_vars
  PROVE  CountInv'
<1>1. \A S \in SUBSET Nodes(graph) : IsFiniteSet(S) /\ Cardinality(S) \in Nat
  BY GraphsAssumption, GraphFacts, FS_Subset, FS_CardinalityType DEF TypeOK
<1>2. ASSUME NEW pkg \in Pkgs \cup {NoPkg}, StartGroup(pkg) PROVE CountInv'
  <2> DEFINE seeds == Seeds(graph, changed, pkg)
  <2>1. /\ group' = {pkg} /\ visited' = {} /\ queue' \in Orders(seeds)
        /\ graph' = graph /\ changed' = changed
    BY <1>2 DEF StartGroup
  <2>2. Cardinality(seeds) \in Nat
    BY <1>1, SeedsAreNodes
  <2>3. Len(queue') = Cardinality(seeds)
    BY <2>1, <2>2 DEF Orders
  <2>4. CallsOf(visited)' = {}
    BY <2>1 DEF CallsOf
  <2>5. IsFiniteSet({}) /\ Cardinality({}) = 0
    BY FS_EmptySet
  <2>6. Len(queue') + Cardinality({}) <= Cardinality(seeds) + Cardinality({})
    BY <2>2, <2>3, <2>5
  <2> HIDE DEF seeds
  <2>7. QueueBounded'
    BY <2>1, <2>4, <2>6 DEF QueueBounded, seeds
  <2> QED BY <2>4, <2>5, <2>7 DEF CountInv
<1>3. CASE SkipVisited
  <2>1. /\ UNCHANGED <<graph, changed, group, visited>>
        /\ Len(queue') = Len(queue) - 1 /\ Len(queue) \in Nat
    BY <1>3 DEF SkipVisited, TypeOK
  <2>2. CallsOf(visited)' = CallsOf(visited)
    BY <2>1 DEF CallsOf
  <2> SUFFICES ASSUME NEW pkg \in group
               PROVE  Len(queue') + Cardinality(visited)
                        <= Cardinality(Seeds(graph, changed, pkg))
                           + Cardinality(CallsOf(visited))
    BY <2>1, <2>2 DEF CountInv, QueueBounded
  <2>3. /\ Cardinality(visited) \in Nat /\ Cardinality(Seeds(graph, changed, pkg)) \in Nat
        /\ Cardinality(CallsOf(visited)) \in Nat
    BY <1>1, SeedsAreNodes, FS_CardinalityType DEF TypeOK, CountInv
  <2> QED BY <2>1, <2>3 DEF CountInv, QueueBounded
<1>4. ASSUME UNCHANGED <<graph, changed, group>>, queue # << >>,
             LET n == Head(queue)
             IN  /\ n \notin visited /\ visited' = visited \cup {n}
                 /\ Len(queue') <= Len(queue) - 1 + Len(graph.rev[n])
      PROVE  CountInv'
  <2> DEFINE n == Head(queue)
  <2>1. n \in Nodes(graph) \ visited
    BY <1>4, RangeOfTail DEF TypeOK
  <2>2. CallsOf(visited)' = CallsOf(visited \cup {n})
    BY <1>4 DEF CallsOf
  <2> SUFFICES ASSUME NEW pkg \in group
               PROVE  /\ IsFiniteSet(CallsOf(visited \cup {n}))
                      /\ Len(queue') + Cardinality(visited \cup {n})
                           <= Cardinality(Seeds(graph, changed, pkg))
                              + Cardinality(CallsOf(visited \cup {n}))
    BY <1>4, <2>2 DEF CountInv, QueueBounded
  <2>3. /\ IsFiniteSet(CallsOf(visited \cup {n}))
        /\ Cardinality(CallsOf(visited \cup {n}))
             = Cardinality(CallsOf(visited)) + Len(graph.rev[n])
    BY <2>1, OneMoreVisited DEF CountInv
  <2>4. Cardinality(visited \cup {n}) = Cardinality(visited) + 1
    BY <1>1, <2>1, FS_AddElement DEF TypeOK
  <2>5. /\ Cardinality(visited) \in Nat /\ Cardinality(Seeds(graph, changed, pkg)) \in Nat
        /\ Cardinality(CallsOf(visited)) \in Nat
    BY <1>1, SeedsAreNodes, FS_CardinalityType DEF TypeOK, CountInv
  <2>6. Len(queue') \in Nat /\ Len(queue) \in Nat /\ Len(graph.rev[n]) \in Nat
    BY <1>4, <2>1, GraphsAssumption, GraphFacts DEF TypeOK
  <2>7. Len(queue) + Cardinality(visited)
          <= Cardinality(Seeds(graph, changed, pkg)) + Cardinality(CallsOf(visited))
    BY DEF CountInv, QueueBounded
  <2>8. Len(queue') <= Len(queue) - 1 + Len(graph.rev[n])
    BY <1>4
  <2> HIDE DEF n
  <2> QED BY <2>3, <2>4, <2>5, <2>6, <2>7, <2>8
<1>5. ASSUME NEW pkg \in Pkgs \cup {NoPkg}, ArriveAtTest(pkg) PROVE CountInv'
  <2>1. Head(queue) \in Nodes(graph)
    BY <1>5, RangeOfTail DEF ArriveAtTest, TypeOK
  <2>2. Len(graph.rev[Head(queue)]) \in Nat
    BY <2>1, GraphsAssumption, GraphFacts DEF TypeOK
  <2>3. Len(queue') = Len(queue) - 1 /\ Len(queue) \in Nat
    BY <1>5 DEF ArriveAtTest, TypeOK
  <2>4. Len(queue') <= Len(queue) - 1 + Len(graph.rev[Head(queue)])
    BY <2>2, <2>3
  <2> QED BY <1>4, <1>5, <2>4 DEF ArriveAtTest
<1>6. CASE Expand
  <2>1. Head(queue) \in Nodes(graph)
    BY <1>6, RangeOfTail DEF Expand, TypeOK
  <2>2. graph.rev[Head(queue)] \in Seq(Nodes(graph))
    BY <2>1, GraphsAssumption, GraphFacts DEF TypeOK
  <2>3. Len(queue') = Len(queue) - 1 + Len(graph.rev[Head(queue)])
    BY <1>6, <2>2 DEF Expand, TypeOK
  <2>4. Len(queue') <= Len(queue) - 1 + Len(graph.rev[Head(queue)])
    BY <2>2, <2>3 DEF TypeOK
  <2> QED BY <1>4, <1>6, <2>4 DEF Expand
<1>7. ASSUME NEW pkg \in Pkgs \cup {NoPkg}, FinishGroup(pkg) PROVE CountInv'
  BY <1>7 DEF FinishGroup, CountInv, QueueBounded
<1>8. CASE UNCHANGED vars
  BY <1>8 DEF vars, CountInv, QueueBounded, CallsOf
<1> QED BY <1>2, <1>3, <1>5, <1>6, <1>7, <1>8 DEF Next, Walk, Return

(* The queue of every walk is bounded by the size of the graph, whichever  *)
(* calls are recursive: a node that is queued again is dropped without its *)
(* callers being queued again (graph.go 350-357).                          *)
THEOREM Boundedness == Spec => []QueueBounded
<1>1. Init => CountInv
  BY DEF Init, CountInv, QueueBounded
<1>2. TypeOK /\ TypeOK' /\ CountInv /\ [Next]_vars => CountInv'
  BY CountNext
<1>3. CountInv => QueueBounded
  BY DEF CountInv
<1> QED BY <1>1, <1>2, <1>3, TypeCorrect, PTL DEF Spec

-----------------------------------------------------------------------------
(* The walk implements the promise: a step of it either leaves the answer  *)
(* alone or adds tests that belong to it.                                  *)
LEMMA HitGrows ==
  ASSUME TypeOK, [Next]_vars
  PROVE  Hit \subseteq Hit'
<1>1. ASSUME NEW pkg \in Pkgs \cup {NoPkg}, ArriveAtTest(pkg) PROVE Hit \subseteq Hit'
  BY <1>1 DEF ArriveAtTest, Hit, TypeOK
<1>2. ASSUME NEW pkg \in Pkgs \cup {NoPkg}, FinishGroup(pkg) PROVE Hit \subseteq Hit'
  BY <1>2 DEF FinishGroup, Hit, TypeOK
<1> QED BY <1>1, <1>2 DEF Next, Walk, Return, StartGroup, SkipVisited, Expand, vars, Hit

LEMMA StepImplements ==
  ASSUME Inv, Inv', [Next]_vars
  PROVE  [Query!Next]_(Query!vars)
<1>1. UNCHANGED <<graph, changed>>
  BY DEF Next, Walk, Return, StartGroup, SkipVisited, ArriveAtTest, Expand,
         FinishGroup, vars
<1>2. Hit \subseteq Hit'
  BY HitGrows DEF Inv
<1>3. Hit' \in SUBSET ReachingTests(graph, changed)
  BY <1>1 DEF Inv, IInv, GroupsInv
<1>4. Returned' => Hit' = ReachingTests(graph, changed)
  <2>1. Inv' => WalkIsExact'
    BY InvGivesExact, PTL
  <2> QED BY <1>1, <2>1 DEF WalkIsExact
<1>5. CASE Returned
  <2>1. UNCHANGED <<graph, changed, todo, group, hits>>
    BY <1>5 DEF Returned, Next, Walk, StartGroup, SkipVisited, ArriveAtTest, Expand,
                FinishGroup, Return, vars
  <2> QED BY <2>1 DEF Query!vars, Hit, Returned
<1>6. CASE ~ Returned
  <2>1. Returned' \in BOOLEAN
    BY DEF Returned
  <2>2. Query!Right = ReachingTests(graph, changed)
    BY DEF Query!Right
  <2>3. Query!Learn
    BY <1>1, <1>2, <1>3, <1>4, <1>6, <2>1, <2>2 DEF Query!Learn
  <2> QED BY <2>3 DEF Query!Next
<1> QED BY <1>5, <1>6

(* Safety of the implementation: started right, every step of the walk is  *)
(* one the promise allows (graph.go 314-384).                              *)
THEOREM Implementation == Spec => ImplementsQuery
<1>1. Init => Query!Init
  <2> SUFFICES ASSUME Init PROVE Query!Init
    OBVIOUS
  <2>1. Hit = {}
    BY DEF Init, Hit, NoHits
  <2>2. Returned \in BOOLEAN
    BY DEF Returned
  <2>3. Returned => ReachingTests(graph, changed) = {}
    BY DEF Init, Returned, ReachingTests
  <2> QED BY <2>1, <2>2, <2>3 DEF Init, Query!Init, Query!Right
<1>2. Inv /\ Inv' /\ [Next]_vars => [Query!Next]_(Query!vars)
  BY StepImplements
<1> QED BY <1>1, <1>2, Invariance, PTL DEF Spec, ImplementsQuery, Query!Spec
-----------------------------------------------------------------------------
(***************************************************************************)
(* Boundaries walks the same graphs, and finds exactly the boundary        *)
(* symbols, for every set of changed keys and every order of the seeds.    *)
(***************************************************************************)
LEMMA BoundariesTypeInit == BoundariesInit => BoundariesTypeOK
<1> SUFFICES ASSUME BoundariesInit PROVE BoundariesTypeOK
  OBVIOUS
<1>1. queue \in Seq(Nodes(graph))
  BY GraphsAssumption, GraphFacts, OrderIsQueue DEF BoundariesInit, NodesOf
<1> QED BY <1>1 DEF BoundariesInit, BoundariesTypeOK

(* The node a step looks at, and what is left of the queue. *)
LEMMA Visiting ==
  ASSUME BoundariesTypeOK, NEW n, Visit(n)
  PROVE  /\ n \in Nodes(graph)
         /\ Tail(queue) \in Seq(Nodes(graph))
         /\ Range(queue) = {n} \cup Range(Tail(queue))
         /\ visited' = visited \cup {n}
         /\ n \in Frontier
<1>1. queue \in Seq(Nodes(graph)) /\ queue # << >> /\ n = Head(queue)
  BY DEF BoundariesTypeOK, Visit
<1> QED BY <1>1, RangeOfTail DEF Visit, Frontier

LEMMA BoundariesTypeNext ==
  BoundariesTypeOK /\ [BoundariesNext]_boundaryVars => BoundariesTypeOK'
<1> SUFFICES ASSUME BoundariesTypeOK, [BoundariesNext]_boundaryVars PROVE BoundariesTypeOK'
  OBVIOUS
<1>1. ASSUME NEW n \in Nodes(graph), SkipSeen(n) \/ StopAtTest(n)
      PROVE  BoundariesTypeOK'
  BY <1>1, Visiting DEF SkipSeen, StopAtTest, StopAt, BoundariesTypeOK
<1>2. ASSUME NEW n \in Nodes(graph), StopWithoutCaller(n) PROVE BoundariesTypeOK'
  <2>1. graph.nodeKey[n] \in Keys
    BY GraphsAssumption, GraphFacts DEF BoundariesTypeOK
  <2> QED BY <1>2, <2>1, Visiting DEF StopWithoutCaller, StopAt, BoundariesTypeOK
<1>3. ASSUME NEW n \in Nodes(graph), GoOn(n) PROVE BoundariesTypeOK'
  <2>1. graph.rev[n] \in Seq(Nodes(graph))
    BY GraphsAssumption, GraphFacts DEF BoundariesTypeOK
  <2>2. \A q, r \in Seq(Nodes(graph)) : q \o r \in Seq(Nodes(graph))
    BY RangeConcatenation
  <2>3. Tail(queue) \o graph.rev[n] \in Seq(Nodes(graph))
    BY <1>3, <2>1, <2>2, Visiting DEF GoOn
  <2> QED BY <1>3, <2>3, Visiting DEF GoOn, BoundariesTypeOK
<1>4. CASE Finish
  BY <1>4 DEF Finish, BoundariesTypeOK
<1>5. CASE UNCHANGED boundaryVars
  BY <1>5 DEF boundaryVars, BoundariesTypeOK
<1> QED BY <1>1, <1>2, <1>3, <1>4, <1>5 DEF BoundariesNext, BoundariesStep, BoundariesReturn

-----------------------------------------------------------------------------
LEMMA BoundariesInvInit == BoundariesInit => BoundariesTypeOK /\ BoundariesInv
<1> SUFFICES ASSUME BoundariesInit PROVE BoundariesTypeOK /\ BoundariesInv
  OBVIOUS
<1> DEFINE seeds == NodesOf(graph, changed)
<1>1. seeds \subseteq Nodes(graph) /\ IsFiniteSet(Nodes(graph))
  BY GraphsAssumption, GraphFacts DEF BoundariesInit, NodesOf
<1>2. Range(queue) = seeds
  BY <1>1, OrderIsQueue DEF BoundariesInit
<1>3. Frontier = seeds
  BY <1>2 DEF BoundariesInit, Frontier
<1>4. seeds \subseteq Cone(graph, seeds)
  BY <1>1 DEF Cone
<1> QED BY <1>3, <1>4, BoundariesTypeInit DEF BoundariesInit, BoundariesInv

(* A node is looked at and none of its callers is new: at a test, or where *)
(* there is no caller.                                                     *)
LEMMA StopInv ==
  ASSUME BoundariesTypeOK, BoundariesInv, NEW n \in Nodes(graph),
         StopAtTest(n) \/ StopWithoutCaller(n)
  PROVE  BoundariesInv'
<1>1. /\ UNCHANGED <<graph, changed, finished>>
      /\ visited' = visited \cup {n}
      /\ Frontier' = Frontier
      /\ finished => queue' = << >>
  BY Visiting DEF StopAtTest, StopWithoutCaller, StopAt, Frontier,
                      Visit, BoundariesInv
<1>2. IsTestNode(graph, n) \/ Callers(graph, n) \subseteq Frontier
  BY DEF StopAtTest, StopWithoutCaller, Callers, Range
<1>3. found' = {graph.nodeKey[m] : m \in {k \in visited' : IsBoundary(graph, k)}}
  <2>1. CASE StopAtTest(n)
    <3>1. ~ IsBoundary(graph, n) /\ found' = found
      BY <2>1 DEF StopAtTest, IsBoundary
    <3> QED BY <1>1, <3>1 DEF BoundariesInv
  <2>2. CASE StopWithoutCaller(n)
    <3>1. found' = IF IsBoundary(graph, n) THEN found \cup {graph.nodeKey[n]} ELSE found
      BY <2>2 DEF StopWithoutCaller, IsBoundary
    <3> QED BY <1>1, <3>1 DEF BoundariesInv
  <2> QED BY <2>1, <2>2
<1> QED BY <1>1, <1>2, <1>3 DEF BoundariesInv

(* A node with callers is no boundary, and its callers are in the cone.    *)
LEMMA GoOnInv ==
  ASSUME BoundariesTypeOK, BoundariesInv, NEW n \in Nodes(graph), GoOn(n)
  PROVE  BoundariesInv'
<1>1. /\ UNCHANGED <<graph, changed, found, finished>>
      /\ visited' = visited \cup {n}
      /\ queue' = Tail(queue) \o graph.rev[n]
      /\ graph \in Graphs
  BY DEF GoOn, Visit, BoundariesTypeOK
<1>2. /\ Frontier' = Frontier \cup Callers(graph, n)
      /\ Callers(graph, n) \subseteq Nodes(graph)
  <2>1. /\ graph.rev[n] \in Seq(Nodes(graph))
        /\ Callers(graph, n) \subseteq Nodes(graph)
    BY <1>1, GraphsAssumption, GraphFacts
  <2>2. \A q, r \in Seq(Nodes(graph)) : Range(q \o r) = Range(q) \cup Range(r)
    BY RangeConcatenation
  <2>3. /\ Tail(queue) \in Seq(Nodes(graph))
        /\ Range(queue) = {n} \cup Range(Tail(queue))
    BY Visiting DEF GoOn
  <2>4. Range(queue') = Range(Tail(queue)) \cup Callers(graph, n)
    BY <1>1, <2>1, <2>2, <2>3 DEF Callers
  <2> QED BY <1>1, <2>1, <2>3, <2>4 DEF Frontier
<1>3. Callers(graph, n) \subseteq Cone(graph, NodesOf(graph, changed))
  <2>1. n \in Cone(graph, NodesOf(graph, changed)) /\ ~ IsTestNode(graph, n)
    BY Visiting DEF GoOn, BoundariesInv
  <2> QED BY <1>2, <2>1 DEF Cone, Closed
<1>4. found' = {graph.nodeKey[m] : m \in {k \in visited' : IsBoundary(graph, k)}}
  <2>1. ~ IsBoundary(graph, n)
    BY DEF GoOn, IsBoundary
  <2> QED BY <1>1, <2>1 DEF BoundariesInv
<1>5. ~ finished
  BY DEF GoOn, Visit, BoundariesInv
<1> QED BY <1>1, <1>2, <1>3, <1>4, <1>5 DEF BoundariesInv

LEMMA BoundariesInvNext ==
  BoundariesTypeOK /\ BoundariesInv /\ [BoundariesNext]_boundaryVars => BoundariesInv'
<1> SUFFICES ASSUME BoundariesTypeOK, BoundariesInv, [BoundariesNext]_boundaryVars
             PROVE  BoundariesInv'
  OBVIOUS
<1>1. ASSUME NEW n \in Nodes(graph), SkipSeen(n) PROVE BoundariesInv'
  <2>1. /\ UNCHANGED <<graph, changed, found, finished>>
        /\ visited' = visited /\ Frontier' = Frontier /\ ~ finished
    BY <1>1, Visiting DEF SkipSeen, StopAt, Frontier, Visit, BoundariesInv
  <2> QED BY <2>1 DEF BoundariesInv
<1>2. CASE Finish
  BY <1>2 DEF Finish, BoundariesInv, Frontier
<1>3. CASE UNCHANGED boundaryVars
  BY <1>3 DEF boundaryVars, BoundariesInv, Frontier
<1> QED BY <1>1, <1>2, <1>3, StopInv, GoOnInv DEF BoundariesNext, BoundariesStep, BoundariesReturn

(* The answer is exact: at the end the visited nodes are closed, and so    *)
(* they are the cone (graph.go 386-401).                                   *)
THEOREM BoundariesExactness == BoundariesSpec => []BoundariesExact
<1>1. BoundariesTypeOK /\ BoundariesInv => BoundariesExact
  <2> SUFFICES ASSUME BoundariesTypeOK, BoundariesInv, finished
               PROVE  found = BoundaryKeys(graph, changed)
    BY DEF BoundariesExact
  <2>1. Frontier = visited /\ visited \subseteq Nodes(graph)
    BY DEF BoundariesInv, BoundariesTypeOK, Frontier, Range
  <2>2. Closed(graph, visited)
    BY <2>1 DEF BoundariesInv, Closed
  <2>3. Cone(graph, NodesOf(graph, changed)) \subseteq visited
    BY <2>1, <2>2 DEF BoundariesInv, Cone
  <2>4. Cone(graph, NodesOf(graph, changed)) = visited
    BY <2>1, <2>3 DEF BoundariesInv
  <2> QED BY <2>4 DEF BoundariesInv, BoundaryKeys
<1> QED BY <1>1, BoundariesInvInit, BoundariesInvNext, BoundariesTypeNext, PTL DEF BoundariesSpec

(* A walk that meets no recursion ends somewhere: at a test, where the     *)
(* runtime enters, or at a boundary that is reported (graph.go 386-401,    *)
(* 427-432).  Of the nodes visited, one has no caller among them.          *)
THEOREM BoundariesNotSilent == BoundariesSpec => []NoSilentZero
<1>1. BoundariesTypeOK /\ BoundariesInv => NoSilentZero
  <2> SUFFICES ASSUME BoundariesTypeOK, BoundariesInv, finished,
                      visited # {}, ~ Recursive(graph, visited)
               PROVE  \/ found # {}
                      \/ \E n \in visited : isEntry(graph, graph.nodeKey[n])
    BY DEF NoSilentZero
  <2>1. Frontier = visited /\ visited \subseteq Nodes(graph) /\ graph \in Graphs
    BY DEF BoundariesInv, BoundariesTypeOK, Frontier, Range
  <2>2. PICK n \in visited : Callers(graph, n) \cap visited = {}
    BY DEF Recursive
  <2>3. CASE IsTestNode(graph, n)
    BY <2>3 DEF IsTestNode, TestAt, isEntry
  <2>4. CASE ~ IsTestNode(graph, n)
    <3>1. Callers(graph, n) = {}
      BY <2>1, <2>2, <2>4 DEF BoundariesInv
    <3>2. graph.rev[n] \in Seq(Nodes(graph))
      BY <2>1, GraphsAssumption, GraphFacts
    <3>3. graph.rev[n] = << >>
      <4> SUFFICES ASSUME graph.rev[n] # << >> PROVE FALSE
        OBVIOUS
      <4>1. Head(graph.rev[n]) \in Range(graph.rev[n])
        BY <3>2, RangeOfTail
      <4> QED BY <3>1, <4>1 DEF Callers
    <3>4. isEntry(graph, graph.nodeKey[n]) \/ graph.nodeKey[n] \in found
      BY <2>4, <3>3 DEF BoundariesInv, IsBoundary
    <3> QED BY <3>4
  <2> QED BY <2>3, <2>4
<1> QED BY <1>1, BoundariesInvInit, BoundariesInvNext, BoundariesTypeNext, PTL DEF BoundariesSpec
=============================================================================
