------------------------------ MODULE CallGraph ------------------------------
(***************************************************************************)
(* The call graph that internal/graph/graph.go hands to its queries, and   *)
(* what a backward walk over it finds.  Nothing here changes: Build (or    *)
(* the cache) produces a graph once, and reaching and Boundaries read it.  *)
(*                                                                         *)
(* A graph is a record with the fields of the Go struct the queries use:   *)
(*   rev        rev[n] lists the nodes calling node n, one entry per edge  *)
(*   nodeKey    the symbol key node n is recorded under; a closure and the *)
(*              instances of a generic share the key of their function     *)
(*   keyPkg     the package declaring a key, NoPkg for a wrapper that none *)
(*              of packagePathOf's rules could attribute                   *)
(*   testByKey  the test a key belongs to, NoTest if it is not a test      *)
(*   testPkg    Test.PkgPath                                               *)
(*   initNode   Test.InitNode, NoNode for the code's -1                    *)
(*   pkgDeps    the transitive import closure of a package                 *)
(*   entryKeys  the keys ending in .init or .main                          *)
(***************************************************************************)
EXTENDS Naturals, Sequences, FiniteSets, Functions

CONSTANTS Keys, Pkgs, Tests, NoKey, NoPkg, NoTest, NoNode

Nodes(g) == DOMAIN g.rev

IsGraph(g) ==
  /\ IsFiniteSet(Nodes(g))
  /\ NoNode \notin Nodes(g)
  /\ g.rev \in [Nodes(g) -> Seq(Nodes(g))]
  /\ g.nodeKey \in [Nodes(g) -> Keys]
  /\ g.keyPkg \in [Keys -> Pkgs \cup {NoPkg}]
  /\ g.testByKey \in [Keys -> Tests \cup {NoTest}]
  /\ g.testPkg \in [Tests -> Pkgs]
  /\ g.initNode \in [Tests -> Nodes(g) \cup {NoNode}]
  /\ g.pkgDeps \in [Pkgs -> SUBSET Pkgs]
  /\ g.entryKeys \subseteq Keys

(* byKey, taken over a set of keys; a key without a node is dead code. *)
NodesOf(g, ks) == {n \in Nodes(g) : g.nodeKey[n] \in ks}

TestAt(g, n) == g.testByKey[g.nodeKey[n]]
IsTestNode(g, n) == TestAt(g, n) # NoTest

Callers(g, n) == Range(g.rev[n])

(* The orders in which ranging over a map of keys may queue their nodes. *)
Orders(S) == {s \in [1 .. Cardinality(S) -> S] : Range(s) = S}

(* A test binary cannot call into a package it does not import. *)
visible(g, t, pkg) == pkg = g.testPkg[t] \/ pkg \in g.pkgDeps[g.testPkg[t]]

isEntry(g, key) == g.testByKey[key] # NoTest \/ key \in g.entryKeys

-----------------------------------------------------------------------------
(***************************************************************************)
(* The backward cone of a set of nodes: everything that calls into it,     *)
(* directly or not, through functions that are not tests.  It is stated as *)
(* a least closed set, with no order of visiting in it, so that it can     *)
(* serve as the reference both walks are compared with.                    *)
(***************************************************************************)
Closed(g, S) == \A n \in S : IsTestNode(g, n) \/ Callers(g, n) \subseteq S

Cone(g, seeds) ==
  {n \in Nodes(g) : \A S \in SUBSET Nodes(g) :
                       seeds \subseteq S /\ Closed(g, S) => n \in S}

(* The packages the changed keys are grouped by, and the seeds of a group. *)
Groups(g, changed) == {g.keyPkg[g.nodeKey[n]] : n \in NodesOf(g, changed)}

Seeds(g, changed, pkg) ==
  {n \in NodesOf(g, changed) : g.keyPkg[g.nodeKey[n]] = pkg}

(* The tests a set of visited nodes gives: the tests among them, and those *)
(* whose package initialiser is among them.                                *)
TestsIn(g, S) ==
  {t \in Tests : g.initNode[t] \in S \/ \E n \in S : TestAt(g, n) = t}

ReachedFrom(g, changed, pkg) ==
  {t \in TestsIn(g, Cone(g, Seeds(g, changed, pkg))) : visible(g, t, pkg)}

(* What Reaching promises: the tests that can reach a changed symbol. *)
ReachingTests(g, changed) ==
  UNION {ReachedFrom(g, changed, pkg) : pkg \in Groups(g, changed)}

(* What Boundaries promises: the symbols at which the walk back from the   *)
(* changed ones stops although nothing says a test or the runtime enters   *)
(* there.                                                                  *)
IsBoundary(g, n) ==
  /\ ~ IsTestNode(g, n)
  /\ g.rev[n] = << >>
  /\ ~ isEntry(g, g.nodeKey[n])

BoundaryKeys(g, changed) ==
  {g.nodeKey[n] : n \in {m \in Cone(g, NodesOf(g, changed)) : IsBoundary(g, m)}}
=============================================================================
