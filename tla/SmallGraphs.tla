------------------------------ MODULE SmallGraphs ------------------------------
(***************************************************************************)
(* The graphs both walks are checked on: call graphs over two              *)
(* functions, the initialiser of package A and a test in each of A and B,  *)
(* with up to two callers each, self-calls and cycles included.            *)
(***************************************************************************)
EXTENDS CallGraph

CONSTANTS kF, kG, kInit, kT, kU, A, B, T, U

MCKeys == {kF, kG, kInit, kT, kU}
MCPkgs == {A, B}
MCTests == {T, U}

F == 1
G == 2
I == 3
NT == 4
NU == 5

(* Callers of F and of G: in either order, the same one twice, the function *)
(* itself, a package initialiser, tests.                                    *)
CallersOfF ==
  { << >>, <<F>>, <<G>>, <<NT>>, <<F, G>>, <<NT, G>>, <<G, G>>, <<I, NU>> }

CallersOfG == { << >>, <<F>>, <<I>>, <<F, NU>>, <<NU, NT>> }

(* G is a closure of F, with a node of its own under F's key; a function of *)
(* A; of B; or a wrapper that packagePathOf could not attribute.            *)
KindsOfG == {<<kF, A>>, <<kG, A>>, <<kG, B>>, <<kG, NoPkg>>}

(* One test may call another; B may import A.                               *)
MCGraphs ==
  {[rev |-> <<cF, cG, << >>, cT, << >>>>,
    nodeKey |-> <<kF, kind[1], kInit, kT, kU>>,
    keyPkg |-> [k \in MCKeys |->
                  CASE k = kG -> kind[2] [] k = kU -> B [] OTHER -> A],
    testByKey |-> [k \in MCKeys |->
                     CASE k = kT -> T [] k = kU -> U [] OTHER -> NoTest],
    testPkg |-> [t \in MCTests |-> IF t = T THEN A ELSE B],
    initNode |-> [t \in MCTests |-> IF t = T THEN I ELSE NoNode],
    pkgDeps |-> [p \in MCPkgs |-> IF p = A THEN {} ELSE imported],
    entryKeys |-> {kInit}] :
      cF \in CallersOfF, cG \in CallersOfG, cT \in {<< >>, <<NU>>},
      kind \in KindsOfG, imported \in {{}, {A}}}

MCQuestions == {{}, {kF}, {kF, kG}, {kG, kInit}, {kF, kT}}
=============================================================================
