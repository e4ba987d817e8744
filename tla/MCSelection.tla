------------------------------ MODULE MCSelection ------------------------------
(***************************************************************************)
(* A module with package B in directory b, which imports package A in b/a  *)
(* and package X of the dependency M; a package behind a build tag in c.   *)
(*                                                                         *)
(*   b/a/a.go  1 var V   2-3 func F   4 func G   5 the import block        *)
(*   b/b.go    1 func H  2 func TestU        b/a/a_test.go  1 func TestT   *)
(***************************************************************************)
EXTENDS Selection

CONSTANTS kF, kG, kH, kT, kU, V, A, B, X, M, T, U, sFixture, sGithub, sA, sB, sC

MCKeys == {kF, kG, kH, kT, kU}
MCPkgs == {A, B, X}
MCTests == {T, U}

AGo == "b/a/a.go"
ATest == "b/a/a_test.go"
AEmbedded == "b/a/embedded.md"
AFixture == "b/a/testdata/golden"
AGoFixture == "b/a/testdata/src.go"
AData == "b/a/data"
BGo == "b/b.go"
BData == "b/data"
CGo == "c/c.go"
CData == "c/data"
Doc == "README.md"
Workflow == ".github/ci.yml"
Makefile == "Makefile"
GoMod == "go.mod"

MCFiles == {AGo, ATest, AEmbedded, AFixture, AGoFixture, AData, BGo, BData, CGo,
            CData, Doc, Workflow, Makefile, GoMod}

MCDir == [f \in MCFiles |->
  CASE f \in {AGo, ATest, AEmbedded, AData} -> <<sB, sA>>
    [] f \in {AFixture, AGoFixture} -> <<sB, sA, sFixture>>
    [] f \in {BGo, BData} -> <<sB>>
    [] f \in {CGo, CData} -> <<sC>>
    [] f = Workflow -> <<sGithub>>
    [] OTHER -> << >>]

MCKind == [f \in MCFiles |->
  CASE f \in {AGo, ATest, AGoFixture, BGo, CGo} -> "go"
    [] f \in {AEmbedded, Doc} -> "doc"
    [] f = GoMod -> "go.mod"
    [] OTHER -> "other"]

-----------------------------------------------------------------------------
Node == [F |-> 1, G |-> 2, H |-> 3, NT |-> 4, NU |-> 5]

(* imports: what A and B import, for their tests or otherwise; what only   *)
(* the tests of A import is not in the closure of B.                       *)
Calls(cF, cG, cH, imports) ==
  [rev |-> <<cF, cG, cH, << >>, << >>>>,
   nodeKey |-> <<kF, kG, kH, kT, kU>>,
   keyPkg |-> [k \in MCKeys |-> IF k \in {kH, kU} THEN B ELSE A],
   testByKey |-> [k \in MCKeys |->
                    CASE k = kT -> T [] k = kU -> U [] OTHER -> NoTest],
   testPkg |-> [t \in MCTests |-> IF t = T THEN A ELSE B],
   initNode |-> [t \in MCTests |-> NoNode],
   pkgDeps |-> imports,
   entryKeys |-> {}]

Imports(ofA, ofB) == [p \in MCPkgs |-> CASE p = A -> ofA [] p = B -> ofB [] p = X -> {}]
Usual == Imports({}, {A, X})
ByTests == Imports({X}, {A})

(* refs: the functions that use V.  embedder: the package that embeds the  *)
(* Markdown file of b/a, if any: A itself, or B from the directory above.  *)
Analysis(calls, refs, embedder, disk) ==
  [graph |-> calls,
   loaded |-> {A, B},
   filePkg |-> [f \in {AGo, ATest, BGo} \cup (IF embedder = NoPkg THEN {} ELSE {AEmbedded}) |->
                  CASE f = BGo -> B [] f = AEmbedded -> embedder [] OTHER -> A],
   spans |-> [f \in MCFiles |->
     CASE f = AGo -> {[key |-> kF, first |-> 2, last |-> 3], [key |-> kG, first |-> 4, last |-> 4]}
       [] f = BGo -> {[key |-> kH, first |-> 1, last |-> 1], [key |-> kU, first |-> 2, last |-> 2]}
       [] f = ATest -> {[key |-> kT, first |-> 1, last |-> 1]}
       [] OTHER -> {}],
   decls |-> [f \in MCFiles |->
     IF f = AGo THEN {[keys |-> {V}, first |-> 1, last |-> 1]} ELSE {}],
   declRefs |-> [d \in {V} |-> refs],
   moduleOf |-> [p \in MCPkgs |-> IF p = X THEN M ELSE NoModule],
   disk |-> disk]

Hunk(f, first, last) == [file |-> f, first |-> first, last |-> last]
UpToTwo(S) == {<< >>} \cup {<<h>> : h \in S} \cup {<<h, i>> : h \in S, i \in S}

Default ==
  [conservative |-> FALSE, conservativeOnUnresolved |-> TRUE,
   includeNonBehavioral |-> FALSE,
   touched |-> FALSE, wildcard |-> FALSE, modules |-> {}]

-----------------------------------------------------------------------------
(* Hunks in Go files, over call graphs with recursion, reflection (a       *)
(* function without callers), calls across the packages, and calls the     *)
(* imports rule out, which RTA makes up for dynamic calls.                 *)
SymbolHunks ==
  {Hunk(AGo, 1, 1), Hunk(AGo, 2, 2), Hunk(AGo, 4, 4), Hunk(AGo, 1, 2),
   Hunk(AGo, 3, 4), Hunk(AGo, 5, 5), Hunk(BGo, 1, 1), Hunk(BGo, 2, 2),
   Hunk(ATest, 2, 2)}

SymbolDiffs == UpToTwo(SymbolHunks)

CallGraphs ==
  {Calls(cF, cG, cH, Usual) :
     cF \in {<< >>, <<Node.F>>, <<Node.G>>, <<Node.H, Node.NT>>, <<Node.G, Node.NU>>},
     cG \in {<< >>, <<Node.H>>, <<Node.NT>>},
     cH \in {<< >>, <<Node.NU>>, <<Node.F>>}}

SymbolAnalyses ==
  {Analysis(c, refs, NoPkg, MCFiles) : c \in CallGraphs, refs \in {{}, {kF}, {kG, kH}}}

Input(a, d, o) == [analysis |-> a, diff |-> d, opts |-> o]

SymbolInputs ==
  {Input(a, d, Default) : a \in SymbolAnalyses, d \in SymbolDiffs}

-----------------------------------------------------------------------------
(* Hunks in every kind of file, dependency bumps, and the flags.           *)
FileHunks ==
  {Hunk(f, 1, 1) : f \in {AEmbedded, AFixture, AGoFixture, AData, BData, CGo, CData,
                          Doc, Workflow, Makefile, GoMod, BGo}}

FileDiffs == UpToTwo(FileHunks)

FileAnalyses ==
  {Analysis(Calls(<<Node.NT>>, << >>, <<Node.NU>>, Usual), {kF}, embedder, disk) :
     embedder \in {NoPkg, A, B}, disk \in {MCFiles, MCFiles \ {AGoFixture}}}

FileOptions ==
  {Default,
   [Default EXCEPT !.conservativeOnUnresolved = FALSE],
   [Default EXCEPT !.includeNonBehavioral = TRUE],
   [Default EXCEPT !.conservative = TRUE],
   [Default EXCEPT !.touched = TRUE, !.modules = {M}],
   [Default EXCEPT !.touched = TRUE, !.modules = {M}, !.wildcard = TRUE],
   [Default EXCEPT !.touched = TRUE, !.wildcard = TRUE,
                   !.conservativeOnUnresolved = FALSE],
   [Default EXCEPT !.touched = TRUE, !.wildcard = TRUE]}

FileInputs == {Input(a, d, o) : a \in FileAnalyses, d \in FileDiffs, o \in FileOptions}

TestImportInputs ==
  {Input(Analysis(Calls(<<Node.NT>>, << >>, <<Node.NU>>, ByTests), {kF}, NoPkg, MCFiles), d, o) :
     d \in FileDiffs, o \in FileOptions}

MCInputs == SymbolInputs \cup FileInputs \cup TestImportInputs

(* No file is embedded by another package: the fixture is the only cause.  *)
FixtureInputs == {i \in FileInputs : AEmbedded \notin DOMAIN i.analysis.filePkg}
=============================================================================
