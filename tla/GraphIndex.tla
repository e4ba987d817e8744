-------------------------------- MODULE GraphIndex --------------------------------
(***************************************************************************)
(* The loop of Build over the loaded packages (graph.go:200-234) and the   *)
(* index* functions it calls: whose file is whose, which lines are which   *)
(* function, who refers to a declaration, who imports whom, and what is a  *)
(* test.  Selection starts from these tables (see IsAnalysis there).       *)
(*                                                                         *)
(* With Tests: true a package is loaded in variants: as it is, with its    *)
(* own tests, the external tests beside it, and once more for each test    *)
(* binary that needs it.  They share files, paths and symbol keys, and     *)
(* come in any order.                                                      *)
(*                                                                         *)
(* A variant is a record: path, a pair of the directory and whether _test  *)
(* follows; files; embeds; imports, the variants it imports; init, the key *)
(* of its initialiser.  A file holds funcs, a sequence of functions by     *)
(* line, and uses, pairs of a declaration and the line it is used in.  An  *)
(* entry is what isTestEntry takes for a test, TestMain included.          *)
(***************************************************************************)
EXTENDS Integers, Sequences, FiniteSets, Functions

CONSTANTS Worlds

(* indexSpans: a function without a types or an ssa object has no span. *)
Resolved(file) == SelectSeq(file.funcs, LAMBDA fn : fn.resolved)

ASSUME WorldsAssumption ==
  \A w \in Worlds :
    /\ IsFiniteSet(w.roots) /\ w.roots \subseteq DOMAIN w.variants
    /\ \A v \in DOMAIN w.variants : w.variants[v].imports \subseteq DOMAIN w.variants
    /\ \A v \in w.roots : /\ IsFiniteSet(w.variants[v].files)
                         /\ w.variants[v].files \subseteq DOMAIN w.files
    /\ \A f \in DOMAIN w.files :
         LET funcs == w.files[f].funcs
         IN funcs \in Seq(Range(funcs)) /\ Resolved(w.files[f]) \in Seq(Range(funcs))

(* No two functions share a name, but for blank ones, which nobody calls.  *)
ASSUME NamesAssumption ==
  \A w \in Worlds : \A f, g \in DOMAIN w.files :
    \A i \in DOMAIN Resolved(w.files[f]), j \in DOMAIN Resolved(w.files[g]) :
      LET key == Resolved(w.files[f])[i].key
      IN key \in w.inGraph /\ Resolved(w.files[g])[j].key = key => f = g /\ i = j

(* Variants that hold the same file are of one run path. *)
ASSUME FilesAssumption ==
  \A w \in Worlds : \A u, v \in DOMAIN w.variants :
    w.variants[u].files \cap w.variants[v].files # {}
      => w.variants[u].path[1] = w.variants[v].path[1]

VARIABLES
  world,
  todo,          \* the packages still to come
  filePkg, indexed, spans, declRefs, pkgDeps,
  tests          \* g.Tests, by variant and key: seen goes by ssa function

index == <<filePkg, indexed, spans, declRefs, pkgDeps, tests>>
indexVars == <<world, todo, index>>

Variants == DOMAIN world.variants
File(f) == world.files[f]

(* runPath: what precedes _test. *)
runPath(v) == world.variants[v].path[1]

(* A package with errors, or that imports one, has no SSA package.         *)
Typed == {v \in world.roots : v \notin world.illTyped}

Embeds(v) == world.variants[v].embeds
Compiled(v) == world.variants[v].files

(* A map of the graph after new entries were written into it. *)
Written(new, map) ==
  [x \in DOMAIN new \cup DOMAIN map |-> IF x \in DOMAIN new THEN new[x] ELSE map[x]]

-----------------------------------------------------------------------------
SpansOf(f) == Resolved(File(f))

(* enclosing: the first span around the line, else the initialiser.        *)
Around(f, line) ==
  {i \in DOMAIN SpansOf(f) : SpansOf(f)[i].first <= line /\ line <= SpansOf(f)[i].last}

Enclosing(f, line, init) ==
  IF Around(f, line) = {} THEN init
  ELSE SpansOf(f)[CHOOSE i \in Around(f, line) : \A j \in Around(f, line) : i <= j].key

(* Mutant: what is used outside of any function is left out. *)
RefsInFunctions(v, fs) ==
  [d \in DOMAIN declRefs |->
     declRefs[d] \cup UNION {{Enclosing(f, u[2], world.variants[v].init) :
                               u \in {w \in File(f).uses : w[1] = d /\ Around(f, w[2]) # {}}} :
                              f \in fs}]

indexRefs(v, fs) ==
  [d \in DOMAIN declRefs |->
     declRefs[d] \cup UNION {{Enclosing(f, u[2], world.variants[v].init) :
                               u \in {w \in File(f).uses : w[1] = d}} : f \in fs}]

(* The variants v is linked with: what it imports, and what those do. *)
Imports(v) == world.variants[v].imports

Closed(S) == \A w \in S : Imports(w) \subseteq S

Linked(v) ==
  {w \in Variants : \A S \in SUBSET Variants : Imports(v) \subseteq S /\ Closed(S) => w \in S}

(* The walk of indexDeps goes by run path: where several variants share    *)
(* one it goes on from the one it comes to first, rep[p].                  *)
Steps(v) == {runPath(w) : w \in Imports(v)}

WalkBy(v, rep) ==
  {p \in DOMAIN rep : \A S \in SUBSET DOMAIN rep :
      Steps(v) \subseteq S /\ (\A q \in S : Steps(rep[q]) \subseteq S) => p \in S}

Reps(v) ==
  LET linked == Linked(v)
  IN {rep \in [{runPath(w) : w \in linked} -> linked] : \A p \in DOMAIN rep : runPath(rep[p]) = p}

(* Mutant: one set of seen paths is kept for all packages. *)
WalksOnce(v) ==
  {WalkBy(v, rep) \ UNION {pkgDeps[p] : p \in DOMAIN pkgDeps} : rep \in Reps(v)}

Walks(v) == {WalkBy(v, rep) : rep \in Reps(v)}

Entries(v) ==
  {fn.key : fn \in {x \in UNION {Range(File(f).funcs) : f \in Compiled(v)} : x.entry}}

-----------------------------------------------------------------------------
IndexInit ==
  /\ world \in Worlds
  /\ todo = world.roots
  /\ filePkg = << >>
  /\ indexed = {}
  /\ spans = << >>
  /\ declRefs = [d \in world.decls |-> {}]
  /\ pkgDeps = [p \in {runPath(v) : v \in Typed} |-> {}]
  /\ tests = {}

SkipIllTyped(v) ==
  /\ v \in todo \ Typed
  /\ todo' = todo \ {v}
  /\ UNCHANGED <<world, index>>

(* Mutant: a file that has an owner is taken to be indexed. *)
IndexUnowned(v) ==
  /\ v \in todo \cap Typed
  /\ todo' = todo \ {v}
  /\ filePkg' = Written([f \in Compiled(v) \cup Embeds(v) |-> runPath(v)], filePkg)
  /\ indexed' = indexed \cup Compiled(v)
  /\ LET new == Compiled(v) \ DOMAIN filePkg
     IN /\ spans' = Written([f \in new |-> SpansOf(f)], spans)
        /\ declRefs' = indexRefs(v, new)
  /\ \E deps \in Walks(v) : pkgDeps' = [pkgDeps EXCEPT ![runPath(v)] = @ \cup deps]
  /\ tests' = tests \cup {<<v, k>> : k \in Entries(v)}
  /\ UNCHANGED world

(* Mutant: an embedded file gets no owner. *)
IndexUnembedded(v) ==
  /\ v \in todo \cap Typed
  /\ todo' = todo \ {v}
  /\ filePkg' = Written([f \in Compiled(v) |-> runPath(v)], filePkg)
  /\ indexed' = indexed \cup Compiled(v)
  /\ LET new == Compiled(v) \ indexed
     IN /\ spans' = Written([f \in new |-> SpansOf(f)], spans)
        /\ declRefs' = indexRefs(v, new)
  /\ \E deps \in Walks(v) : pkgDeps' = [pkgDeps EXCEPT ![runPath(v)] = @ \cup deps]
  /\ tests' = tests \cup {<<v, k>> : k \in Entries(v)}
  /\ UNCHANGED world

Index(v) ==
  /\ v \in todo \cap Typed
  /\ todo' = todo \ {v}
  /\ filePkg' = Written([f \in Compiled(v) \cup Embeds(v) |-> runPath(v)], filePkg)
  /\ indexed' = indexed \cup Compiled(v)
  /\ LET new == Compiled(v) \ indexed
     IN /\ spans' = Written([f \in new |-> SpansOf(f)], spans)
        /\ declRefs' = indexRefs(v, new)
  /\ \E deps \in Walks(v) : pkgDeps' = [pkgDeps EXCEPT ![runPath(v)] = @ \cup deps]
  /\ tests' = tests \cup {<<v, k>> : k \in Entries(v)}
  /\ UNCHANGED world

Indexing == \E v \in todo : SkipIllTyped(v) \/ Index(v)

Indexed == todo = {}

(* Candidates, and sampleSymbols: the functions with a body in the call    *)
(* graph, outside of test files and generated code.                        *)
Mutable(f, fn) ==
  /\ ~ File(f).test
  /\ fn.body
  /\ fn.key \in world.inGraph \ world.synthetic

(* FuncSpan.PkgPath, and keyPkg of the functions in the file. *)
SpanPkg(f) == runPath(CHOOSE v \in Typed : f \in Compiled(v))

Candidates ==
  UNION {{<<f, i>> : i \in {j \in DOMAIN spans[f] :
                              /\ Mutable(f, spans[f][j])
                              /\ \A t \in tests : t[2] # spans[f][j].key}} : f \in DOMAIN spans}

-----------------------------------------------------------------------------
(* What an order of the packages cannot change: once all are indexed, the  *)
(* functions of a file have one span each, in the order of the file,       *)
(* however many variants hold it and whichever of them are ill-typed, and  *)
(* no file without a typed variant has any; so no function is twice among  *)
(* the candidates for a fault and drawn with more than its share           *)
(* (graph.go:546-596, mutate.go:139-176).                                  *)
SpansExact ==
  Indexed =>
    /\ DOMAIN spans = UNION {Compiled(v) : v \in Typed}
    /\ \A f \in DOMAIN spans : spans[f] = Resolved(File(f))
    /\ \A c, d \in Candidates : spans[c[1]][c[2]].key = spans[d[1]][d[2]].key => c = d

(* No use of a declaration is lost: each counts for a function around it,  *)
(* or for the initialiser of a package that holds the file, and nobody     *)
(* counts who has none (graph.go:629-679).                                 *)
UseCounts(f, u, k) ==
  \/ \E i \in DOMAIN spans[f] :
       spans[f][i].key = k /\ spans[f][i].first <= u[2] /\ u[2] <= spans[f][i].last
  \/ /\ \A i \in DOMAIN spans[f] : ~ (spans[f][i].first <= u[2] /\ u[2] <= spans[f][i].last)
     /\ \E v \in Typed : f \in Compiled(v) /\ world.variants[v].init = k

RefsExact ==
  Indexed =>
    \A d \in world.decls :
      /\ \A f \in DOMAIN spans : \A u \in File(f).uses :
           u[1] = d => \E k \in declRefs[d] : UseCounts(f, u, k)
      /\ \A k \in declRefs[d] : \E f \in DOMAIN spans : \E u \in File(f).uses :
           u[1] = d /\ UseCounts(f, u, k)

(* In a binary a run path is that of one variant, but for a directory that *)
(* is itself named a_test, and the main package that go test generates.    *)
Unambiguous(v) ==
  \A x, y \in Linked(v) : runPath(x) = runPath(y) => Steps(x) = Steps(y)

VariantsOf(p) == {v \in Typed : runPath(v) = p}

(* The import closure that every fallback and filter relies on is that of  *)
(* all test binaries of the package together: the tests in it, those       *)
(* beside it, and what is recompiled for them, whichever comes last; and   *)
(* never more than that (graph.go:718-738).                                *)
DepsExact ==
  Indexed =>
    \A p \in DOMAIN pkgDeps :
      LET linked == {runPath(w) : w \in UNION {Linked(v) : v \in VariantsOf(p)}}
      IN /\ pkgDeps[p] \subseteq linked
         /\ (\A v \in VariantsOf(p) : Unambiguous(v)) => pkgDeps[p] = linked
=============================================================================
