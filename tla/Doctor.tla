---------------------------------- MODULE Doctor ----------------------------------
(***************************************************************************)
(* cmd/whichtests/doctor.go: on the index that Build made, what a change   *)
(* of one function would select is set against what go test would run for  *)
(* it, over a sample of functions, and a verdict is passed on the sum.     *)
(*                                                                         *)
(* A world also says how far the walks of Select get back from a function, *)
(* by key: the tests and initialisers they come to (reach), whatever these *)
(* import, and the functions without a caller they end in (boundaries);    *)
(* the wrappers the compiler makes, and the packages they are for; and how *)
(* the analysis went: restored from the cache, or for how long.            *)
(***************************************************************************)
EXTENDS GraphIndex, FiniteSetsExt

CONSTANT Sample     \* -sample

ASSUME SampleAssumption == Sample \in Nat

VARIABLES
  stage,
  keys,       \* the sampled functions still to come, as file and position
  sel, base,  \* per sampled function the two numbers of tests
  verdict
doctorVars == <<stage, keys, sel, base, verdict>>
vars == <<indexVars, doctorVars>>

Init ==
  /\ IndexInit
  /\ stage = "build"
  /\ keys = {}
  /\ sel = << >>
  /\ base = << >>
  /\ verdict = "none"

Build == stage = "build" /\ Indexing /\ UNCHANGED doctorVars

Key(c) == spans[c[1]][c[2]].key
TestPkg(t) == runPath(t[1])

(* Every function once, by whichever span of its key comes first. *)
Sampleable == UNION {{<<f, i>> : i \in {j \in DOMAIN spans[f] : Mutable(f, spans[f][j])}} :
                      f \in DOMAIN spans}

SampleSymbols ==
  /\ stage = "build" /\ Indexed
  /\ tests # {}
  /\ keys' \in {S \in SUBSET Sampleable :
                  /\ \A c, d \in S : Key(c) = Key(d) => c = d
                  /\ Cardinality(S) = Min({Sample, Cardinality({Key(c) : c \in Sampleable})})}
  /\ stage' = IF keys' = {} THEN "over" ELSE "weigh"
  /\ UNCHANGED <<indexVars, sel, base, verdict>>

NoTests ==
  /\ stage = "build" /\ Indexed
  /\ tests = {}
  /\ stage' = "over"
  /\ UNCHANGED <<indexVars, keys, sel, base, verdict>>

(* Select for a hunk on the first line of the function: all functions on   *)
(* that line are changed, and those of them no test can reach are passed   *)
(* over.                                                                   *)
ChangedBy(c) ==
  {spans[c[1]][i].key : i \in Around(c[1], spans[c[1]][c[2]].first)} \cap world.inGraph

(* packagePathOf: the package a function is written in, or a wrapper made  *)
(* for; "" if there is none.                                               *)
Declares(v, k) ==
  \E f \in Compiled(v) : \E i \in DOMAIN SpansOf(f) : SpansOf(f)[i].key = k

KeyPackage(k) ==
  IF \E v \in Typed : Declares(v, k) THEN runPath(CHOOSE v \in Typed : Declares(v, k))
  ELSE IF k \in DOMAIN world.wrappers THEN world.wrappers[k] ELSE ""

visible(t, pkg) == pkg = TestPkg(t) \/ pkg \in pkgDeps[TestPkg(t)]

(* The walk comes to a test by its key, and testByKey has one of each key; *)
(* or to its package's initialiser.                                        *)
Arrives(t, k) ==
  \/ t[2] \in world.reach[k] /\ t = CHOOSE u \in tests : u[2] = t[2]
  \/ world.variants[t[1]].init \in world.reach[k]

(* Mutant: a boundary counts wherever it is. *)
SelectedAnywhere(c) ==
  LET dirty == {KeyPackage(b) : b \in UNION {world.boundaries[k] : k \in ChangedBy(c)}}
  IN {t \in tests :
        \/ \E k \in ChangedBy(c) : Arrives(t, k) /\ visible(t, KeyPackage(k))
        \/ \E pkg \in dirty : visible(t, pkg)}

(* The tests that are reached and can see the function, or all that can    *)
(* see its package if reflection may call what is there.                   *)
SelectedFor(c) ==
  LET changedPkgs == {KeyPackage(k) : k \in ChangedBy(c)} \ {""}
      dirty == {KeyPackage(b) : b \in UNION {world.boundaries[k] : k \in ChangedBy(c)}}
                 \cap changedPkgs
  IN {t \in tests :
        \/ \E k \in ChangedBy(c) : Arrives(t, k) /\ visible(t, KeyPackage(k))
        \/ \E pkg \in dirty : visible(t, pkg)}

(* What go test runs again if the package is changed. *)
baselineFor(pkg) ==
  Cardinality({t \in tests : TestPkg(t) = pkg \/ pkg \in pkgDeps[TestPkg(t)]})

Weigh(c) ==
  /\ stage = "weigh"
  /\ keys' = keys \ {c}
  /\ sel' = Written([k \in {Key(c)} |-> Cardinality(SelectedFor(c))], sel)
  /\ base' = Written([k \in {Key(c)} |-> baselineFor(SpanPkg(c[1]))], base)
  /\ stage' = IF keys' = {} THEN "verdict" ELSE "weigh"
  /\ UNCHANGED <<indexVars, verdict>>

Compared == {k \in DOMAIN sel : sel[k] # 0 /\ base[k] # 0}
sumSel == FoldSet(LAMBDA k, n : sel[k] + n, 0, Compared)
sumBase == FoldSet(LAMBDA k, n : base[k] + n, 0, Compared)

(* sort.Ints and the element at an index counted from zero. *)
IsNth(x, i) ==
  /\ x \in Range(sel)
  /\ Cardinality({k \in DOMAIN sel : sel[k] < x}) <= i
  /\ Cardinality({k \in DOMAIN sel : sel[k] <= x}) > i

median == CHOOSE x \in Range(sel) : IsNth(x, Cardinality(DOMAIN sel) \div 2)

Total == Cardinality(tests)

Verdict ==
  /\ stage = "verdict"
  /\ stage' = "over"
  /\ verdict' =
       CASE /\ ~ world.cacheHit /\ world.slow
            /\ sumBase > sumSel /\ 20 * (sumBase - sumSel) < sumBase -> "not worth it"
         [] OTHER -> IF 10 * median <= Total THEN "worth trying"
                     ELSE IF 10 * median <= 4 * Total THEN "marginal" ELSE "little to gain"
  /\ UNCHANGED <<indexVars, keys, sel, base>>

Over == stage = "over" /\ UNCHANGED vars

Next ==
  \/ Build \/ SampleSymbols \/ NoTests
  \/ \E c \in keys : Weigh(c)
  \/ Verdict \/ Over

Spec == Init /\ [][Next]_vars /\ WF_vars(Next)

-----------------------------------------------------------------------------
(* Types. The owner of a file is at any time a package that compiles or    *)
(* embeds it, and while packages are indexed no file that one of those     *)
(* done compiles or embeds is without (graph.go:560, 712-716).             *)
TypeOK ==
  /\ world \in Worlds
  /\ todo \subseteq world.roots
  /\ DOMAIN filePkg = UNION {Compiled(v) \cup Embeds(v) : v \in Typed \ todo}
  /\ \A f \in DOMAIN filePkg : \E v \in Typed \ todo :
        f \in Compiled(v) \cup Embeds(v) /\ filePkg[f] = runPath(v)
  /\ indexed = DOMAIN spans
  /\ \A t \in tests : t[1] \in Typed /\ t[2] \in Entries(t[1])
  /\ stage \in {"build", "weigh", "verdict", "over"}
  /\ \A c \in keys : c[2] \in DOMAIN spans[c[1]]
  /\ DOMAIN sel = DOMAIN base
  /\ verdict \in {"none", "not worth it", "worth trying", "marginal", "little to gain"}

(* What whichtests is said to save is a share of what go test would run,   *)
(* never less than nothing.  The two are counted by different code: Select *)
(* goes by the packages of the symbols on the line and of the boundaries   *)
(* behind them (selection.go:343-376), baselineFor by the package that the *)
(* sampled span was indexed under (doctor.go:109-153).  A selection that   *)
(* reached further would make the saving negative.                         *)
FairComparison == \A k \in DOMAIN sel : sel[k] <= base[k]
=============================================================================
