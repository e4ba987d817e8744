------------------------------------ MODULE Job ------------------------------------
(***************************************************************************)
(* A change on its way through the tool: run in cmd/whichtests/main.go,    *)
(* driven by the steps of action.yml or by hand through a pipe into sh.    *)
(*                                                                         *)
(* run reads the working tree twice: Build for the functions, Changed for  *)
(* the changed lines, which Select then joins by line number.  By hand the *)
(* tree may be edited in between; on a runner nobody is there to.          *)
(*                                                                         *)
(* A package is one file, a sequence of lines; a line belongs to a         *)
(* function and is as in the base ("old"), committed since or edited since *)
(* the last commit.  The selection is that of module Selection, brought    *)
(* down to the tests that reach the function a changed line is in.         *)
(***************************************************************************)
EXTENDS Integers, Sequences

CONSTANTS
  Fns, PkgOf,          \* the functions and their packages
  Tests, TestPkg,
  Deps,                \* the packages each one imports, directly or not; there are
                       \* no imports here that only the tests of a package have
  Reach,               \* the functions each test reaches
  Tagged,              \* the tests behind a build tag
  PkgOrder,            \* the packages in the order of Plans
  MaxEdits,            \* bounds the edits made by hand
  Worlds

Pkgs == {PkgOrder[i] : i \in DOMAIN PkgOrder}
Line == [fn : Fns, state : {"old", "committed", "edited"}]
Source(p) == Seq({l \in Line : PkgOf[l.fn] = p})

ASSUME PackagesAssumption ==
  /\ PkgOrder \in Seq(Pkgs)
  /\ \A i, j \in DOMAIN PkgOrder : PkgOrder[i] = PkgOrder[j] => i = j
  /\ PkgOf \in [Fns -> Pkgs]
  /\ TestPkg \in [Tests -> Pkgs]
  /\ Deps \in [Pkgs -> SUBSET Pkgs]
  /\ \A p \in Pkgs : \A q \in Deps[p] : Deps[q] \subseteq Deps[p]
  /\ Reach \in [Tests -> SUBSET Fns]
  /\ MaxEdits \in Nat

(* A world is a tree; the new code that is wrong, and the new code that    *)
(* does not compile; how the tool is driven, and on what.                  *)
ASSUME WorldsAssumption ==
  \A w \in Worlds :
    /\ DOMAIN w.tree = Pkgs /\ \A p \in Pkgs : w.tree[p] \in Source(p)
    /\ w.faulty \subseteq Fns /\ w.uncompilable \subseteq Fns
    /\ w.driver \in {"action", "sh"}
    /\ w.toDefault \in BOOLEAN    \* HEAD is what was pushed to the base branch
    /\ w.shallow \in BOOLEAN
    /\ w.refs \subseteq {"origin", "local"}   \* the refs of the base branch
    /\ w.tags \in BOOLEAN         \* -tags is given
    /\ w.run \in BOOLEAN          \* inputs.run

ASSUME ReachAssumption ==
  \A t \in Tests : \A f \in Reach[t] : PkgOf[f] \in {TestPkg[t]} \cup Deps[TestPkg[t]]

VARIABLES
  world, tree, edits, stage,
  spans,       \* the tree as Build read it
  loaded,      \* the packages Build could analyse
  hunks,       \* the changed lines, as pairs of package and line number
  selected,
  plan,        \* the packages still to test
  verdict,
  seen, moved  \* history: the functions changed when Changed read the tree;
               \* the packages whose lines were moved between the readings
vars == <<world, tree, edits, stage, spans, loaded, hunks, selected, plan, verdict,
          seen, moved>>

-----------------------------------------------------------------------------
Changed(p) == {i \in DOMAIN tree[p] : tree[p][i].state # "old"}

(* A package that does not compile takes those that import it along.       *)
NotCompiling ==
  LET broken == {p \in Pkgs : \E i \in Changed(p) : tree[p][i].fn \in world.uncompilable}
  IN {p \in Pkgs : ({p} \cup Deps[p]) \cap broken # {}}

(* Whether the test fails on the tree as it is. *)
Fails(t) ==
  \/ TestPkg[t] \in NotCompiling
  \/ \E f \in Reach[t] \cap world.faulty :
       \E i \in Changed(PkgOf[f]) : tree[PkgOf[f]][i].fn = f

(* The diff is against the merge base of HEAD and the base branch, which   *)
(* is HEAD itself for a push to that branch.                               *)
InDiff(state) == state = "edited" \/ (state = "committed" /\ ~ world.toDefault)

Analysed == {t \in Tests : TestPkg[t] \in loaded /\ (t \in Tagged => world.tags)}

(* Lines beyond the end of what Build read are in no function, and count   *)
(* for the package; those of a package not analysed are ignored.           *)
SelectedBy(h) ==
  LET p == h[1]
      i == h[2]
  IN IF p \notin loaded THEN {}
     ELSE IF i \in DOMAIN spans[p] THEN {t \in Analysed : spans[p][i].fn \in Reach[t]}
     ELSE {t \in Analysed : p \in {TestPkg[t]} \cup Deps[TestPkg[t]]}

-----------------------------------------------------------------------------
Init ==
  /\ world \in Worlds
  /\ tree = world.tree
  /\ edits = 0
  /\ stage = IF world.driver = "action" THEN "history" ELSE "build"
  /\ spans = [p \in Pkgs |-> << >>]
  /\ loaded = {}
  /\ hunks = {}
  /\ selected = {}
  /\ plan = {}
  /\ verdict = "pending"
  /\ seen = {}
  /\ moved = {}

(* Someone types into the working tree. *)
Type(p, lines) ==
  /\ world.driver = "sh"
  /\ stage # "over"
  /\ edits < MaxEdits
  /\ edits' = edits + 1
  /\ tree' = [tree EXCEPT ![p] = lines]
  /\ UNCHANGED <<world, stage, spans, loaded, hunks, selected, plan, verdict, seen>>

ChangeLine(p, i) ==
  /\ Type(p, [tree[p] EXCEPT ![i].state = "edited"])
  /\ UNCHANGED moved

InsertLine(p, i) ==
  /\ Type(p, SubSeq(tree[p], 1, i) \o <<[fn |-> tree[p][i].fn, state |-> "edited"]>>
               \o SubSeq(tree[p], i + 1, Len(tree[p])))
  /\ moved' = IF stage = "diff" THEN moved \cup {p} ELSE moved

Step(from, to) == stage = from /\ stage' = to

Reading == <<spans, loaded, hunks, seen>>
Deciding == <<selected, plan>>

(* Under set -e the failure of a step is the failure of the job.  A pipe   *)
(* without pipefail goes by its last command: sh was given nothing to run. *)
StepFails ==
  /\ stage \notin {"tests", "over"}
  /\ stage' = "over"
  /\ verdict' = IF world.driver = "action" THEN "failed" ELSE "passed"
  /\ UNCHANGED <<world, tree, edits, Reading, Deciding, moved>>

CheckHistory ==
  /\ Step("history", "install")
  /\ ~ world.shallow
  /\ UNCHANGED <<world, tree, edits, Reading, Deciding, verdict, moved>>

Install ==
  /\ Step("install", "base")
  /\ UNCHANGED <<world, tree, edits, Reading, Deciding, verdict, moved>>

(* git fetch may fail; a stale ref still has a merge base with HEAD. *)
ResolveBase ==
  /\ Step("base", "build")
  /\ UNCHANGED <<world, tree, edits, Reading, Deciding, verdict, moved>>

Build ==
  /\ Step("build", "diff")
  /\ spans' = tree
  /\ loaded' = Pkgs \ NotCompiling
  /\ UNCHANGED <<world, tree, edits, hunks, seen, Deciding, verdict, moved>>

(* Neither origin's branch nor a local one: git diff has nothing to diff   *)
(* against, and only StepFails is left.                                    *)
ReadDiff ==
  /\ Step("diff", "modules")
  /\ world.refs # {}
  /\ hunks' = UNION {{<<p, i>> : i \in {j \in DOMAIN tree[p] : InDiff(tree[p][j].state)}} :
                       p \in Pkgs}
  /\ seen' = {tree[h[1]][h[2]].fn : h \in hunks'}
  /\ UNCHANGED <<world, tree, edits, spans, loaded, Deciding, verdict, moved>>

ReadModules ==
  /\ Step("modules", "select")
  /\ UNCHANGED <<world, tree, edits, Reading, Deciding, verdict, moved>>

(* Mutant: line numbers of the diff count from zero. *)
SelectOffByOne ==
  /\ Step("select", "write")
  /\ selected' = UNION {SelectedBy(<<h[1], h[2] - 1>>) : h \in hunks}
  /\ UNCHANGED <<world, tree, edits, Reading, plan, verdict, moved>>

Select ==
  /\ Step("select", "write")
  /\ selected' = UNION {SelectedBy(h) : h \in hunks}
  /\ UNCHANGED <<world, tree, edits, Reading, plan, verdict, moved>>

(* Plans, as JSON and from there by jq, or as go test commands. *)
WritePlan ==
  /\ Step("write", "tests")
  /\ plan' = {TestPkg[t] : t \in selected}
  /\ UNCHANGED <<world, tree, edits, Reading, selected, verdict, moved>>

(* The plan does not pass -tags on: go test knows of no tagged test.       *)
Passes(p) ==
  /\ p \notin NotCompiling
  /\ \A t \in selected \ Tagged : TestPkg[t] = p => ~ Fails(t)

(* The commands of the plan come in the order of their packages.           *)
IsFirst(p) ==
  /\ p \in plan
  /\ \E i \in DOMAIN PkgOrder :
       PkgOrder[i] = p /\ \A j \in DOMAIN PkgOrder : PkgOrder[j] \in plan => i <= j

(* Mutant: the plan is run without -e. *)
RunPackageRegardless(p) ==
  /\ stage = "tests"
  /\ IsFirst(p)
  /\ plan' = plan \ {p}
  /\ LET last == plan' = {}
     IN /\ stage' = IF last THEN "over" ELSE "tests"
        /\ verdict' = IF ~ last THEN verdict
                      ELSE IF Passes(p) THEN "passed" ELSE "failed"
  /\ UNCHANGED <<world, tree, edits, Reading, selected, moved>>

(* Mutant: a command that fails is run again. *)
RunPackageAgain(p) ==
  /\ stage = "tests"
  /\ IsFirst(p)
  /\ world.run \/ world.driver = "sh"
  /\ LET fails == ~ Passes(p)
         last == plan \ {p} = {} /\ ~ fails
     IN /\ plan' = IF fails THEN plan ELSE plan \ {p}
        /\ stage' = IF last THEN "over" ELSE "tests"
        /\ verdict' = IF last THEN "passed" ELSE verdict
  /\ UNCHANGED <<world, tree, edits, Reading, selected, moved>>

(* bash -e stops at the first command that fails, sh goes on to the last,  *)
(* whose status is the verdict.                                            *)
RunPackage(p) ==
  /\ stage = "tests"
  /\ IsFirst(p)
  /\ world.run \/ world.driver = "sh"
  /\ plan' = plan \ {p}
  /\ LET fails == ~ Passes(p)
         last == plan' = {} \/ (fails /\ world.driver = "action")
     IN /\ stage' = IF last THEN "over" ELSE "tests"
        /\ verdict' = IF ~ last THEN verdict ELSE IF fails THEN "failed" ELSE "passed"
  /\ UNCHANGED <<world, tree, edits, Reading, selected, moved>>

(* Nothing to run, or asked not to. *)
RunNothing ==
  /\ Step("tests", "over")
  /\ plan = {} \/ (~ world.run /\ world.driver = "action")
  /\ verdict' = "passed"
  /\ UNCHANGED <<world, tree, edits, Reading, Deciding, moved>>

Over == stage = "over" /\ UNCHANGED vars

Proceed ==
  \/ StepFails \/ CheckHistory \/ Install \/ ResolveBase \/ Build \/ ReadDiff
  \/ ReadModules \/ Select \/ WritePlan \/ RunNothing
  \/ \E p \in plan : RunPackage(p)

Edit == \E p \in Pkgs : \E i \in DOMAIN tree[p] : ChangeLine(p, i) \/ InsertLine(p, i)

Next == Proceed \/ Edit \/ Over

Spec == Init /\ [][Next]_vars /\ WF_vars(Proceed)

-----------------------------------------------------------------------------
(* The two readings are of different trees, yet a change that was made     *)
(* before the second is covered by the selection, whether or not it was    *)
(* there at the first: as long as it moved no line of its file, the line   *)
(* numbers of the one fit the functions of the other (main.go:51-75).      *)
ReadingsAgree ==
  stage \in {"write", "tests"} =>
    \A t \in Analysed :
      (\E f \in seen \cap Reach[t] : PkgOf[f] \in loaded \ moved) => t \in selected

(* A job of the action that passes has let no failing test through, but    *)
(* for those of packages that do not compile and those behind a tag; nor   *)
(* is it so of a push to the base branch itself, or if asked for the plan  *)
(* only (action.yml:55-166, main.go:36-91).                                *)
PassesHonestly ==
  verdict = "passed" /\ world.driver = "action" /\ world.run /\ ~ world.toDefault =>
    \A t \in Tests \ Tagged : Fails(t) => TestPkg[t] \in NotCompiling

(* A job comes to a verdict, whatever fails and whoever edits meanwhile.   *)
JobEnds == <>(verdict # "pending")
=============================================================================
