--------------------------------- MODULE Mutate ---------------------------------
(***************************************************************************)
(* Run and inject in internal/mutate/mutate.go: faults are spliced into    *)
(* functions one at a time, the suite is run, the source is put back, and  *)
(* a failing test that was not selected counts as a recall violation.      *)
(*                                                                         *)
(* go test is external: a test that executes an injected panic takes its   *)
(* test binary down, so that of each package the suite reports the tests   *)
(* that fail before the first panic, and the one that panics.              *)
(*                                                                         *)
(* A world is a record of what the tool cannot know but measures:          *)
(*   executes  the tests that execute a function                           *)
(*   startup   the packages whose initialisation executes it               *)
(*   selects   the tests Select gives for a hunk in it                     *)
(*   broken    tests that fail by themselves                               *)
(* Nobody else edits the files: the offset a fault is spliced in at is     *)
(* right as long as the file is whole.                                     *)
(***************************************************************************)
EXTENDS Naturals, Sequences, SequencesExt

CONSTANTS
  Fns,         \* the candidates
  File,        \* the file a function is in
  Tests,
  Suites,      \* the tests of each package, in the order they run
  Worlds,
  Count        \* how many candidates are sampled

Files == {File[f] : f \in Fns}
Clean == [faults |-> {}, whole |-> TRUE]
Source == [faults : SUBSET Fns, whole : BOOLEAN]

ASSUME WorldsAssumption ==
  /\ IsFiniteSet(Fns)
  /\ Count \in Nat
  /\ Suites \subseteq Seq(Tests)
  /\ Worlds \subseteq [executes : [Fns -> SUBSET Tests],
                      startup : [Fns -> SUBSET Suites],
                      selects : [Fns -> SUBSET Tests],
                      broken : SUBSET Tests]

VARIABLES
  world,
  tree,      \* the faults in each source file, and whether it is whole
  cands,     \* the candidates still to come
  stage,     \* of inject: "next", "read", "written", "ran"; how it ended
  cand,      \* the candidate at hand, a set of at most one
  orig,      \* what inject read of its file
  result,    \* r
  sum,       \* the Summary
  left       \* history: the candidates whose file could not be written or put back

vars == <<world, tree, cands, stage, cand, orig, result, sum, left>>

Ended == {"nil", "recall", "unwritten", "killed"}

NoResult == [skipped |-> FALSE, failing |-> {}, missed |-> {}]

(* Mutant: a result without failures counts as caught. *)
CaughtIfNoneMissed(r) == r.missed = {}

Caught(r) == r.failing # {} /\ r.missed = {}

(* The candidates are sorted, shuffled and cut to Count. *)
Samples == {SubSeq(s, 1, IF Len(s) > Count THEN Count ELSE Len(s)) : s \in SetToSeqs(Fns)}

Init ==
  /\ world \in Worlds
  /\ tree = [f \in Files |-> Clean]
  /\ cands \in Samples
  /\ stage = "next"
  /\ cand = {}
  /\ orig = Clean
  /\ result = NoResult
  /\ sum = [results |-> << >>, injected |-> 0, skipped |-> 0,
            killed |-> 0, caught |-> 0, violations |-> 0]
  /\ left = {}

One(b) == IF b THEN 1 ELSE 0

(* What Run adds up of a result. *)
Tally(c, r) ==
  [results |-> Append(sum.results, [of |-> c, is |-> r]),
   injected |-> sum.injected + One(~ r.skipped),
   skipped |-> sum.skipped + One(r.skipped),
   killed |-> sum.killed + One(~ r.skipped /\ r.failing # {}),
   caught |-> sum.caught + One(~ r.skipped /\ Caught(r)),
   violations |-> sum.violations + One(~ r.skipped /\ r.missed # {})]

Skip(c) ==
  /\ sum' = Tally(c, [NoResult EXCEPT !.skipped = TRUE])
  /\ stage' = "next"
  /\ cand' = {}

Take ==
  /\ stage = "next"
  /\ cand = {}
  /\ cands # << >>
  /\ cand' = {Head(cands)}
  /\ cands' = Tail(cands)
  /\ result' = NoResult
  /\ UNCHANGED <<world, tree, stage, orig, sum, left>>

Read(c) ==
  /\ stage = "next"
  /\ cand = {c}
  /\ orig' = tree[File[c]]
  /\ stage' = "read"
  /\ UNCHANGED <<world, tree, cands, cand, result, sum, left>>

(* os.ReadFile fails, or os.Stat after it. *)
ReadFails(c) ==
  /\ stage \in {"next", "read"}
  /\ cand = {c}
  /\ Skip(c)
  /\ UNCHANGED <<world, tree, cands, orig, result, left>>

(* The file was cut off, and ends before the body. *)
StaleOffset(c) ==
  /\ stage = "read"
  /\ cand = {c}
  /\ ~ orig.whole
  /\ Skip(c)
  /\ UNCHANGED <<world, tree, cands, orig, result, left>>

Write(c) ==
  /\ stage = "read"
  /\ cand = {c}
  /\ tree' = [tree EXCEPT ![File[c]] = [orig EXCEPT !.faults = @ \cup {c}]]
  /\ stage' = "written"
  /\ UNCHANGED <<world, cands, cand, orig, result, sum, left>>

(* os.WriteFile that fails: it could not open the file, or has truncated   *)
(* it and written some or all of what was to be in it.                     *)
Partly(source) == {source} \cup {[faults |-> F, whole |-> FALSE] : F \in SUBSET source.faults}

FailedWrites(c, source) == {tree} \cup {[tree EXCEPT ![File[c]] = s] : s \in Partly(source)}

(* The deferred restore is not set up yet. *)
WriteFails(c) ==
  /\ stage = "read"
  /\ cand = {c}
  /\ tree' \in FailedWrites(c, [orig EXCEPT !.faults = @ \cup {c}])
  /\ left' = left \cup {c}
  /\ Skip(c)
  /\ UNCHANGED <<world, cands, orig, result>>

-----------------------------------------------------------------------------
(***************************************************************************)
(* go test ./...                                                           *)
(***************************************************************************)
Faults == UNION {tree[f].faults : f \in Files}
Panics(t) == \E f \in Faults : t \in world.executes[f]

(* The tests of a package that run: the first to panic is the last, and    *)
(* none does if the package cannot be initialised.                         *)
Starts(s) == \A f \in Faults : s \notin world.startup[f]
Ran(s) == {i \in DOMAIN s : Starts(s) /\ \A j \in 1 .. i - 1 : ~ Panics(s[j])}
Fails(t) == Panics(t) \/ t \in world.broken

(* The packages that compile: all of them, unless a file has been cut off. *)
Compiled == IF \A f \in Files : tree[f].whole THEN {Suites} ELSE SUBSET Suites

(* Mutant: whatever is said of a test counts as its failure. *)
MentionedIn(suites) == UNION {{s[i] : i \in Ran(s)} : s \in suites}

FailingIn(suites) == UNION {{s[i] : i \in {j \in Ran(s) : Fails(s[j])}} : s \in suites}

(* The selection is made, and the suite run, while the fault is in.  The   *)
(* events of a package as a whole, which name no test, are passed over.    *)
RunSuite(c) ==
  /\ stage = "written"
  /\ cand = {c}
  /\ \E suites \in Compiled :
        LET failing == FailingIn(suites)
        IN  result' = [skipped |-> FALSE, failing |-> failing,
                       missed |-> failing \ world.selects[c]]
  /\ stage' = "ran"
  /\ UNCHANGED <<world, tree, cands, cand, orig, sum, left>>

(* Mutant: a suite that says nothing counts as one that fails altogether. *)
NoEventsAllFail(c) ==
  /\ stage = "written"
  /\ cand = {c}
  /\ result' = [skipped |-> TRUE, failing |-> Tests, missed |-> Tests \ world.selects[c]]
  /\ stage' = "ran"
  /\ UNCHANGED <<world, tree, cands, cand, orig, sum, left>>

(* go test cannot be run, and says nothing. *)
NoEvents(c) ==
  /\ stage = "written"
  /\ cand = {c}
  /\ result' = [NoResult EXCEPT !.skipped = TRUE]
  /\ stage' = "ran"
  /\ UNCHANGED <<world, tree, cands, cand, orig, sum, left>>

-----------------------------------------------------------------------------
(* Mutant: the source comes back only if the suite could be run. *)
RestoreIfRun(c) ==
  /\ stage = "ran"
  /\ cand = {c}
  /\ tree' = IF result.skipped THEN tree ELSE [tree EXCEPT ![File[c]] = orig]
  /\ sum' = Tally(c, result)
  /\ stage' = "next"
  /\ cand' = {}
  /\ UNCHANGED <<world, cands, orig, result, left>>

Restore(c) ==
  /\ stage = "ran"
  /\ cand = {c}
  /\ tree' = [tree EXCEPT ![File[c]] = orig]
  /\ sum' = Tally(c, result)
  /\ stage' = "next"
  /\ cand' = {}
  /\ UNCHANGED <<world, cands, orig, result, left>>

(* The error of the deferred os.WriteFile is dropped. *)
RestoreFails(c) ==
  /\ stage = "ran"
  /\ cand = {c}
  /\ tree' \in FailedWrites(c, orig)
  /\ left' = left \cup {c}
  /\ sum' = Tally(c, result)
  /\ stage' = "next"
  /\ cand' = {}
  /\ UNCHANGED <<world, cands, orig, result>>

(* The results are written first if -json is given, which may fail. *)
Finish ==
  /\ stage = "next"
  /\ cand = {}
  /\ cands = << >>
  /\ stage' \in {IF sum.violations > 0 THEN "recall" ELSE "nil", "unwritten"}
  /\ UNCHANGED <<world, tree, cands, cand, orig, result, sum, left>>

(* Ctrl-C, or the job is cancelled: Go runs no deferred calls. *)
Interrupt ==
  /\ stage \notin Ended
  /\ stage' = "killed"
  /\ UNCHANGED <<world, tree, cands, cand, orig, result, sum, left>>

Inject(c) ==
  \/ Read(c) \/ ReadFails(c) \/ StaleOffset(c) \/ Write(c) \/ WriteFails(c)
  \/ RunSuite(c) \/ NoEvents(c) \/ Restore(c) \/ RestoreFails(c)

Over == stage \in Ended /\ UNCHANGED vars

Next == Take \/ Finish \/ Interrupt \/ Over \/ \E c \in Fns : Inject(c)

Spec == Init /\ [][Next]_vars

-----------------------------------------------------------------------------
(* Every variable keeps to its type, and a result that was skipped accuses *)
(* no test (mutate.go 50-75, 188-246).                                     *)
Results == [skipped : BOOLEAN, failing : SUBSET Tests, missed : SUBSET Tests]

TypeOK ==
  /\ world \in Worlds
  /\ tree \in [Files -> Source]
  /\ cands \in Seq(Fns)
  /\ stage \in {"next", "read", "written", "ran"} \cup Ended
  /\ cand \in SUBSET Fns
  /\ orig \in Source
  /\ result \in Results
  /\ sum.results \in Seq([of : Fns, is : Results])
  /\ \A i \in DOMAIN sum.results :
        sum.results[i].is.skipped => sum.results[i].is.missed = {}
  /\ left \in SUBSET Fns

(* The figures the report divides by one another agree: every fault that   *)
(* made a test fail was either caught inside the selection or is a recall  *)
(* violation, every candidate was injected or skipped, and the command     *)
(* ends well only if no result names a missed test, and complains of       *)
(* recall only if one does (mutate.go 111-135, 236-244; whichtests-mutate/ *)
(* main.go 53-89).                                                         *)
TallyRight ==
  LET missed == \E i \in DOMAIN sum.results : sum.results[i].is.missed # {}
  IN /\ sum.killed = sum.caught + sum.violations
     /\ sum.killed <= sum.injected
     /\ sum.injected + sum.skipped = Len(sum.results)
     /\ stage = "nil" => ~ missed
     /\ stage = "recall" => missed

(* The tree holds the fault of the candidate at hand and, of others, only  *)
(* of those whose file could not be written or put back, also if two of    *)
(* them are in one file; between two candidates and at the end, unless the *)
(* run is killed, it holds only these; and no file is cut off unless there *)
(* is one of them (mutate.go 192-216).                                     *)
OneFault ==
  /\ Faults \subseteq cand \cup left
  /\ stage \in {"next", "read"} \cup (Ended \ {"killed"}) => Faults \subseteq left
  /\ left = {} => \A f \in Files : tree[f].whole

(* A test that a result blames on a candidate executes its fault, or is    *)
(* broken with or without a fault, which Run does not find out, or         *)
(* executes the fault of an earlier candidate, which was left in the tree  *)
(* when its file could not be written or put back: the error of the        *)
(* deferred write is dropped and the run goes on (mutate.go 211-240).      *)
LeftBefore(i) == left \cap {sum.results[j].of : j \in 1 .. i - 1}

BlameRight ==
  \A i \in DOMAIN sum.results : \A t \in sum.results[i].is.failing :
    \/ t \in world.broken
    \/ \E c \in {sum.results[i].of} \cup LeftBefore(i) : t \in world.executes[c]
=============================================================================
