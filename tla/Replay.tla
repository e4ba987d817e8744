---------------------------------- MODULE Replay ----------------------------------
(***************************************************************************)
(* Run in internal/replay/replay.go, as whichtests-replay calls it: going  *)
(* back through history, what would have been selected for each commit,    *)
(* and, if asked to verify, which of the tests the commit broke would have *)
(* been passed over.                                                       *)
(*                                                                         *)
(* Commit i's first parent is i + 1.  One worktree serves all commits, and *)
(* one process: the answers of hasGoFiles are kept in goDirCache from one  *)
(* commit to the next.  Of the directories outside the analysis a single   *)
(* one is followed, by whether it holds Go files; a commit may touch a     *)
(* fixture there, which is ignored if it does and escalates if it does not.*)
(*                                                                         *)
(* A world is a history:                                                   *)
(*   last, root  the commits replayed, and whether the last has no parent  *)
(*   fails       the tests that fail at a commit                           *)
(*   selects     the tests selected for a commit that does not escalate    *)
(*   fixture     the commits that touch the fixture                        *)
(*   goFiles     the commits at which its directory holds Go files         *)
(*   leaves      the commits whose suite leaves a Go file behind there     *)
(***************************************************************************)
EXTENDS Integers, Sequences, FiniteSets, Functions

CONSTANTS Tests, Worlds

Trees(w) == 1 .. w.last + 1

ASSUME WorldsAssumption ==
  \A w \in Worlds :
    /\ w.last \in Nat \ {0}
    /\ w.root \in BOOLEAN
    /\ w.fails \in [Trees(w) -> SUBSET Tests]
    /\ w.selects \in [Trees(w) -> SUBSET Tests]
    /\ UNION {w.fixture, w.goFiles, w.leaves} \subseteq Trees(w)

Modes == {m \in [verify : BOOLEAN, baseline : BOOLEAN] : m.baseline => m.verify}

VARIABLES
  world, mode,
  stage,         \* what comes next for the commit at hand
  tree,          \* the commit the worktree was last checked out at
  leftover,      \* a suite has left a Go file in the worktree
  goDirCache,    \* what is cached of the directory: nothing or one answer
  r,             \* the CommitResult being filled in
  failAt,        \* of verify: the tests failing at the commit
  results, replayed, skipped,   \* sum
  outcome        \* how whichtests-replay ends: well, or by which error
vars == <<world, mode, stage, tree, leftover, goDirCache, r, failAt, results,
          replayed, skipped, outcome>>

given == <<world, mode>>
sum == <<results, replayed, skipped>>

(* Three fields are history: the trees that were read for the selection,   *)
(* and if the directory was asked about, whether the commit itself has Go  *)
(* files there (held) and whether the worktree was littered with one that  *)
(* a suite had left.  skipped says which step failed.                      *)
Fresh(c) ==
  [commit |-> c, skipped |-> "no", read |-> {}, held |-> {}, littered |-> FALSE,
   conservative |-> FALSE, selected |-> {}, verified |-> FALSE, failing |-> {}, missed |-> {}]

Measured == {x \in Range(results) : x.skipped = "no"}
Verified == {x \in Measured : x.verified}

-----------------------------------------------------------------------------
Init ==
  /\ world \in Worlds
  /\ mode \in Modes
  /\ stage = "commit"
  /\ tree = 1             \* git worktree add --detach wt commits[0]
  /\ leftover = FALSE
  /\ goDirCache = {}
  /\ r = Fresh(1)
  /\ failAt = {}
  /\ results = << >>
  /\ replayed = 0
  /\ skipped = 0
  /\ outcome = "pending"

At(s) == stage = s /\ UNCHANGED given

NextCommit ==
  /\ r' = Fresh(r.commit + 1)
  /\ stage' = IF r.commit = world.last THEN "aggregate" ELSE "commit"

skip(reason) ==
  /\ results' = Append(results, [r EXCEPT !.skipped = reason])
  /\ skipped' = skipped + 1
  /\ NextCommit
  /\ UNCHANGED <<leftover, goDirCache, failAt, replayed, outcome, tree>>

Parentless == world.root /\ r.commit = world.last

NoParent == At("commit") /\ Parentless /\ skip("noParent")

(* Mutant: a checkout that fails is not noticed. *)
CheckoutUnchecked ==
  /\ At("commit")
  /\ ~ Parentless
  /\ tree' \in {tree, r.commit}
  /\ stage' = "build"
  /\ UNCHANGED <<leftover, goDirCache, r, failAt, sum, outcome>>

Checkout ==
  /\ At("commit")
  /\ ~ Parentless
  /\ tree' = r.commit
  /\ stage' = "build"
  /\ UNCHANGED <<leftover, goDirCache, r, failAt, sum, outcome>>

CheckoutFails == At("commit") /\ ~ Parentless /\ skip("checkout")

Build ==
  /\ At("build")
  /\ r' = [r EXCEPT !.read = {tree}]
  /\ stage' = "diff"
  /\ UNCHANGED <<tree, leftover, goDirCache, failAt, sum, outcome>>

BuildFails == At("build") /\ skip("analysis")

(* Changed and Modules compare the worktree with the parent. *)
Diff ==
  /\ At("diff")
  /\ r' = [r EXCEPT !.read = @ \cup {tree}]
  /\ stage' = "select"
  /\ UNCHANGED <<tree, leftover, goDirCache, failAt, sum, outcome>>

DiffFails == At("diff") /\ \E reason \in {"diff", "modules"} : skip(reason)

(* Files the worktree holds beyond its commit are there for hasGoFiles. *)
OwnGo == tree \in world.goFiles
HoldsGo == OwnGo \/ leftover

(* Mutant: a directory that nobody asked about yet is taken to hold none.  *)
hasGoFilesFalse == IF goDirCache = {} THEN FALSE ELSE TRUE \in goDirCache

hasGoFiles == IF goDirCache = {} THEN HoldsGo ELSE TRUE \in goDirCache

Select ==
  /\ At("select")
  /\ LET asked == tree \in world.fixture
         escalates == asked /\ ~ hasGoFiles
     IN /\ goDirCache' = IF asked THEN {hasGoFiles} ELSE goDirCache
        /\ r' = [r EXCEPT !.read = @ \cup {tree},
                          !.held = IF asked THEN {OwnGo} ELSE {},
                          !.littered = asked /\ leftover,
                          !.conservative = escalates,
                          !.selected = IF escalates THEN Tests ELSE world.selects[tree]]
  /\ stage' = IF mode.verify THEN "suite" ELSE "record"
  /\ UNCHANGED <<tree, leftover, failAt, sum, outcome>>

-----------------------------------------------------------------------------
(***************************************************************************)
(* verify: the suite at the commit, and if something fails, at its parent. *)
(***************************************************************************)
missed(failing) == IF r.conservative THEN {} ELSE failing \ r.selected

Answer(failing) ==
  /\ r' = [r EXCEPT !.verified = TRUE, !.failing = failing, !.missed = missed(failing)]
  /\ stage' = "record"

(* Mutant: the commit is tried again from the start. *)
GiveUpRetry == /\ r' = Fresh(r.commit)
               /\ stage' = "commit"

GiveUp == /\ r' = [r EXCEPT !.skipped = "verify"]
          /\ stage' = "record"

runSuite == leftover' = (leftover \/ tree \in world.leaves)

(* Mutant: the tests failing before are run for without going back there.  *)
SuiteInPlace ==
  /\ At("suite")
  /\ runSuite
  /\ failAt' = world.fails[tree]
  /\ IF failAt' = {} \/ ~ mode.baseline
     THEN Answer(failAt')
     ELSE stage' = "before" /\ UNCHANGED r
  /\ UNCHANGED <<tree, goDirCache, sum, outcome>>

Suite ==
  /\ At("suite")
  /\ runSuite
  /\ failAt' = world.fails[tree]
  /\ IF failAt' = {} \/ ~ mode.baseline
     THEN Answer(failAt')
     ELSE stage' = "parent" /\ UNCHANGED r
  /\ UNCHANGED <<tree, goDirCache, sum, outcome>>

CheckoutParent ==
  /\ At("parent")
  /\ tree' = r.commit + 1
  /\ stage' = "before"
  /\ UNCHANGED <<leftover, goDirCache, r, failAt, sum, outcome>>

SuiteBefore ==
  /\ At("before")
  /\ runSuite
  /\ Answer(failAt \ world.fails[tree])
  /\ UNCHANGED <<tree, goDirCache, failAt, sum, outcome>>

(* No test event was printed, or the parent could not be checked out. *)
SuiteFails ==
  /\ stage \in {"suite", "before"}
  /\ UNCHANGED given
  /\ runSuite
  /\ GiveUp
  /\ UNCHANGED <<tree, goDirCache, failAt, sum, outcome>>

ParentFails ==
  /\ At("parent")
  /\ GiveUp
  /\ UNCHANGED <<tree, leftover, goDirCache, failAt, sum, outcome>>

(* Mutant: a commit whose verification failed is not counted at all. *)
RecordVerified ==
  /\ At("record")
  /\ results' = Append(results, r)
  /\ replayed' = IF r.skipped = "no" THEN replayed + 1 ELSE replayed
  /\ NextCommit
  /\ UNCHANGED <<tree, leftover, goDirCache, failAt, skipped, outcome>>

Record ==
  /\ At("record")
  /\ results' = Append(results, r)
  /\ replayed' = replayed + 1
  /\ NextCommit
  /\ UNCHANGED <<tree, leftover, goDirCache, failAt, skipped, outcome>>

(* aggregate, and what main makes of it. *)
commitsWithFailed == Cardinality({x \in Verified : x.failing # {}})
recallViolations == Cardinality({x \in Verified : x.missed # {}})

(* Mutant: the status goes by the failing tests. *)
AggregateFailed ==
  /\ At("aggregate")
  /\ outcome' = IF commitsWithFailed > 0 THEN "recall" ELSE "nil"
  /\ stage' = "done"
  /\ UNCHANGED <<tree, leftover, goDirCache, r, failAt, sum>>

Aggregate ==
  /\ At("aggregate")
  /\ outcome' = IF recallViolations > 0 THEN "recall" ELSE "nil"
  /\ stage' = "done"
  /\ UNCHANGED <<tree, leftover, goDirCache, r, failAt, sum>>

(* The results cannot be written, which is found out first. *)
WriteFails ==
  /\ At("aggregate")
  /\ outcome' = "unwritten"
  /\ stage' = "done"
  /\ UNCHANGED <<tree, leftover, goDirCache, r, failAt, sum>>

Done == stage = "done" /\ UNCHANGED vars

Next ==
  \/ NoParent \/ Checkout \/ CheckoutFails \/ Build \/ BuildFails
  \/ Diff \/ DiffFails \/ Select
  \/ Suite \/ CheckoutParent \/ SuiteBefore \/ SuiteFails \/ ParentFails
  \/ Record \/ Aggregate \/ WriteFails \/ Done

Spec == Init /\ [][Next]_vars /\ WF_vars(Next)

-----------------------------------------------------------------------------
Result ==
  [commit : Nat, read : SUBSET Nat, held : SUBSET BOOLEAN, littered : BOOLEAN,
   conservative : BOOLEAN, selected : SUBSET Tests, verified : BOOLEAN, failing : SUBSET Tests, missed : SUBSET Tests,
   skipped : {"no", "noParent", "checkout", "analysis", "diff", "modules", "verify"}]

(* Types, and the two counters (replay.go:222, 232) in step with the list  *)
(* of results at every moment.                                             *)
TypeOK ==
  /\ world \in Worlds
  /\ mode \in Modes
  /\ tree \in Trees(world)
  /\ leftover \in BOOLEAN
  /\ Cardinality(goDirCache) <= 1
  /\ r \in Result
  /\ \A i \in DOMAIN results : results[i] \in Result /\ results[i].commit = i
  /\ Len(results) = replayed + skipped
  /\ outcome \in {"pending", "nil", "recall", "unwritten"}

(* The worktree stands at the commit at hand whenever the analysis, the    *)
(* diff and the selection read it, although verification leaves it at the  *)
(* parent and checkouts fail (replay.go:163-190, 245).  What else reaches  *)
(* a selection, the answers kept in goDirCache and the files that suites   *)
(* leave in the worktree, is MeasuredRight's; the tree the suite runs on   *)
(* is BlameRight's.                                                        *)
OwnTree ==
  \A x \in Range(results) : x.read \subseteq {x.commit}

(* With a baseline, the tests held against a commit are exactly those it   *)
(* broke; a test counts as missed exactly if it is one of them and was not *)
(* selected (replay.go:237-275).                                           *)
BlameRight ==
  \A x \in Verified :
    LET before == IF mode.baseline THEN world.fails[x.commit + 1] ELSE {}
    IN /\ x.failing = world.fails[x.commit] \ before
       /\ x.missed = x.failing \ x.selected

AskedFirst(x) ==
  /\ x.held # {}
  /\ \A y \in Range(results) : y.held # {} => x.commit <= y.commit

(* A commit that touches the fixture escalates in a replay exactly if it   *)
(* would on a clean checkout of its own (replay.go:184-190,                *)
(* selection.go:129-146), as long as two things are so that the code does  *)
(* not see to: the first commit whose fixture was asked about has Go files *)
(* in that directory just as this one has, for its answer is kept; and no  *)
(* suite had left any there by then, for they are taken for the commit's.  *)
(* What is left behind later, and answers in between, do no harm.          *)
MeasuredRight ==
  \A x, y \in Range(results) :
    /\ AskedFirst(y) /\ ~ y.littered
    /\ x.held = y.held
    => (x.conservative <=> TRUE \notin x.held)

(* The command ends well only if no commit that could be verified broke a *)
(* test that its selection leaves out, and complains of recall only if one *)
(* did (replay.go:356-381, whichtests-replay/main.go:70-88).               *)
ExitTells ==
  LET escaped == \E x \in Measured :
        /\ x.verified /\ ~ x.conservative
        /\ \E t \in world.fails[x.commit] \ world.selects[x.commit] :
             mode.baseline => t \notin world.fails[x.commit + 1]
  IN /\ outcome = "nil" => ~ escaped
     /\ outcome = "recall" => escaped

(* However checkouts, analyses and suites fail, a replay ends: no commit   *)
(* is tried twice (replay.go:155-222).                                     *)
Ends == <>(stage = "done")
=============================================================================
