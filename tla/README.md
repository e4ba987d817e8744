# Verification of whichtests

whichtests answers one question: given a diff of a Go module, which tests can
see it? A test too many costs time; a test too few is a bug let through. This
directory holds TLA+ specifications of the parts of the program that decide
between the two, TLC models that check them on small instances, and proofs,
checked by TLAPS, that on every instance the graph queries and the graph cache are
right, hunks lie where the changes are, the index does not depend on the order of
the packages, the selection keeps the promises of the documentation, a job that
passes is honest, and fault injection and replay keep their books right.

    tlc -workers 2 -config MCReaching.cfg MCReaching.tla     # a run
    tlapm ReachingProofs.tla                                 # a proof

`PROJECT.json` lists the runs with what each of them checks, the mutants (a
plausible bug per property, which the property must notice), the lines of
source behind each definition, the findings, the hazards and the theorems.


## The system

One run of the command goes through the parts in this order:

    git diff --> gitdiff.Changed -> hunks ---------------+
                 gitdiff.Modules -> changed modules --+  |
                                                      v  v
    sources ---> graph.Build ------> Graph ----> selection.Select --> plan
                   |    ^                           |      ^
                   v    |                  Reaching |      | tests, boundaries
                  cache (.gob)                      v      |
                                             Graph.reaching, Graph.Boundaries

Two more commands use the same parts: `whichtests-mutate` injects faults to see
whether the tests that fail are among those selected, and `whichtests-replay`
goes over the history of a repository commit by commit.

| Part | State | Operations | Who it talks to | What is hard about it |
|---|---|---|---|---|
| Call graph queries, `internal/graph/graph.go` 314-462 | a queue, visited nodes, the origin of each node, the tests found | `reaching`, `Boundaries` | read the graph, called by `Select` and `mutate.Run` | cycles, order of maps, state carried from one group to the next |
| Selection, `internal/selection/selection.go` | symbols hit, dirty packages, ignored and unresolved files | `Select` and its helpers | asks the queries, takes the hunks and modules | each hunk takes one of nine ways, later steps depend on all of them |
| Graph construction, `graph.go` 141-312, 464-777 | the graph | `Build`, the indexing | go/packages, ssa, rta, vta; the cache | one package comes in several variants, in any order, some ill-typed |
| Graph cache, `internal/graph/cache.go` | files in a directory shared by all runs | `CacheKey`, `LoadCached`, `Save` | called by `Build` | other runs, edits, kills, failing I/O |
| Git diff, `internal/gitdiff/gitdiff.go` | current file, hunks; modules, wildcard | `Changed`, `Modules` | runs `git` | what git prints of renames, deletions, odd names |
| Paths, `internal/fsutil/fsutil.go` | a map of directories | `Canon` | everybody | the cache outlives what it describes |
| Fault injection, `internal/mutate/mutate.go` | the source tree, counters | `Run`, `inject`, `runSuite` | rewrites sources, runs `go test` | interrupts, failing I/O, what a dying test binary reports |
| Replay, `internal/replay/replay.go` | a worktree, results | `Run`, `verify`, `aggregate` | git, all of the above | process-wide caches, leftovers of the commit before |
| Command, `cmd/whichtests/main.go` | none | `run` | all of the above | three readings of the tree, one after the other |
| Doctor, `cmd/whichtests/doctor.go` | a sample, two sums | `doctor` | the index, selection | compares two counts that different code makes |
| Action, `action.yml` | the plan | shell steps | the command | a green job that ran nothing; exit codes lost in pipes |

What makes each of them correct:

- *Queries*: the tests found are those with a chain of callers back from a
  changed symbol, none more and none less, in whatever order the maps come; the
  reason given for a test holds; they end.
- *Selection*: what one hunk calls for, no other hunk takes away; every file is
  attributed, escalated or deliberately ignored; nothing outside the import
  closure of the change is run.
- *Cache*: nobody can tell that there is one.
- *Git diff*: the hunks are the lines that changed, in the file that changed;
  no module whose version changed is left out.
- *Graph construction*: the tables do not depend on the order of the packages,
  and no line, use or import of a package that could be typed is missing.
- *Fault injection*: one fault at a time, gone afterwards, blamed for its own
  failures only.
- *Replay*: a commit is measured on its own tree, by what one run of the tool
  would have selected, and blamed for what it broke.
- *Command and action*: functions and line numbers read at different times fit
  together; a job that passes let no failing test through.
- *Doctor*: what it compares can be compared.


## Modules

### Call graph queries

`CallGraph` has the graph the queries work on and, as operators without any
order of visiting in them, what they promise: `Cone` is the least set of nodes
that holds the seeds and the callers of its members, tests excepted, and
`ReachingTests` and `BoundaryKeys` are read off it. A node is an index into
`rev`; a closure has a node of its own under the key of its function.

`ReachQuery` is the promise of `Graph.Reaching` to its caller: answers are only
ever added, all of them are right, and none is missing in the end.

`Reaching` is the loop of `reaching`. `StartGroup` begins with the changed keys
of one package in any order (Go's maps have none), `SkipVisited`,
`ArriveAtTest` and `Expand` are the three ways an element leaves the queue, and
`FinishGroup` looks at the package initialisers once the queue has run dry. The
local variables have their names in the code, but for `group`, a set of at most
one package that is empty between two groups, and `todo`, the groups to come.

`Boundaries` is the loop of the function of that name, in the same manner; what the
two have in common, the question and the variables of the search, is `GraphWalk`.

### Selection

`Selection` is `Select`. Of the loop over the hunks each way round is an action:
`SkipModuleFile`, `IgnoreNonBehavioral`, `DirtyOwner`, `IgnoreUnloaded` and
`LeaveUnresolved` for files outside of the analysis, `HitFunctions`,
`ResolveDecl` and `DirtyPackage` for those inside. `WeighModules`, `Escalate`,
`AskBoundaries` and `MatchTests` follow. The queries are taken at their promise
(`ReachingTests`, `BoundaryKeys`), which is what `Reaching` and `Boundaries` are
shown to keep. A directory is the sequence of its path segments, and a file has
a kind, which is all that `nonBehavioral` looks at. `dirs` is the outcome of
`dirIndex`, which depends on the order of a map: any of the possible ones.

### Graph cache

`GraphOnDemand` is what `Build` promises: the graph of the sources as they are,
under the configuration asked for.

`GraphCache` has any number of runs of the tool share one cache directory and
one source tree. A run lists the sources and hashes them one by one (`List`,
`HashFile`, `Sum`), looks its key up (`Hit`, `Miss`), loads the sources again,
file by file and in any order (`LoadFile`, `Analyse`), and saves what it built
by way of a temporary file (`CreateTemp`, `Encode`, `Rename`). `KeyFails`,
`LoadFails` and `SaveFails` are the error paths, `Kill` ends a run anywhere,
`Edit` changes, creates or deletes a file. A graph is known by the configuration
and the sources it was built from, a digest by what was fed to it: that SHA-256
has no collisions is assumed, and so is that names and contents written to it
one after the other cannot be divided in two ways.

### Git diff

`GitDiff` goes from what happened to files to hunks. `PrintDiff` is what git
prints (external; compared with git by hand for deletions, renames, new files
and quoted names), and the actions are the cases of `parse`: `FileLine`,
`NullLine`, `RangeLine`, `OtherLine`. A change is a sequence of blocks, each with
its place on the new side, how many lines are gone and which are new. What the
scanner has before it is `unread`, the places of lines in the diff; `LineAt` is
what stands there, and `Scan` takes the first of them.

`ModuleDiff` goes on where `GitDiff` ends, as the commands do: after `Changed`,
`Modules` over the lines of go.mod and go.sum as the go command writes them, with
`moduleOfLine` as an operator on words. There are 16 kinds of entry: requirements,
replacements of one version or of all, by a module or by a directory, retractions of
a version or of a range, and so on.

### Graph construction and doctor

`GraphIndex` is the loop of `Build` over the loaded packages. Its unit is the
*variant*: go/packages loads a package as it is, with its own tests, as the
external tests beside it, and again for a test binary that needs it recompiled,
and all of these share files, run paths and symbol keys. `SkipIllTyped` and
`Index` take the variants in any order; what one does to the tables is
`indexRefs`, `Walks` (`indexDeps`, whose walk goes by run path and therefore on
from whichever variant it comes to first), `SpansOf`, `Entries` (`isTestEntry`)
and the owner of files, embedded ones included. `Candidates` is what fault
injection draws from the index.

`Doctor` extends it with the rest of a run of `whichtests doctor`:
`SampleSymbols`, for each function of the sample `Weigh`, which sets what
`Select` would select (`SelectedFor`) against what go test would run
(`baselineFor`), and `Verdict`. How far the walks of `Select` get is any set of
tests, initialisers and callerless functions; what `Select` makes of these, by the
packages of their keys (`KeyPackage`) and by what a test binary can see (`visible`),
is the code's, and so is, in other terms, the count it is compared with.

### Fault injection

`Mutate` is `Run` and `inject`: `Take`, `Read`, `Write`, `RunSuite`, `Restore`,
and the error path of each. A source file is the set of faults it holds and
whether it is whole, since a failing write truncates it; `left` is history and has
the candidates whose file could not be written or put back. A test suite is, per
package, the sequence of its tests; the first to panic is the last to run.
`Interrupt` ends the process in any state, and `Finish` says how the command
ends: well, with a complaint about recall, or for results it could not write.

### Replay

`Replay` is `Run` of `internal/replay`, with `verify`, `missed`, `aggregate` and
the exit of `whichtests-replay`. Its state is the one worktree (`tree`, and
whether a suite left a Go file in it), `goDirCache`, the result being filled in
and the summary. Each step of the loop over the commits has an action and each
of its errors one of its own, `skip` among them, which is what the `continue`s of
the code come to.
Three fields of a result are history: the trees that were read for the selection, and,
when the fixture's directory was asked about, whether the commit itself has Go files
there (`held`) and whether a suite had left one (`littered`).

### Command and action

`Job` is one change on its way through `cmd/whichtests/main.go`, driven by the
steps of action.yml (`CheckHistory`, `Install`, `ResolveBase`, then the command,
`WritePlan` and `RunPackage`, with `StepFails` wherever `set -e` would stop it)
or by hand, through a pipe into `sh`. `Build` and `ReadDiff` read the tree each
for itself, and by hand it can be typed into at any moment (`ChangeLine`,
`InsertLine`). A package is one file, a sequence of lines that belong to
functions, and a package's tests import what it imports; the plan is a set of
packages, run in the order of `Plans` (`IsFirst`); the selection is that of
`Selection` brought down to the tests that reach the function a changed line is
in, and `NotCompiling` are the packages that go with a change that does not compile.


## Runs

Each run's graphs, diffs and worlds are enumerated in its MC module.

| Run | Bounds | Shows |
|---|---|---|
| `reaching`, `boundaries` | 5 nodes (two functions, an initialiser, two tests), up to 2 callers each, 640 graphs, 5 questions | exactness against the reference, reasons, the bound on the queue, termination, refinement of `ReachQuery`; the second walk is silent only where it met an entry or recursion |
| `selection` | 135 analyses (call graphs with recursion, reflection and calls the imports rule out) with up to 2 hunks out of 9 in Go files; 6 layouts with up to 2 hunks out of 12 kinds of file and 8 sets of options; a package whose tests import what it does not | each hunk gets the tests of its functions, or if it has none of its declarations, whatever the other hunk is; owners, escalation, dependency bumps; the import closure, as the index has it, is a hard filter |
| `graph_cache` | 2 runs, 2 configurations, 1 file with 2 contents or none, edits any time | no half-written entry; only an edit during a run makes an entry wrong; refinement of `GraphOnDemand`; a failing cache keeps no run from its analysis |
| `git_diff` | up to 2 files, 2 blocks each of up to 3 lines removed and added, at the top of the file and further down; up to 3 entries of go.mod and go.sum, of 16 kinds | hunks are exact in any file, whatever precedes it; a module next to its version is named, and no diff is without effect |
| `doctor` | 2 packages in 6 variants, every order, 5 sets of ill-typed variants, 321 worlds, samples of 2 | spans, uses and import closures do not depend on the order; whatever the walks reach, nothing is selected that go test would leave out |
| `job` | 3 functions in 2 packages, 3 tests, one of them tagged; 2 edits at any moment; any step failing | the two readings of the tree fit together; an action that passes let no failing test through; every job ends |
| `mutate` | 2 functions in one file, 3 tests in 2 packages, 256 worlds, any failure of I/O | no fault but the one at hand and those that could not be taken back, and no other is blamed; figures and an exit that add up |
| `replay` | 2 commits with every pattern of failures of 2 tests, and 3 that touch a fixture with every history of its directory; any step failing | each commit is read at its own tree and blamed for its own failures; how far its selection can be relied on; the exit tells of an escaped bug; a replay ends |

Why these bounds are enough to be interesting: a walk goes wrong on a cycle, a
self-call, a node met twice, a second group or a key with two nodes, and 5 nodes
have all of them. Hunks interact pairwise (one clears or hides what the other
marked). For the cache two runs make every race there is between a writer and a
reader or another writer, and a run that follows both of them sees what the
second one saw. In a diff a
mistake is carried from one file to the next, or from one block to the next. An
injected fault can only be held against the candidate that follows it. Two
packages, one with tests beside it, give every kind of variant there is,
recompilation included, and three variants that share a file. A commit is
disturbed by the one before it, through the worktree, or by any earlier one,
through the cache of directories and what its suite left behind, which three commits
can tell apart: the directory is asked about before the first suite, after it, or
never before the last commit. Of two
edits one can come before the first reading of the tree and one between the two.

### Where the documentation and the code disagree

Three runs each check a statement of the documentation that does not hold of the
code; `PROJECT.json` quotes it under "findings":

| Run | What happens |
|---|---|
| `selection_fixture` | a Go file among fixtures hides the package they belong to |
| `graph_cache_stale` | an edit between hashing and loading leaves a wrong graph under a right key |
| `git_diff_deleted` | a deleted file yields no hunk, which `TestParseSkipsDeletedFiles` (gitdiff_test.go:54) asserts and README.md:175 denies |

More of them were met while modelling, and are visible in the models without a
run of their own.

In the selection:

- *A declaration beside a function*: a hunk over both selects for the function
  only (`HitFunctions`, selection.go:292); README.md:155 has a row for each.
  `SymbolRowsKept` asks for the second row only where there is no function.
- *Reflection*: boundaries in the changed packages count whether or not tests
  were found (`AskBoundaries`, selection.go:364); README.md:170 says "only when
  the walk finds *no* tests at all".
- *Toolchain bumps* are one more unresolved file, so `-safe=false` runs nothing
  for them (`WeighModules`, selection.go:320), and they are added after the
  unresolved files were reported; README.md:158 says "Run everything".
- *Embedded files*: `dirIndex` enters the directory of a file that another
  package embeds, and which of the two owns the directory is up to the order of
  a map (`DirIndexes`, selection.go:151). A file that two packages embed dirties
  only the one indexed last (`Index`, graph.go:714).

- *Imports of tests*: `indexDeps` adds what only the tests of a package import to
  the closure of the package (`Linked`, graph.go:718-738). A bump of such a module
  counts for the package, and through it for those that import it, whose test
  binaries do not hold the module (`modulePackages`, selection.go:57-95, 393-399);
  README.md:139 has the closure rule out what a binary does not import, and
  README.md:157 selects "tests importing the changed modules". Some tests too many.

In the graph and its cache:

- *What the key leaves out*: dependencies replaced by a directory outside of the
  module, the set of embedded files and `GOOS` in the environment determine the
  graph and are not in the key (`DigestOf`, cache.go:83). In the checked instance
  every file is hashed.
- *Beyond a test, and recursion*: the walk does not go past a test
  (`ArriveAtTest`, graph.go:358), so that a test that calls another test is
  not found through it; and of functions that only call themselves or
  each other, and are called by reflection, `Boundaries` reports none
  (`StopWithoutCaller`, graph.go:427), which is why `NoSilentZero` excepts them.
- *Tests that are none*: `isTestEntry` takes `TestMain` for a test (graph.go:744),
  and `-run '^(TestMain)$'` runs nothing.
- *Directories that end in `_test`* lose the ending in `runPath` (graph.go:742):
  the plan names the tests in such a directory as those of another package, and
  the walk over the imports passes over one of the two if a test imports both
  (`Unambiguous`), so that what it imports is missing from the closure that
  graph.go:74 promises.

In the diff:

- *New files* that were not added are not listed by git (`PrintedLines`), though
  gitdiff.go:29 counts uncommitted edits as changes.
- *Deleted functions*: the anchor of a deletion is the line that follows, which
  may belong to the next function, and then counts as a change of it
  (`HunkOf`, gitdiff.go:76); README.md:175 has it fall through to the package.
- *Names*: a path git quotes is not unquoted, and an added line beginning with
  `++ ` is taken for a header (`FileLine`, gitdiff.go:57-63).
- *Lines of go.mod that are not parsed* are passed over like a brace if another line
  names a module (`moduleOfLine`, gitdiff.go:223); gitdiff.go:128 says everything has
  to run. One of these is the replacement of every version of a module,
  `replace a => b v1.2.3`, where the arrow stands in the place of the version
  (gitdiff.go:222): a is not named, and next to another entry the tests that import it
  are not run. A retracted range, `retract [v1.0.0, v1.1.0]`, is taken for a module
  `[v1.0.0,` of version `v1.1.0]`.

In a job:

- *Changes that do not compile* take their packages and those that import them
  out of the plan (`Build` in `Job`, graph.go:205), so that a job can pass having
  run none of their tests; action.yml:61-64 has the step fail loudly rather than
  "quietly test nothing while reporting success", of shallow checkouts only. So
  does a push to the base branch, which differs in nothing from it.
- *Tags*: the plan does not repeat `-tags` (main.go:164, action.yml:137), so a
  tagged test is selected and then matches nothing.
- *Pipes*: in `whichtests -format go-test | sh` of the README the status is that
  of the last package, and a tool that fails gives `sh` nothing to run, which
  passes.

In the evaluation commands:

- *Interrupts*: `whichtests-mutate` stopped between writing and restoring leaves
  the panic in the source (`Interrupt`, mutate.go:215-216).
- *Recall*: a panic ends the test binary, so the tests that would have followed
  cannot be missed, and a test that was broken before counts as missed
  (`FailingIn`, mutate.go:238, 275): `Run` has no baseline.
- *Files that cannot be put back*: the error of the deferred write is dropped, and
  the candidates that follow are blamed for a fault that is still there
  (`RestoreFails`, mutate.go:216).
- *Replayed selections* rest on what `goDirCache` said of an earlier commit, or
  on what a suite left behind before the directory was first asked about
  (`hasGoFiles` in `Replay`, selection.go:129; the worktree is never cleaned,
  replay.go:163), and are then not "the one a real user would actually get"
  (replay.go:184). `MeasuredRight` names both as its conditions: it says that there
  is no third way.
- *Commits whose verification failed* have a reason for being skipped and count
  as replayed (`Record`, replay.go:211-222), while the ratios pass over them
  (replay.go:359).
- *Suites that do not build* fail no test by name, and so break nothing
  (replay.go:309).
- *Verdicts*: `doctor` may find a module worth trying for which it saw no saving
  at all, the median being a different figure from the sums (`Verdict`,
  doctor.go:173-194).

### Fairness

`Reaching` and `Boundaries`: weak fairness of the loop as a whole, a single
goroutine that never blocks. `GraphCache`: weak fairness of each run's own
steps; a run waits for no other, and nothing is assumed of edits, kills or new
calls. `Replay`: of its one sequential loop. `Job`: of the steps of the job, not of
who edits; that edits are bounded (`MaxEdits`) is not what makes it end. No
liveness is stated of the other modules, whose loops go over a list once.

### Deadlock

All runs check for it. The loops end in a `Return` that stutters, so that a
walk that could not go on would be reported.


## Proofs

Each of these modules proves the properties of one component inductive, together
with what they need; each `Inv` was tried with TLC before it was proved.

`ReachingProofs`, for every finite graph, question and order of the maps:

- `TypeCorrect`, the type invariant, and with it that every queued node has an
  origin;
- `Exactness`: the answer is `ReachingTests` when it is handed over;
- `Reasons`: every reported reason selects the test by itself;
- `Boundedness`: the queue holds no more than the seeds and one entry for each
  call of the nodes visited;
- `Implementation`: `Reaching` implements `ReachQuery`.

The inductive invariant is `Inv`, the type invariant with `IInv` (tried with TLC
before it was proved). `IInv` says of the group being walked that visited and queued
nodes are in the cone, that seeds are visited or queued, that the callers of a
visited node that is not a test are too, that each of these nodes has an origin
in the group whose own cone it lies in, and that the tests found so far are
those of the visited tests and of the groups already done. It is needed because
exactness says nothing about a walk half-way through: only with an empty queue
do these add up to "visited is the cone". The bound is an invariant of its own
(`CountInv`): each call into the graph counts from when its callee is visited, and
since a visited node is never expanded again no call is counted twice.

The same module has `BoundariesExactness` for the other walk, from an invariant of
the same form, and `BoundariesNotSilent`: if it finds nothing, it met a test or the
runtime, or functions that call each other in a circle. Without
such a circle one of the visited nodes has no caller among them, and since the callers
of a visited node are visited too, unless it is a test, that one has none at all.

`GraphCacheProofs`, for any number of runs, files, contents, configurations and
edits:

- `TypeCorrectness`, the type invariant: what is hashed was listed and was there, and
  a key is that of the configuration and of all that was listed;
- `Wholeness`: `LoadCached` never comes upon a half-written graph;
- `Soundness`: an entry is wrong only if an edit raced the run that saved it;
- `Implementation`: if every file the analysis reads is hashed (`Hashed =
  Files`; "What the key leaves out" above says where that is not so), the cache
  implements `GraphOnDemand`, a tool without a cache.

`StoreSound` speaks of entries only, and is not inductive: a run could be about
to save anything. `IInv` adds what each run has to see to before (`RunInv`): as
long as no edit raced it, what it has listed, hashed and loaded agrees with the
tree as it is, so that its key is the digest of the whole tree, and once the
graph is built, of what was loaded. For the refinement it also has the
configuration of every key and entry, and that in a calm history nothing was
raced at all (`CalmRun`). A step of one run disturbs no other (`Frame`), which
leaves one lemma per action; only `Rename` has the store to see to, and only
`EditInv` all runs at once.

`DoctorProofs`, for any packages, variants, type errors, order of the packages
and size of the sample:

- `TypeCorrect`: the type invariant, and with it that a file has an owner that
  compiles or embeds it;
- `Spans`: each function is indexed once, and drawn for a fault at most once;
- `Refs`: no use of a declaration is lost and none is made up;
- `Deps`: the dependencies of a package are what all its test binaries are linked
  from;
- `Comparison`: never more is selected than what it is set against.

What these say of the finished index is said in `IndexInv` of the packages indexed
so far: the files with spans are those of these packages, in each the functions
that resolve, and each use counts for a function that the source has around it
(`UseOf`), not the index.

`Comparison` is about two pieces of code that go by different packages: `Select` by
those of the keys on the changed line and of the boundaries behind them,
`baselineFor` by the one the sampled span was indexed under. They agree because a
file is held by variants of one run path only (`FilesAssumption`) and a name is of
one function (`NamesAssumption`), so that all the keys on a line are of the package
of the file (`OnePackage`); and boundaries outside of the changed packages are
dropped (`SelectedIsCounted`). `SampleInv` adds that a sample has one function per
key, without which a number could be written over another.

`Deps` is about two closures, of which both are stated as least closed sets: that
of the variants that are linked (`Linked`) and that of the paths the walk comes to,
where it goes on from one variant of each path. `WalkFinds` has them agree: what
is linked, as far as the walk comes to its path, is closed under imports, if
variants of one path take the same steps (`Unambiguous`). In a binary they do,
since it holds one variant of each path, but for a directory that is itself named
`a_test`, of which the checked worlds have one (`SuffixWorlds`), and for the main package that
go test generates, whose dependencies nobody asks for. Without that condition, what
the walk finds is still linked.

That two candidates never
share a key needs the names of the functions in the call graph to be unique
(`NamesAssumption`); Go sees to that, but for functions called `_`, which nobody
calls.

`SelectionProofs`, for any call graph, layout of files, diff, dependency bump and
options:

- `TypeCorrect`, the type invariant;
- `SymbolRows`, `FileRows`, `DependencyRow`: the rows of the documentation's table,
  for each hunk of a diff of any length, the row on declarations for hunks without a
  function, and that on dependencies for modules that are named;
- `HardFilter`: no test is selected whose imports do not lead to the change.

The rows speak of the tests that come out in the end, hunk by hunk, and the loop
only leaves marks. `Inv` says that a hunk that is done has left its mark for good
(`Marked`), that every mark is that of some hunk (`Grounded`, for the filter), what
the module change adds (`Weighed`), and how the answer is made of the marks
(`Answered`). From the marks to the tests it takes that both queries are monotone:
asked for the symbols of all hunks, they find at least what they would find for
those of one (`ReachingGrows`, `BoundariesGrow`). That they are answered as
promised is what `ReachingProofs` shows.

`GitDiffProofs`, for diffs of any number of files and blocks, and of `go.mod` and
`go.sum` of any length:

- `Hunks`: the hunks of a legible file are exactly its changes, in new-side numbers;
- `Versions`: the modules named are those of the lines that have a module next to its
  version, and the lower bounds of retracted ranges, which are none; replacements of
  every version name nothing;
- `Something`: no such diff comes out as one without an effect, and one of the
  language or toolchain counts for everything.

`Hunks` is about the one thing `parse` remembers, `file`. `DiffInv` has whose it is
(`Current`, `FileRight`): from the header of a change on, until one of a later
change is read, it is the path of that change, or a path of no file that is
legible. So a range adds to the hunks of its own change (`HunksSoFar`) and of no
other. That lines come in order is all this takes of the diff, which is why the
model has the places of the unread lines and not a sequence of them: what a
recursive definition prints could not be proved about. `HunkSays` has the numbers:
a count that is left out, and one of zero. A file is legible (`Legible`) if git
spells its path as it is, spells no other's like it, and no line of it looks like a
header; those that are not may come anywhere in the diff.

`ModInv` follows the lines: one that is not in front of the scanner any more has
been heeded, which is to say that the set of modules, or the wildcard, has what the
line stands for, and nothing gets into the set but by a line. What a line stands
for is a lemma of its own (`LineSays`), over the 16 forms of `Words`. Assumed is that paths and versions are not keywords
(`WordsAssumption`).

`JobProofs`, for any tree, tests, edits and any failure of a step:

- `Readings`: what the second reading saw changed is selected for, in every file
  whose lines were not moved in between;
- `Honesty`: a job of the action that passes let no failing test through, but for
  packages that do not compile, tagged tests and pushes to the base branch.

Both rest on a chain: the lines fit, so the hunks fall on the functions that were
changed, so their tests are selected, so their packages are in the plan or have
passed. Each stage adds a link and may forget the one before: `Links` has them for
a tree that is edited meanwhile, `Chain` for the runner, where none is. Assumed is
that a test reaches only what its package imports (`ReachAssumption`) and that
imports are transitive (`PackagesAssumption`).

`ReplayProofs`, for a history of any length, any tests and any failure of the
steps:

- `TypeCorrect`, the type invariant;
- `Separation`: the analysis, the diff and the selection of a commit read the worktree
  while it stands at that commit;
- `Blame`: a commit is held responsible for what it broke, no more and no less,
  and misses what of it was not selected;
- `Measurement`: whether a commit escalates is what a clean checkout of it would give,
  if the first commit that asked about the directory held there what this one does
  and no suite had left a Go file in it by then;
- `Verdict`: the exit tells whether a bug would have escaped.

All of these speak of finished results, which are made over several steps, so
none is inductive. `Inv` has where the loop and the worktree are and what the
result in hand already has to satisfy (`AtHand`), the same of those that are
finished (`AllRight`), where the answer in `goDirCache` came from, the directory as
the first result that asked found it (`Decided`), that it was gone by ever since
(`Explained`, both in `Remembered`), and how the command ended (`OutcomeRight`).

`MutateProofs`, for any finite set of candidates, any suites and any failures of
I/O:

- `TypeCorrect`, the type invariant;
- `Figures`: the figures agree with the results and with the exit;
- `Isolation`: the tree holds the fault at hand and those whose file could not be
  written or put back, and between two candidates only these;
- `Attribution`: a test held against a candidate executes its fault, or one that an
  earlier candidate left in the tree in that way, or is broken without any.

That a fault is gone after `Restore` depends on what `Read` found in the file,
and that depends on the `Restore` before: `Inv` ties tree, `orig` and candidate
together at each stage (`Tree`), and with them whom the result in hand may blame
(`InHand`, `Blame`). `Books` has the figures, which add up only if a skipped
candidate has no missed tests (`Sober`). The ways out of an injection, with a
result or an error, share one lemma, `Concluded`.

The assumptions are those stated in the modules: the graphs and analyses are
well-formed and finite (`GraphsAssumption`, `AnalysesAssumption`), questions are
sets of keys, the hashed files are among those read and listed once
(`FilesAssumption` of `GraphCache`), packages have finitely many files and these
a list of functions (`WorldsAssumption` of `GraphIndex`), the sentinels are not
themselves keys or tests (`NoKeyAssumption` among others), the candidates are
finitely many, and a commit's failures, selections and files are given for each
commit and its parent (`WorldsAssumption` of `Mutate` and `Replay`). TLC evaluates
them in each run.

Facts about sequences and finite sets are those of the library (`SequenceTheorems`,
`FiniteSetTheorems`), those about cones and queues stand in front of the proofs
that need them.

Only model-checked is termination, of the walks, the cache's runs, jobs and replays
(`Terminates`, `BoundariesEnd`, `RunsEnd`, `JobEnds`, `Ends`), since liveness is
outside of what the prover handles; every other property of a passing run is a
theorem. What a scanned text is made of and which packages are linked would both be
recursive definitions, about which nothing can be proved for every input: the diff
is a set of places instead (`PrintedLines`), and links are a least closed set
(`Linked`).

## Not modelled

- *The making of the call graph*: go/packages, ssa, rta and vta are libraries;
  `CallGraph` takes what they leave. `GraphIndex` models the tables beside it,
  but for the declarations (`indexGenDecl`), which are collected the way the
  spans of functions are; `Selection` takes them as given.
- *Paths*: `Canon` makes one name out of the two that git and go/packages use
  for a file, and remembers the answer for its directory. git names files below
  a root that it has resolved itself, and go/packages names files that exist, so
  an answer stays true over the checkouts of a replay. Beyond that it is what the
  operating system says of symbolic links; a file has one name in every module.
- *The example*, which has no part in the tool.
- *Output*: wording and order, ratios, `emitText`, `Plans`, the figures `doctor`
  gives for the sizes of packages, and the causes a replay counts conservative
  results by.
- *Leftovers of a suite* are seen by `hasGoFiles` only: that they may change what
  later suites do is left out of `Replay`.
- *Imports that only tests have*: `GraphIndex` and `Selection` have them, `Job`
  does not.
- *A job that restores its graph from the cache*: `Job` builds it anew;
  `GraphCache` has what can be restored.
- In what is modelled: errors of `git` itself outside of replay and jobs, lines
  longer than the scanner's buffer, and the test cache of `go test`, which
  returns what running would.


## Plan

| Step | Module | State |
|---|---|---|
| 1 | `CallGraph`, `ReachQuery`, `GraphWalk`, `Reaching`, `Boundaries`, with proofs | done |
| 2 | `Selection`, with proofs | done |
| 3 | `GraphOnDemand`, `GraphCache`, with proofs | done |
| 4 | `GitDiff`, `ModuleDiff`, with proofs | done |
| 5 | `Mutate`, with proofs; its candidates in `GraphIndex` | done |
| 6 | `Replay`, with proofs | done |
| 7 | `Job`: reading, diff, selection and running of one change, by the action or by hand, with proofs | done |
| 8 | `GraphIndex`: spans, uses, imports and entries of packages in several variants | done but for declarations |
| 9 | `Doctor`, on top of `GraphIndex`, with proofs about both | done |
| 10 | A job over a cached graph, with what the key leaves out | open |
