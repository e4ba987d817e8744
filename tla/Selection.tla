------------------------------- MODULE Selection -------------------------------
(***************************************************************************)
(* Select in internal/selection/selection.go: from the hunks of a diff to  *)
(* the tests to run.  Each hunk goes through one branch of the loop, which *)
(* leaves its mark on one of the sets the loop builds up; then the module  *)
(* change is weighed, and either everything is selected or the call graph  *)
(* is asked twice and each test is matched against the answers.            *)
(*                                                                         *)
(* The two questions to the graph are asked by what they promise, that is  *)
(* ReachingTests and BoundaryKeys: modules Reaching and Boundaries show    *)
(* that the walks keep these promises.                                     *)
(*                                                                         *)
(* An analysis is a record of what Build left behind for Select:           *)
(*   graph      the call graph (see CallGraph)                             *)
(*   loaded     the packages with an entry in PkgDeps                      *)
(*   filePkg    FilePkg: analysed sources and the targets of go:embed      *)
(*   spans      the lines of each function, per file of filePkg            *)
(*   decls      the lines of each type, const or var declaration           *)
(*   declRefs   DeclRefs: the functions using a declaration                *)
(*   moduleOf   the dependency a package comes from, NoModule for our own  *)
(*   disk       the files that are there for fileOwner to look at          *)
(* A directory is the sequence of its path segments below the repository.  *)
(***************************************************************************)
EXTENDS CallGraph

CONSTANTS
  Files, Dir, Kind,      \* each file's directory and what its name says it is
  FixtureSegs, Github,   \* the segments nonBehavioral looks for
  DeclKeys, Modules, NoModule,
  Inputs                 \* what Select may be given: an analysis, the hunks of a
                         \* diff, and options

Kinds == {"go", "go.mod", "go.sum", "doc", "other"}

IsAnalysis(a) ==
  /\ IsGraph(a.graph)
  /\ a.loaded \subseteq Pkgs
  /\ DOMAIN a.filePkg \subseteq Files
  /\ a.filePkg \in [DOMAIN a.filePkg -> a.loaded]
  /\ \A f \in DOMAIN a.filePkg :
        /\ \A s \in a.spans[f] : s.key \in Keys
        /\ \A d \in a.decls[f] : d.keys \in SUBSET DeclKeys
  /\ a.declRefs \in [DeclKeys -> SUBSET Keys]
  /\ a.moduleOf \in [Pkgs -> Modules \cup {NoModule}]
  /\ a.disk \subseteq Files
  /\ \A t \in Tests : a.graph.testPkg[t] \in a.loaded

ASSUME FilesAssumption ==
  /\ \A f \in Files : Dir[f] \in Seq(Range(Dir[f]))
  /\ Kind \in [Files -> Kinds]

Analyses == {i.analysis : i \in Inputs}
Diffs == {i.diff : i \in Inputs}

ASSUME AnalysesAssumption == \A a \in Analyses : IsAnalysis(a)

ASSUME DiffsAssumption ==
  Diffs \subseteq Seq([file : Files, first : Nat, last : Nat])

VARIABLES
  analysis,      \* g
  dirs,          \* dirIndex(g)
  hunks,         \* the hunks not yet looked at
  opts,          \* Options
  stage,         \* where Select is: "hunks", "modules", "tests", "returned"
  changed, dirty, unresolved, ignored,
  reported,      \* res.UnresolvedFiles
  modAffected,
  orphans,       \* res.ReflectiveSymbols
  reason,        \* for each test its Reason.Kind, "none" if not selected
  diff           \* history: all the hunks Select was called with

marks == <<changed, dirty, unresolved, ignored>>
given == <<analysis, dirs, opts, diff>>
results == <<reported, modAffected, orphans, reason>>
vars == <<analysis, dirs, hunks, opts, stage, changed, dirty, unresolved,
          ignored, reported, modAffected, orphans, reason, diff>>

g == analysis.graph
NoReason == [t \in Tests |-> "none"]
Selected == {t \in Tests : reason[t] # "none"}

-----------------------------------------------------------------------------
(***************************************************************************)
(* What a hunk lands on.                                                   *)
(***************************************************************************)
Overlaps(h, s) == h.first <= s.last /\ h.last >= s.first

Owned(a, f) == f \in DOMAIN a.filePkg

HitKeys(a, h) == {s.key : s \in {r \in a.spans[h.file] : Overlaps(h, r)}}

DeclsHit(a, h) ==
  UNION {d.keys : d \in {e \in a.decls[h.file] : Overlaps(h, e)}}

(* resolveDecl: one declaration without known references spoils the lot.   *)
Referencing(a, h) == UNION {a.declRefs[k] : k \in DeclsHit(a, h)}

Resolvable(a, h) ==
  /\ DeclsHit(a, h) # {}
  /\ \A k \in DeclsHit(a, h) : a.declRefs[k] # {}

IsModuleFile(f) == Kind[f] \in {"go.mod", "go.sum"}

nonBehavioral(f) ==
  /\ Range(Dir[f]) \cap FixtureSegs = {}
  /\ Github \in Range(Dir[f]) \/ Kind[f] = "doc"

(* dirIndex ranges over a map, so of two packages that own a file of one   *)
(* directory either may be the one that is kept.                           *)
SourceDirs(a) == {Dir[f] : f \in DOMAIN a.filePkg}

DirIndexes(a) ==
  {ix \in [SourceDirs(a) -> a.loaded] :
     \A d \in SourceDirs(a) :
        \E f \in DOMAIN a.filePkg : Dir[f] = d /\ a.filePkg[f] = ix[d]}

hasGoFiles(a, d) == \E f \in a.disk : Dir[f] = d /\ Kind[f] = "go"
hasGoMod(a, d) == \E f \in a.disk : Dir[f] = d /\ Kind[f] = "go.mod"

(* fileOwner climbs from the directory of the file to the nearest one that *)
(* says something.                                                         *)
Climb(f) == {SubSeq(Dir[f], 1, n) : n \in 0 .. Len(Dir[f])}

Decisive(a, ix, f) ==
  {d \in Climb(f) : d \in DOMAIN ix \/ hasGoFiles(a, d) \/ hasGoMod(a, d)}

Nearest(a, ix, f, d) ==
  /\ d \in Decisive(a, ix, f)
  /\ \A e \in Decisive(a, ix, f) : Len(e) <= Len(d)

OwnerLoaded(a, ix, f, pkg) ==
  \E d \in DOMAIN ix : Nearest(a, ix, f, d) /\ ix[d] = pkg

OwnerUnloaded(a, ix, f) ==
  \E d \in Climb(f) \ DOMAIN ix : Nearest(a, ix, f, d) /\ hasGoFiles(a, d)

OwnerUnknown(a, ix, f) ==
  ~ OwnerUnloaded(a, ix, f) /\ \A d \in DOMAIN ix : ~ Nearest(a, ix, f, d)

(* A package depends on pkg, in the sense of match.                        *)
DependsOn(a, t, pkg) == visible(a.graph, t, pkg)

inMod(a, pkg, mods) == a.moduleOf[pkg] \in mods

modulePackages(a, mods) ==
  {p \in a.loaded : \E q \in {p} \cup a.graph.pkgDeps[p] : inMod(a, q, mods)}

-----------------------------------------------------------------------------
Init ==
  /\ \E i \in Inputs : /\ analysis = i.analysis
                      /\ diff = i.diff
                      /\ opts = i.opts
  /\ dirs \in DirIndexes(analysis)
  /\ hunks = diff
  /\ stage = "hunks"
  /\ changed = {}
  /\ dirty = {}
  /\ unresolved = {}
  /\ ignored = {}
  /\ reported = {}
  /\ modAffected = {}
  /\ orphans = {}
  /\ reason = NoReason

(* The next hunk is h; the loop goes round once. *)
Take(h) ==
  /\ stage = "hunks"
  /\ hunks # << >>
  /\ h = Head(hunks)
  /\ hunks' = Tail(hunks)
  /\ UNCHANGED <<given, stage, results>>

Outside(h) == ~ IsModuleFile(h.file) /\ ~ Owned(analysis, h.file)
Inside(h) == ~ IsModuleFile(h.file) /\ Owned(analysis, h.file)

Ignorable(h) == ~ opts.includeNonBehavioral /\ nonBehavioral(h.file)

SkipModuleFile(h) == Take(h) /\ IsModuleFile(h.file) /\ UNCHANGED marks

IgnoreNonBehavioral(h) ==
  /\ Take(h)
  /\ Outside(h)
  /\ Ignorable(h)
  /\ ignored' = ignored \cup {h.file}
  /\ UNCHANGED <<changed, dirty, unresolved>>

DirtyOwner(h) ==
  /\ Take(h)
  /\ Outside(h)
  /\ ~ Ignorable(h)
  /\ \E pkg \in Pkgs : /\ OwnerLoaded(analysis, dirs, h.file, pkg)
                       /\ dirty' = dirty \cup {pkg}
  /\ UNCHANGED <<changed, unresolved, ignored>>

IgnoreUnloaded(h) ==
  /\ Take(h)
  /\ Outside(h)
  /\ ~ Ignorable(h)
  /\ OwnerUnloaded(analysis, dirs, h.file)
  /\ ignored' = ignored \cup {h.file}
  /\ UNCHANGED <<changed, dirty, unresolved>>

(* Mutant: a file that nobody owns is ignored like one of a package that   *)
(* was not loaded.                                                         *)
LeaveIgnored(h) ==
  /\ Take(h)
  /\ Outside(h)
  /\ ~ Ignorable(h)
  /\ OwnerUnknown(analysis, dirs, h.file)
  /\ ignored' = ignored \cup {h.file}
  /\ UNCHANGED <<changed, dirty, unresolved>>

LeaveUnresolved(h) ==
  /\ Take(h)
  /\ Outside(h)
  /\ ~ Ignorable(h)
  /\ OwnerUnknown(analysis, dirs, h.file)
  /\ unresolved' = unresolved \cup {h.file}
  /\ UNCHANGED <<changed, dirty, ignored>>

HitFunctions(h) ==
  /\ Take(h)
  /\ Inside(h)
  /\ HitKeys(analysis, h) # {}
  /\ changed' = changed \cup HitKeys(analysis, h)
  /\ UNCHANGED <<dirty, unresolved, ignored>>

(* Mutant: the references replace the symbols of the hunks before. *)
ResolveDeclOver(h) ==
  /\ Take(h)
  /\ Inside(h)
  /\ HitKeys(analysis, h) = {}
  /\ Resolvable(analysis, h)
  /\ changed' = Referencing(analysis, h)
  /\ UNCHANGED <<dirty, unresolved, ignored>>

ResolveDecl(h) ==
  /\ Take(h)
  /\ Inside(h)
  /\ HitKeys(analysis, h) = {}
  /\ Resolvable(analysis, h)
  /\ changed' = changed \cup Referencing(analysis, h)
  /\ UNCHANGED <<dirty, unresolved, ignored>>

(* Mutant: the file is marked dirty in place of its package. *)
DirtyFile(h) ==
  /\ Take(h)
  /\ Inside(h)
  /\ HitKeys(analysis, h) = {}
  /\ ~ Resolvable(analysis, h)
  /\ dirty' = dirty \cup {h.file}
  /\ UNCHANGED <<changed, unresolved, ignored>>

DirtyPackage(h) ==
  /\ Take(h)
  /\ Inside(h)
  /\ HitKeys(analysis, h) = {}
  /\ ~ Resolvable(analysis, h)
  /\ dirty' = dirty \cup {analysis.filePkg[h.file]}
  /\ UNCHANGED <<changed, unresolved, ignored>>

(* Mutant: a directive counts only when no module was named. *)
WeighModulesAlone ==
  /\ stage = "hunks"
  /\ hunks = << >>
  /\ stage' = "modules"
  /\ reported' = unresolved
  /\ modAffected' = modulePackages(analysis, opts.modules)
  /\ unresolved' = IF opts.touched /\ modAffected' = {}
                   THEN unresolved \cup {"go.mod"} ELSE unresolved
  /\ UNCHANGED <<given, hunks, changed, dirty, ignored, orphans, reason>>

(* The files are reported before the module change is weighed.             *)
WeighModules ==
  /\ stage = "hunks"
  /\ hunks = << >>
  /\ stage' = "modules"
  /\ reported' = unresolved
  /\ modAffected' = modulePackages(analysis, opts.modules)
  /\ unresolved' =
       IF opts.touched /\ (opts.wildcard \/ modAffected' = {})
       THEN unresolved \cup {"go.mod"} ELSE unresolved
  /\ UNCHANGED <<given, hunks, changed, dirty, ignored, orphans, reason>>

MustEscalate ==
  opts.conservative \/ (opts.conservativeOnUnresolved /\ unresolved # {})

Escalate ==
  /\ stage = "modules"
  /\ MustEscalate
  /\ reason' = [t \in Tests |-> "conservative"]
  /\ stage' = "returned"
  /\ UNCHANGED <<given, hunks, marks, reported, modAffected, orphans>>

(* Boundaries count in the packages of the changed symbols only.           *)
changedPkgs == {g.keyPkg[k] : k \in changed} \ {NoPkg}

(* Mutant: a boundary counts in whichever package the walk ran into it. *)
AskBoundariesAnywhere ==
  /\ stage = "modules"
  /\ ~ MustEscalate
  /\ orphans' = {k \in BoundaryKeys(g, changed) : g.keyPkg[k] # NoPkg}
  /\ dirty' = dirty \cup {g.keyPkg[k] : k \in orphans'}
  /\ stage' = "tests"
  /\ UNCHANGED <<given, hunks, changed, unresolved, ignored, reported,
                 modAffected, reason>>

AskBoundaries ==
  /\ stage = "modules"
  /\ ~ MustEscalate
  /\ orphans' = {k \in BoundaryKeys(g, changed) : g.keyPkg[k] \in changedPkgs}
  /\ dirty' = dirty \cup {g.keyPkg[k] : k \in orphans'}
  /\ stage' = "tests"
  /\ UNCHANGED <<given, hunks, changed, unresolved, ignored, reported,
                 modAffected, reason>>

match(t) ==
  IF t \in ReachingTests(g, changed) THEN "symbol"
  ELSE IF \E p \in dirty : DependsOn(analysis, t, p) THEN "package"
  ELSE IF \E p \in modAffected : DependsOn(analysis, t, p) THEN "module"
  ELSE "none"

MatchTests ==
  /\ stage = "tests"
  /\ reason' = [t \in Tests |-> match(t)]
  /\ stage' = "returned"
  /\ UNCHANGED <<given, hunks, marks, reported, modAffected, orphans>>

Return == stage = "returned" /\ UNCHANGED vars

Next ==
  \/ \E h \in Range(diff) :
        \/ SkipModuleFile(h) \/ IgnoreNonBehavioral(h) \/ DirtyOwner(h)
        \/ IgnoreUnloaded(h) \/ LeaveUnresolved(h)
        \/ HitFunctions(h) \/ ResolveDecl(h) \/ DirtyPackage(h)
  \/ WeighModules \/ Escalate \/ AskBoundaries \/ MatchTests
  \/ Return

Spec == Init /\ [][Next]_vars

-----------------------------------------------------------------------------
(***************************************************************************)
(* What Select promises.  All of it is said of the hunks of the diff one   *)
(* by one: what one hunk calls for, no other hunk may take away.           *)
(***************************************************************************)
Returned == stage = "returned"
Hunks == Range(diff)

TypeOK ==
  /\ analysis \in Analyses
  /\ diff \in Diffs
  /\ dirs \in DirIndexes(analysis)
  /\ hunks \in Seq(Hunks)
  /\ stage \in {"hunks", "modules", "tests", "returned"}
  /\ changed \subseteq Keys
  /\ dirty \subseteq Pkgs
  /\ unresolved \subseteq Files \cup {"go.mod"}
  /\ ignored \subseteq Files
  /\ reported \subseteq Files
  /\ modAffected \subseteq Pkgs
  /\ orphans \subseteq Keys
  /\ reason \in [Tests -> {"none", "symbol", "package", "module", "conservative"}]

Dependents(pkg) == {t \in Tests : DependsOn(analysis, t, pkg)}

(* The symbols the loop marks for a hunk (selection.go 291-313): the users *)
(* of a declaration only if there is no function in the hunk as well.      *)
SymbolsOf(h) ==
  IF HitKeys(analysis, h) # {} THEN HitKeys(analysis, h)
  ELSE IF Resolvable(analysis, h) THEN Referencing(analysis, h) ELSE {}

(* The tests that changed symbols call for: those that reach one of them,  *)
(* and those of the packages in which the walk back from one of them ends  *)
(* at a function nothing calls.                                            *)
Reflected(keys) ==
  {g.keyPkg[k] : k \in BoundaryKeys(g, keys)}
     \cap ({g.keyPkg[k] : k \in keys} \ {NoPkg})

CalledForBy(keys) ==
  ReachingTests(g, keys) \cup UNION {Dependents(p) : p \in Reflected(keys)}

(* The first three rows of the soundness table of README.md, with the      *)
(* fallback for reflection that selection.go 346-374 adds.  Whatever else  *)
(* is in the diff, a hunk in an analysed file gets the tests that reach    *)
(* the functions in it.  If there is none in it, it gets for each of its   *)
(* declarations the tests that reach a function using that one, of those   *)
(* that can see the package it is in; and every test that depends on this  *)
(* package if one of the declarations has no known use, or there is none.  *)
(* A hunk over a function and a declaration beside it is left out of the   *)
(* second row, which README.md has for it too: the code passes over the    *)
(* declaration (selection.go 292, 302).                                    *)
SymbolRowsKept ==
  Returned =>
    \A h \in Hunks : Inside(h) =>
      LET own == Dependents(analysis.filePkg[h.file])
      IN  /\ CalledForBy(HitKeys(analysis, h)) \subseteq Selected
          /\ HitKeys(analysis, h) = {} =>
               /\ \A d \in DeclsHit(analysis, h) :
                     CalledForBy(analysis.declRefs[d]) \cap own \subseteq Selected
               /\ (\A d \in DeclsHit(analysis, h) : analysis.declRefs[d] # {})
                    \/ own \subseteq Selected
               /\ DeclsHit(analysis, h) = {} => own \subseteq Selected

(* The rows on files: a file that lies with a loaded package dirties that  *)
(* package, one that nobody owns runs everything under -safe, and only     *)
(* documentation and the files of a package that was not loaded go         *)
(* unheeded (selection.go 262-290).                                        *)
FileRowsKept ==
  Returned =>
    \A h \in Hunks : Outside(h) /\ ~ Ignorable(h) =>
      /\ \A p \in Pkgs :
            OwnerLoaded(analysis, dirs, h.file, p) => Dependents(p) \subseteq Selected
      /\ OwnerUnknown(analysis, dirs, h.file) /\ opts.conservativeOnUnresolved
            => Selected = Tests
      /\ OwnerUnloaded(analysis, dirs, h.file) => h.file \in ignored

(* A change to go.mod or go.sum runs each test that imports one of the     *)
(* modules, directly or not; when it names no module that anything         *)
(* imports, -safe runs everything (selection.go 317-333).                  *)
DependencyRowKept ==
  Returned /\ opts.touched =>
    /\ \A t \in Tests :
          (\E q \in {g.testPkg[t]} \cup g.pkgDeps[g.testPkg[t]] :
              inMod(analysis, q, opts.modules)) => t \in Selected
    /\ opts.conservativeOnUnresolved
         /\ (opts.wildcard \/ modulePackages(analysis, opts.modules) = {})
         => Selected = Tests

TouchedBy(h) ==
  {g.keyPkg[k] : k \in IF Inside(h) THEN SymbolsOf(h) ELSE {}}
    \cup {p \in Pkgs : \/ (Inside(h) /\ p = analysis.filePkg[h.file])
                      \/ (Outside(h) /\ OwnerLoaded(analysis, dirs, h.file, p))}

Touched ==
  modulePackages(analysis, opts.modules) \cup UNION {TouchedBy(h) : h \in Hunks}

(* No test is selected, short of running everything, of a package that     *)
(* imports none of those the diff touched: whatever the call graph says,   *)
(* the import closure is a hard filter (README.md, "How it works";         *)
(* graph.go 322-325, selection.go 346-401).  A module is taken to touch    *)
(* the packages importing it, be it for their tests only.                  *)
ImportClosureIsHard ==
  \A t \in Selected : \/ reason[t] = "conservative"
                      \/ \E p \in Touched : DependsOn(analysis, t, p)

-----------------------------------------------------------------------------
(***************************************************************************)
(* What the documentation says and the code does not do.                   *)
(***************************************************************************)

(* README.md, soundness table: a file inside a package's directory, such   *)
(* as testdata and fixtures, marks that package dirty.  fileOwner stops at *)
(* the first directory with a Go file in it (selection.go 117-119), which  *)
(* may be a fixture itself.                                                *)
FixtureRowKept ==
  Returned =>
    \A h \in Hunks, f \in DOMAIN analysis.filePkg :
      /\ Outside(h)
      /\ Kind[f] = "go"
      /\ Dir[h.file] # Dir[f]
      /\ Range(Dir[h.file]) \cap FixtureSegs # {}
      /\ Dir[f] = SubSeq(Dir[h.file], 1, Len(Dir[h.file]) - 1)
      => Dependents(analysis.filePkg[f]) \subseteq Selected
=============================================================================
