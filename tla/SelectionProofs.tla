---------------------------- MODULE SelectionProofs ----------------------------
(***************************************************************************)
(* What Select promises holds for every analysis, diff and set of options. *)
(*                                                                         *)
(* The rows of the soundness table speak of the tests that are selected in *)
(* the end, hunk by hunk; the loop goes over the hunks and only leaves     *)
(* marks.  The invariant therefore says that a hunk that is gone has left  *)
(* its mark (Marked), that nothing else has (Grounded), and what has been  *)
(* made of the marks at each stage after the loop (Weighed, Answered).     *)
(***************************************************************************)
EXTENDS Selection, SequenceTheorems, TLAPS

(* What the loop leaves behind of hunk h, whatever comes after it. *)
Marked(h) ==
  /\ Inside(h) => /\ SymbolsOf(h) \subseteq changed
                  /\ SymbolsOf(h) = {} => analysis.filePkg[h.file] \in dirty
  /\ Outside(h) /\ ~ Ignorable(h) =>
       /\ \A p \in Pkgs : OwnerLoaded(analysis, dirs, h.file, p) => p \in dirty
       /\ OwnerUnknown(analysis, dirs, h.file) => h.file \in unresolved
       /\ OwnerUnloaded(analysis, dirs, h.file) => h.file \in ignored

AllMarked == \A h \in Hunks : h \in Range(hunks) \/ Marked(h)

(* Each mark is that of some hunk. *)
Grounded ==
  /\ \A k \in changed : \E h \in Hunks : Inside(h) /\ k \in SymbolsOf(h)
  /\ dirty \subseteq Touched

(* go.mod is not among the unresolved files until the module change is     *)
(* weighed, and then stands for all that may depend on it.                 *)
Weighed ==
  /\ stage = "hunks" => unresolved \subseteq Files
  /\ stage # "hunks" =>
       /\ hunks = << >>
       /\ modAffected = modulePackages(analysis, opts.modules)
       /\ opts.touched /\ (opts.wildcard \/ modAffected = {}) => unresolved # {}

(* The way a selection is answered: by everything, or test by test, once   *)
(* the packages of the boundaries are dirty.                               *)
Settled == ~ MustEscalate /\ Reflected(changed) \subseteq dirty

Answered ==
  /\ stage = "tests" => Settled
  /\ stage = "returned" =>
       \/ reason = [t \in Tests |-> "conservative"]
       \/ Settled /\ reason = [t \in Tests |-> match(t)]
  /\ stage # "returned" => reason = NoReason

Inv == TypeOK /\ AllMarked /\ Grounded /\ Weighed /\ Answered

-----------------------------------------------------------------------------
(***************************************************************************)
(* What the queries promise.                                               *)
(***************************************************************************)

(* Asking for more finds more: neither query has an answer for some keys   *)
(* that it would not have for these and others together.                   *)
LEMMA ConeGrows ==
  ASSUME NEW h, NEW few, NEW many, few \subseteq many
  PROVE  Cone(h, few) \subseteq Cone(h, many)
BY DEF Cone

LEMMA ReachingGrows ==
  ASSUME NEW h, NEW few, NEW many, few \subseteq many
  PROVE  ReachingTests(h, few) \subseteq ReachingTests(h, many)
<1> SUFFICES ASSUME NEW t \in ReachingTests(h, few)
             PROVE  t \in ReachingTests(h, many)
  OBVIOUS
<1>1. PICK pkg \in Groups(h, few) : t \in ReachedFrom(h, few, pkg)
  BY DEF ReachingTests
<1>2. pkg \in Groups(h, many)
  BY <1>1 DEF Groups, NodesOf
<1>3. Cone(h, Seeds(h, few, pkg)) \subseteq Cone(h, Seeds(h, many, pkg))
  <2>1. Seeds(h, few, pkg) \subseteq Seeds(h, many, pkg)
    BY DEF Seeds, NodesOf
  <2> QED BY <2>1, ConeGrows
<1>4. t \in ReachedFrom(h, many, pkg)
  BY <1>1, <1>3 DEF ReachedFrom, TestsIn
<1> QED BY <1>2, <1>4 DEF ReachingTests

LEMMA BoundariesGrow ==
  ASSUME NEW h, NEW few, NEW many, few \subseteq many
  PROVE  BoundaryKeys(h, few) \subseteq BoundaryKeys(h, many)
<1>1. NodesOf(h, few) \subseteq NodesOf(h, many)
  BY DEF NodesOf
<1>2. Cone(h, NodesOf(h, few)) \subseteq Cone(h, NodesOf(h, many))
  BY <1>1, ConeGrows
<1> QED BY <1>2 DEF BoundaryKeys

(* A test is found only if its binary has the package of one of the keys.  *)
LEMMA ReachingIsVisible ==
  ASSUME NEW h, NEW ks, NEW t \in ReachingTests(h, ks)
  PROVE  t \in Tests /\ \E k \in ks : visible(h, t, h.keyPkg[k])
<1>1. PICK pkg \in Groups(h, ks) : t \in ReachedFrom(h, ks, pkg)
  BY DEF ReachingTests
<1>2. PICK n \in NodesOf(h, ks) : pkg = h.keyPkg[h.nodeKey[n]]
  BY DEF Groups
<1>3. h.nodeKey[n] \in ks
  BY <1>2 DEF NodesOf
<1>4. t \in Tests /\ visible(h, t, pkg)
  BY <1>1 DEF ReachedFrom, TestsIn
<1> QED BY <1>2, <1>3, <1>4

LEMMA BoundariesAreKeys ==
  ASSUME NEW h, IsGraph(h), NEW ks
  PROVE  BoundaryKeys(h, ks) \subseteq Keys
<1>1. \A n \in Nodes(h) : h.nodeKey[n] \in Keys
  BY DEF IsGraph
<1> QED BY <1>1 DEF BoundaryKeys, Cone

-----------------------------------------------------------------------------
(***************************************************************************)
(* What the questions asked of a hunk depend on.                           *)
(***************************************************************************)

(* Everything that is said of a hunk is said of what Select was given. *)
LEMMA Given ==
  ASSUME UNCHANGED given
  PROVE  /\ Hunks' = Hunks
         /\ Touched' = Touched
         /\ g' = g
         /\ \A h : /\ Inside(h)' <=> Inside(h)
                   /\ Outside(h)' <=> Outside(h)
                   /\ Ignorable(h)' <=> Ignorable(h)
                   /\ SymbolsOf(h)' = SymbolsOf(h)
BY DEF given, Hunks, Touched, TouchedBy, g, Inside, Outside, Ignorable, SymbolsOf

LEMMA InputFacts ==
  ASSUME TypeOK
  PROVE  /\ IsAnalysis(analysis)
         /\ Hunks \subseteq [file : Files, first : Nat, last : Nat]
         /\ hunks \in Seq(Hunks)
<1>1. diff \in Seq([file : Files, first : Nat, last : Nat])
  BY DiffsAssumption DEF TypeOK
<1>2. Range(diff) \subseteq [file : Files, first : Nat, last : Nat]
  BY <1>1, RangeOfSeq
<1> QED BY <1>2, AnalysesAssumption DEF TypeOK, Hunks

(* The keys a hunk lands on are keys of the graph, and a declaration       *)
(* resolves to at least one of them.                                       *)
LEMMA SymbolsAreKeys ==
  ASSUME TypeOK, NEW h \in Hunks, Inside(h)
  PROVE  /\ SymbolsOf(h) \subseteq Keys
         /\ analysis.filePkg[h.file] \in Pkgs
         /\ SymbolsOf(h) = {} <=> HitKeys(analysis, h) = {} /\ ~ Resolvable(analysis, h)
<1> DEFINE a == analysis
<1>1. IsAnalysis(a) /\ h.file \in DOMAIN a.filePkg
  BY InputFacts DEF Inside, Owned
<1>2. HitKeys(a, h) \subseteq Keys
  BY <1>1 DEF IsAnalysis, HitKeys
<1>3. DeclsHit(a, h) \subseteq DeclKeys
  BY <1>1 DEF IsAnalysis, DeclsHit
<1>4. \A k \in DeclKeys : a.declRefs[k] \subseteq Keys
  BY <1>1 DEF IsAnalysis
<1>5. Referencing(a, h) \subseteq Keys
  BY <1>3, <1>4 DEF Referencing
<1>6. Resolvable(a, h) => Referencing(a, h) # {}
  BY DEF Resolvable, Referencing
<1>7. a.filePkg[h.file] \in Pkgs
  BY <1>1 DEF IsAnalysis
<1> QED BY <1>2, <1>5, <1>6, <1>7 DEF SymbolsOf

(* Of the directories above a file only one is the nearest that says       *)
(* something, so the file has one owner at most.                           *)
LEMMA NearestIsUnique ==
  ASSUME NEW a, NEW ix, NEW f \in Files, NEW d, NEW e,
         Nearest(a, ix, f, d), Nearest(a, ix, f, e)
  PROVE  d = e
<1>1. Dir[f] \in Seq(Range(Dir[f]))
  BY FilesAssumption
<1>2. PICK m \in 0 .. Len(Dir[f]) : d = SubSeq(Dir[f], 1, m)
  BY DEF Nearest, Decisive, Climb
<1>3. PICK n \in 0 .. Len(Dir[f]) : e = SubSeq(Dir[f], 1, n)
  BY DEF Nearest, Decisive, Climb
<1>4. Len(d) = m /\ Len(e) = n
  BY <1>1, <1>2, <1>3
<1>5. Len(d) <= Len(e) /\ Len(e) <= Len(d)
  BY DEF Nearest
<1> QED BY <1>2, <1>3, <1>4, <1>5

LEMMA OwnerIsUnique ==
  ASSUME NEW a, NEW ix, NEW f \in Files
  PROVE  /\ \A p, q : OwnerLoaded(a, ix, f, p) /\ OwnerLoaded(a, ix, f, q) => p = q
         /\ \A p : OwnerLoaded(a, ix, f, p) =>
              ~ OwnerUnloaded(a, ix, f) /\ ~ OwnerUnknown(a, ix, f)
         /\ ~ (OwnerUnloaded(a, ix, f) /\ OwnerUnknown(a, ix, f))
<1>1. \A d, e : Nearest(a, ix, f, d) /\ Nearest(a, ix, f, e) => d = e
  BY NearestIsUnique
<1>2. \A p, q : OwnerLoaded(a, ix, f, p) /\ OwnerLoaded(a, ix, f, q) => p = q
  BY <1>1 DEF OwnerLoaded
<1>3. \A p : OwnerLoaded(a, ix, f, p) =>
        ~ OwnerUnloaded(a, ix, f) /\ ~ OwnerUnknown(a, ix, f)
  BY <1>1 DEF OwnerLoaded, OwnerUnloaded, OwnerUnknown
<1> QED BY <1>2, <1>3 DEF OwnerUnknown

-----------------------------------------------------------------------------
(***************************************************************************)
(* The loop over the hunks.                                                *)
(***************************************************************************)

(* Marks are only added, and so a hunk that has left its mark keeps it.    *)
LEMMA MarkStays ==
  ASSUME UNCHANGED given, NEW h, Marked(h),
         changed \subseteq changed', dirty \subseteq dirty',
         unresolved \subseteq unresolved', ignored \subseteq ignored'
  PROVE  Marked(h)'
<1>1. /\ Inside(h)' <=> Inside(h)
      /\ Outside(h)' <=> Outside(h)
      /\ Ignorable(h)' <=> Ignorable(h)
      /\ SymbolsOf(h)' = SymbolsOf(h)
  BY Given
<1>2. analysis' = analysis /\ dirs' = dirs
  BY DEF given
<1> QED BY <1>1, <1>2 DEF Marked

(* Once round the loop: it remains to say of each branch that it marks its *)
(* hunk, and that it marks nothing else.                                   *)
LEMMA Round ==
  ASSUME Inv, NEW h \in Hunks, Take(h),
         changed \subseteq changed', dirty \subseteq dirty',
         unresolved \subseteq unresolved', ignored \subseteq ignored',
         changed' \subseteq Keys, dirty' \subseteq Pkgs,
         unresolved' \subseteq unresolved \cup {h.file},
         ignored' \subseteq ignored \cup {h.file},
         Marked(h)', Grounded'
  PROVE  Inv'
<1>1. UNCHANGED given /\ Hunks' = Hunks
  BY Given DEF Take
<1>2. /\ hunks \in Seq(Hunks) /\ hunks # << >> /\ h = Head(hunks) /\ hunks' = Tail(hunks)
      /\ stage = "hunks" /\ stage' = stage /\ UNCHANGED results
  BY DEF Take, Inv, TypeOK
<1>3. hunks' \in Seq(Hunks) /\ Range(hunks) = {h} \cup Range(hunks')
  <2>1. <<h>> \in Seq(Hunks) /\ hunks' \in Seq(Hunks) /\ hunks = <<h>> \o hunks'
    BY <1>2
  <2>2. Range(<<h>>) = {h}
    BY DEF Range
  <2>3. \A s, r \in Seq(Hunks) : Range(s \o r) = Range(s) \cup Range(r)
    BY RangeConcatenation
  <2> QED BY <2>1, <2>2, <2>3
<1>4. h.file \in Files /\ unresolved \subseteq Files /\ ignored \subseteq Files
  BY <1>2, InputFacts DEF Inv, TypeOK, Weighed
<1>5. TypeOK'
  BY <1>1, <1>2, <1>3, <1>4 DEF Inv, TypeOK, given, results
<1>6. AllMarked'
  <2> SUFFICES ASSUME NEW i \in Hunks, i \notin Range(hunks')
               PROVE  Marked(i)'
    BY <1>1 DEF AllMarked
  <2>1. CASE i = h
    BY <2>1
  <2>2. CASE i # h
    <3>1. Marked(i)
      BY <1>3, <2>2 DEF Inv, AllMarked
    <3> QED BY <1>1, <3>1, MarkStays
  <2> QED BY <2>1, <2>2
<1>7. Weighed' /\ Answered'
  BY <1>2, <1>4 DEF Inv, Weighed, Answered, NoReason, results
<1> QED BY <1>5, <1>6, <1>7 DEF Inv

(* A step that adds no mark adds no mark without a hunk; one that adds     *)
(* marks of its hunk does not either.                                      *)
LEMMA GroundedByHunk ==
  ASSUME Inv, NEW h \in Hunks, UNCHANGED given,
         \A k \in changed' : k \in changed \/ (Inside(h) /\ k \in SymbolsOf(h)),
         dirty' \subseteq dirty \cup TouchedBy(h)
  PROVE  Grounded'
<1>1. /\ Hunks' = Hunks
      /\ Touched' = Touched
      /\ \A i : (Inside(i)' <=> Inside(i)) /\ SymbolsOf(i)' = SymbolsOf(i)
  BY Given
<1>2. TouchedBy(h) \subseteq Touched
  BY DEF Touched
<1>3. dirty' \subseteq Touched'
  BY <1>1, <1>2 DEF Inv, Grounded
<1>4. \A k \in changed' : \E i \in Hunks : Inside(i) /\ k \in SymbolsOf(i)
  BY DEF Inv, Grounded
<1> QED BY <1>1, <1>3, <1>4 DEF Grounded

LEMMA MarksTyped ==
  ASSUME Inv, NEW h \in Hunks
  PROVE  /\ changed \subseteq Keys /\ dirty \subseteq Pkgs
         /\ h.file \in Files
         /\ ~ (Inside(h) /\ Outside(h))
         /\ IsModuleFile(h.file) => ~ Inside(h) /\ ~ Outside(h)
BY InputFacts DEF Inv, TypeOK, Inside, Outside

LEMMA SkipModuleFileInv == ASSUME Inv, NEW h \in Hunks, SkipModuleFile(h) PROVE Inv'
<1>1. Take(h) /\ UNCHANGED given /\ UNCHANGED marks /\ ~ Inside(h) /\ ~ Outside(h)
  BY MarksTyped DEF SkipModuleFile, Take
<1>2. Marked(h)'
  BY <1>1, Given DEF Marked
<1>3. Grounded'
  BY <1>1, GroundedByHunk DEF marks
<1> QED BY <1>1, <1>2, <1>3, MarksTyped, Round DEF marks

LEMMA IgnoreNonBehavioralInv ==
  ASSUME Inv, NEW h \in Hunks, IgnoreNonBehavioral(h) PROVE Inv'
<1>1. Take(h) /\ UNCHANGED given /\ ~ Inside(h) /\ Ignorable(h)
  BY MarksTyped DEF IgnoreNonBehavioral, Take
<1>2. UNCHANGED <<changed, dirty, unresolved>> /\ ignored' = ignored \cup {h.file}
  BY DEF IgnoreNonBehavioral
<1>3. Marked(h)'
  BY <1>1, Given DEF Marked
<1>4. Grounded'
  BY <1>1, <1>2, GroundedByHunk
<1> QED BY <1>1, <1>2, <1>3, <1>4, MarksTyped, Round

LEMMA DirtyOwnerInv == ASSUME Inv, NEW h \in Hunks, DirtyOwner(h) PROVE Inv'
<1>1. Take(h) /\ UNCHANGED given /\ ~ Inside(h) /\ Outside(h)
  BY MarksTyped DEF DirtyOwner, Take
<1>2. PICK pkg \in Pkgs : /\ OwnerLoaded(analysis, dirs, h.file, pkg)
                          /\ dirty' = dirty \cup {pkg}
  BY DEF DirtyOwner
<1>3. UNCHANGED <<changed, unresolved, ignored>>
  BY DEF DirtyOwner
<1>4. /\ \A p \in Pkgs : OwnerLoaded(analysis, dirs, h.file, p) => p = pkg
      /\ ~ OwnerUnknown(analysis, dirs, h.file)
      /\ ~ OwnerUnloaded(analysis, dirs, h.file)
  BY <1>2, MarksTyped, OwnerIsUnique
<1>5. Marked(h)'
  <2>1. analysis' = analysis /\ dirs' = dirs
    BY <1>1 DEF given
  <2> QED BY <1>1, <1>2, <1>4, <2>1, Given DEF Marked
<1>6. pkg \in TouchedBy(h)
  BY <1>1, <1>2 DEF TouchedBy
<1>7. Grounded'
  BY <1>1, <1>2, <1>3, <1>6, GroundedByHunk
<1> QED BY <1>1, <1>2, <1>3, <1>5, <1>7, MarksTyped, Round

LEMMA IgnoreUnloadedInv == ASSUME Inv, NEW h \in Hunks, IgnoreUnloaded(h) PROVE Inv'
<1>1. Take(h) /\ UNCHANGED given /\ ~ Inside(h)
  BY MarksTyped DEF IgnoreUnloaded, Take
<1>2. UNCHANGED <<changed, dirty, unresolved>> /\ ignored' = ignored \cup {h.file}
  BY DEF IgnoreUnloaded
<1>3. /\ \A p \in Pkgs : ~ OwnerLoaded(analysis, dirs, h.file, p)
      /\ ~ OwnerUnknown(analysis, dirs, h.file)
  BY MarksTyped, OwnerIsUnique DEF IgnoreUnloaded
<1>4. Marked(h)'
  <2>1. analysis' = analysis /\ dirs' = dirs
    BY <1>1 DEF given
  <2> QED BY <1>1, <1>2, <1>3, <2>1, Given DEF Marked
<1>5. Grounded'
  BY <1>1, <1>2, GroundedByHunk
<1> QED BY <1>1, <1>2, <1>4, <1>5, MarksTyped, Round

LEMMA LeaveUnresolvedInv == ASSUME Inv, NEW h \in Hunks, LeaveUnresolved(h) PROVE Inv'
<1>1. Take(h) /\ UNCHANGED given /\ ~ Inside(h)
  BY MarksTyped DEF LeaveUnresolved, Take
<1>2. UNCHANGED <<changed, dirty, ignored>> /\ unresolved' = unresolved \cup {h.file}
  BY DEF LeaveUnresolved
<1>3. /\ \A p \in Pkgs : ~ OwnerLoaded(analysis, dirs, h.file, p)
      /\ ~ OwnerUnloaded(analysis, dirs, h.file)
  BY MarksTyped, OwnerIsUnique DEF LeaveUnresolved
<1>4. Marked(h)'
  <2>1. analysis' = analysis /\ dirs' = dirs
    BY <1>1 DEF given
  <2> QED BY <1>1, <1>2, <1>3, <2>1, Given DEF Marked
<1>5. Grounded'
  BY <1>1, <1>2, GroundedByHunk
<1> QED BY <1>1, <1>2, <1>4, <1>5, MarksTyped, Round

(* The two ways a hunk changes symbols. *)
LEMMA SymbolsInv ==
  ASSUME Inv, NEW h \in Hunks, Take(h), Inside(h), SymbolsOf(h) # {},
         changed' = changed \cup SymbolsOf(h),
         UNCHANGED <<dirty, unresolved, ignored>>
  PROVE  Inv'
<1>1. UNCHANGED given /\ ~ Outside(h)
  BY MarksTyped DEF Take
<1>2. SymbolsOf(h) \subseteq Keys
  BY SymbolsAreKeys DEF Inv
<1>3. Marked(h)'
  BY <1>1, Given DEF Marked
<1>4. Grounded'
  BY <1>1, GroundedByHunk
<1> QED BY <1>2, <1>3, <1>4, MarksTyped, Round

LEMMA HitFunctionsInv == ASSUME Inv, NEW h \in Hunks, HitFunctions(h) PROVE Inv'
<1>1. SymbolsOf(h) = HitKeys(analysis, h) /\ HitKeys(analysis, h) # {}
  BY DEF HitFunctions, SymbolsOf
<1> QED BY <1>1, SymbolsInv DEF HitFunctions

LEMMA ResolveDeclInv == ASSUME Inv, NEW h \in Hunks, ResolveDecl(h) PROVE Inv'
<1>1. SymbolsOf(h) = Referencing(analysis, h)
  BY DEF ResolveDecl, SymbolsOf
<1>2. SymbolsOf(h) # {}
  BY SymbolsAreKeys DEF Inv, ResolveDecl
<1> QED BY <1>1, <1>2, SymbolsInv DEF ResolveDecl

LEMMA DirtyPackageInv == ASSUME Inv, NEW h \in Hunks, DirtyPackage(h) PROVE Inv'
<1> DEFINE pkg == analysis.filePkg[h.file]
<1>1. Take(h) /\ UNCHANGED given /\ Inside(h) /\ ~ Outside(h)
  BY MarksTyped DEF DirtyPackage, Take
<1>2. UNCHANGED <<changed, unresolved, ignored>> /\ dirty' = dirty \cup {pkg}
  BY DEF DirtyPackage
<1>3. SymbolsOf(h) = {} /\ pkg \in Pkgs
  BY <1>1, SymbolsAreKeys DEF Inv, DirtyPackage
<1>4. Marked(h)'
  <2>1. analysis' = analysis
    BY <1>1 DEF given
  <2> QED BY <1>1, <1>2, <1>3, <2>1, Given DEF Marked
<1>5. pkg \in TouchedBy(h)
  BY <1>1, <1>3 DEF TouchedBy
<1>6. Grounded'
  BY <1>1, <1>2, <1>5, GroundedByHunk
<1> QED BY <1>1, <1>2, <1>3, <1>4, <1>6, MarksTyped, Round

-----------------------------------------------------------------------------
(***************************************************************************)
(* After the loop.  The hunks are all marked by then, and stay so.         *)
(***************************************************************************)
LEMMA MarksStay ==
  ASSUME Inv, stage' # "hunks", UNCHANGED <<given, hunks>>,
         changed' = changed, dirty \subseteq dirty',
         unresolved \subseteq unresolved', ignored' = ignored,
         dirty' \subseteq dirty \cup Reflected(changed)
  PROVE  AllMarked' /\ Grounded'
<1>1. /\ Hunks' = Hunks /\ Touched' = Touched
      /\ \A h : (Inside(h)' <=> Inside(h)) /\ SymbolsOf(h)' = SymbolsOf(h)
  BY Given
<1>2. AllMarked'
  BY <1>1, MarkStays DEF Inv, AllMarked
<1>3. Reflected(changed) \subseteq {g.keyPkg[k] : k \in changed}
  BY DEF Reflected
<1>4. {g.keyPkg[k] : k \in changed} \subseteq Touched
  <2> SUFFICES ASSUME NEW k \in changed PROVE g.keyPkg[k] \in Touched
    OBVIOUS
  <2>1. PICK h \in Hunks : Inside(h) /\ k \in SymbolsOf(h)
    BY DEF Inv, Grounded
  <2>2. g.keyPkg[k] \in TouchedBy(h)
    BY <2>1 DEF TouchedBy
  <2> QED BY <2>2 DEF Touched
<1>5. dirty' \subseteq Touched'
  BY <1>1, <1>3, <1>4 DEF Inv, Grounded
<1> QED BY <1>1, <1>2, <1>5 DEF Inv, Grounded

LEMMA WeighModulesInv == ASSUME Inv, WeighModules PROVE Inv'
<1>1. /\ stage = "hunks" /\ stage' = "modules" /\ hunks = << >> /\ UNCHANGED <<given, hunks>>
      /\ UNCHANGED <<changed, dirty, ignored, orphans, reason>>
      /\ reported' = unresolved
      /\ modAffected' = modulePackages(analysis, opts.modules)
      /\ unresolved \subseteq unresolved'
      /\ unresolved' \subseteq unresolved \cup {"go.mod"}
      /\ opts.touched /\ (opts.wildcard \/ modAffected' = {}) => "go.mod" \in unresolved'
  BY DEF WeighModules
<1>2. AllMarked' /\ Grounded'
  BY <1>1, MarksStay
<1>3. modulePackages(analysis, opts.modules) \subseteq Pkgs
  BY InputFacts DEF Inv, IsAnalysis, modulePackages
<1>4. Weighed' /\ Answered'
  BY <1>1 DEF Inv, Weighed, Answered, NoReason, given
<1>5. TypeOK'
  BY <1>1, <1>3, Given DEF Inv, TypeOK, Weighed, given
<1> QED BY <1>2, <1>4, <1>5 DEF Inv

LEMMA EscalateInv == ASSUME Inv, Escalate PROVE Inv'
<1>1. /\ stage = "modules" /\ stage' = "returned" /\ UNCHANGED <<given, hunks>>
      /\ UNCHANGED <<changed, dirty, unresolved, ignored, reported, modAffected, orphans>>
      /\ reason' = [t \in Tests |-> "conservative"]
  BY DEF Escalate, marks
<1>2. AllMarked' /\ Grounded'
  BY <1>1, MarksStay
<1>3. Weighed' /\ Answered'
  BY <1>1 DEF Inv, Weighed, Answered, given
<1>4. TypeOK'
  BY <1>1, Given DEF Inv, TypeOK, given
<1> QED BY <1>2, <1>3, <1>4 DEF Inv

LEMMA AskBoundariesInv == ASSUME Inv, AskBoundaries PROVE Inv'
<1>1. /\ stage = "modules" /\ stage' = "tests" /\ ~ MustEscalate
      /\ UNCHANGED <<given, hunks, changed, unresolved, ignored, reported, modAffected, reason>>
      /\ orphans' = {k \in BoundaryKeys(g, changed) : g.keyPkg[k] \in changedPkgs}
      /\ dirty' = dirty \cup {g.keyPkg[k] : k \in orphans'}
  BY DEF AskBoundaries
<1>2. {g.keyPkg[k] : k \in orphans'} = Reflected(changed)
  BY <1>1 DEF Reflected, changedPkgs
<1>3. AllMarked' /\ Grounded'
  BY <1>1, <1>2, MarksStay DEF given
<1>4. Settled'
  BY <1>1, <1>2, Given DEF Settled, MustEscalate, Reflected, given
<1>5. Weighed' /\ Answered'
  BY <1>1, <1>4 DEF Inv, Weighed, Answered, NoReason, given
<1>6. TypeOK'
  <2>1. IsGraph(g)
    BY InputFacts DEF Inv, IsAnalysis, g
  <2>2. orphans' \subseteq Keys
    BY <1>1, <2>1, BoundariesAreKeys
  <2>3. changed \subseteq Keys
    BY DEF Inv, TypeOK
  <2>4. Reflected(changed) \subseteq Pkgs
    BY <2>1, <2>3 DEF Reflected, IsGraph
  <2> QED BY <1>1, <1>2, <2>2, <2>4, Given DEF Inv, TypeOK, given
<1> QED BY <1>3, <1>5, <1>6 DEF Inv

LEMMA MatchTestsInv == ASSUME Inv, MatchTests PROVE Inv'
<1>1. /\ stage = "tests" /\ stage' = "returned" /\ UNCHANGED <<given, hunks>>
      /\ UNCHANGED <<changed, dirty, unresolved, ignored, reported, modAffected, orphans>>
      /\ reason' = [t \in Tests |-> match(t)]
  BY DEF MatchTests, marks
<1>2. AllMarked' /\ Grounded'
  BY <1>1, MarksStay
<1>3. \A t : match(t)' = match(t)
  BY <1>1, Given DEF match, given
<1>4. Settled'
  BY <1>1, Given DEF Inv, Answered, Settled, MustEscalate, Reflected, given
<1>5. Weighed' /\ Answered'
  BY <1>1, <1>3, <1>4 DEF Inv, Weighed, Answered, given
<1>6. TypeOK'
  <2>1. reason' \in [Tests -> {"none", "symbol", "package", "module", "conservative"}]
    BY <1>1 DEF match
  <2> QED BY <1>1, <2>1, Given DEF Inv, TypeOK, given
<1> QED BY <1>2, <1>5, <1>6 DEF Inv

-----------------------------------------------------------------------------
LEMMA InitInv == Init => Inv
<1> SUFFICES ASSUME Init PROVE Inv
  OBVIOUS
<1>1. /\ analysis \in Analyses /\ diff \in Diffs /\ dirs \in DirIndexes(analysis)
      /\ hunks = diff /\ stage = "hunks" /\ reason = NoReason
      /\ {changed, dirty, unresolved, ignored, reported, modAffected, orphans} = {{}}
  BY DEF Init, Analyses, Diffs
<1>2. diff \in Seq(Hunks)
  <2>1. diff \in Seq([file : Files, first : Nat, last : Nat])
    BY <1>1, DiffsAssumption
  <2>2. \A i \in 1 .. Len(diff) : diff[i] \in Hunks
    BY <2>1 DEF Hunks, Range
  <2> QED BY <2>1, <2>2
<1>3. TypeOK
  BY <1>1, <1>2 DEF TypeOK, NoReason
<1>4. AllMarked /\ Grounded /\ Weighed /\ Answered
  BY <1>1 DEF AllMarked, Grounded, Weighed, Answered, Hunks
<1> QED BY <1>3, <1>4 DEF Inv

LEMMA StutterInv == ASSUME Inv, UNCHANGED vars PROVE Inv'
<1>1. /\ UNCHANGED given
      /\ UNCHANGED <<hunks, stage, changed, dirty, unresolved, ignored, reported,
                     modAffected, orphans, reason>>
  BY DEF vars, given
<1>2. TypeOK'
  BY <1>1, Given DEF Inv, TypeOK, given
<1>3. AllMarked'
  BY <1>1, Given, MarkStays DEF Inv, AllMarked
<1>4. Grounded'
  BY <1>1, Given DEF Inv, Grounded
<1>5. Settled' <=> Settled
  BY <1>1, Given DEF Settled, MustEscalate, Reflected, given
<1>6. \A t : match(t)' = match(t)
  BY <1>1, Given DEF match, given
<1>7. Weighed' /\ Answered'
  BY <1>1, <1>5, <1>6 DEF Inv, Weighed, Answered, given
<1> QED BY <1>2, <1>3, <1>4, <1>7 DEF Inv

(* Inv is inductive: through the loop over the hunks and the steps after   *)
(* it, marks are kept and made of what was hit (selection.go 215-374).     *)
THEOREM Invariance == Spec => []Inv
<1>1. Init => Inv
  BY InitInv
<1>2. Inv /\ [Next]_vars => Inv'
  <2> SUFFICES ASSUME Inv, [Next]_vars PROVE Inv'
    OBVIOUS
  <2>1. ASSUME NEW h \in Hunks,
               \/ SkipModuleFile(h) \/ IgnoreNonBehavioral(h) \/ DirtyOwner(h)
               \/ IgnoreUnloaded(h) \/ LeaveUnresolved(h)
               \/ HitFunctions(h) \/ ResolveDecl(h) \/ DirtyPackage(h)
        PROVE  Inv'
    BY <2>1, SkipModuleFileInv, IgnoreNonBehavioralInv, DirtyOwnerInv, IgnoreUnloadedInv,
       LeaveUnresolvedInv, HitFunctionsInv, ResolveDeclInv, DirtyPackageInv
  <2>2. CASE WeighModules
    BY <2>2, WeighModulesInv
  <2>3. CASE Escalate
    BY <2>3, EscalateInv
  <2>4. CASE AskBoundaries
    BY <2>4, AskBoundariesInv
  <2>5. CASE MatchTests
    BY <2>5, MatchTestsInv
  <2>6. CASE Return \/ UNCHANGED vars
    BY <2>6, StutterInv DEF Return
  <2> QED BY <2>1, <2>2, <2>3, <2>4, <2>5, <2>6 DEF Next, Hunks
<1> QED BY <1>1, <1>2, PTL DEF Spec

-----------------------------------------------------------------------------
(***************************************************************************)
(* From the marks to the tests.                                            *)
(***************************************************************************)

(* A test is selected if all are, or if a mark reaches it. *)
LEMMA SelectedByMarks ==
  ASSUME Inv, Returned
  PROVE  \/ Selected = Tests
         \/ /\ Settled
            /\ ReachingTests(g, changed) \subseteq Selected
            /\ \A p \in dirty \cup modAffected : Dependents(p) \subseteq Selected
<1>1. CASE reason = [t \in Tests |-> "conservative"]
  BY <1>1 DEF Selected
<1>2. CASE Settled /\ reason = [t \in Tests |-> match(t)]
  <2>1. Selected = {t \in Tests : match(t) # "none"}
    BY <1>2 DEF Selected
  <2>2. \A t \in ReachingTests(g, changed) : t \in Tests /\ match(t) # "none"
    BY ReachingIsVisible DEF match
  <2>3. \A p \in dirty \cup modAffected : \A t \in Dependents(p) :
          t \in Tests /\ match(t) # "none"
    BY DEF Dependents, match
  <2> QED BY <1>2, <2>1, <2>2, <2>3
<1> QED BY <1>1, <1>2 DEF Inv, Answered, Returned

(* More symbols call for more tests. *)
LEMMA CalledForGrows ==
  ASSUME NEW few, NEW many, few \subseteq many
  PROVE  CalledForBy(few) \subseteq CalledForBy(many)
<1>1. ReachingTests(g, few) \subseteq ReachingTests(g, many)
  BY ReachingGrows
<1>2. Reflected(few) \subseteq Reflected(many)
  BY BoundariesGrow DEF Reflected
<1> QED BY <1>1, <1>2 DEF CalledForBy

(* The state of Select keeps to its types, and nothing but go.mod is ever  *)
(* unresolved that is not a file of the diff (selection.go 215-374).       *)
THEOREM TypeCorrect == Spec => []TypeOK
<1>1. Inv => TypeOK
  BY DEF Inv
<1> QED BY <1>1, Invariance, PTL

(* A hunk in an analysed file gets the tests of its functions or, if there *)
(* is none in it, of the users of each of its declarations, or of all that *)
(* depends on its package, whatever else is in the diff (selection.go      *)
(* 289-315, 346-401).                                                      *)
THEOREM SymbolRows == Spec => []SymbolRowsKept
<1>1. ASSUME Inv, Returned, NEW h \in Hunks, Inside(h)
      PROVE  /\ CalledForBy(SymbolsOf(h)) \subseteq Selected
             /\ SymbolsOf(h) = {} => Dependents(analysis.filePkg[h.file]) \subseteq Selected
  <2> DEFINE ks == SymbolsOf(h)
  <2>1. Marked(h)
    <3>1. Range(hunks) = {}
      BY <1>1 DEF Inv, Weighed, Returned, Range
    <3> QED BY <1>1, <3>1 DEF Inv, AllMarked
  <2>2. ks \subseteq changed /\ (ks = {} => analysis.filePkg[h.file] \in dirty)
    BY <1>1, <2>1 DEF Marked
  <2>3. CASE Selected = Tests
    BY <2>3, ReachingIsVisible DEF CalledForBy, Dependents
  <2>4. CASE /\ Settled
             /\ ReachingTests(g, changed) \subseteq Selected
             /\ \A p \in dirty \cup modAffected : Dependents(p) \subseteq Selected
    <3> HIDE DEF ks
    <3>1. ReachingTests(g, ks) \subseteq Selected
      BY <2>2, <2>4, ReachingGrows
    <3>2. Reflected(ks) \subseteq Reflected(changed)
      BY <2>2, BoundariesGrow DEF Reflected
    <3>3. Reflected(ks) \subseteq dirty
      BY <2>4, <3>2 DEF Settled
    <3>4. CalledForBy(ks) \subseteq Selected
      BY <2>4, <3>1, <3>3 DEF CalledForBy
    <3> QED BY <2>2, <2>4, <3>4 DEF ks
  <2> QED BY <1>1, <2>3, <2>4, SelectedByMarks
<1>2. ASSUME Inv, Returned, NEW h \in Hunks, Inside(h), HitKeys(analysis, h) # {}
      PROVE  CalledForBy(HitKeys(analysis, h)) \subseteq Selected
  BY <1>1, <1>2 DEF SymbolsOf
<1>3. ASSUME Inv, Returned, NEW h \in Hunks, Inside(h), HitKeys(analysis, h) = {},
             Resolvable(analysis, h), NEW d \in DeclsHit(analysis, h)
      PROVE  CalledForBy(analysis.declRefs[d]) \subseteq Selected
  <2>1. SymbolsOf(h) = Referencing(analysis, h)
    BY <1>3 DEF SymbolsOf
  <2>2. CalledForBy(Referencing(analysis, h)) \subseteq Selected
    BY <1>1, <1>3, <2>1
  <2>3. analysis.declRefs[d] \subseteq Referencing(analysis, h)
    BY DEF Referencing
  <2> QED BY <2>2, <2>3, CalledForGrows
<1>4. ASSUME Inv, Returned, NEW h \in Hunks, Inside(h), HitKeys(analysis, h) = {},
             ~ Resolvable(analysis, h)
      PROVE  Dependents(analysis.filePkg[h.file]) \subseteq Selected
  BY <1>1, <1>4 DEF SymbolsOf
<1>5. CalledForBy({}) = {}
  <2>1. NodesOf(g, {}) = {}
    BY DEF NodesOf
  <2>2. ReachingTests(g, {}) = {}
    BY <2>1 DEF ReachingTests, Groups
  <2> QED BY <2>2 DEF CalledForBy, Reflected
<1>6. ASSUME Inv, Returned, NEW h \in Hunks, Inside(h)
      PROVE  /\ CalledForBy(HitKeys(analysis, h)) \subseteq Selected
             /\ HitKeys(analysis, h) = {} =>
                  LET own == Dependents(analysis.filePkg[h.file])
                  IN  /\ \A d \in DeclsHit(analysis, h) :
                            CalledForBy(analysis.declRefs[d]) \cap own \subseteq Selected
                      /\ (\A d \in DeclsHit(analysis, h) : analysis.declRefs[d] # {})
                           \/ own \subseteq Selected
                      /\ DeclsHit(analysis, h) = {} => own \subseteq Selected
  <2>1. CASE HitKeys(analysis, h) # {}
    BY <1>2, <1>6, <2>1
  <2>2. CASE HitKeys(analysis, h) = {} /\ Resolvable(analysis, h)
    <3>1. CalledForBy(HitKeys(analysis, h)) = {}
      BY <1>5, <2>2
    <3>2. /\ DeclsHit(analysis, h) # {}
          /\ \A d \in DeclsHit(analysis, h) : analysis.declRefs[d] # {}
      BY <2>2 DEF Resolvable
    <3>3. \A d \in DeclsHit(analysis, h) :
            CalledForBy(analysis.declRefs[d]) \subseteq Selected
      BY <1>3, <1>6, <2>2
    <3> QED BY <3>1, <3>2, <3>3
  <2>3. CASE HitKeys(analysis, h) = {} /\ ~ Resolvable(analysis, h)
    <3>1. CalledForBy(HitKeys(analysis, h)) = {}
      BY <1>5, <2>3
    <3>2. Dependents(analysis.filePkg[h.file]) \subseteq Selected
      BY <1>4, <1>6, <2>3
    <3> QED BY <3>1, <3>2
  <2> QED BY <2>1, <2>2, <2>3
<1>7. Inv => SymbolRowsKept
  BY <1>6 DEF SymbolRowsKept
<1> QED BY <1>7, Invariance, PTL

(* A file outside of the analysis dirties the package it lies with, is     *)
(* ignored with a package that was not loaded, or else runs everything     *)
(* under -safe, whichever way dirIndex went (selection.go 262-290).        *)
THEOREM FileRows == Spec => []FileRowsKept
<1>1. ASSUME Inv, Returned, NEW h \in Hunks, Outside(h), ~ Ignorable(h)
      PROVE  /\ \A p \in Pkgs :
                   OwnerLoaded(analysis, dirs, h.file, p) => Dependents(p) \subseteq Selected
             /\ OwnerUnknown(analysis, dirs, h.file) /\ opts.conservativeOnUnresolved
                   => Selected = Tests
             /\ OwnerUnloaded(analysis, dirs, h.file) => h.file \in ignored
  <2>1. Marked(h)
    <3>1. Range(hunks) = {}
      BY <1>1 DEF Inv, Weighed, Returned, Range
    <3> QED BY <1>1, <3>1 DEF Inv, AllMarked
  <2>2. /\ \A p \in Pkgs : OwnerLoaded(analysis, dirs, h.file, p) => p \in dirty
        /\ OwnerUnknown(analysis, dirs, h.file) => unresolved # {}
        /\ OwnerUnloaded(analysis, dirs, h.file) => h.file \in ignored
    BY <1>1, <2>1 DEF Marked
  <2>3. \A p : Dependents(p) \subseteq Tests
    BY DEF Dependents
  <2>4. Settled /\ opts.conservativeOnUnresolved => unresolved = {}
    BY DEF Settled, MustEscalate
  <2> QED BY <1>1, <2>2, <2>3, <2>4, SelectedByMarks
<1>2. Inv => FileRowsKept
  BY <1>1 DEF FileRowsKept
<1> QED BY <1>2, Invariance, PTL

(* A change of go.mod or go.sum selects the tests of all packages that     *)
(* import a changed module, and under -safe everything if none does or the *)
(* change is not about modules (selection.go 317-333, 393-399).            *)
THEOREM DependencyRow == Spec => []DependencyRowKept
<1>1. ASSUME Inv, Returned, opts.touched
      PROVE  /\ \A t \in Tests :
                  (\E q \in {g.testPkg[t]} \cup g.pkgDeps[g.testPkg[t]] :
                      inMod(analysis, q, opts.modules)) => t \in Selected
             /\ opts.conservativeOnUnresolved
                  /\ (opts.wildcard \/ modulePackages(analysis, opts.modules) = {})
                  => Selected = Tests
  <2>1. /\ modAffected = modulePackages(analysis, opts.modules)
        /\ opts.wildcard \/ modAffected = {} => unresolved # {}
    BY <1>1 DEF Inv, Weighed, Returned
  <2>2. Settled /\ opts.conservativeOnUnresolved => unresolved = {}
    BY DEF Settled, MustEscalate
  <2>3. ASSUME NEW t \in Tests,
               NEW q \in {g.testPkg[t]} \cup g.pkgDeps[g.testPkg[t]],
               inMod(analysis, q, opts.modules)
        PROVE  t \in Selected
    <3>1. g.testPkg[t] \in analysis.loaded
      BY <1>1, InputFacts DEF Inv, IsAnalysis, g
    <3>2. g.testPkg[t] \in modAffected
      BY <2>1, <2>3, <3>1 DEF modulePackages, g
    <3>3. t \in Dependents(g.testPkg[t])
      BY DEF Dependents, DependsOn, visible, g
    <3> QED BY <1>1, <3>2, <3>3, SelectedByMarks
  <2> QED BY <1>1, <2>1, <2>2, <2>3, SelectedByMarks
<1>2. Inv => DependencyRowKept
  BY <1>1 DEF DependencyRowKept
<1> QED BY <1>2, Invariance, PTL

(* Whatever the call graph holds, a test whose package imports none of     *)
(* those the diff touched is not selected, unless everything is (graph.go  *)
(* 322-325, selection.go 346-401).                                         *)
THEOREM HardFilter == Spec => []ImportClosureIsHard
<1>1. ASSUME Inv, NEW t \in Selected, reason[t] # "conservative"
      PROVE  \E p \in Touched : DependsOn(analysis, t, p)
  <2>1. t \in Tests /\ reason[t] # "none"
    BY DEF Selected
  <2>2. stage = "returned" /\ reason[t] = match(t) /\ match(t) # "none"
    BY <1>1, <2>1 DEF Inv, Answered, NoReason
  <2>3. \A k \in changed : g.keyPkg[k] \in Touched
    <3> SUFFICES ASSUME NEW k \in changed PROVE g.keyPkg[k] \in Touched
      OBVIOUS
    <3>1. PICK h \in Hunks : Inside(h) /\ k \in SymbolsOf(h)
      BY <1>1 DEF Inv, Grounded
    <3>2. g.keyPkg[k] \in TouchedBy(h)
      BY <3>1 DEF TouchedBy
    <3> QED BY <3>2 DEF Touched
  <2>4. dirty \subseteq Touched /\ modAffected \subseteq Touched
    <3>1. dirty \subseteq Touched
      BY <1>1 DEF Inv, Grounded
    <3>2. modAffected = modulePackages(analysis, opts.modules)
      BY <1>1, <2>2 DEF Inv, Weighed
    <3> QED BY <3>1, <3>2 DEF Touched
  <2>5. CASE t \in ReachingTests(g, changed)
    BY <2>3, <2>5, ReachingIsVisible DEF DependsOn, g
  <2>6. CASE \E p \in dirty \cup modAffected : DependsOn(analysis, t, p)
    BY <2>4, <2>6
  <2> QED BY <2>2, <2>5, <2>6 DEF match
<1>2. Inv => ImportClosureIsHard
  BY <1>1 DEF ImportClosureIsHard
<1> QED BY <1>2, Invariance, PTL
=============================================================================
