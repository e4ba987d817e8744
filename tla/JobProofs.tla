------------------------------- MODULE JobProofs -------------------------------
(***************************************************************************)
(* What a job makes of its two readings of the tree, and what its verdict  *)
(* is worth, for any tree, any edits and any failure of its steps.         *)
(*                                                                         *)
(* Both rest on a chain from reading to reading to selection to plan, of   *)
(* which each step of the job adds a link: the invariant has one conjunct  *)
(* per link, for the stages at which it is the last.                       *)
(***************************************************************************)
EXTENDS Job, TLAPS

Stages == {"history", "install", "base", "build", "diff", "modules", "select",
           "write", "tests", "over"}

Typed ==
  /\ world \in Worlds
  /\ DOMAIN tree = Pkgs /\ \A p \in Pkgs : tree[p] \in Source(p)
  /\ stage \in Stages
  /\ DOMAIN spans = Pkgs /\ \A p \in Pkgs : spans[p] \in Source(p)
  /\ loaded \subseteq Pkgs
  /\ seen \subseteq Fns
  /\ verdict \in {"pending", "passed", "failed"}

(* As long as no line of a file was moved, its functions are where they    *)
(* were when Build read it.                                                *)
Fits(p) ==
  /\ DOMAIN spans[p] = DOMAIN tree[p]
  /\ \A i \in DOMAIN tree[p] : spans[p][i].fn = tree[p][i].fn

(* A hunk falls on a line that Build took for one of function f.           *)
Hit(f) ==
  \E h \in hunks : /\ h[1] = PkgOf[f]
                   /\ h[2] \in DOMAIN spans[h[1]]
                   /\ spans[h[1]][h[2]].fn = f

Links ==
  /\ stage = "diff" => \A p \in Pkgs \ moved : Fits(p)
  /\ stage \in {"modules", "select"} => \A f \in seen : PkgOf[f] \notin moved => Hit(f)
  /\ ReadingsAgree

(* On a runner nobody edits, and so the tree is the same at every stage.   *)
OnRunner == world.driver = "action"

ByItself(t) == \* fails, and not for want of compiling
  t \notin Tagged /\ Fails(t) /\ TestPkg[t] \notin NotCompiling

(* A test that fails by itself fails for a line that is in the diff. *)
Blamed(t) ==
  \E f \in Reach[t] \cap world.faulty :
    PkgOf[f] \in loaded /\ PkgOf[f] \notin moved /\ f \in seen

Chain ==
  OnRunner =>
    /\ moved = {}
    /\ stage \in {"diff", "modules", "select", "write", "tests"} =>
         loaded = Pkgs \ NotCompiling
    /\ ~ world.toDefault =>
         /\ stage \in {"modules", "select"} =>
              \A t \in Tests : ByItself(t) => Blamed(t)
         /\ stage \in {"write", "tests"} =>
              \A t \in Tests : ByItself(t) => t \in selected
         /\ stage = "tests" /\ world.run =>
              \A t \in selected : TestPkg[t] \in plan \/ Passes(TestPkg[t])
    /\ stage # "over" => verdict = "pending"
    /\ PassesHonestly

Inv == Typed /\ Links /\ Chain

-----------------------------------------------------------------------------
(***************************************************************************)
(* Sources, and what an edit makes of them.                                *)
(***************************************************************************)
LEMMA LineFacts ==
  ASSUME NEW p \in Pkgs, NEW src \in Source(p), NEW i \in DOMAIN src
  PROVE  /\ src[i].fn \in Fns /\ PkgOf[src[i].fn] = p
         /\ src[i].state \in {"old", "committed", "edited"}
         /\ src[i] = [fn |-> src[i].fn, state |-> src[i].state]
<1>1. src[i] \in {l \in Line : PkgOf[l.fn] = p}
  BY DEF Source
<1> QED BY <1>1 DEF Line

LEMMA LineEdited ==
  ASSUME NEW p \in Pkgs, NEW src \in Source(p), NEW i \in DOMAIN src
  PROVE  LET new == [src EXCEPT ![i].state = "edited"]
         IN  /\ new \in Source(p)
             /\ DOMAIN new = DOMAIN src
             /\ \A j \in DOMAIN src : new[j].fn = src[j].fn
<1> DEFINE S == {l \in Line : PkgOf[l.fn] = p}
           line == [src[i] EXCEPT !.state = "edited"]
           new == [src EXCEPT ![i] = line]
<1>1. /\ src[i].fn \in Fns /\ PkgOf[src[i].fn] = p
      /\ src[i] = [fn |-> src[i].fn, state |-> src[i].state]
  BY LineFacts
<1>2. line \in S /\ line.fn = src[i].fn
  BY <1>1 DEF Line
<1>3. src \in Seq(S)
  BY DEF Source
<1> HIDE DEF S, line
<1>4. new \in Seq(S) /\ DOMAIN new = DOMAIN src
  BY <1>2, <1>3
<1>5. \A j \in DOMAIN src : new[j].fn = src[j].fn
  BY <1>2
<1> QED BY <1>4, <1>5 DEF Source, S, line

LEMMA LineInserted ==
  ASSUME NEW p \in Pkgs, NEW src \in Source(p), NEW i \in DOMAIN src
  PROVE  SubSeq(src, 1, i) \o <<[fn |-> src[i].fn, state |-> "edited"]>>
           \o SubSeq(src, i + 1, Len(src)) \in Source(p)
<1> DEFINE S == {l \in Line : PkgOf[l.fn] = p}
           line == [fn |-> src[i].fn, state |-> "edited"]
<1>1. line \in S
  BY LineFacts DEF Line
<1>2. src \in Seq(S) /\ i \in 1 .. Len(src)
  BY DEF Source
<1> HIDE DEF S, line
<1>3. SubSeq(src, 1, i) \in Seq(S) /\ SubSeq(src, i + 1, Len(src)) \in Seq(S)
  BY <1>2
<1>4. <<line>> \in Seq(S)
  BY <1>1
<1>5. SubSeq(src, 1, i) \o <<line>> \in Seq(S)
  BY <1>3, <1>4
<1>6. (SubSeq(src, 1, i) \o <<line>>) \o SubSeq(src, i + 1, Len(src)) \in Seq(S)
  BY <1>3, <1>5
<1> QED BY <1>6 DEF S, line, Source

-----------------------------------------------------------------------------
(***************************************************************************)
(* Packages and failures.                                                  *)
(***************************************************************************)
LEMMA Still ==
  ASSUME UNCHANGED <<world, tree>>
  PROVE  /\ NotCompiling' = NotCompiling
         /\ OnRunner' <=> OnRunner
         /\ \A t : (Fails(t)' <=> Fails(t)) /\ (ByItself(t)' <=> ByItself(t))
         /\ selected' = selected => \A p : Passes(p)' <=> Passes(p)
BY DEF NotCompiling, OnRunner, Fails, ByItself, Changed, Passes

(* What a package that compiles imports compiles too. *)
LEMMA ImportsCompile ==
  ASSUME NEW p \in Pkgs, p \notin NotCompiling, NEW q \in {p} \cup Deps[p]
  PROVE  q \in Pkgs \ NotCompiling
<1> DEFINE broken == {r \in Pkgs : \E i \in Changed(r) : tree[r][i].fn \in world.uncompilable}
<1>1. NotCompiling = {r \in Pkgs : ({r} \cup Deps[r]) \cap broken # {}}
  BY DEF NotCompiling
<1> HIDE DEF broken
<1>2. q \in Pkgs /\ ({q} \cup Deps[q]) \subseteq ({p} \cup Deps[p])
  BY PackagesAssumption
<1> QED BY <1>1, <1>2

LEMMA TestFacts ==
  ASSUME NEW t \in Tests
  PROVE  /\ TestPkg[t] \in Pkgs
         /\ \A f \in Reach[t] : /\ f \in Fns /\ PkgOf[f] \in Pkgs
                                /\ PkgOf[f] \in {TestPkg[t]} \cup Deps[TestPkg[t]]
BY PackagesAssumption, ReachAssumption

(* A job of the action that has run all of its plan well has not let a     *)
(* failing test through.                                                   *)
LEMMA Honest ==
  ASSUME \A t \in Tests : ByItself(t) => t \in selected,
         \A t \in selected : Passes(TestPkg[t])
  PROVE  \A t \in Tests \ Tagged : Fails(t) => TestPkg[t] \in NotCompiling
BY DEF ByItself, Passes

-----------------------------------------------------------------------------
(***************************************************************************)
(* The steps.                                                              *)
(***************************************************************************)
LEMMA InitInv == Init => Inv
<1> SUFFICES ASSUME Init PROVE Inv
  OBVIOUS
<1>1. /\ world \in Worlds /\ tree = world.tree /\ loaded = {} /\ seen = {} /\ moved = {}
      /\ spans = [p \in Pkgs |-> << >>] /\ verdict = "pending"
      /\ stage \in {"history", "build"}
  BY DEF Init
<1>2. \A p \in Pkgs : << >> \in Source(p)
  BY DEF Source
<1>3. Typed
  BY <1>1, <1>2, WorldsAssumption DEF Typed, Stages
<1>4. Links
  BY <1>1 DEF Links, ReadingsAgree
<1>5. Chain
  BY <1>1 DEF Chain, PassesHonestly
<1> QED BY <1>3, <1>4, <1>5 DEF Inv

LEMMA TypeInv ==
  ASSUME Inv, NEW p \in Pkgs, NEW lines \in Source(p), Type(p, lines),
         stage = "diff" => \/ moved' = moved /\ (Fits(p) => Fits(p)')
                           \/ moved' = moved \cup {p},
         stage # "diff" => moved' = moved
  PROVE  Inv'
<1>1. /\ ~ OnRunner /\ world' = world /\ tree' = [tree EXCEPT ![p] = lines]
      /\ UNCHANGED <<stage, spans, loaded, hunks, selected, plan, verdict, seen>>
  BY DEF Type, OnRunner
<1>2. Typed'
  BY <1>1 DEF Inv, Typed
<1>3. stage = "diff" => \A q \in Pkgs \ moved' : Fits(q)'
  <2> SUFFICES ASSUME stage = "diff", NEW q \in Pkgs \ moved' PROVE Fits(q)'
    OBVIOUS
  <2>1. Fits(q) /\ (q = p => Fits(p)')
    BY DEF Inv, Links
  <2>2. CASE q # p
    <3>1. tree'[q] = tree[q]
      BY <1>1, <2>2 DEF Inv, Typed
    <3> QED BY <1>1, <2>1, <3>1 DEF Fits
  <2> QED BY <2>1, <2>2
<1>4. Links'
  <2>1. stage \in {"modules", "select"} =>
          \A f \in seen : PkgOf[f] \notin moved => Hit(f)'
    BY <1>1 DEF Inv, Links, Hit
  <2>2. ReadingsAgree'
    BY <1>1 DEF Inv, Links, ReadingsAgree, Analysed
  <2> QED BY <1>1, <1>3, <2>1, <2>2 DEF Links
<1>5. Chain'
  BY <1>1 DEF Chain, OnRunner
<1> QED BY <1>2, <1>4, <1>5 DEF Inv

LEMMA ChangeLineInv ==
  ASSUME Inv, NEW p \in Pkgs, NEW i \in DOMAIN tree[p], ChangeLine(p, i) PROVE Inv'
<1> DEFINE lines == [tree[p] EXCEPT ![i].state = "edited"]
<1>1. Type(p, lines) /\ moved' = moved
  BY DEF ChangeLine
<1>2. tree[p] \in Source(p) /\ DOMAIN tree = Pkgs
  BY DEF Inv, Typed
<1>3. /\ lines \in Source(p)
      /\ DOMAIN lines = DOMAIN tree[p]
      /\ \A j \in DOMAIN tree[p] : lines[j].fn = tree[p][j].fn
  BY <1>2, LineEdited
<1> HIDE DEF lines
<1>4. tree'[p] = lines /\ spans' = spans
  BY <1>1, <1>2 DEF Type
<1>5. Fits(p) => Fits(p)'
  BY <1>3, <1>4 DEF Fits
<1> QED BY <1>1, <1>3, <1>5, TypeInv

LEMMA InsertLineInv ==
  ASSUME Inv, NEW p \in Pkgs, NEW i \in DOMAIN tree[p], InsertLine(p, i) PROVE Inv'
<1> DEFINE lines == SubSeq(tree[p], 1, i) \o <<[fn |-> tree[p][i].fn, state |-> "edited"]>>
                      \o SubSeq(tree[p], i + 1, Len(tree[p]))
<1>1. /\ Type(p, lines)
      /\ moved' = IF stage = "diff" THEN moved \cup {p} ELSE moved
  BY DEF InsertLine
<1>2. lines \in Source(p)
  BY LineInserted DEF Inv, Typed
<1> HIDE DEF lines
<1> QED BY <1>1, <1>2, TypeInv

LEMMA StepFailsInv == ASSUME Inv, StepFails PROVE Inv'
<1>1. /\ stage' = "over" /\ verdict' \in {"failed", "passed"}
      /\ OnRunner => verdict' = "failed"
      /\ UNCHANGED <<world, tree, spans, loaded, seen, moved>>
  BY DEF StepFails, OnRunner, Reading
<1>2. Typed'
  BY <1>1 DEF Inv, Typed, Stages
<1>3. Links'
  BY <1>1 DEF Links, ReadingsAgree
<1>4. Chain'
  BY <1>1, Still DEF Inv, Chain, PassesHonestly
<1> QED BY <1>2, <1>3, <1>4 DEF Inv

(* The steps before the first reading. *)
LEMMA SetupInv ==
  ASSUME Inv, CheckHistory \/ Install \/ ResolveBase PROVE Inv'
<1>1. /\ stage' \in {"install", "base", "build"} /\ stage # "over"
      /\ UNCHANGED <<world, tree, spans, loaded, seen, moved, verdict>>
  BY DEF CheckHistory, Install, ResolveBase, Step, Reading
<1>2. Typed'
  BY <1>1 DEF Inv, Typed, Stages
<1>3. Links'
  BY <1>1 DEF Links, ReadingsAgree
<1>4. Chain'
  BY <1>1, Still DEF Inv, Chain, PassesHonestly
<1> QED BY <1>2, <1>3, <1>4 DEF Inv

LEMMA BuildInv == ASSUME Inv, Build PROVE Inv'
<1>1. /\ stage = "build" /\ stage' = "diff"
      /\ spans' = tree /\ loaded' = Pkgs \ NotCompiling
      /\ UNCHANGED <<world, tree, seen, moved, verdict>>
  BY DEF Build, Step
<1>2. Typed'
  BY <1>1 DEF Inv, Typed, Stages
<1>3. \A p \in Pkgs : Fits(p)'
  BY <1>1 DEF Fits
<1>4. Links'
  BY <1>1, <1>3 DEF Links, ReadingsAgree
<1>5. Chain'
  BY <1>1, Still DEF Inv, Chain, PassesHonestly
<1> QED BY <1>2, <1>4, <1>5 DEF Inv

(* What is in the diff of a tree that Build has just read is where Build   *)
(* found it, and what a test fails for by itself is in the diff.           *)
LEMMA ReadDiffInv == ASSUME Inv, ReadDiff PROVE Inv'
<1> DEFINE InHunks(p) == {<<p, i>> : i \in {j \in DOMAIN tree[p] : InDiff(tree[p][j].state)}}
<1>1. /\ stage = "diff" /\ stage' = "modules"
      /\ hunks' = UNION {InHunks(p) : p \in Pkgs}
      /\ seen' = {tree[h[1]][h[2]].fn : h \in hunks'}
      /\ UNCHANGED <<world, tree, spans, loaded, moved, verdict>>
  BY DEF ReadDiff, Step
<1>2. \A p : \A h \in InHunks(p) :
        h[1] = p /\ h[2] \in DOMAIN tree[p] /\ InDiff(tree[p][h[2]].state)
  OBVIOUS
<1>3. \A p, i : i \in DOMAIN tree[p] /\ InDiff(tree[p][i].state) => <<p, i>> \in InHunks(p)
  OBVIOUS
<1> HIDE DEF InHunks
<1>4. \A h \in hunks' : /\ h[1] \in Pkgs /\ h[2] \in DOMAIN tree[h[1]]
                        /\ tree[h[1]][h[2]].fn \in Fns
                        /\ PkgOf[tree[h[1]][h[2]].fn] = h[1]
  <2> TAKE h \in hunks'
  <2>1. PICK p \in Pkgs : h \in InHunks(p)
    BY <1>1
  <2>2. h[1] = p /\ h[2] \in DOMAIN tree[p]
    BY <1>2, <2>1
  <2>3. tree[p] \in Source(p)
    BY DEF Inv, Typed
  <2> QED BY <2>2, <2>3, LineFacts
<1>5. Typed'
  <2>1. seen' \subseteq Fns
    BY <1>1, <1>4
  <2> QED BY <1>1, <2>1 DEF Inv, Typed, Stages
<1>6. Links'
  <2> SUFFICES ASSUME NEW f \in seen', PkgOf[f] \notin moved PROVE Hit(f)'
    BY <1>1 DEF Links, ReadingsAgree
  <2>1. PICK h \in hunks' : f = tree[h[1]][h[2]].fn
    BY <1>1
  <2>2. h[1] = PkgOf[f] /\ h[1] \in Pkgs \ moved /\ h[2] \in DOMAIN tree[h[1]]
    BY <1>4, <2>1
  <2>3. Fits(h[1])
    BY <1>1, <2>2 DEF Inv, Links
  <2>4. h[2] \in DOMAIN spans[h[1]] /\ spans[h[1]][h[2]].fn = f
    BY <2>1, <2>2, <2>3 DEF Fits
  <2> QED BY <1>1, <2>2, <2>4 DEF Hit
<1>7. Chain'
  <2> SUFFICES ASSUME OnRunner
               PROVE  /\ moved' = {} /\ loaded' = Pkgs \ NotCompiling
                      /\ verdict' = "pending"
                      /\ ~ world.toDefault =>
                           \A t \in Tests : ByItself(t) => Blamed(t)'
    BY <1>1, Still DEF Chain, PassesHonestly
  <2>1. moved = {} /\ loaded = Pkgs \ NotCompiling /\ verdict = "pending"
    BY <1>1 DEF Inv, Chain
  <2>2. ASSUME ~ world.toDefault, NEW t \in Tests, ByItself(t) PROVE Blamed(t)'
    <3>1. PICK f \in Reach[t] \cap world.faulty :
            \E i \in Changed(PkgOf[f]) : tree[PkgOf[f]][i].fn = f
      BY <2>2 DEF ByItself, Fails
    <3>2. PICK i \in Changed(PkgOf[f]) : tree[PkgOf[f]][i].fn = f
      BY <3>1
    <3> DEFINE p == PkgOf[f]
    <3>3. p \in Pkgs \ NotCompiling
      BY <2>2, TestFacts, ImportsCompile DEF ByItself
    <3>4. i \in DOMAIN tree[p] /\ tree[p][i].state # "old"
      BY <3>2 DEF Changed
    <3>5. tree[p][i].state \in {"old", "committed", "edited"}
      BY <3>3, <3>4, LineFacts DEF Inv, Typed
    <3>6. InDiff(tree[p][i].state)
      BY <2>2, <3>4, <3>5 DEF InDiff
    <3>7. <<p, i>> \in hunks'
      BY <1>1, <1>3, <3>3, <3>4, <3>6
    <3>8. f \in seen'
      BY <1>1, <3>2, <3>7
    <3> QED BY <1>1, <2>1, <3>3, <3>8 DEF Blamed
  <2> QED BY <1>1, <2>1, <2>2
<1> QED BY <1>5, <1>6, <1>7 DEF Inv

LEMMA ReadModulesInv == ASSUME Inv, ReadModules PROVE Inv'
<1>1. /\ stage = "modules" /\ stage' = "select"
      /\ UNCHANGED <<world, tree, spans, loaded, hunks, seen, moved, verdict>>
  BY DEF ReadModules, Step, Reading
<1>2. Typed'
  BY <1>1 DEF Inv, Typed, Stages
<1>3. Links'
  BY <1>1 DEF Inv, Links, ReadingsAgree, Hit
<1>4. Chain'
  BY <1>1, Still DEF Inv, Chain, PassesHonestly, Blamed
<1> QED BY <1>2, <1>3, <1>4 DEF Inv

(* A test that reaches a function which a hunk falls on is selected. *)
LEMMA HitSelects ==
  ASSUME Select, NEW t \in Analysed, NEW f \in Reach[t], PkgOf[f] \in loaded, Hit(f)
  PROVE  t \in selected'
<1>1. PICK h \in hunks : /\ h[1] = PkgOf[f]
                         /\ h[2] \in DOMAIN spans[h[1]]
                         /\ spans[h[1]][h[2]].fn = f
  BY DEF Hit
<1>2. t \in SelectedBy(h)
  BY <1>1 DEF SelectedBy
<1>3. selected' = UNION {SelectedBy(g) : g \in hunks}
  BY DEF Select
<1> HIDE DEF SelectedBy
<1> QED BY <1>2, <1>3

LEMMA SelectInv == ASSUME Inv, Select PROVE Inv'
<1>1. /\ stage = "select" /\ stage' = "write"
      /\ UNCHANGED <<world, tree, spans, loaded, seen, moved, verdict>>
  BY DEF Select, Step, Reading
<1>2. Typed'
  BY <1>1 DEF Inv, Typed, Stages
<1>3. \A t \in Analysed :
        (\E f \in seen \cap Reach[t] : PkgOf[f] \in loaded \ moved) => t \in selected'
  BY <1>1, HitSelects DEF Inv, Links
<1>4. Links'
  BY <1>1, <1>3 DEF Links, ReadingsAgree, Analysed
<1>5. Chain'
  <2> SUFFICES ASSUME OnRunner, ~ world.toDefault, NEW t \in Tests, ByItself(t)
               PROVE  t \in selected'
    BY <1>1, Still DEF Inv, Chain, PassesHonestly
  <2>1. Blamed(t) /\ loaded = Pkgs \ NotCompiling
    BY <1>1 DEF Inv, Chain
  <2>2. t \in Analysed
    BY <2>1, TestFacts DEF Analysed, ByItself
  <2> QED BY <1>3, <2>1, <2>2 DEF Blamed
<1> QED BY <1>2, <1>4, <1>5 DEF Inv

LEMMA WritePlanInv == ASSUME Inv, WritePlan PROVE Inv'
<1>1. /\ stage = "write" /\ stage' = "tests"
      /\ plan' = {TestPkg[t] : t \in selected}
      /\ UNCHANGED <<world, tree, spans, loaded, seen, moved, verdict, selected>>
  BY DEF WritePlan, Step, Reading
<1>2. Typed'
  BY <1>1 DEF Inv, Typed, Stages
<1>3. Links'
  BY <1>1 DEF Inv, Links, ReadingsAgree, Analysed
<1>4. \A t \in selected : TestPkg[t] \in plan'
  BY <1>1
<1>5. Chain'
  BY <1>1, <1>4, Still DEF Inv, Chain, PassesHonestly
<1> QED BY <1>2, <1>3, <1>5 DEF Inv

(* A runner that goes on after a package has seen it pass. *)
LEMMA RunPackageInv == ASSUME Inv, NEW p \in plan, RunPackage(p) PROVE Inv'
<1>1. /\ stage = "tests" /\ stage' \in {"tests", "over"} /\ plan' = plan \ {p}
      /\ verdict' \in {verdict, "passed", "failed"}
      /\ UNCHANGED <<world, tree, spans, loaded, seen, moved, selected>>
  BY DEF RunPackage, Reading
<1>2. Typed'
  BY <1>1 DEF Inv, Typed, Stages
<1>3. Links'
  BY <1>1 DEF Inv, Links, ReadingsAgree, Analysed
<1>4. Chain'
  <2> SUFFICES ASSUME OnRunner PROVE Chain'
    BY <1>1, Still DEF Chain
  <2>1. /\ moved = {} /\ loaded = Pkgs \ NotCompiling /\ verdict = "pending"
        /\ ~ world.toDefault => \A t \in Tests : ByItself(t) => t \in selected
        /\ ~ world.toDefault /\ world.run =>
             \A t \in selected : TestPkg[t] \in plan \/ Passes(TestPkg[t])
    BY <1>1 DEF Inv, Chain
  <2>2. CASE stage' = "tests"
    <3>1. Passes(p) /\ verdict' = verdict
      BY <2>2 DEF RunPackage, OnRunner
    <3> QED BY <1>1, <2>1, <2>2, <3>1, Still DEF Chain, PassesHonestly
  <2>3. CASE stage' = "over" /\ verdict' = "passed"
    <3>1. Passes(p) /\ plan' = {}
      BY <2>3 DEF RunPackage, OnRunner
    <3>2. world.run /\ ~ world.toDefault => \A t \in selected : Passes(TestPkg[t])
      BY <1>1, <2>1, <3>1
    <3>3. world.run /\ ~ world.toDefault =>
            \A t \in Tests \ Tagged : Fails(t) => TestPkg[t] \in NotCompiling
      BY <2>1, <3>2, Honest
    <3> QED BY <1>1, <2>1, <2>3, <3>3, Still DEF Chain, PassesHonestly
  <2>4. CASE stage' = "over" /\ verdict' # "passed"
    BY <1>1, <2>1, <2>4, Still DEF Chain, PassesHonestly
  <2> QED BY <1>1, <2>2, <2>3, <2>4
<1> QED BY <1>2, <1>3, <1>4 DEF Inv

LEMMA RunNothingInv == ASSUME Inv, RunNothing PROVE Inv'
<1>1. /\ stage = "tests" /\ stage' = "over" /\ verdict' = "passed"
      /\ plan = {} \/ (~ world.run /\ OnRunner)
      /\ UNCHANGED <<world, tree, spans, loaded, seen, moved, selected>>
  BY DEF RunNothing, Step, Reading, Deciding, OnRunner
<1>2. Typed'
  BY <1>1 DEF Inv, Typed, Stages
<1>3. Links'
  BY <1>1 DEF Links, ReadingsAgree
<1>4. Chain'
  <2> SUFFICES ASSUME OnRunner
               PROVE  moved = {} /\ PassesHonestly'
    BY <1>1, Still DEF Chain
  <2>1. /\ moved = {}
        /\ ~ world.toDefault => \A t \in Tests : ByItself(t) => t \in selected
        /\ ~ world.toDefault /\ world.run =>
             \A t \in selected : TestPkg[t] \in plan \/ Passes(TestPkg[t])
    BY <1>1 DEF Inv, Chain
  <2>2. world.run /\ ~ world.toDefault =>
          \A t \in Tests \ Tagged : Fails(t) => TestPkg[t] \in NotCompiling
    BY <1>1, <2>1, Honest
  <2> QED BY <1>1, <2>1, <2>2, Still DEF PassesHonestly
<1> QED BY <1>2, <1>3, <1>4 DEF Inv

LEMMA StutterInv == ASSUME Inv, UNCHANGED vars PROVE Inv'
<1>1. UNCHANGED <<world, tree, stage, spans, loaded, hunks, selected, plan, verdict, seen,
                  moved>>
  BY DEF vars
<1>2. Typed'
  BY <1>1 DEF Inv, Typed
<1>3. Links'
  BY <1>1 DEF Inv, Links, ReadingsAgree, Analysed, Hit, Fits
<1>4. Chain'
  BY <1>1, Still DEF Inv, Chain, PassesHonestly, Blamed
<1> QED BY <1>2, <1>3, <1>4 DEF Inv

-----------------------------------------------------------------------------
(* The links hold all along a job, whatever its steps find and whoever     *)
(* edits meanwhile (main.go:36-91, action.yml:55-166).                     *)
THEOREM Invariance == Spec => []Inv
<1>1. Init => Inv
  BY InitInv
<1>2. Inv /\ [Next]_vars => Inv'
  <2> SUFFICES ASSUME Inv, [Next]_vars PROVE Inv'
    OBVIOUS
  <2>1. CASE StepFails
    BY <2>1, StepFailsInv
  <2>2. CASE CheckHistory \/ Install \/ ResolveBase
    BY <2>2, SetupInv
  <2>3. CASE Build
    BY <2>3, BuildInv
  <2>4. CASE ReadDiff
    BY <2>4, ReadDiffInv
  <2>5. CASE ReadModules
    BY <2>5, ReadModulesInv
  <2>6. CASE Select
    BY <2>6, SelectInv
  <2>7. CASE WritePlan
    BY <2>7, WritePlanInv
  <2>8. ASSUME NEW p \in plan, RunPackage(p) PROVE Inv'
    BY <2>8, RunPackageInv
  <2>9. CASE RunNothing
    BY <2>9, RunNothingInv
  <2>10. CASE Edit
    BY <2>10, ChangeLineInv, InsertLineInv DEF Edit
  <2>11. CASE Over \/ UNCHANGED vars
    BY <2>11, StutterInv DEF Over
  <2> QED BY <2>1, <2>2, <2>3, <2>4, <2>5, <2>6, <2>7, <2>8, <2>9, <2>10, <2>11
          DEF Next, Proceed
<1> QED BY <1>1, <1>2, PTL DEF Spec

(* Of trees of any size, edited any number of times in between: what the   *)
(* diff saw changed is covered by the selection, as long as Build could    *)
(* analyse it and no line of its file was moved after Build had read it    *)
(* (main.go:51-75, selection.go:107-160).                                  *)
THEOREM Readings == Spec => []ReadingsAgree
<1>1. Inv => ReadingsAgree
  BY DEF Inv, Links
<1> QED BY <1>1, Invariance, PTL

(* A green job on a runner that was asked to run the plan, of any change   *)
(* but a push to the base branch, is worth what it says: every test that   *)
(* fails is of a package that does not compile or behind a tag             *)
(* (action.yml:55-166).                                                    *)
THEOREM Honesty == Spec => []PassesHonestly
<1>1. Inv => PassesHonestly
  <2>1. OnRunner => (Inv => PassesHonestly)
    BY DEF Inv, Chain
  <2>2. ~ OnRunner => PassesHonestly
    BY DEF OnRunner, PassesHonestly
  <2> QED BY <2>1, <2>2
<1> QED BY <1>1, Invariance, PTL
==================================================================================
