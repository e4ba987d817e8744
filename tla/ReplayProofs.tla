------------------------------ MODULE ReplayProofs ------------------------------
(***************************************************************************)
(* What a replay reports is right, for any history, any set of tests and   *)
(* any failure of its steps.                                               *)
(*                                                                         *)
(* A result is made up in r over several steps, and only its last step     *)
(* puts it among the results; what has to hold of a result therefore has   *)
(* to hold of r before (AtHand), as far as it has come.                    *)
(***************************************************************************)
EXTENDS Replay, FiniteSetTheorems, TLAPS

Stages == {"commit", "build", "diff", "select", "suite", "parent", "before", "record",
           "aggregate", "done"}

(* What the fields of a result say of its own commit. *)
Right(x) ==
  /\ x.read \subseteq {x.commit}
  /\ x.conservative => x.selected = Tests
  /\ x.verified =>
       /\ x.failing = world.fails[x.commit] \
                        (IF mode.baseline THEN world.fails[x.commit + 1] ELSE {})
       /\ x.missed = x.failing \ x.selected
       /\ ~ x.conservative => x.selected = world.selects[x.commit]

(* A commit that asked went by the cache. *)
Explained(x) == x.held # {} => (x.conservative <=> TRUE \notin goDirCache)

(* If none of the first n results asked before x did, the cache has what x *)
(* found: Go files of the commit, or what littered the worktree.           *)
Decided(x, n) ==
  x.held # {} /\ (\A j \in 1 .. n : results[j].held = {}) =>
    (TRUE \in goDirCache <=> TRUE \in x.held \/ x.littered)

(* Where the loop is: which commit is at hand, where the worktree is, and  *)
(* how much of the result there is.                                        *)
AtHand ==
  /\ stage \in Stages
  /\ replayed \in Nat /\ skipped \in Nat
  /\ results \in Seq(Result)
  /\ leftover \in BOOLEAN
  /\ failAt \in SUBSET Tests
  /\ r.commit = Len(results) + 1
  /\ stage \in {"aggregate", "done"} => r.commit = world.last + 1
  /\ stage \notin {"aggregate", "done"} => r.commit \in 1 .. world.last
  /\ stage \in {"build", "diff", "select", "suite", "parent"} => tree = r.commit
  /\ stage = "before" => tree = r.commit + 1
  /\ stage \in {"parent", "before"} => mode.baseline /\ failAt = world.fails[r.commit]
  /\ stage # "record" => ~ r.verified /\ r.skipped = "no"
  /\ stage \in {"suite", "parent", "before"} /\ ~ r.conservative =>
       r.selected = world.selects[r.commit]
  /\ Right(r)

AllRight == \A i \in DOMAIN results : Right(results[i])

(* The cache keeps the answer of the commit that asked first. *)
Remembered ==
  /\ goDirCache \in SUBSET BOOLEAN
  /\ \E b \in BOOLEAN : goDirCache \subseteq {b}
  /\ stage \notin {"suite", "parent", "before", "record"} => r.held = {}
  /\ goDirCache = {} => r.held = {} /\ \A i \in DOMAIN results : results[i].held = {}
  /\ goDirCache # {} => r.held # {} \/ \E i \in DOMAIN results : results[i].held # {}
  /\ Explained(r) /\ Decided(r, Len(results))
  /\ \A i \in DOMAIN results : Explained(results[i]) /\ Decided(results[i], i - 1)

OutcomeRight ==
  /\ stage # "done" => outcome = "pending"
  /\ outcome = "nil" => recallViolations = 0
  /\ outcome = "recall" => recallViolations > 0

Inv == TypeOK /\ AtHand /\ AllRight /\ Remembered /\ OutcomeRight
-----------------------------------------------------------------------------
LEMMA WorldTyped ==
  ASSUME NEW w \in Worlds
  PROVE  /\ w.last \in Nat \ {0}
         /\ w.fails \in [1 .. w.last + 1 -> SUBSET Tests]
         /\ w.selects \in [1 .. w.last + 1 -> SUBSET Tests]
BY WorldsAssumption DEF Trees

LEMMA FreshTyped ==
  ASSUME NEW c \in Nat
  PROVE  /\ Fresh(c) \in Result
         /\ Fresh(c).commit = c /\ Fresh(c).held = {}
         /\ ~ Fresh(c).verified /\ Fresh(c).skipped = "no" /\ ~ Fresh(c).conservative
         /\ Fresh(c).read = {}
BY DEF Fresh, Result

(* One answer at most is in the cache. *)
LEMMA OneAnswer ==
  ASSUME NEW S, NEW b, S \subseteq {b}
  PROVE  Cardinality(S) <= 1
<1>1. S = {} \/ S = {b}
  OBVIOUS
<1>2. Cardinality({}) = 0 /\ Cardinality({b}) = 1
  BY FS_EmptySet, FS_Singleton
<1> QED BY <1>1, <1>2

-----------------------------------------------------------------------------
LEMMA InitInv == Init => Inv
<1> SUFFICES ASSUME Init PROVE Inv
  OBVIOUS
<1>1. /\ world \in Worlds /\ mode \in Modes /\ stage = "commit" /\ tree = 1
      /\ goDirCache = {} /\ r = Fresh(1) /\ failAt = {} /\ results = << >>
      /\ replayed = 0 /\ skipped = 0 /\ outcome = "pending"
  BY DEF Init
<1>2. leftover \in BOOLEAN
  BY DEF Init
<1>3. world.last \in Nat \ {0} /\ 1 \in 1 .. world.last /\ 1 \in 1 .. world.last + 1
  BY <1>1, WorldTyped
<1>4. r \in Result /\ r.commit = 1 /\ r.held = {} /\ ~ r.verified /\ ~ r.conservative
      /\ r.skipped = "no" /\ r.read = {}
  BY <1>1, FreshTyped
<1>5. TypeOK
  <2>1. Cardinality(goDirCache) <= 1
    BY <1>1, FS_EmptySet
  <2>2. tree \in Trees(world)
    BY <1>1, <1>3 DEF Trees
  <2> QED BY <1>1, <1>2, <1>4, <2>1, <2>2 DEF TypeOK
<1>6. AtHand
  <2>1. Right(r)
    BY <1>4 DEF Right
  <2> QED BY <1>1, <1>2, <1>3, <1>4, <2>1 DEF AtHand, Stages
<1>7. AllRight /\ OutcomeRight
  BY <1>1 DEF AllRight, OutcomeRight
<1>8. Remembered
  <2>1. goDirCache \in SUBSET BOOLEAN /\ goDirCache \subseteq {TRUE}
    BY <1>1
  <2>2. \E b \in BOOLEAN : goDirCache \subseteq {b}
    BY <2>1
  <2>3. DOMAIN results = {}
    BY <1>1
  <2> QED BY <1>1, <1>4, <2>1, <2>2, <2>3 DEF Remembered, Explained, Decided
<1> QED BY <1>5, <1>6, <1>7, <1>8 DEF Inv

-----------------------------------------------------------------------------
(* A result that is right and explained may join the others. *)
LEMMA Recorded ==
  ASSUME Inv, stage \notin {"aggregate", "done"},
         NEW x \in Result, x.commit = r.commit, x.held = r.held,
         Right(x), Explained(x), Decided(x, Len(results)),
         results' = Append(results, x), NextCommit,
         replayed' \in Nat, skipped' \in Nat,
         replayed' + skipped' = replayed + skipped + 1,
         UNCHANGED <<given, tree, leftover, goDirCache, failAt, outcome>>
  PROVE  Inv'
<1> USE DEF given
<1>1. /\ results \in Seq(Result) /\ replayed \in Nat /\ skipped \in Nat
      /\ Len(results) = replayed + skipped /\ r.commit = Len(results) + 1
      /\ world.last \in Nat \ {0} /\ r.commit \in 1 .. world.last
  BY WorldTyped DEF Inv, AtHand, TypeOK
<1>2. /\ results' \in Seq(Result) /\ Len(results') = Len(results) + 1
      /\ \A i \in DOMAIN results : results'[i] = results[i]
      /\ results'[Len(results) + 1] = x
      /\ DOMAIN results = 1 .. Len(results) /\ DOMAIN results' = 1 .. Len(results) + 1
  BY <1>1
<1>3. /\ r' = Fresh(r.commit + 1)
      /\ stage' = IF r.commit = world.last THEN "aggregate" ELSE "commit"
  BY DEF NextCommit
<1>4. /\ r' \in Result /\ r'.commit = r.commit + 1 /\ r'.held = {}
      /\ ~ r'.verified /\ ~ r'.conservative /\ r'.skipped = "no" /\ r'.read = {}
  BY <1>1, <1>3, FreshTyped
<1>5. TypeOK'
  <2>1. \A i \in DOMAIN results' : results'[i] \in Result /\ results'[i].commit = i
    <3>1. \A i \in DOMAIN results : results[i] \in Result /\ results[i].commit = i
      BY DEF Inv, TypeOK
    <3> QED BY <1>1, <1>2, <3>1
  <2>2. outcome' \in {"pending", "nil", "recall", "unwritten"}
    BY DEF Inv, TypeOK
  <2>3. /\ world' \in Worlds /\ mode' \in Modes /\ tree' \in Trees(world') /\ leftover' \in BOOLEAN
        /\ Cardinality(goDirCache') <= 1
    BY DEF Inv, TypeOK
  <2>4. Len(results') = replayed' + skipped'
    BY <1>1, <1>2
  <2> QED BY <1>4, <2>1, <2>2, <2>3, <2>4 DEF TypeOK
<1>6. AtHand'
  <2>1. stage' \in Stages
    BY <1>3 DEF Stages
  <2>2. stage' \in {"aggregate", "done"} => r'.commit = world'.last + 1
    BY <1>3, <1>4
  <2>3. stage' \notin {"aggregate", "done"} => r'.commit \in 1 .. world'.last
    BY <1>1, <1>3, <1>4
  <2>4. Right(r)'
    BY <1>4 DEF Right
  <2> QED BY <1>1, <1>2, <1>3, <1>4, <2>1, <2>2, <2>3, <2>4 DEF Inv, AtHand
<1>7. AllRight'
  BY <1>2 DEF Inv, AllRight, Right
<1>8. Remembered'
  <2>1. goDirCache = {} => \A i \in DOMAIN results' : results'[i].held = {}
    BY <1>1, <1>2 DEF Inv, Remembered
  <2>2. goDirCache # {} => \E i \in DOMAIN results' : results'[i].held # {}
    <3>1. CASE r.held # {}
      BY <1>1, <1>2, <3>1
    <3>2. CASE \E i \in DOMAIN results : results[i].held # {}
      BY <1>1, <1>2, <3>2
    <3> QED BY <3>1, <3>2 DEF Inv, Remembered
  <2>3. \A i \in DOMAIN results' : Explained(results[i])' /\ Decided(results[i], i - 1)'
    <3> SUFFICES ASSUME NEW i \in DOMAIN results'
                 PROVE  Explained(results[i])' /\ Decided(results[i], i - 1)'
      OBVIOUS
    <3>1. \A j \in 1 .. i - 1 : results'[j] = results[j]
      BY <1>1, <1>2
    <3>2. CASE i \in DOMAIN results
      <4>1. Explained(results[i]) /\ Decided(results[i], i - 1)
        BY <3>2 DEF Inv, Remembered
      <4> QED BY <1>2, <3>1, <3>2, <4>1 DEF Explained, Decided
    <3>3. CASE i = Len(results) + 1
      <4>1. Len(results) \in Nat
        BY <1>1
      <4>2. i - 1 = Len(results)
        BY <3>3, <4>1
      <4>3. results'[i] = x
        BY <1>2, <3>3
      <4>4. \A j \in 1 .. Len(results) : results'[j] = results[j]
        BY <1>2
      <4> QED BY <4>2, <4>3, <4>4 DEF Explained, Decided
    <3> QED BY <1>2, <3>2, <3>3
  <2> QED BY <1>4, <2>1, <2>2, <2>3 DEF Inv, Remembered, Explained, Decided
<1>9. OutcomeRight'
  BY <1>3 DEF Inv, OutcomeRight
<1> QED BY <1>5, <1>6, <1>7, <1>8, <1>9 DEF Inv

LEMMA SkipInv ==
  ASSUME Inv, UNCHANGED given, stage \in {"commit", "build", "diff"},
         NEW reason \in {"noParent", "checkout", "analysis",
                         "diff", "modules"},
         skip(reason)
  PROVE  Inv'
<1> DEFINE x == [r EXCEPT !.skipped = reason]
<1>1. r \in Result /\ Right(r) /\ Explained(r) /\ Decided(r, Len(results))
  BY DEF Inv, TypeOK, AtHand, Remembered
<1>2. x \in Result /\ x.commit = r.commit /\ x.held = r.held
  BY <1>1 DEF Result
<1>3. Right(x)
  BY <1>1 DEF Right, Result
<1>4. Explained(x) /\ Decided(x, Len(results))
  BY <1>1 DEF Explained, Decided, Result
<1>5. results' = Append(results, x) /\ skipped' = skipped + 1 /\ replayed' = replayed /\ NextCommit
      /\ UNCHANGED <<given, tree, leftover, goDirCache, failAt, outcome>>
  BY DEF skip, given
<1>6. skipped' = skipped + 1 /\ replayed' = replayed
  BY <1>5
<1>7. replayed' \in Nat /\ skipped' \in Nat /\ replayed' + skipped' = replayed + skipped + 1
  <2>1. replayed \in Nat /\ skipped \in Nat
    BY DEF Inv, AtHand
  <2> QED BY <1>6, <2>1
<1> HIDE DEF x
<1> QED BY <1>2, <1>3, <1>4, <1>5, <1>7, Recorded

LEMMA RecordInv == Inv /\ Record => Inv'
<1> SUFFICES ASSUME Inv, Record PROVE Inv'
  OBVIOUS
<1>1. /\ stage = "record" /\ results' = Append(results, r) /\ NextCommit
      /\ UNCHANGED <<given, tree, leftover, goDirCache, failAt, outcome>>
  BY DEF Record, At
<1>2. replayed' = replayed + 1 /\ skipped' = skipped
  BY DEF Record
<1>3. r \in Result /\ Right(r) /\ Explained(r) /\ Decided(r, Len(results))
      /\ replayed \in Nat /\ skipped \in Nat
  BY DEF Inv, TypeOK, AtHand, Remembered
<1>4. replayed' \in Nat /\ skipped' \in Nat /\ replayed' + skipped' = replayed + skipped + 1
  BY <1>2, <1>3
<1> QED BY <1>1, <1>3, <1>4, Recorded

-----------------------------------------------------------------------------
(* A step that records nothing and asks nothing only has to see to what    *)
(* is at hand.                                                             *)
LEMMA NotRecorded ==
  ASSUME Inv, stage # "done", AtHand',
         r' \in Result, r'.held = r.held, r'.littered = r.littered,
         r'.conservative = r.conservative,
         stage' \notin {"suite", "parent", "before", "record"} =>
           stage \notin {"suite", "parent", "before", "record"},
         tree' \in Trees(world),
         UNCHANGED <<given, goDirCache, sum, outcome>>
  PROVE  Inv'
<1> USE DEF given, sum
<1>1. TypeOK'
  <2>1. /\ world' \in Worlds /\ mode' \in Modes /\ tree' \in Trees(world')
        /\ Cardinality(goDirCache') <= 1 /\ Len(results') = replayed' + skipped'
    BY DEF Inv, TypeOK
  <2>2. \A i \in DOMAIN results' : results'[i] \in Result /\ results'[i].commit = i
    BY DEF Inv, TypeOK
  <2>3. outcome' \in {"pending", "nil", "recall", "unwritten"}
    BY DEF Inv, TypeOK
  <2>4. leftover' \in BOOLEAN
    BY DEF AtHand
  <2> QED BY <2>1, <2>2, <2>3, <2>4 DEF TypeOK
<1>2. AllRight'
  BY DEF Inv, AllRight, Right
<1>3. Remembered'
  <2>1. \A i \in DOMAIN results' : Explained(results[i])' /\ Decided(results[i], i - 1)'
    BY DEF Inv, Remembered, Explained, Decided
  <2>2. Explained(r)' /\ Decided(r, Len(results))'
    BY DEF Inv, Remembered, Explained, Decided
  <2> QED BY <2>1, <2>2 DEF Inv, Remembered
<1>4. OutcomeRight'
  BY DEF Inv, OutcomeRight
<1> QED BY <1>1, <1>2, <1>3, <1>4 DEF Inv

LEMMA CommitTyped ==
  ASSUME Inv, stage \notin {"aggregate", "done"}
  PROVE  /\ r.commit \in Trees(world) /\ r.commit + 1 \in Trees(world) /\ r.commit \in Nat
         /\ world.fails[r.commit] \in SUBSET Tests
         /\ world.fails[r.commit + 1] \in SUBSET Tests
         /\ world.selects[r.commit] \in SUBSET Tests
<1>1. r.commit \in 1 .. world.last /\ world \in Worlds
  BY DEF Inv, AtHand, TypeOK
<1>2. r.commit \in 1 .. world.last + 1 /\ r.commit + 1 \in 1 .. world.last + 1 /\ r.commit \in Nat
  BY <1>1, WorldTyped
<1> QED BY <1>1, <1>2, WorldTyped DEF Trees

LEMMA CheckoutInv == Inv /\ Checkout => Inv'
<1> SUFFICES ASSUME Inv, Checkout PROVE Inv'
  OBVIOUS
<1>1. /\ stage = "commit" /\ stage' = "build" /\ tree' = r.commit
      /\ UNCHANGED <<given, leftover, goDirCache, r, failAt, sum, outcome>>
  BY DEF Checkout, At
<1>2. AtHand'
  BY <1>1 DEF Inv, AtHand, Right, given, sum, Stages
<1>3. r' \in Result /\ tree' \in Trees(world)
  BY <1>1, CommitTyped DEF Inv, TypeOK
<1> QED BY <1>1, <1>2, <1>3, NotRecorded

LEMMA BuildInv == Inv /\ Build => Inv'
<1> SUFFICES ASSUME Inv, Build PROVE Inv'
  OBVIOUS
<1>1. /\ stage = "build" /\ stage' = "diff" /\ r' = [r EXCEPT !.read = {tree}]
      /\ UNCHANGED <<given, tree, leftover, goDirCache, failAt, sum, outcome>>
  BY DEF Build, At
<1>2. r \in Result /\ tree = r.commit /\ tree \in Nat /\ tree \in Trees(world)
  BY <1>1, CommitTyped DEF Inv, TypeOK, AtHand
<1>3. /\ r' \in Result /\ r'.read = {r.commit} /\ r'.commit = r.commit
      /\ r'.held = r.held /\ r'.littered = r.littered
      /\ r'.conservative = r.conservative /\ r'.selected = r.selected
      /\ r'.verified = r.verified /\ r'.skipped = r.skipped
  BY <1>1, <1>2 DEF Result
<1>4. Right(r)'
  BY <1>1, <1>3 DEF Inv, AtHand, Right
<1>5. AtHand'
  BY <1>1, <1>2, <1>3, <1>4 DEF Inv, AtHand, given, sum, Stages
<1> QED BY <1>1, <1>2, <1>3, <1>5, NotRecorded

LEMMA DiffInv == Inv /\ Diff => Inv'
<1> SUFFICES ASSUME Inv, Diff PROVE Inv'
  OBVIOUS
<1>1. /\ stage = "diff" /\ stage' = "select" /\ r' = [r EXCEPT !.read = @ \cup {tree}]
      /\ UNCHANGED <<given, tree, leftover, goDirCache, failAt, sum, outcome>>
  BY DEF Diff, At
<1>2. r \in Result /\ tree = r.commit /\ tree \in Nat /\ tree \in Trees(world)
  BY <1>1, CommitTyped DEF Inv, TypeOK, AtHand
<1>3. /\ r' \in Result /\ r'.read = r.read \cup {r.commit} /\ r'.commit = r.commit
      /\ r'.held = r.held /\ r'.littered = r.littered
      /\ r'.conservative = r.conservative /\ r'.selected = r.selected
      /\ r'.verified = r.verified /\ r'.skipped = r.skipped
  BY <1>1, <1>2 DEF Result
<1>4. Right(r)'
  BY <1>1, <1>3 DEF Inv, AtHand, Right
<1>5. AtHand'
  BY <1>1, <1>2, <1>3, <1>4 DEF Inv, AtHand, given, sum, Stages
<1> QED BY <1>1, <1>2, <1>3, <1>5, NotRecorded

(* The answer in the cache is the one that was given when it was asked for *)
(* first, by an earlier commit if not by this one.                         *)
LEMMA SelectInv == Inv /\ Select => Inv'
<1> SUFFICES ASSUME Inv, Select PROVE Inv'
  OBVIOUS
<1> DEFINE asked == tree \in world.fixture
           escalates == asked /\ ~ hasGoFiles
<1>1. /\ stage = "select" /\ stage' = IF mode.verify THEN "suite" ELSE "record"
      /\ goDirCache' = IF asked THEN {hasGoFiles} ELSE goDirCache
      /\ r' = [r EXCEPT !.read = @ \cup {tree},
                        !.held = IF asked THEN {OwnGo} ELSE {},
                        !.littered = asked /\ leftover,
                        !.conservative = escalates,
                        !.selected = IF escalates THEN Tests ELSE world.selects[tree]]
      /\ UNCHANGED <<given, tree, leftover, failAt, sum, outcome>>
  BY DEF Select, At
<1>2. /\ OwnGo \in BOOLEAN /\ HoldsGo \in BOOLEAN /\ hasGoFiles \in BOOLEAN
      /\ escalates \in BOOLEAN /\ (asked /\ leftover) \in BOOLEAN
  <2>1. HoldsGo \in BOOLEAN
    BY Zenon DEF HoldsGo
  <2>2. OwnGo \in BOOLEAN
    BY DEF OwnGo
  <2>3. hasGoFiles \in BOOLEAN
    <3>1. CASE goDirCache = {}
      BY <2>1, <3>1 DEF hasGoFiles
    <3>2. CASE goDirCache # {}
      <4>1. hasGoFiles = (TRUE \in goDirCache)
        BY <3>2 DEF hasGoFiles
      <4>2. (TRUE \in goDirCache) \in BOOLEAN
        OBVIOUS
      <4> QED BY <4>1, <4>2
    <3> QED BY <3>1, <3>2
  <2> QED BY <2>1, <2>2, <2>3
<1>3. r \in Result /\ tree = r.commit /\ tree \in Nat /\ world.selects[tree] \in SUBSET Tests
  BY <1>1, CommitTyped DEF Inv, TypeOK, AtHand
<1>4. /\ r' \in Result /\ r'.held = (IF asked THEN {OwnGo} ELSE {})
      /\ r'.littered = (asked /\ leftover)
      /\ r'.conservative = escalates
      /\ r'.selected = (IF escalates THEN Tests ELSE world.selects[r.commit])
      /\ r'.commit = r.commit /\ r'.read = r.read \cup {r.commit}
      /\ r'.verified = r.verified /\ r'.skipped = r.skipped
  <2> HIDE DEF asked, escalates
  <2> QED BY <1>1, <1>2, <1>3 DEF Result
<1>5. TypeOK'
  <2>1. Cardinality(goDirCache') <= 1
    BY <1>1, OneAnswer DEF Inv, TypeOK
  <2> QED BY <1>1, <1>4, <2>1 DEF Inv, TypeOK, AtHand, given, sum
<1>6. AtHand'
  <2>1. Right(r)'
    BY <1>1, <1>4 DEF Inv, AtHand, Right
  <2> QED BY <1>1, <1>4, <2>1 DEF Inv, AtHand, given, sum, Stages
<1>7. AllRight'
  BY <1>1 DEF Inv, AllRight, Right, given, sum
<1>8. Remembered'
  <2>1. goDirCache' \in SUBSET BOOLEAN /\ \E b \in BOOLEAN : goDirCache' \subseteq {b}
    BY <1>1, <1>2 DEF Inv, Remembered
  <2>2. stage' \in {"suite", "record"} /\ results' = results /\ r.held = {}
    BY <1>1 DEF Inv, Remembered, sum
  <2>3. goDirCache' = {} => r'.held = {} /\ \A i \in DOMAIN results' : results'[i].held = {}
    BY <1>1, <1>4, <2>2 DEF Inv, Remembered
  <2>4. ASSUME goDirCache = {}, asked
        PROVE  /\ Explained(r)' /\ Decided(r, Len(results))'
               /\ r'.held # {}
               /\ \A i \in DOMAIN results' : Explained(results[i])' /\ Decided(results[i], i - 1)'
    <3>1. hasGoFiles = HoldsGo
      BY <2>4 DEF hasGoFiles
    <3>2. /\ r'.held = {OwnGo} /\ goDirCache' = {HoldsGo} /\ r'.conservative = ~ HoldsGo
          /\ r'.littered <=> leftover
      <4>1. r'.held = {OwnGo} /\ goDirCache' = {HoldsGo}
        BY <1>1, <1>4, <2>4, <3>1
      <4>2. r'.conservative = ~ HoldsGo
        BY <1>2, <1>4, <2>4, <3>1
      <4>3. r'.littered <=> leftover
        BY <1>4, <2>4, Zenon
      <4> QED BY <4>1, <4>2, <4>3
    <3>3. TRUE \in goDirCache' <=> HoldsGo
      BY <1>2, <3>2
    <3>4. TRUE \in r'.held <=> OwnGo
      BY <1>2, <3>2
    <3>5. Explained(r)'
      BY <3>2, <3>3, Zenon DEF Explained
    <3>6. Decided(r, Len(results))'
      BY <3>2, <3>3, <3>4, Zenon DEF Decided, HoldsGo
    <3>7. \A i \in DOMAIN results' : results'[i].held = {}
      BY <2>2, <2>4 DEF Inv, Remembered
    <3> QED BY <3>2, <3>5, <3>6, <3>7 DEF Explained, Decided
  <2>5. ASSUME goDirCache # {}
        PROVE  /\ Explained(r)' /\ Decided(r, Len(results))'
               /\ \E i \in DOMAIN results' : results'[i].held # {}
               /\ \A i \in DOMAIN results' : Explained(results[i])' /\ Decided(results[i], i - 1)'
    <3>1. goDirCache' = goDirCache /\ (asked => hasGoFiles = (TRUE \in goDirCache))
      BY <1>1, <1>2, <2>5 DEF Inv, Remembered, hasGoFiles
    <3>2. \E i \in DOMAIN results' : results'[i].held # {}
      BY <2>2, <2>5 DEF Inv, Remembered
    <3>3. DOMAIN results' = 1 .. Len(results')
      BY <2>2 DEF Inv, AtHand
    <3>4. Decided(r, Len(results))'
      BY <3>2, <3>3 DEF Decided
    <3>5. Explained(r)'
      BY <1>4, <3>1 DEF Explained
    <3>6. \A i \in DOMAIN results' : Explained(results[i])' /\ Decided(results[i], i - 1)'
      BY <2>2, <3>1 DEF Inv, Remembered, Explained, Decided
    <3> QED BY <3>2, <3>4, <3>5, <3>6
  <2>6. ASSUME goDirCache = {}, ~ asked
        PROVE  /\ Explained(r)' /\ Decided(r, Len(results))' /\ goDirCache' = {}
               /\ \A i \in DOMAIN results' : Explained(results[i])' /\ Decided(results[i], i - 1)'
    <3>1. r'.held = {} /\ goDirCache' = {}
      BY <1>1, <1>4, <2>6
    <3>2. \A i \in DOMAIN results' : results'[i].held = {}
      BY <2>2, <2>6 DEF Inv, Remembered
    <3> QED BY <3>1, <3>2 DEF Explained, Decided
  <2> QED BY <2>1, <2>2, <2>3, <2>4, <2>5, <2>6 DEF Remembered
<1>9. OutcomeRight'
  BY <1>1 DEF Inv, OutcomeRight
<1> QED BY <1>5, <1>6, <1>7, <1>8, <1>9 DEF Inv

-----------------------------------------------------------------------------
(* What Answer is given decides whether the result is right.               *)
LEMMA Answered ==
  ASSUME Inv, stage \in {"suite", "before"}, NEW failing \in SUBSET Tests,
         failing = world.fails[r.commit] \
                     (IF mode.baseline THEN world.fails[r.commit + 1] ELSE {}),
         Answer(failing), failAt' \in SUBSET Tests, leftover' \in BOOLEAN,
         UNCHANGED <<given, tree, goDirCache, sum, outcome>>
  PROVE  Inv'
<1>1. r' = [r EXCEPT !.verified = TRUE, !.failing = failing, !.missed = missed(failing)]
      /\ stage' = "record"
  BY DEF Answer
<1>2. /\ r \in Result /\ Right(r)
      /\ ~ r.conservative => r.selected = world.selects[r.commit]
  BY DEF Inv, TypeOK, AtHand
<1>3. missed(failing) \in SUBSET Tests /\ missed(failing) = failing \ r.selected
  BY <1>2 DEF missed, Right
<1>4. /\ r' \in Result /\ r'.held = r.held /\ r'.littered = r.littered
      /\ r'.conservative = r.conservative
      /\ r'.selected = r.selected /\ r'.commit = r.commit /\ r'.read = r.read
      /\ r'.verified = TRUE /\ r'.failing = failing /\ r'.missed = missed(failing)
  BY <1>1, <1>2, <1>3 DEF Result
<1>5. Right(r)'
  BY <1>2, <1>3, <1>4 DEF Right, given
<1>6. AtHand'
  BY <1>1, <1>4, <1>5 DEF Inv, AtHand, given, sum, Stages
<1>7. tree' \in Trees(world)
  BY DEF Inv, TypeOK
<1> QED BY <1>1, <1>4, <1>6, <1>7, NotRecorded

LEMMA SuiteInv == Inv /\ Suite => Inv'
<1> SUFFICES ASSUME Inv, Suite PROVE Inv'
  OBVIOUS
<1>1. /\ stage = "suite" /\ runSuite /\ failAt' = world.fails[tree]
      /\ IF failAt' = {} \/ ~ mode.baseline
         THEN Answer(failAt')
         ELSE stage' = "parent" /\ UNCHANGED r
      /\ UNCHANGED <<given, tree, goDirCache, sum, outcome>>
  BY DEF Suite, At
<1>2. /\ tree = r.commit /\ failAt' = world.fails[r.commit] /\ failAt' \in SUBSET Tests
      /\ world.fails[r.commit + 1] \in SUBSET Tests
  BY <1>1, CommitTyped DEF Inv, AtHand
<1>3. leftover' \in BOOLEAN
  BY <1>1, Zenon DEF runSuite
<1>4. CASE failAt' = {} \/ ~ mode.baseline
  <2>1. failAt' = world.fails[r.commit] \
                    (IF mode.baseline THEN world.fails[r.commit + 1] ELSE {})
    BY <1>2, <1>4
  <2>2. Answer(failAt')
    BY <1>1, <1>4
  <2>3. PICK failing \in SUBSET Tests : failing = failAt'
    BY <1>2
  <2> QED BY <1>1, <1>2, <1>3, <2>1, <2>2, <2>3, Answered
<1>5. CASE ~ (failAt' = {} \/ ~ mode.baseline)
  <2>1. stage' = "parent" /\ r' = r /\ mode.baseline
    BY <1>1, <1>5
  <2>2. Right(r)'
    BY <1>1, <2>1 DEF Inv, AtHand, Right, given
  <2>3. AtHand'
    BY <1>1, <1>2, <1>3, <2>1, <2>2 DEF Inv, AtHand, given, sum, Stages
  <2>4. r' \in Result /\ tree' \in Trees(world)
    BY <1>1, <2>1 DEF Inv, TypeOK
  <2> QED BY <1>1, <2>1, <2>3, <2>4, NotRecorded
<1> QED BY <1>4, <1>5

LEMMA CheckoutParentInv == Inv /\ CheckoutParent => Inv'
<1> SUFFICES ASSUME Inv, CheckoutParent PROVE Inv'
  OBVIOUS
<1>1. /\ stage = "parent" /\ stage' = "before" /\ tree' = r.commit + 1
      /\ UNCHANGED <<given, leftover, goDirCache, r, failAt, sum, outcome>>
  BY DEF CheckoutParent, At
<1>2. AtHand'
  BY <1>1 DEF Inv, AtHand, Right, given, sum, Stages
<1>3. r' \in Result /\ tree' \in Trees(world)
  BY <1>1, CommitTyped DEF Inv, TypeOK
<1> QED BY <1>1, <1>2, <1>3, NotRecorded

LEMMA SuiteBeforeInv == Inv /\ SuiteBefore => Inv'
<1> SUFFICES ASSUME Inv, SuiteBefore PROVE Inv'
  OBVIOUS
<1>1. /\ stage = "before" /\ runSuite /\ Answer(failAt \ world.fails[tree])
      /\ UNCHANGED <<given, tree, goDirCache, failAt, sum, outcome>>
  BY DEF SuiteBefore, At
<1>2. tree = r.commit + 1 /\ mode.baseline /\ failAt = world.fails[r.commit]
      /\ failAt \in SUBSET Tests
  BY <1>1 DEF Inv, AtHand
<1>3. leftover' \in BOOLEAN
  BY <1>1, Zenon DEF runSuite
<1>4. PICK failing \in SUBSET Tests : failing = failAt \ world.fails[tree]
  BY <1>2
<1>5. failing = world.fails[r.commit] \
                  (IF mode.baseline THEN world.fails[r.commit + 1] ELSE {})
  BY <1>2, <1>4
<1>6. Answer(failing) /\ failAt' \in SUBSET Tests
  BY <1>1, <1>2, <1>4
<1> QED BY <1>1, <1>3, <1>5, <1>6, Answered

LEMMA GivenUp ==
  ASSUME Inv, stage \in {"suite", "parent", "before"}, GiveUp, leftover' \in BOOLEAN,
         UNCHANGED <<given, tree, goDirCache, failAt, sum, outcome>>
  PROVE  Inv'
<1>1. r' = [r EXCEPT !.skipped = "verify"] /\ stage' = "record"
  BY DEF GiveUp
<1>2. r \in Result /\ Right(r) /\ ~ r.verified
  BY DEF Inv, TypeOK, AtHand
<1>3. /\ r' \in Result /\ r'.held = r.held /\ r'.littered = r.littered
      /\ r'.conservative = r.conservative
      /\ r'.selected = r.selected /\ r'.commit = r.commit /\ r'.read = r.read
      /\ r'.verified = r.verified
  BY <1>1, <1>2 DEF Result
<1>4. Right(r)'
  BY <1>2, <1>3 DEF Right, given
<1>5. AtHand'
  BY <1>1, <1>3, <1>4 DEF Inv, AtHand, given, sum, Stages
<1>6. tree' \in Trees(world)
  BY DEF Inv, TypeOK
<1> QED BY <1>1, <1>3, <1>5, <1>6, NotRecorded

LEMMA SuiteFailsInv == Inv /\ SuiteFails => Inv'
<1> SUFFICES ASSUME Inv, SuiteFails PROVE Inv'
  OBVIOUS
<1>1. leftover' \in BOOLEAN
  BY Zenon DEF SuiteFails, runSuite
<1> QED BY <1>1, GivenUp DEF SuiteFails

LEMMA ParentFailsInv == Inv /\ ParentFails => Inv'
<1> SUFFICES ASSUME Inv, ParentFails PROVE Inv'
  OBVIOUS
<1>1. leftover' \in BOOLEAN
  BY DEF ParentFails, Inv, AtHand
<1> QED BY <1>1, GivenUp DEF ParentFails, At

-----------------------------------------------------------------------------
LEMMA FailuresFinite ==
  ASSUME Inv
  PROVE  /\ recallViolations \in Nat
         /\ recallViolations = 0 <=> \A x \in Verified : x.missed = {}
<1> DEFINE S == {x \in Verified : x.missed # {}}
<1>1. results \in Surjection(DOMAIN results, Range(results))
  BY DEF Inv, AtHand, Surjection, Range
<1>2. IsFiniteSet(DOMAIN results)
  <2>1. DOMAIN results = 1 .. Len(results) /\ Len(results) \in Nat
    BY DEF Inv, AtHand
  <2> QED BY <2>1, FS_Interval
<1>3. IsFiniteSet(Range(results))
  BY <1>1, <1>2, FS_Surjection
<1>4. S \subseteq Range(results)
  BY DEF Verified, Measured
<1>5. IsFiniteSet(S)
  BY <1>3, <1>4, FS_Subset
<1>6. Cardinality(S) \in Nat /\ (Cardinality(S) = 0 <=> S = {})
  BY <1>5, FS_CardinalityType, FS_EmptySet
<1> QED BY <1>6 DEF recallViolations

LEMMA EndInv ==
  ASSUME Inv, stage = "aggregate", stage' = "done",
         UNCHANGED <<given, tree, leftover, goDirCache, r, failAt, sum>>,
         \/ outcome' = "unwritten"
         \/ outcome' = IF recallViolations > 0 THEN "recall" ELSE "nil"
  PROVE  Inv'
<1> USE DEF given, sum
<1>1. TypeOK'
  BY DEF Inv, TypeOK
<1>2. AtHand'
  BY DEF Inv, AtHand, Right, Stages
<1>3. AllRight'
  BY DEF Inv, AllRight, Right
<1>4. Remembered'
  BY DEF Inv, Remembered, Explained, Decided
<1>5. OutcomeRight'
  <2>1. recallViolations' = recallViolations
    BY DEF recallViolations, Verified, Measured
  <2>2. recallViolations \in Nat
    BY FailuresFinite
  <2> QED BY <2>1, <2>2 DEF OutcomeRight
<1> QED BY <1>1, <1>2, <1>3, <1>4, <1>5 DEF Inv

LEMMA StutterInv == Inv /\ UNCHANGED vars => Inv'
<1> SUFFICES ASSUME Inv, UNCHANGED vars PROVE Inv'
  OBVIOUS
<1> USE DEF vars
<1>1. TypeOK' /\ AtHand'
  BY DEF Inv, TypeOK, AtHand, Right
<1>2. AllRight' /\ Remembered'
  BY DEF Inv, AllRight, Remembered, Right, Explained, Decided
<1>3. OutcomeRight'
  BY DEF Inv, OutcomeRight, recallViolations, Verified, Measured
<1> QED BY <1>1, <1>2, <1>3 DEF Inv

(* Inv is inductive: the loop, the worktree, the cache and the result being *)
(* made stay in step through every checkout and failure (replay.go:155-222). *)
THEOREM Invariance == Spec => []Inv
<1>1. Init => Inv
  BY InitInv
<1>2. Inv /\ [Next]_vars => Inv'
  <2> SUFFICES ASSUME Inv, [Next]_vars PROVE Inv'
    OBVIOUS
  <2>1. CASE NoParent
    BY <2>1, SkipInv DEF NoParent, At
  <2>2. CASE CheckoutFails
    BY <2>2, SkipInv DEF CheckoutFails, At
  <2>3. CASE BuildFails
    BY <2>3, SkipInv DEF BuildFails, At
  <2>4. CASE DiffFails
    BY <2>4, SkipInv DEF DiffFails, At
  <2>5. CASE Aggregate
    BY <2>5, EndInv DEF Aggregate, At
  <2>6. CASE WriteFails
    BY <2>6, EndInv DEF WriteFails, At
  <2>7. CASE Done \/ UNCHANGED vars
    BY <2>7, StutterInv DEF Done
  <2> QED
    BY <2>1, <2>2, <2>3, <2>4, <2>5, <2>6, <2>7, CheckoutInv, BuildInv, DiffInv, SelectInv,
       SuiteInv, CheckoutParentInv, SuiteBeforeInv, SuiteFailsInv, ParentFailsInv, RecordInv
    DEF Next
<1> QED BY <1>1, <1>2, PTL DEF Spec

-----------------------------------------------------------------------------
(* The state of a replay keeps to its types and the counters to the        *)
(* results (replay.go:155-232).                                            *)
THEOREM TypeCorrect == Spec => []TypeOK
<1>1. Inv => TypeOK
  BY DEF Inv
<1> QED BY <1>1, Invariance, PTL

(* The analysis, the diff and the selection of a commit read the worktree  *)
(* while it stands at that commit, although verification moves it to the   *)
(* parent and checkouts fail (replay.go:163-190, 245).  This is not of the *)
(* answers in goDirCache, nor of files left behind: see Measurement.       *)
THEOREM Separation == Spec => []OwnTree
<1>1. Inv => OwnTree
  BY DEF Inv, AllRight, Right, OwnTree, Range
<1> QED BY <1>1, Invariance, PTL

(* What is held against a commit is what it broke, and what counts as      *)
(* missed is what of it was not selected (replay.go:237-275).              *)
THEOREM Blame == Spec => []BlameRight
<1>1. Inv => BlameRight
  BY DEF Inv, AllRight, Right, BlameRight, Verified, Measured, Range
<1> QED BY <1>1, Invariance, PTL

(* Whether a commit escalates is what a clean checkout of it would give,   *)
(* as long as the first commit that asked about the directory had there    *)
(* what this one has, and asked before a suite had left a file there       *)
(* (replay.go:184-190, selection.go:129-146).                              *)
THEOREM Measurement == Spec => []MeasuredRight
<1>1. ASSUME Inv PROVE MeasuredRight
  <2> SUFFICES ASSUME NEW x \in Range(results), NEW y \in Range(results),
                      AskedFirst(y), ~ y.littered, x.held = y.held
               PROVE  x.conservative <=> TRUE \notin x.held
    BY DEF MeasuredRight
  <2>1. PICK i \in DOMAIN results : x = results[i]
    BY DEF Range
  <2>2. PICK k \in DOMAIN results : y = results[k]
    BY DEF Range
  <2>3. /\ DOMAIN results = 1 .. Len(results) /\ Len(results) \in Nat
        /\ \A j \in DOMAIN results : results[j].commit = j
    BY <1>1 DEF Inv, AtHand, TypeOK
  <2>4. \A j \in 1 .. k - 1 : results[j].held = {}
    <3> SUFFICES ASSUME NEW j \in 1 .. k - 1, results[j].held # {} PROVE FALSE
      OBVIOUS
    <3>1. j \in DOMAIN results /\ j < k
      BY <2>2, <2>3
    <3>2. results[j] \in Range(results) /\ results[j].commit < y.commit
      BY <2>2, <2>3, <3>1 DEF Range
    <3>3. y.commit \in Nat /\ results[j].commit \in Nat
      BY <2>2, <2>3, <3>1
    <3> QED BY <3>2, <3>3 DEF AskedFirst
  <2>5. y.held # {}
    BY DEF AskedFirst
  <2>6. Explained(x) /\ Decided(y, k - 1)
    BY <1>1, <2>1, <2>2 DEF Inv, Remembered
  <2>7. TRUE \in goDirCache <=> TRUE \in y.held
    BY <2>2, <2>4, <2>5, <2>6 DEF Decided
  <2> QED BY <2>5, <2>6, <2>7 DEF Explained
<1> QED BY <1>1, Invariance, PTL

(* The way the command ends tells whether a bug would have escaped         *)
(* (replay.go:356-381, whichtests-replay/main.go:70-88).                   *)
THEOREM Verdict == Spec => []ExitTells
<1>1. ASSUME Inv PROVE ExitTells
  <2> DEFINE broke(x) == {t \in world.fails[x.commit] :
                            mode.baseline => t \notin world.fails[x.commit + 1]}
  <2>1. \A x \in Verified : Right(x) /\ x.verified /\ x \in Measured
    BY <1>1 DEF Inv, AllRight, Verified, Measured, Range
  <2>2. \A x \in Verified : x.missed = broke(x) \ x.selected
    BY <2>1 DEF Right
  <2>3. \A x \in Verified : x.conservative => x.selected = Tests
    BY <2>1 DEF Right
  <2>4. \A x \in Verified : ~ x.conservative => x.selected = world.selects[x.commit]
    BY <2>1 DEF Right
  <2>5. \A x \in Verified : x.conservative => x.missed = {}
    <3> SUFFICES ASSUME NEW x \in Verified, x.conservative PROVE x.missed = {}
      OBVIOUS
    <3>1. x.missed \in SUBSET Tests
      BY <1>1 DEF Verified, Measured, Range, Inv, TypeOK, Result
    <3> QED BY <2>2, <2>3, <3>1
  <2>6. (\E x \in Verified : x.missed # {}) <=>
           \E x \in Measured :
             /\ x.verified /\ ~ x.conservative
             /\ \E t \in world.fails[x.commit] \ world.selects[x.commit] :
                  mode.baseline => t \notin world.fails[x.commit + 1]
    BY <2>1, <2>2, <2>4, <2>5 DEF Verified
  <2>7. /\ outcome = "nil" => recallViolations = 0
        /\ outcome = "recall" => recallViolations > 0
        /\ recallViolations \in Nat
        /\ recallViolations = 0 <=> \A x \in Verified : x.missed = {}
    BY <1>1, FailuresFinite DEF Inv, OutcomeRight
  <2> QED BY <2>6, <2>7 DEF ExitTells
<1> QED BY <1>1, Invariance, PTL
=============================================================================
