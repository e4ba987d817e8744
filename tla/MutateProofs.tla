------------------------------ MODULE MutateProofs ------------------------------
(***************************************************************************)
(* Fault injection keeps one fault in the tree at a time, holds it against *)
(* its own failures only and counts right, for any candidates and suites;  *)
(* and when files cannot be written, what is left behind is all that goes  *)
(* wrong.                                                                  *)
(*                                                                         *)
(* Each of the three rests on what inject has got to: the tree on orig,    *)
(* which has to be clean for Restore to clean the tree (Tree), the blame   *)
(* on the result in hand (InHand), and the figures on what Tally is given. *)
(***************************************************************************)
EXTENDS Mutate, SequenceTheorems, FiniteSetTheorems, TLAPS

Injecting == {"read", "written", "ran"}

(* Of result r: it misses no test that did not fail, and nothing if the    *)
(* candidate was skipped.                                                  *)
Sober(r) == r.missed \subseteq r.failing /\ (r.skipped => r.missed = {})

Books ==
  /\ sum \in [results : Seq([of : Fns, is : Results]), injected : Nat, skipped : Nat,
              killed : Nat, caught : Nat, violations : Nat]
  /\ \A i \in DOMAIN sum.results : Sober(sum.results[i].is)
  /\ sum.killed = sum.caught + sum.violations
  /\ sum.killed <= sum.injected
  /\ sum.injected + sum.skipped = Len(sum.results)
  /\ sum.violations > 0 <=> \E i \in DOMAIN sum.results : sum.results[i].is.missed # {}
  /\ stage = "nil" => sum.violations = 0
  /\ stage = "recall" => sum.violations > 0

(* Where the tree is in the course of one injection. *)
Tree ==
  /\ stage \in {"next", "read"} \cup (Ended \ {"killed"}) =>
       \A f \in Files : tree[f].faults \subseteq left
  /\ stage \in Injecting => orig.faults \subseteq left
  /\ stage \in {"written", "ran"} => \A c \in cand : \A f \in Files :
       tree[f].faults \subseteq left \cup (IF f = File[c] THEN {c} ELSE {})
  /\ stage = "killed" => \A f \in Files : tree[f].faults \subseteq left \cup cand
  /\ left = {} => (\A f \in Files : tree[f].whole) /\ (stage \in Injecting => orig.whole)

(* What fails in result r is broken, or executes one of these faults. *)
Blames(S, r) ==
  \A t \in r.failing : t \in world.broken \/ \E c \in S : t \in world.executes[c]

InHand ==
  /\ Sober(result)
  /\ \A c, d \in cand : c = d
  /\ stage \in Injecting => cand # {}

Blame ==
  /\ stage = "ran" => \A c \in cand : Blames({c} \cup left, result)
  /\ left \subseteq {sum.results[j].of : j \in DOMAIN sum.results}
  /\ \A i \in DOMAIN sum.results :
       Blames({sum.results[i].of} \cup LeftBefore(i), sum.results[i].is)

Inv == TypeOK /\ Books /\ InHand /\ Tree /\ Blame

-----------------------------------------------------------------------------
LEMMA CleanTyped == Clean \in Source /\ Clean.faults = {} /\ Clean.whole
BY DEF Clean, Source

LEMMA SourceEdits ==
  ASSUME NEW s \in Source, NEW c \in Fns
  PROVE  /\ [s EXCEPT !.faults = @ \cup {c}] \in Source
         /\ [s EXCEPT !.faults = @ \cup {c}].faults = s.faults \cup {c}
         /\ [s EXCEPT !.faults = @ \cup {c}].whole = s.whole
BY DEF Source

(* A write that fails leaves no fault that was not in one of the two.      *)
LEMMA FailedWrite ==
  ASSUME tree \in [Files -> Source], NEW c \in Fns, NEW s \in Source,
         tree' \in FailedWrites(c, s)
  PROVE  /\ tree' \in [Files -> Source]
         /\ \A f \in Files \ {File[c]} : tree'[f] = tree[f]
         /\ tree'[File[c]].faults \subseteq tree[File[c]].faults \cup s.faults
<1>1. File[c] \in Files
  BY DEF Files
<1>2. CASE tree' = tree
  BY <1>2
<1>3. ASSUME NEW p \in Partly(s), tree' = [tree EXCEPT ![File[c]] = p]
      PROVE  /\ tree' \in [Files -> Source]
             /\ \A f \in Files \ {File[c]} : tree'[f] = tree[f]
             /\ tree'[File[c]].faults \subseteq tree[File[c]].faults \cup s.faults
  <2>1. p \in Source /\ p.faults \subseteq s.faults
    <3>1. CASE p = s
      BY <3>1
    <3>2. ASSUME NEW F \in SUBSET s.faults, p = [faults |-> F, whole |-> FALSE]
          PROVE  p \in Source /\ p.faults \subseteq s.faults
      BY <3>2 DEF Source
    <3> QED BY <3>1, <3>2 DEF Partly
  <2> QED BY <1>1, <1>3, <2>1
<1> QED BY <1>2, <1>3 DEF FailedWrites

LEMMA NoResultTyped ==
  /\ NoResult \in Results /\ Sober(NoResult) /\ NoResult.failing = {} /\ ~ NoResult.skipped
  /\ [NoResult EXCEPT !.skipped = TRUE] \in Results
  /\ Sober([NoResult EXCEPT !.skipped = TRUE])
  /\ [NoResult EXCEPT !.skipped = TRUE].failing = {}
BY DEF NoResult, Results, Sober

-----------------------------------------------------------------------------
LEMMA InitInv == Init => Inv
<1> SUFFICES ASSUME Init PROVE Inv
  OBVIOUS
<1>1. /\ world \in Worlds /\ tree = [f \in Files |-> Clean] /\ cands \in Samples
      /\ stage = "next" /\ cand = {} /\ orig = Clean /\ result = NoResult
      /\ sum = [results |-> << >>, injected |-> 0, skipped |-> 0,
                killed |-> 0, caught |-> 0, violations |-> 0]
      /\ left = {}
  BY DEF Init
<1>2. cands \in Seq(Fns)
  <2>1. PICK s \in SetToSeqs(Fns) :
          cands = SubSeq(s, 1, IF Len(s) > Count THEN Count ELSE Len(s))
    BY <1>1 DEF Samples
  <2>2. Cardinality(Fns) \in Nat
    BY FS_CardinalityType, WorldsAssumption
  <2>3. s \in Seq(Fns)
    BY <2>2 DEF SetToSeqs
  <2> QED BY <2>1, <2>3, SubSeqProperties, WorldsAssumption
<1>3. sum.results = << >> /\ sum.results \in Seq([of : Fns, is : Results])
  BY <1>1
<1>4. tree \in [Files -> Source] /\ \A f \in Files : tree[f].faults = {} /\ tree[f].whole
  BY <1>1, CleanTyped
<1>5. TypeOK
  <2>1. stage \in {"next", "read", "written", "ran"} \cup Ended /\ cand \in SUBSET Fns
    BY <1>1
  <2>2. orig \in Source /\ result \in Results /\ left \in SUBSET Fns
    BY <1>1, CleanTyped, NoResultTyped
  <2>3. \A i \in DOMAIN sum.results :
           sum.results[i].is.skipped => sum.results[i].is.missed = {}
    BY <1>3
  <2> QED BY <1>1, <1>2, <1>3, <1>4, <2>1, <2>2, <2>3 DEF TypeOK
<1>6. Books
  <2>1. sum \in [results : Seq([of : Fns, is : Results]), injected : Nat, skipped : Nat,
                 killed : Nat, caught : Nat, violations : Nat]
    BY <1>1
  <2>2. /\ sum.killed = sum.caught + sum.violations /\ sum.killed <= sum.injected
        /\ sum.injected + sum.skipped = Len(sum.results) /\ ~ (sum.violations > 0)
    BY <1>1
  <2>3. DOMAIN sum.results = {}
    BY <1>3
  <2> QED BY <1>1, <2>1, <2>2, <2>3 DEF Books
<1>7. InHand
  BY <1>1, NoResultTyped DEF InHand, Injecting
<1>8. Tree
  BY <1>1, <1>4 DEF Tree, Injecting
<1>9. Blame
  BY <1>1, <1>3 DEF Blame
<1> QED BY <1>5, <1>6, <1>7, <1>8, <1>9 DEF Inv

-----------------------------------------------------------------------------
(* One more result, whatever it says, leaves the figures in agreement.     *)
LEMMA Tallied ==
  ASSUME Books, NEW c \in Fns, NEW x \in Results, Sober(x),
         sum' = Tally(c, x), stage' = "next"
  PROVE  /\ Books'
         /\ DOMAIN sum'.results = 1 .. Len(sum.results) + 1
         /\ DOMAIN sum.results = 1 .. Len(sum.results)
         /\ \A i \in DOMAIN sum.results : sum'.results[i] = sum.results[i]
         /\ sum'.results[Len(sum.results) + 1] = [of |-> c, is |-> x]
<1> DEFINE y == [of |-> c, is |-> x]
<1>1. /\ sum'.injected = sum.injected + One(~ x.skipped)
      /\ sum'.skipped = sum.skipped + One(x.skipped)
      /\ sum'.killed = sum.killed + One(~ x.skipped /\ x.failing # {})
      /\ sum'.caught = sum.caught + One(~ x.skipped /\ Caught(x))
      /\ sum'.violations = sum.violations + One(~ x.skipped /\ x.missed # {})
  BY DEF Tally
<1>2. /\ sum.injected \in Nat /\ sum.skipped \in Nat /\ sum.killed \in Nat
      /\ sum.caught \in Nat /\ sum.violations \in Nat
      /\ sum.killed = sum.caught + sum.violations /\ sum.killed <= sum.injected
      /\ sum.injected + sum.skipped = Len(sum.results)
  BY DEF Books
<1>3. /\ sum'.results = Append(sum.results, y)
      /\ sum' = [results |-> sum'.results, injected |-> sum'.injected,
                 skipped |-> sum'.skipped, killed |-> sum'.killed,
                 caught |-> sum'.caught, violations |-> sum'.violations]
  BY DEF Tally
<1>4. /\ sum.results \in Seq([of : Fns, is : Results])
      /\ \A i \in DOMAIN sum.results : Sober(sum.results[i].is)
      /\ sum.violations > 0 <=> \E i \in DOMAIN sum.results : sum.results[i].is.missed # {}
  BY DEF Books
<1>5. y \in [of : Fns, is : Results] /\ y.is = x
  OBVIOUS
<1>6. /\ sum'.results \in Seq([of : Fns, is : Results])
      /\ Len(sum'.results) = Len(sum.results) + 1
      /\ DOMAIN sum'.results = 1 .. Len(sum.results) + 1
      /\ DOMAIN sum.results = 1 .. Len(sum.results) /\ Len(sum.results) \in Nat
      /\ \A i \in DOMAIN sum.results : sum'.results[i] = sum.results[i]
      /\ sum'.results[Len(sum.results) + 1] = y
  BY <1>3, <1>4, <1>5, AppendProperties
<1>7. x.skipped \in BOOLEAN /\ x.missed \subseteq x.failing /\ (x.skipped => x.missed = {})
  BY DEF Results, Sober
<1>8. /\ sum'.injected \in Nat /\ sum'.skipped \in Nat /\ sum'.killed \in Nat
      /\ sum'.caught \in Nat /\ sum'.violations \in Nat
      /\ sum'.killed = sum'.caught + sum'.violations /\ sum'.killed <= sum'.injected
      /\ sum'.injected + sum'.skipped = Len(sum.results) + 1
      /\ sum'.violations = sum.violations + (IF x.missed # {} THEN 1 ELSE 0)
  <2>1. CASE x.skipped
    <3>1. x.missed = {}
      BY <1>7, <2>1
    <3>2. /\ sum'.injected = sum.injected + 0 /\ sum'.skipped = sum.skipped + 1
          /\ sum'.killed = sum.killed + 0 /\ sum'.caught = sum.caught + 0
          /\ sum'.violations = sum.violations + 0
      BY <1>1, <2>1, <3>1 DEF One
    <3> QED BY <1>2, <2>1, <3>1, <3>2
  <2>2. CASE ~ x.skipped /\ x.failing = {}
    <3>1. x.missed = {} /\ ~ Caught(x)
      BY <1>7, <2>2 DEF Caught
    <3>2. /\ sum'.injected = sum.injected + 1 /\ sum'.skipped = sum.skipped + 0
          /\ sum'.killed = sum.killed + 0 /\ sum'.caught = sum.caught + 0
          /\ sum'.violations = sum.violations + 0
      BY <1>1, <2>2, <3>1 DEF One
    <3> QED BY <1>2, <2>2, <3>1, <3>2
  <2>3. CASE ~ x.skipped /\ x.failing # {} /\ x.missed = {}
    <3>1. Caught(x)
      BY <2>3 DEF Caught
    <3>2. /\ sum'.injected = sum.injected + 1 /\ sum'.skipped = sum.skipped + 0
          /\ sum'.killed = sum.killed + 1 /\ sum'.caught = sum.caught + 1
          /\ sum'.violations = sum.violations + 0
      BY <1>1, <2>3, <3>1 DEF One
    <3>3. (IF x.missed # {} THEN 1 ELSE 0) = 0
      BY <2>3
    <3>4. /\ sum'.injected \in Nat /\ sum'.skipped \in Nat /\ sum'.killed \in Nat
          /\ sum'.caught \in Nat /\ sum'.violations \in Nat
      BY <1>2, <3>2
    <3>5. sum'.killed = sum'.caught + sum'.violations
      BY <1>2, <3>2
    <3>6. sum'.killed <= sum'.injected
      BY <1>2, <3>2
    <3>7. sum'.injected + sum'.skipped = Len(sum.results) + 1
      BY <1>2, <3>2
    <3> QED BY <3>2, <3>3, <3>4, <3>5, <3>6, <3>7
  <2>4. CASE ~ x.skipped /\ x.failing # {} /\ x.missed # {}
    <3>1. ~ Caught(x)
      BY <2>4 DEF Caught
    <3>2. /\ sum'.injected = sum.injected + 1 /\ sum'.skipped = sum.skipped + 0
          /\ sum'.killed = sum.killed + 1 /\ sum'.caught = sum.caught + 0
          /\ sum'.violations = sum.violations + 1
      BY <1>1, <2>4, <3>1 DEF One
    <3>3. (IF x.missed # {} THEN 1 ELSE 0) = 1
      BY <2>4
    <3>4. /\ sum'.injected \in Nat /\ sum'.skipped \in Nat /\ sum'.killed \in Nat
          /\ sum'.caught \in Nat /\ sum'.violations \in Nat
      BY <1>2, <3>2
    <3>5. sum'.killed = sum'.caught + sum'.violations
      BY <1>2, <3>2
    <3>6. sum'.killed <= sum'.injected
      BY <1>2, <3>2
    <3>7. sum'.injected + sum'.skipped = Len(sum.results) + 1
      BY <1>2, <3>2
    <3> QED BY <3>2, <3>3, <3>4, <3>5, <3>6, <3>7
  <2> QED BY <2>1, <2>2, <2>3, <2>4
<1>9. sum'.violations > 0 <=> \E i \in DOMAIN sum'.results : sum'.results[i].is.missed # {}
  <2>1. CASE x.missed # {}
    <3>1. sum'.violations > 0
      BY <1>2, <1>8, <2>1
    <3>2. Len(sum.results) + 1 \in DOMAIN sum'.results
      BY <1>6
    <3>3. sum'.results[Len(sum.results) + 1].is.missed # {}
      BY <1>5, <1>6, <2>1
    <3> QED BY <3>1, <3>2, <3>3
  <2>2. CASE x.missed = {}
    <3>1. sum'.violations = sum.violations
      BY <1>2, <1>8, <2>2
    <3>2. \A i \in DOMAIN sum'.results :
             sum'.results[i].is.missed # {} => i \in DOMAIN sum.results
      BY <1>5, <1>6, <2>2
    <3>3. DOMAIN sum.results \subseteq DOMAIN sum'.results
      BY <1>6
    <3>4. \A i \in DOMAIN sum.results : sum'.results[i] = sum.results[i]
      BY <1>6
    <3>5. (\E i \in DOMAIN sum'.results : sum'.results[i].is.missed # {})
             <=> \E i \in DOMAIN sum.results : sum.results[i].is.missed # {}
      BY <3>2, <3>3, <3>4
    <3>6. sum.violations > 0 <=> \E i \in DOMAIN sum.results : sum.results[i].is.missed # {}
      BY <1>4
    <3> QED BY <3>1, <3>5, <3>6
  <2> QED BY <2>1, <2>2
<1>10. \A i \in DOMAIN sum'.results : Sober(sum'.results[i].is)
  <2> SUFFICES ASSUME NEW i \in DOMAIN sum'.results PROVE Sober(sum'.results[i].is)
    OBVIOUS
  <2>1. CASE i \in DOMAIN sum.results
    <3>1. sum'.results[i] = sum.results[i]
      BY <1>6, <2>1
    <3>2. Sober(sum.results[i].is)
      BY <1>4, <2>1
    <3> QED BY <3>1, <3>2
  <2>2. CASE i = Len(sum.results) + 1
    <3>1. sum'.results[i].is = x
      BY <1>5, <1>6, <2>2
    <3> QED BY <3>1
  <2> QED BY <1>6, <2>1, <2>2
<1>11. sum' \in [results : Seq([of : Fns, is : Results]), injected : Nat, skipped : Nat,
                killed : Nat, caught : Nat, violations : Nat]
  BY <1>3, <1>6, <1>8
<1>12. Books'
  BY <1>6, <1>8, <1>9, <1>10, <1>11 DEF Books, Sober
<1> HIDE DEF y
<1> QED BY <1>6, <1>12 DEF y

-----------------------------------------------------------------------------
(* The ways an injection ends: with a result, and with a tree that has no  *)
(* faults but those left behind.                                           *)
LEMMA Concluded ==
  ASSUME Inv, NEW c \in Fns, NEW x \in Results, Sober(x), sum' = Tally(c, x),
         stage' = "next", cand' = {}, tree' \in [Files -> Source],
         left' = left \/ left' = left \cup {c},
         Blames({c} \cup left, x), \A f \in Files : tree'[f].faults \subseteq left',
         left' = {} => \A f \in Files : tree'[f].whole,
         UNCHANGED <<world, cands, orig, result>>
  PROVE  Inv'
<1>1. /\ Books'
      /\ DOMAIN sum'.results = 1 .. Len(sum.results) + 1
      /\ DOMAIN sum.results = 1 .. Len(sum.results)
      /\ \A i \in DOMAIN sum.results : sum'.results[i] = sum.results[i]
      /\ sum'.results[Len(sum.results) + 1] = [of |-> c, is |-> x]
  BY Tallied DEF Inv
<1>2. TypeOK'
  <2>1. /\ sum'.results \in Seq([of : Fns, is : Results])
        /\ \A i \in DOMAIN sum'.results :
             sum'.results[i].is.skipped => sum'.results[i].is.missed = {}
    BY <1>1 DEF Books, Sober
  <2>2. /\ world' \in Worlds /\ cands' \in Seq(Fns) /\ orig' \in Source /\ result' \in Results
    BY DEF Inv, TypeOK
  <2>3. left' \in SUBSET Fns
    BY DEF Inv, TypeOK
  <2> QED BY <2>1, <2>2, <2>3 DEF TypeOK
<1>3. InHand'
  BY DEF Inv, InHand, Injecting, Sober
<1>4. Tree'
  BY DEF Tree, Injecting, Ended
<1>5. Len(sum.results) \in Nat
  BY DEF Inv, Books
<1>6. left \subseteq {sum.results[j].of : j \in DOMAIN sum.results} /\ left \subseteq left'
  BY DEF Inv, Blame
<1>7. left' \subseteq {sum'.results[j].of : j \in DOMAIN sum'.results}
  <2>1. c \in {sum'.results[j].of : j \in DOMAIN sum'.results}
    BY <1>1, <1>5
  <2>2. left \subseteq {sum'.results[j].of : j \in DOMAIN sum'.results}
    BY <1>1, <1>5, <1>6
  <2> QED BY <2>1, <2>2
<1>8. ASSUME NEW i \in DOMAIN sum'.results
      PROVE  Blames({sum'.results[i].of} \cup LeftBefore(i)', sum'.results[i].is)
  <2>1. CASE i \in DOMAIN sum.results
    <3>1. \A j \in 1 .. i - 1 : sum'.results[j] = sum.results[j]
      BY <1>1, <1>5, <2>1
    <3>2. LeftBefore(i) \subseteq LeftBefore(i)'
      BY <1>6, <3>1 DEF LeftBefore
    <3>3. Blames({sum.results[i].of} \cup LeftBefore(i), sum.results[i].is)
      BY <2>1 DEF Inv, Blame
    <3> QED BY <1>1, <2>1, <3>2, <3>3 DEF Blames
  <2>2. CASE i = Len(sum.results) + 1
    <3>1. 1 .. i - 1 = DOMAIN sum.results
      BY <1>1, <1>5, <2>2
    <3>2. left \subseteq {sum'.results[j].of : j \in 1 .. i - 1}
      BY <1>1, <1>6, <3>1
    <3>3. left \subseteq LeftBefore(i)'
      BY <1>6, <3>2 DEF LeftBefore
    <3>4. sum'.results[i].of = c /\ sum'.results[i].is = x
      BY <1>1, <2>2
    <3> QED BY <3>3, <3>4 DEF Blames
  <2> QED BY <1>1, <1>5, <2>1, <2>2
<1>9. Blame'
  BY <1>7, <1>8 DEF Blame, Blames
<1> QED BY <1>1, <1>2, <1>3, <1>4, <1>9 DEF Inv

(* A step on the way records nothing. *)
LEMMA Underway ==
  ASSUME Inv, stage' \in {"next"} \cup Injecting, cand' \in SUBSET Fns,
         tree' \in [Files -> Source], cands' \in Seq(Fns), orig' \in Source,
         result' \in Results, InHand', Tree',
         stage' = "ran" => \A c \in cand' : Blames({c} \cup left, result'),
         UNCHANGED <<world, sum, left>>
  PROVE  Inv'
<1>1. TypeOK'
  <2>1. /\ sum'.results \in Seq([of : Fns, is : Results])
        /\ \A i \in DOMAIN sum'.results :
             sum'.results[i].is.skipped => sum'.results[i].is.missed = {}
    BY DEF Inv, TypeOK
  <2>2. world' \in Worlds /\ left' \in SUBSET Fns
    BY DEF Inv, TypeOK
  <2>3. stage' \in {"next", "read", "written", "ran"} \cup Ended
    BY DEF Injecting
  <2> QED BY <2>1, <2>2, <2>3 DEF TypeOK
<1>2. Books'
  <2>1. stage' \notin {"nil", "recall"}
    BY DEF Injecting
  <2> QED BY <2>1 DEF Inv, Books, Sober
<1>3. Blame'
  BY DEF Inv, Blame, Blames, LeftBefore
<1> QED BY <1>1, <1>2, <1>3 DEF Inv

-----------------------------------------------------------------------------
LEMMA TakeInv == Inv /\ Take => Inv'
<1> SUFFICES ASSUME Inv, Take PROVE Inv'
  OBVIOUS
<1>1. /\ stage = "next" /\ stage' = "next" /\ cands # << >>
      /\ cand' = {Head(cands)} /\ cands' = Tail(cands) /\ result' = NoResult
      /\ UNCHANGED <<world, tree, orig, sum, left>>
  BY DEF Take
<1>2. cands \in Seq(Fns) /\ tree \in [Files -> Source] /\ orig \in Source
  BY DEF Inv, TypeOK
<1>3. Head(cands) \in Fns /\ Tail(cands) \in Seq(Fns)
  BY <1>1, <1>2, HeadTailProperties
<1>4. InHand'
  BY <1>1, NoResultTyped DEF InHand, Injecting, Sober
<1>5. Tree'
  BY <1>1 DEF Inv, Tree, Injecting, Ended
<1> QED BY <1>1, <1>2, <1>3, <1>4, <1>5, NoResultTyped, Underway

LEMMA ReadInv == ASSUME NEW c \in Fns PROVE Inv /\ Read(c) => Inv'
<1> SUFFICES ASSUME Inv, Read(c) PROVE Inv'
  OBVIOUS
<1>1. /\ stage = "next" /\ stage' = "read" /\ cand = {c} /\ orig' = tree[File[c]]
      /\ UNCHANGED <<world, tree, cands, cand, result, sum, left>>
  BY DEF Read
<1>2. cands \in Seq(Fns) /\ tree \in [Files -> Source] /\ result \in Results /\ Sober(result)
  BY DEF Inv, TypeOK, InHand
<1>3. File[c] \in Files
  BY DEF Files
<1>4. orig' \in Source
  BY <1>1, <1>2, <1>3
<1>5. InHand'
  BY <1>1, <1>2 DEF InHand, Injecting, Sober
<1>6. Tree'
  BY <1>1, <1>3 DEF Inv, Tree, Injecting, Ended
<1> QED BY <1>1, <1>2, <1>4, <1>5, <1>6, Underway DEF Injecting

LEMMA SkipInv ==
  ASSUME Inv, NEW c \in Fns, Skip(c), stage \in {"next", "read"},
         \/ UNCHANGED <<tree, left>>
         \/ /\ tree' \in FailedWrites(c, [orig EXCEPT !.faults = @ \cup {c}])
            /\ left' = left \cup {c} /\ stage = "read",
         UNCHANGED <<world, cands, orig, result>>
  PROVE  Inv'
<1> DEFINE x == [NoResult EXCEPT !.skipped = TRUE]
<1>1. sum' = Tally(c, x) /\ stage' = "next" /\ cand' = {}
  BY DEF Skip
<1>2. x \in Results /\ Sober(x) /\ Blames({c} \cup left, x)
  BY NoResultTyped DEF Blames
<1>3. /\ tree \in [Files -> Source] /\ orig \in Source
      /\ \A f \in Files : tree[f].faults \subseteq left
      /\ left = {} => \A f \in Files : tree[f].whole
  BY DEF Inv, TypeOK, Tree, Ended
<1>4. /\ tree' \in [Files -> Source] /\ \A f \in Files : tree'[f].faults \subseteq left'
      /\ left' = {} => \A f \in Files : tree'[f].whole
  <2>1. CASE UNCHANGED <<tree, left>>
    BY <1>3, <2>1
  <2>2. CASE /\ tree' \in FailedWrites(c, [orig EXCEPT !.faults = @ \cup {c}])
             /\ left' = left \cup {c} /\ stage = "read"
    <3> DEFINE s == [orig EXCEPT !.faults = @ \cup {c}]
    <3>1. s \in Source /\ s.faults = orig.faults \cup {c}
      BY <1>3, SourceEdits
    <3>2. orig.faults \subseteq left
      BY <2>2 DEF Inv, Tree, Injecting
    <3> HIDE DEF s
    <3>3. tree' \in FailedWrites(c, s)
      BY <2>2 DEF s
    <3>4. /\ tree' \in [Files -> Source]
          /\ \A f \in Files \ {File[c]} : tree'[f] = tree[f]
          /\ tree'[File[c]].faults \subseteq tree[File[c]].faults \cup s.faults
      BY <1>3, <3>1, <3>3, FailedWrite
    <3>5. File[c] \in Files
      BY DEF Files
    <3> QED BY <1>3, <2>2, <3>1, <3>2, <3>4, <3>5
  <2> QED BY <2>1, <2>2
<1>5. left' = left \/ left' = left \cup {c}
  OBVIOUS
<1> HIDE DEF x
<1> QED BY <1>1, <1>2, <1>4, <1>5, Concluded

LEMMA ReadFailsInv == ASSUME NEW c \in Fns PROVE Inv /\ ReadFails(c) => Inv'
BY SkipInv DEF ReadFails

LEMMA StaleOffsetInv == ASSUME NEW c \in Fns PROVE Inv /\ StaleOffset(c) => Inv'
BY SkipInv DEF StaleOffset

LEMMA WriteFailsInv == ASSUME NEW c \in Fns PROVE Inv /\ WriteFails(c) => Inv'
BY SkipInv DEF WriteFails

LEMMA WriteInv == ASSUME NEW c \in Fns PROVE Inv /\ Write(c) => Inv'
<1> SUFFICES ASSUME Inv, Write(c) PROVE Inv'
  OBVIOUS
<1> DEFINE new == [orig EXCEPT !.faults = @ \cup {c}]
<1>1. /\ stage = "read" /\ stage' = "written" /\ cand = {c}
      /\ tree' = [tree EXCEPT ![File[c]] = new]
      /\ UNCHANGED <<world, cands, cand, orig, result, sum, left>>
  BY DEF Write
<1>2. /\ cands \in Seq(Fns) /\ tree \in [Files -> Source] /\ orig \in Source
      /\ result \in Results /\ Sober(result) /\ File[c] \in Files
  BY DEF Inv, TypeOK, InHand, Files
<1>3. new \in Source /\ new.faults = orig.faults \cup {c} /\ new.whole = orig.whole
  BY <1>2, SourceEdits
<1> HIDE DEF new
<1>4. /\ tree' \in [Files -> Source]
      /\ \A f \in Files : tree'[f] = IF f = File[c] THEN new ELSE tree[f]
  BY <1>1, <1>2, <1>3
<1>5. InHand'
  BY <1>1, <1>2 DEF InHand, Injecting, Sober
<1>6. Tree'
  BY <1>1, <1>3, <1>4 DEF Inv, Tree, Injecting, Ended
<1> QED BY <1>1, <1>2, <1>4, <1>5, <1>6, Underway DEF Injecting

-----------------------------------------------------------------------------
(* A failing test executes one of the faults in the tree, or is broken.    *)
LEMMA WhoFails ==
  ASSUME Inv, NEW suites \in Compiled
  PROVE  /\ FailingIn(suites) \in SUBSET Tests
         /\ \A t \in FailingIn(suites) : Panics(t) \/ t \in world.broken
<1>1. suites \subseteq Suites
  BY DEF Compiled
<1>2. Suites \subseteq Seq(Tests)
  BY WorldsAssumption
<1> SUFFICES ASSUME NEW t \in FailingIn(suites)
             PROVE  t \in Tests /\ (Panics(t) \/ t \in world.broken)
  OBVIOUS
<1>3. PICK s \in suites : t \in {s[i] : i \in {j \in Ran(s) : Fails(s[j])}}
  BY DEF FailingIn
<1>4. PICK i \in Ran(s) : t = s[i] /\ Fails(s[i])
  BY <1>3
<1>5. s \in Seq(Tests) /\ i \in DOMAIN s
  BY <1>1, <1>2, <1>4 DEF Ran
<1> QED BY <1>4, <1>5 DEF Fails

(* The only faults there can be are the one that was just injected and     *)
(* those left behind.                                                      *)
LEMMA OnlyFault ==
  ASSUME Inv, stage \in {"written", "ran"}, NEW c \in Fns, cand = {c}
  PROVE  Faults \subseteq {c} \cup left
BY DEF Inv, Tree, Faults

LEMMA RunSuiteInv == ASSUME NEW c \in Fns PROVE Inv /\ RunSuite(c) => Inv'
<1> SUFFICES ASSUME Inv, RunSuite(c) PROVE Inv'
  OBVIOUS
<1>1. /\ stage = "written" /\ stage' = "ran" /\ cand = {c}
      /\ UNCHANGED <<world, tree, cands, cand, orig, sum, left>>
  BY DEF RunSuite
<1>2. PICK suites \in Compiled :
        result' = [skipped |-> FALSE, failing |-> FailingIn(suites),
                   missed |-> FailingIn(suites) \ world.selects[c]]
  BY DEF RunSuite
<1>3. /\ cands \in Seq(Fns) /\ tree \in [Files -> Source] /\ orig \in Source
      /\ cand \in SUBSET Fns
  BY DEF Inv, TypeOK
<1>4. result' \in Results /\ Sober(result') /\ result'.failing = FailingIn(suites)
  BY <1>2, WhoFails DEF Results, Sober
<1>5. InHand'
  BY <1>1, <1>4 DEF InHand, Injecting, Sober
<1>6. Tree'
  BY <1>1 DEF Inv, Tree, Injecting, Ended
<1>7. Blames({c} \cup left, result')
  <2> SUFFICES ASSUME NEW t \in FailingIn(suites)
               PROVE  t \in world.broken \/ \E d \in {c} \cup left : t \in world.executes[d]
    BY <1>4 DEF Blames
  <2>1. CASE Panics(t)
    <3>1. PICK f \in Faults : t \in world.executes[f]
      BY <2>1 DEF Panics
    <3>2. f \in {c} \cup left
      BY <1>1, <3>1, OnlyFault
    <3> QED BY <3>1, <3>2
  <2>2. CASE t \in world.broken
    BY <2>2
  <2> QED BY <2>1, <2>2, WhoFails
<1> QED BY <1>1, <1>3, <1>4, <1>5, <1>6, <1>7, Underway DEF Injecting

LEMMA NoEventsInv == ASSUME NEW c \in Fns PROVE Inv /\ NoEvents(c) => Inv'
<1> SUFFICES ASSUME Inv, NoEvents(c) PROVE Inv'
  OBVIOUS
<1>1. /\ stage = "written" /\ stage' = "ran" /\ cand = {c}
      /\ result' = [NoResult EXCEPT !.skipped = TRUE]
      /\ UNCHANGED <<world, tree, cands, cand, orig, sum, left>>
  BY DEF NoEvents
<1>2. /\ cands \in Seq(Fns) /\ tree \in [Files -> Source] /\ orig \in Source
      /\ cand \in SUBSET Fns
  BY DEF Inv, TypeOK
<1>3. result' \in Results /\ Sober(result') /\ result'.failing = {}
  BY <1>1, NoResultTyped
<1>4. InHand'
  BY <1>1, <1>3 DEF InHand, Injecting, Sober
<1>5. Tree'
  BY <1>1 DEF Inv, Tree, Injecting, Ended
<1>6. Blames({c} \cup left, result')
  BY <1>3 DEF Blames
<1> QED BY <1>1, <1>2, <1>3, <1>4, <1>5, <1>6, Underway DEF Injecting

LEMMA RestoreInv == ASSUME NEW c \in Fns PROVE Inv /\ Restore(c) => Inv'
<1> SUFFICES ASSUME Inv, Restore(c) PROVE Inv'
  OBVIOUS
<1>1. /\ stage = "ran" /\ stage' = "next" /\ cand = {c} /\ cand' = {}
      /\ tree' = [tree EXCEPT ![File[c]] = orig] /\ sum' = Tally(c, result)
      /\ UNCHANGED <<world, cands, orig, result, left>>
  BY DEF Restore
<1>2. /\ tree \in [Files -> Source] /\ orig \in Source
      /\ result \in Results /\ Sober(result) /\ File[c] \in Files
  BY DEF Inv, TypeOK, InHand, Files
<1>3. /\ tree' \in [Files -> Source]
      /\ \A f \in Files : tree'[f] = IF f = File[c] THEN orig ELSE tree[f]
  BY <1>1, <1>2
<1>4. Blames({c} \cup left, result)
  BY <1>1 DEF Inv, Blame
<1>5. /\ \A f \in Files : tree'[f].faults \subseteq left'
      /\ left' = {} => \A f \in Files : tree'[f].whole
  BY <1>1, <1>3 DEF Inv, Tree, Injecting
<1> QED BY <1>1, <1>2, <1>3, <1>4, <1>5, Concluded

LEMMA RestoreFailsInv == ASSUME NEW c \in Fns PROVE Inv /\ RestoreFails(c) => Inv'
<1> SUFFICES ASSUME Inv, RestoreFails(c) PROVE Inv'
  OBVIOUS
<1>1. /\ stage = "ran" /\ cand = {c} /\ tree' \in FailedWrites(c, orig)
      /\ stage' = "next" /\ cand' = {} /\ sum' = Tally(c, result)
      /\ left' = left \cup {c} /\ UNCHANGED <<world, cands, orig, result>>
  BY DEF RestoreFails
<1>2. /\ result \in Results /\ Sober(result) /\ tree \in [Files -> Source]
      /\ orig \in Source /\ File[c] \in Files
  BY DEF Inv, TypeOK, InHand, Files
<1>3. /\ tree' \in [Files -> Source]
      /\ \A f \in Files \ {File[c]} : tree'[f] = tree[f]
      /\ tree'[File[c]].faults \subseteq tree[File[c]].faults \cup orig.faults
  BY <1>1, <1>2, FailedWrite
<1>4. \A f \in Files : tree'[f].faults \subseteq left'
  <2>1. orig.faults \subseteq left
    BY <1>1 DEF Inv, Tree, Injecting
  <2>2. \A f \in Files : tree[f].faults \subseteq left \cup {c}
    BY <1>1 DEF Inv, Tree
  <2> QED BY <1>1, <1>2, <1>3, <2>1, <2>2
<1>5. Blames({c} \cup left, result)
  BY <1>1 DEF Inv, Blame
<1> QED BY <1>1, <1>2, <1>3, <1>4, <1>5, Concluded

(* The end of the process, in whatever state, touches nothing. *)
LEMMA EndInv ==
  ASSUME Inv, stage' \in Ended,
         \/ stage' = "killed" /\ stage \notin Ended
         \/ stage \in {"next", "read"} /\ stage' # "killed",
         stage' = "nil" => sum.violations = 0,
         stage' = "recall" => sum.violations > 0,
         UNCHANGED <<world, tree, cands, cand, orig, result, sum, left>>
  PROVE  Inv'
<1>1. TypeOK'
  BY DEF Inv, TypeOK
<1>2. Books'
  BY DEF Inv, Books, Sober
<1>3. InHand'
  BY DEF Inv, InHand, Injecting, Ended, Sober
<1>4. Tree'
  <2>1. CASE stage' # "killed"
    BY <2>1 DEF Inv, Tree, Injecting, Ended
  <2>2. CASE stage' = "killed"
    <3>1. \A f \in Files : tree[f].faults \subseteq left \cup cand
      <4>1. CASE stage \in {"next", "read"}
        BY <4>1 DEF Inv, Tree
      <4>2. CASE stage \in {"written", "ran"}
        <5>1. PICK c \in cand : TRUE
          BY <4>2 DEF Inv, InHand, Injecting
        <5>2. \A f \in Files : tree[f].faults \subseteq left \cup {c}
          BY <4>2, <5>1 DEF Inv, Tree
        <5> QED BY <5>1, <5>2
      <4> QED BY <2>2, <4>1, <4>2 DEF Inv, TypeOK
    <3>2. left = {} => \A f \in Files : tree[f].whole
      BY DEF Inv, Tree
    <3> QED BY <2>2, <3>1, <3>2 DEF Tree, Injecting
  <2> QED BY <2>1, <2>2
<1>5. Blame'
  BY DEF Inv, Blame, Blames, LeftBefore, Ended
<1> QED BY <1>1, <1>2, <1>3, <1>4, <1>5 DEF Inv

LEMMA FinishInv == Inv /\ Finish => Inv'
<1> SUFFICES ASSUME Inv, Finish PROVE Inv'
  OBVIOUS
<1>1. /\ stage = "next"
      /\ stage' \in {IF sum.violations > 0 THEN "recall" ELSE "nil", "unwritten"}
      /\ UNCHANGED <<world, tree, cands, cand, orig, result, sum, left>>
  BY DEF Finish
<1>2. sum.violations \in Nat
  BY DEF Inv, Books
<1>3. /\ stage' = "nil" => sum.violations = 0
      /\ stage' = "recall" => sum.violations > 0
  BY <1>1, <1>2
<1>4. stage' \in Ended /\ stage' # "killed"
  BY <1>1 DEF Ended
<1> QED BY <1>1, <1>3, <1>4, EndInv

LEMMA InterruptInv == Inv /\ Interrupt => Inv'
<1> SUFFICES ASSUME Inv, Interrupt PROVE Inv'
  OBVIOUS
<1>1. stage' \in Ended /\ stage' = "killed"
  BY DEF Interrupt, Ended
<1> QED BY <1>1, EndInv DEF Interrupt

LEMMA StutterInv == Inv /\ UNCHANGED vars => Inv'
<1> SUFFICES ASSUME Inv, UNCHANGED vars PROVE Inv'
  OBVIOUS
<1> USE DEF vars
<1>1. TypeOK' /\ Books'
  BY DEF Inv, TypeOK, Books, Sober
<1>2. InHand' /\ Tree' /\ Blame'
  BY DEF Inv, InHand, Blame, Tree, Blames, Sober, LeftBefore
<1> QED BY <1>1, <1>2 DEF Inv

(* Inv is inductive: whatever an injection meets, the summary, the tree    *)
(* and the result being made stay in step (mutate.go 111-135, 188-246).    *)
THEOREM Invariance == Spec => []Inv
<1>1. Init => Inv
  BY InitInv
<1>2. Inv /\ [Next]_vars => Inv'
  <2> SUFFICES ASSUME Inv, [Next]_vars PROVE Inv'
    OBVIOUS
  <2>1. ASSUME NEW c \in Fns, Inject(c) PROVE Inv'
    BY <2>1, ReadInv, ReadFailsInv, StaleOffsetInv, WriteInv, WriteFailsInv,
       RunSuiteInv, NoEventsInv, RestoreInv, RestoreFailsInv DEF Inject
  <2>2. CASE Over \/ UNCHANGED vars
    BY <2>2, StutterInv DEF Over
  <2> QED BY <2>1, <2>2, TakeInv, FinishInv, InterruptInv DEF Next
<1> QED BY <1>1, <1>2, PTL DEF Spec

-----------------------------------------------------------------------------
(* The state of a mutation run keeps to its types, and skipped candidates  *)
(* accuse no test (mutate.go 50-75, 188-246).                              *)
THEOREM TypeCorrect == Spec => []TypeOK
<1>1. Inv => TypeOK
  BY DEF Inv
<1> QED BY <1>1, Invariance, PTL

(* The figures agree with one another and with how the command ends,       *)
(* however many candidates were skipped, whether I/O failed or not         *)
(* (mutate.go 111-135, 236-244; whichtests-mutate/main.go 53-89).          *)
THEOREM Figures == Spec => []TallyRight
<1>1. Inv => TallyRight
  BY DEF Inv, Books, TallyRight
<1> QED BY <1>1, Invariance, PTL

(* The only fault in the tree is that of the candidate at hand, and none   *)
(* is left between two of them, but for those whose file could not be      *)
(* written or put back (mutate.go 192-216).                                *)
THEOREM Isolation == Spec => []OneFault
<1>1. ASSUME Inv PROVE OneFault
  <2>1. stage \in {"next"} \cup Injecting \cup Ended
    BY <1>1 DEF Inv, TypeOK, Injecting
  <2>2. left = {} => \A f \in Files : tree[f].whole
    BY <1>1 DEF Inv, Tree
  <2>3. CASE stage \in {"next", "read"} \cup (Ended \ {"killed"})
    <3>1. \A f \in Files : tree[f].faults \subseteq left
      BY <1>1, <2>3 DEF Inv, Tree
    <3> QED BY <2>2, <3>1 DEF OneFault, Faults
  <2>4. CASE stage \in {"written", "ran"}
    <3>1. PICK c \in cand : TRUE
      BY <1>1, <2>4 DEF Inv, InHand, Injecting
    <3>2. \A f \in Files : tree[f].faults \subseteq left \cup {c}
      BY <1>1, <2>4, <3>1 DEF Inv, Tree
    <3> QED BY <2>4, <2>2, <3>1, <3>2 DEF OneFault, Faults, Ended
  <2>5. CASE stage = "killed"
    BY <1>1, <2>5, <2>2 DEF Inv, Tree, OneFault, Faults, Ended
  <2> QED BY <2>1, <2>3, <2>4, <2>5 DEF Injecting, Ended
<1> QED BY <1>1, Invariance, PTL

(* Whatever fails in between, a candidate is blamed only for tests that    *)
(* execute its fault, are broken anyway, or execute a fault that an        *)
(* earlier candidate left behind because its file could not be written or  *)
(* put back (mutate.go 211-240).                                           *)
THEOREM Attribution == Spec => []BlameRight
<1>1. Inv => BlameRight
  BY DEF Inv, Blame, Blames, BlameRight
<1> QED BY <1>1, Invariance, PTL
=============================================================================
