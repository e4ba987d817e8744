-------------------------------- MODULE GitDiffProofs --------------------------------
(***************************************************************************)
(* Changed places every hunk of a legible diff where the change is, for    *)
(* any diff; and Modules leaves no changed version out, for any diff of    *)
(* go.mod and go.sum.                                                      *)
(***************************************************************************)
EXTENDS ModuleDiff, SequenceTheorems, TLAPS

(***************************************************************************)
(* Changed. A hunk belongs to the file whose header came last, so the      *)
(* invariant has whose that is while the lines of a change are read.       *)
(***************************************************************************)
(* A file whose hunks count, and whose diff can be read. *)
Exact(c) == Legible(c) /\ c.how \in {"edit", "create"}

(* The lines of change i are being read: its header has been, and nothing  *)
(* of a later change has.                                                  *)
Current(i) ==
  /\ <<i, 0, 2>> \in PrintedLines(i) \ unread
  /\ \A p \in PrintDiff \ unread : p[1] <= i

FileRight(i) ==
  /\ file \in {NoFile, Stray, Printed[changes[i].file]}
  /\ Exact(changes[i]) => file = changes[i].file

HunkAt(c, j) == HunkOf(c.file, NewRange(c.blocks[j]))

HunksSoFar(i) ==
  LET c == changes[i]
  IN HunksIn(c.file) = {HunkAt(c, j) : j \in {k \in DOMAIN c.blocks : <<i, k, 0>> \notin unread}}

DiffInv ==
  /\ changes \in Diffs
  /\ unread \subseteq PrintDiff
  /\ \A p \in PrintDiff \ unread, q \in unread : Precedes(p, q)
  /\ \A i \in DOMAIN changes : Current(i) => FileRight(i)
  /\ hunks \in Seq(Range(hunks))
  /\ \A i \in DOMAIN changes : Exact(changes[i]) => HunksSoFar(i)

-----------------------------------------------------------------------------
(***************************************************************************)
(* What git prints.                                                        *)
(***************************************************************************)
LEMMA DiffFacts ==
  ASSUME changes \in Diffs
  PROVE  /\ DOMAIN changes \subseteq Nat
         /\ \A i \in DOMAIN changes :
              /\ IsChange(changes[i])
              /\ DOMAIN changes[i].blocks \subseteq Nat \ {0}
         /\ \A i, j \in DOMAIN changes : i # j => changes[i].file # changes[j].file
<1>1. changes \in Seq(Range(changes))
  BY DiffsAssumption
<1>2. \A i \in DOMAIN changes : IsChange(changes[i])
  BY DiffsAssumption
<1>3. ASSUME NEW i \in DOMAIN changes PROVE DOMAIN changes[i].blocks \subseteq Nat \ {0}
  <2> DEFINE blocks == changes[i].blocks
  <2>1. blocks \in Seq(Range(blocks))
    BY <1>2 DEF IsChange
  <2> QED BY <2>1
<1> QED BY <1>1, <1>2, <1>3, DiffsAssumption

(* Where a line may be, and that a header was printed before its block.    *)
LEMMA LinePlaces ==
  ASSUME NEW i, NEW p \in PrintedLines(i)
  PROVE  /\ p[1] = i
         /\ \/ p = <<i, 0, 1>>
            \/ p = <<i, 0, 2>>
            \/ /\ <<i, 0, 2>> \in PrintedLines(i)
               /\ \E j \in DOMAIN changes[i].blocks :
                    \E k \in 0 .. changes[i].blocks[j].del + Len(changes[i].blocks[j].add) :
                      p = <<i, j, k>>
BY DEF PrintedLines

LEMMA LineFound ==
  ASSUME NEW p \in PrintDiff
  PROVE  p[1] \in DOMAIN changes /\ p \in PrintedLines(p[1])
<1>1. PICK i \in DOMAIN changes : p \in PrintedLines(i)
  BY DEF PrintDiff
<1> QED BY <1>1, LinePlaces

(* The line at p, by where p is (gitdiff.go 54-66). *)
LEMMA ChangeLine ==
  ASSUME NEW i
  PROVE  /\ LineAt(<<i, 0, 1>>) = Text
         /\ changes[i].how = "delete" => LineAt(<<i, 0, 2>>) = DevNull
         /\ changes[i].how # "delete" => LineAt(<<i, 0, 2>>) = Header(Printed[changes[i].file])
BY DEF LineAt, PrintChange

LEMMA BlockLine ==
  ASSUME changes \in Diffs, NEW i \in DOMAIN changes, NEW j \in DOMAIN changes[i].blocks,
         NEW k \in 0 .. changes[i].blocks[j].del + Len(changes[i].blocks[j].add)
  PROVE  LET b == changes[i].blocks[j]
         IN /\ k = 0 => LineAt(<<i, j, k>>) = Span(NewRange(b))
            /\ k # 0 => \/ LineAt(<<i, j, k>>) = Text
                        \/ LineAt(<<i, j, k>>) = Header(Stray) /\ ~ Legible(changes[i])
<1> DEFINE b == changes[i].blocks[j]
<1>1. j # 0 /\ b.del \in Nat /\ b.add \in Seq(Lines)
  BY DiffFacts DEF IsChange
<1>2. LineAt(<<i, j, k>>) = PrintBlock(b, k)
  BY <1>1 DEF LineAt
<1>3. ASSUME k # 0, k > b.del, b.add[k - b.del] = HeaderLine PROVE ~ Legible(changes[i])
  <2>1. k - b.del \in DOMAIN b.add
    BY <1>1, <1>3
  <2>2. HeaderLine \in Range(b.add)
    BY <1>3, <2>1 DEF Range
  <2> QED BY <2>2 DEF Legible
<1> HIDE DEF b
<1>4. /\ k = 0 => PrintBlock(b, k) = Span(NewRange(b))
      /\ k # 0 => \/ PrintBlock(b, k) = Text
                  \/ PrintBlock(b, k) = Header(Stray) /\ ~ Legible(changes[i])
  BY <1>3 DEF PrintBlock
<1> QED BY <1>2, <1>4 DEF b

LEMMA Kinds ==
  /\ \A f : Header(f).is = "header" /\ Header(f).path = f
  /\ DevNull.is = "null" /\ Text.is = "text"
  /\ \A r : Span(r).is = "range" /\ Span(r).new = r
BY DEF Header, DevNull, Text, Span

(* What parse takes a line for tells where it was. *)
LEMMA LineKinds ==
  ASSUME changes \in Diffs, NEW p \in PrintDiff, NEW i, i = p[1]
  PROVE  /\ LineAt(p).is = "header" =>
              \/ p = <<i, 0, 2>> /\ LineAt(p).path = Printed[changes[i].file]
              \/ /\ LineAt(p).path = Stray /\ ~ Legible(changes[i])
                 /\ \A k \in DOMAIN changes[i].blocks : p # <<i, k, 0>>
         /\ LineAt(p).is = "null" => p = <<i, 0, 2>> /\ changes[i].how = "delete"
         /\ LineAt(p).is = "range" =>
              \E j \in DOMAIN changes[i].blocks :
                /\ p = <<i, j, 0>> /\ LineAt(p).new = NewRange(changes[i].blocks[j])
                /\ <<i, 0, 2>> \in PrintedLines(i)
         /\ LineAt(p).is = "text" => p # <<i, 0, 2>>
         /\ LineAt(p).is # "range" => \A k \in DOMAIN changes[i].blocks : p # <<i, k, 0>>
<1>1. i \in DOMAIN changes /\ p \in PrintedLines(i)
  BY LineFound
<1>2. DOMAIN changes[i].blocks \subseteq Nat \ {0}
  BY <1>1, DiffFacts
<1>3. CASE p = <<i, 0, 1>>
  <2>1. LineAt(p).is = "text"
    BY <1>3, ChangeLine, Kinds
  <2>2. p # <<i, 0, 2>> /\ \A k : p # <<i, k, 0>>
    BY <1>3
  <2> QED BY <2>1, <2>2
<1>4. CASE p = <<i, 0, 2>>
  <2>1. \/ changes[i].how = "delete" /\ LineAt(p).is = "null"
        \/ LineAt(p).is = "header" /\ LineAt(p).path = Printed[changes[i].file]
    <3>1. CASE changes[i].how = "delete"
      <4>1. LineAt(<<i, 0, 2>>) = DevNull
        BY <3>1, ChangeLine
      <4> QED BY <1>4, <3>1, <4>1, Kinds
    <3>2. CASE changes[i].how # "delete"
      BY <1>4, <3>2, ChangeLine, Kinds
    <3> QED BY <3>1, <3>2
  <2>2. \A k : p # <<i, k, 0>>
    BY <1>4
  <2> QED BY <1>4, <2>1, <2>2
<1>5. ASSUME <<i, 0, 2>> \in PrintedLines(i), NEW j \in DOMAIN changes[i].blocks,
             NEW k \in 0 .. changes[i].blocks[j].del + Len(changes[i].blocks[j].add),
             p = <<i, j, k>>
      PROVE  /\ LineAt(p).is # "null" /\ p # <<i, 0, 2>>
             /\ LineAt(p).is = "header" => LineAt(p).path = Stray /\ ~ Legible(changes[i])
             /\ LineAt(p).is = "range" => k = 0 /\ LineAt(p).new = NewRange(changes[i].blocks[j])
             /\ LineAt(p).is # "range" => k # 0
  BY <1>1, <1>2, <1>5, BlockLine, Kinds
<1> QED BY <1>1, <1>3, <1>4, <1>5, LinePlaces

-----------------------------------------------------------------------------
(***************************************************************************)
(* parse.                                                                  *)
(***************************************************************************)

(* The conventions of a range come out as those of a hunk: one line unless *)
(* said otherwise, and none for a gap (gitdiff.go 67-110).                 *)
LEMMA HunkSays ==
  ASSUME NEW f, NEW b, b.after \in Nat, b.add \in Seq(Lines)
  PROVE  HunkOf(f, NewRange(b)) =
           IF b.add = << >>
           THEN [file |-> f, first |-> b.after + 1, last |-> b.after + 1, deletion |-> TRUE]
           ELSE [file |-> f, first |-> b.after + 1, last |-> b.after + Len(b.add),
                 deletion |-> FALSE]
<1> DEFINE n == Len(b.add)  r == NewRange(b)
<1>1. n \in Nat /\ (n = 0 <=> b.add = << >>)
  OBVIOUS
<1>2. /\ n = 0 => StartOf(r) = b.after /\ CountOf(r) = 0
      /\ n # 0 => StartOf(r) = b.after + 1 /\ CountOf(r) = n
  <2>1. CASE n = 0
    BY <2>1 DEF NewRange, StartOf, CountOf
  <2>2. CASE n = 1
    BY <2>2 DEF NewRange, StartOf, CountOf
  <2>3. CASE n \notin {0, 1}
    BY <2>3 DEF NewRange, StartOf, CountOf
  <2> QED BY <2>1, <2>2, <2>3
<1> HIDE DEF r, n
<1>3. b.after + 1 + n - 1 = b.after + n
  BY <1>1
<1>4. CASE n = 0
  BY <1>1, <1>2, <1>4 DEF HunkOf, r
<1>5. CASE n # 0
  <2>1. HunkOf(f, r) = [file |-> f, first |-> b.after + 1, last |-> b.after + 1 + n - 1,
                        deletion |-> FALSE]
    BY <1>2, <1>5 DEF HunkOf
  <2> QED BY <1>1, <1>3, <1>5, <2>1 DEF r, n
<1> QED BY <1>4, <1>5

(* The line that is scanned comes after all that were, and what is being   *)
(* read after it is its change.                                            *)
LEMMA ScanFacts ==
  ASSUME DiffInv, NEW p \in unread, Scan(p)
  PROVE  /\ UNCHANGED changes /\ unread' = unread \ {p} /\ PrintDiff' = PrintDiff
         /\ unread' \subseteq PrintDiff
         /\ \A r \in PrintDiff \ unread', q \in unread' : Precedes(r, q)
         /\ \A r \in PrintDiff \ unread : r[1] \in Nat /\ r[1] <= p[1]
         /\ \A i \in DOMAIN changes :
              Current(i)' => i = p[1] /\ (p = <<i, 0, 2>> \/ Current(i))
<1>1. UNCHANGED changes /\ unread' = unread \ {p} /\ \A q \in unread \ {p} : Precedes(p, q)
  BY DEF Scan
<1>2. /\ changes \in Diffs /\ unread \subseteq PrintDiff
      /\ \A r \in PrintDiff \ unread, q \in unread : Precedes(r, q)
  BY DEF DiffInv
<1>3. PrintDiff' = PrintDiff /\ \A i : PrintedLines(i)' = PrintedLines(i)
  BY <1>1 DEF PrintDiff, PrintedLines
<1>4. \A r \in PrintDiff : r[1] \in Nat
  BY <1>2, LineFound, DiffFacts
<1>5. \A r \in PrintDiff \ unread : r[1] <= p[1]
  BY <1>2, <1>4 DEF Precedes
<1>6. ASSUME NEW i \in DOMAIN changes, Current(i)'
      PROVE  i = p[1] /\ (p = <<i, 0, 2>> \/ Current(i))
  <2>1. /\ <<i, 0, 2>> \in PrintedLines(i) \ (unread \ {p})
        /\ \A r \in PrintDiff \ (unread \ {p}) : r[1] <= i
    BY <1>1, <1>3, <1>6 DEF Current
  <2>2. p[1] <= i /\ <<i, 0, 2>> \in PrintDiff /\ i \in Nat
    BY <1>2, <2>1, DiffFacts DEF PrintDiff
  <2>3. CASE p = <<i, 0, 2>>
    BY <2>3
  <2>4. CASE p # <<i, 0, 2>>
    <3>1. <<i, 0, 2>> \in PrintDiff \ unread
      BY <2>1, <2>2, <2>4
    <3>2. i <= p[1]
      BY <1>5, <3>1
    <3>3. Current(i)
      BY <2>1, <2>4 DEF Current
    <3> QED BY <1>2, <1>4, <2>2, <3>2, <3>3
  <2> QED BY <2>3, <2>4
<1> QED BY <1>1, <1>2, <1>3, <1>4, <1>5, <1>6

(* A line that is no range leaves the hunks as they are, and the file must *)
(* be right if it is that of the change the line is of.                    *)
LEMMA NoRangeInv ==
  ASSUME DiffInv, NEW p \in unread, Scan(p), LineAt(p).is # "range", UNCHANGED hunks,
         p[1] \in DOMAIN changes /\ (p = <<p[1], 0, 2>> \/ Current(p[1])) =>
           /\ file' \in {NoFile, Stray, Printed[changes[p[1]].file]}
           /\ Exact(changes[p[1]]) => file' = changes[p[1]].file
  PROVE  DiffInv'
<1>1. /\ UNCHANGED changes /\ unread' = unread \ {p} /\ PrintDiff' = PrintDiff
      /\ unread' \subseteq PrintDiff
      /\ \A r \in PrintDiff \ unread', q \in unread' : Precedes(r, q)
      /\ \A i \in DOMAIN changes : Current(i)' => i = p[1] /\ (p = <<i, 0, 2>> \/ Current(i))
  BY ScanFacts
<1>2. \A c : Exact(c)' <=> Exact(c)
  BY <1>1 DEF Exact, Legible, Changes
<1>3. \A i \in DOMAIN changes : Current(i)' => FileRight(i)'
  BY <1>1, <1>2 DEF FileRight
<1>4. ASSUME NEW i \in DOMAIN changes, Exact(changes[i]) PROVE HunksSoFar(i)'
  <2>1. p \in PrintDiff /\ changes \in Diffs
    BY DEF DiffInv
  <2>2. \A k \in DOMAIN changes[i].blocks : p # <<i, k, 0>>
    BY <2>1, LineKinds
  <2>3. {k \in DOMAIN changes[i].blocks : <<i, k, 0>> \notin unread'}
          = {k \in DOMAIN changes[i].blocks : <<i, k, 0>> \notin unread}
    BY <1>1, <2>2
  <2>4. HunksIn(changes[i].file)' = HunksIn(changes[i].file)
    BY <1>1 DEF HunksIn
  <2>5. HunksSoFar(i)
    BY <1>4 DEF DiffInv
  <2>6. HunksIn(changes[i].file)' = {HunkAt(changes[i], j) :
           j \in {k \in DOMAIN changes[i].blocks : <<i, k, 0>> \notin unread'}}
    BY <2>3, <2>4, <2>5 DEF HunksSoFar
  <2> QED BY <1>1, <2>6 DEF HunksSoFar, HunkAt
<1> QED BY <1>1, <1>2, <1>3, <1>4 DEF DiffInv

LEMMA HeaderInv == ASSUME DiffInv, NEW p \in unread, FileLine(p) PROVE DiffInv'
<1> DEFINE i == p[1]
<1>1. /\ Scan(p) /\ LineAt(p).is = "header" /\ file' = LineAt(p).path /\ UNCHANGED hunks
      /\ changes \in Diffs /\ p \in PrintDiff
  BY DEF FileLine, DiffInv
<1>2. \/ LineAt(p).path = Printed[changes[i].file]
      \/ LineAt(p).path = Stray /\ ~ Legible(changes[i])
  BY <1>1, LineKinds
<1>3. /\ file' \in {NoFile, Stray, Printed[changes[i].file]}
      /\ Exact(changes[i]) => file' = changes[i].file
  BY <1>1, <1>2 DEF Exact, Legible
<1> QED BY <1>1, <1>3, NoRangeInv

LEMMA NullInv == ASSUME DiffInv, NEW p \in unread, NullLine(p) PROVE DiffInv'
<1>1. /\ Scan(p) /\ LineAt(p).is = "null" /\ file' = NoFile /\ UNCHANGED hunks
      /\ changes \in Diffs /\ p \in PrintDiff
  BY DEF NullLine, DiffInv
<1>2. changes[p[1]].how = "delete"
  BY <1>1, LineKinds
<1>3. ~ Exact(changes[p[1]])
  BY <1>2 DEF Exact
<1> QED BY <1>1, <1>3, NoRangeInv

LEMMA OtherInv == ASSUME DiffInv, NEW p \in unread, OtherLine(p) PROVE DiffInv'
<1>1. /\ Scan(p) /\ LineAt(p).is = "text" /\ UNCHANGED <<file, hunks>>
      /\ changes \in Diffs /\ p \in PrintDiff
  BY DEF OtherLine, DiffInv
<1>2. p # <<p[1], 0, 2>>
  BY <1>1, LineKinds
<1>3. \A i \in DOMAIN changes : Current(i) => FileRight(i)
  BY DEF DiffInv
<1> QED BY <1>1, <1>2, <1>3, NoRangeInv DEF FileRight

(* A sequence with one element more. *)
LEMMA OneMore ==
  ASSUME NEW s, s \in Seq(Range(s)), NEW x
  PROVE  /\ Append(s, x) \in Seq(Range(Append(s, x)))
         /\ Range(Append(s, x)) = Range(s) \cup {x}
<1> DEFINE S == Range(s) \cup {x}
<1>1. s \in Seq(S) /\ <<x>> \in Seq(S) /\ Range(<<x>>) = {x}
  BY DEF Range
<1>2. Append(s, x) \in Seq(S) /\ Append(s, x) = s \o <<x>>
  BY <1>1, AppendProperties, AppendIsConcat
<1>3. Append(s, x) \in Seq(Range(Append(s, x)))
  BY <1>2, SeqOfRange
<1>4. Range(s \o <<x>>) = Range(s) \cup Range(<<x>>)
  BY <1>1, RangeConcatenation
<1> QED BY <1>1, <1>2, <1>3, <1>4

(* A range counts for the file whose header came last, and that is the     *)
(* file it is of, or none that is read by its own name.                    *)
LEMMA RangeInv == ASSUME DiffInv, NEW p \in unread, RangeLine(p) PROVE DiffInv'
<1> DEFINE i0 == p[1]
<1>1. /\ Scan(p) /\ LineAt(p).is = "range" /\ UNCHANGED file
      /\ hunks' = IF file = NoFile THEN hunks ELSE Append(hunks, HunkOf(file, LineAt(p).new))
      /\ changes \in Diffs /\ p \in PrintDiff /\ i0 \in DOMAIN changes
  BY LineFound DEF RangeLine, DiffInv
<1>2. PICK j0 \in DOMAIN changes[i0].blocks :
        /\ p = <<i0, j0, 0>> /\ LineAt(p).new = NewRange(changes[i0].blocks[j0])
        /\ <<i0, 0, 2>> \in PrintedLines(i0)
  BY <1>1, LineKinds
<1>3. /\ UNCHANGED changes /\ unread' = unread \ {p} /\ PrintDiff' = PrintDiff
      /\ unread' \subseteq PrintDiff
      /\ \A r \in PrintDiff \ unread', q \in unread' : Precedes(r, q)
      /\ \A r \in PrintDiff \ unread : r[1] <= i0
      /\ \A i \in DOMAIN changes : Current(i)' => i = i0 /\ (p = <<i, 0, 2>> \/ Current(i))
  BY <1>1, ScanFacts
<1>4. j0 \in Nat \ {0} /\ i0 \in Nat
  BY <1>1, DiffFacts
<1>5. Current(i0)
  <2>1. ~ Precedes(p, <<i0, 0, 2>>) /\ p # <<i0, 0, 2>>
    BY <1>2, <1>4 DEF Precedes
  <2>2. <<i0, 0, 2>> \notin unread
    BY <1>1, <2>1 DEF Scan
  <2> QED BY <1>2, <1>3, <2>2 DEF Current
<1>6. /\ file \in {NoFile, Stray, Printed[changes[i0].file]}
      /\ Exact(changes[i0]) => file = changes[i0].file
  BY <1>1, <1>5 DEF DiffInv, FileRight
<1>7. \A c : Exact(c)' <=> Exact(c)
  BY <1>3 DEF Exact, Legible, Changes
<1>8. \A i \in DOMAIN changes : Current(i)' => FileRight(i)'
  BY <1>1, <1>3, <1>5, <1>6, <1>7 DEF FileRight
<1> DEFINE new == HunkOf(file, NewRange(changes[i0].blocks[j0]))
<1>9. /\ hunks' \in Seq(Range(hunks'))
      /\ Range(hunks') = IF file = NoFile THEN Range(hunks) ELSE Range(hunks) \cup {new}
  BY <1>1, <1>2, OneMore DEF DiffInv
<1>10. new.file = file
  BY DEF HunkOf
<1>11. ASSUME NEW i \in DOMAIN changes, Exact(changes[i]) PROVE HunksSoFar(i)'
  <2> DEFINE c == changes[i]
             done(u) == {k \in DOMAIN c.blocks : <<i, k, 0>> \notin u}
  <2>1. HunksIn(c.file) = {HunkAt(c, j) : j \in done(unread)}
    BY <1>11 DEF DiffInv, HunksSoFar
  <2>2. c.file \in Files /\ c.file # NoFile /\ c.file # Stray
    BY <1>1, DiffFacts, DiffsAssumption DEF IsChange
  <2>3. CASE i = i0
    <3>1. file = c.file /\ new = HunkAt(c, j0)
      BY <1>6, <1>11, <2>3 DEF HunkAt
    <3>2. done(unread') = done(unread) \cup {j0}
      BY <1>2, <1>3, <2>3
    <3>3. HunksIn(c.file)' = HunksIn(c.file) \cup {new}
      BY <1>3, <1>9, <1>10, <2>2, <3>1 DEF HunksIn
    <3>4. HunksIn(c.file)' = {HunkAt(c, j) : j \in done(unread')}
      BY <2>1, <3>1, <3>2, <3>3
    <3> QED BY <1>3, <3>4 DEF HunksSoFar, HunkAt
  <2>4. CASE i # i0
    <3>1. file # c.file
      <4>1. c.file # changes[i0].file /\ changes[i0] \in Changes
        BY <1>1, <2>4, DiffFacts DEF Changes, Range
      <4> QED BY <1>6, <1>11, <2>2, <4>1 DEF Exact, Legible
    <3>2. done(unread') = done(unread)
      BY <1>2, <1>3, <2>4
    <3>3. HunksIn(c.file)' = HunksIn(c.file)
      BY <1>3, <1>9, <1>10, <3>1 DEF HunksIn
    <3>4. HunksIn(c.file)' = {HunkAt(c, j) : j \in done(unread')}
      BY <2>1, <3>2, <3>3
    <3> QED BY <1>3, <3>4 DEF HunksSoFar, HunkAt
  <2> QED BY <2>3, <2>4
<1> QED BY <1>3, <1>7, <1>8, <1>9, <1>11 DEF DiffInv

LEMMA ParseStart == ASSUME changes \in Diffs, ParseInit PROVE DiffInv
<1>1. unread = PrintDiff /\ file = NoFile /\ hunks = << >>
  BY DEF ParseInit
<1>2. ASSUME NEW i \in DOMAIN changes PROVE PrintedLines(i) \subseteq unread
  BY <1>1 DEF PrintDiff
<1>3. \A i \in DOMAIN changes : ~ Current(i)
  BY <1>2 DEF Current
<1>4. Range(hunks) = {} /\ hunks \in Seq(Range(hunks))
  BY <1>1 DEF Range
<1>5. ASSUME NEW i \in DOMAIN changes, Exact(changes[i]) PROVE HunksSoFar(i)
  <2> DEFINE c == changes[i]
  <2>1. c.how # "untracked" /\ c.how # "bare"
    BY <1>5 DEF Exact
  <2>2. \A k \in DOMAIN c.blocks : c.blocks[k].del \in Nat /\ Len(c.blocks[k].add) \in Nat
    BY DiffFacts DEF IsChange
  <2>3. \A k \in DOMAIN c.blocks : <<i, k, 0>> \in PrintedLines(i)
    BY <2>1, <2>2 DEF PrintedLines
  <2>4. {k \in DOMAIN c.blocks : <<i, k, 0>> \notin unread} = {}
    BY <1>2, <2>3
  <2> QED BY <1>4, <2>4 DEF HunksSoFar, HunksIn
<1> QED BY <1>1, <1>3, <1>4, <1>5 DEF DiffInv

LEMMA ParseStutter == ASSUME DiffInv, UNCHANGED vars PROVE DiffInv'
<1>1. UNCHANGED <<changes, unread, file, hunks>>
  BY DEF vars
<1>2. PrintDiff' = PrintDiff /\ \A c : Exact(c)' <=> Exact(c)
  BY <1>1 DEF PrintDiff, PrintedLines, Exact, Legible, Changes
<1>3. \A i : /\ Current(i)' <=> Current(i)
             /\ FileRight(i)' <=> FileRight(i)
             /\ HunksSoFar(i)' <=> HunksSoFar(i)
  BY <1>1, <1>2 DEF Current, PrintedLines, FileRight, HunksSoFar, HunksIn, HunkAt
<1> QED BY <1>1, <1>2, <1>3 DEF DiffInv

LEMMA ParseStep == ASSUME DiffInv, [ModNext]_<<vars, modVars>> PROVE DiffInv'
<1>1. Next \/ UNCHANGED vars
  BY DEF ModNext, Done
<1> QED BY <1>1, HeaderInv, NullInv, RangeInv, OtherInv, ParseStutter DEF Next, Return

(* The hunks of a change, once all of its ranges were read. *)
LEMMA HunksRight ==
  ASSUME DiffInv, Returned, NEW c \in Changes, Exact(c)
  PROVE  LET found == HunksIn(c.file)
         IN /\ Covered({h \in found : ~ h.deletion}) = Added(c)
            /\ Covered({h \in found : h.deletion}) = Following(c)
<1>1. PICK i \in DOMAIN changes : c = changes[i]
  BY DEF Changes, Range
<1>2. IsChange(c)
  BY <1>1, DiffFacts DEF DiffInv
<1> DEFINE at(j) == c.blocks[j]
           gap(j) == at(j).add = << >>
           found == HunksIn(c.file)
<1>3. \A j \in DOMAIN c.blocks : at(j).after \in Nat /\ at(j).add \in Seq(Lines)
  BY <1>2 DEF IsChange
<1>4. found = {HunkAt(c, j) : j \in DOMAIN c.blocks}
  <2>1. {k \in DOMAIN c.blocks : <<i, k, 0>> \notin unread} = DOMAIN c.blocks
    BY DEF Returned
  <2> QED BY <1>1, <2>1 DEF DiffInv, HunksSoFar
<1>5. ASSUME NEW j \in DOMAIN c.blocks
      PROVE  LET h == HunkAt(c, j)
             IN /\ h.first = at(j).after + 1
                /\ gap(j) => h.deletion = TRUE /\ h.last = at(j).after + 1
                /\ ~ gap(j) => h.deletion = FALSE /\ h.last = at(j).after + Len(at(j).add)
  <2>1. HunkAt(c, j) =
          IF gap(j)
          THEN [file |-> c.file, first |-> at(j).after + 1, last |-> at(j).after + 1,
                deletion |-> TRUE]
          ELSE [file |-> c.file, first |-> at(j).after + 1,
                last |-> at(j).after + Len(at(j).add), deletion |-> FALSE]
    BY <1>3, HunkSays DEF HunkAt
  <2>2. CASE gap(j)
    BY <2>1, <2>2
  <2>3. CASE ~ gap(j)
    BY <2>1, <2>3
  <2> QED BY <2>2, <2>3
<1> HIDE DEF at, found
<1>6. Covered({h \in found : ~ h.deletion}) = Added(c)
  <2>1. Covered({h \in found : ~ h.deletion})
          = UNION {HunkAt(c, j).first .. HunkAt(c, j).last :
                     j \in {k \in DOMAIN c.blocks : ~ HunkAt(c, k).deletion}}
    BY <1>4 DEF Covered
  <2>2. Added(c) = UNION {at(j).after + 1 .. at(j).after + Len(at(j).add) : j \in DOMAIN c.blocks}
    BY DEF Added, at
  <2>3. \A j \in DOMAIN c.blocks :
          gap(j) => at(j).after + 1 .. at(j).after + Len(at(j).add) = {}
    BY <1>3
  <2>4. \A j \in DOMAIN c.blocks :
          ~ gap(j) => HunkAt(c, j).first .. HunkAt(c, j).last
                        = at(j).after + 1 .. at(j).after + Len(at(j).add)
    BY <1>5
  <2> HIDE DEF gap
  <2> QED BY <1>5, <2>1, <2>2, <2>3, <2>4
<1>7. Covered({h \in found : h.deletion}) = Following(c)
  <2>1. Covered({h \in found : h.deletion})
          = UNION {HunkAt(c, j).first .. HunkAt(c, j).last :
                     j \in {k \in DOMAIN c.blocks : HunkAt(c, k).deletion}}
    BY <1>4 DEF Covered
  <2>2. Following(c) = {at(j).after + 1 : j \in {k \in DOMAIN c.blocks : gap(k)}}
    BY DEF Following, at
  <2>3. \A j \in DOMAIN c.blocks :
          gap(j) => HunkAt(c, j).first .. HunkAt(c, j).last = {at(j).after + 1}
    <3>1. \A n \in Nat : n + 1 .. n + 1 = {n + 1}
      OBVIOUS
    <3> HIDE DEF gap
    <3> QED BY <1>3, <1>5, <3>1
  <2> HIDE DEF gap
  <2>4. {k \in DOMAIN c.blocks : HunkAt(c, k).deletion} = {k \in DOMAIN c.blocks : gap(k)}
    BY <1>5
  <2>5. Covered({h \in found : h.deletion})
          = UNION {{at(j).after + 1} : j \in {k \in DOMAIN c.blocks : gap(k)}}
    BY <2>1, <2>3, <2>4
  <2> QED BY <2>2, <2>5
<1> QED BY <1>6, <1>7 DEF found

-----------------------------------------------------------------------------
(***************************************************************************)
(* Modules. What counts is a set of modules, so a line that was scanned    *)
(* has done its work if the set, or the wildcard, has what it stands for;  *)
(* which line it was does not matter any more.                             *)
(***************************************************************************)
Scanned == Range(DiffLines(entries))

Counting(line) == line.sign \in {"+", "-"}

Says(line) == moduleOfLine(line.words)

Heeded(line) ==
  Counting(line) =>
    /\ Says(line) = Everything => wildcard
    /\ Says(line) \notin {Everything, Nothing} => Says(line) \in modules

ModInv ==
  /\ entries \in ModDiffs
  /\ modLines \in Seq(Scanned)
  /\ \A line \in Scanned : line \in Range(modLines) \/ Heeded(line)
  /\ \A m \in modules : \E line \in Scanned :
       Counting(line) /\ Says(line) = m /\ m \notin {Everything, Nothing}
  /\ touched = (DiffLines(entries) # << >>)
  /\ returned => modLines = << >> /\ (DiffLines(entries) # << >> => modules # {} \/ wildcard)

-----------------------------------------------------------------------------
(***************************************************************************)
(* Lines.                                                                  *)
(***************************************************************************)
(* Keywords are told apart. *)
LEMMA Distinct ==
  /\ \A v \in Verbs : v \notin {Open, Close, Arrow, Everything, Nothing}
  /\ Everything # Nothing
BY DEF Verbs, Open, Close, Arrow, Everything, Nothing

Leading == {"require", "exclude", "replace", "retract"}

(* Without a keyword in front the words are those that name. *)
LEMMA PlainSays ==
  ASSUME NEW S, NEW words \in Seq(S), words # << >>, Head(words) \notin Keywords
  PROVE  moduleOfLine(words) = IF NamesModule(words) THEN words[1] ELSE Nothing
<1>1. Head(words) \notin Verbs /\ Head(words) # Open /\ Head(words) # Close
  BY DEF Keywords
<1>2. Head(<<Open>>) = Open /\ Head(<<Close>>) = Close
  OBVIOUS
<1>3. words \notin {<< >>, <<Open>>, <<Close>>}
  BY <1>1, <1>2
<1>4. Operands(words) = words
  BY <1>1 DEF Operands, Verbs
<1>5. Head(words) \notin {"go", "toolchain"} /\ Head(words) # "module"
  BY <1>1 DEF Verbs
<1> QED BY <1>3, <1>4, <1>5 DEF moduleOfLine

(* With one of these they come after it. *)
LEMMA LeadingSays ==
  ASSUME NEW verb \in Leading, NEW S, NEW words \in Seq(S)
  PROVE  moduleOfLine(<<verb>> \o words) = IF NamesModule(words) THEN words[1] ELSE Nothing
<1> DEFINE line == <<verb>> \o words
<1>1. verb # Open /\ verb # Close /\ verb \notin {"go", "toolchain"} /\ verb # "module"
  BY Distinct DEF Leading, Verbs
<1>2. Head(line) = verb /\ Tail(line) = words /\ line # << >>
  OBVIOUS
<1>3. Head(<<Open>>) = Open /\ Head(<<Close>>) = Close
  OBVIOUS
<1>4. line \notin {<< >>, <<Open>>, <<Close>>}
  BY <1>1, <1>2, <1>3
<1>5. Operands(line) = words
  BY <1>2 DEF Operands, Leading
<1> HIDE DEF line
<1>6. moduleOfLine(line) = IF NamesModule(words) THEN words[1] ELSE Nothing
  BY <1>1, <1>2, <1>4, <1>5 DEF moduleOfLine
<1> QED BY <1>6 DEF line

LEMMA LedSays ==
  ASSUME NEW e \in Entry, NEW verb \in Leading, NEW S, NEW words \in Seq(S),
         words # << >>, Head(words) \notin Keywords
  PROVE  moduleOfLine(Led(e, verb, words)) = IF NamesModule(words) THEN words[1] ELSE Nothing
BY PlainSays, LeadingSays DEF Led

Meant(e) ==
  IF e.verb \in ByVersion THEN e.module
  ELSE IF e.verb = "retractRange" THEN RangeStart
  ELSE IF e.verb \in {"go", "toolchain"} THEN Everything ELSE Nothing

(* What moduleOfLine makes of a line as the go command writes it, in a     *)
(* block or out of one (gitdiff.go 191-224).                               *)
LEMMA LineSays ==
  ASSUME NEW e \in Entry
  PROVE  moduleOfLine(Words(e)) = Meant(e)
<1> USE DEF Meant
<1>1. /\ e.module \in Modules /\ e.verb \in Verbs
      /\ e.module \notin Keywords /\ RangeStart \notin Keywords /\ Version \notin Keywords
      /\ IsPath(e.module) /\ IsPath(RangeStart) /\ \A w \in Verbs : ~ IsPath(w)
      /\ IsVersion(Version) /\ IsVersion(RangeEnd) /\ ~ IsVersion(Arrow)
  BY WordsAssumption DEF Entry, IsPath, IsVersion, Keywords
<1>2. CASE e.verb \in {"require", "exclude"}
  <2> DEFINE words == <<e.module, Version>>
  <2>1. words \in Seq({e.module, Version}) /\ words # << >> /\ Head(words) = e.module
        /\ NamesModule(words) /\ words[1] = e.module
    BY <1>1 DEF NamesModule
  <2>2. Words(e) = Led(e, e.verb, words) /\ e.verb \in Leading
    BY <1>2 DEF Words, Leading
  <2> HIDE DEF words
  <2> QED BY <1>1, <1>2, <2>1, <2>2, LedSays DEF ByVersion
<1>3. CASE e.verb = "sum"
  <2> DEFINE words == <<e.module, Version, Hash>>
  <2>1. words \in Seq({e.module, Version, Hash}) /\ words # << >> /\ Head(words) = e.module
        /\ NamesModule(words) /\ words[1] = e.module
    BY <1>1 DEF NamesModule
  <2>2. Words(e) = words
    BY <1>3 DEF Words
  <2> HIDE DEF words
  <2> QED BY <1>1, <1>3, <2>1, <2>2, PlainSays DEF ByVersion
<1>4. CASE e.verb = "replace"
  <2> DEFINE words == <<e.module, Version, Arrow, e.module, Version>>
  <2>1. words \in Seq({e.module, Version, Arrow}) /\ words # << >> /\ Head(words) = e.module
        /\ NamesModule(words) /\ words[1] = e.module
    BY <1>1 DEF NamesModule
  <2>2. Words(e) = Led(e, "replace", words) /\ "replace" \in Leading
    BY <1>4 DEF Words, Leading
  <2> HIDE DEF words
  <2> QED BY <1>1, <1>4, <2>1, <2>2, LedSays DEF ByVersion
<1>5. CASE e.verb = "replaceLocal"
  <2> DEFINE words == <<e.module, Version, Arrow, Directory>>
  <2>1. words \in Seq({e.module, Version, Arrow, Directory}) /\ words # << >>
        /\ Head(words) = e.module /\ NamesModule(words) /\ words[1] = e.module
    BY <1>1 DEF NamesModule
  <2>2. Words(e) = Led(e, "replace", words) /\ "replace" \in Leading
    BY <1>5 DEF Words, Leading
  <2> HIDE DEF words
  <2> QED BY <1>1, <1>5, <2>1, <2>2, LedSays DEF ByVersion
<1>6. CASE e.verb = "replaceEvery"
  <2> DEFINE words == <<e.module, Arrow, e.module, Version>>
  <2>1. words \in Seq({e.module, Arrow, Version}) /\ words # << >>
        /\ Head(words) = e.module /\ ~ NamesModule(words)
    BY <1>1 DEF NamesModule
  <2>2. Words(e) = Led(e, "replace", words) /\ "replace" \in Leading
    BY <1>6 DEF Words, Leading
  <2> HIDE DEF words
  <2> QED BY <1>1, <1>6, <2>1, <2>2, LedSays DEF ByVersion
<1>7. CASE e.verb = "replaceEveryLocal"
  <2> DEFINE words == <<e.module, Arrow, Directory>>
  <2>1. words \in Seq({e.module, Arrow, Directory}) /\ words # << >>
        /\ Head(words) = e.module /\ ~ NamesModule(words)
    BY <1>1 DEF NamesModule
  <2>2. Words(e) = Led(e, "replace", words) /\ "replace" \in Leading
    BY <1>7 DEF Words, Leading
  <2> HIDE DEF words
  <2> QED BY <1>1, <1>7, <2>1, <2>2, LedSays DEF ByVersion
<1>8. CASE e.verb = "retractRange"
  <2> DEFINE words == <<RangeStart, RangeEnd>>
  <2>1. words \in Seq({RangeStart, RangeEnd}) /\ words # << >>
        /\ Head(words) = RangeStart /\ NamesModule(words) /\ words[1] = RangeStart
    BY <1>1 DEF NamesModule
  <2>2. Words(e) = Led(e, "retract", words) /\ "retract" \in Leading
    BY <1>8 DEF Words, Leading
  <2> HIDE DEF words
  <2> QED BY <1>1, <1>8, <2>1, <2>2, LedSays DEF ByVersion
<1>9. CASE e.verb = "retract"
  <2> DEFINE words == <<Version>>
  <2>1. words \in Seq({Version}) /\ words # << >> /\ Head(words) = Version
        /\ ~ NamesModule(words)
    BY DEF NamesModule
  <2>2. Words(e) = Led(e, "retract", words) /\ "retract" \in Leading
    BY <1>9 DEF Words, Leading
  <2> HIDE DEF words
  <2> QED BY <1>1, <1>9, <2>1, <2>2, LedSays DEF ByVersion
<1>10. CASE e.verb \in {"go", "toolchain", "godebug", "tool", "module"}
  <2> DEFINE words == <<e.verb, Name>>
  <2>1. Words(e) = words
    BY <1>10 DEF Words
  <2>2. Len(words) = 2 /\ words[1] = e.verb /\ Head(words) = e.verb
        /\ words \notin {<< >>, <<Open>>, <<Close>>}
    OBVIOUS
  <2>3. Operands(words) = words
    BY <1>10, <2>2 DEF Operands
  <2>4. ~ NamesModule(words)
    BY <1>1, <2>2 DEF NamesModule
  <2> HIDE DEF words
  <2> QED BY <1>10, <2>1, <2>2, <2>3, <2>4 DEF moduleOfLine, ByVersion
<1>11. CASE e.verb = "open"
  <2> DEFINE words == <<Open>>
  <2>1. words \in Seq({Open}) /\ ~ NamesModule(words)
    BY DEF NamesModule
  <2>2. Words(e) = <<"require">> \o words /\ "require" \in Leading
    BY <1>11 DEF Words, Leading
  <2> HIDE DEF words
  <2> QED BY <1>11, <2>1, <2>2, LeadingSays DEF ByVersion
<1>12. CASE e.verb = "comment"
  <2>1. Words(e) = << >>
    BY <1>12 DEF Words
  <2> QED BY <1>12, <2>1 DEF moduleOfLine, ByVersion
<1> QED BY <1>1, <1>2, <1>3, <1>4, <1>5, <1>6, <1>7, <1>8, <1>9, <1>10, <1>11, <1>12
        DEF Verbs

Line(e) == [sign |-> e.sign, words |-> Words(e)]

(* The lines that count are those of the entries. *)
LEMMA LinesOf ==
  ASSUME NEW d \in Seq(Entry)
  PROVE  /\ DiffLines(d) \in Seq(Range(DiffLines(d)))
         /\ \A i \in DOMAIN d : Line(d[i]) \in Range(DiffLines(d)) /\ Counting(Line(d[i]))
         /\ \A line \in Range(DiffLines(d)) :
              Counting(line) => \E i \in DOMAIN d : line = Line(d[i])
<1>1. CASE d = << >>
  BY <1>1 DEF DiffLines, Range
<1>2. CASE d # << >>
  <2> DEFINE first == [sign |-> "header", words |-> << >>]
             second == [sign |-> "@", words |-> << >>]
             rest == [i \in DOMAIN d |-> Line(d[i])]
             all == {first, second} \cup Range(rest)
  <2>1. DiffLines(d) = <<first, second>> \o rest
    BY <1>2 DEF DiffLines, Line
  <2>2. DOMAIN d = 1 .. Len(d) /\ Len(d) \in Nat
    OBVIOUS
  <2>3. rest \in Seq(all) /\ <<first, second>> \in Seq(all)
    BY <2>2 DEF Range
  <2>4. \A q, r \in Seq(all) : q \o r \in Seq(all) /\ Range(q \o r) = Range(q) \cup Range(r)
    BY RangeConcatenation, ConcatProperties
  <2>5. Range(<<first, second>>) = {first, second}
    BY DEF Range
  <2>6. ~ Counting(first) /\ ~ Counting(second)
    BY DEF Counting
  <2>7. \A i \in DOMAIN d : Counting(Line(d[i])) /\ rest[i] = Line(d[i])
    <3>1. \A e \in Entry : Counting(Line(e))
      BY DEF Counting, Line, Entry
    <3> QED BY <3>1
  <2>8. \A line \in Range(rest) : \E i \in DOMAIN d : line = Line(d[i])
    BY DEF Range
  <2>9. \A i \in DOMAIN d : Line(d[i]) \in Range(rest)
    BY <2>7 DEF Range
  <2> HIDE DEF first, second, rest
  <2>10. Range(DiffLines(d)) = all
    BY <2>1, <2>3, <2>4, <2>5
  <2>11. DiffLines(d) \in Seq(all)
    BY <2>1, <2>3, <2>4
  <2> QED BY <2>6, <2>7, <2>8, <2>9, <2>10, <2>11
<1> QED BY <1>1, <1>2

-----------------------------------------------------------------------------
(***************************************************************************)
(* The loop.                                                               *)
(***************************************************************************)
LEMMA InitInv == ModInit => ModInv
<1> SUFFICES ASSUME ModInit PROVE ModInv
  OBVIOUS
<1>1. /\ entries \in ModDiffs /\ modLines = DiffLines(entries) /\ modules = {}
      /\ touched = (modLines # << >>) /\ returned = (modLines = << >>)
  BY QuestionsAssumption DEF ModInit
<1>2. modLines \in Seq(Scanned)
  BY <1>1, QuestionsAssumption, LinesOf DEF Scanned
<1> QED BY <1>1, <1>2 DEF ModInv, Scanned

(* The line that is scanned, and those that are left. *)
LEMMA OneLess ==
  ASSUME ModInv, ModScan
  PROVE  /\ Head(modLines) \in Scanned
         /\ modLines' \in Seq(Scanned)
         /\ Range(modLines) = {Head(modLines)} \cup Range(modLines')
<1>1. /\ modLines \in Seq(Scanned) /\ modLines # << >> /\ modLines' = Tail(modLines)
  BY DEF ModInv, ModScan
<1>2. /\ Head(modLines) \in Scanned /\ <<Head(modLines)>> \in Seq(Scanned)
      /\ Tail(modLines) \in Seq(Scanned)
      /\ modLines = <<Head(modLines)>> \o Tail(modLines)
  BY <1>1
<1>3. \A q, r \in Seq(Scanned) : Range(q \o r) = Range(q) \cup Range(r)
  BY RangeConcatenation
<1>4. Range(<<Head(modLines)>>) = {Head(modLines)}
  BY DEF Range
<1> QED BY <1>1, <1>2, <1>3, <1>4

(* A line that was scanned and heeded, while nothing is taken back. *)
LEMMA ScanInv ==
  ASSUME ModInv, ModScan, UNCHANGED <<entries, touched, returned>>,
         NEW line, line = Head(modLines),
         Counting(line) => /\ Says(line) = Everything => wildcard'
                           /\ Says(line) \notin {Everything, Nothing} => Says(line) \in modules',
         modules \subseteq modules', wildcard => wildcard',
         \A m \in modules' \ modules :
           Counting(line) /\ Says(line) = m /\ m \notin {Everything, Nothing}
  PROVE  ModInv'
<1>1. Scanned' = Scanned /\ DiffLines(entries)' = DiffLines(entries)
  BY DEF Scanned
<1>2. line \in Scanned /\ modLines' \in Seq(Scanned)
      /\ Range(modLines) = {line} \cup Range(modLines')
  BY OneLess
<1>3. ASSUME NEW l \in Scanned PROVE l \in Range(modLines') \/ Heeded(l)'
  <2>1. CASE l = line
    BY <2>1 DEF Heeded
  <2>2. CASE l # line
    <3>1. l \in Range(modLines') \/ Heeded(l)
      BY <1>2, <2>2 DEF ModInv
    <3>2. Heeded(l) => Heeded(l)'
      BY DEF Heeded
    <3> QED BY <3>1, <3>2
  <2> QED BY <2>1, <2>2
<1>4. \A m \in modules' : \E l \in Scanned :
        Counting(l) /\ Says(l) = m /\ m \notin {Everything, Nothing}
  BY <1>2 DEF ModInv
<1>5. ~ returned
  BY DEF ModInv, ModScan
<1> QED BY <1>1, <1>2, <1>3, <1>4, <1>5 DEF ModInv

LEMMA FinishInv == ASSUME ModInv, Finish PROVE ModInv'
<1>1. /\ modLines = << >> /\ wildcard' = (wildcard \/ modules = {})
      /\ UNCHANGED <<entries, modLines, modules, touched>>
  BY DEF Finish
<1>2. Scanned' = Scanned /\ \A l : Heeded(l) => Heeded(l)'
  BY <1>1 DEF Scanned, Heeded
<1>3. modules' # {} \/ wildcard'
  BY <1>1
<1> QED BY <1>1, <1>2, <1>3 DEF ModInv

LEMMA StutterInv == ASSUME ModInv, UNCHANGED modVars PROVE ModInv'
<1>1. UNCHANGED <<entries, modLines, modules, wildcard, touched, returned>>
  BY DEF modVars
<1>2. Scanned' = Scanned /\ \A l : Heeded(l)' <=> Heeded(l)
  BY <1>1 DEF Scanned, Heeded
<1> QED BY <1>1, <1>2 DEF ModInv

LEMMA NextInv == ASSUME ModInv, [ModNext]_<<vars, modVars>> PROVE ModInv'
<1> DEFINE line == Head(modLines)
<1>1. Of = Says(line) /\ (Counts <=> Counting(line))
  BY DEF Of, Counts, Says, Counting
<1>2. CASE Pass
  <2>1. /\ ModScan /\ UNCHANGED <<entries, modules, wildcard, touched, returned>>
        /\ Counting(line) => Says(line) = Nothing
    BY <1>1, <1>2 DEF Pass
  <2> HIDE DEF line
  <2> QED BY <2>1, ScanInv, Distinct DEF line
<1>3. CASE Directive
  <2>1. /\ ModScan /\ UNCHANGED <<entries, modules, touched, returned>>
        /\ Says(line) = Everything /\ wildcard'
    BY <1>1, <1>3 DEF Directive
  <2> QED BY <2>1, ScanInv
<1>4. CASE Requirement
  <2>1. /\ ModScan /\ UNCHANGED <<entries, wildcard, touched, returned>>
        /\ Counting(line) /\ Says(line) \notin {Everything, Nothing}
        /\ modules' = modules \cup {Says(line)}
    BY <1>1, <1>4 DEF Requirement
  <2> QED BY <2>1, ScanInv
<1>5. CASE UNCHANGED modVars
  BY <1>5, StutterInv
<1> QED BY <1>2, <1>3, <1>4, <1>5, FinishInv DEF ModNext, ModulesStep, Done

-----------------------------------------------------------------------------
(***************************************************************************)
(* The theorems.                                                           *)
(***************************************************************************)

(* Every line that was scanned has left what it stands for (gitdiff.go     *)
(* 155-189).                                                               *)
THEOREM Invariance == ModSpec => []ModInv
<1>1. ModInv /\ [ModNext]_<<vars, modVars>> => ModInv'
  BY NextInv
<1> QED BY InitInv, <1>1, PTL DEF ModSpec

(* In the end each entry has been heeded. *)
LEMMA AllHeeded ==
  ASSUME ModInv, returned, NEW i \in DOMAIN entries
  PROVE  /\ entries[i].verb \in ByVersion => entries[i].module \in modules
         /\ entries[i].verb = "retractRange" => RangeStart \in modules
         /\ entries[i].verb \in {"go", "toolchain"} => wildcard
<1>1. entries \in Seq(Entry) /\ entries[i] \in Entry
  BY QuestionsAssumption DEF ModInv
<1>2. Line(entries[i]) \in Scanned /\ Counting(Line(entries[i]))
  BY <1>1, LinesOf DEF Scanned
<1>3. modLines = << >>
  BY DEF ModInv
<1>4. Range(modLines) = {}
  BY <1>3 DEF Range
<1>5. Heeded(Line(entries[i]))
  BY <1>2, <1>4 DEF ModInv
<1>6. Says(Line(entries[i])) = Meant(entries[i])
  BY <1>1, LineSays DEF Says, Line
<1>7. entries[i].module \notin {Everything, Nothing}
      /\ RangeStart \notin {Everything, Nothing}
  BY <1>1, WordsAssumption DEF Entry, Keywords
<1>8. entries[i].verb \in {"go", "toolchain"} =>
        entries[i].verb \notin ByVersion \cup {"retractRange"}
  BY DEF ByVersion
<1>9. entries[i].verb = "retractRange" => entries[i].verb \notin ByVersion
  BY DEF ByVersion
<1> QED BY <1>2, <1>5, <1>6, <1>7, <1>8, <1>9 DEF Heeded, Meant

(* Whatever file a header names and whatever precedes it, the hunks of a   *)
(* change are counted for its file while it is read (gitdiff.go 49-83).    *)
THEOREM Reading == ModSpec => []DiffInv
<1>1. ModInit => DiffInv
  BY ParseStart, QuestionsAssumption DEF ModInit
<1>2. DiffInv /\ [ModNext]_<<vars, modVars>> => DiffInv'
  BY ParseStep
<1> QED BY <1>1, <1>2, PTL DEF ModSpec

(* In diffs of any length the hunks of a legible file are its changes, in  *)
(* the numbers of the new side, and those of no other (gitdiff.go 49-110). *)
THEOREM Hunks == ModSpec => []HunksExact
<1>1. DiffInv => HunksExact
  BY HunksRight DEF HunksExact, Exact
<1> QED BY Reading, <1>1, PTL

(* In diffs of any length and any order, a line with a module and its      *)
(* version names the module; no other line names one, a replacement of     *)
(* every version included, and a retracted range names its lower bound     *)
(* (gitdiff.go 136-224).                                                   *)
THEOREM Versions == ModSpec => []VersionsNamed
<1>1. ASSUME ModInv PROVE VersionsNamed
  <2> SUFFICES ASSUME returned
               PROVE  modules = {entries[i].module : i \in Changed(ByVersion)}
                                  \cup {RangeStart : i \in Changed({"retractRange"})}
    BY DEF VersionsNamed
  <2>1. ASSUME NEW i \in Changed(ByVersion) PROVE entries[i].module \in modules
    BY <1>1, AllHeeded DEF Changed
  <2>2. ASSUME NEW i \in Changed({"retractRange"}) PROVE RangeStart \in modules
    BY <1>1, AllHeeded DEF Changed
  <2>3. ASSUME NEW m \in modules
        PROVE  \/ \E i \in Changed(ByVersion) : m = entries[i].module
               \/ \E i \in Changed({"retractRange"}) : m = RangeStart
    <3>1. entries \in Seq(Entry)
      BY <1>1, QuestionsAssumption DEF ModInv
    <3>2. PICK line \in Scanned : Counting(line) /\ Says(line) = m
                                  /\ m \notin {Everything, Nothing}
      BY <1>1 DEF ModInv
    <3>3. PICK i \in DOMAIN entries : line = Line(entries[i])
      BY <3>1, <3>2, LinesOf DEF Scanned
    <3>4. entries[i] \in Entry
      BY <3>1
    <3>5. m = moduleOfLine(Words(entries[i]))
      BY <3>2, <3>3 DEF Says, Line
    <3>6. \/ entries[i].verb \in ByVersion /\ m = entries[i].module
          \/ entries[i].verb = "retractRange" /\ m = RangeStart
      BY <3>2, <3>4, <3>5, LineSays DEF Meant
    <3> QED BY <3>6 DEF Changed
  <2> QED BY <2>1, <2>2, <2>3
<1> QED BY Invariance, <1>1, PTL

(* No diff that touched go.mod or go.sum comes out as one without an       *)
(* effect, and a bump of the language counts for everything (gitdiff.go    *)
(* 155-189).                                                               *)
THEOREM Something == ModSpec => []NeverNothing
<1>1. ASSUME ModInv PROVE NeverNothing
  <2> SUFFICES ASSUME returned, entries # << >>
               PROVE  /\ touched /\ (modules # {} \/ wildcard)
                      /\ Changed({"go", "toolchain"}) # {} => wildcard
    BY DEF NeverNothing
  <2>1. DiffLines(entries) # << >>
    <3>1. entries \in Seq(Entry)
      BY <1>1, QuestionsAssumption DEF ModInv
    <3>2. 1 \in DOMAIN entries
      BY <3>1
    <3>3. Line(entries[1]) \in Range(DiffLines(entries))
      BY <3>1, <3>2, LinesOf
    <3> QED BY <3>3 DEF Range
  <2> QED BY <1>1, <2>1, AllHeeded DEF ModInv, Changed
<1> QED BY Invariance, <1>1, PTL
=============================================================================
