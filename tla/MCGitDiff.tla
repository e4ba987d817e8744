------------------------------- MODULE MCGitDiff -------------------------------
(***************************************************************************)
(* Diffs of one or two files, caf being a name git prints in quotes; and   *)
(* diffs of go.mod and go.sum of up to three lines, of every kind, about   *)
(* two modules.  They have no bearing on each other: one of either kind is *)
(* put together with all of the other.                                     *)
(***************************************************************************)
EXTENDS ModuleDiff, SequencesExt

CONSTANTS fA, fB, caf, quoted, plain, modA, modB

MCPrinted == [f \in {fA, fB, caf} |-> IF f = caf THEN quoted ELSE f]

Block(after, del, add) == [after |-> after, del |-> del, add |-> add]

Plain(n) == [i \in 1 .. n |-> plain]

Blocks ==
  {Block(after, del, Plain(n)) : after \in {0, 1, 3}, del \in {0, 1, 3}, n \in {0, 1, 3}}

(* What may follow below: a block that is one or two lines further down. *)
Rests(b) ==
  {<< >>} \cup {<<Block(b.after + Len(b.add) + kept, del, Plain(n))>> :
                  kept \in 1 .. 2, del \in {0, 2}, n \in 0 .. 2}

Change(f, how, blocks) == [file |-> f, how |-> how, blocks |-> blocks]

AllEdits(f) == {Change(f, "edit", <<b>> \o rest) : <<b, rest>> \in
                  UNION {{b} \X Rests(b) : b \in Blocks}}
Edits(f) == {c \in AllEdits(f) : IsChange(c)}
Creations(f) == {Change(f, "create", <<Block(0, 0, add)>>) :
                   add \in {Plain(1), Plain(2), <<plain, HeaderLine>>}}
Deletions(f) == {Change(f, "delete", <<Block(0, 2, << >>)>>)}
Bare(f) == {Change(f, "bare", << >>)}
Untracked(f) == {Change(f, "untracked", <<Block(0, 0, Plain(2))>>)}

AnyOf(f) == Edits(f) \cup Creations(f) \cup Deletions(f) \cup Bare(f)

(* Whatever comes first, a change of fB; and files of a name git quotes.   *)
Few(f) == Creations(f) \cup Deletions(f) \cup Bare(f)

MCDiffs ==
  {<<c>> : c \in AnyOf(fB) \cup Untracked(fA)}
    \cup {<<c, d>> : c \in Few(fA) \cup Few(caf), d \in AnyOf(fB)}
    \cup {<<d, c>> : c \in Few(fA), d \in Edits(fB)}

DeletionDiffs == {<<c, d>> : c \in Deletions(fA), d \in Edits(fB)}

Signed(sign, verb, inBlock, module) ==
  [sign |-> sign, verb |-> verb, inBlock |-> inBlock, module |-> module]

OfModules ==
  {Signed(sign, verb, b, module) :
     sign \in {"+", "-"},
     verb \in {"require", "exclude", "replace", "replaceLocal", "replaceEvery",
               "replaceEveryLocal"},
     b \in BOOLEAN, module \in {modA, modB}}
    \cup {Signed(sign, "sum", TRUE, module) : sign \in {"+", "-"}, module \in {modA, modB}}

Others ==
  {Signed(sign, verb, FALSE, modA) :
     sign \in {"+", "-"},
     verb \in {"go", "toolchain", "godebug", "tool", "module", "open", "comment", "retract",
               "retractRange"}}

MCModDiffs == SeqOf(OfModules \cup Others, 2)
                \cup {<<a, b, c>> : a \in OfModules, b \in Others, c \in OfModules}

OneChange == <<Change(fB, "edit", <<Block(1, 0, Plain(1))>>)>>
OneBump == <<Signed("+", "require", TRUE, modA)>>

MCQuestions == (MCDiffs \X {<< >>, OneBump}) \cup ({OneChange} \X MCModDiffs)
DeletionQuestions == DeletionDiffs \X {<< >>}
=============================================================================
