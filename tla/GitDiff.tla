-------------------------------- MODULE GitDiff --------------------------------
(***************************************************************************)
(* Changed and parse in internal/gitdiff/gitdiff.go: from what happened to *)
(* the files since the merge base to hunks, by way of what git diff prints *)
(* about it.  git is external; what it prints is modelled line by line as  *)
(* far as parse looks at it.                                               *)
(*                                                                         *)
(* A change is a record:                                                   *)
(*   file    the path of the file                                          *)
(*   how     "edit" of a tracked file, "create" (tracked), "delete",       *)
(*           "untracked" (created, not added), or "bare": a rename, a mode *)
(*           change or a binary file, of which git prints no lines         *)
(*   blocks  from top to bottom the places where it changed: after, the    *)
(*           number of lines above on the new side; del, how many lines    *)
(*           are gone; add, the lines that are new                         *)
(* HeaderLine is the line "++ " and a path.                                *)
(***************************************************************************)
EXTENDS Naturals, Sequences, Functions

CONSTANTS
  Files,
  Lines, HeaderLine,
  NoFile,    \* the code's file == ""
  Printed,   \* the path parse makes out of git's spelling of a file's name
  Stray,     \* the path parse makes out of a HeaderLine
  Diffs      \* the sequences of changes a diff may hold

IsChange(c) ==
  /\ c.file \in Files
  /\ c.how \in {"edit", "create", "delete", "untracked", "bare"}
  /\ c.blocks \in Seq(Range(c.blocks))
  /\ \A i \in DOMAIN c.blocks :
        LET b == c.blocks[i]
        IN  /\ b.after \in Nat /\ b.del \in Nat /\ b.add \in Seq(Lines)
            /\ b.del > 0 \/ b.add # << >>
            /\ c.how \in {"create", "untracked"} => b.after = 0 /\ b.del = 0
            /\ c.how = "delete" => b.after = 0 /\ b.add = << >>
            /\ \A j \in DOMAIN c.blocks :
                 i < j => b.after + Len(b.add) < c.blocks[j].after /\ c.how = "edit"

ASSUME DiffsAssumption ==
  /\ {NoFile, Stray} \cap Files = {}
  /\ \A d \in Diffs :
       /\ d \in Seq(Range(d))
       /\ \A i, j \in DOMAIN d : IsChange(d[i]) /\ (i # j => d[i].file # d[j].file)

VARIABLES
  changes,  \* what happened to the files, in the order git lists them
  unread,   \* where the lines are that sc has not scanned yet
  file,     \* the file the lines belong to
  hunks     \* the result, once the lines are used up

vars == <<changes, unread, file, hunks>>

-----------------------------------------------------------------------------
(***************************************************************************)
(* git diff --unified=0.  A line is found by change, block (0 for what     *)
(* precedes the blocks) and number in the block.                           *)
(***************************************************************************)
Header(path) == [is |-> "header", path |-> path]
DevNull == [is |-> "null"]
Span(counts) == [is |-> "range", new |-> counts]
Text == [is |-> "text"]

(* "+c,d": c is the first line added or, if there is none, the last one    *)
(* before the gap; ",d" is left out when d is one.                         *)
NewRange(b) ==
  CASE Len(b.add) = 0 -> <<b.after, 0>>
    [] Len(b.add) = 1 -> <<b.after + 1>>
    [] OTHER -> <<b.after + 1, Len(b.add)>>

(* An added line is printed with a plus sign before it. *)
PrintBlock(b, k) ==
  IF k = 0 THEN Span(NewRange(b))
  ELSE IF k > b.del /\ b.add[k - b.del] = HeaderLine THEN Header(Stray) ELSE Text

PrintChange(c, k) ==
  IF k = 1 THEN Text
  ELSE IF c.how = "delete" THEN DevNull ELSE Header(Printed[c.file])

LineAt(p) ==
  LET c == changes[p[1]]
  IN IF p[2] = 0 THEN PrintChange(c, p[3]) ELSE PrintBlock(c.blocks[p[2]], p[3])

PrintedLines(i) ==
  LET c == changes[i]
  IN CASE c.how = "untracked" -> {}
       [] c.how = "bare" -> {<<i, 0, 1>>}
       [] OTHER ->
            {<<i, 0, 1>>, <<i, 0, 2>>}
              \cup UNION {{<<i, j, k>> : k \in 0 .. c.blocks[j].del + Len(c.blocks[j].add)} :
                            j \in DOMAIN c.blocks}

PrintDiff == UNION {PrintedLines(i) : i \in DOMAIN changes}

Precedes(p, q) ==
  \/ p[1] < q[1]
  \/ p[1] = q[1] /\ p[2] < q[2]
  \/ p[1] = q[1] /\ p[2] = q[2] /\ p[3] < q[3]

-----------------------------------------------------------------------------
(***************************************************************************)
(* parse.                                                                  *)
(***************************************************************************)
ParseInit ==
  /\ unread = PrintDiff
  /\ file = NoFile
  /\ hunks = << >>

Init == changes \in Diffs /\ ParseInit

(* sc.Scan: p is where the next line is. *)
Scan(p) ==
  /\ \A q \in unread \ {p} : Precedes(p, q)
  /\ unread' = unread \ {p}
  /\ UNCHANGED changes

FileLine(p) ==
  /\ Scan(p)
  /\ LineAt(p).is = "header"
  /\ file' = LineAt(p).path
  /\ UNCHANGED hunks

(* Mutant: the lines of a deleted file are taken for the file before. *)
NullLineKept(p) ==
  /\ Scan(p)
  /\ LineAt(p).is = "null"
  /\ UNCHANGED <<file, hunks>>

NullLine(p) ==
  /\ Scan(p)
  /\ LineAt(p).is = "null"
  /\ file' = NoFile
  /\ UNCHANGED hunks

(* parseNewRange *)
StartOf(new) == new[1]
CountOf(new) == IF Len(new) = 1 THEN 1 ELSE new[2]

HunkOf(f, new) ==
  IF CountOf(new) = 0
  THEN [file |-> f, first |-> StartOf(new) + 1, last |-> StartOf(new) + 1,
        deletion |-> TRUE]
  ELSE [file |-> f, first |-> StartOf(new), last |-> StartOf(new) + CountOf(new) - 1,
        deletion |-> FALSE]

RangeLine(p) ==
  /\ Scan(p)
  /\ LineAt(p).is = "range"
  /\ hunks' = IF file = NoFile THEN hunks ELSE Append(hunks, HunkOf(file, LineAt(p).new))
  /\ UNCHANGED file

OtherLine(p) ==
  /\ Scan(p)
  /\ LineAt(p).is = "text"
  /\ UNCHANGED <<file, hunks>>

Returned == unread = {}

Return == Returned /\ UNCHANGED vars

Next ==
  \/ \E p \in unread : FileLine(p) \/ NullLine(p) \/ RangeLine(p) \/ OtherLine(p)
  \/ Return

Spec == Init /\ [][Next]_vars

-----------------------------------------------------------------------------
Changes == Range(changes)

HunksIn(f) == {h \in Range(hunks) : h.file = f}
Covered(H) == UNION {h.first .. h.last : h \in H}

(* The lines that were added, and those that come after a gap. *)
Added(c) == UNION {LET b == c.blocks[j] IN b.after + 1 .. b.after + Len(b.add) : j \in DOMAIN c.blocks}
Following(c) == {c.blocks[j].after + 1 : j \in {k \in DOMAIN c.blocks : c.blocks[k].add = << >>}}

(* A file git spells as it is and no other's like it, and none of whose    *)
(* new lines looks like a header.                                          *)
Legible(c) ==
  /\ Printed[c.file] = c.file
  /\ \A d \in Changes : Printed[d.file] = c.file => d.file = c.file
  /\ \A j \in DOMAIN c.blocks : HeaderLine \notin Range(c.blocks[j].add)

(* The hunks of a file whose diff is legible are its changes in new-side   *)
(* numbers, whatever comes before it in the diff: every line that was      *)
(* added lies in a hunk, a hunk that added something holds nothing else,   *)
(* and the hunks that mark deletions are at the lines that follow them, no *)
(* others (gitdiff.go 49-110).                                             *)
HunksExact ==
  Returned =>
    \A c \in Changes : Legible(c) /\ c.how \in {"edit", "create"} =>
      LET found == HunksIn(c.file)
      IN  /\ Covered({h \in found : ~ h.deletion}) = Added(c)
          /\ Covered({h \in found : h.deletion}) = Following(c)

-----------------------------------------------------------------------------
(***************************************************************************)
(* What the documentation says and the code does not do.                   *)
(***************************************************************************)

(* README.md, "Known gaps": deleted functions fall through to the package- *)
(* level path, which is sound.  When the whole file goes, the new side is  *)
(* /dev/null and its hunks are dropped (57-67): nothing falls through.     *)
DeletionsCount ==
  Returned => \A c \in Changes : c.how = "delete" => HunksIn(c.file) # {}
=============================================================================
