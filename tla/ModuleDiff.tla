------------------------------- MODULE ModuleDiff -------------------------------
(***************************************************************************)
(* Modules and moduleOfLine in internal/gitdiff/gitdiff.go: which          *)
(* dependencies a diff of go.mod and go.sum is about.  The loop goes over  *)
(* the lines git diff prints; each names a module, stands for everything,  *)
(* or says nothing.                                                        *)
(*                                                                         *)
(* An entry is what a line of go.mod or go.sum is about, as written by the *)
(* go command (external): a record [verb, inBlock, module], where the verb *)
(* is one of Verbs.  A line is a sign and words; comments are cut off.     *)
(*                                                                         *)
(* run in cmd/whichtests/main.go asks Changed first, of the same base, and *)
(* Modules when that has returned; so does Run in internal/replay.         *)
(***************************************************************************)
EXTENDS GitDiff

CONSTANTS
  Modules,    \* module paths, all of them with a dot or a slash
  Directory,  \* the target of a local replace
  Version, Name, Hash,
  RangeStart, RangeEnd,  \* the two words of a range of versions, "[v1.0.0, v1.1.0]"
  ModDiffs,   \* the sequences of signed entries a diff may hold
  Questions   \* what may be asked: a diff of each kind, made together

Everything == "everything"
Nothing == "nothing"

Open == "("
Close == ")"
Arrow == "=>"

Verbs == {"require", "exclude", "sum", "replace", "replaceLocal", "replaceEvery",
          "replaceEveryLocal", "retract", "retractRange", "go", "toolchain", "godebug",
          "tool", "module", "open", "comment"}

Entry == [sign : {"+", "-"}, verb : Verbs, inBlock : BOOLEAN, module : Modules]

ASSUME QuestionsAssumption ==
  /\ Questions \subseteq Diffs \X ModDiffs
  /\ \A d \in ModDiffs : d \in Seq(Entry)

(* No path or version is a keyword. *)
Keywords == Verbs \cup {Open, Close, Arrow, Everything, Nothing}

ASSUME WordsAssumption ==
  (Modules \cup {Directory, Version, RangeStart, RangeEnd}) \cap Keywords = {}

VARIABLES
  entries,   \* what the diff is about
  modLines,  \* what sc has not scanned yet
  modules,   \* mc.Modules
  wildcard,  \* mc.Wildcard
  touched,   \* mc.Touched
  returned

modVars == <<entries, modLines, modules, wildcard, touched, returned>>

-----------------------------------------------------------------------------
(***************************************************************************)
(* How the go command writes an entry.  A replace gives the version that   *)
(* is replaced, or none if it is for every version.                        *)
(***************************************************************************)
Led(e, verb, words) == IF e.inBlock THEN words ELSE <<verb>> \o words

Words(e) ==
  CASE e.verb \in {"require", "exclude"} -> Led(e, e.verb, <<e.module, Version>>)
    [] e.verb = "sum" -> <<e.module, Version, Hash>>
    [] e.verb = "replace" ->
         Led(e, "replace", <<e.module, Version, Arrow, e.module, Version>>)
    [] e.verb = "replaceLocal" ->
         Led(e, "replace", <<e.module, Version, Arrow, Directory>>)
    [] e.verb = "replaceEvery" ->
         Led(e, "replace", <<e.module, Arrow, e.module, Version>>)
    [] e.verb = "replaceEveryLocal" -> Led(e, "replace", <<e.module, Arrow, Directory>>)
    [] e.verb = "retract" -> Led(e, "retract", <<Version>>)
    [] e.verb = "retractRange" -> Led(e, "retract", <<RangeStart, RangeEnd>>)
    [] e.verb \in {"go", "toolchain", "godebug", "tool", "module"} -> <<e.verb, Name>>
    [] e.verb = "open" -> <<"require", Open>>
    [] e.verb = "comment" -> << >>

(* The lines of one file: the header and range of its diff come first. *)
DiffLines(d) ==
  IF d = << >> THEN << >>
  ELSE << [sign |-> "header", words |-> << >>], [sign |-> "@", words |-> << >>] >>
         \o [i \in DOMAIN d |-> [sign |-> d[i].sign, words |-> Words(d[i])]]

-----------------------------------------------------------------------------
(* What has a dot or a slash, and what begins with a v. *)
IsPath(w) == w \in Modules \cup {Directory, Version, RangeStart, RangeEnd}
IsVersion(w) == w \in {Version, RangeEnd}

(* The words that name what a requirement is of. *)
Operands(words) ==
  IF Head(words) \in {"require", "exclude", "replace", "retract"}
  THEN Tail(words) ELSE words

NamesModule(f) == Len(f) >= 2 /\ IsVersion(f[2]) /\ IsPath(f[1])

moduleOfLine(words) ==
  IF words \in {<< >>, <<Open>>, <<Close>>} THEN Nothing
  ELSE IF Head(words) \in {"go", "toolchain"} THEN Everything
  ELSE IF Head(words) # "module" /\ NamesModule(Operands(words)) THEN Operands(words)[1]
  ELSE Nothing

ModInit ==
  /\ \E q \in Questions : changes = q[1] /\ entries = q[2]
  /\ ParseInit
  /\ modLines = DiffLines(entries)
  /\ modules = {}
  /\ wildcard = FALSE
  /\ touched = (modLines # << >>)
  /\ returned = (modLines = << >>)

ModScan == modLines # << >> /\ modLines' = Tail(modLines)
Counts == Head(modLines).sign \in {"+", "-"}
Of == moduleOfLine(Head(modLines).words)

Pass ==
  /\ ModScan
  /\ Counts => Of = Nothing
  /\ UNCHANGED <<entries, modules, wildcard, touched, returned>>

Directive ==
  /\ ModScan
  /\ Counts
  /\ Of = Everything
  /\ wildcard' = TRUE
  /\ UNCHANGED <<entries, modules, touched, returned>>

(* Mutant: only the new side of the diff is read. *)
RequirementAdded ==
  /\ ModScan
  /\ Counts
  /\ Of \notin {Everything, Nothing}
  /\ modules' = IF Head(modLines).sign = "+" THEN modules \cup {Of} ELSE modules
  /\ UNCHANGED <<entries, wildcard, touched, returned>>

Requirement ==
  /\ ModScan
  /\ Counts
  /\ Of \notin {Everything, Nothing}
  /\ modules' = modules \cup {Of}
  /\ UNCHANGED <<entries, wildcard, touched, returned>>

(* Mutant: the lines alone decide. *)
FinishAsIs ==
  /\ ~ returned
  /\ modLines = << >>
  /\ returned' = TRUE
  /\ UNCHANGED <<entries, modLines, modules, wildcard, touched>>

(* A change that names no module at all may concern any of them. *)
Finish ==
  /\ ~ returned
  /\ modLines = << >>
  /\ wildcard' = (wildcard \/ modules = {})
  /\ returned' = TRUE
  /\ UNCHANGED <<entries, modLines, modules, touched>>

ModulesStep == Pass \/ Directive \/ Requirement \/ Finish

Done == returned /\ Returned /\ UNCHANGED <<vars, modVars>>

ModNext ==
  \/ Next /\ UNCHANGED modVars
  \/ Returned /\ ModulesStep /\ UNCHANGED vars
  \/ Done

ModSpec == ModInit /\ [][ModNext]_<<vars, modVars>>

-----------------------------------------------------------------------------
Changed(verbs) == {i \in DOMAIN entries : entries[i].verb \in verbs}

(* What is written as a module and its version. *)
ByVersion == {"require", "exclude", "sum", "replace", "replaceLocal"}

(* A line that has a module followed by its version, alone or in a block,  *)
(* in go.mod or go.sum, coming or going, names the module (gitdiff.go      *)
(* 136-224): a module left out would keep the tests that import it from    *)
(* running.  What else there is names no module, and that includes the     *)
(* replacement of every version of one, where the arrow is taken for the   *)
(* version (line 222).  A range of retracted versions names its lower      *)
(* bound, as if that were a module.                                        *)
VersionsNamed ==
  returned =>
    modules = {entries[i].module : i \in Changed(ByVersion)}
                \cup {RangeStart : i \in Changed({"retractRange"})}

(* A diff that touched these files is never reported as one without an     *)
(* effect: something is named or it counts for all modules, and a change   *)
(* of the language or toolchain always counts for all (gitdiff.go          *)
(* 155-189).                                                               *)
NeverNothing ==
  returned /\ entries # << >> =>
    /\ touched
    /\ modules # {} \/ wildcard
    /\ Changed({"go", "toolchain"}) # {} => wildcard
=============================================================================
