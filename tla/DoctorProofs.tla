------------------------------- MODULE DoctorProofs -------------------------------
(***************************************************************************)
(* What Build's index holds, for any packages, variants, type errors and   *)
(* order in which they come, and what the figures of doctor are worth.     *)
(*                                                                         *)
(* The index grows package by package.  What is said of it once all are    *)
(* indexed is said here of the packages indexed so far.                    *)
(***************************************************************************)
EXTENDS Doctor, FiniteSetTheorems, SequenceTheorems, NaturalsInduction,
        WellFoundedInduction, TLAPS

FilesOf(V) == UNION {Compiled(v) : v \in V}

(* UseCounts, as the file has it and not the index. *)
UseOf(f, u, k) ==
  \/ \E i \in Around(f, u[2]) : SpansOf(f)[i].key = k
  \/ /\ Around(f, u[2]) = {}
     /\ \E v \in Typed : f \in Compiled(v) /\ world.variants[v].init = k

RefsSoFar(d) ==
  /\ \A f \in DOMAIN spans : \A u \in File(f).uses :
       u[1] = d => \E k \in declRefs[d] : UseOf(f, u, k)
  /\ \A k \in declRefs[d] : \E f \in DOMAIN spans : \E u \in File(f).uses :
       u[1] = d /\ UseOf(f, u, k)

LinkedPaths(V) == {runPath(w) : w \in UNION {Linked(v) : v \in V}}

(* What DepsExact says in the end, of the packages indexed so far. *)
DepsSoFar ==
  /\ DOMAIN pkgDeps = {runPath(v) : v \in Typed}
  /\ \A p \in DOMAIN pkgDeps :
       /\ pkgDeps[p] \subseteq LinkedPaths(VariantsOf(p) \ todo)
       /\ (\A v \in VariantsOf(p) : Unambiguous(v))
             => pkgDeps[p] = LinkedPaths(VariantsOf(p) \ todo)

IndexInv ==
  /\ DOMAIN spans = FilesOf(Typed \ todo)
  /\ \A f \in DOMAIN spans : spans[f] = SpansOf(f)
  /\ DOMAIN declRefs = world.decls
  /\ \A d \in world.decls : RefsSoFar(d)
  /\ DepsSoFar
  /\ IsFiniteSet(tests)

(* The sample was drawn from the index, and no function is weighed twice. *)
SampleInv ==
  /\ keys \subseteq Sampleable
  /\ \A c, d \in keys : Key(c) = Key(d) => c = d
  /\ \A c \in keys : Key(c) \notin DOMAIN sel
  /\ stage = "build" => keys = {} /\ DOMAIN sel = {}
  /\ IsFiniteSet(keys) /\ IsFiniteSet(DOMAIN sel)

Inv == TypeOK /\ IndexInv /\ SampleInv /\ FairComparison

-----------------------------------------------------------------------------
(***************************************************************************)
(* Finite sets, and the first of some positions.                           *)
(***************************************************************************)
LEMMA FiniteRange ==
  ASSUME NEW f, IsFiniteSet(DOMAIN f), f = [x \in DOMAIN f |-> f[x]]
  PROVE  IsFiniteSet(Range(f))
<1>1. f \in Surjection(DOMAIN f, Range(f))
  BY DEF Surjection, Range
<1> QED BY <1>1, FS_Surjection

LEMMA FirstOf ==
  ASSUME NEW S \in SUBSET Nat, S # {}
  PROVE  LET first == CHOOSE i \in S : \A j \in S : i <= j IN first \in S
<1>1. PICK i \in S : \A j \in S : ~ (<<j, i>> \in OpToRel(<, Nat))
  BY NatLessThanWellFounded, WFMin
<1>2. \A j \in S : ~ (j < i)
  BY <1>1 DEF OpToRel
<1>3. \A j \in S : i <= j
  BY <1>2
<1> QED BY <1>3

(* What was written is there, and the rest as it was. *)
LEMMA WrittenFacts ==
  ASSUME NEW new, NEW map
  PROVE  /\ DOMAIN Written(new, map) = DOMAIN new \cup DOMAIN map
         /\ \A x \in DOMAIN new : Written(new, map)[x] = new[x]
         /\ \A x \in DOMAIN map \ DOMAIN new : Written(new, map)[x] = map[x]
BY DEF Written

-----------------------------------------------------------------------------
(***************************************************************************)
(* The index.                                                              *)
(***************************************************************************)

(* What is read off the world, nobody writes to. *)
LEMMA Fixed ==
  ASSUME UNCHANGED world
  PROVE  /\ Typed' = Typed
         /\ \A v : Compiled(v)' = Compiled(v) /\ Embeds(v)' = Embeds(v)
                   /\ runPath(v)' = runPath(v) /\ Entries(v)' = Entries(v)
         /\ \A f : SpansOf(f)' = SpansOf(f) /\ File(f)' = File(f)
         /\ \A f, u, k : UseOf(f, u, k)' <=> UseOf(f, u, k)
         /\ \A V : FilesOf(V)' = FilesOf(V)
BY DEF Typed, Compiled, Embeds, runPath, Entries, SpansOf, File, UseOf, FilesOf, Around

LEMMA LinksFixed ==
  ASSUME UNCHANGED world
  PROVE  /\ \A v : Linked(v)' = Linked(v) /\ (Unambiguous(v)' <=> Unambiguous(v))
         /\ \A p : VariantsOf(p)' = VariantsOf(p)
<1>1. \A v : Linked(v)' = Linked(v) /\ Steps(v)' = Steps(v) /\ runPath(v)' = runPath(v)
  BY DEF Linked, Variants, Imports, Closed, Steps, runPath
<1>2. \A p : VariantsOf(p)' = VariantsOf(p)
  BY DEF VariantsOf, Typed, runPath
<1>3. \A v : Unambiguous(v)' <=> Unambiguous(v)
  BY <1>1 DEF Unambiguous
<1> QED BY <1>1, <1>2, <1>3

LEMMA DepsPrimed ==
  ASSUME UNCHANGED world, DOMAIN pkgDeps' = {runPath(v) : v \in Typed},
         \A p \in DOMAIN pkgDeps' :
           /\ pkgDeps'[p] \subseteq LinkedPaths(VariantsOf(p) \ todo')
           /\ (\A v \in VariantsOf(p) : Unambiguous(v))
                 => pkgDeps'[p] = LinkedPaths(VariantsOf(p) \ todo')
  PROVE  DepsSoFar'
<1>1. {runPath(v)' : v \in Typed'} = {runPath(v) : v \in Typed}
  BY Fixed
<1>2. \A p : VariantsOf(p)' = VariantsOf(p)
  BY LinksFixed
<1>3. \A w : Linked(w)' = Linked(w) /\ runPath(w)' = runPath(w)
  BY LinksFixed, Fixed
<1>4. \A w : Unambiguous(w)' <=> Unambiguous(w)
  BY LinksFixed
<1>5. ASSUME NEW p PROVE LinkedPaths(VariantsOf(p) \ todo)' = LinkedPaths(VariantsOf(p) \ todo')
  BY <1>2, <1>3 DEF LinkedPaths
<1> QED BY <1>1, <1>2, <1>4, <1>5 DEF DepsSoFar

LEMMA DepsKept ==
  ASSUME UNCHANGED <<world, pkgDeps>>, Typed \ todo' = Typed \ todo, DepsSoFar
  PROVE  DepsSoFar'
<1>1. \A p : VariantsOf(p) \ todo' = VariantsOf(p) \ todo
  BY DEF VariantsOf
<1> QED BY <1>1, DepsPrimed DEF DepsSoFar

(* By whichever variant of a path the walk goes on, it finds no package    *)
(* that is not linked; and it finds them all, if variants of one path take *)
(* the same steps.                                                         *)
LEMMA WalkFinds ==
  ASSUME world \in Worlds, NEW v \in Typed, NEW deps \in Walks(v)
  PROVE  /\ deps \subseteq {runPath(w) : w \in Linked(v)}
         /\ Unambiguous(v) => deps = {runPath(w) : w \in Linked(v)}
<1> DEFINE paths == {runPath(w) : w \in Linked(v)}
<1>1. PICK rep \in Reps(v) : deps = WalkBy(v, rep)
  BY DEF Walks
<1>2. /\ DOMAIN rep = paths
      /\ \A p \in paths : rep[p] \in Linked(v) /\ runPath(rep[p]) = p
  BY DEF Reps
<1>3. deps \subseteq paths
  BY <1>1, <1>2 DEF WalkBy
<1>4. /\ v \in Variants /\ Imports(v) \subseteq Variants
      /\ \A w \in Variants : Imports(w) \subseteq Variants
  BY WorldsAssumption DEF Typed, Variants, Imports
<1>5. Linked(v) \in SUBSET Variants
  BY DEF Linked
<1>6. \A w \in Linked(v) : Imports(w) \subseteq Linked(v)
  BY <1>4 DEF Linked, Closed
<1>7. ASSUME Unambiguous(v), NEW w \in Linked(v),
             NEW S \in SUBSET DOMAIN rep, Steps(v) \subseteq S,
             \A q \in S : Steps(rep[q]) \subseteq S
      PROVE  runPath(w) \in S
  <2> DEFINE T == {x \in Variants : x \in Linked(v) /\ runPath(x) \in S}
  <2>1. Imports(v) \subseteq T
    BY <1>4, <1>7 DEF Linked, Steps
  <2>2. ASSUME NEW x \in T, NEW y \in Imports(x) PROVE y \in T
    <3>1. x \in Linked(v) /\ runPath(x) \in S /\ y \in Linked(v) /\ y \in Variants
      BY <1>5, <1>6, <2>2
    <3>2. Steps(rep[runPath(x)]) = Steps(x)
      BY <1>2, <1>7, <3>1 DEF Unambiguous
    <3>3. runPath(y) \in Steps(x)
      BY <2>2 DEF Steps
    <3> QED BY <1>7, <3>1, <3>2, <3>3
  <2>3. T \in SUBSET Variants /\ Closed(T)
    BY <2>2 DEF Closed
  <2> HIDE DEF T
  <2>4. w \in T
    BY <2>1, <2>3 DEF Linked
  <2> QED BY <2>4 DEF T
<1>8. Unambiguous(v) => paths \subseteq deps
  BY <1>1, <1>2, <1>7 DEF WalkBy
<1> QED BY <1>3, <1>8

(* A package more, and the dependencies of its path grow by what it is     *)
(* linked with.                                                            *)
LEMMA DepsGrow ==
  ASSUME world \in Worlds, UNCHANGED world, NEW v \in Typed,
         Typed \ todo' = (Typed \ todo) \cup {v}, DepsSoFar,
         NEW deps \in Walks(v), pkgDeps' = [pkgDeps EXCEPT ![runPath(v)] = @ \cup deps]
  PROVE  DepsSoFar'
<1> DEFINE linked == {runPath(w) : w \in Linked(v)}
<1>1. /\ DOMAIN pkgDeps' = DOMAIN pkgDeps /\ runPath(v) \in DOMAIN pkgDeps
      /\ pkgDeps'[runPath(v)] = pkgDeps[runPath(v)] \cup deps
      /\ \A p \in DOMAIN pkgDeps \ {runPath(v)} : pkgDeps'[p] = pkgDeps[p]
  BY DEF DepsSoFar
<1>2. deps \subseteq linked /\ (Unambiguous(v) => deps = linked)
  BY WalkFinds
<1>3. v \in VariantsOf(runPath(v))
  BY DEF VariantsOf
<1>4. LinkedPaths(VariantsOf(runPath(v)) \ todo')
        = LinkedPaths(VariantsOf(runPath(v)) \ todo) \cup linked
  <2>1. VariantsOf(runPath(v)) \ todo' = (VariantsOf(runPath(v)) \ todo) \cup {v}
    BY <1>3 DEF VariantsOf
  <2>2. \A V : LinkedPaths(V \cup {v}) = LinkedPaths(V) \cup linked
    BY DEF LinkedPaths
  <2> QED BY <2>1, <2>2
<1>5. \A p \in DOMAIN pkgDeps \ {runPath(v)} : VariantsOf(p) \ todo' = VariantsOf(p) \ todo
  BY DEF VariantsOf
<1>6. ASSUME NEW p \in DOMAIN pkgDeps
      PROVE  /\ pkgDeps'[p] \subseteq LinkedPaths(VariantsOf(p) \ todo')
             /\ (\A w \in VariantsOf(p) : Unambiguous(w))
                   => pkgDeps'[p] = LinkedPaths(VariantsOf(p) \ todo')
  <2> HIDE DEF linked
  <2>1. /\ pkgDeps[p] \subseteq LinkedPaths(VariantsOf(p) \ todo)
        /\ (\A w \in VariantsOf(p) : Unambiguous(w))
              => pkgDeps[p] = LinkedPaths(VariantsOf(p) \ todo)
    BY DEF DepsSoFar
  <2>2. CASE p = runPath(v)
    BY <1>1, <1>2, <1>3, <1>4, <2>1, <2>2
  <2>3. CASE p # runPath(v)
    BY <1>1, <1>5, <2>1, <2>3
  <2> QED BY <2>2, <2>3
<1>7. DOMAIN pkgDeps' = {runPath(w) : w \in Typed}
  BY <1>1 DEF DepsSoFar
<1> QED BY <1>1, <1>6, <1>7, DepsPrimed

LEMMA UseIsEnclosed ==
  ASSUME world \in Worlds, NEW v \in Typed, NEW f \in Compiled(v), NEW u
  PROVE  UseOf(f, u, Enclosing(f, u[2], world.variants[v].init))
<1>1. CASE Around(f, u[2]) = {}
  BY <1>1 DEF UseOf, Enclosing
<1>2. CASE Around(f, u[2]) # {}
  <2>1. f \in DOMAIN world.files
    BY WorldsAssumption DEF Typed, Compiled
  <2>2. SpansOf(f) \in Seq(Range(File(f).funcs))
    BY <2>1, WorldsAssumption DEF SpansOf, File
  <2>3. Around(f, u[2]) \in SUBSET Nat
    BY <2>2 DEF Around
  <2> DEFINE i == CHOOSE i \in Around(f, u[2]) : \A j \in Around(f, u[2]) : i <= j
  <2>4. i \in Around(f, u[2])
    BY <1>2, <2>3, FirstOf
  <2>5. Enclosing(f, u[2], world.variants[v].init) = SpansOf(f)[i].key
    BY <1>2 DEF Enclosing
  <2> QED BY <2>4, <2>5 DEF UseOf
<1> QED BY <1>1, <1>2

LEMMA RefsKept ==
  ASSUME UNCHANGED <<world, spans, declRefs>>, NEW d, RefsSoFar(d)
  PROVE  RefsSoFar(d)'
<1>1. /\ \A f : File(f)' = File(f)
      /\ \A f, u, k : UseOf(f, u, k)' <=> UseOf(f, u, k)
  BY Fixed
<1> QED BY <1>1 DEF RefsSoFar

(* A file of an indexed package counts, once, for every use it has. *)
LEMMA RefsGrow ==
  ASSUME world \in Worlds, UNCHANGED world, NEW v \in Typed,
         DOMAIN declRefs = world.decls, \A d \in world.decls : RefsSoFar(d),
         NEW new \in SUBSET Compiled(v),
         declRefs' = indexRefs(v, new), DOMAIN spans' = DOMAIN spans \cup new
  PROVE  DOMAIN declRefs' = world.decls /\ \A d \in world.decls : RefsSoFar(d)'
<1> DEFINE Found(d, f) ==
             {Enclosing(f, u[2], world.variants[v].init) : u \in {w \in File(f).uses : w[1] = d}}
<1>1. declRefs' = [d \in DOMAIN declRefs |-> declRefs[d] \cup UNION {Found(d, f) : f \in new}]
  BY DEF indexRefs
<1>2. ASSUME NEW d \in world.decls PROVE RefsSoFar(d)'
  <2>1. declRefs'[d] = declRefs[d] \cup UNION {Found(d, f) : f \in new}
    BY <1>1
  <2>2. \A f \in new : \A u \in File(f).uses :
          u[1] = d => \E k \in Found(d, f) : UseOf(f, u, k)
    BY UseIsEnclosed
  <2>3. \A f \in new : \A k \in Found(d, f) :
          \E u \in File(f).uses : u[1] = d /\ UseOf(f, u, k)
    BY UseIsEnclosed
  <2> HIDE DEF Found
  <2>4. ASSUME NEW f \in DOMAIN spans', NEW u \in File(f).uses, u[1] = d
        PROVE  \E k \in declRefs'[d] : UseOf(f, u, k)
    <3>1. CASE f \in new
      <4>1. Found(d, f) \subseteq declRefs'[d]
        BY <2>1, <3>1
      <4> QED BY <2>2, <2>4, <3>1, <4>1
    <3>2. CASE f \in DOMAIN spans
      BY <2>1, <2>4, <3>2 DEF RefsSoFar
    <3> QED BY <2>4, <3>1, <3>2
  <2>5. ASSUME NEW k \in declRefs'[d]
        PROVE  \E f \in DOMAIN spans' : \E u \in File(f).uses : u[1] = d /\ UseOf(f, u, k)
    <3>1. CASE k \in declRefs[d]
      BY <3>1 DEF RefsSoFar
    <3>2. ASSUME NEW f \in new, k \in Found(d, f)
          PROVE  \E g \in DOMAIN spans' : \E u \in File(g).uses : u[1] = d /\ UseOf(g, u, k)
      BY <2>3, <3>2
    <3> QED BY <2>1, <2>5, <3>1, <3>2
  <2> QED BY <2>4, <2>5, Fixed DEF RefsSoFar
<1> QED BY <1>1, <1>2

(* The tests of a package are finitely many. *)
LEMMA EntriesFinite ==
  ASSUME world \in Worlds, NEW v \in Typed
  PROVE  IsFiniteSet(Entries(v))
<1> DEFINE funcs == [f \in Compiled(v) |-> Range(File(f).funcs)]
           found == {x \in UNION Range(funcs) : x.entry}
           key == [x \in found |-> x.key]
<1>1. IsFiniteSet(Compiled(v)) /\ Compiled(v) \subseteq DOMAIN world.files
  BY WorldsAssumption DEF Typed, Compiled
<1>2. ASSUME NEW f \in Compiled(v) PROVE IsFiniteSet(Range(File(f).funcs))
  <2> DEFINE s == File(f).funcs
  <2>1. s \in Seq(Range(s))
    BY <1>1, WorldsAssumption DEF File
  <2>2. DOMAIN s = 1 .. Len(s) /\ Len(s) \in Nat /\ s = [i \in DOMAIN s |-> s[i]]
    BY <2>1
  <2>3. IsFiniteSet(DOMAIN s)
    BY <2>2, FS_Interval
  <2> HIDE DEF s
  <2>4. IsFiniteSet(Range(s))
    BY <2>2, <2>3, FiniteRange
  <2> QED BY <2>4 DEF s
<1>3. IsFiniteSet(Range(funcs))
  BY <1>1, FiniteRange
<1>4. \A T \in Range(funcs) : IsFiniteSet(T)
  BY <1>2 DEF Range
<1>5. IsFiniteSet(UNION Range(funcs))
  <2> HIDE DEF funcs
  <2> QED BY <1>3, <1>4, FS_UNION
<1>6. IsFiniteSet(found)
  BY <1>5, FS_Subset
<1>7. IsFiniteSet(Range(key))
  BY <1>6, FiniteRange
<1>8. Entries(v) = {x.key : x \in found}
  BY DEF Entries, Range
<1>9. Entries(v) = Range(key)
  BY <1>8 DEF Range
<1> QED BY <1>7, <1>9

LEMMA IndexStep ==
  ASSUME TypeOK, IndexInv, NEW v \in todo, Index(v)
  PROVE  /\ IndexInv'
         /\ todo' \subseteq world.roots
         /\ DOMAIN filePkg' = UNION {Compiled(w) \cup Embeds(w) : w \in Typed \ todo'}
         /\ \A f \in DOMAIN filePkg' : \E w \in Typed \ todo' :
              f \in Compiled(w) \cup Embeds(w) /\ filePkg'[f] = runPath(w)
         /\ indexed' = DOMAIN spans'
         /\ \A t \in tests' : t[1] \in Typed /\ t[2] \in Entries(t[1])
<1> DEFINE new == Compiled(v) \ indexed
<1>1. /\ v \in Typed /\ todo' = todo \ {v} /\ world' = world /\ world \in Worlds
      /\ v \in world.roots /\ todo \subseteq world.roots
      /\ indexed' = indexed \cup Compiled(v)
      /\ filePkg' = Written([f \in Compiled(v) \cup Embeds(v) |-> runPath(v)], filePkg)
      /\ spans' = Written([f \in new |-> SpansOf(f)], spans)
      /\ declRefs' = indexRefs(v, new)
      /\ tests' = tests \cup {<<v, k>> : k \in Entries(v)}
  BY DEF Index, TypeOK
<1>2. Typed \ todo' = (Typed \ todo) \cup {v}
  BY <1>1
<1>3. /\ DOMAIN spans' = DOMAIN spans \cup new
      /\ \A f \in new : spans'[f] = SpansOf(f)
      /\ \A f \in DOMAIN spans \ new : spans'[f] = spans[f]
  <2> DEFINE added == [f \in new |-> SpansOf(f)]
  <2>1. DOMAIN added = new /\ \A f \in new : added[f] = SpansOf(f)
    OBVIOUS
  <2>2. spans' = Written(added, spans)
    BY <1>1
  <2> HIDE DEF added, new
  <2>3. /\ DOMAIN Written(added, spans) = DOMAIN added \cup DOMAIN spans
        /\ \A f \in DOMAIN added : Written(added, spans)[f] = added[f]
        /\ \A f \in DOMAIN spans \ DOMAIN added : Written(added, spans)[f] = spans[f]
    BY WrittenFacts
  <2> QED BY <2>1, <2>2, <2>3
<1>4. indexed = DOMAIN spans /\ DOMAIN spans' = DOMAIN spans \cup Compiled(v)
  BY <1>3 DEF TypeOK
<1>5. DOMAIN spans' = FilesOf(Typed \ todo')
  <2>1. FilesOf((Typed \ todo) \cup {v}) = FilesOf(Typed \ todo) \cup Compiled(v)
    BY DEF FilesOf
  <2> QED BY <1>2, <1>4, <2>1 DEF IndexInv
<1>6. \A f \in DOMAIN spans' : spans'[f] = SpansOf(f)
  BY <1>3 DEF IndexInv
<1>7. DOMAIN declRefs' = world.decls /\ \A d \in world.decls : RefsSoFar(d)'
  <2>1. new \in SUBSET Compiled(v)
    OBVIOUS
  <2> HIDE DEF new
  <2> QED BY <1>1, <1>3, <2>1, RefsGrow DEF IndexInv
<1>8. IsFiniteSet(tests')
  <2>1. IsFiniteSet({v} \X Entries(v))
    BY <1>1, EntriesFinite, FS_Singleton, FS_Product
  <2>2. {<<v, k>> : k \in Entries(v)} = {v} \X Entries(v)
    OBVIOUS
  <2> QED BY <1>1, <2>1, <2>2, FS_Union DEF IndexInv
<1>9. IndexInv'
  <2>1. DepsSoFar'
    <3>1. PICK deps \in Walks(v) : pkgDeps' = [pkgDeps EXCEPT ![runPath(v)] = @ \cup deps]
      BY DEF Index
    <3> QED BY <1>1, <1>2, <3>1, DepsGrow DEF IndexInv
  <2> QED BY <1>1, <1>5, <1>6, <1>7, <1>8, <2>1, Fixed DEF IndexInv
<1>10. /\ DOMAIN filePkg' = (Compiled(v) \cup Embeds(v)) \cup DOMAIN filePkg
       /\ \A f \in Compiled(v) \cup Embeds(v) : filePkg'[f] = runPath(v)
       /\ \A f \in DOMAIN filePkg \ (Compiled(v) \cup Embeds(v)) : filePkg'[f] = filePkg[f]
  <2> DEFINE added == [f \in Compiled(v) \cup Embeds(v) |-> runPath(v)]
  <2>1. /\ DOMAIN added = Compiled(v) \cup Embeds(v)
        /\ \A f \in Compiled(v) \cup Embeds(v) : added[f] = runPath(v)
    OBVIOUS
  <2>2. filePkg' = Written(added, filePkg)
    BY <1>1
  <2> HIDE DEF added, new
  <2>3. /\ DOMAIN Written(added, filePkg) = DOMAIN added \cup DOMAIN filePkg
        /\ \A f \in DOMAIN added : Written(added, filePkg)[f] = added[f]
        /\ \A f \in DOMAIN filePkg \ DOMAIN added : Written(added, filePkg)[f] = filePkg[f]
    BY WrittenFacts
  <2> QED BY <2>1, <2>2, <2>3
<1>11. DOMAIN filePkg' = UNION {Compiled(w) \cup Embeds(w) : w \in Typed \ todo'}
  <2>1. DOMAIN filePkg = UNION {Compiled(w) \cup Embeds(w) : w \in Typed \ todo}
    BY DEF TypeOK
  <2> QED BY <1>2, <1>10, <2>1
<1>12. \A f \in DOMAIN filePkg' : \E w \in Typed \ todo' :
         f \in Compiled(w) \cup Embeds(w) /\ filePkg'[f] = runPath(w)
  <2>1. \A f \in DOMAIN filePkg : \E w \in Typed \ todo :
          f \in Compiled(w) \cup Embeds(w) /\ filePkg[f] = runPath(w)
    BY DEF TypeOK
  <2> QED BY <1>2, <1>10, <2>1
<1>13. \A t \in tests' : t[1] \in Typed /\ t[2] \in Entries(t[1])
  <2>1. ASSUME NEW t \in tests', t \notin tests PROVE t[1] = v /\ t[2] \in Entries(v)
    <3>1. PICK k \in Entries(v) : t = <<v, k>>
      BY <1>1, <2>1
    <3> QED BY <3>1
  <2> QED BY <1>1, <2>1 DEF TypeOK
<1> QED BY <1>1, <1>4, <1>9, <1>11, <1>12, <1>13

-----------------------------------------------------------------------------
(***************************************************************************)
(* The steps.                                                              *)
(***************************************************************************)

(* What the index says is what doctor reads. *)
LEMMA SameIndex ==
  ASSUME UNCHANGED indexVars
  PROVE  /\ Typed' = Typed
         /\ \A c : Key(c)' = Key(c)
         /\ Sampleable' = Sampleable
         /\ IndexInv => IndexInv'
<1>1. UNCHANGED <<world, todo, filePkg, indexed, spans, declRefs, pkgDeps, tests>>
  BY DEF indexVars, index
<1>2. Typed' = Typed
  BY <1>1, Fixed
<1>3. (\A c : Key(c)' = Key(c)) /\ Sampleable' = Sampleable
  BY <1>1 DEF Key, Sampleable, Mutable, File
<1>4. IndexInv => IndexInv'
  <2> SUFFICES ASSUME IndexInv PROVE IndexInv'
    OBVIOUS
  <2>1. \A d \in world.decls : RefsSoFar(d)'
    BY <1>1, RefsKept DEF IndexInv
  <2>2. DepsSoFar'
    BY <1>1, DepsKept DEF IndexInv
  <2> QED BY <1>1, <2>1, <2>2, Fixed DEF IndexInv
<1> QED BY <1>2, <1>3, <1>4

LEMMA InitInv == Init => Inv
<1> SUFFICES ASSUME Init PROVE Inv
  OBVIOUS
<1>1. /\ world \in Worlds /\ todo = world.roots /\ filePkg = << >> /\ indexed = {}
      /\ spans = << >> /\ declRefs = [d \in world.decls |-> {}] /\ tests = {}
      /\ stage = "build" /\ keys = {} /\ sel = << >> /\ base = << >> /\ verdict = "none"
  BY DEF Init, IndexInit
<1>2. Typed \ todo = {} /\ DOMAIN filePkg = {} /\ DOMAIN spans = {} /\ DOMAIN sel = {}
      /\ DOMAIN base = {}
  BY <1>1 DEF Typed
<1>3. TypeOK
  BY <1>1, <1>2 DEF TypeOK
<1>4. IndexInv
  <2>1. pkgDeps = [p \in {runPath(v) : v \in Typed} |-> {}]
    BY DEF Init, IndexInit
  <2>2. \A p : LinkedPaths(VariantsOf(p) \ todo) = {}
    BY <1>2 DEF VariantsOf, LinkedPaths
  <2>3. DepsSoFar
    BY <2>1, <2>2 DEF DepsSoFar
  <2> QED BY <1>1, <1>2, <2>3, FS_EmptySet DEF IndexInv, FilesOf, RefsSoFar
<1>5. SampleInv
  BY <1>1, <1>2, FS_EmptySet DEF SampleInv
<1>6. FairComparison
  BY <1>2 DEF FairComparison
<1> QED BY <1>3, <1>4, <1>5, <1>6 DEF Inv

(* Types, as long as only the index changes. *)
LEMMA TypesKept ==
  ASSUME TypeOK, UNCHANGED <<world, stage, keys, sel, base, verdict>>, keys = {},
         todo' \subseteq world.roots,
         DOMAIN filePkg' = UNION {Compiled(w) \cup Embeds(w) : w \in Typed \ todo'},
         \A f \in DOMAIN filePkg' : \E w \in Typed \ todo' :
           f \in Compiled(w) \cup Embeds(w) /\ filePkg'[f] = runPath(w),
         indexed' = DOMAIN spans',
         \A t \in tests' : t[1] \in Typed /\ t[2] \in Entries(t[1])
  PROVE  TypeOK'
<1>1. UNION {Compiled(w)' \cup Embeds(w)' : w \in Typed' \ todo'}
        = UNION {Compiled(w) \cup Embeds(w) : w \in Typed \ todo'}
  BY Fixed
<1>2. \A f \in DOMAIN filePkg' : \E w \in Typed' \ todo' :
        f \in Compiled(w)' \cup Embeds(w)' /\ filePkg'[f] = runPath(w)'
  BY Fixed
<1>3. \A t \in tests' : t[1] \in Typed' /\ t[2] \in Entries(t[1])'
  BY Fixed
<1> QED BY <1>1, <1>2, <1>3 DEF TypeOK

LEMMA BuildInv == ASSUME Inv, Build PROVE Inv'
<1>1. /\ stage = "build" /\ UNCHANGED <<stage, keys, sel, base, verdict>>
      /\ keys = {} /\ DOMAIN sel = {}
  BY DEF Build, doctorVars, Inv, SampleInv
<1>2. SampleInv' /\ FairComparison'
  BY <1>1 DEF Inv, SampleInv, FairComparison
<1>3. ASSUME NEW v \in todo, SkipIllTyped(v) PROVE TypeOK' /\ IndexInv'
  <2>1. /\ todo' = todo \ {v} /\ v \notin Typed
        /\ UNCHANGED <<world, filePkg, indexed, spans, declRefs, pkgDeps, tests>>
    BY <1>3 DEF SkipIllTyped, index
  <2>2. Typed \ todo' = Typed \ todo
    BY <2>1
  <2>3. TypeOK'
    BY <1>1, <2>1, <2>2, TypesKept DEF Inv, TypeOK
  <2>4. IndexInv'
    <3>1. \A d \in world.decls : RefsSoFar(d)'
      BY <2>1, RefsKept DEF Inv, IndexInv
    <3>2. DepsSoFar'
      BY <2>1, <2>2, DepsKept DEF Inv, IndexInv
    <3> QED BY <2>1, <2>2, <3>1, <3>2, Fixed DEF Inv, IndexInv
  <2> QED BY <2>3, <2>4
<1>4. ASSUME NEW v \in todo, Index(v) PROVE TypeOK' /\ IndexInv'
  <2>1. world' = world
    BY <1>4 DEF Index
  <2>2. TypeOK'
    BY <1>1, <1>4, <2>1, IndexStep, TypesKept DEF Inv
  <2> QED BY <1>4, <2>2, IndexStep DEF Inv
<1> QED BY <1>2, <1>3, <1>4 DEF Build, Indexing, Inv

(* Types, as long as the index stays. *)
LEMMA TypesWithIndex ==
  ASSUME TypeOK, UNCHANGED indexVars,
         stage' \in {"build", "weigh", "verdict", "over"},
         verdict' \in {"none", "not worth it", "worth trying", "marginal", "little to gain"},
         \A c \in keys' : c[2] \in DOMAIN spans[c[1]], DOMAIN sel' = DOMAIN base'
  PROVE  TypeOK'
<1>1. UNCHANGED <<world, todo, filePkg, indexed, spans, declRefs, pkgDeps, tests>>
  BY DEF indexVars, index
<1>2. /\ Typed' = Typed
      /\ \A v : Compiled(v)' = Compiled(v) /\ Embeds(v)' = Embeds(v)
                /\ runPath(v)' = runPath(v) /\ Entries(v)' = Entries(v)
  BY <1>1, Fixed
<1>3. UNION {Compiled(w)' \cup Embeds(w)' : w \in Typed' \ todo'}
        = UNION {Compiled(w) \cup Embeds(w) : w \in Typed \ todo}
  BY <1>1, <1>2
<1>4. DOMAIN filePkg' = UNION {Compiled(w)' \cup Embeds(w)' : w \in Typed' \ todo'}
  BY <1>1, <1>3 DEF TypeOK
<1>5. \A f \in DOMAIN filePkg' : \E w \in Typed' \ todo' :
        f \in Compiled(w)' \cup Embeds(w)' /\ filePkg'[f] = runPath(w)'
  BY <1>1, <1>2 DEF TypeOK
<1>6. \A t \in tests' : t[1] \in Typed' /\ t[2] \in Entries(t[1])'
  BY <1>1, <1>2 DEF TypeOK
<1> QED BY <1>1, <1>4, <1>5, <1>6 DEF TypeOK

(* There are finitely many functions to draw.                              *)
LEMMA SampleableFinite ==
  ASSUME TypeOK, IndexInv
  PROVE  /\ IsFiniteSet(Sampleable)
         /\ \A c \in Sampleable : c[2] \in DOMAIN spans[c[1]]
<1> DEFINE compiled == [v \in Typed \ todo |-> Compiled(v)]
           of(f) == {<<f, i>> : i \in {j \in DOMAIN spans[f] : Mutable(f, spans[f][j])}}
           functions == [f \in DOMAIN spans |-> of(f)]
<1>1. world \in Worlds /\ Typed \subseteq world.roots
  BY DEF TypeOK, Typed
<1>2. IsFiniteSet(Typed \ todo) /\ \A v \in Typed : IsFiniteSet(Compiled(v))
  BY <1>1, WorldsAssumption, FS_Subset DEF Compiled
<1>3. DOMAIN spans = UNION Range(compiled)
  BY DEF IndexInv, FilesOf, Range
<1>4. IsFiniteSet(DOMAIN spans)
  <2>1. IsFiniteSet(Range(compiled)) /\ \A T \in Range(compiled) : IsFiniteSet(T)
    BY <1>2, FiniteRange DEF Range
  <2> HIDE DEF compiled
  <2> QED BY <1>3, <2>1, FS_UNION
<1>5. \A f \in DOMAIN spans : f \in DOMAIN world.files
  BY <1>1, WorldsAssumption DEF IndexInv, FilesOf, Compiled
<1>6. ASSUME NEW f \in DOMAIN spans PROVE IsFiniteSet(of(f))
  <2>1. spans[f] \in Seq(Range(File(f).funcs))
    BY <1>1, <1>5, WorldsAssumption DEF IndexInv, SpansOf, File
  <2>2. DOMAIN spans[f] = 1 .. Len(spans[f]) /\ Len(spans[f]) \in Nat
    BY <2>1
  <2>3. IsFiniteSet(DOMAIN spans[f])
    BY <2>2, FS_Interval
  <2>4. IsFiniteSet({f} \X DOMAIN spans[f])
    BY <2>3, FS_Singleton, FS_Product
  <2>5. of(f) \subseteq {f} \X DOMAIN spans[f]
    OBVIOUS
  <2> QED BY <2>4, <2>5, FS_Subset
<1>7. Sampleable = UNION Range(functions)
  BY DEF Sampleable, Range
<1>8. IsFiniteSet(Sampleable)
  <2>1. IsFiniteSet(Range(functions)) /\ \A T \in Range(functions) : IsFiniteSet(T)
    BY <1>4, <1>6, FiniteRange DEF Range
  <2> HIDE DEF functions
  <2> QED BY <1>7, <2>1, FS_UNION
<1>9. ASSUME NEW c \in Sampleable PROVE c[2] \in DOMAIN spans[c[1]]
  <2>1. PICK f \in DOMAIN spans : c \in of(f)
    BY DEF Sampleable
  <2> QED BY <2>1
<1> QED BY <1>8, <1>9

LEMMA SampleSymbolsInv == ASSUME Inv, SampleSymbols PROVE Inv'
<1>1. /\ stage = "build" /\ keys' \subseteq Sampleable
      /\ \A c, d \in keys' : Key(c) = Key(d) => c = d
      /\ stage' \in {"weigh", "over"}
      /\ UNCHANGED <<indexVars, sel, base, verdict>>
  BY DEF SampleSymbols
<1>2. DOMAIN sel = {} /\ DOMAIN base = {}
  BY <1>1 DEF Inv, SampleInv, TypeOK
<1>3. IsFiniteSet(keys') /\ \A c \in keys' : c[2] \in DOMAIN spans[c[1]]
  BY <1>1, SampleableFinite, FS_Subset DEF Inv
<1>4. IndexInv' /\ (\A c : Key(c)' = Key(c)) /\ Sampleable' = Sampleable
  BY <1>1, SameIndex DEF Inv
<1>5. TypeOK'
  <2>1. verdict' = verdict
    BY <1>1
  <2> QED BY <1>1, <1>2, <1>3, <2>1, TypesWithIndex DEF Inv, TypeOK
<1>6. SampleInv'
  BY <1>1, <1>2, <1>3, <1>4, FS_EmptySet DEF SampleInv
<1>7. FairComparison'
  BY <1>1, <1>2 DEF FairComparison
<1> QED BY <1>4, <1>5, <1>6, <1>7 DEF Inv

(* A step that weighs nothing. *)
LEMMA NothingWeighed ==
  ASSUME Inv, UNCHANGED <<indexVars, keys, sel, base>>,
         stage' \in {"build", "weigh", "verdict", "over"}, stage' = "build" => stage = "build",
         verdict' \in {"none", "not worth it", "worth trying", "marginal", "little to gain"}
  PROVE  Inv'
<1>1. IndexInv' /\ (\A c : Key(c)' = Key(c)) /\ Sampleable' = Sampleable
  BY SameIndex DEF Inv
<1>2. TypeOK'
  BY TypesWithIndex DEF Inv, TypeOK
<1>3. SampleInv' /\ FairComparison'
  BY <1>1 DEF Inv, SampleInv, FairComparison
<1> QED BY <1>1, <1>2, <1>3 DEF Inv

(* Whoever else is changed along with a function is of the package its     *)
(* span was indexed under: they share a file, functions are told apart by  *)
(* their names, and files by their packages.                               *)
LEMMA OnePackage ==
  ASSUME TypeOK, IndexInv, NEW f \in DOMAIN spans,
         NEW i \in DOMAIN SpansOf(f), SpansOf(f)[i].key \in world.inGraph
  PROVE  KeyPackage(SpansOf(f)[i].key) = SpanPkg(f)
<1> DEFINE k == SpansOf(f)[i].key
<1>1. world \in Worlds
  BY DEF TypeOK
<1>2. PICK u \in Typed : f \in Compiled(u)
  BY DEF IndexInv, FilesOf
<1>3. SpanPkg(f) = runPath(CHOOSE v \in Typed : f \in Compiled(v))
      /\ (CHOOSE v \in Typed : f \in Compiled(v)) \in Typed
      /\ f \in Compiled(CHOOSE v \in Typed : f \in Compiled(v))
  BY <1>2 DEF SpanPkg
<1>4. Declares(u, k)
  BY <1>2 DEF Declares
<1>5. /\ KeyPackage(k) = runPath(CHOOSE v \in Typed : Declares(v, k))
      /\ (CHOOSE v \in Typed : Declares(v, k)) \in Typed
      /\ Declares(CHOOSE v \in Typed : Declares(v, k), k)
  BY <1>2, <1>4 DEF KeyPackage
<1>6. ASSUME NEW v \in Typed, Declares(v, k) PROVE f \in Compiled(v)
  <2>1. PICK g \in Compiled(v) : \E j \in DOMAIN SpansOf(g) : SpansOf(g)[j].key = k
    BY <1>6 DEF Declares
  <2>2. f \in DOMAIN world.files /\ g \in DOMAIN world.files
    BY <1>1, <1>2, <2>1, WorldsAssumption DEF Typed, Compiled
  <2>3. f = g
    BY <1>1, <2>1, <2>2, NamesAssumption DEF SpansOf, File
  <2> QED BY <2>1, <2>3
<1>7. ASSUME NEW v \in Typed, NEW w \in Typed, f \in Compiled(v), f \in Compiled(w)
      PROVE  runPath(v) = runPath(w)
  <2>1. v \in DOMAIN world.variants /\ w \in DOMAIN world.variants
    BY <1>1, WorldsAssumption DEF Typed
  <2> QED BY <1>1, <1>7, <2>1, FilesAssumption DEF Compiled, runPath
<1> HIDE DEF k
<1>8. KeyPackage(k) = SpanPkg(f)
  BY <1>3, <1>5, <1>6, <1>7
<1> QED BY <1>8 DEF k

(* So a test that is selected for a function, whether it reaches it or is  *)
(* run for fear of reflection, is one that the baseline counts.            *)
LEMMA SelectedIsCounted ==
  ASSUME TypeOK, IndexInv, NEW c \in Sampleable
  PROVE  Cardinality(SelectedFor(c)) <= baselineFor(SpanPkg(c[1]))
<1> DEFINE f == c[1]
           counted == {t \in tests : visible(t, SpanPkg(f))}
<1>1. f \in DOMAIN spans
  BY DEF Sampleable
<1>2. ASSUME NEW k \in ChangedBy(c) PROVE KeyPackage(k) = SpanPkg(f)
  <2>1. PICK i \in Around(f, spans[f][c[2]].first) : k = spans[f][i].key
    BY DEF ChangedBy
  <2>2. spans[f] = SpansOf(f) /\ i \in DOMAIN SpansOf(f) /\ k \in world.inGraph
    BY <1>1, <2>1 DEF IndexInv, Around, ChangedBy
  <2> QED BY <1>1, <2>1, <2>2, OnePackage
<1>3. SelectedFor(c) \in SUBSET counted
  BY <1>2 DEF SelectedFor
<1>4. IsFiniteSet(counted)
  BY FS_Subset DEF IndexInv
<1>5. baselineFor(SpanPkg(f)) = Cardinality(counted)
  BY DEF baselineFor, visible
<1> QED BY <1>3, <1>4, <1>5, FS_Subset

LEMMA WeighInv == ASSUME Inv, NEW c \in keys, Weigh(c) PROVE Inv'
<1>1. /\ stage = "weigh" /\ keys' = keys \ {c} /\ stage' \in {"weigh", "verdict"}
      /\ sel' = Written([k \in {Key(c)} |-> Cardinality(SelectedFor(c))], sel)
      /\ base' = Written([k \in {Key(c)} |-> baselineFor(SpanPkg(c[1]))], base)
      /\ UNCHANGED <<indexVars, verdict>>
  BY DEF Weigh
<1>2. IndexInv' /\ (\A d : Key(d)' = Key(d)) /\ Sampleable' = Sampleable
  BY <1>1, SameIndex DEF Inv
<1>3. /\ DOMAIN sel' = DOMAIN sel \cup {Key(c)}
      /\ sel'[Key(c)] = Cardinality(SelectedFor(c))
      /\ \A k \in DOMAIN sel \ {Key(c)} : sel'[k] = sel[k]
  BY <1>1 DEF Written
<1>4. /\ DOMAIN base' = DOMAIN base \cup {Key(c)}
      /\ base'[Key(c)] = baselineFor(SpanPkg(c[1]))
      /\ \A k \in DOMAIN base \ {Key(c)} : base'[k] = base[k]
  BY <1>1 DEF Written
<1>5. Key(c) \notin DOMAIN sel /\ DOMAIN sel = DOMAIN base
  BY DEF Inv, SampleInv, TypeOK
<1>6. TypeOK'
  <2>1. DOMAIN sel' = DOMAIN base' /\ keys' \subseteq keys
    BY <1>1, <1>3, <1>4, <1>5
  <2> QED BY <1>1, <2>1, TypesWithIndex DEF Inv, TypeOK
<1>7. IsFiniteSet(keys) /\ IsFiniteSet(DOMAIN sel)
  BY DEF Inv, SampleInv
<1>8. SampleInv'
  <2>1. IsFiniteSet(keys') /\ IsFiniteSet(DOMAIN sel')
    BY <1>1, <1>3, <1>7, FS_RemoveElement, FS_AddElement
  <2>2. \A d \in keys' : Key(d) \notin DOMAIN sel'
    BY <1>1, <1>3 DEF Inv, SampleInv
  <2>3. /\ keys' \subseteq Sampleable' /\ stage' # "build"
        /\ \A d, e \in keys' : Key(d) = Key(e) => d = e
    BY <1>1, <1>2 DEF Inv, SampleInv
  <2> QED BY <1>2, <2>1, <2>2, <2>3 DEF SampleInv
<1>9. \A k \in DOMAIN sel' : sel'[k] <= base'[k]
  <2>1. sel'[Key(c)] <= base'[Key(c)]
    BY <1>3, <1>4, SelectedIsCounted DEF Inv, SampleInv
  <2> QED BY <1>3, <1>4, <1>5, <2>1 DEF Inv, FairComparison
<1>10. FairComparison'
  BY <1>9 DEF FairComparison
<1> QED BY <1>2, <1>6, <1>8, <1>10 DEF Inv

LEMMA NextInv == ASSUME Inv, [Next]_vars PROVE Inv'
<1>1. CASE Build
  BY <1>1, BuildInv
<1>2. CASE SampleSymbols
  BY <1>2, SampleSymbolsInv
<1>3. CASE NoTests
  BY <1>3, NothingWeighed DEF NoTests, Inv, TypeOK
<1>4. ASSUME NEW c \in keys, Weigh(c) PROVE Inv'
  BY <1>4, WeighInv
<1>5. CASE Verdict
  <2>1. verdict' \in {"not worth it", "worth trying", "marginal", "little to gain"}
    BY <1>5 DEF Verdict
  <2> QED BY <1>5, <2>1, NothingWeighed DEF Verdict
<1>6. CASE UNCHANGED vars
  BY <1>6, NothingWeighed DEF vars, doctorVars, Inv, TypeOK
<1> QED BY <1>1, <1>2, <1>3, <1>4, <1>5, <1>6 DEF Next, Over

-----------------------------------------------------------------------------
(***************************************************************************)
(* The theorems.                                                           *)
(***************************************************************************)

(* The index of the packages so far, and the sample, in every state that   *)
(* Build and doctor can be in (graph.go:200-234, doctor.go:57-153).        *)
THEOREM Invariance == Spec => []Inv
<1>1. Inv /\ [Next]_vars => Inv'
  BY NextInv
<1> QED BY InitInv, <1>1, PTL DEF Spec

(* An indexed file has an owner that compiles or embeds it, whichever      *)
(* package comes last (graph.go:560, 712-716).                             *)
THEOREM TypeCorrect == Spec => []TypeOK
<1>1. Inv => TypeOK
  BY DEF Inv
<1> QED BY Invariance, <1>1, PTL

(* Two candidates of one key are one, since functions have names of their own. *)
LEMMA SpansOnce == ASSUME Inv PROVE SpansExact
<1> SUFFICES ASSUME Indexed PROVE
      /\ DOMAIN spans = UNION {Compiled(v) : v \in Typed}
      /\ \A f \in DOMAIN spans : spans[f] = Resolved(File(f))
      /\ \A c, d \in Candidates : spans[c[1]][c[2]].key = spans[d[1]][d[2]].key => c = d
  BY DEF SpansExact
<1>1. DOMAIN spans = FilesOf(Typed)
  BY DEF Inv, IndexInv, Indexed
<1>2. \A f \in DOMAIN spans : spans[f] = Resolved(world.files[f])
  BY DEF Inv, IndexInv, SpansOf, File
<1>3. ASSUME NEW c \in Candidates
      PROVE  /\ c[1] \in DOMAIN spans /\ c[2] \in DOMAIN Resolved(world.files[c[1]])
             /\ Resolved(world.files[c[1]])[c[2]].key \in world.inGraph
             /\ spans[c[1]][c[2]] = Resolved(world.files[c[1]])[c[2]] /\ c = <<c[1], c[2]>>
  <2>1. PICK f \in DOMAIN spans :
          \E i \in DOMAIN spans[f] : c = <<f, i>> /\ Mutable(f, spans[f][i])
    BY DEF Candidates
  <2>2. PICK i \in DOMAIN spans[f] : c = <<f, i>> /\ Mutable(f, spans[f][i])
    BY <2>1
  <2> QED BY <1>2, <2>2 DEF Mutable
<1>4. world \in Worlds /\ \A f \in DOMAIN spans : f \in DOMAIN world.files
  BY <1>1, WorldsAssumption DEF Inv, TypeOK, FilesOf, Compiled, Typed
<1>5. ASSUME NEW c \in Candidates, NEW d \in Candidates,
             spans[c[1]][c[2]].key = spans[d[1]][d[2]].key
      PROVE  c = d
  <2> DEFINE At(e) == Resolved(world.files[e[1]])[e[2]]
  <2>1. At(c).key = At(d).key /\ At(c).key \in world.inGraph
    BY <1>3, <1>5
  <2>2. /\ c[1] \in DOMAIN world.files /\ d[1] \in DOMAIN world.files
        /\ c[2] \in DOMAIN Resolved(world.files[c[1]])
        /\ d[2] \in DOMAIN Resolved(world.files[d[1]])
    BY <1>3, <1>4
  <2>3. c[1] = d[1] /\ c[2] = d[2]
    BY <1>4, <2>1, <2>2, NamesAssumption
  <2> QED BY <1>3, <2>3
<1> QED BY <1>1, <1>2, <1>5 DEF FilesOf, File

(* In whatever order the variants of the packages come and whichever have  *)
(* type errors, each function of each file is indexed once, and is drawn   *)
(* for a fault with no more than its share (graph.go:546-596,              *)
(* mutate.go:139-176).                                                     *)
THEOREM Spans == Spec => []SpansExact
BY Invariance, SpansOnce, PTL

LEMMA UseIsInIndex ==
  ASSUME NEW f, spans[f] = SpansOf(f), NEW u, NEW k
  PROVE  UseCounts(f, u, k) <=> UseOf(f, u, k)
BY DEF UseCounts, UseOf, Around

(* No use of a declaration is lost and none is made up, in whatever order  *)
(* the packages come (graph.go:629-679).                                   *)
THEOREM Refs == Spec => []RefsExact
<1>1. ASSUME Inv PROVE RefsExact
  <2>1. \A f \in DOMAIN spans : \A u, k : UseCounts(f, u, k) <=> UseOf(f, u, k)
    BY <1>1, UseIsInIndex DEF Inv, IndexInv
  <2>2. \A d \in world.decls : RefsSoFar(d)
    BY <1>1 DEF Inv, IndexInv
  <2> QED BY <2>1, <2>2 DEF RefsExact, RefsSoFar
<1> QED BY Invariance, <1>1, PTL

(* The dependencies of a package, that every fallback and filter goes by,  *)
(* are those of all its test binaries, in whatever order its variants come *)
(* and by whichever of them a walk goes on; and none are made up, whatever *)
(* a directory is named (graph.go:718-738).                                *)
THEOREM Deps == Spec => []DepsExact
<1>1. ASSUME Inv PROVE DepsExact
  <2>1. SUFFICES ASSUME Indexed PROVE DepsExact
    BY DEF DepsExact
  <2>2. DepsSoFar
    BY <1>1 DEF Inv, IndexInv
  <2>3. \A p : VariantsOf(p) \ todo = VariantsOf(p)
    BY <2>1 DEF Indexed
  <2> QED BY <2>2, <2>3 DEF DepsExact, DepsSoFar, LinkedPaths
<1> QED BY Invariance, <1>1, PTL

(* Of no function are more tests selected than go test would run for it,   *)
(* however the walks go and whichever boundaries they end in: what Select  *)
(* and baselineFor count for a function are tests that see one package,    *)
(* since no two packages hold one file and no two functions share a name   *)
(* (doctor.go:109-153, selection.go:343-376).                              *)
THEOREM Comparison == Spec => []FairComparison
<1>1. Inv => FairComparison
  BY DEF Inv
<1> QED BY Invariance, <1>1, PTL
=============================================================================
