---------------------------- MODULE GraphCacheProofs ----------------------------
(***************************************************************************)
(* The cache of GraphCache is sound, for any number of runs, files,        *)
(* configurations and edits.                                               *)
(*                                                                         *)
(* A step of a run touches the variables of that run only, so what the     *)
(* invariant says of the others holds on (Frame); each action then has to  *)
(* see to its own run and, if it writes one, to the entry it writes.       *)
(***************************************************************************)
EXTENDS GraphCache, TLAPS

Inv == TypeOK /\ IInv

PCs == Busy \cup Ended \cup {"idle"}

(* A partial function with one more file is one again.                     *)
LEMMA WithPartial ==
  ASSUME NEW fn \in Partial(Files), NEW x \in Files, NEW v \in Contents \cup {Absent}
  PROVE  /\ With(fn, x, v) \in Partial(Files)
         /\ DOMAIN With(fn, x, v) = DOMAIN fn \cup {x}
         /\ \A y \in DOMAIN With(fn, x, v) : With(fn, x, v)[y] = IF y = x THEN v ELSE fn[y]
<1>1. PICK D \in SUBSET Files : fn \in [D -> Contents \cup {Absent}]
  BY DEF Partial
<1>2. With(fn, x, v) \in [D \cup {x} -> Contents \cup {Absent}]
  BY <1>1 DEF With
<1>3. D \cup {x} \in SUBSET Files
  BY <1>1
<1> QED BY <1>1, <1>2, <1>3 DEF Partial, With

LEMMA WithDigest ==
  ASSUME NEW fn \in Digests, NEW x \in Hashed, NEW v \in Contents
  PROVE  /\ With(fn, x, v) \in Digests
         /\ DOMAIN With(fn, x, v) = DOMAIN fn \cup {x}
         /\ \A y \in DOMAIN With(fn, x, v) : With(fn, x, v)[y] = IF y = x THEN v ELSE fn[y]
<1>1. PICK D \in SUBSET Hashed : fn \in [D -> Contents]
  BY DEF Digests
<1>2. With(fn, x, v) \in [D \cup {x} -> Contents]
  BY <1>1 DEF With
<1>3. D \cup {x} \in SUBSET Hashed
  BY <1>1
<1> QED BY <1>1, <1>2, <1>3 DEF Digests, With

(* A whole digest that agrees with the tree is the digest of the tree.     *)
LEMMA DigestComplete ==
  ASSUME NEW tree \in Trees, NEW d \in Digests,
         DOMAIN d = Listed(tree), Agrees(d, tree)
  PROVE  d = DigestOf(tree)
<1>1. d = [f \in DOMAIN d |-> d[f]]
  BY DEF Digests
<1>2. DigestOf(tree) = [f \in Listed(tree) |-> tree[f]]
  BY DEF DigestOf, Restrict
<1>3. \A f \in DOMAIN d : d[f] = tree[f]
  BY DEF Agrees
<1> QED BY <1>1, <1>2, <1>3

(* Sources that were read to the end are a tree, and the tree they agree with. *)
LEMMA ReadComplete ==
  ASSUME NEW r \in Partial(Files), DOMAIN r = Files
  PROVE  /\ r \in Trees
         /\ \A tree \in Trees : Agrees(r, tree) => r = tree
<1>1. r \in Trees
  BY DEF Partial, Trees
<1>2. ASSUME NEW tree \in Trees, Agrees(r, tree) PROVE r = tree
  BY <1>1, <1>2 DEF Trees, Agrees
<1> QED BY <1>1, <1>2

(* If every file is hashed, a digest tells a tree from any other.          *)
LEMMA DigestInjective ==
  ASSUME Hashed = Files, NEW t \in Trees, NEW u \in Trees, DigestOf(t) = DigestOf(u)
  PROVE  t = u
<1>1. Listed(t) = Listed(u)
  BY DEF DigestOf, Restrict
<1>2. \A f \in Listed(t) : t[f] = u[f]
  BY <1>1 DEF DigestOf, Restrict
<1>3. \A f \in Files : t[f] = u[f]
  BY <1>1, <1>2 DEF Listed
<1> QED BY <1>3 DEF Trees

-----------------------------------------------------------------------------
LEMMA EmptyTyped ==
  /\ Fresh \in LocalState
  /\ DOMAIN Empty = {}
<1>1. Empty \in [{} -> Contents] /\ Empty \in [{} -> Contents \cup {Absent}]
  BY DEF Empty
<1>2. Empty \in Digests /\ Empty \in Partial(Files)
  BY <1>1 DEF Digests, Partial
<1> QED BY <1>2 DEF Fresh, LocalState, Empty

LEMMA InitInv == Init => Inv
<1> SUFFICES ASSUME Init PROVE Inv
  OBVIOUS
<1>1. DOMAIN store = {}
  BY DEF Init
<1>2. store \in [DOMAIN store -> Entries]
  BY <1>1 DEF Init
<1>3. TypeOK
  BY <1>1, <1>2, EmptyTyped DEF Init, TypeOK, KeyWhole, Fresh, Busy, Reading, Ended
<1>4. \A p \in Procs : RunInv(pc[p], local[p], asked[p], disk, graph[p])
  BY DEF Init, RunInv, WalkingInv, HashingInv, KeyInv, BuiltInv, Fresh
<1>5. \A p \in Procs : CalmRun(pc[p], local[p], disk)
  BY <1>1 DEF Init, CalmRun, Fresh
<1> QED BY <1>1, <1>3, <1>4, <1>5 DEF Inv, IInv, StoreSound, EntriesWhole

-----------------------------------------------------------------------------
(* What a run that is at where, with local variables l and graph g, has to *)
(* see to.                                                                 *)
Own(where, l, g, config, tree, quiet) ==
  /\ where \in PCs
  /\ l \in LocalState
  /\ g \in Graphs \cup {NoGraph}
  /\ KeyWhole(l, config)
  /\ RunInv(where, l, config, tree, g)
  /\ quiet => CalmRun(where, l, tree)

(* What the entries of the store are like.                                 *)
StoreInv ==
  /\ DOMAIN store \subseteq Keys
  /\ store \in [DOMAIN store -> Entries]
  /\ StoreSound
  /\ EntriesWhole
  /\ \A k \in DOMAIN store : store[k].graph.config = k.config
  /\ calm => \A k \in DOMAIN store : ~ store[k].raced

LEMMA InvParts ==
  ASSUME Inv
  PROVE  /\ StoreInv
         /\ disk \in Trees /\ asked \in [Procs -> Configs] /\ calm \in BOOLEAN
         /\ pc \in [Procs -> PCs]
         /\ graph \in [Procs -> Graphs \cup {NoGraph}]
         /\ local \in [Procs -> LocalState]
         /\ \A p \in Procs : Own(pc[p], local[p], graph[p], asked[p], disk, calm)
BY DEF Inv, TypeOK, IInv, StoreInv, Own, PCs

(* The step of run p to where, with l and g for its local variables and    *)
(* its graph.                                                              *)
Moves(p, where, l, g) ==
  /\ pc' = [pc EXCEPT ![p] = where]
  /\ local' = [local EXCEPT ![p] = l]
  /\ graph' = [graph EXCEPT ![p] = g]
  /\ disk' = disk /\ asked' = asked /\ calm' = calm

(* Such a step disturbs no other run: it is enough that the run sees to    *)
(* its own, and to the store if it writes to it.                           *)
LEMMA Frame ==
  ASSUME Inv, NEW p \in Procs, NEW where, NEW l, NEW g,
         Moves(p, where, l, g),
         Own(where, l, g, asked[p], disk, calm),
         StoreInv'
  PROVE  Inv'
<1>1. \A q \in Procs :
        /\ pc'[q] = IF q = p THEN where ELSE pc[q]
        /\ local'[q] = IF q = p THEN l ELSE local[q]
        /\ graph'[q] = IF q = p THEN g ELSE graph[q]
  BY InvParts DEF Moves
<1>2. \A q \in Procs : Own(pc'[q], local'[q], graph'[q], asked[q], disk, calm)
  BY <1>1, InvParts
<1>3. /\ pc' \in [Procs -> PCs]
      /\ graph' \in [Procs -> Graphs \cup {NoGraph}]
      /\ local' \in [Procs -> LocalState]
  BY InvParts DEF Moves, Own
<1>4. /\ disk' = disk /\ asked' = asked /\ calm' = calm
      /\ disk \in Trees /\ asked \in [Procs -> Configs] /\ calm \in BOOLEAN
  BY InvParts DEF Moves
<1>5. \A q \in Procs : /\ RunInv(pc'[q], local'[q], asked'[q], disk', graph'[q])
                       /\ calm' => CalmRun(pc'[q], local'[q], disk')
  BY <1>2, <1>4 DEF Own
<1>6. TypeOK'
  BY <1>2, <1>3, <1>4 DEF TypeOK, StoreInv, PCs, Own
<1>7. IInv'
  BY <1>5 DEF IInv, StoreInv
<1> QED BY <1>6, <1>7 DEF Inv

LEMMA StoreKept ==
  ASSUME Inv, store' = store, calm' = calm
  PROVE  StoreInv'
BY InvParts DEF StoreInv, StoreSound, EntriesWhole

LEMMA Move ==
  ASSUME Inv, NEW p \in Procs, NEW where, NEW l, NEW g,
         Moves(p, where, l, g), store' = store,
         Own(where, l, g, asked[p], disk, calm)
  PROVE  Inv'
BY StoreKept, Frame DEF Moves

(* What is known of a run before its step.                                 *)
LEMMA RunState ==
  ASSUME Inv, NEW p \in Procs
  PROVE  /\ Own(pc[p], local[p], graph[p], asked[p], disk, calm)
         /\ local[p] \in LocalState /\ graph[p] \in Graphs \cup {NoGraph}
         /\ pc[p] \in PCs /\ asked[p] \in Configs /\ disk \in Trees
         /\ pc = [pc EXCEPT ![p] = pc[p]]
         /\ graph = [graph EXCEPT ![p] = graph[p]]
         /\ local = [local EXCEPT ![p] = local[p]]
BY InvParts

(* A run that is over has nothing to see to.                               *)
LEMMA LeaveInv ==
  ASSUME Inv, NEW p \in Procs, NEW where \in Ended, NEW g \in Graphs \cup {NoGraph},
         Leave(p, where, g), UNCHANGED <<disk, calm, asked>>
  PROVE  /\ Moves(p, where, Fresh, g)
         /\ Own(where, Fresh, g, asked[p], disk, calm)
<1>1. Moves(p, where, Fresh, g)
  BY DEF Leave, Go, Moves
<1>2. Own(where, Fresh, g, asked[p], disk, calm)
  BY EmptyTyped DEF Own, KeyWhole, RunInv, WalkingInv, HashingInv, KeyInv, BuiltInv, CalmRun,
                    Fresh, Ended, PCs
<1> QED BY <1>1, <1>2

-----------------------------------------------------------------------------
(* One lemma for each action.                                              *)
LEMMA CallInv ==
  ASSUME Inv, NEW p \in Procs, Call(p)
  PROVE  Inv'
<1>1. PICK where \in {"walking", "loading"} : pc' = [pc EXCEPT ![p] = where]
  BY DEF Call, Go
<1>2. Own(where, local[p], graph[p], asked[p], disk, calm)
  BY RunState, EmptyTyped
     DEF Call, Own, KeyWhole, RunInv, WalkingInv, HashingInv, KeyInv, BuiltInv, CalmRun, Agrees,
         PCs, Busy, Reading
<1>3. Moves(p, where, local[p], graph[p])
  BY <1>1, RunState DEF Call, shared, Moves
<1> QED BY <1>2, <1>3, Move DEF Call, shared

LEMMA ListInv ==
  ASSUME Inv, NEW p \in Procs, List(p)
  PROVE  Inv'
<1> DEFINE l == [local[p] EXCEPT !.listed = Listed(disk)]
<1>1. l \in LocalState
  BY RunState DEF LocalState, Listed
<1>2. /\ l.digest = Empty /\ l.key = NoKey /\ l.read = Empty
      /\ l.listed = Listed(disk) /\ l.raced = local[p].raced
  BY RunState DEF List, Own, KeyWhole, RunInv, WalkingInv, LocalState
<1>3. pc[p] = "walking" /\ Moves(p, "hashing", l, graph[p])
  BY RunState DEF List, Go, shared, Moves
<1> HIDE DEF l
<1>4. Own("hashing", l, graph[p], asked[p], disk, calm)
  BY <1>1, <1>2, <1>3, RunState, EmptyTyped
     DEF Own, KeyWhole, RunInv, WalkingInv, HashingInv, KeyInv, BuiltInv, CalmRun, Agrees,
         PCs, Busy, Reading
<1> QED BY <1>3, <1>4, Move DEF List, shared

LEMMA HashFileInv ==
  ASSUME Inv, NEW p \in Procs, NEW f \in Files, HashFile(p, f)
  PROVE  Inv'
<1> DEFINE d == With(local[p].digest, f, disk[f])
           l == [local[p] EXCEPT !.digest = d]
<1>1. f \in local[p].listed /\ disk[f] # Absent
  BY DEF HashFile, First, ToHash
<1>2. f \in Hashed /\ disk[f] \in Contents /\ local[p].digest \in Digests
  BY <1>1, RunState DEF LocalState, Trees
<1>3. /\ d \in Digests
      /\ DOMAIN d = DOMAIN local[p].digest \cup {f}
      /\ \A y \in DOMAIN d : d[y] = IF y = f THEN disk[f] ELSE local[p].digest[y]
  <2> DEFINE dg == local[p].digest
             v == disk[f]
  <2>1. dg \in Digests /\ f \in Hashed /\ v \in Contents
    BY <1>2
  <2> HIDE DEF dg, v
  <2>2. /\ With(dg, f, v) \in Digests
        /\ DOMAIN With(dg, f, v) = DOMAIN dg \cup {f}
        /\ \A y \in DOMAIN With(dg, f, v) :
             With(dg, f, v)[y] = IF y = f THEN v ELSE dg[y]
    BY <2>1, WithDigest
  <2> QED BY <2>2 DEF dg, v
<1>4. pc[p] = "hashing" /\ Moves(p, "hashing", l, graph[p])
  BY RunState DEF HashFile, shared, Moves
<1> HIDE DEF d
<1>5. l \in LocalState
  BY <1>3, RunState DEF LocalState
<1>6. /\ l.digest = d /\ l.key = local[p].key /\ l.read = local[p].read
      /\ l.listed = local[p].listed /\ l.raced = local[p].raced
  BY RunState DEF LocalState
<1>7. ASSUME Agrees(local[p].digest, disk) PROVE Agrees(d, disk)
  BY <1>3, <1>7 DEF Agrees
<1> HIDE DEF l
<1>8. Own("hashing", l, graph[p], asked[p], disk, calm)
  BY <1>1, <1>3, <1>4, <1>5, <1>6, <1>7, RunState
     DEF Own, KeyWhole, RunInv, WalkingInv, HashingInv, KeyInv, BuiltInv, CalmRun
<1> QED BY <1>4, <1>8, Move DEF HashFile, shared

LEMMA SumInv ==
  ASSUME Inv, NEW p \in Procs, Sum(p)
  PROVE  Inv'
<1> DEFINE k == KeyOf(asked[p], local[p].digest)
           l == [local[p] EXCEPT !.key = k]
<1>1. k \in Keys /\ k.config = asked[p]
  BY RunState DEF LocalState, Keys, KeyOf
<1>2. pc[p] = "hashing" /\ Moves(p, "looking", l, graph[p])
  BY RunState DEF Sum, Go, shared, Moves
<1>3. ASSUME ~ local[p].raced PROVE k = KeyOf(asked[p], DigestOf(disk))
  <2>1. /\ local[p].listed = Listed(disk)
        /\ DOMAIN local[p].digest \subseteq local[p].listed
        /\ Agrees(local[p].digest, disk)
    BY <1>2, <1>3, RunState DEF Own, KeyWhole, RunInv, HashingInv
  <2>3. local[p].listed \ DOMAIN local[p].digest = {}
    BY DEF Sum, ToHash
  <2>2. local[p].digest \in Digests
    BY RunState DEF LocalState
  <2> QED BY <2>1, <2>2, <2>3, RunState, DigestComplete
<1>7. k = KeyOf(asked[p], local[p].digest) /\ DOMAIN local[p].digest = local[p].listed
  BY <1>2, RunState DEF Sum, ToHash, Own, KeyWhole
<1> HIDE DEF k
<1>4. l \in LocalState
  BY <1>1, RunState DEF LocalState
<1>5. /\ l.key = k /\ l.read = local[p].read /\ l.raced = local[p].raced
      /\ l.digest = local[p].digest /\ l.listed = local[p].listed
      /\ local[p].read = Empty
  BY <1>2, RunState DEF LocalState, Own, KeyWhole, RunInv, HashingInv
<1> HIDE DEF l
<1>6. Own("looking", l, graph[p], asked[p], disk, calm)
  BY <1>1, <1>2, <1>3, <1>4, <1>5, <1>7, RunState, EmptyTyped
     DEF Own, KeyWhole, RunInv, WalkingInv, HashingInv, KeyInv, BuiltInv, CalmRun, Agrees,
         PCs, Busy, Reading
<1> QED BY <1>2, <1>6, Move DEF Sum, shared

LEMMA KeyFailsInv ==
  ASSUME Inv, NEW p \in Procs, KeyFails(p)
  PROVE  Inv'
<1>1. Moves(p, "loading", local[p], graph[p])
  BY RunState DEF KeyFails, Go, shared, Moves
<1>2. Own("loading", local[p], graph[p], asked[p], disk, calm)
  BY RunState, EmptyTyped
     DEF KeyFails, Own, KeyWhole, RunInv, WalkingInv, HashingInv, KeyInv, BuiltInv, CalmRun, Agrees,
         PCs, Busy, Reading
<1> QED BY <1>1, <1>2, Move DEF KeyFails, shared

LEMMA MissInv ==
  ASSUME Inv, NEW p \in Procs, Miss(p)
  PROVE  Inv'
<1>1. Moves(p, "loading", local[p], graph[p])
  BY RunState DEF Miss, Go, shared, Moves
<1>2. Own("loading", local[p], graph[p], asked[p], disk, calm)
  BY RunState
     DEF Miss, Own, KeyWhole, RunInv, WalkingInv, HashingInv, KeyInv, BuiltInv, CalmRun,
         PCs, Busy, Reading
<1> QED BY <1>1, <1>2, Move DEF Miss, shared

LEMMA HitInv ==
  ASSUME Inv, NEW p \in Procs, Hit(p)
  PROVE  Inv'
<1>1. store[local[p].key].graph \in Graphs
  BY InvParts DEF Hit, Found, StoreInv, Entries
<1>2. "done" \in Ended
  BY DEF Ended
<1> QED BY <1>1, <1>2, LeaveInv, Move DEF Hit, shared

LEMMA LoadFailsInv ==
  ASSUME Inv, NEW p \in Procs, LoadFails(p)
  PROVE  Inv'
BY LeaveInv, Move DEF LoadFails, shared, Ended

LEMMA KillInv ==
  ASSUME Inv, NEW p \in Procs, Kill(p)
  PROVE  Inv'
BY LeaveInv, Move DEF Kill, shared, Ended

LEMMA ReturnUnsavedInv ==
  ASSUME Inv, NEW p \in Procs, ReturnUnsaved(p)
  PROVE  Inv'
BY RunState, LeaveInv, Move DEF ReturnUnsaved, shared, Ended

LEMMA SaveFailsInv ==
  ASSUME Inv, NEW p \in Procs, SaveFails(p)
  PROVE  Inv'
BY RunState, LeaveInv, Move DEF SaveFails, shared, Ended

LEMMA LoadFileInv ==
  ASSUME Inv, NEW p \in Procs, NEW f \in Files, LoadFile(p, f)
  PROVE  Inv'
<1> DEFINE r == With(local[p].read, f, disk[f])
           l == [local[p] EXCEPT !.read = r]
<1>1. disk[f] \in Contents \cup {Absent} /\ local[p].read \in Partial(Files)
  BY RunState DEF LocalState, Trees
<1>2. /\ r \in Partial(Files)
      /\ DOMAIN r = DOMAIN local[p].read \cup {f}
      /\ \A y \in DOMAIN r : r[y] = IF y = f THEN disk[f] ELSE local[p].read[y]
  BY <1>1, WithPartial
<1>3. pc[p] = "loading" /\ Moves(p, "loading", l, graph[p])
  BY RunState DEF LoadFile, shared, Moves
<1> HIDE DEF r
<1>4. l \in LocalState
  BY <1>2, RunState DEF LocalState
<1>5. /\ l.digest = local[p].digest /\ l.key = local[p].key /\ l.read = r
      /\ l.listed = local[p].listed /\ l.raced = local[p].raced
  BY RunState DEF LocalState
<1>6. ASSUME Agrees(local[p].read, disk) PROVE Agrees(r, disk)
  BY <1>2, <1>6 DEF Agrees
<1> HIDE DEF l
<1>7. Own("loading", l, graph[p], asked[p], disk, calm)
  BY <1>3, <1>4, <1>5, <1>6, RunState
     DEF Own, KeyWhole, RunInv, WalkingInv, HashingInv, KeyInv, BuiltInv, CalmRun
<1> QED BY <1>3, <1>7, Move DEF LoadFile, shared

LEMMA AnalyseInv ==
  ASSUME Inv, NEW p \in Procs, Analyse(p)
  PROVE  Inv'
<1> DEFINE g == GraphOf(asked[p], local[p].read)
<1>1. pc[p] = "loading" /\ Moves(p, "built", local[p], g)
  BY RunState DEF Analyse, Go, shared, Moves
<1>2. local[p].read \in Partial(Files) /\ DOMAIN local[p].read = Files
  BY RunState DEF Analyse, LocalState
<1>3. local[p].read \in Trees
  BY <1>2, ReadComplete
<1>4. g \in Graphs
  BY <1>3, RunState DEF Graphs
<1>5. ASSUME ~ local[p].raced PROVE local[p].read = disk
  BY <1>1, <1>2, <1>5, ReadComplete, RunState DEF Own, KeyWhole, RunInv, KeyInv
<1>6. Own("built", local[p], g, asked[p], disk, calm)
  BY <1>1, <1>2, <1>4, <1>5, RunState
     DEF Own, KeyWhole, RunInv, WalkingInv, HashingInv, KeyInv, BuiltInv, CalmRun,
         PCs, Busy, Reading
<1> QED BY <1>1, <1>6, Move DEF Analyse, shared

LEMMA CreateTempInv ==
  ASSUME Inv, NEW p \in Procs, CreateTemp(p)
  PROVE  Inv'
<1> DEFINE l == [local[p] EXCEPT !.tmp = "part"]
<1>1. pc[p] = "built" /\ local[p].key # NoKey /\ Moves(p, "saving", l, graph[p])
  BY RunState DEF CreateTemp, Go, shared, Moves
<1>2. l \in LocalState
  BY RunState DEF LocalState
<1>3. /\ l.key = local[p].key /\ l.read = local[p].read /\ l.raced = local[p].raced
      /\ l.digest = local[p].digest /\ l.listed = local[p].listed
  BY RunState DEF LocalState
<1> HIDE DEF l
<1>4. Own("saving", l, graph[p], asked[p], disk, calm)
  BY <1>1, <1>2, <1>3, RunState
     DEF Own, KeyWhole, RunInv, WalkingInv, HashingInv, KeyInv, BuiltInv, CalmRun, PCs, Busy
<1> QED BY <1>1, <1>4, Move DEF CreateTemp, shared

LEMMA EncodeInv ==
  ASSUME Inv, NEW p \in Procs, Encode(p)
  PROVE  Inv'
<1> DEFINE l == [local[p] EXCEPT !.tmp = "whole"]
<1>1. pc[p] = "saving" /\ Moves(p, "saving", l, graph[p])
  BY RunState DEF Encode, shared, Moves
<1>2. l \in LocalState
  BY RunState DEF LocalState
<1>3. /\ l.key = local[p].key /\ l.read = local[p].read /\ l.raced = local[p].raced
      /\ l.digest = local[p].digest /\ l.listed = local[p].listed
  BY RunState DEF LocalState
<1> HIDE DEF l
<1>4. Own("saving", l, graph[p], asked[p], disk, calm)
  BY <1>1, <1>2, <1>3, RunState
     DEF Own, KeyWhole, RunInv, WalkingInv, HashingInv, KeyInv, BuiltInv, CalmRun
<1> QED BY <1>1, <1>4, Move DEF Encode, shared

(* The entry that is put in place is whole, of the configuration in its    *)
(* key, and of the sources in its key unless an edit raced the run.        *)
LEMMA RenameInv ==
  ASSUME Inv, NEW p \in Procs, Rename(p)
  PROVE  Inv'
<1> DEFINE k == local[p].key
           e == Entry(p)
<1>1. /\ pc[p] = "saving" /\ local[p].tmp = "whole"
      /\ store' = With(store, k, e)
      /\ calm' = calm
  BY DEF Rename
<1>2. /\ k \in Keys
      /\ k.config = asked[p]
      /\ graph[p] = GraphOf(asked[p], local[p].read)
      /\ local[p].read \in Trees
      /\ ~ local[p].raced => k = KeyOf(asked[p], DigestOf(local[p].read))
      /\ calm => ~ local[p].raced
  <2>1. local[p].read \in Partial(Files) /\ DOMAIN local[p].read = Files
    BY <1>1, RunState DEF LocalState, Own, KeyWhole, RunInv, BuiltInv
  <2>2. local[p].read \in Trees
    BY <2>1, ReadComplete
  <2>3. k \in Keys
    BY <1>1, RunState DEF LocalState, Own, KeyWhole, RunInv, BuiltInv
  <2> QED BY <1>1, <2>2, <2>3, RunState
          DEF LocalState, Own, KeyWhole, RunInv, KeyInv, BuiltInv, CalmRun
<1>3. /\ e \in Entries
      /\ e.whole /\ e.raced = local[p].raced
      /\ e.graph.config = asked[p] /\ e.graph.sources = local[p].read
  <2>1. graph[p] \in Graphs /\ local[p].raced \in BOOLEAN
    BY <1>2, RunState DEF Graphs, LocalState
  <2>2. graph[p].config = asked[p] /\ graph[p].sources = local[p].read
    BY <1>2 DEF GraphOf
  <2> QED BY <1>1, <2>1, <2>2 DEF Entry, Entries
<1> HIDE DEF k, e
<1>4. /\ DOMAIN store' = DOMAIN store \cup {k}
      /\ \A j \in DOMAIN store' : store'[j] = IF j = k THEN e ELSE store[j]
      /\ store' = [j \in DOMAIN store' |-> store'[j]]
  BY <1>1 DEF With
<1>5. StoreInv
  BY InvParts
<1>6. /\ DOMAIN store' \subseteq Keys
      /\ store' \in [DOMAIN store' -> Entries]
  BY <1>2, <1>3, <1>4, <1>5 DEF StoreInv
<1>7. \A j \in DOMAIN store' :
        /\ store'[j].whole
        /\ store'[j].graph.config = j.config
        /\ ~ store'[j].raced =>
             j = KeyOf(store'[j].graph.config, DigestOf(store'[j].graph.sources))
        /\ calm => ~ store'[j].raced
  BY <1>2, <1>3, <1>4, <1>5 DEF StoreInv, StoreSound, EntriesWhole
<1>8. StoreInv'
  BY <1>1, <1>6, <1>7 DEF StoreInv, StoreSound, EntriesWhole
<1>9. /\ Moves(p, "done", Fresh, graph[p])
      /\ Own("done", Fresh, graph[p], asked[p], disk, calm)
  BY RunState, LeaveInv DEF Rename, Ended
<1> QED BY <1>8, <1>9, Frame

(* An edit leaves every run where it is, but those that are reading have   *)
(* been raced, and if any is at work the calm is over.                     *)
LEMMA EditInv ==
  ASSUME Inv, NEW f \in Files, NEW c \in Contents \cup {Absent}, Edit(f, c)
  PROVE  Inv'
<1>1. /\ disk' = [disk EXCEPT ![f] = c]
      /\ calm' = (calm /\ \A p \in Procs : pc[p] \notin Busy)
      /\ local' = [p \in Procs |-> [local[p] EXCEPT !.raced = @ \/ pc[p] \in Reading]]
      /\ store' = store /\ pc' = pc /\ asked' = asked /\ graph' = graph
  BY DEF Edit
<1>2. disk' \in Trees /\ calm' \in BOOLEAN
  BY <1>1, InvParts DEF Trees
<1>3. ASSUME NEW p \in Procs
      PROVE  /\ local'[p] \in LocalState
             /\ KeyWhole(local'[p], asked[p])
             /\ RunInv(pc[p], local'[p], asked[p], disk', graph[p])
             /\ calm' => CalmRun(pc[p], local'[p], disk')
  <2> DEFINE l == local[p]
             m == local'[p]
  <2>1. m = [l EXCEPT !.raced = l.raced \/ pc[p] \in Reading]
    BY <1>1
  <2>2. l \in LocalState /\ Own(pc[p], l, graph[p], asked[p], disk, calm)
    BY RunState
  <2> HIDE DEF l, m
  <2>3. /\ m.listed = l.listed /\ m.digest = l.digest /\ m.key = l.key
        /\ m.read = l.read /\ m.tmp = l.tmp
        /\ m.raced = (l.raced \/ pc[p] \in Reading)
    BY <2>1, <2>2 DEF LocalState
  <2>4. m \in LocalState
    BY <2>1, <2>2 DEF LocalState
  <2>5. RunInv(pc[p], m, asked[p], disk', graph[p])
    BY <2>2, <2>3 DEF Own, KeyWhole, RunInv, WalkingInv, HashingInv, KeyInv, BuiltInv, Reading
  <2>6. calm' => CalmRun(pc[p], m, disk')
    BY <1>1, <2>2, <2>3 DEF Own, CalmRun, Busy, Reading
  <2>7. KeyWhole(m, asked[p])
    BY <2>2, <2>3 DEF Own, KeyWhole
  <2> QED BY <2>4, <2>5, <2>6, <2>7 DEF m
<1>4. local' \in [Procs -> LocalState]
  BY <1>1, <1>3
<1>5. TypeOK'
  BY <1>1, <1>2, <1>3, <1>4, InvParts DEF TypeOK, StoreInv, PCs
<1>6. /\ StoreSound' /\ EntriesWhole'
      /\ \A k \in DOMAIN store' : store'[k].graph.config = k.config
      /\ calm' => \A k \in DOMAIN store' : ~ store'[k].raced
  BY <1>1, InvParts DEF StoreInv, StoreSound, EntriesWhole
<1>7. IInv'
  BY <1>1, <1>3, <1>6 DEF IInv
<1> QED BY <1>5, <1>7 DEF Inv

LEMMA InvNext == Inv /\ [Next]_vars => Inv'
<1> SUFFICES ASSUME Inv, [Next]_vars PROVE Inv'
  OBVIOUS
<1>1. CASE UNCHANGED vars
  BY <1>1 DEF vars, Inv, TypeOK, IInv, StoreSound, EntriesWhole
<1>2. ASSUME NEW p \in Procs, Step(p) PROVE Inv'
  BY <1>2, ListInv, SumInv, KeyFailsInv, HitInv, MissInv, LoadFailsInv, AnalyseInv,
     ReturnUnsavedInv, CreateTempInv, EncodeInv, RenameInv, SaveFailsInv, HashFileInv,
     LoadFileInv DEF Step
<1> QED BY <1>1, <1>2, CallInv, KillInv, EditInv DEF Next

(* What every run has listed, hashed, loaded and stored stays in step with *)
(* the tree, whichever run takes a step and whatever is edited (graph.go   *)
(* 141-311, cache.go 56-171).                                              *)
THEOREM Invariance == Spec => []Inv
<1> QED BY InitInv, InvNext, PTL DEF Spec

(* Every variable keeps to its type (cache.go 56-171, graph.go 147-175).   *)
THEOREM TypeCorrectness == Spec => []TypeOK
<1>1. Inv => TypeOK
  BY DEF Inv
<1> QED BY <1>1, Invariance, PTL

(* LoadCached never comes upon a half-written graph, whoever is killed in  *)
(* the middle of Save (cache.go 155-170).                                  *)
THEOREM Wholeness == Spec => []EntriesWhole
<1>1. Inv => EntriesWhole
  BY DEF Inv, IInv
<1> QED BY <1>1, Invariance, PTL

(* Unless the run that saved it was raced by an edit, a graph is stored    *)
(* under the key of what it was built from (graph.go 147-169).             *)
THEOREM Soundness == Spec => []StoreSound
<1>1. Inv => StoreSound
  BY DEF Inv, IInv
<1> QED BY <1>1, Invariance, PTL

-----------------------------------------------------------------------------
(***************************************************************************)
(* With every file that the analysis reads in the key, the cache cannot be *)
(* told from no cache as long as nobody edits while a run is at work.      *)
(***************************************************************************)

LEMMA StatusOf ==
  /\ Status("idle") = "idle"
  /\ Status("done") = "answered"
  /\ Status("failed") = "over" /\ Status("killed") = "over"
  /\ \A where \in Busy : Status(where) = "working"
  /\ \A where \in PCs \ Busy : Status(where) # "working"
BY DEF Status, PCs, Busy, Reading, Ended

(* A run that is at work before and after its step does not show.          *)
LEMMA Silent ==
  ASSUME Inv, NEW p \in Procs, NEW where \in Busy, NEW l, NEW g,
         pc[p] \in Busy, Moves(p, where, l, g)
  PROVE  UNCHANGED OnDemand!vars
<1>1. \A q \in Procs :
        /\ Status(pc'[q]) = Status(pc[q])
        /\ pc'[q] = "done" <=> pc[q] = "done"
        /\ pc[q] = "done" => graph'[q] = graph[q]
  BY InvParts DEF Moves, Status, Busy, Reading
<1>2. Statuses' = Statuses /\ Answers' = Answers
  BY <1>1 DEF Statuses, Answers
<1> QED BY <1>2 DEF OnDemand!vars, Moves

LEMMA SilentSteps ==
  ASSUME Inv, NEW p \in Procs,
         \/ List(p) \/ Sum(p) \/ KeyFails(p) \/ Miss(p) \/ Analyse(p)
         \/ CreateTemp(p) \/ Encode(p)
         \/ \E f \in Files : HashFile(p, f) \/ LoadFile(p, f)
  PROVE  UNCHANGED OnDemand!vars
<1>1. pc[p] \in Busy
  BY DEF List, Sum, KeyFails, Miss, Analyse, CreateTemp, Encode, HashFile, LoadFile,
         Busy, Reading
<1>2. PICK where \in Busy : pc' = [pc EXCEPT ![p] = where]
  BY <1>1, RunState
     DEF List, Sum, KeyFails, Miss, Analyse, CreateTemp, Encode, HashFile, LoadFile, Go,
         Busy, Reading
<1>3. /\ disk' = disk /\ asked' = asked /\ calm' = calm
      /\ \E g : graph' = [graph EXCEPT ![p] = g]
      /\ \E l : local' = [local EXCEPT ![p] = l]
  BY RunState
     DEF List, Sum, KeyFails, Miss, Analyse, CreateTemp, Encode, HashFile, LoadFile,
         shared
<1> QED BY <1>1, <1>2, <1>3, Silent DEF Moves

(* A run that leaves with a graph answers, and rightly if all is calm.     *)
LEMMA LeavesRightly ==
  ASSUME Inv, NEW p \in Procs, NEW tree \in Trees, pc[p] \in Busy,
         Leave(p, "done", GraphOf(asked[p], tree)),
         UNCHANGED <<disk, asked, calm>>,
         calm => tree = disk
  PROVE  OnDemand!Answer(p)
<1>1. Statuses[p] = "working"
  BY DEF Statuses, Status, Busy, Reading
<1>2. Statuses' = [Statuses EXCEPT ![p] = "answered"]
  BY InvParts DEF Leave, Go, Statuses, Status, Busy, Reading
<1>3. Answers' = [Answers EXCEPT ![p] = GraphOf(asked[p], tree)]
  BY InvParts DEF Leave, Go, Answers
<1> QED BY <1>1, <1>2, <1>3 DEF OnDemand!Answer, OnDemand!GraphOf, GraphOf

LEMMA GivesUp ==
  ASSUME Inv, NEW p \in Procs, LoadFails(p) \/ Kill(p)
  PROVE  OnDemand!GiveUp(p)
<1>1. pc[p] \in Busy
  BY DEF LoadFails, Kill, Busy, Reading
<1>2. PICK where \in {"failed", "killed"} : Leave(p, where, NoGraph)
  BY DEF LoadFails, Kill
<1>3. Statuses[p] = "working"
  BY <1>1 DEF Statuses, Status, Busy, Reading
<1>4. Statuses' = [Statuses EXCEPT ![p] = "over"]
  BY <1>2, InvParts DEF Leave, Go, Statuses, Status, Busy, Reading
<1>5. \A q \in Procs : /\ pc'[q] = "done" <=> pc[q] = "done"
                       /\ pc[q] = "done" => graph'[q] = graph[q]
  BY <1>1, <1>2, InvParts DEF Leave, Go, Busy, Reading
<1>6. Answers' = Answers
  BY <1>5 DEF Answers
<1> QED BY <1>3, <1>4, <1>6 DEF OnDemand!GiveUp, LoadFails, Kill, shared

(* What is found under the key of the tree is the graph of the tree.       *)
LEMMA HitAnswers ==
  ASSUME Hashed = Files, Inv, NEW p \in Procs, Hit(p)
  PROVE  OnDemand!Answer(p)
<1> DEFINE k == local[p].key
           t == store[k].graph.sources
<1>1. k \in DOMAIN store /\ k \in Keys /\ k # NoKey /\ pc[p] = "looking"
  BY InvParts, NoKeyAssumption DEF Hit, Found, StoreInv
<1>2. k.config = asked[p]
  BY <1>1, RunState DEF Own, KeyWhole, RunInv, KeyInv
<1>3. t \in Trees /\ store[k].graph = GraphOf(asked[p], t)
  <2>1. store[k].graph \in Graphs /\ store[k].graph.config = asked[p]
    BY <1>1, <1>2, InvParts DEF StoreInv, Entries
  <2>2. PICK c \in Configs, u \in Trees : store[k].graph = GraphOf(c, u)
    BY <2>1 DEF Graphs
  <2>3. c = asked[p] /\ u = t
    BY <2>1, <2>2 DEF GraphOf
  <2> QED BY <2>2, <2>3
<1>4. ASSUME calm PROVE t = disk
  <2>1. k = KeyOf(asked[p], DigestOf(disk))
    BY <1>1, <1>4, RunState DEF Own, KeyWhole, RunInv, KeyInv, CalmRun
  <2>2. k = KeyOf(asked[p], DigestOf(t))
    <3>1. ~ store[k].raced
      BY <1>1, <1>4, InvParts DEF StoreInv
    <3>2. k = KeyOf(store[k].graph.config, DigestOf(t))
      BY <1>1, <3>1, InvParts DEF StoreInv, StoreSound
    <3> QED BY <3>2, <1>3 DEF GraphOf
  <2>3. DigestOf(disk) = DigestOf(t)
    BY <2>1, <2>2 DEF KeyOf
  <2> QED BY <1>3, <2>3, RunState, DigestInjective
<1>5. pc[p] \in Busy
  BY <1>1 DEF Busy, Reading
<1>6. Leave(p, "done", GraphOf(asked[p], t)) /\ UNCHANGED <<disk, asked, calm>>
  BY <1>3 DEF Hit, shared
<1> QED BY <1>3, <1>4, <1>5, <1>6, LeavesRightly

LEMMA BuiltAnswers ==
  ASSUME Inv, NEW p \in Procs, ReturnUnsaved(p) \/ Rename(p) \/ SaveFails(p)
  PROVE  OnDemand!Answer(p)
<1> DEFINE t == local[p].read
<1>1. pc[p] \in {"built", "saving"}
  BY DEF ReturnUnsaved, Rename, SaveFails
<1>2. graph[p] = GraphOf(asked[p], t) /\ DOMAIN t = Files /\ (calm => t = disk)
  BY <1>1, RunState DEF Own, KeyWhole, RunInv, BuiltInv, CalmRun
<1>3. t \in Trees
  <2>1. t \in Partial(Files)
    BY RunState DEF LocalState
  <2> QED BY <1>2, <2>1, ReadComplete
<1>4. pc[p] \in Busy
  BY <1>1 DEF Busy
<1>5. Leave(p, "done", graph[p]) /\ UNCHANGED <<disk, asked, calm>>
  BY DEF ReturnUnsaved, Rename, SaveFails, shared
<1> QED BY <1>2, <1>3, <1>4, <1>5, LeavesRightly

LEMMA CallShows ==
  ASSUME Inv, NEW p \in Procs, Call(p)
  PROVE  OnDemand!Call(p)
<1>1. pc[p] = "idle"
  BY DEF Call
<1>2. PICK where \in {"walking", "loading"} : pc' = [pc EXCEPT ![p] = where]
  BY DEF Call, Go
<1>3. Statuses[p] = "idle"
  BY <1>1, StatusOf DEF Statuses
<1>4. Statuses' = [Statuses EXCEPT ![p] = "working"]
  BY <1>2, InvParts DEF Statuses, Status, Busy, Reading
<1>5. \A q \in Procs : pc'[q] = "done" <=> pc[q] = "done"
  BY <1>1, <1>2, InvParts
<1>6. Answers' = Answers
  BY <1>5 DEF Answers, Call
<1> QED BY <1>3, <1>4, <1>6 DEF OnDemand!Call, Call, shared

LEMMA EditShows ==
  ASSUME Inv, NEW f \in Files, NEW c \in Contents \cup {Absent}, Edit(f, c)
  PROVE  OnDemand!Edit
<1>1. disk' \in Trees
  BY InvParts DEF Edit, Trees
<1>2. \A p \in Procs : pc[p] \in Busy <=> Statuses[p] = "working"
  BY InvParts, StatusOf DEF Statuses
<1>3. Statuses' = Statuses /\ Answers' = Answers
  BY DEF Edit, Statuses, Answers
<1> QED BY <1>1, <1>2, <1>3 DEF OnDemand!Edit, Edit

LEMMA StepImplements ==
  ASSUME Hashed = Files, Inv, [Next]_vars
  PROVE  [OnDemand!Next]_(OnDemand!vars)
<1>1. CASE UNCHANGED vars
  BY <1>1 DEF vars, OnDemand!vars, Statuses, Answers
<1>2. ASSUME NEW p \in Procs, Step(p)
      PROVE  UNCHANGED OnDemand!vars \/ OnDemand!Answer(p) \/ OnDemand!GiveUp(p)
  <2>1. CASE Hit(p)
    BY <2>1, HitAnswers
  <2>2. CASE ReturnUnsaved(p) \/ Rename(p) \/ SaveFails(p)
    BY <2>2, BuiltAnswers
  <2>3. CASE LoadFails(p)
    BY <2>3, GivesUp
  <2>4. CASE \/ List(p) \/ Sum(p) \/ KeyFails(p) \/ Miss(p) \/ Analyse(p)
             \/ CreateTemp(p) \/ Encode(p)
             \/ \E f \in Files : HashFile(p, f) \/ LoadFile(p, f)
    BY <2>4, SilentSteps
  <2> QED BY <1>2, <2>1, <2>2, <2>3, <2>4 DEF Step
<1>3. ASSUME NEW p \in Procs, Call(p) \/ Kill(p)
      PROVE  OnDemand!Call(p) \/ OnDemand!GiveUp(p)
  BY <1>3, CallShows, GivesUp
<1>4. ASSUME NEW f \in Files, NEW c \in Contents \cup {Absent}, Edit(f, c)
      PROVE  OnDemand!Edit
  BY <1>4, EditShows
<1> QED BY <1>1, <1>2, <1>3, <1>4 DEF Next, OnDemand!Next

(* The cache implements a tool without one (cache.go 56-171, graph.go      *)
(* 141-311), provided that CacheKey hashes all that packages.Load reads.   *)
THEOREM Implementation == Hashed = Files => (Spec => ImplementsOnDemand)
<1> SUFFICES ASSUME Hashed = Files PROVE Spec => ImplementsOnDemand
  OBVIOUS
<1>1. Init => OnDemand!Init
  <2> SUFFICES ASSUME Init PROVE OnDemand!Init
    OBVIOUS
  <2>1. Statuses = [p \in Procs |-> "idle"] /\ Answers = [p \in Procs |-> NoGraph]
    BY StatusOf DEF Init, Statuses, Answers
  <2> QED BY <2>1 DEF Init, OnDemand!Init
<1>2. Inv /\ [Next]_vars => [OnDemand!Next]_(OnDemand!vars)
  BY StepImplements
<1> QED BY <1>1, <1>2, Invariance, PTL DEF Spec, ImplementsOnDemand, OnDemand!Spec
=============================================================================
