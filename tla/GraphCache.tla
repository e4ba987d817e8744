------------------------------- MODULE GraphCache -------------------------------
(***************************************************************************)
(* The on-disk cache of internal/graph/cache.go, as Build (graph.go        *)
(* 141-175 and 307-311) uses it.  Several runs of the tool share one cache *)
(* directory and one source tree, and the tree is edited meanwhile.  A run *)
(* hashes the sources file by file, looks the digest up, and on a miss     *)
(* loads the sources, again file by file, builds the graph and saves it    *)
(* under the digest, by way of a temporary file of its own.                *)
(*                                                                         *)
(* SHA-256 is taken to be injective: a digest is what went into it.  What  *)
(* the analysis makes of the sources is left open: a graph is known by the *)
(* configuration and the sources it was built from.                        *)
(***************************************************************************)
EXTENDS Naturals, Sequences, Functions

CONSTANTS
  Procs,       \* runs of the tool
  Files,       \* what packages.Load reads
  Sorted,      \* those of the files that CacheKey hashes, in the order it does
  Contents, Absent,
  Configs,     \* formatVersion, directory, patterns, tags and environment
  NoKey, NoGraph

Hashed == Range(Sorted)
Trees == [Files -> Contents \cup {Absent}]

ASSUME FilesAssumption ==
  /\ IsInjective(Sorted)
  /\ Hashed \subseteq Files
  /\ Absent \notin Contents

VARIABLES
  disk,        \* the source tree
  store,       \* the .gob files of the cache directory, by key
  pc,          \* how far each run is
  asked,       \* the configuration it is given
  graph,       \* the graph it has found or built
  calm,        \* history: whether every edit has found all the runs at rest
  local        \* its local variables:
               \*   listed  the files its WalkDir has come across
               \*   digest  what it has fed to the hash so far
               \*   key     its cache key, NoKey if it has none
               \*   read    the sources it has loaded so far
               \*   tmp     its temporary file: "none", "part" or "whole"
               \*   raced   history: an edit fell between Call and its last read

vars == <<disk, store, pc, asked, graph, calm, local>>
shared == <<disk, store, calm>>

With(fn, x, v) == [y \in DOMAIN fn \cup {x} |-> IF y = x THEN v ELSE fn[y]]

Reading == {"walking", "hashing", "looking", "loading"}
Busy == Reading \cup {"built", "saving"}
Ended == {"done", "failed", "killed"}

GraphOf(config, tree) == [config |-> config, sources |-> tree]
Empty == [f \in {} |-> Absent]
Fresh == [listed |-> {}, digest |-> Empty, key |-> NoKey, read |-> Empty,
          tmp |-> "none", raced |-> FALSE]

(* What WalkDir comes across, and the digest of a whole tree. *)
Listed(tree) == {f \in Hashed : tree[f] # Absent}
DigestOf(tree) == Restrict(tree, Listed(tree))
KeyOf(config, files) == [config |-> config, files |-> files]

Init ==
  /\ disk \in Trees
  /\ store = [k \in {} |-> NoGraph]
  /\ pc = [p \in Procs |-> "idle"]
  /\ asked \in [Procs -> Configs]
  /\ graph = [p \in Procs |-> NoGraph]
  /\ calm = TRUE
  /\ local = [p \in Procs |-> Fresh]

Go(p, where) == pc' = [pc EXCEPT ![p] = where]

(* The run is over, and so are its local variables. *)
Leave(p, where, g) ==
  /\ Go(p, where)
  /\ graph' = [graph EXCEPT ![p] = g]
  /\ local' = [local EXCEPT ![p] = Fresh]

(* The tool is started, with or without -cache. *)
Call(p) ==
  /\ pc[p] = "idle"
  /\ Go(p, "walking") \/ Go(p, "loading")
  /\ UNCHANGED <<shared, asked, graph, local>>

-----------------------------------------------------------------------------
(***************************************************************************)
(* CacheKey.                                                               *)
(***************************************************************************)
List(p) ==
  /\ pc[p] = "walking"
  /\ local' = [local EXCEPT ![p].listed = Listed(disk)]
  /\ Go(p, "hashing")
  /\ UNCHANGED <<shared, asked, graph>>

ToHash(p) == local[p].listed \ DOMAIN local[p].digest

First(f, S) == \E i \in DOMAIN Sorted : /\ Sorted[i] = f
                                        /\ f \in S
                                        /\ \A j \in 1 .. i - 1 : Sorted[j] \notin S

HashFile(p, f) ==
  /\ pc[p] = "hashing"
  /\ First(f, ToHash(p))
  /\ disk[f] # Absent
  /\ local' = [local EXCEPT ![p].digest = With(@, f, disk[f])]
  /\ UNCHANGED <<shared, pc, asked, graph>>

(* Mutant: the configuration is left out of the key. *)
SumWithoutConfig(p) ==
  /\ pc[p] = "hashing"
  /\ ToHash(p) = {}
  /\ \E c \in Configs :
        local' = [local EXCEPT ![p].key = KeyOf(c, local[p].digest)]
  /\ Go(p, "looking")
  /\ UNCHANGED <<shared, asked, graph>>

(* Mutant: the digest is taken before the last file has gone into it. *)
SumEarly(p) ==
  /\ pc[p] = "hashing"
  /\ local' = [local EXCEPT ![p].key = KeyOf(asked[p], local[p].digest)]
  /\ Go(p, "looking")
  /\ UNCHANGED <<shared, asked, graph>>

(* Mutant: files that cannot be opened any more are passed over. *)
SumWithoutLost(p) ==
  /\ pc[p] = "hashing"
  /\ \A f \in ToHash(p) : disk[f] = Absent
  /\ local' = [local EXCEPT ![p].key = KeyOf(asked[p], local[p].digest)]
  /\ Go(p, "looking")
  /\ UNCHANGED <<shared, asked, graph>>

Sum(p) ==
  /\ pc[p] = "hashing"
  /\ ToHash(p) = {}
  /\ local' = [local EXCEPT ![p].key = KeyOf(asked[p], local[p].digest)]
  /\ Go(p, "looking")
  /\ UNCHANGED <<shared, asked, graph>>

(* A directory or a file cannot be read, or is gone since the walk.  Build *)
(* goes on without a key.                                                  *)
KeyFails(p) ==
  /\ pc[p] \in {"walking", "hashing"}
  /\ Go(p, "loading")
  /\ UNCHANGED <<shared, asked, graph, local>>

-----------------------------------------------------------------------------
(***************************************************************************)
(* LoadCached.  An entry that does not decode counts as none.              *)
(***************************************************************************)
Found(k) == k \in DOMAIN store /\ store[k].whole

Hit(p) ==
  /\ pc[p] = "looking"
  /\ Found(local[p].key)
  /\ Leave(p, "done", store[local[p].key].graph)
  /\ UNCHANGED <<shared, asked>>

Miss(p) ==
  /\ pc[p] = "looking"
  /\ ~ Found(local[p].key)
  /\ Go(p, "loading")
  /\ UNCHANGED <<shared, asked, graph, local>>

-----------------------------------------------------------------------------
(***************************************************************************)
(* The analysis: packages.Load reads the files in an order of its own.     *)
(***************************************************************************)
LoadFile(p, f) ==
  /\ pc[p] = "loading"
  /\ f \in Files \ DOMAIN local[p].read
  /\ local' = [local EXCEPT ![p].read = With(@, f, disk[f])]
  /\ UNCHANGED <<shared, pc, asked, graph>>

LoadFails(p) ==
  /\ pc[p] = "loading"
  /\ Leave(p, "failed", NoGraph)
  /\ UNCHANGED <<shared, asked>>

Analyse(p) ==
  /\ pc[p] = "loading"
  /\ DOMAIN local[p].read = Files
  /\ graph' = [graph EXCEPT ![p] = GraphOf(asked[p], local[p].read)]
  /\ Go(p, "built")
  /\ UNCHANGED <<shared, asked, local>>

(* There is no key, or there was no test to build a call graph from. *)
ReturnUnsaved(p) ==
  /\ pc[p] = "built"
  /\ Leave(p, "done", graph[p])
  /\ UNCHANGED <<shared, asked>>

-----------------------------------------------------------------------------
(***************************************************************************)
(* Save.                                                                   *)
(***************************************************************************)
CreateTemp(p) ==
  /\ pc[p] = "built"
  /\ local[p].key # NoKey
  /\ local' = [local EXCEPT ![p].tmp = "part"]
  /\ Go(p, "saving")
  /\ UNCHANGED <<shared, asked, graph>>

Encode(p) ==
  /\ pc[p] = "saving"
  /\ local[p].tmp = "part"
  /\ local' = [local EXCEPT ![p].tmp = "whole"]
  /\ UNCHANGED <<shared, pc, asked, graph>>

Entry(p) ==
  [graph |-> graph[p], whole |-> local[p].tmp = "whole", raced |-> local[p].raced]

(* Mutant: the file is put in place before it is written to the end. *)
RenameEarly(p) ==
  /\ pc[p] = "saving"
  /\ store' = With(store, local[p].key, Entry(p))
  /\ Leave(p, "done", graph[p])
  /\ UNCHANGED <<disk, asked, calm>>

Rename(p) ==
  /\ pc[p] = "saving"
  /\ local[p].tmp = "whole"
  /\ store' = With(store, local[p].key, Entry(p))
  /\ Leave(p, "done", graph[p])
  /\ UNCHANGED <<disk, asked, calm>>

(* Mutant: Build hands on the error of Save. *)
SaveFailsBuild(p) ==
  /\ pc[p] \in {"built", "saving"}
  /\ local[p].key # NoKey
  /\ Leave(p, "failed", NoGraph)
  /\ UNCHANGED <<shared, asked>>

(* The error is advisory, and the temporary file is removed. *)
SaveFails(p) ==
  /\ pc[p] \in {"built", "saving"}
  /\ local[p].key # NoKey
  /\ Leave(p, "done", graph[p])
  /\ UNCHANGED <<shared, asked>>

-----------------------------------------------------------------------------
(***************************************************************************)
(* What goes on around the runs.                                           *)
(***************************************************************************)
Edit(f, c) ==
  /\ disk[f] # c
  /\ disk' = [disk EXCEPT ![f] = c]
  /\ calm' = (calm /\ \A p \in Procs : pc[p] \notin Busy)
  /\ local' = [p \in Procs |-> [local[p] EXCEPT !.raced = @ \/ pc[p] \in Reading]]
  /\ UNCHANGED <<store, pc, asked, graph>>

(* The temporary file of a run that is killed stays behind; no other run   *)
(* looks at it.                                                            *)
Kill(p) ==
  /\ pc[p] \in Busy
  /\ Leave(p, "killed", NoGraph)
  /\ UNCHANGED <<shared, asked>>

Step(p) ==
  \/ List(p) \/ Sum(p) \/ KeyFails(p)
  \/ Hit(p) \/ Miss(p)
  \/ LoadFails(p) \/ Analyse(p) \/ ReturnUnsaved(p)
  \/ CreateTemp(p) \/ Encode(p) \/ Rename(p) \/ SaveFails(p)
  \/ \E f \in Files : HashFile(p, f) \/ LoadFile(p, f)

Next ==
  \/ \E p \in Procs : Call(p) \/ Step(p) \/ Kill(p)
  \/ \E f \in Files, c \in Contents \cup {Absent} : Edit(f, c)

Spec == Init /\ [][Next]_vars /\ \A p \in Procs : WF_vars(Step(p))

-----------------------------------------------------------------------------
Partial(S) == UNION {[D -> Contents \cup {Absent}] : D \in SUBSET S}
Digests == UNION {[D -> Contents] : D \in SUBSET Hashed}
Keys == {KeyOf(c, d) : c \in Configs, d \in Digests}
Graphs == {GraphOf(c, t) : c \in Configs, t \in Trees}

ASSUME NoKeyAssumption == NoKey \notin Keys

LocalState == [listed : SUBSET Hashed, digest : Digests, key : Keys \cup {NoKey},
               read : Partial(Files), tmp : {"none", "part", "whole"},
               raced : BOOLEAN]
Entries == [graph : Graphs, whole : BOOLEAN, raced : BOOLEAN]

(* A run has hashed only what it listed, and if it has a key, this is that *)
(* of its configuration and of all the files it listed.                    *)
KeyWhole(l, config) ==
  /\ DOMAIN l.digest \subseteq l.listed
  /\ l.key # NoKey => /\ DOMAIN l.digest = l.listed
                      /\ l.key = KeyOf(config, l.digest)

(* Every variable keeps to its type; in particular what is hashed was      *)
(* there, and a key is never that of a part of the files that the walk     *)
(* listed, whichever of them is gone by then (cache.go 56-171, graph.go    *)
(* 147-175).                                                               *)
TypeOK ==
  /\ disk \in Trees
  /\ DOMAIN store \subseteq Keys
  /\ store \in [DOMAIN store -> Entries]
  /\ pc \in [Procs -> Busy \cup Ended \cup {"idle"}]
  /\ asked \in [Procs -> Configs]
  /\ graph \in [Procs -> Graphs \cup {NoGraph}]
  /\ calm \in BOOLEAN
  /\ local \in [Procs -> LocalState]
  /\ \A p \in Procs : KeyWhole(local[p], asked[p])

(* A run that is killed while it saves, or that saves while another looks  *)
(* the same key up, never leaves a half-written graph where LoadCached     *)
(* would find it (cache.go 155-170).                                       *)
EntriesWhole == \A k \in DOMAIN store : store[k].whole

(* However the runs and their failures interleave, a graph is stored under *)
(* the key of the very sources and configuration it was built from, unless *)
(* the tree was edited while the run that built it was reading it (cache.go *)
(* 49-55, graph.go 147-169): an edit is the one way to a wrong graph.      *)
StoreSound ==
  \A k \in DOMAIN store :
    ~ store[k].raced =>
      k = KeyOf(store[k].graph.config, DigestOf(store[k].graph.sources))

(* Why it is so: as long as no edit disturbs it, what a run has listed,    *)
(* hashed and loaded agrees with the tree, its key is of the whole tree,   *)
(* and what it is about to save is filed under the key of what it loaded   *)
(* (cache.go 56-106, graph.go 147-175, 308-310).  The invariant of the     *)
(* proofs in GraphCacheProofs.                                             *)
Agrees(part, tree) == \A f \in DOMAIN part : part[f] = tree[f]

WalkingInv(where, l) ==
  where \in {"idle", "walking"} =>
    l.digest = Empty /\ l.key = NoKey /\ l.read = Empty

HashingInv(where, l, tree) ==
  where = "hashing" =>
    /\ l.key = NoKey
    /\ l.read = Empty
    /\ ~ l.raced => /\ l.listed = Listed(tree)
                    /\ DOMAIN l.digest \subseteq l.listed
                    /\ Agrees(l.digest, tree)

KeyInv(where, l, config, tree) ==
  /\ where = "looking" => l.read = Empty
  /\ l.key # NoKey => l.key.config = config
  /\ where \in {"looking", "loading"} /\ ~ l.raced =>
       /\ l.key # NoKey => l.key = KeyOf(config, DigestOf(tree))
       /\ Agrees(l.read, tree)

BuiltInv(where, l, config, g) ==
  where \in {"built", "saving"} =>
    /\ g = GraphOf(config, l.read)
    /\ DOMAIN l.read = Files
    /\ where = "saving" => l.key # NoKey
    /\ ~ l.raced /\ l.key # NoKey => l.key = KeyOf(config, DigestOf(l.read))

RunInv(where, l, config, tree, g) ==
  /\ WalkingInv(where, l)
  /\ HashingInv(where, l, tree)
  /\ KeyInv(where, l, config, tree)
  /\ BuiltInv(where, l, config, g)

(* What has been read while nothing is edited is the tree as it is. *)
CalmRun(where, l, tree) ==
  ~ l.raced /\ (where \in {"built", "saving"} => l.read = tree)

IInv ==
  /\ StoreSound
  /\ EntriesWhole
  /\ \A k \in DOMAIN store : store[k].graph.config = k.config
  /\ \A p \in Procs : RunInv(pc[p], local[p], asked[p], disk, graph[p])
  /\ calm => /\ \A k \in DOMAIN store : ~ store[k].raced
             /\ \A p \in Procs : CalmRun(pc[p], local[p], disk)

(* A failure of the cache is never a failure of the analysis (graph.go     *)
(* 149-150, cache.go 148-149): whatever goes wrong on the way to a key, a  *)
(* run that is not killed has its answer from the cache or loads the       *)
(* sources; whatever goes wrong with saving, it ends with the graph it     *)
(* built; and loading alone can be what it fails of.  Fairness: a run that *)
(* is not killed keeps going, whatever the others do; it waits for nobody. *)
RunsEnd ==
  \A p \in Procs :
    /\ (pc[p] \in {"walking", "hashing", "looking"})
          ~> (pc[p] \in {"loading", "done", "killed"})
    /\ (pc[p] = "loading") ~> (pc[p] \in {"built", "failed", "killed"})
    /\ (pc[p] \in {"built", "saving"}) ~> (pc[p] \in {"done", "killed"})

(* As long as the tree is left alone while a run is at work, nobody can    *)
(* tell that there is a cache, and ever after nobody is given a graph for  *)
(* another configuration (cache.go 56-171, graph.go 141-311): see          *)
(* GraphOnDemand.                                                          *)
Status(where) ==
  CASE where = "idle" -> "idle"
    [] where \in Busy -> "working"
    [] where = "done" -> "answered"
    [] OTHER -> "over"

Statuses == [p \in Procs |-> Status(pc[p])]
Answers == [p \in Procs |-> IF pc[p] = "done" THEN graph[p] ELSE NoGraph]

OnDemand == INSTANCE GraphOnDemand WITH status <- Statuses, answer <- Answers

ImplementsOnDemand == OnDemand!Spec

-----------------------------------------------------------------------------
(***************************************************************************)
(* What the documentation says and the code does not do.                   *)
(***************************************************************************)

(* cache.go 18-21: a stale graph produces a confidently wrong selection,   *)
(* the one failure mode this tool cannot have.  The key is computed from   *)
(* one reading of the sources (56-106) and the graph from a later one      *)
(* (graph.go 169), and nothing compares the two before Save.               *)
NoStaleEntry ==
  \A k \in DOMAIN store : k.files = DigestOf(store[k].graph.sources)
=============================================================================
