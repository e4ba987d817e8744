--------------------------------- MODULE MCReplay ---------------------------------
(***************************************************************************)
(* Two commits with every pattern of failures, and three that touch the    *)
(* fixture with every history of its directory, which is asked about       *)
(* before any suite has run there or after one.                            *)
(***************************************************************************)
EXTENDS Replay

CONSTANTS t, u

History(n, root, fails, fixture, goFiles, leaves) ==
  [last |-> n, root |-> root, fails |-> fails, fixture |-> fixture, goFiles |-> goFiles,
   leaves |-> leaves, selects |-> [c \in 1 .. n + 1 |-> IF c = 1 THEN {t} ELSE {}]]

Failures ==
  {History(2, root, fails, fixture, {}, {}) :
     root \in BOOLEAN, fixture \in SUBSET {1}, fails \in [1 .. 3 -> SUBSET {t, u}]}

Directories ==
  {History(3, FALSE, [c \in 1 .. 4 |-> {u}], fixture, goFiles, leaves) :
     fixture \in {{1, 3}, {2, 3}, {3}, {1, 2, 3}}, goFiles \in SUBSET {1, 2, 3},
     leaves \in SUBSET {1, 2, 3}}

MCWorlds == Failures \cup Directories
=============================================================================
