----------------------------- MODULE MCBoundaries -----------------------------
(***************************************************************************)
(* Boundaries on the small graphs.                                         *)
(***************************************************************************)
EXTENDS Boundaries, SmallGraphs
=============================================================================
