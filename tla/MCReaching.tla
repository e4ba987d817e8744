------------------------------ MODULE MCReaching ------------------------------
(***************************************************************************)
(* Reaching on the small graphs.                                           *)
(***************************************************************************)
EXTENDS Reaching, SmallGraphs
=============================================================================
