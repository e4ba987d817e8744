------------------------------- MODULE MCGraphCache -------------------------------
(***************************************************************************)
(* Sources of one file.                                                    *)
(***************************************************************************)
EXTENDS GraphCache

CONSTANTS f1

OneFile == <<f1>>
=============================================================================
