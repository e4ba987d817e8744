------------------------------- MODULE MCMutate -------------------------------
(***************************************************************************)
(* Two functions in one file; two packages, one with two tests.            *)
(***************************************************************************)
EXTENDS Mutate, TLC

CONSTANTS f, g, file, t1, t2, u

OneFile == [x \in {f, g} |-> file]
Packages == {<<t1, t2>>, <<u>>}

(* What one of the functions is executed by and selects varies; the other  *)
(* is executed by u and t1, and selects both.                              *)
TwoFunctions ==
  {[executes |-> f :> e @@ g :> {t1, u}, startup |-> f :> i @@ g :> {},
    selects |-> f :> s @@ g :> {t1, u}, broken |-> b] :
    e \in SUBSET Tests, i \in SUBSET {<<u>>}, s \in SUBSET Tests, b \in {{}, {t2}}}
=============================================================================
