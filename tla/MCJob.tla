----------------------------------- MODULE MCJob -----------------------------------
(***************************************************************************)
(* Package core has functions f, of two lines, and g; app imports core.    *)
(* Of the tests of app, v is behind a tag.                                 *)
(***************************************************************************)
EXTENDS Job, TLC

CONSTANTS f, g, h, core, app, t, u, v

FnPkg == f :> core @@ g :> core @@ h :> app
TestIn == t :> app @@ u :> core @@ v :> app
Imports == core :> {} @@ app :> {core}
Reached == t :> {f, h} @@ u :> {g} @@ v :> {g}
Order == <<core, app>>

States == {"old", "committed"}

Tree(a, b, c, d) ==
  core :> <<[fn |-> f, state |-> a], [fn |-> f, state |-> b], [fn |-> g, state |-> c]>>
    @@ app :> <<[fn |-> h, state |-> d]>>

World(tr, faulty, unc, driver, toDefault, tags) ==
  [tree |-> tr, faulty |-> faulty, uncompilable |-> unc, driver |-> driver,
   toDefault |-> toDefault, tags |-> tags, shallow |-> FALSE, refs |-> {"origin"},
   run |-> TRUE]

Jobs ==
  {World(Tree(a, b, c, d), faulty, unc, "action", toDefault, tags) :
     a \in {"old"}, b \in States, c \in States, d \in States, faulty \in SUBSET {f, g, h},
     unc \in {{}, {g}, {h}}, toDefault \in BOOLEAN, tags \in BOOLEAN}

(* The same on checkouts that are no use, or for the plan alone. *)
Crippled ==
  {[World(Tree("old", "committed", c, "old"), {f}, {}, "action", FALSE, FALSE)
      EXCEPT !.shallow = s, !.refs = refs, !.run = run] :
     c \in States, s \in BOOLEAN, refs \in SUBSET {"origin", "local"}, run \in BOOLEAN}

ByHand ==
  {World(Tree("old", b, "old", d), faulty, unc, "sh", FALSE, FALSE) :
     b \in States, d \in States, faulty \in {{f}, {g}}, unc \in {{}, {h}}}

MCWorlds == Jobs \cup Crippled \cup ByHand
=============================================================================
