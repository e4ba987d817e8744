---------------------------------- MODULE MCDoctor ----------------------------------
(***************************************************************************)
(* Package a with a test of its own and one beside it, and package b, that *)
(* imports a and has a test.  at is a with its tests, ax the tests beside  *)
(* it, bt is b with its tests, and bv is b as linked into the tests of a.  *)
(* R is a wrapper in a that calls H in b through an interface.             *)
(***************************************************************************)
EXTENDS Doctor, TLC

CONSTANTS a, at, ax, b, bt, bv

Variant(path, suffixed, files, embeds, imports, init) ==
  [path |-> <<path, suffixed>>, files |-> files, embeds |-> embeds, imports |-> imports,
   init |-> init]

MCVariants(ea, eb) ==
  a :> Variant("a", FALSE, {"a.go"}, ea, {}, "a.init")
    @@ at :> Variant("a", FALSE, {"a.go", "a_test.go"}, ea, {}, "a.init")
    @@ ax :> Variant("a", TRUE, {"ax_test.go"}, {}, {at, bv}, "a_test.init")
    @@ b :> Variant("b", FALSE, {"b/b.go"}, eb, {a}, "b.init")
    @@ bt :> Variant("b", FALSE, {"b/b.go", "b/b_test.go"}, eb, {a}, "b.init")
    @@ bv :> Variant("b", FALSE, {"b/b.go"}, eb, {at}, "b.init")

Fn(key, first, last, entry, resolved) ==
  [key |-> key, first |-> first, last |-> last, entry |-> entry, resolved |-> resolved,
   body |-> TRUE]

MCFiles(oneLine, resolved, helper) ==
  "a.go" :> [test |-> FALSE, uses |-> {<<"D", 2>>, <<"D", 3>>, <<"E", 9>>},
             funcs |-> <<Fn("F", 1, 2, FALSE, TRUE),
                         Fn("G", IF oneLine THEN 2 ELSE 3, 3, helper, resolved)>>]
    @@ "a_test.go" :> [test |-> TRUE, uses |-> {<<"D", 9>>},
                       funcs |-> <<Fn("TestF", 1, 2, TRUE, TRUE)>>]
    @@ "ax_test.go" :> [test |-> TRUE, uses |-> {<<"E", 9>>},
                        funcs |-> <<Fn("TestX", 1, 2, TRUE, TRUE)>>]
    @@ "b/b.go" :> [test |-> FALSE, uses |-> {<<"E", 1>>},
                    funcs |-> <<Fn("H", 1, 1, FALSE, TRUE)>>]
    @@ "b/b_test.go" :> [test |-> TRUE, uses |-> {},
                         funcs |-> <<Fn("TestH", 1, 2, TRUE, TRUE)>>]
    @@ "doc" :> [test |-> FALSE, uses |-> {}, funcs |-> << >>]

(* What is ill-typed if nothing is wrong, in a test file of a, in the file *)
(* of tests beside it, in b, or in a.                                      *)
Broken == {{}, {at, ax, bv}, {ax}, {b, bt, bv, ax}, {a, at, ax, b, bt, bv}}

World(ea, eb, broken, oneLine, resolved, helper, slow) ==
  [variants |-> MCVariants(ea, eb), roots |-> {a, at, ax, b, bt}, illTyped |-> broken,
   files |-> MCFiles(oneLine, resolved, helper), decls |-> {"D", "E"}, synthetic |-> {},
   inGraph |-> {"F", "G", "H"}, wrappers |-> "R" :> "a",
   cacheHit |-> FALSE, slow |-> slow,
   reach |-> "F" :> {"TestF", "TestX"} @@ "G" :> {"G", "TestF"}
               @@ "H" :> {"TestF", "a_test.init"},
   boundaries |-> "F" :> {} @@ "G" :> {"H"} @@ "H" :> IF slow THEN {"H", "R"} ELSE {}]

(* The directory at is itself named a_test; a test of b imports it and a,  *)
(* and it imports a package of its own, ax.                                *)
SuffixWorlds ==
  {[World({}, {}, {}, FALSE, TRUE, FALSE, FALSE) EXCEPT
      !.variants = a :> Variant("a", FALSE, {"a.go"}, {}, {}, "a.init")
                     @@ at :> Variant("a", TRUE, {"a_test.go"}, {}, {ax}, "a_test.init")
                     @@ ax :> Variant("x", FALSE, {"ax_test.go"}, {}, {}, "x.init")
                     @@ b :> Variant("b", FALSE, {"b/b.go"}, {}, {a}, "b.init")
                     @@ bt :> Variant("b", FALSE, {"b/b.go", "b/b_test.go"}, {}, {a, at}, "b.init")]}

MCWorlds ==
  {World(ea, eb, broken, oneLine, resolved, helper, helper) :
     ea \in SUBSET {"doc", "b/b.go"}, eb \in SUBSET {"doc"}, broken \in Broken,
     oneLine \in BOOLEAN, resolved \in BOOLEAN, helper \in BOOLEAN}
    \cup SuffixWorlds
=============================================================================
