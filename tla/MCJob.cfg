\* Three functions in two packages, three tests; two edits while the tool runs.
CONSTANTS
  f = f  g = g  h = h  core = core  app = app  t = t  u = u  v = v
  Fns = {f, g, h}
  Tests = {t, u, v}
  Tagged = {v}
  PkgOf <- FnPkg
  TestPkg <- TestIn
  Deps <- Imports
  Reach <- Reached
  PkgOrder <- Order
  MaxEdits = 2
  Worlds <- MCWorlds
SPECIFICATION Spec
INVARIANTS ReadingsAgree PassesHonestly
PROPERTY JobEnds
