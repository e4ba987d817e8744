\* Two functions of one file, two packages.
CONSTANTS
  f = f  g = g  file = file  t1 = t1  t2 = t2  u = u
  Fns = {f, g}
  Tests = {t1, t2, u}
  File <- OneFile
  Suites <- Packages
  Worlds <- TwoFunctions
  Count = 2
SPECIFICATION Spec
INVARIANTS TypeOK TallyRight OneFault BlameRight
