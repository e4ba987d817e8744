\* Two tests; histories of two or three commits.
CONSTANTS
  t = t  u = u
  Tests = {t, u}
  Worlds <- MCWorlds
SPECIFICATION Spec
INVARIANTS TypeOK OwnTree BlameRight MeasuredRight ExitTells
PROPERTY Ends
