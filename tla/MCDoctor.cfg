\* Two packages in six variants.
CONSTANTS
  a = a  at = at  ax = ax  b = b  bt = bt  bv = bv
  Worlds <- MCWorlds
  Sample = 2
SPECIFICATION Spec
INVARIANTS TypeOK SpansExact RefsExact DepsExact FairComparison
