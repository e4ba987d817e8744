\* Boundaries over every small graph: see SmallGraphs.tla.
CONSTANTS
  kF = kF  kG = kG  kInit = kInit  kT = kT  kU = kU
  A = A  B = B  T = T  U = U
  NoKey = NoKey  NoPkg = NoPkg  NoTest = NoTest  NoNode = 0
  Keys <- MCKeys
  Pkgs <- MCPkgs
  Tests <- MCTests
  Graphs <- MCGraphs
  Questions <- MCQuestions
SPECIFICATION BoundariesSpec
INVARIANTS BoundariesExact NoSilentZero
PROPERTY BoundariesEnd
