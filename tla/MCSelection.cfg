\* Hunks in Go files over many call graphs, and hunks in any file.
CONSTANTS
  kF = kF  kG = kG  kH = kH  kT = kT  kU = kU  V = V
  A = A  B = B  X = X  M = M  T = T  U = U
  sFixture = sFixture  sGithub = sGithub  sA = sA  sB = sB  sC = sC
  NoKey = NoKey  NoPkg = NoPkg  NoTest = NoTest  NoNode = 0  NoModule = NoModule
  Keys <- MCKeys
  Pkgs <- MCPkgs
  Tests <- MCTests
  Files <- MCFiles
  Dir <- MCDir
  Kind <- MCKind
  FixtureSegs = {sFixture}
  Github = sGithub
  DeclKeys = {V}
  Modules = {M}
  Inputs <- MCInputs
SPECIFICATION Spec
INVARIANTS TypeOK SymbolRowsKept ImportClosureIsHard FileRowsKept DependencyRowKept
