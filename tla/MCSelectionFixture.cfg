\* A Go file among the fixtures.
CONSTANTS
  kF = kF  kG = kG  kH = kH  kT = kT  kU = kU  V = V
  A = A  B = B  X = X  M = M  T = T  U = U
  sFixture = sFixture  sGithub = sGithub  sA = sA  sB = sB  sC = sC
  NoKey = NoKey  NoPkg = NoPkg  NoTest = NoTest  NoNode = 0  NoModule = NoModule
  Keys <- MCKeys
  Pkgs <- MCPkgs
  Tests <- MCTests
  Files <- MCFiles
  Dir <- MCDir
  Kind <- MCKind
  FixtureSegs = {sFixture}
  Github = sGithub
  DeclKeys = {V}
  Modules = {M}
  Inputs <- FixtureInputs
SPECIFICATION Spec
INVARIANT FixtureRowKept
