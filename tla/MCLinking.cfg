SPECIFICATION Spec
CONSTANTS
  Library = {"provider", "user", "counter"}
  Decl <- MCDecl
  HostFn = {h1}
  HostSig <- MCHostSig
  HostLimits <- MCHostLimits
  GlobalValue = {1, 2}
  Instance = {i1, i2}
  Table = {t1, t2}
  Global = {g1, g2}
  Null = Null
  WordMax = 7
SYMMETRY Symmetry
INVARIANTS CallsFindTheirInstance CallsAreTyped NeverAborts PairsBelong SegmentsInPlace
CHECK_DEADLOCK FALSE
