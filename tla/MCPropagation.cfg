SPECIFICATION MCSpec
CONSTANTS
  a = a
  b = b
  Services = {a, b}
  Peer = Peer
  Host = Host
  None = None
  Keys <- ThreeKeys
  Size <- ThreeSizes
  LogKeys = {3}
  Policies <- AllPolicies
  Carriers = {c}
  MaxMembers = 2
  MaxBytes = 4
SYMMETRY Alike
INVARIANTS
  CrossedAllowedHopsOnly
  CarriersAreClean
  BaggageIsSound
PROPERTIES
  LocalValuesStand
