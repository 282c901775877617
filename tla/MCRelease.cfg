CONSTANTS
  Runners = {s1, s2}
  Free = free
  Stale = stale
  Modules = 2
  MaxBuilds = 2
SPECIFICATION Spec
SYMMETRY Shells
INVARIANTS
  OneWholeCandidate
PROPERTIES
  ImplementsPublication
