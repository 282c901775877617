CONSTANTS
  Runners = {s1}
  Free = free
  Stale = stale
  Modules = 2
  MaxBuilds = 2
SPECIFICATION Spec
INVARIANT
  ManifestsAreComplete
