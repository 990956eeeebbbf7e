SPECIFICATION MCSpec
CONSTANTS
  Limit = 2
  Win = 3
  MaxKeys = 2
  EvictShare = 2
  MaxDelay = 1
  Keys <- ThreeKeys
  Callers <- TwoCallers
  k1 = k1  k2 = k2  k3 = k3  c1 = c1  c2 = c2
  MaxTime = 6
  MaxCalls = 4
CONSTRAINT Bounded
SYMMETRY KeySymmetry
INVARIANTS Inv ExactIfPrompt WithinLimit RefusalJustified KeysBounded TrackedIsRecent
PROPERTIES NothingOutlivesTwoWindows KeepsPromise
