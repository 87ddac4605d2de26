SPECIFICATION Spec
CONSTANTS
  a1 = a1
  a2 = a2
  a3 = a3
  a4 = a4
  b1 = b1
  b2 = b2
  NoFile = NoFile
  Files <- MCFiles
  Batches <- MCBatches
  Workers = {w1, w2}
  MaxToggles = 2
INVARIANTS
  LateStartsBounded
  BlockedProbeStops
  CompletedHasOutcomes
  BlockIsRemembered
PROPERTIES
  ClearedByProbeOnly
  ImplementsDownloads
