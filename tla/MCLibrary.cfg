SPECIFICATION Spec
CONSTANTS
  zip = zip
  zip2 = zip2
  img = img
  Z1 = Z1
  Z2 = Z2
  Y = Y
  A = A
  B = B
  U = U
  Nothing = Nothing
  Torn = Torn
  Items <- MCItems
  Paths <- MCPaths
  PathOf <- MCPathOf
  HashOf <- MCHashOf
  Entries <- MCEntries
  Archives <- MCArchives
  Hashes <- MCHashes
  Unwanted <- MCUnwanted
  Workers = {w1, w2}
  Configs <- MCConfigs
  MaxEntries = 2
  MaxRuns = 2
  MaxEdits = 1
  MaxFaults = 1
SYMMETRY Symmetry
INVARIANTS
  TypeOK
  NoDuplicateRows
  RecordedIsOnDisk
  CleanRunRecordsAll
  ArchivesSettled
  DroppedIsAccountedFor
PROPERTIES
  NoRefetch
  ImplementsCollection
