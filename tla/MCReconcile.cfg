SPECIFICATION RSpec
CONSTANTS
  zip = zip
  img = img
  Z = Z
  A = A
  drive = drive
  Nothing = Nothing
  Torn = Torn
  Items <- MCItems
  Paths <- MCPaths
  PathOf <- MCPathOf
  HashOf <- MCHashOf
  Entries <- MCEntries
  Archives <- MCArchives
  Hashes <- MCHashes
  Links = {drive}
  Unwanted = {}
  Workers = {w1}
  Configs <- MCConfigs
  MaxEntries = 1
  MaxRuns = 2
  MaxEdits = 1
  MaxFaults = 1
  MaxReconciles = 1
INVARIANTS
  RowsTellTheDisk
  EntriesHaveParent
PROPERTIES
  NothingRedownloaded
