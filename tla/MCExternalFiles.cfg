SPECIFICATION Spec
CONSTANTS
  g1 = g1
  g2 = g2
  h1 = h1
  m1 = m1
  m2 = m2
  n1 = n1
  DriveFiles <- MCDriveFiles
  LinksOf <- MCLinksOf
  Group <- MCGroup
  Lone = {"file"}
  Unsized = {n1}
  Rounded = {m2}
  MaxAttempts = 2
  Workers = {w1, w2}
INVARIANTS
  OneRequestTellsTheBlock
  PartialNotRecorded
  CompletedHasOutcomes
PROPERTIES
  WholeFilesKept
  ImplementsDownloads
