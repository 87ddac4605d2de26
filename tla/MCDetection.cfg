SPECIFICATION Spec
CONSTANTS
  A = A
  B = B
  C = C
  D = D
  drive = drive
  mega = mega
  Posts <- MCPosts
  Files <- MCFiles
  Embeds <- MCEmbeds
  Links <- MCLinks
  Truncated <- MCTruncated
  Wanted <- MCWanted
  FirstPosts <- MCFirstPosts
  PageSize = 2
  MaxPages = 2
  MaxChanges = 2
  MaxFailures = 1
INVARIANTS
  MissedBounded
  QueuedOnce
  QueueIsWanted
PROPERTIES
  EverythingArrives
