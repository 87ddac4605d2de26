SPECIFICATION Spec
CONSTANTS
  Size = 3
  MaxAttempts = 3
  MaxWipes = 1
INVARIANTS
  FetchedIsWhole
