SPECIFICATION Spec
CONSTANTS
  Threads = {t1, t2}
  Kinds = {"read", "write"}
  MaxAttempts <- MCMaxAttempts
  MinInterval = 2
  MaxLag = 1
  RequestTimeout = 1
  Horizon = 1
INVARIANTS
  StartsApart
  WaitBounded
