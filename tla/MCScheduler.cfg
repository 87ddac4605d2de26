SPECIFICATION Spec
CONSTANTS
  Empty = empty
  Crons = {empty, hourly, daily, wrong}
  Invalid = {wrong}
  MaxRuns = 3
  MaxSignals = 2
  MaxChanges = 2
INVARIANTS
  OneRunAtATime
  LateRunsBounded
  StopReachesKnownRun
  FailsAfterLastRun
PROPERTIES
  StoppedExits
