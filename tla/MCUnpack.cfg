SPECIFICATION Spec
CONSTANTS
  link1 = link1
  link2 = link2
  link3 = link3
  Twice = Twice
  Once = Once
  X = X
  Y = Y
  PaddedY = PaddedY
  Blank = Blank
  Absent = Absent
  Emptied = Emptied
  Workers = {w1, w2}
  Archives <- MCArchives
  Content <- MCContent
  Members <- MCMembers
  Opens <- MCOpens
  Api <- MCApi
  Scraped <- MCScraped
  Passwords <- MCPasswords
  Trim <- MCTrim
  MaxRuns = 2
  MaxEdits = 1
  MaxFaults = 1
SYMMETRY Symmetry
INVARIANTS
  WholeUnlessShared
  FailedIsLocked
  PasswordsKept
  RepeatsBounded
