SPECIFICATION Spec
CONSTANTS
  Servers = {s1, s2}
  None = None
  Junk = Junk
  Budget = 3
  MaxAttempts = 2
  MaxEdits = 1
  MaxFaults = 1
  MaxCuts = 1
SYMMETRY Symmetry
INVARIANTS TypeOK TokenIsItsServers SliceAsksItsServer PairingSurvives VerdictFileAgrees VerdictIsEarned
