SPECIFICATION Spec
CONSTANTS
  MaxConns = 4
  Limit = 3
  Probed = 2
  MaxBreaks = 1
  Candidates = 2
INVARIANTS
  ShortfallHasCause
