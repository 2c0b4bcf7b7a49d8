\* The quick check of a FakeTLS proxy against the documented budget.
SPECIFICATION Spec
CONSTANTS
  Kinds = {"faketls"}
  Depths = {"quick"}
  Timeout = 2
  Grace = 1
  Hold = 3
  Pings = 2
  Inspect = TRUE
  Speedtest = TRUE
  Candidates <- MCCandidates
INVARIANTS StaysInBudget
