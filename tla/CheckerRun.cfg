\* Two workers on three inputs, the second unparsable, strict mode: 2 of 3.
SPECIFICATION FairSpec
CONSTANTS
  N = 3
  Workers = {w1, w2}
  Attempts = 3
  MinSuccesses = 2
  Parsable <- MCParsable
  ProbeErrors <- MCProbeErrors
INVARIANTS TypeOK DisjointSlots CompleteReturn VerdictEarned NoWastedProbe CountersAgree
PROPERTIES ImplementsBatch
