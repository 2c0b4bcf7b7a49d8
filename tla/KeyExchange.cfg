\* Two key exchanges and a quick check through a faulty proxy.
SPECIFICATION Spec
CONSTANTS
  WordBits = 6
  Batch = 4
  Budget = 40
  x1 = x1
  x2 = x2
  x3 = x3
  Exchanges = {x1, x2, x3}
  Quick = {x3}
  Nonces = {s1, s2}
  Exponents = {a1, a2}
  Groups <- MCGroups
  SafePrimes = {"safe"}
  Long = {"safe", "composite"}
  Faults = {"mixed", "noise", "refuse", "weak"}
  None = None
SYMMETRY Symmetry
INVARIANTS Agreement AnswerIsMine GroupsAreSound
