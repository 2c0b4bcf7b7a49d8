SPECIFICATION GeoSpec
CONSTANTS
  w1 = w1
  w2 = w2
  w3 = w3
  h1 = h1
  h2 = h2
  Workers = {w1, w2, w3}
  Hosts = {h1, h2}
  Codes = {"NL"}
  Calls = 5
  Error = Error
  None = None
INVARIANTS
  AskedOnce
  OwnHost
