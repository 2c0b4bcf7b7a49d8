SPECIFICATION Spec
CONSTANTS
  Lower <- MCLower
  Undotted <- MCUndotted
  Decoded <- MCDecoded
  PlainHost <- MCPlainHost
  Inputs <- MCInputs
  Settings <- MCSettings
  Reports <- MCReports
  Held = Held
  Torn = Torn
CHECK_DEADLOCK FALSE
INVARIANTS
  DifferentProxiesChecked
