SPECIFICATION FairSpec
CONSTANTS
  Base = 4
  Long = 2
  MaxPacketLen = 8
  Routes <- MCRoutes
  Credentials = {TRUE, FALSE}
  Bodies <- MCBodies
  Cuts = {3}
  Garbage = {0, 4}
  MaxPackets = 2
  MaxSends = 2
  MaxExtras = 1
INVARIANTS InStep BlameIsRight TagOnce
PROPERTIES ImplementsChannel PacketsArrive
