\* What a comment of fullHandshake promises and the code does not keep.
SPECIFICATION Spec
CONSTANTS
  Pings = 2
  HoldPings = 0
  Queries = {"nearest", "config"}
  MaxPongReplies = 2
  MaxRPCReplies = 2
  MaxFaults = 1
  MaxQueue = 2
INVARIANTS LiveStaysLive
