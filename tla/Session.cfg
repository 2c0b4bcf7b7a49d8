\* Two pings, help.getNearestDc, the language pack and a hold of one ping;
\* a reply budget of two in place of 4 and 16.
SPECIFICATION FairSpec
CONSTANTS
  Pings = 2
  HoldPings = 1
  Queries = {"nearest", "speed"}
  MaxPongReplies = 2
  MaxRPCReplies = 2
  MaxFaults = 2
  MaxQueue = 2
INVARIANTS OwnAnswers ReportHonest VerdictEarned
PROPERTIES SecondCopyIsNewer HoldLossExplained SessionEnds
