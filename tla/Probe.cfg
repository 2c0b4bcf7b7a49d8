\* All kinds and depths, a time-out of two units of time.
SPECIFICATION FairSpec
CONSTANTS
  Kinds = {"mtproto", "faketls", "socks5", "web", "tcp"}
  Depths = {"quick", "full"}
  Timeout = 2
  Grace = 1
  Hold = 3
  Pings = 2
  Inspect = TRUE
  Speedtest = TRUE
  Candidates <- MCCandidates
INVARIANTS TypeOK EndsInTime VerdictHasCause SocketsAreClosed
PROPERTIES ProbeEnds
