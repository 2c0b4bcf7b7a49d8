\* One network failure, two tries of a batch.
SPECIFICATION FairSpec
CONSTANTS
  MaxWrites <- MCMaxWrites
  MaxOut <- MCMaxOut
  MaxBusy <- MCMaxBusy
  MaxFaults = 1
  Tries = 2
  Window = 2
  GrantMin = 2
INVARIANTS CreditConserved UplinkInOrder NoTruncation CloseReleases
PROPERTIES ImplementsStream CallsEnd
CHECK_DEADLOCK FALSE
