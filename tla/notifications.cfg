SPECIFICATION FairSpec
CONSTANTS
  Notices = {n1, n2}
  NoAddress = {n2}
  Jobs = {j1, j2}
  Monitors = {m1}
  MaxRetries = 3
  Limit <- MCLimit
  refusals = 4
  timeouts = 1
  errors = 1
  crashes = 2
CHECK_DEADLOCK FALSE
INVARIANT TypeOK
INVARIANT GivenUpAfterRetries
INVARIANT DuplicatesExplained
INVARIANT SentWasMailed
PROPERTY EveryNoticeSettles
