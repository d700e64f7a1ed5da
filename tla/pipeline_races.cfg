SPECIFICATION FairSpec
CONSTANTS
  None = None
  d1 = d1
  d2 = d2
  Jobs = {j1, j2}
  Monitors = {m1}
  Tickets = {1}
  Digests <- MCDigests
  Attached <- TwoDocuments
  FormatValid = {d1, d2}
  Applicant <- MCApplicant
  DocNumber <- MCDocNumber
  Agrees <- MCAgrees
  MaxRetries = 1
  Limit <- MCLimit
  failures = 1
  crashes = 0
  losses = 1
  reprocesses = 1
  overrides = 1
  scans = 0
CHECK_DEADLOCK FALSE
INVARIANT FailedIsParked
INVARIANT NoTicketAbandoned
INVARIANT StagesSeeEveryAttachment
PROPERTY ContactNeverLost
PROPERTY EveryTicketSettles
