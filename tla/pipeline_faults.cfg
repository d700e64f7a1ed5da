SPECIFICATION FairSpec
CONSTANTS
  None = None
  d1 = d1
  d2 = d2
  Jobs = {j1, j2}
  Monitors = {m1}
  Tickets = {1}
  Digests <- MCDigests
  Attached <- TwoDocuments
  FormatValid = {d1}
  Applicant <- MCApplicant
  DocNumber <- MCDocNumber
  Agrees <- MCAgrees
  MaxRetries = 1
  Limit <- MCLimit
  failures = 2
  crashes = 2
  losses = 1
  reprocesses = 0
  overrides = 0
  scans = 0
CHECK_DEADLOCK FALSE
INVARIANT TypeOK
INVARIANT NoTicketAbandoned
INVARIANT FailedIsParked
INVARIANT StagesSeeEveryAttachment
INVARIANT VerdictsSound
PROPERTY EveryTicketSettles
