SPECIFICATION Spec
CONSTANTS
  None = None
  d1 = d1
  d2 = d2
  Jobs = {j1}
  Monitors = {m1}
  Tickets = {1}
  Digests <- MCDigests
  Attached <- TwoDocuments
  FormatValid = {d1, d2}
  Applicant <- MCApplicant
  DocNumber <- MCDocNumber
  Agrees <- MCAgrees
  MaxRetries = 3
  Limit <- MCLimit
  failures = 0
  crashes = 0
  losses = 0
  reprocesses = 0
  overrides = 0
  scans = 2
CHECK_DEADLOCK FALSE
INVARIANT BreachFlaggedOnce
