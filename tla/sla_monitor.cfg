SPECIFICATION Spec
CONSTANTS
  None = None
  d1 = d1
  d2 = d2
  Jobs = {j1, j2}
  Monitors = {m1, m2}
  Tickets = {1}
  Digests <- MCDigests
  Attached <- SameDocument
  FormatValid = {d1, d2}
  Applicant <- MCApplicant
  DocNumber <- MCDocNumber
  Agrees <- MCAgrees
  MaxRetries = 1
  Limit <- MCLimit
  failures = 1
  crashes = 1
  losses = 0
  reprocesses = 0
  overrides = 0
  scans = 3
CHECK_DEADLOCK FALSE
INVARIANT BreachesAccounted
