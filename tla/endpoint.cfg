SPECIFICATION Spec
CONSTANTS
  None = None
  Requests = {1, 2, 3, 4}
  Forwarded <- MCForwarded
  Remote <- MCRemote
  Files <- MCFiles
  Allowed = {"png", "pdf"}
  MaxBytes = 2
  Limit = 2
  Window = 2
  Half = 2
  MaxTime = 9
  MaxErrors = 1
CHECK_DEADLOCK FALSE
INVARIANT TypeOK
INVARIANT WindowBound
INVARIANT RefusalsEarned
INVARIANT RetryAfterHonest
