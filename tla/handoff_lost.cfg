SPECIFICATION Spec
CONSTANTS
  r1 = r1
  r2 = r2
  r3 = r3
  r4 = r4
  r5 = r5
  first = first
  other = other
  answerTo = answerTo
  further = further
  m1 = m1
  m2 = m2
  m3 = m3
  None = None
  Requests <- MCRequests
  Contents = {first, other, answerTo, further}
  MsgIds = {m1, m2, m3}
  Mail <- MCMail
  MsgId <- MCMsgId
  Refs <- MCRefs
  MaxCrashes = 1
  MaxOutages = 1
  MaxDeletes = 0
CHECK_DEADLOCK FALSE
INVARIANT AnsweredMeansStarted
