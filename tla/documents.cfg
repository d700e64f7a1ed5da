SPECIFICATION Spec
CONSTANTS
  None = None
  Tickets = {1, 2}
  Runs = {1, 2}
  Writers = {1, 2}
  Paths <- MCPaths
  Chunks = 2
  Scenarios <- MCScenarios
  Sniffed <- MCSniffed
  Printed <- MCPrinted
  Calendar <- MCCalendar
  Limit <- MCLimit
  National <- MCNational
  LastTen <- MCLastTen
  restarts = 1
  misreads = 1
  nerFailures = 1
CHECK_DEADLOCK FALSE
INVARIANT TypeOK
INVARIANT FilesWhole
INVARIANT MismatchReviewed
INVARIANT LateDuplicateReviewed
INVARIANT BodyAddressWins
INVARIANT AgesTogether
INVARIANT CardReadTrue
INVARIANT ContactAsStated
INVARIANT OnlyFutureBirthsFail
PROPERTY LostOnlyWhenStale
