\* Two lines, commands that write past the cap, ignore SIGTERM, leave
\* processes behind or cannot be signalled, and end of input at any moment.  The process really stops.
SPECIFICATION EndingSpec
CONSTANTS
  Requests = {r1, r2}
  MaxBytes = 1
  MaxWritten = 2
  Habits = {"background", "foreign"}
CHECK_DEADLOCK FALSE
INVARIANTS
  TypeOK
  ExitOwesNothing
  OutputTruthful
  SuccessIsOwnExit
PROPERTIES
  ImplementsToolServer
  RequestsAnswered
  ServerExits
