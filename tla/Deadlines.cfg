\* One process with one request on a clock.
SPECIFICATION TimedSpec
CONSTANTS
  r1 = r1
  Request <- MCRequests
  AudaReplies <- MCReplies
  Lossy = TRUE
  MaxInt = 63
  ConsulTimeout = 1
  HTTPTimeout = 1
  RequestBudgetSlack = 2
  ReadHeaderTimeout = 1
  NewConnGrace = 1
  ShutdownTimeouts <- MCShutdownTimeouts
  HealthCheckTimeouts <- MCHealthCheckTimeouts
INVARIANTS
  TimersOK
  StopIsBounded
  RoomyStopIsClean
  InTimeIsDelivered
\* The process ends.
CHECK_DEADLOCK FALSE
