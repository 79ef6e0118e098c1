\* One process with two requests, registered in Consul or not.
SPECIFICATION Spec
CONSTANTS
  r1 = r1
  r2 = r2
  Request <- MCRequests
  AudaReplies <- MCReplies
  Lossy = TRUE
INVARIANTS
  TypeOK
  CleanExitLosesNothing
  WithdrawnBeforeDraining
  AdvertisedOnlyAfterRetries
PROPERTIES
  NoLateSchedule
  WithdrawnOnce
  SignalStops
  StopsGracefully
\* The process ends.
CHECK_DEADLOCK FALSE
