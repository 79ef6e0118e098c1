\* AUDA may answer anything, late or never.
SPECIFICATION Spec
CONSTANTS
  e1 = e1
  e2 = e2
  Event <- MCEvents
  AudaReplies <- MCReplies
  Lossy = TRUE
INVARIANTS
  TypeOK
  WaitGroupIsExact
  DrainedKeepsPromise
PROPERTIES
  EmissionEnds
\* The service stops when every event is finished and Close has returned.
CHECK_DEADLOCK FALSE
