\* Any status, any panic, dependencies that answer, refuse or hang.
SPECIFICATION Spec
CONSTANTS
  extract = extract
  persistence = persistence
  audit = audit
  Service <- MCServices
  HealthReplies <- MCHealthReplies
  Statuses <- MCStatuses
INVARIANTS
  TypeOK
  OneDocument
  LoggedAsSent
  WriteProblemIsExact
  ReadyTellsTruth
PROPERTIES
  EveryRequestEnds
\* The request ends.
CHECK_DEADLOCK FALSE
