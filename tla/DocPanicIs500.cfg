\* A problem document with a status of 1000.
SPECIFICATION Spec
CONSTANTS
  extract = extract
  persistence = persistence
  audit = audit
  Service <- MCServices
  HealthReplies <- MCHealthReplies
  Statuses <- MCStatuses
PROPERTIES
  PanicIs500
\* The request ends.
CHECK_DEADLOCK FALSE
