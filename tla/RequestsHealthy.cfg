\* Three requests, upstreams that answer in time, clients that may go away.
SPECIFICATION Spec
CONSTANTS
  r1 = r1
  r2 = r2
  r3 = r3
  s1 = s1
  t1 = t1
  blank = blank
  absent = absent
  Request <- MCThree
  Sum <- MCSums
  Texts <- MCText
  Blank = blank
  Absent = absent
  PDFTexts <- TextPDFs
  Operations <- Writes
  Refusals <- NoRefusals
  OkBodies <- ValueBodies
  Resends = 0
  AudaReplies <- HealthyAuda
  Lossy = FALSE
INVARIANTS
  TrailExplainsStore
PROPERTIES
  AcknowledgedIsRecorded
\* Every request ends.
CHECK_DEADLOCK FALSE
