\* Two concurrent requests of any kind; upstreams that refuse, truncate or never answer,
\* behind a proxy that may send each call twice.
SPECIFICATION Spec
CONSTANTS
  r1 = r1
  r2 = r2
  r3 = r3
  s1 = s1
  t1 = t1
  blank = blank
  absent = absent
  Request <- MCTwo
  Sum <- MCSums
  Texts <- MCText
  Blank = blank
  Absent = absent
  PDFTexts <- MCPDFTexts
  Operations <- AllOperations
  Refusals <- MCRefusals
  OkBodies <- MCBodies
  Resends = 1
  AudaReplies <- HealthyAuda
  Lossy = TRUE
INVARIANTS
  TypeOK
  DeniedDidNothing
  AuditMatchesWork
PROPERTIES
  LookupIsFailOpen
  EveryRequestAnswered
  KeepsAuditPromise
\* Every request ends.
CHECK_DEADLOCK FALSE
