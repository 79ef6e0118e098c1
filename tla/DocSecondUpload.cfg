\* Two uploads of one PDF, everything healthy.
SPECIFICATION Spec
CONSTANTS
  r1 = r1
  r2 = r2
  r3 = r3
  s1 = s1
  t1 = t1
  blank = blank
  absent = absent
  Request <- MCTwo
  Sum <- MCSums
  Texts <- MCText
  Blank = blank
  Absent = absent
  PDFTexts <- TextPDFs
  Operations <- Extractions
  Refusals <- NoRefusals
  OkBodies <- ValueBodies
  Resends = 0
  AudaReplies <- HealthyAuda
  Lossy = FALSE
PROPERTIES
  SecondUploadIsAHit
\* Every request ends.
CHECK_DEADLOCK FALSE
