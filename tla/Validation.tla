----------------------------- MODULE Validation -----------------------------
(***************************************************************************)
(* The checks an uploaded PDF must pass before anything is called for it    *)
(* (internal/validation), and the status of each failure.  pdfcpu is a     *)
(* library: a document says what pdfcpu finds in it.                       *)
(***************************************************************************)
EXTENDS Integers

\* An upload: its X-Filename, whether it starts with %PDF-, and pdfcpu's verdict.  Page
\* counts up to 2 and limits up to 1 (bounds of the model) are below, at and above a limit.
Document ==
  [name : {"none", "pdf", "other"}, signed : BOOLEAN,
   parse : {"readable", "password", "broken"}, pages : 0..2]
PageLimits == 0..1

Passed == "nil"

CheckExtension(doc) == IF doc.name = "other" THEN "ErrUnsupportedExtension" ELSE Passed
CheckSignature(doc) == IF doc.signed THEN Passed ELSE "ErrInvalidSignature"
AnalyzePDF(doc) ==
  [readable |-> Passed, password |-> "ErrEncryptedPDF", broken |-> "ErrMalformedPDF"][doc.parse]

\* A limit of zero is no limit.
CheckPageLimit(doc, maxPages) ==
  IF maxPages > 0 /\ doc.pages > maxPages THEN "ErrTooManyPages" ELSE Passed

\* The first check that fails decides.
Then(err, next) == IF err # Passed THEN err ELSE next

PreExtract(doc, maxPages) ==
  Then(CheckExtension(doc), Then(CheckSignature(doc),
    Then(AnalyzePDF(doc), CheckPageLimit(doc, maxPages))))

StatusOf ==
  [ErrUnsupportedExtension |-> 415, ErrInvalidSignature |-> 400, ErrMalformedPDF |-> 400,
   ErrEncryptedPDF |-> 422, ErrTooManyPages |-> 422, ErrNoExtractableText |-> 422]
=============================================================================
