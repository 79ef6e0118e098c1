--------------------------- MODULE RequestsProofs ---------------------------
(***************************************************************************)
(* For every number of requests, every behaviour of the upstreams, proxies *)
(* and clients: the audit events tell what was done, a denied request did  *)
(* nothing, and Requests implements AuditedOperation.                      *)
(***************************************************************************)
EXTENDS Requests, FiniteSetTheorems, TLAPS

\* The upstream call that does what the request asks for is, or was, under way.
Effective(r) == pc[r] \in Mutations \cup {"extract"}

\* What a handler knows of its request at each of its statements.
HandlerInv(r) ==
  /\ pc[r] = "idle" => /\ want[r] = Idle /\ call[r] = Unsent
                       /\ effect[r] = 0 /\ resent[r] = 0
  /\ pc[r] # "idle" => OpOf(r) \in Operations
  /\ pc[r] # "answered" => response[r].status = 0 /\ emission[r] = "none"
  /\ pc[r] \in Mutations \cup {"find", "list"} => OpOf(r) = pc[r]
  /\ pc[r] \in {"lookup", "extract"} => OpOf(r) = "extract"

\* How the answer of the current call and the work done so far depend on each other.
\* Without a repetition, work implies the 2xx that reports it; and a 2xx to the call
\* that does the work implies the work, with the text the PDF holds.  No document that
\* answers a repeated call reads as a success.
WorkInv(r) ==
  /\ pc[r] = "lookup" \/ OpOf(r) \notin Mutations \cup {"extract"} => effect[r] = 0
  /\ resent[r] = 0 /\ effect[r] > 0 => IsSuccess(call[r].code)
  /\ Effective(r) /\ IsSuccess(call[r].code) => effect[r] > 0
  /\ pc[r] = "extract" /\ IsSuccess(call[r].code) => call[r].value = want[r].text
  /\ resent[r] > 0 => Honest(call[r])

\* AuditMatchesWork and DeniedDidNothing for one request.  An acknowledged call is no
\* longer on the wire, where it could still do work nobody audits.
AnswerInv(r) ==
  /\ emission[r] # "none" => Worked(r) /\ Succeeded(r)
  /\ Succeeded(r) => call[r] # Wire /\ (Worked(r) => emission[r] # "none")
  /\ Refused(r) => ~Worked(r) /\ call[r] # Wire

RequestInv(r) == HandlerInv(r) /\ WorkInv(r) /\ AnswerInv(r)

\* An event is posted only by the goroutine LogAsync has started, and the WaitGroup
\* counts these goroutines.
EmissionInv ==
  /\ \A r \in Request : emission[r] \in {"none", "spawned"} => post[r] = Unsent
  /\ wg = Cardinality(Audit!Emitting)

IInv == TypeOK /\ EmissionInv /\ \A r \in Request : RequestInv(r)
-----------------------------------------------------------------------------
(* Answers and the statuses they become                                    *)

\* AuditService has its own copies of the definitions of Upstream.
LEMMA SameUpstream ==
  /\ Audit!Wire = Wire /\ Audit!Unsent = Unsent /\ Wire # Unsent
  /\ \A code : Audit!IsSuccess(code) <=> IsSuccess(code)
  /\ ~IsSuccess(Wire.code) /\ ~IsSuccess(Unsent.code)
  /\ Honest(Wire) /\ Honest(Unsent)
<1>1. /\ Audit!Wire = Wire /\ Audit!Unsent = Unsent
      /\ Wire.code = 0 /\ Unsent.code = 0 /\ Wire.body = "wire" /\ Unsent.body = "unsent"
  BY DEF Audit!Wire, Audit!Unsent, Audit!Reply, Wire, Unsent, Reply
<1>2. ~IsSuccess(0) /\ \A code : Audit!IsSuccess(code) <=> IsSuccess(code)
  BY DEF Audit!IsSuccess, IsSuccess
<1>3. Wire # Unsent
  BY <1>1
<1>4. Honest(Wire) /\ Honest(Unsent)
  BY <1>1 DEF Honest
<1> QED
  BY <1>1, <1>2, <1>3, <1>4

\* Every answer is told apart from a call that has none.
LEMMA AnswersAreAnswers == ASSUME NEW reply \in Answers PROVE reply \notin {Unsent, Wire}
<1>1. Unsent.code = 0 /\ Wire.code = 0
  BY DEF Unsent, Wire, Reply
<1>2. reply.code # 0
  BY DEF Answers
<1> QED
  BY <1>1, <1>2

\* client.Do returns nil only on a 2xx.
LEMMA NilMeansSuccess ==
  ASSUME NEW r \in Request, NEW decodes, Nil \in CallErrors(r, decodes)
  PROVE  call[r] \notin {Unsent, Wire} /\ IsSuccess(call[r].code)
BY DEF CallErrors, Do, ParseProblem, Nil, Transport, Error

\* A status is passed on from an upstream that has answered and refused, and is a success
\* only if the document says so.
LEMMA PassedOn ==
  ASSUME TypeOK, NEW r \in Request, NEW decodes, NEW err \in CallErrors(r, decodes),
         err # Nil, err.kind = "problem"
  PROVE  /\ WriteProblem(err.status) \in Nat
         /\ IsSuccess(WriteProblem(err.status)) => ~Honest(call[r])
         /\ call[r] \notin {Unsent, Wire} /\ ~IsSuccess(call[r].code)
<1>1. err # Transport
  BY DEF Transport, Error
<1>2. call[r] \notin {Unsent, Wire} /\ err = Do(call[r], decodes)
  BY <1>1 DEF CallErrors
<1>3. call[r] \in Answers
  BY <1>2 DEF TypeOK
<1>4. ~IsSuccess(call[r].code) /\ err = ParseProblem(call[r])
  BY <1>2 DEF Do, Nil, Error
<1>5. err.status = 0 \/ (call[r].body = "problem" /\ err.status = call[r].status)
  BY <1>4 DEF ParseProblem, Error
<1>6. err.status \in Int
  BY <1>3, <1>5 DEF Answers
<1>7. WriteProblem(err.status) \in Nat
  BY <1>6 DEF WriteProblem, IsFinal
<1>8. ~IsSuccess(WriteProblem(0))
  BY DEF WriteProblem, IsSuccess
<1> QED
  BY <1>2, <1>4, <1>5, <1>7, <1>8 DEF Honest

\* What a handler answers to an error: a success or a 4xx only after a refusal, and a success
\* only to a call that was not repeated.
Justified(r, status) ==
  /\ status \in Nat
  /\ IsSuccess(status) \/ status \in 400..499 => call[r] # Wire /\ ~IsSuccess(call[r].code)
  /\ IsSuccess(status) => resent[r] = 0

LEMMA ErrorStatuses ==
  ASSUME TypeOK, NEW r \in Request, resent[r] > 0 => Honest(call[r]),
         NEW decodes, NEW err \in CallErrors(r, decodes), err # Nil
  PROVE  /\ PDFErrorStatus(err) \in {502, 503}
         /\ Justified(r, TextErrorStatus(err))
         /\ Justified(r, AuditErrorStatus(err))
<1>1. PDFErrorStatus(err) \in {502, 503}
  BY DEF PDFErrorStatus
<1>2. Justified(r, 502) /\ Justified(r, 503)
  BY DEF Justified, IsSuccess
<1>3. resent[r] \in Nat
  BY ResendsAssumption DEF TypeOK
<1>4. err.kind = "problem" => Justified(r, WriteProblem(err.status))
  BY <1>3, PassedOn DEF Justified
<1> QED
  BY <1>1, <1>2, <1>4 DEF TextErrorStatus, AuditErrorStatus

\* What is rejected on arrival is answered 4xx.
LEMMA RejectionsAre4xx ==
  ASSUME NEW op \in Operations
  PROVE  Rejections(op) \subseteq 400..499
<1>1. \A doc \in Document, max \in PageLimits : PreExtract(doc, max) # Passed =>
        StatusOf[PreExtract(doc, max)] \in {400, 415, 422}
  <2> SUFFICES ASSUME NEW doc \in Document, NEW max \in PageLimits, PreExtract(doc, max) # Passed
               PROVE  StatusOf[PreExtract(doc, max)] \in {400, 415, 422}
    OBVIOUS
  <2>1. doc.parse \in {"readable", "password", "broken"}
    BY DEF Document
  <2>2. AnalyzePDF(doc) \in {Passed, "ErrEncryptedPDF", "ErrMalformedPDF"}
    BY <2>1 DEF AnalyzePDF, Passed
  <2>3. PreExtract(doc, max) \in {"ErrUnsupportedExtension", "ErrInvalidSignature", "ErrMalformedPDF",
                                  "ErrEncryptedPDF", "ErrTooManyPages"}
    BY <2>2 DEF PreExtract, Then, CheckExtension, CheckSignature, CheckPageLimit, Passed
  <2> QED
    BY <2>3 DEF StatusOf
<1>2. PreExtractStatus \subseteq 400..499
  BY <1>1 DEF PreExtractStatus
<1> QED
  BY <1>2, OperationsAssumption DEF Rejections, ContentTypeStatus, BodyStatuses, TextStatus, QueryStatus
-----------------------------------------------------------------------------
(* The steps of a handler: it ends with an answer, or goes on to Extract.  *)

\* A handler answers and returns.
Ends(r, status, text) ==
  /\ pc[r] \notin {"idle", "answered"}
  /\ Answer(r, status, text)
  /\ UNCHANGED <<want, call, resent, effect, gone, store>>

\* It acknowledges work and schedules the event; or it says nothing to AUDA, and then
\* there is no work to acknowledge, and none behind a denial.
EndsAudited(r, status, text) ==
  /\ Ends(r, status, text) /\ Audit!LogAsync(r)
  /\ IsSuccess(status) /\ Worked(r) /\ call[r] # Wire

EndsQuietly(r, status, text) ==
  /\ Ends(r, status, text) /\ UNCHANGED auditVars
  /\ IsSuccess(status) \/ (status \in 400..499 /\ resent[r] = 0) => ~Worked(r) /\ call[r] # Wire

\* Each handler justifies its answers, whatever the upstreams have answered.
LEMMA HandlerAnswers ==
  ASSUME IInv, NEW r \in Request, Handler(r)
  PROVE  \/ LookupFails(r)
         \/ \E status \in Nat, text \in Contents :
              EndsAudited(r, status, text) \/ EndsQuietly(r, status, text)
<1>1. /\ pc[r] \in Mutations \cup {"find", "list"} => OpOf(r) = pc[r]
      /\ pc[r] = "extract" => OpOf(r) = "extract"
      /\ pc[r] \in {"lookup", "find", "list"} => effect[r] = 0
      /\ resent[r] = 0 /\ effect[r] > 0 => IsSuccess(call[r].code)
      /\ Effective(r) /\ IsSuccess(call[r].code) => effect[r] > 0
      /\ resent[r] > 0 => Honest(call[r])
      /\ effect[r] \in Nat
  BY DEF IInv, RequestInv, TypeOK, HandlerInv, WorkInv, Mutations
<1>2. ASSUME NEW decodes, Nil \in CallErrors(r, decodes)
      PROVE  call[r] # Wire /\ IsSuccess(call[r].code) /\ call[r].value \in Contents
  <2>1. call[r] \in Answers
    BY <1>2, NilMeansSuccess DEF IInv, TypeOK
  <2> QED
    BY <1>2, <2>1, NilMeansSuccess DEF Answers
<1>3. Absent \in Contents /\ IsSuccess(200) /\ IsSuccess(201) /\ ~IsSuccess(422)
      /\ ~IsSuccess(502) /\ ~IsSuccess(503)
  BY DEF Contents, IsSuccess
<1>4. CASE LookupHits(r)
  <2>1. call[r] # Wire /\ call[r].value \in Contents
    BY <1>2, <1>4, Zenon DEF LookupHits
  <2>2. EndsQuietly(r, 200, call[r].value)
    BY <1>1, <1>4, <2>1 DEF LookupHits, Ends, EndsQuietly, Worked
  <2> QED
    BY <2>1, <2>2
<1>5. CASE ExtractSucceeds(r)
  <2>1. call[r] # Wire /\ effect[r] > 0 /\ call[r].value = want[r].text /\ OpOf(r) = "extract"
        /\ call[r].value \in Contents
    BY <1>1, <1>2, <1>5 DEF ExtractSucceeds, Effective, IInv, RequestInv, WorkInv
  <2>2. CASE call[r].value = Blank
    <3>1. EndsQuietly(r, 422, Absent)
      BY <1>3, <1>5, <2>1, <2>2 DEF ExtractSucceeds, ValidateExtracted, Passed, StatusOf, Ends, EndsAudited, EndsQuietly, Worked
    <3> QED
      BY <1>3, <3>1
  <2>3. CASE call[r].value # Blank
    <3>1. EndsAudited(r, 200, call[r].value)
      BY <1>3, <1>5, <2>1, <2>3 DEF ExtractSucceeds, ValidateExtracted, Passed, Ends, EndsAudited, EndsQuietly, Worked
    <3> QED
      BY <2>1, <3>1
  <2> QED
    BY <2>2, <2>3
<1>6. CASE ExtractFails(r)
  <2>1. PICK err \in CallErrors(r, TRUE) : err # Nil /\ Answer(r, PDFErrorStatus(err), Absent)
    BY <1>6, Zenon DEF ExtractFails
  <2>2. PDFErrorStatus(err) \in {502, 503}
    BY DEF PDFErrorStatus
  <2>3. EndsQuietly(r, PDFErrorStatus(err), Absent)
    BY <1>3, <1>6, <2>1, <2>2 DEF ExtractFails, Ends, EndsQuietly
  <2> QED
    BY <1>3, <2>2, <2>3
<1>7. CASE MutationSucceeds(r)
  <2> DEFINE status == IF pc[r] = "create" THEN 201 ELSE 200
             text == IF pc[r] = "update" THEN call[r].value ELSE Absent
  <2>1. call[r] # Wire /\ effect[r] > 0 /\ OpOf(r) # "extract" /\ text \in Contents
    BY <1>1, <1>2, <1>3, <1>7 DEF MutationSucceeds, Effective, Mutations
  <2>2. EndsAudited(r, status, text)
    BY <1>3, <1>7, <2>1 DEF MutationSucceeds, Ends, EndsAudited, EndsQuietly, Worked, Mutations
  <2> QED
    BY <2>1, <2>2
<1>8. CASE FindSucceeds(r)
  <2>1. call[r] # Wire /\ call[r].value \in Contents
    BY <1>2, <1>8, Zenon DEF FindSucceeds
  <2>2. EndsQuietly(r, 200, call[r].value)
    BY <1>1, <1>8, <2>1 DEF FindSucceeds, Ends, EndsQuietly, Worked
  <2> QED
    BY <2>1, <2>2
<1>9. CASE TextFails(r)
  <2>1. PICK err \in CallErrors(r, Decodes(pc[r])) : err # Nil /\ Answer(r, TextErrorStatus(err), Absent)
    BY <1>9, Zenon DEF TextFails
  <2>2. Justified(r, TextErrorStatus(err))
    BY <1>1, <2>1, ErrorStatuses, Zenon DEF IInv
  <2>3. EndsQuietly(r, TextErrorStatus(err), Absent)
    BY <1>1, <1>9, <2>1, <2>2 DEF TextFails, Ends, EndsQuietly, Justified, Worked, Mutations
  <2> QED
    BY <1>3, <2>2, <2>3 DEF Justified
<1>10. CASE ListEnds(r)
  <2>1. PICK err \in CallErrors(r, TRUE) :
          Answer(r, IF err = Nil THEN 200 ELSE AuditErrorStatus(err), Absent)
    BY <1>10, Zenon DEF ListEnds
  <2>2. CASE err = Nil
    <3>1. call[r] # Wire
      BY <1>2, <2>1, <2>2, Zenon
    <3>2. EndsQuietly(r, 200, Absent)
      BY <1>1, <1>10, <2>1, <2>2, <3>1 DEF ListEnds, Ends, EndsQuietly, Worked
    <3> QED
      BY <1>3, <3>2
  <2>3. CASE err # Nil
    <3>1. Justified(r, AuditErrorStatus(err))
      BY <1>1, <2>1, <2>3, ErrorStatuses, Zenon DEF IInv
    <3>2. EndsQuietly(r, AuditErrorStatus(err), Absent)
      BY <1>1, <1>10, <2>1, <2>3, <3>1 DEF ListEnds, Ends, EndsQuietly, Justified, Worked
    <3> QED
      BY <1>3, <3>1, <3>2 DEF Justified
  <2> QED
    BY <2>2, <2>3
<1> QED
  BY <1>4, <1>5, <1>6, <1>7, <1>8, <1>9, <1>10 DEF Handler
-----------------------------------------------------------------------------
(* The upstreams                                                           *)

\* The call is answered: without effect, and then it was no success of a call that has
\* one; or the request's work is done, and an extraction's answer is the PDF's text.
Executes(r, reply) ==
  /\ reply \in Answers
  /\ call[r] = Wire /\ call' = [call EXCEPT ![r] = reply]
  /\ Resends > 0 => Honest(reply)
  /\ \/ UNCHANGED effect /\ (Effective(r) => ~IsSuccess(reply.code))
     \/ /\ effect' = [effect EXCEPT ![r] = @ + 1] /\ IsSuccess(reply.code)
        /\ pc[r] # "lookup" /\ OpOf(r) \in Mutations \cup {"extract"}
        /\ OpOf(r) = "extract" => reply.value = want[r].text
  /\ store' \in [Sum -> Contents]
  /\ UNCHANGED <<want, pc, resent, response, gone, auditVars>>

LEMMA UpstreamAnswers ==
  ASSUME IInv, NEW r \in Request, Upstreams(r)
  PROVE  \E reply \in Answers : Executes(r, reply)
<1>1. /\ HandlerInv(r) /\ store \in [Sum -> Contents]
      /\ call[r] = Wire /\ UNCHANGED <<want, pc, resent, response, gone, auditVars>>
  BY DEF IInv, RequestInv, TypeOK, Upstreams
<1>2. want[r].op \in Operations
  BY <1>1, SameUpstream DEF HandlerInv, OpOf
<1>3. want[r].sum \in Sum /\ want[r].text \in Contents
  <2>1. want[r].op # "none"
    BY <1>2, OperationsAssumption
  <2> QED
    BY <2>1 DEF IInv, TypeOK, Idle
<1>4. Absent \in Contents /\ \A code \in {200, 201}, body \in OkBodies, value \in Contents :
        /\ Reply(code, body, value) \in Answers /\ IsSuccess(Reply(code, body, value).code)
        /\ Reply(code, body, value).value = value /\ Honest(Reply(code, body, value))
  BY BodiesAssumption DEF Reply, Answers, IsSuccess, Contents, Honest
<1>5. \A code \in {404, 409} : LET reply == Reply(code, "problem", Absent) IN
        reply \in Answers /\ ~IsSuccess(reply.code) /\ Honest(reply)
  BY <1>4 DEF Reply, Answers, IsSuccess, Honest, WriteProblem, IsFinal
<1>6. ASSUME NEW reply \in Answers, IsSuccess(reply.code), Honest(reply), Replies(r, reply), Done(r),
             pc[r] # "lookup", OpOf(r) \in Mutations \cup {"extract"},
             OpOf(r) = "extract" => reply.value = want[r].text, store' \in [Sum -> Contents]
      PROVE  Executes(r, reply)
  BY <1>1, <1>6 DEF Executes, Replies, Done
<1>7. ASSUME NEW reply \in Answers, Replies(r, reply), UNCHANGED <<effect, store>>,
             Resends > 0 => Honest(reply),
             Effective(r) => ~IsSuccess(reply.code)
      PROVE  Executes(r, reply)
  BY <1>1, <1>7 DEF Executes, Replies
<1>8. pc[r] \in Mutations \cup {"find", "list"} => OpOf(r) = pc[r]
  BY <1>1 DEF HandlerInv
<1>9. pc[r] \in {"lookup", "extract"} => OpOf(r) = "extract"
  BY <1>1 DEF HandlerInv
<1>10. CASE Stores(r) \/ Deletes(r)
  <2>1. PICK code \in {200, 201}, body \in OkBodies : Replies(r, Reply(code, body, Absent))
    BY <1>10 DEF Stores, Deletes
  <2>2. store' \in [Sum -> Contents]
    BY <1>1, <1>3, <1>4, <1>10 DEF Stores, Deletes
  <2>3. OpOf(r) \in Mutations /\ OpOf(r) # "extract" /\ Done(r)
    BY <1>10 DEF Stores, Deletes, OpOf, Mutations
  <2> QED
    BY <1>4, <1>6, <1>9, <2>1, <2>2, <2>3
<1>11. CASE Updates(r)
  <2>1. PICK body \in OkBodies : Replies(r, Reply(200, body, store[want[r].sum]))
    BY <1>11 DEF Updates
  <2>2. OpOf(r) \in Mutations /\ OpOf(r) # "extract" /\ Done(r) /\ UNCHANGED store
    BY <1>11 DEF Updates, OpOf, Mutations
  <2> QED
    BY <1>1, <1>3, <1>4, <1>6, <1>9, <2>1, <2>2
<1>12. CASE Extracts(r)
  <2>1. PICK body \in OkBodies : Replies(r, Reply(200, body, want[r].text))
    BY <1>12 DEF Extracts
  <2>2. OpOf(r) = "extract" /\ pc[r] # "lookup" /\ Done(r) /\ UNCHANGED store
    BY <1>12 DEF Extracts, AtExtract, OpOf
  <2> QED
    BY <1>1, <1>3, <1>4, <1>6, <2>1, <2>2
<1>13. CASE Reads(r) \/ Lists(r)
  <2>1. PICK body \in OkBodies, value \in Contents : Replies(r, Reply(200, body, value))
    BY <1>1, <1>3, <1>4, <1>13 DEF Reads, Lists
  <2>2. ~Effective(r) /\ UNCHANGED <<effect, store>>
    BY <1>8, <1>9, <1>13 DEF Reads, Lists, OpOf, Effective, Mutations
  <2> QED
    BY <1>4, <1>7, <2>1, <2>2
<1>14. CASE Conflicts(r) \/ Misses(r)
  BY <1>5, <1>7, <1>14 DEF Conflicts, Misses
<1>15. CASE Refuses(r)
  BY <1>7, <1>15, RefusalsAssumption, HonestyAssumption DEF Refuses
<1> QED
  BY <1>10, <1>11, <1>12, <1>13, <1>14, <1>15 DEF Upstreams
-----------------------------------------------------------------------------
(* The emissions                                                           *)

\* What AuditService is given by this module has its types whatever happens.
LEMMA GivenTypes ==
  /\ FALSE \in BOOLEAN
  /\ [r \in Request |-> pc[r] = "answered" \/ r \in gone] \in [Request -> BOOLEAN]
  /\ [r \in Request |-> pc'[r] = "answered" \/ r \in gone'] \in [Request -> BOOLEAN]
BY Zenon

LEMMA EmittingFinite == IsFiniteSet(Audit!Emitting)
BY RequestAssumption, FS_Subset DEF Audit!Emitting

LEMMA AuditUntouched ==
  ASSUME IInv, UNCHANGED auditVars
  PROVE  Audit!TypeOK' /\ EmissionInv' /\ UNCHANGED emission
<1>1. Audit!TypeOK'
  BY GivenTypes DEF IInv, TypeOK, auditVars, Audit!TypeOK
<1> QED
  BY <1>1 DEF IInv, EmissionInv, auditVars, Audit!Emitting

\* LogAsync counts one goroutine more.
LEMMA LogAsyncKeeps ==
  ASSUME IInv, NEW r \in Request, Audit!LogAsync(r)
  PROVE  Audit!TypeOK' /\ EmissionInv' /\ emission' = [emission EXCEPT ![r] = "spawned"]
<1> USE DEF IInv, TypeOK, Audit!TypeOK, Audit!LogAsync
<1>1. Audit!TypeOK'
  BY GivenTypes DEF Audit!InFlight
<1>2. Audit!Emitting' = Audit!Emitting \cup {r} /\ r \notin Audit!Emitting
  BY DEF Audit!Emitting, Audit!InFlight
<1>3. wg' = Cardinality(Audit!Emitting')
  BY <1>2, EmittingFinite, FS_AddElement DEF EmissionInv
<1>4. \A q \in Request : emission'[q] \in {"none", "spawned"} => post'[q] = Unsent
  BY DEF EmissionInv
<1> QED
  BY <1>1, <1>3, <1>4 DEF EmissionInv

\* The steps of an emission end a counted goroutine, or none.
LEMMA EmitsKeeps ==
  ASSUME IInv, NEW r \in Request, Emits(r)
  PROVE  /\ Audit!TypeOK' /\ EmissionInv'
         /\ \A q \in Request : emission'[q] = "none" <=> emission[q] = "none"
<1> USE DEF IInv, TypeOK, Audit!TypeOK
<1>1. CASE Audit!Post(r)
  <2>1. Audit!TypeOK'
    BY <1>1, GivenTypes DEF Audit!Post, Audit!InFlight
  <2>2. Audit!Emitting' = Audit!Emitting
    BY <1>1 DEF Audit!Post, Audit!Emitting, Audit!InFlight
  <2> QED
    BY <1>1, <2>1, <2>2 DEF Audit!Post, EmissionInv
<1>2. CASE Audit!EmitReturns(r)
  <2>1. PICK o \in Audit!Outcomes : emission' = [emission EXCEPT ![r] = o]
    BY <1>2 DEF Audit!EmitReturns, Audit!Outcome, Audit!Outcomes
  <2>2. r \in Audit!Emitting /\ Audit!Emitting' = Audit!Emitting \ {r}
    BY <1>2, <2>1 DEF Audit!EmitReturns, Audit!Emitting, Audit!InFlight, Audit!Outcomes
  <2>3. wg' = Cardinality(Audit!Emitting') /\ wg' \in Nat
    <3>1. /\ Cardinality(Audit!Emitting \ {r}) = Cardinality(Audit!Emitting) - 1
          /\ Cardinality(Audit!Emitting \ {r}) \in Nat
      BY <2>2, EmittingFinite, FS_RemoveElement, FS_CardinalityType
    <3> QED
      BY <1>2, <2>2, <3>1 DEF Audit!EmitReturns, EmissionInv
  <2>4. Audit!TypeOK'
    BY <1>2, <2>1, <2>3, GivenTypes DEF Audit!EmitReturns
  <2> QED
    BY <1>2, <2>1, <2>3, <2>4 DEF Audit!EmitReturns, Audit!Outcomes, EmissionInv
<1>3. CASE Audit!Auda(r)
  <2>1. Audit!TypeOK'
    BY <1>3, GivenTypes DEF Audit!Auda
  <2>2. Audit!Emitting' = Audit!Emitting
    BY <1>3 DEF Audit!Auda, Audit!Emitting
  <2> QED
    BY <1>3, <2>1, <2>2, SameUpstream DEF Audit!Auda, EmissionInv
<1> QED
  BY <1>1, <1>2, <1>3 DEF Emits, Audit!Goroutine
-----------------------------------------------------------------------------
(* Every step keeps the invariant.                                         *)

\* A request that a step does not concern.
LEMMA Untouched ==
  ASSUME NEW q \in Request, RequestInv(q),
         UNCHANGED <<want[q], pc[q], call[q], resent[q], effect[q], response[q]>>,
         emission'[q] = "none" <=> emission[q] = "none"
  PROVE  RequestInv(q)'
BY DEF RequestInv, HandlerInv, WorkInv, AnswerInv, OpOf, Effective, Worked, Succeeded, Refused, Denied

\* Rejected on arrival, a request never reaches an upstream.
LEMMA RejectKeeps ==
  ASSUME IInv, NEW r \in Request, Reject(r)
  PROVE  IInv'
<1>1. PICK op \in Operations, sum \in Sum, status \in 400..499 :
        Asks(r, op, sum, Absent) /\ Answer(r, status, Absent)
  BY RejectionsAre4xx DEF Reject
<1>2. Audit!TypeOK' /\ EmissionInv' /\ UNCHANGED emission
  BY AuditUntouched DEF Reject
<1>3. /\ pc[r] = "idle" /\ want' = [want EXCEPT ![r] = [op |-> op, sum |-> sum, text |-> Absent]]
      /\ pc' = [pc EXCEPT ![r] = "answered"]
      /\ response' = [response EXCEPT ![r] = [status |-> status, text |-> Absent]]
      /\ UNCHANGED <<call, resent, effect, gone, store>>
  BY <1>1 DEF Reject, Asks, Answer, Response
<1>4. TypeOK'
  BY <1>2, <1>3 DEF IInv, TypeOK, Contents
<1>5. RequestInv(r)'
  <2>1. call[r] = Unsent /\ effect[r] = 0 /\ emission[r] = "none"
    BY <1>3 DEF IInv, RequestInv, HandlerInv
  <2>2. /\ pc'[r] = "answered" /\ want'[r].op = op /\ response'[r].status = status
        /\ call'[r] = Unsent /\ effect'[r] = 0 /\ emission'[r] = "none"
    BY <1>2, <1>3, <2>1 DEF IInv, TypeOK
  <2>3. Honest(call'[r])
    BY <2>2, SameUpstream
  <2> QED
    BY <2>2, <2>3, SameUpstream DEF RequestInv, HandlerInv, WorkInv, AnswerInv, OpOf, Effective, Worked, Mutations,
       Succeeded, Refused, Denied, IsSuccess
<1>6. \A q \in Request \ {r} : RequestInv(q)'
  BY <1>2, <1>3, Untouched DEF IInv, TypeOK
<1> QED
  BY <1>2, <1>4, <1>5, <1>6 DEF IInv

LEMMA StartKeeps ==
  ASSUME IInv, NEW r \in Request, Start(r)
  PROVE  IInv'
<1>1. PICK op \in Operations, sum \in Sum, text \in Contents :
        /\ Asks(r, op, sum, text)
        /\ pc' = [pc EXCEPT ![r] = IF op = "extract" THEN "lookup" ELSE op]
  BY PDFTextsAssumption DEF Start, Carried, Contents
<1>2. Audit!TypeOK' /\ EmissionInv' /\ UNCHANGED emission
  BY AuditUntouched DEF Start
<1>3. /\ pc[r] = "idle" /\ want' = [want EXCEPT ![r] = [op |-> op, sum |-> sum, text |-> text]]
      /\ call' = [call EXCEPT ![r] = Wire]
      /\ UNCHANGED <<resent, effect, response, gone, store>>
  BY <1>1 DEF Start, Asks
<1>4. TypeOK'
  BY <1>1, <1>2, <1>3, OperationsAssumption DEF IInv, TypeOK, Mutations
<1>5. RequestInv(r)'
  <2>1. effect[r] = 0 /\ emission[r] = "none" /\ response[r].status = 0
    BY <1>3 DEF IInv, RequestInv, HandlerInv
  <2>2. /\ pc'[r] = (IF op = "extract" THEN "lookup" ELSE op) /\ want'[r].op = op
        /\ response'[r].status = 0 /\ call'[r] = Wire /\ effect'[r] = 0 /\ emission'[r] = "none"
    BY <1>1, <1>2, <1>3, <2>1 DEF IInv, TypeOK
  <2>3. Honest(call'[r])
    BY <2>2, SameUpstream
  <2> QED
    BY <2>2, <2>3, SameUpstream, OperationsAssumption DEF RequestInv, HandlerInv, WorkInv, AnswerInv, OpOf, Effective,
       Worked, Mutations, Succeeded, Refused, Denied, IsSuccess
<1>6. \A q \in Request \ {r} : RequestInv(q)'
  BY <1>1, <1>2, <1>3, Untouched DEF IInv, TypeOK
<1> QED
  BY <1>2, <1>4, <1>5, <1>6 DEF IInv

\* The audit event is scheduled exactly for acknowledged work.
LEMMA EndsKeeps ==
  ASSUME IInv, NEW r \in Request, NEW status \in Nat, NEW text \in Contents,
         EndsAudited(r, status, text) \/ EndsQuietly(r, status, text)
  PROVE  IInv'
<1>1. /\ pc[r] \notin {"idle", "answered"} /\ pc' = [pc EXCEPT ![r] = "answered"]
      /\ response' = [response EXCEPT ![r] = [status |-> status, text |-> text]]
      /\ UNCHANGED <<want, call, resent, effect, gone, store>>
  BY DEF EndsAudited, EndsQuietly, Ends, Answer, Response
<1>2. /\ Audit!TypeOK' /\ EmissionInv'
      /\ \A q \in Request \ {r} : emission'[q] = emission[q]
      /\ \/ emission'[r] # "none" /\ IsSuccess(status) /\ Worked(r) /\ call[r] # Wire
         \/ /\ emission'[r] = "none"
            /\ IsSuccess(status) \/ (status \in 400..499 /\ resent[r] = 0) => ~Worked(r) /\ call[r] # Wire
  <2>1. RequestInv(r) /\ emission[r] = "none" /\ emission \in [Request -> {"none"} \cup Audit!InFlight \cup Audit!Outcomes]
    BY <1>1 DEF IInv, TypeOK, Audit!TypeOK, RequestInv, HandlerInv
  <2>2. CASE EndsAudited(r, status, text)
    BY <2>1, <2>2, LogAsyncKeeps DEF EndsAudited
  <2>3. CASE EndsQuietly(r, status, text)
    BY <2>1, <2>3, AuditUntouched DEF EndsQuietly
  <2> QED
    BY <2>2, <2>3
<1>3. TypeOK'
  BY <1>1, <1>2 DEF IInv, TypeOK
<1>4. RequestInv(r)'
  <2>1. pc'[r] = "answered" /\ response'[r].status = status /\ (Worked(r)' <=> Worked(r))
    BY <1>1 DEF IInv, TypeOK, Worked, OpOf
  <2>2. RequestInv(r)
    BY DEF IInv
  <2>3. HandlerInv(r)' /\ WorkInv(r)'
    BY <1>1, <2>1, <2>2 DEF RequestInv, HandlerInv, WorkInv, OpOf, Effective, Mutations
  <2>4. AnswerInv(r)'
    BY <1>1, <1>2, <2>1 DEF AnswerInv, Succeeded, Refused, Denied, IsSuccess
  <2> QED
    BY <2>3, <2>4 DEF RequestInv
<1>5. \A q \in Request \ {r} : RequestInv(q)'
  BY <1>1, <1>2, Untouched DEF IInv, TypeOK
<1> QED
  BY <1>2, <1>3, <1>4, <1>5 DEF IInv

\* The call to Extract starts anew: so far nothing has been done.
LEMMA LookupFailsKeeps ==
  ASSUME IInv, NEW r \in Request, LookupFails(r)
  PROVE  IInv'
<1>1. PICK next \in {Unsent, Wire} : call' = [call EXCEPT ![r] = next]
  BY DEF LookupFails
<1>2. /\ pc[r] = "lookup" /\ pc' = [pc EXCEPT ![r] = "extract"]
      /\ resent' = [resent EXCEPT ![r] = 0]
      /\ UNCHANGED <<want, effect, response, gone, store>>
  BY DEF LookupFails
<1>3. Audit!TypeOK' /\ EmissionInv' /\ UNCHANGED emission
  BY AuditUntouched DEF LookupFails
<1>4. TypeOK'
  BY <1>1, <1>2, <1>3, ResendsAssumption DEF IInv, TypeOK
<1>5. RequestInv(r)'
  <2>1. RequestInv(r) /\ effect[r] = 0 /\ ~IsSuccess(next.code) /\ Honest(next)
    BY <1>2, SameUpstream DEF IInv, RequestInv, WorkInv
  <2>2. pc'[r] = "extract" /\ call'[r] = next
    BY <1>1, <1>2 DEF IInv, TypeOK
  <2> QED
    BY <1>2, <1>3, <2>1, <2>2 DEF RequestInv, HandlerInv, WorkInv, AnswerInv, OpOf, Effective, Worked, Mutations,
       Succeeded, Refused, Denied, IsSuccess
<1>6. \A q \in Request \ {r} : RequestInv(q)'
  BY <1>1, <1>2, <1>3, Untouched DEF IInv, TypeOK
<1> QED
  BY <1>3, <1>4, <1>5, <1>6 DEF IInv

\* Work is done only for a request that is open, or that was left unsure.
LEMMA UpstreamsKeep ==
  ASSUME IInv, NEW r \in Request, Upstreams(r)
  PROVE  IInv'
<1>1. PICK reply \in Answers : Executes(r, reply)
  BY UpstreamAnswers
<1>2. /\ call[r] = Wire /\ call' = [call EXCEPT ![r] = reply] /\ store' \in [Sum -> Contents]
      /\ UNCHANGED <<want, pc, resent, response, gone, auditVars>>
  BY <1>1 DEF Executes
<1>3. Audit!TypeOK' /\ EmissionInv' /\ UNCHANGED emission
  BY <1>2, AuditUntouched
<1>4. /\ effect' \in [Request -> Nat]
      /\ \A q \in Request \ {r} : effect'[q] = effect[q]
  <2>1. effect \in [Request -> Nat]
    BY DEF IInv, TypeOK
  <2>2. CASE UNCHANGED effect
    BY <2>1, <2>2
  <2>3. CASE effect' = [effect EXCEPT ![r] = @ + 1]
    BY <2>1, <2>3
  <2> QED
    BY <1>1, <2>2, <2>3 DEF Executes
<1>5. TypeOK'
  BY <1>2, <1>3, <1>4 DEF IInv, TypeOK
<1>6. RequestInv(r)'
  <2>1. RequestInv(r) /\ call'[r] = reply /\ ~IsSuccess(call[r].code) /\ reply # Wire
    BY <1>2, SameUpstream, AnswersAreAnswers DEF IInv, TypeOK
  <2>2. HandlerInv(r)'
    <3>1. pc[r] # "idle"
      BY <1>2, <2>1, SameUpstream DEF RequestInv, HandlerInv
    <3> QED
      BY <1>2, <1>3, <2>1, <3>1 DEF RequestInv, HandlerInv, OpOf
  <2>3. WorkInv(r)'
    <3>0. resent'[r] > 0 => Honest(call'[r])
      <4>1. resent[r] \in 0..Resends /\ resent' = resent /\ (Resends > 0 => Honest(reply))
        BY <1>1, <1>2 DEF Executes, IInv, TypeOK
      <4> QED
        BY <2>1, <4>1, ResendsAssumption
    <3>1. CASE UNCHANGED effect /\ (Effective(r) => ~IsSuccess(reply.code))
      BY <1>2, <2>1, <3>0, <3>1 DEF RequestInv, WorkInv, OpOf, Effective, Mutations
    <3>2. CASE effect'[r] = effect[r] + 1 /\ IsSuccess(reply.code) /\ pc[r] # "lookup"
               /\ OpOf(r) \in Mutations \cup {"extract"} /\ (OpOf(r) = "extract" => reply.value = want[r].text)
      BY <1>2, <1>4, <2>1, <3>0, <3>2 DEF RequestInv, HandlerInv, WorkInv, OpOf, Effective, Mutations, IInv, TypeOK
    <3> QED
      BY <1>1, <3>1, <3>2 DEF Executes, IInv, TypeOK
  <2>4. AnswerInv(r)'
    <3>1. ~Succeeded(r) /\ ~Refused(r) /\ emission[r] = "none"
      BY <1>2, <2>1 DEF RequestInv, AnswerInv
    <3> QED
      BY <1>2, <1>3, <3>1 DEF AnswerInv, Succeeded, Refused, Denied
  <2> QED
    BY <2>2, <2>3, <2>4 DEF RequestInv
<1>7. \A q \in Request \ {r} : RequestInv(q)'
  BY <1>2, <1>3, <1>4, Untouched DEF IInv, TypeOK
<1> QED
  BY <1>3, <1>5, <1>6, <1>7 DEF IInv

\* A repetition forgets the answer, but not the work behind it.
LEMMA ResendKeeps ==
  ASSUME IInv, NEW r \in Request, Resend(r)
  PROVE  IInv'
<1>1. /\ call[r] \notin {Unsent, Wire} /\ pc[r] # "answered" /\ resent[r] < Resends
      /\ resent' = [resent EXCEPT ![r] = @ + 1] /\ call' = [call EXCEPT ![r] = Wire]
      /\ UNCHANGED <<want, pc, effect, response, gone, store>>
  BY DEF Resend
<1>2. Audit!TypeOK' /\ EmissionInv' /\ UNCHANGED emission
  BY AuditUntouched DEF Resend
<1>3. TypeOK'
  BY <1>1, <1>2, ResendsAssumption DEF IInv, TypeOK
<1>4. RequestInv(r)'
  <2>1. RequestInv(r) /\ resent'[r] > 0 /\ call'[r] = Wire /\ ~IsSuccess(call'[r].code) /\ Honest(call'[r])
    BY <1>1, SameUpstream DEF IInv, TypeOK
  <2>2. pc[r] # "idle"
    BY <1>1, <2>1 DEF RequestInv, HandlerInv
  <2> QED
    BY <1>1, <1>2, <2>1, <2>2 DEF RequestInv, HandlerInv, WorkInv, AnswerInv, OpOf, Effective, Worked,
       Succeeded, Refused, Denied, IsSuccess
<1>5. \A q \in Request \ {r} : RequestInv(q)'
  BY <1>1, <1>2, Untouched DEF IInv, TypeOK
<1> QED
  BY <1>2, <1>3, <1>4, <1>5 DEF IInv

LEMMA DisconnectKeeps ==
  ASSUME IInv, NEW r \in Request, Disconnect(r)
  PROVE  IInv'
<1>1. Audit!TypeOK' /\ EmissionInv' /\ UNCHANGED emission
  BY AuditUntouched DEF Disconnect
<1>2. TypeOK'
  BY <1>1 DEF Disconnect, IInv, TypeOK
<1>3. \A q \in Request : RequestInv(q)'
  BY <1>1, Untouched DEF Disconnect, IInv
<1> QED
  BY <1>1, <1>2, <1>3 DEF IInv
-----------------------------------------------------------------------------
LEMMA InitIInv == Init => IInv
<1> SUFFICES ASSUME Init PROVE IInv
  OBVIOUS
<1>1. Audit!Emitting = {}
  BY DEF Init, Audit!Init, Audit!Emitting, Audit!InFlight
<1>2. Audit!TypeOK
  BY GivenTypes DEF Init, Audit!Init, Audit!TypeOK
<1>3. TypeOK
  BY <1>2, ResendsAssumption DEF Init, TypeOK, Response, Contents
<1>4. EmissionInv
  BY <1>1, FS_EmptySet, SameUpstream DEF Init, Audit!Init, EmissionInv
<1>5. \A r \in Request : RequestInv(r)
  BY SameUpstream DEF Init, Audit!Init, Response, Idle, RequestInv, HandlerInv, WorkInv, AnswerInv, OpOf, Effective,
     Worked, Mutations, Succeeded, Refused, Denied, IsSuccess
<1> QED
  BY <1>3, <1>4, <1>5 DEF IInv

LEMMA NextIInv == IInv /\ [Next]_vars => IInv'
<1> SUFFICES ASSUME IInv, [Next]_vars PROVE IInv'
  OBVIOUS
<1>1. CASE UNCHANGED vars
  <2>1. Audit!TypeOK' /\ EmissionInv' /\ UNCHANGED emission
    BY <1>1, AuditUntouched DEF vars
  <2>2. TypeOK' /\ \A q \in Request : RequestInv(q)'
    BY <1>1, <2>1, Untouched DEF vars, IInv, TypeOK
  <2> QED
    BY <2>1, <2>2 DEF IInv
<1>2. ASSUME NEW r \in Request, Handler(r)
      PROVE  IInv'
  BY <1>2, HandlerAnswers, EndsKeeps, LookupFailsKeeps
<1>3. ASSUME NEW r \in Request, Emits(r)
      PROVE  IInv'
  <2>1. TypeOK' /\ \A q \in Request : RequestInv(q)'
    BY <1>3, EmitsKeeps, Untouched DEF Emits, IInv, TypeOK
  <2> QED
    BY <1>3, <2>1, EmitsKeeps DEF IInv
<1> QED
  BY <1>1, <1>2, <1>3, RejectKeeps, StartKeeps, UpstreamsKeep, ResendKeeps, DisconnectKeeps DEF Next

\* The strengthened invariant holds in every reachable state.
THEOREM Inductive == Spec => []IInv
BY InitIInv, NextIInv, PTL DEF Spec

\* For any number of requests the state has its types; the WaitGroup never goes below zero.
THEOREM TypeCorrect == Spec => []TypeOK
BY Inductive, PTL DEF IInv

\* Whatever upstreams, proxies and clients do: what is audited was done and acknowledged,
\* and what was done and acknowledged is audited.
THEOREM AuditIsTrue == Spec => []AuditMatchesWork
<1>1. IInv => AuditMatchesWork
  BY DEF IInv, RequestInv, AnswerInv, AuditMatchesWork, Audit!Scheduled
<1> QED
  BY <1>1, Inductive, PTL

\* A request that was denied did nothing, and nothing is left on the wire that could.
THEOREM DenialIsFinal == Spec => []DeniedDidNothing
<1>1. IInv => DeniedDidNothing
  BY DEF IInv, RequestInv, AnswerInv, DeniedDidNothing
<1> QED
  BY <1>1, Inductive, PTL

\* The dedup lookup answers a request only when it hits.
THEOREM LookupNeverDenies == Spec => LookupIsFailOpen
<1>1. ASSUME IInv, [Next]_vars, NEW r \in Request, pc[r] = "lookup", pc'[r] = "answered"
      PROVE  response'[r].status = 200
  <2>1. pc \in [Request -> Mutations \cup {"idle", "lookup", "extract", "find", "list", "answered"}]
        /\ response \in [Request -> [status : Nat, text : Contents]]
    BY <1>1 DEF IInv, TypeOK
  <2>2. PICK q \in Request : Reject(q) \/ Start(q) \/ Handler(q) \/ Upstreams(q) \/ Resend(q) \/ Disconnect(q) \/ Emits(q)
    BY <1>1 DEF Next, vars
  <2>3. CASE Reject(q) \/ Start(q)
    <3>1. pc[q] = "idle" /\ \E to : pc' = [pc EXCEPT ![q] = to]
      BY <2>3, Zenon DEF Reject, Start, Answer
    <3> QED
      BY <1>1, <2>1, <3>1
  <2>4. CASE Handler(q)
    <3>1. q = r
      <4>1. \E to : pc' = [pc EXCEPT ![q] = to]
        BY <2>4, Zenon DEF Handler, LookupHits, LookupFails, ExtractSucceeds, ExtractFails, MutationSucceeds,
           FindSucceeds, TextFails, ListEnds, Answer
      <4> QED
        BY <1>1, <2>1, <4>1
    <3>2. LookupHits(r) \/ LookupFails(r)
      BY <1>1, <2>4, <3>1 DEF Handler, ExtractSucceeds, ExtractFails, MutationSucceeds, FindSucceeds, TextFails,
         ListEnds, Mutations
    <3>3. CASE LookupHits(r)
      <4>1. response' = [response EXCEPT ![r] = [status |-> 200, text |-> call[r].value]]
        BY <3>3, Zenon DEF LookupHits, Answer, Response
      <4> QED
        BY <2>1, <4>1
    <3>4. ~LookupFails(r)
      <4>1. LookupFails(r) => pc' = [pc EXCEPT ![r] = "extract"]
        BY Zenon DEF LookupFails
      <4> QED
        BY <1>1, <2>1, <4>1
    <3> QED
      BY <3>2, <3>3, <3>4
  <2>5. CASE Upstreams(q) \/ Resend(q) \/ Disconnect(q) \/ Emits(q)
    BY <1>1, <2>5 DEF Upstreams, Resend, Disconnect, Emits
  <2> QED
    BY <2>2, <2>3, <2>4, <2>5
<1>2. IInv /\ [Next]_vars =>
        [\A r \in Request : pc[r] = "lookup" /\ pc'[r] = "answered" => response'[r].status = 200]_vars
  BY <1>1
<1> QED
  BY <1>2, Inductive, PTL DEF Spec, LookupIsFailOpen
-----------------------------------------------------------------------------
(* When the status of an unavailable upstream is preserved.                *)

\* A 503 says so: in plain text, or in a problem document that tells the same status.
Unambiguous(reply) ==
  reply.code = 503 => reply.body = "opaque" \/ (reply.body = "problem" /\ reply.status = 503)

\* Every upstream answers in time, and unambiguously.
Forthcoming ==
  /\ ~Lossy
  /\ \A reply \in Refusals : Unambiguous(reply)

Waits(r) == OpOf(r) \in Mutations \cup {"find", "list"} /\ r \notin gone

PreservedInv == \A r \in Request :
  /\ Unambiguous(call[r])
  /\ Waits(r) /\ pc[r] = "answered" =>
       /\ call[r] # Wire
       /\ call[r].code = 503 => response[r].status = 503

LEMMA UnansweredCode == Unsent.code = 0 /\ Wire.code = 0
BY DEF Unsent, Wire, Reply

\* The errors that come of a 503, and what is answered to them.
LEMMA UnavailableStatus ==
  ASSUME NEW reply, NEW decodes, reply.code = 503, Unambiguous(reply)
  PROVE  /\ Do(reply, decodes) # Nil
         /\ TextErrorStatus(Do(reply, decodes)) = 503 /\ AuditErrorStatus(Do(reply, decodes)) = 503
<1>1. Do(reply, decodes) = ParseProblem(reply)
  BY DEF Do, IsSuccess
<1>2. ParseProblem(reply).kind \in {"problem", "status"} /\ ParseProblem(reply).status = 503
  BY DEF ParseProblem, Error, Unambiguous
<1> QED
  BY <1>1, <1>2 DEF Nil, Error, TextErrorStatus, AuditErrorStatus, IsServiceUnavailable, StatusCode

\* A handler whose client waits has the answer of the upstream, and nothing else, to go by.
LEMMA HandlerPreserves ==
  ASSUME Forthcoming, IInv, PreservedInv, NEW r \in Request, Handler(r), Waits(r)
  PROVE  call[r] # Wire /\ (call[r].code = 503 => response'[r].status = 503)
<1>1. \A decodes : CallErrors(r, decodes) = IF call[r] \in {Unsent, Wire} THEN {} ELSE {Do(call[r], decodes)}
  BY DEF Forthcoming, Waits, CallErrors, CallContextDone
<1>2. pc[r] \notin {"lookup", "extract"} /\ response \in [Request -> [status : Nat, text : Contents]]
  BY DEF IInv, TypeOK, RequestInv, HandlerInv, Waits, Mutations
<1>3. MutationSucceeds(r) \/ FindSucceeds(r) \/ TextFails(r) \/ ListEnds(r)
  BY <1>2 DEF Handler, LookupHits, LookupFails, ExtractSucceeds, ExtractFails
<1>4. \E decodes : CallErrors(r, decodes) # {}
  BY <1>3 DEF MutationSucceeds, FindSucceeds, TextFails, ListEnds
<1>5. call[r] \notin {Unsent, Wire} /\ \A decodes : CallErrors(r, decodes) = {Do(call[r], decodes)}
  BY <1>1, <1>4
<1>6. ASSUME call[r].code = 503
      PROVE  response'[r].status = 503
  <2>1. ASSUME NEW decodes, NEW err \in CallErrors(r, decodes)
        PROVE  err # Nil /\ TextErrorStatus(err) = 503 /\ AuditErrorStatus(err) = 503
    <3>1. err = Do(call[r], decodes)
      BY <1>5, <2>1
    <3> QED
      BY <1>6, <3>1, UnavailableStatus DEF PreservedInv
  <2>2. ~MutationSucceeds(r) /\ ~FindSucceeds(r)
    <3>1. \A decodes : Nil \notin CallErrors(r, decodes)
      BY <2>1
    <3>2. MutationSucceeds(r) => Nil \in CallErrors(r, Decodes(pc[r]))
      BY Zenon DEF MutationSucceeds
    <3>3. FindSucceeds(r) => Nil \in CallErrors(r, TRUE)
      BY Zenon DEF FindSucceeds
    <3> QED
      BY <3>1, <3>2, <3>3, Zenon
  <2>3. TextFails(r) \/ ListEnds(r) => Answer(r, 503, Absent)
    <3>1. CASE TextFails(r)
      <4>1. PICK err \in CallErrors(r, Decodes(pc[r])) : Answer(r, TextErrorStatus(err), Absent)
        BY <3>1, Zenon DEF TextFails
      <4>2. TextErrorStatus(err) = 503
        BY <2>1, Zenon
      <4> QED
        BY <4>1, <4>2, Zenon
    <3>2. CASE ListEnds(r)
      <4>1. PICK err \in CallErrors(r, TRUE) :
              Answer(r, IF err = Nil THEN 200 ELSE AuditErrorStatus(err), Absent)
        BY <3>2, Zenon DEF ListEnds
      <4>2. err # Nil /\ AuditErrorStatus(err) = 503
        BY <2>1, Zenon
      <4> QED
        BY <4>1, <4>2
    <3> QED
      BY <3>1, <3>2
  <2>4. Answer(r, 503, Absent)
    BY <1>3, <2>2, <2>3
  <2> QED
    BY <1>2, <2>4 DEF Answer, Response
<1> QED
  BY <1>5, <1>6

LEMMA StepPreserved ==
  ASSUME Forthcoming, IInv, IInv', PreservedInv, [Next]_vars
  PROVE  PreservedInv'
<1>1. CASE UNCHANGED vars
  BY <1>1 DEF vars, PreservedInv, Waits, OpOf
<1>2. Unambiguous(Unsent) /\ Unambiguous(Wire) /\ Unsent.code # 503 /\ Wire.code # 503
  BY UnansweredCode DEF Unambiguous
<1>3. ASSUME NEW r \in Request, Reject(r) \/ Start(r) \/ LookupFails(r) \/ Resend(r)
      PROVE  PreservedInv'
  <2>1. /\ \A q \in Request \ {r} : want'[q] = want[q] /\ pc'[q] = pc[q] /\ call'[q] = call[q] /\ response'[q] = response[q]
        /\ call'[r] \in {Unsent, Wire} /\ UNCHANGED gone
        /\ pc'[r] # "answered" \/ call'[r] = Unsent
    <3> USE DEF IInv, TypeOK, RequestInv, HandlerInv
    <3>1. CASE Reject(r)
      BY <3>1 DEF Reject, Asks, Answer
    <3>2. CASE Start(r)
      BY <3>2, OperationsAssumption DEF Start, Asks
    <3>3. CASE LookupFails(r)
      BY <3>3 DEF LookupFails
    <3>4. CASE Resend(r)
      BY <3>4 DEF Resend
    <3> QED
      BY <1>3, <3>1, <3>2, <3>3, <3>4
  <2> QED
    BY <1>2, <2>1, SameUpstream DEF PreservedInv, Waits, OpOf
<1>4. ASSUME NEW r \in Request, Handler(r), ~LookupFails(r)
      PROVE  PreservedInv'
  <2>1. PICK status \in Nat, text \in Contents : Ends(r, status, text)
    BY <1>4, HandlerAnswers DEF EndsAudited, EndsQuietly
  <2>2. /\ \A q \in Request \ {r} : pc'[q] = pc[q] /\ response'[q] = response[q]
        /\ UNCHANGED <<want, call, gone>>
    BY <2>1 DEF Ends, Answer, IInv, TypeOK
  <2>3. Waits(r) => call[r] # Wire /\ (call[r].code = 503 => response'[r].status = 503)
    BY <1>4, HandlerPreserves
  <2> QED
    BY <2>2, <2>3 DEF PreservedInv, Waits, OpOf
<1>5. ASSUME NEW r \in Request, Upstreams(r)
      PROVE  PreservedInv'
  <2>1. PICK reply : call' = [call EXCEPT ![r] = reply] /\ Unambiguous(reply)
    <3>1. \A body, value : \A code \in {200, 201, 404, 409} : Unambiguous(Reply(code, body, value))
      BY DEF Reply, Unambiguous
    <3>2. CASE Refuses(r)
      <4>1. PICK reply \in Refusals : Replies(r, reply)
        BY <3>2 DEF Refuses
      <4>2. Unambiguous(reply)
        BY DEF Forthcoming
      <4> QED
        BY <4>1, <4>2 DEF Replies
    <3>3. CASE ~Refuses(r)
      BY <1>5, <3>1, <3>3 DEF Upstreams, Stores, Updates, Deletes, Reads, Extracts, Lists, Conflicts, Misses, Replies
    <3> QED
      BY <3>2, <3>3
  <2>2. call[r] = Wire /\ UNCHANGED <<want, pc, response, gone>>
    BY <1>5 DEF Upstreams
  <2>3. call'[r] = reply /\ \A q \in Request \ {r} : call'[q] = call[q]
    BY <2>1 DEF IInv, TypeOK
  <2> QED
    BY <2>1, <2>2, <2>3 DEF PreservedInv, Waits, OpOf
<1>6. ASSUME NEW r \in Request, Disconnect(r) \/ Emits(r)
      PROVE  PreservedInv'
  BY <1>6 DEF Disconnect, Emits, PreservedInv, Waits, OpOf
<1> QED
  BY <1>1, <1>3, <1>4, <1>5, <1>6 DEF Next

\* Then the status 503 is preserved, as the comment in problem.go says.  What breaks it is a
\* body whose JSON carries no status, or another one.
THEOREM UnavailablePreserved == Forthcoming => (Spec => []UnavailableIsPreserved)
<1> SUFFICES ASSUME Forthcoming PROVE Spec => []UnavailableIsPreserved
  OBVIOUS
<1>1. Init => PreservedInv
  BY UnansweredCode DEF Init, PreservedInv, Unambiguous
<1>2. IInv /\ IInv' /\ PreservedInv /\ [Next]_vars => PreservedInv'
  BY StepPreserved
<1>3. PreservedInv => UnavailableIsPreserved
  BY DEF PreservedInv, UnavailableIsPreserved, Waits
<1> QED
  BY <1>1, <1>2, <1>3, Inductive, PTL DEF Spec
=============================================================================
