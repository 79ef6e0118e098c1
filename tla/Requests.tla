------------------------------ MODULE Requests ------------------------------
(***************************************************************************)
(* The requests the orchestrator serves (internal/handlers over            *)
(* internal/services), with the services they call: Persistence, which     *)
(* stores one text per checksum, Extract, and AuditService with its AUDA.  *)
(* Handlers run concurrently, one goroutine per request; each makes one    *)
(* upstream call at a time within its own budget.  A call that was given   *)
(* up stays on the wire, where the upstream may still execute it.          *)
(***************************************************************************)
EXTENDS Upstream, Validation, FiniteSets

CONSTANTS
  Request,
  Sum,           \* checksums
  Texts,         \* texts a client may POST
  Blank,         \* a text without anything but white space
  Absent,        \* no text is stored
  PDFTexts,      \* the texts a PDF may hold, as Extract finds them
  Operations,    \* the operations clients ask for
  Refusals,      \* how an upstream may answer without executing a call
  OkBodies,      \* the bodies of a 2xx answer: "value", or also "opaque" (truncated, not JSON)
  Resends,       \* how many times a proxy may send one call again, losing its first answer
  AudaReplies,
  Lossy          \* upstreams may fail to answer within the budget

ASSUME RequestAssumption == IsFiniteSet(Request)
ASSUME PDFTextsAssumption == PDFTexts \subseteq Texts \cup {Blank}
ASSUME AbsentAssumption == Absent \notin Texts \cup {Blank}
ASSUME OperationsAssumption ==
  Operations \subseteq {"extract", "create", "find", "update", "delete", "list"}

\* What the HTTP client may hand over: a three-digit status, no 1xx but 101, as
\* net/http's transport takes the informational answers itself.
Contents == Texts \cup {Blank, Absent}
Answers  == [code : {101} \cup 200..999, body : {"value", "problem", "json", "opaque"},
             status : Int, value : Contents]

ASSUME RefusalsAssumption == \A reply \in Refusals : reply \in Answers /\ ~IsSuccess(reply.code)
ASSUME BodiesAssumption == "value" \in OkBodies /\ OkBodies \subseteq {"value", "opaque"}
ASSUME ResendsAssumption == Resends \in Nat

\* A document whose status reads as a success makes the handler acknowledge what was
\* refused.  Where calls are repeated, the work of the first execution may be behind it.
Honest(reply) == reply.body = "problem" => ~IsSuccess(WriteProblem(reply.status))

ASSUME HonestyAssumption == Resends > 0 => \A reply \in Refusals : Honest(reply)

VARIABLES
  want,       \* [Request -> the operation, the checksum, and the text in the body or the PDF]
  pc,         \* [Request -> where its handler is]
  call,       \* [Request -> its current upstream call: Unsent, Wire or the answer]
  resent,     \* [Request -> times the proxy sent that call again]
  effect,     \* [Request -> times an upstream did what the request asks for]
  response,   \* [Request -> the status (0: none yet) and text the handler wrote]
  gone,       \* the requests whose client went away: their context is cancelled
  store       \* [Sum -> text or Absent]: the content of Persistence

VARIABLES emission, post, wg, waiter, closer, owed      \* of AuditService

Audit == INSTANCE AuditService WITH
           Event <- Request,
           deadline <- FALSE,
           requestDone <- [r \in Request |-> pc[r] = "answered" \/ r \in gone]

auditVars == <<emission, post, wg, waiter, closer, owed>>
vars == <<want, pc, call, resent, effect, response, gone, store, auditVars>>

Mutations == {"create", "update", "delete"}
Idle      == [op |-> "none", sum |-> "none", text |-> Absent]
Response(status, text) == [status |-> status, text |-> text]
OpOf(r)   == want[r].op

Init ==
  /\ want = [r \in Request |-> Idle]
  /\ pc = [r \in Request |-> "idle"]
  /\ call = [r \in Request |-> Unsent]
  /\ resent = [r \in Request |-> 0]
  /\ effect = [r \in Request |-> 0]
  /\ response = [r \in Request |-> Response(0, Absent)]
  /\ gone = {}
  /\ store = [s \in Sum |-> Absent]
  /\ Audit!Init
-----------------------------------------------------------------------------
(* Steps of a handler *)

Answer(r, status, text) ==
  /\ pc' = [pc EXCEPT ![r] = "answered"]
  /\ response' = [response EXCEPT ![r] = Response(status, text)]

\* What is rejected before any upstream call: the media type (enforceContentType),
\* the size and the reading of the body (readLimitedBody), the validations of the
\* PDF (PreExtract), invalid JSON, immutable fields and empty checksums (text
\* handler and service), and a malformed skip or limit (audit handler).
ContentTypeStatus == {415}
BodyStatuses      == {400, 413}
PreExtractStatus  ==
  {StatusOf[err] : err \in {PreExtract(doc, max) : doc \in Document, max \in PageLimits} \ {Passed}}
TextStatus        == {400}
QueryStatus       == {400}

Rejections(op) ==
  CASE op = "extract"              -> ContentTypeStatus \cup BodyStatuses \cup PreExtractStatus
    [] op \in {"create", "update"} -> ContentTypeStatus \cup BodyStatuses \cup TextStatus
    [] op = "list"                 -> QueryStatus
    [] op \in {"find", "delete"}   -> {}

Asks(r, op, sum, text) == want' = [want EXCEPT ![r] = [op |-> op, sum |-> sum, text |-> text]]

Reject(r) ==
  /\ pc[r] = "idle"
  /\ \E op \in Operations, sum \in Sum :
       /\ Asks(r, op, sum, Absent)
       /\ \E status \in Rejections(op) : Answer(r, status, Absent)
  /\ UNCHANGED <<call, resent, effect, gone, store, auditVars>>

\* The text a request brings along: any, or that of the PDF, which its checksum fixes.
Carried(op, sum) ==
  CASE op = "create"  -> Texts
    [] op = "extract" -> {text \in PDFTexts : \A q \in Request :
                            OpOf(q) = "extract" /\ want[q].sum = sum => want[q].text \in {text, Absent}}
    [] OTHER          -> {Absent}

\* The request passes its validations (PreExtract returns nil) and the first upstream call is sent: the
\* dedup lookup of an extraction, or the one call of the other operations.
Start(r) ==
  /\ pc[r] = "idle"
  /\ \E op \in Operations, sum \in Sum :
       /\ \E text \in Carried(op, sum) : Asks(r, op, sum, text)
       /\ pc' = [pc EXCEPT ![r] = IF op = "extract" THEN "lookup" ELSE op]
  /\ call' = [call EXCEPT ![r] = Wire]
  /\ UNCHANGED <<resent, effect, response, gone, store, auditVars>>

\* Mutant: the client has no budget.
CallUnbounded(r) == r \in gone

\* The context of a call is done when its budget is spent or the client left.
CallContextDone(r) == Lossy \/ r \in gone

\* The errors client.Do may return now.
CallErrors(r, decodes) ==
  (IF call[r] \in {Unsent, Wire} THEN {} ELSE {Do(call[r], decodes)})
    \cup (IF CallContextDone(r) THEN {Transport} ELSE {})

\* Mutant: a dedup hit is audited as an extraction.
LookupHitsAudited(r) ==
  /\ pc[r] = "lookup"
  /\ Nil \in CallErrors(r, TRUE)
  /\ Answer(r, 200, call[r].value) /\ Audit!LogAsync(r)
  /\ UNCHANGED <<want, call, resent, effect, gone, store>>

LookupHits(r) ==
  /\ pc[r] = "lookup"
  /\ Nil \in CallErrors(r, TRUE)
  /\ Answer(r, 200, call[r].value)
  /\ UNCHANGED <<want, call, resent, effect, gone, store, auditVars>>

\* Mutant: only a 404 is a miss, any other failure is answered.
LookupFailsClosed(r) ==
  /\ pc[r] = "lookup"
  /\ \E err \in CallErrors(r, TRUE) \ {Nil} :
       IF IsNotFound(err)
       THEN pc' = [pc EXCEPT ![r] = "extract"] /\ call' = [call EXCEPT ![r] = Wire] /\ UNCHANGED response
       ELSE Answer(r, PDFErrorStatus(err), Absent) /\ UNCHANGED call
  /\ UNCHANGED <<want, resent, effect, gone, store, auditVars>>

\* A miss, and every other failure of the lookup (fail-open): Extract is called.
\* With a cancelled context the call fails before anything is sent.
LookupFails(r) ==
  /\ pc[r] = "lookup"
  /\ CallErrors(r, TRUE) \ {Nil} # {}
  /\ pc' = [pc EXCEPT ![r] = "extract"]
  /\ call' = [call EXCEPT ![r] = IF r \in gone THEN Unsent ELSE Wire]
  /\ resent' = [resent EXCEPT ![r] = 0]
  /\ UNCHANGED <<want, effect, response, gone, store, auditVars>>

\* A scanned PDF comes back without text.
ValidateExtracted(content) == IF content = Blank THEN "ErrNoExtractableText" ELSE Passed

ExtractSucceeds(r) ==
  /\ pc[r] = "extract"
  /\ Nil \in CallErrors(r, TRUE)
  /\ LET err == ValidateExtracted(call[r].value) IN
     IF err # Passed
     THEN Answer(r, StatusOf[err], Absent) /\ UNCHANGED auditVars
     ELSE Answer(r, 200, call[r].value) /\ Audit!LogAsync(r)
  /\ UNCHANGED <<want, call, resent, effect, gone, store>>

ExtractFails(r) ==
  /\ pc[r] = "extract"
  /\ \E err \in CallErrors(r, TRUE) \ {Nil} : Answer(r, PDFErrorStatus(err), Absent)
  /\ UNCHANGED <<want, call, resent, effect, gone, store, auditVars>>

\* Create and Delete do not decode the answer, the others do.
Decodes(op) == op \in {"update", "find", "list"}

\* Mutants: the event is scheduled before the error is looked at; a delete has none.
MutationAuditedFirst(r) ==
  /\ pc[r] \in Mutations
  /\ \E err \in CallErrors(r, Decodes(pc[r])) :
       Answer(r, IF err = Nil THEN 200 ELSE TextErrorStatus(err), Absent)
  /\ Audit!LogAsync(r)
  /\ UNCHANGED <<want, call, resent, effect, gone, store>>

MutationDeleteSilent(r) ==
  /\ pc[r] \in Mutations
  /\ Nil \in CallErrors(r, Decodes(pc[r]))
  /\ Answer(r, 200, Absent)
  /\ IF pc[r] = "delete" THEN UNCHANGED auditVars ELSE Audit!LogAsync(r)
  /\ UNCHANGED <<want, call, resent, effect, gone, store>>

MutationSucceeds(r) ==
  /\ pc[r] \in Mutations
  /\ Nil \in CallErrors(r, Decodes(pc[r]))
  /\ Answer(r, IF pc[r] = "create" THEN 201 ELSE 200,
               IF pc[r] = "update" THEN call[r].value ELSE Absent)
  /\ Audit!LogAsync(r)
  /\ UNCHANGED <<want, call, resent, effect, gone, store>>

FindSucceeds(r) ==
  /\ pc[r] = "find"
  /\ Nil \in CallErrors(r, TRUE)
  /\ Answer(r, 200, call[r].value)
  /\ UNCHANGED <<want, call, resent, effect, gone, store, auditVars>>

TextFails(r) ==
  /\ pc[r] \in Mutations \cup {"find"}
  /\ \E err \in CallErrors(r, Decodes(pc[r])) \ {Nil} : Answer(r, TextErrorStatus(err), Absent)
  /\ UNCHANGED <<want, call, resent, effect, gone, store, auditVars>>

\* GET /audit/logs asks AUDA; FetchLogs has no other effect.
ListEnds(r) ==
  /\ pc[r] = "list"
  /\ \E err \in CallErrors(r, TRUE) :
       Answer(r, IF err = Nil THEN 200 ELSE AuditErrorStatus(err), Absent)
  /\ UNCHANGED <<want, call, resent, effect, gone, store, auditVars>>

Handler(r) ==
  \/ LookupHits(r) \/ LookupFails(r) \/ ExtractSucceeds(r) \/ ExtractFails(r)
  \/ MutationSucceeds(r) \/ FindSucceeds(r) \/ TextFails(r) \/ ListEnds(r)
-----------------------------------------------------------------------------
(* The upstreams: the call on the wire is executed and answered, perhaps    *)
(* after the handler has given up on it.                                    *)

Replies(r, reply) == call' = [call EXCEPT ![r] = reply]

Done(r) == effect' = [effect EXCEPT ![r] = @ + 1]

\* The service that holds the call, for a handler that still waits or not.
AtExtract(r) == want[r].op = "extract" /\ pc[r] # "lookup"

Stores(r) ==
  /\ want[r].op = "create" /\ store[want[r].sum] = Absent
  /\ \E body \in OkBodies : Replies(r, Reply(201, body, Absent))
  /\ store' = [store EXCEPT ![want[r].sum] = want[r].text]
  /\ Done(r)

Updates(r) ==
  /\ want[r].op = "update" /\ store[want[r].sum] # Absent
  /\ \E body \in OkBodies : Replies(r, Reply(200, body, store[want[r].sum]))
  /\ Done(r) /\ UNCHANGED store

Deletes(r) ==
  /\ want[r].op = "delete" /\ store[want[r].sum] # Absent
  /\ \E body \in OkBodies : Replies(r, Reply(200, body, Absent))
  /\ store' = [store EXCEPT ![want[r].sum] = Absent]
  /\ Done(r)

Reads(r) ==
  /\ want[r].op = "find" \/ pc[r] = "lookup"
  /\ store[want[r].sum] # Absent
  /\ \E body \in OkBodies : Replies(r, Reply(200, body, store[want[r].sum]))
  /\ UNCHANGED <<effect, store>>

Extracts(r) ==
  /\ AtExtract(r)
  /\ \E body \in OkBodies : Replies(r, Reply(200, body, want[r].text))
  /\ Done(r) /\ UNCHANGED store

Lists(r) ==
  /\ want[r].op = "list"
  /\ \E body \in OkBodies : Replies(r, Reply(200, body, Absent))
  /\ UNCHANGED <<effect, store>>

Conflicts(r) ==
  /\ want[r].op = "create" /\ store[want[r].sum] # Absent
  /\ Replies(r, Reply(409, "problem", Absent))
  /\ UNCHANGED <<effect, store>>

Misses(r) ==
  /\ want[r].op \notin {"create", "list"} /\ ~AtExtract(r) /\ store[want[r].sum] = Absent
  /\ Replies(r, Reply(404, "problem", Absent))
  /\ UNCHANGED <<effect, store>>

Refuses(r) ==
  /\ \E reply \in Refusals : Replies(r, reply)
  /\ UNCHANGED <<effect, store>>

Upstreams(r) ==
  /\ call[r] = Wire
  /\ \/ Stores(r) \/ Updates(r) \/ Deletes(r) \/ Reads(r) \/ Extracts(r)
     \/ Lists(r) \/ Conflicts(r) \/ Misses(r) \/ Refuses(r)
  /\ UNCHANGED <<want, pc, resent, response, gone, auditVars>>

\* The answer never reaches the proxy in front of the upstream, which sends the
\* call again: retries are the proxy's business, the client makes one attempt.
Resend(r) ==
  /\ call[r] \notin {Unsent, Wire} /\ pc[r] # "answered"
  /\ resent[r] < Resends
  /\ resent' = [resent EXCEPT ![r] = @ + 1]
  /\ call' = [call EXCEPT ![r] = Wire]
  /\ UNCHANGED <<want, pc, effect, response, gone, store, auditVars>>

Disconnect(r) ==
  /\ pc[r] \notin {"idle", "answered"} /\ r \notin gone
  /\ gone' = gone \cup {r}
  /\ UNCHANGED <<want, pc, call, resent, effect, response, store, auditVars>>

Emits(r) ==
  /\ Audit!Goroutine(r) \/ Audit!Auda(r)
  /\ UNCHANGED <<want, pc, call, resent, effect, response, gone, store>>

Next == \E r \in Request :
  Reject(r) \/ Start(r) \/ Handler(r) \/ Upstreams(r) \/ Resend(r) \/ Disconnect(r) \/ Emits(r)

\* Handlers and emissions are goroutines, their budgets expire; an upstream that
\* is not Lossy answers.
Fairness == \A r \in Request :
  /\ WF_vars(Handler(r))
  /\ WF_vars(Emits(r) /\ Audit!Goroutine(r))
  /\ ~Lossy => WF_vars(Upstreams(r)) /\ WF_vars(Emits(r) /\ Audit!Auda(r))

Spec == Init /\ [][Next]_vars /\ Fairness
-----------------------------------------------------------------------------
TypeOK ==
  /\ want \in [Request -> {Idle} \cup
       [op : Operations, sum : Sum, text : Contents]]
  /\ pc \in [Request -> Mutations \cup {"idle", "lookup", "extract", "find", "list", "answered"}]
  /\ call \in [Request -> {Unsent, Wire} \cup Answers]
  /\ resent \in [Request -> 0..Resends]
  /\ effect \in [Request -> Nat]
  /\ response \in [Request -> [status : Nat, text : Contents]]
  /\ gone \subseteq Request
  /\ store \in [Sum -> Contents]
  /\ Audit!TypeOK

Succeeded(r) == IsSuccess(response[r].status)
Denied(r)    == response[r].status \in 400..499

\* The effect an audit event stands for; an extraction without text is none.
Worked(r) == effect[r] > 0 /\ (OpOf(r) = "extract" => want[r].text # Blank)

\* No audit event tells of something that did not happen, and every request that
\* was answered with success after doing work has its event scheduled.  A dedup
\* hit answers without work and without an event (pdf_service_test.go:145).
AuditMatchesWork == \A r \in Request :
  /\ r \in Audit!Scheduled => Worked(r) /\ Succeeded(r)
  /\ Succeeded(r) /\ Worked(r) => r \in Audit!Scheduled

\* A request denied with a 4xx did nothing, and no call of it is left on the
\* wire that could still do it: only 5xx answers, and a call the proxy sent
\* twice, leave the outcome open.
Refused(r) == Denied(r) /\ resent[r] = 0
DeniedDidNothing == \A r \in Request :
  Refused(r) => ~Worked(r) /\ call[r] # Wire

\* Once nothing is pending and nobody was left without a definite answer, the
\* recorded audit events explain what Persistence holds for a checksum.
OnSum(s, op) == {r \in Request : want[r].sum = s /\ OpOf(r) = op}
Definite(s) == \A r \in Request : want[r].sum = s =>
  /\ Succeeded(r) \/ Denied(r)
  /\ r \in Audit!Scheduled => r \in Audit!Recorded
TrailExplainsStore == \A s \in Sum : Definite(s) =>
  (store[s] # Absent) <=> (Cardinality(OnSum(s, "create") \cap Audit!Recorded)
                             > Cardinality(OnSum(s, "delete") \cap Audit!Recorded))

\* The dedup lookup never decides a request except by a hit: whatever Persistence
\* answers, or does not, the extraction goes on (pdf_service.go:84-86).
LookupIsFailOpen == [][\A r \in Request :
  pc[r] = "lookup" /\ pc'[r] = "answered" => response'[r].status = 200]_vars

\* Every request is answered, even if no upstream ever is heard of.
EveryRequestAnswered == \A r \in Request : (pc[r] # "idle") ~> (pc[r] = "answered")

\* With upstreams that answer in time, work acknowledged to the client reaches the
\* audit log, also when the client has gone or the handler has returned.
AcknowledgedIsRecorded == \A r \in Request :
  (Succeeded(r) /\ Worked(r)) ~> (r \in Audit!Recorded)
-----------------------------------------------------------------------------
(* What the docs say and the code does not do.                             *)

\* README.md:185: a PDF that was already extracted is answered from the dedup
\* cache, without calling Extract.  No extraction is ever stored (lines 59-81).
SecondUploadIsAHit == \A r, q \in Request :
  [](OpOf(r) = "extract" /\ Succeeded(r) /\ pc[q] = "idle"
       => [](OpOf(q) = "extract" /\ want[q].sum = want[r].sum => effect[q] = 0))

\* problem.go:42-44: callers preserve the upstream's status.  A JSON body without
\* "status" makes an upstream 503 a Problem with status 0, which ends as a 500; one
\* with another status is answered with that.
UnavailableIsPreserved == \A r \in Request :
  OpOf(r) \in Mutations \cup {"find", "list"} /\ pc[r] = "answered" /\ r \notin gone
    /\ call[r].code = 503 => response[r].status = 503
-----------------------------------------------------------------------------
State(r) ==
  IF pc[r] = "idle" THEN "idle"
  ELSE IF pc[r] # "answered" THEN "open"
  ELSE IF Succeeded(r) THEN "acked"
  ELSE IF Refused(r) THEN "denied" ELSE "unsure"

Record(r) ==
  IF emission[r] = "none" THEN "none"
  ELSE IF emission[r] \in Audit!InFlight THEN "due" ELSE "settled"

Audited == INSTANCE AuditedOperation WITH
             state <- [r \in Request |-> State(r)],
             work <- [r \in Request |-> Worked(r)],
             record <- [r \in Request |-> Record(r)],
             trail <- Audit!Recorded

\* Every request keeps the promise of AuditedOperation.
KeepsAuditPromise == Audited!Spec
=============================================================================
