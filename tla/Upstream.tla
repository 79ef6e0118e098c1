------------------------------ MODULE Upstream ------------------------------
(***************************************************************************)
(* How the answer of an upstream service becomes a Go error value          *)
(* (internal/httpclient) and how the handlers turn that error into the     *)
(* status the client sees (internal/handlers).                             *)
(*                                                                         *)
(* A reply is abstracted to its status code, the shape of its body, the    *)
(* status a problem document tells and the value it carries.  The shapes   *)
(* are the ones the code tells apart:                                      *)
(*   "value"    what the caller wants to decode                            *)
(*   "problem"  an RFC 9457 document, with a status of its own             *)
(*   "json"     a JSON object without "status", e.g. {"detail": "..."}     *)
(*   "opaque"   anything that is not a JSON object (plain text, truncated) *)
(***************************************************************************)
EXTENDS Integers

Reply(code, body, value) == [code |-> code, body |-> body, status |-> code, value |-> value]

\* Nothing ties the status a problem document tells, any integer, to the code of the reply.
Problem(code, status, value) == [Reply(code, "problem", value) EXCEPT !.status = status]

Unsent == Reply(0, "unsent", "")       \* no call yet
Wire   == Reply(0, "wire", "")         \* sent, not yet answered by the upstream

Error(kind, status) == [kind |-> kind, status |-> status]

Nil       == Error("nil", 0)
Transport == Error("transport", 0)      \* no answer: network error, deadline, cancelled context

IsSuccess(code) == code \in 200..299

\* ParseProblem accepts every JSON object and takes the status from it, so a body
\* without "status" gives a Problem whose status is 0; only an undecodable body
\* gives a StatusError, with the code of the reply.
ParseProblem(reply) ==
  IF reply.body = "opaque" THEN Error("status", reply.code)
  ELSE Error("problem", IF reply.body = "problem" THEN reply.status ELSE 0)

\* Client.Do once the answer is in; decodes tells whether the caller passed `out`.
Do(reply, decodes) ==
  IF ~IsSuccess(reply.code) THEN ParseProblem(reply)
  ELSE IF decodes /\ reply.body # "value" THEN Error("decode", 0)
  ELSE Nil

StatusCode(err)     == IF err.kind \in {"status", "problem"} THEN err.status ELSE 0
IsProblem(err, n)   == err.kind = "problem" /\ err.status = n
IsUnauthorized(err) == IsProblem(err, 401)
IsNotFound(err)     == IsProblem(err, 404)

IsServiceUnavailable(err) == StatusCode(err) = 503

\* The statuses net/http sends as they are given: 1xx, but for 101, is informational.
IsFinal(status) == status = 101 \/ status \in 200..999

\* What a client sees of a status a handler writes.  On 0 net/http panics and
\* withRecovery answers 500; on any other it does not send, the client is left
\* with an implicit 200 (Server shows why).
WriteProblem(status) ==
  IF status = 0 THEN 500 ELSE IF IsFinal(status) THEN status ELSE 200

PDFErrorStatus(err) ==
  IF IsServiceUnavailable(err) THEN 503 ELSE 502

\* Mutant: an upstream that did not answer is reported as the client's timeout.
TextErrorStatusAs408(err) ==
  IF IsServiceUnavailable(err) THEN 503
  ELSE IF IsUnauthorized(err) THEN 502
  ELSE IF err.kind # "problem" THEN 408
  ELSE WriteProblem(err.status)

TextErrorStatus(err) ==
  IF IsServiceUnavailable(err) THEN 503
  ELSE IF IsUnauthorized(err) \/ err.kind # "problem" THEN 502
  ELSE WriteProblem(err.status)

AuditErrorStatus(err) ==
  IF IsServiceUnavailable(err) THEN 503
  ELSE IF err.kind = "problem" THEN WriteProblem(err.status)
  ELSE 502
=============================================================================
