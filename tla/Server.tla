------------------------------- MODULE Server -------------------------------
(***************************************************************************)
(* One request through the middleware of internal/server, from the request *)
(* log inwards: withRequestLog puts a statusRecorder around the writer     *)
(* (but not for the probes), withRecovery turns a panic into a 500,        *)
(* withCORS answers a preflight, enforceContentType rejects a media type,  *)
(* and the handler answers once, through WriteJSON or WriteProblem.        *)
(* GET /readyz runs a check of Health.  Requests share nothing here, so    *)
(* one of them is modelled; what net/http does with a status is external.  *)
(***************************************************************************)
EXTENDS Upstream, Integers, FiniteSets

CONSTANTS
  Statuses,        \* what handlers of the API pass to WriteHeader
  Service,
  HealthReplies

ASSUME StatusesAssumption == Statuses \subseteq Nat
ASSUME ServiceAssumption == IsFiniteSet(Service)
ASSUME HealthRepliesAssumption == Unsent \notin HealthReplies /\ Wire \notin HealthReplies

VARIABLES
  pc,          \* where the request is, see TypeOK
  kind,        \* the route, see TypeOK
  recorded,    \* statusRecorder.status, 0 until something is written
  sent,        \* the status line net/http has sent, 0 for none
  documents,   \* JSON documents written into the body
  logged,      \* the status of its line in the request log, 0 for none
  declared,    \* history: the status the handler gave, 0 for none
  crashed      \* history: the handler itself panicked

VARIABLES check, probe, answer, pending, report      \* of Health

Readiness == INSTANCE Health

responseVars == <<recorded, sent, documents, declared>>
healthVars   == <<check, probe, answer, pending, report>>
vars == <<pc, kind, responseVars, logged, crashed, healthVars>>

Probes == {"healthz", "readyz"}
Kinds  == Probes \cup {"api", "mistyped", "unmatched", "preflight"}

Init ==
  /\ pc = "idle" /\ kind = "none"
  /\ recorded = 0 /\ sent = 0 /\ documents = 0 /\ declared = 0
  /\ logged = 0 /\ crashed = FALSE
  /\ Readiness!Init
-----------------------------------------------------------------------------
(* The writer: statusRecorder over net/http                                *)

\* isHealthRequest: probes get no recorder and no log line.
HasRecorder == kind \notin Probes

\* writtenStatus looks for a recorder; net/http's own writer tells nothing.
WrittenStatus == IF HasRecorder THEN recorded ELSE 0

\* Mutant: the recorder notes the status and does not pass it on.
WriteHeaderKept(status) ==
  /\ declared' = status
  /\ recorded' = IF HasRecorder THEN status ELSE recorded
  /\ sent' = IF IsFinal(status) /\ ~HasRecorder THEN status ELSE sent
  /\ pc' = IF status \in 100..999 THEN "body" ELSE "panicking"

\* The status is noted first and passed on then; net/http panics on one outside
\* 100..999 and takes 1xx, but for 101, as informational.
WriteHeader(status) ==
  /\ declared' = status
  /\ recorded' = IF HasRecorder THEN status ELSE recorded
  /\ sent' = IF IsFinal(status) THEN status ELSE sent
  /\ pc' = IF status \in 100..999 THEN "body" ELSE "panicking"

\* The first byte of a body sends an implicit 200 if no final status was sent.
Implicit == IF sent = 0 THEN 200 ELSE sent
-----------------------------------------------------------------------------
(* The chain, inwards                                                      *)

Arrive ==
  /\ pc = "idle"
  /\ kind' \in Kinds
  /\ pc' = "handler"
  /\ UNCHANGED <<responseVars, logged, crashed, healthVars>>

\* withCORS: an OPTIONS that asks for a method is answered without a body.
Preflight ==
  /\ pc = "handler" /\ kind = "preflight"
  /\ recorded' = 204 /\ sent' = 204 /\ declared' = 204
  /\ pc' = "returned"
  /\ UNCHANGED <<kind, documents, logged, crashed, healthVars>>

\* The statuses a route may answer with.
Declares ==
  CASE kind = "healthz"   -> {200}
    [] kind = "mistyped"  -> {415}
    [] kind = "unmatched" -> {404, 405}
    [] kind = "api"       -> Statuses
    [] OTHER              -> {}

Handle ==
  /\ pc = "handler"
  /\ \E status \in Declares : WriteHeader(status)
  /\ UNCHANGED <<kind, documents, logged, crashed, healthVars>>

StartCheck ==
  /\ pc = "handler" /\ kind = "readyz"
  /\ Readiness!Start
  /\ pc' = "checking"
  /\ UNCHANGED <<kind, responseVars, logged, crashed>>

Ready ==
  /\ pc = "checking" /\ check = "reported"
  /\ WriteHeader(IF report = "ok" THEN 200 ELSE 503)
  /\ UNCHANGED <<kind, documents, logged, crashed, healthVars>>

\* json.Encode writes the document.
Encode ==
  /\ pc = "body"
  /\ documents' = documents + 1 /\ sent' = Implicit
  /\ pc' = "written"
  /\ UNCHANGED <<kind, recorded, declared, logged, crashed, healthVars>>

Return ==
  /\ pc = "written"
  /\ pc' = "returned"
  /\ UNCHANGED <<kind, responseVars, logged, crashed, healthVars>>

\* A handler panics: before it answers or, in the API, at any later point.  The
\* handlers of the probes return right after their answer.
Crash ==
  /\ pc = "handler" \/ (pc \in {"body", "written"} /\ kind = "api")
  /\ pc' = "panicking" /\ crashed' = TRUE
  /\ UNCHANGED <<kind, responseVars, logged, healthVars>>
-----------------------------------------------------------------------------
(* The chain, outwards                                                     *)

\* Mutants: the recovery does not look at what was written; it wraps the
\* request log instead of being wrapped by it.
RecoverAlways ==
  /\ pc = "panicking"
  /\ documents' = documents + 1
  /\ recorded' = IF HasRecorder /\ recorded = 0 THEN 500 ELSE recorded
  /\ sent' = IF sent = 0 THEN 500 ELSE sent
  /\ pc' = "returned"
  /\ UNCHANGED <<kind, declared, logged, crashed, healthVars>>

RecoverOutside ==
  /\ pc = "panicking"
  /\ pc' = "logged"
  /\ IF WrittenStatus # 0
     THEN UNCHANGED responseVars
     ELSE /\ recorded' = IF HasRecorder THEN 500 ELSE recorded
          /\ sent' = 500 /\ documents' = documents + 1 /\ UNCHANGED declared
  /\ UNCHANGED <<kind, logged, crashed, healthVars>>

\* withRecovery: a response that has begun, as far as the recorder knows, is
\* left alone; otherwise a problem document with status 500 is written.
Recover ==
  /\ pc = "panicking"
  /\ pc' = "returned"
  /\ IF WrittenStatus # 0
     THEN UNCHANGED responseVars
     ELSE /\ recorded' = IF HasRecorder THEN 500 ELSE recorded
          /\ sent' = IF sent = 0 THEN 500 ELSE sent
          /\ documents' = documents + 1
          /\ UNCHANGED declared
  /\ UNCHANGED <<kind, logged, crashed, healthVars>>

\* withRequestLog: one line, or none for a probe.
Log ==
  /\ pc = "returned"
  /\ pc' = "logged"
  /\ logged' = IF ~HasRecorder THEN 0 ELSE IF recorded = 0 THEN 200 ELSE recorded
  /\ UNCHANGED <<kind, responseVars, crashed, healthVars>>

\* net/http ends the response.
Finish ==
  /\ pc = "logged"
  /\ pc' = "done" /\ sent' = Implicit
  /\ UNCHANGED <<kind, recorded, documents, declared, logged, crashed, healthVars>>

Check ==
  /\ Readiness!Report \/ \E s \in Service : Readiness!Spawn(s) \/ Readiness!Settle(s)
  /\ UNCHANGED <<pc, kind, responseVars, logged, crashed>>

Dependency(s) ==
  /\ Readiness!Answers(s)
  /\ UNCHANGED <<pc, kind, responseVars, logged, crashed>>

Chain ==
  \/ Preflight \/ Handle \/ StartCheck \/ Ready \/ Encode \/ Return
  \/ Crash \/ Recover \/ Log \/ Finish

Next == Arrive \/ Chain \/ Check \/ \E s \in Service : Dependency(s)

\* The request's goroutine and the probes run; no dependency owes an answer.
Spec == Init /\ [][Next]_vars /\ WF_vars(Chain) /\ WF_vars(Check)
-----------------------------------------------------------------------------
TypeOK ==
  /\ pc \in {"idle", "handler", "checking", "body", "written", "panicking",
             "returned", "logged", "done"}
  /\ kind \in Kinds \cup {"none"}
  /\ recorded \in Nat /\ sent \in Nat /\ documents \in Nat
  /\ logged \in Nat /\ declared \in Nat
  /\ crashed \in BOOLEAN
  /\ Readiness!TypeOK

\* However a handler fails, the client never gets two documents in one body
\* (middleware.go:106-111).
OneDocument == documents <= 1

\* Every request but the probes leaves one line in the log, with the status the
\* client got, panics included (routes.go:24-27).  A status net/http does not
\* send as given is out of it, see PanicIs500.
LoggedAsSent ==
  pc = "done" /\ HasRecorder /\ (declared = 0 \/ IsFinal(declared)) => logged = sent

\* WriteProblem of Upstream, on which Requests rests, is what this chain makes of
\* a status, for every status a handler may pass on from an upstream.
WriteProblemIsExact == pc = "done" /\ ~crashed => sent = WriteProblem(declared)

\* /readyz answers 200 only if each dependency gave this very check a 2xx, and
\* 503 only if one failed, and either only once no probe is out any more.
ReadyTellsTruth == pc = "done" /\ kind = "readyz" =>
  /\ sent \in {200, 503} => \A s \in Service : probe[s] \in {"ok", "down"}
  /\ sent = 200 => \A s \in Service : probe[s] = "ok" /\ IsSuccess(answer[s].code)
  /\ sent = 503 => \E s \in Service : probe[s] = "down"

\* Every request ends, a readiness check included when all dependencies hang.
EveryRequestEnds == (pc = "handler") ~> (pc = "done")

\* middleware.go:85: withRecovery turns a panic into a 500.  The panic of net/http
\* on a status such as 1000 comes after the recorder noted it, so nothing is
\* written and the client gets an implicit 200.
PanicIs500 == [][pc = "panicking" /\ sent = 0 /\ pc' # pc => sent' = 500]_vars
=============================================================================
