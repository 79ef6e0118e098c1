# A TLA+ model of the PDF orchestrator

The orchestrator (`cmd/orchestrator`, `internal/...`) is a stateless HTTP service
in front of three others: **Extract** (PDF to text), **Persistence** (one text
per checksum) and **Audit Log** (AUDA). It validates, routes, aggregates and
audits. What is hard about it is not in any one function: audit events are
emitted by goroutines that outlive their request; upstream calls are given up
while the upstream may still execute them; a stop has to deregister from
Consul, drain the HTTP server and drain the emissions within one deadline; and
every replica takes its configuration, even where it is registered, from a KV
store that changes between starts.
This directory models that, checks it with TLC and proves its safety with
TLAPS.

    tlc -config Lifecycle.cfg MCLifecycle      # one run; all are in PROJECT.json
    tlapm LifecycleProofs.tla                  # one proof module

`PROJECT.json` maps each definition to its source lines, each property to the
hazard it is aimed at and to a mutant of the code that breaks it.

## 1. Inventory

| Component | State it keeps | Operations | What is hard |
|---|---|---|---|
| **Audit emission** `services/audit_service.go`, `clients/auditlog` | a `sync.WaitGroup`, one goroutine per event | `LogAsync`, `emit`, `Close`, `FetchLogs` | events outlive their request; `Close` races with emissions, with its deadline and with handlers that still schedule |
| **Extraction** `services/pdf_service.go`, `handlers/pdf_handler.go` | none; the dedup "cache" is Persistence | `IngestAndExtract` = validate, look up, extract, audit | two calls with a budget each, the first fail-open |
| **Texts** `services/text_service.go`, `handlers/text_handler.go`, `clients/persistence` | none | create, find, update, delete | the store commits and the answer is lost |
| **Upstream client and errors** `httpclient`, `httpapi`, the handlers' `writeServiceError` | none | `Do`, `ParseProblem`, `StatusCode`, `Is*`, `WriteProblem` | three different error mappings; ambiguous failures; a document may contradict its reply |
| **Lifecycle** `cmd/orchestrator/main.go` | the registration flag, the shutdown context, the first error | load, register, listen, select, deregister, `Shutdown`, `Close`, deferred deregister | every step may fail or time out; two channels may be ready at once; the budget covers only part of a stop |
| **Consul agent** `consul/agent.go` | Consul's catalog (external) | register, deregister, reap | a failed request may have been applied; ids may be shared with other replicas; a crash deregisters nothing; a live instance may be reaped |
| **Middleware, routes, server** `internal/server` | the response recorder of a request | content type, request id, recovery, access log, timeouts | what is written after a panic; write timeout against two upstream budgets |
| **Readiness** `internal/health` | the results of one `Check` | parallel probes, aggregation | a probe that hangs; its timeout is related to no other |
| **Configuration** `internal/config`, `consul/kv.go` | none after the start | environment, KV request, overlay, parsing | precedence, blank entries included; Consul settings read twice; overflow of sizes |
| **PDF validation** `internal/validation` | none | an ordered chain of checks | order decides the status; pdfcpu is a library |
| **Logging, request context, checksums** | none | formatting, accessors | nothing a property needs |

How they meet: a handler calls a service, which calls clients (synchronous, one
goroutine per request) and `LogAsync` (asynchronous). `main` owns the audit
service and the server, and stops them in order. They share only the
WaitGroup, the contexts, and the external stores.

What makes each correct:

- *Audit emission*: the counter is exact on every path; `Close` returns nil only
  when what was in flight has ended; a hung AUDA leaks nothing; the end of a
  request cancels no emission.
- *Requests*: audit events and work done upstream agree; a 4xx means nothing was
  or will be done; the lookup never costs an extraction; every request is
  answered; what is acknowledged is recorded when AUDA answers.
- *Lifecycle*: exit status 0 has lost nothing; nothing schedules an event while
  `Close` waits; the instance is withdrawn before it drains, retried if that
  failed, never repeated if it succeeded; a signal always ends the process.
- *Middleware*: a panic never corrupts a response that has begun; every request but
  the probes is logged with the status the client got; /readyz never says ok
  about a dependency that did not answer, and never hangs with one.
- *Configuration*: no replica unlists another that does not share its id; one that
  withdrew has left nothing behind, and one that comes back replaces what it left,
  whatever the KV store says by then; a limit in force is one somebody wrote; a blank
  entry refuses the start; no start hangs.
- *Deadlines*: how long a stop takes at most, which budget makes it clean, and
  which answers the server's write timeout cannot cut off.

## 2. Modules

    Upstream           answers, errors and the handlers' error-to-status tables (pure)
      AuditService     emission and Close                       <- AuditServiceProofs
        Lifecycle      one process; INSTANCEs AuditService      <- LifecycleProofs
          |            and implements GracefulStop (abstract)
          Deadlines    Lifecycle on a clock; EXTENDS Int64      <- DeadlinesProofs
        Requests       concurrent requests; INSTANCEs AuditService
                       and implements AuditedOperation (abstract)
                                         <- RequestsProofs <- AuditPromiseProofs
    Validation         the checks of an upload (pure), used by Requests
    Health             one readiness check
      Server           one request through the middleware       <- ServerProofs
                       INSTANCEs Health
    Int64              integers of bounded width (pure)         <- Int64Proofs
      Config           settings, parsers, overlay, registration (pure)
        Replicas       several processes, one Consul            <- ReplicasProofs

**`Upstream`**. An answer is a record of a status code, what its body is
(`"value"` decodes, `"problem"` is a problem document, `"json"` is some JSON object
without a status, `"opaque"` is no JSON object), the status a problem document tells,
any integer whatever the reply's own (`Problem`), and a value. `Do`
maps it to the error `Client.Do` returns, and `PDFErrorStatus`,
`TextErrorStatus`, `AuditErrorStatus` to the status a client sees, through
`WriteProblem`, which says what a client really gets of a status a handler
writes. `Server` models that in detail and shows the summary exact: an
upstream's problem document without a status (0) ends as a 500.

**`AuditService`**. `LogAsync` is `wg.Add(1)` plus the `go` statement, `Post` and
`EmitReturns` are the goroutine, whose every end runs the deferred `wg.Done`.
`Close` starts the waiter goroutine; `CloseDrained` and `CloseExpired` are the
two cases of its `select`, either of which may be taken when both are ready.
`Auda` is the service's side of a post; it may happen after the goroutine gave
up. `Post` and `EmitContextDone` do not look at `requestDone`: that is
`context.WithoutCancel`. `owed` is a history variable, written only by `Close`.

**`Lifecycle`**. `LoadConfig` is everything before `runWithSignals`, which may
fail; what is loaded is the subject of `Replicas`. `main` is the program counter of `runWithSignals`, one value
per statement that blocks or changes state; `failed` is the error it will
return. The closure `deregister` is the operator `Deregister`, used by
`Withdraw` (before draining) and by `Exit` (the defer). `budget` is
`shutdownCtx`, shared by `srv.Shutdown` and by `Close` (the instance's
`deadline`). `listener = "quiet"` is a `Shutdown` that returned nil, `"shut"` one
that has closed the listener and is polling or has timed out: connections
accepted before may still begin a request then. Handlers only schedule or
return. The catalog follows Consul's real answer, not the one the process saw.

**`Requests`**. One handler per request, `pc` naming the call it waits for.
`call` is what is outside the process: still on the wire, or answered. Giving up
leaves it there, so the upstream may execute it later. `effect` counts how often
the upstream did the work asked for. `Resend` is the retrying proxy in front of
the upstreams: the comment at main.go:76 says retries are its business.
`Disconnect` cancels the request's context, which the upstream call inherits
and the audit emission does not. All six operations are modelled, with every
rejection before the first call as one action (`Reject`).

**`Health`** is `Checker.Check`: `Spawn` is one turn of its loop, `Settle` the end of
`checkOne` with the deferred `wg.Done`, `Report` the return of `wg.Wait` and
`aggregate`. `ProbeFails` may happen at any time: timeout, cancelled request,
unusable URL.

**`Server`** follows one request through withRequestLog, withRecovery, withCORS,
enforceContentType and its handler (`pc`), with three views of its status: what
the recorder noted (`recorded`), what net/http sent (`sent`) and what the log says
(`logged`). They differ after a panic, and for statuses net/http refuses. Every
handler of this repository answers exactly once, through `WriteJSON` or
`WriteProblem`; so a second `WriteHeader`, a bare `Write` and `Flush` on the recorder are left out.
A handler of the API may panic at any point, since that is what the recovery is
for; the probes' handlers only before they answer, since nothing follows the answer.

**`Deadlines`** conjoins a clock to `Lifecycle`: `Step` is any of its steps with
`InTime` (what the step may not do yet) and `Arms` (the timers of the waits it
enters). `left` holds a timer for the call to Consul, the shutdown budget, each
upload or upstream call and each emission; `Tick` needs every timer above zero
and nothing `Urgent`. `Lifecycle` does not tell a handler's waits apart; here `stage`
does. `Advance` takes it from its upload through its two upstream calls, `Probe` to the
probes of `/readyz`, which last up to `HEALTH_CHECK_TIMEOUT`, and `Respond` to the answer,
which a slow client may take until the write deadline. What the process computes between
its waits takes no time, and net/http's `Shutdown`, which polls at most twice a second,
sees at once that the last connection is idle: both are less than a tick.

**`Int64`** and **`Config`** are the parsers of `internal/config`, the overlay
of the KV store, the answers `LoadPrefix` accepts and `serviceRegistration`. A
setting is a record saying what its text is; a parser is a predicate, since which
setting was refused is only logged.

**`Replicas`** runs several processes, each from `Start` to `Exit` or `Crash`
and again, while `Edit` changes the KV store. `env` is fixed per container; `cfg`
is what the process loaded. `Start` reads the Consul settings from the
environment, `Fetch` takes the rest and the Consul settings again from the overlay:
everything later uses `cfg`. `catalog` lists entries by agent and id, as Consul
does; `owner` is a history field. `Reap` may drop any entry: Consul deregisters an
instance whose check stays critical for a minute, a live one too if it cannot reach it. What happens between signal and exit is two
steps here (`Stop`, then `Exit`); `Lifecycle` has the detail. Start failures may
also come from a CA file or from a Consul that answers an error (`FetchFails`). `Namesakes` are
the other replicas that register under one id at one agent, which `CONSUL_SERVICE_ADDRESS` in
the KV store makes of all; the run has that edit.

**`Validation`** is the chain of checks and the status of each failure: the first
check that fails decides. `Requests` rejects uploads with exactly its statuses.

**`GracefulStop`** and **`AuditedOperation`** say what the process and one
request promise, without Consul, HTTP, WaitGroup, budgets or errors. The
mappings are at the end of `Lifecycle` (`Stop`) and `Requests` (`Audited`).

Each module holds its mutants beside the definition they change, marked
`Mutant`; no action uses them.

## 3. Runs

| Run | Instance | Distinct states | Checks |
|---|---|---|---|
| `audit` | 2 events; AUDA answers 201, 401, 503, late or never | 13 258 | exact WaitGroup, `Close`'s promise, no leaked goroutine |
| `lifecycle` | 2 requests, with or without Consul, AUDA lossy | 69 946 | six safety and action properties of the stop, that a signal ends it, and `Stop!Spec`: the process implements `GracefulStop`, liveness included |
| `deadlines` | 1 request; every other timeout 1 or 2 ticks of 5 s, shutdown budgets of 2 and 9, probes of 1 and 6 | 352 304 | the bound of a stop, the budget that makes it clean, the answers the write timeout spares |
| `replicas` | 2 containers, alike but for the slash of the prefix, or one of them local; 11 edits, two of them made; 7-bit integers | 72 773 | seven properties of configuration and catalog, one of them liveness |
| `requests` | 2 requests of any operation, 1 checksum, refusals 401, 503 text and a 503 that says 404, truncated bodies, lost answers, each call repeated at most once, a PDF without text | 376 372 | `Audited!Spec`; 4xx did nothing; audit matches work; fail-open lookup; every request is answered |
| `requests_healthy` | 3 creates, deletes or extractions, upstreams that answer in time, clients that leave | 174 192 | acknowledged work is recorded; the recorded events explain the store |
| `server` | 3 dependencies that answer 200, 302, 503 or hang; 10 statuses, valid or not; any panic | ~1 900 | one document, honest log, exact `WriteProblem`, honest `/readyz`, every request ends |
| `doc_second_upload`, `doc_unavailable_preserved`, `doc_panic_is_500`, `doc_settings_once`, `doc_replica_ids` | see section 6 | | each is violated |

Bounds, and why they are enough. *Two events or requests*: every property
relates one piece of work to the shared WaitGroup, to Close, to main or to one
store entry; a second actor is what it takes to interleave (one emission ends
while another is scheduled, an upload meets a concurrent POST). The safety
properties, of every module, are also proved for any number. *Three* for
`TrailExplainsStore`, where create, delete, create is the shortest history in
which counting events differs from looking at the last one. *Two containers*: entries
collide in pairs. *Two edits* let each start see another store than the start before
and beside it, and a store that both a name and an agent changed in. *Integers of 7 bits* (`MaxInt = 63`): 7 MB fits and
9 MB wraps, as 8 EiB and more do in 64 bits. *Ticks of
5 s*: the Consul client's timeout and net/http's grace for new connections are one
tick each; the other timeouts are the smallest that keep upload, lookup, extraction
and emission apart, one budget that ends in the midst of a request and one that
covers it and the longer probes too. The bounds of `Deadlines` are tight: with one tick less each is
violated, and so is `RoomyStopIsClean` without its term for the probes.
*One checksum*:
requests for different checksums share nothing but AUDA, which keeps no order.
*One request* in `Server`: the middleware and the Checker keep no state between
requests. *Three dependencies* are the ones main.go configures.
*`Resends = 1`*: one repetition already separates "executed" from
"executed once". `effect` and `attempts` need no cap: a call is executed at most
`1 + Resends` times, and `Deregister` runs twice. `CHECK_DEADLOCK FALSE` is set where the system
stops: a process that has exited, requests that are all answered.

What AUDA answers in the `Requests` runs is 201 or nothing (`Lossy`): the other
answers differ only in the log line, as the run `audit` shows.

## 4. Fairness

- `AuditService`: weak fairness of each goroutine, of the waiter and of `Close`
  (the Go scheduler), and of the deadline (a timer). AUDA owes an answer only when
  `Lossy` is FALSE.
- `Lifecycle`: weak fairness of the main goroutine and of the shutdown timer. Handlers, emissions and AUDA get none, so `SignalStops` does not
  lean on them. Main needs no strong fairness: when both cases of a `select` are ready,
  each of them ends the process, so it does not matter which one is picked.
  `RegisterService` and `DeregisterService` always return because the Consul
  client has a timeout (`requestTimeout`).
- `Replicas`: weak fairness of the KV client's timeout and of the registration. Nobody
  has to start, stop, edit or reap, and Consul owes no answer to the KV request.
- `Deadlines` checks safety only: a deadline is a bound on a clock, not a promise
  that something happens.
- `Server`: weak fairness of the request's goroutine and of the probes, which have
  a timeout each. The dependencies owe nothing.
- `Requests`: weak fairness of each handler and of each emission. Upstreams owe
  an answer only when not `Lossy`; then handlers' budgets are taken as long
  enough. With `Lossy`, a call's budget may run out at any time, which is what
  `context.WithTimeout` justifies.

## 5. Proofs

Every invariant and every action property the runs check is a theorem, for every value of
the constants, and so is the safety of both refinements.

Assumptions: the sets of events, requests and dependencies are finite, `Lossy` is a
Boolean, answers are answers (not "unsent" or "on the wire"), statuses are naturals,
`MaxInt` and timeouts are positive naturals, host names are distinct, the KV store
and its edits are about known settings, and sizes and ports are written with integers. `Answers`
are what net/http hands over, so a status has three digits and is no 1xx but 101; a refusal is
any of them but a 2xx, with any integer as the status its document tells. One combination of
these is excluded, by `HonestyAssumption`: where a proxy repeats calls, no document of a refusal
tells a status that reaches the client as a success. Without it `AuditMatchesWork` is false, as
TLC shows: a create is executed, its answer lost, the repetition refused with a 502 whose document
says 200, and the handler passes the 200 on without an event. Without repetitions any document will do. What some theorems need beyond that is in their statements: `NoOverflow`,
`OwnAddresses`, `Resends = 0`, and what delimits a finding (below).

**`AuditServiceProofs`**. `IInv` adds to `TypeOK` and `WaitGroupIsExact` that
a closed waiter has seen every owed event end, which `DrainedKeepsPromise` needs:
`Close` looks at the channel only, so it must be known what closing it meant. The
counting lemmas use finite cardinalities (one more, one less, zero means none).
Results: `TypeCorrect`, `WaitGroupExact`, `CloseKeepsPromise`, for any number of events, any
AUDA and any handlers.

**`LifecycleProofs`**. `CleanExitLosesNothing` is far from inductive. `DrainInv`
follows the causal chain backwards: exit without failure means `Close` returned
nil, so the waiter was closed, so the counter was zero then; and it is still true
now because the server was already quiet and a quiet server has no active handler
that could schedule. With a server that timed out `failed` is already set. The
exact counter is needed to turn `wg = 0` into "nobody emits"; it is restated in
this module because the instance has its own copy of `Cardinality`. Results:
`TypeCorrect` (the counter never goes below zero, where Go panics),
`CleanExit`, and `NoLateAdd` (the action property `NoLateSchedule`).
`ConsulInv` says, per statement of `main`, what is known of the registration and how
often it has been withdrawn: `WithdrawnFirst`, `AdvertisedAfterRetries`, `NeverWithdrawnTwice`.
`StopsSafely` is the refinement of `GracefulStop` without its fairness. Its steps are taken
actor by actor: `main`, whose exit is a clean one only by `DrainInv` (all work is settled) and
`SignalInv` (without an error, it left its `select` on a signal); the server; the emissions, which
settle work while the process lives.

**`RequestsProofs`**. `IInv` has three parts for each request. `HandlerInv` is what
`pc` implies. `WorkInv` ties the answer of the current call to the work done: as long as the call
was sent once, an effect means a success answer; and a success answer always means an effect,
which is why an acknowledged request has worked; and no document that answers a repeated call
reads as a success. `AnswerInv` is `AuditMatchesWork` and
`DeniedDidNothing` themselves, with one thing more: the call behind a success or a denial is off
the wire, where it could still do work nobody audits. `EmissionInv` has the exact WaitGroup. The lemma
`HandlerAnswers` reduces every way a handler ends to two, audited work and a quiet answer, and
`ErrorStatuses` shows that a 4xx, and a success that a document claims, is only answered when
the upstream has refused the call. Results: `TypeCorrect`, `AuditIsTrue`,
`DenialIsFinal`, `LookupNeverDenies`.

**`AuditPromiseProofs`**. `PromiseKept` is the refinement of `AuditedOperation`: `Promise`
lists what a step may do to one request as the abstract module sees it (open, succeed with the
event due, be denied, become unsure, work, record); each action is one of these for its request
and a stutter for the others. `TrailIsExact` needs another invariant, `TrailInv`: per checksum,
creations done are deletions done, plus one if a text is stored. `TrailExplainsStore` then follows
for a checksum whose requests all have definite answers, by `IInv` the recorded events being the work done.
It assumes `Resends = 0`, as its run does. With a repeated call it is false: a create is
executed, its answer is lost, the repetition gets a 409, and the client is denied what is stored.

**`Int64Proofs`**. Multiplication is beyond the solvers' linear arithmetic; its lemmas
reduce a wrapped product to a quotient and a remainder. `QuotientGuardIsExact`: the
guard `value > MaxInt64/unit` of `parseByteSize` refuses exactly what would wrap.

**`ReplicasProofs`**. `TypeCorrect` and `LimitsWritten` follow from the invariant that
a loaded configuration was valid and came from settings somebody wrote. `OthersKeepEntries`
(`OnlyNamesakesUnlist`) and `WithdrawnUnlisted` hold of any configuration: a step touches the
entries under the id of the process that takes it, at its agent, and no others. `RestartsReplace`
needs an invariant of the catalog: every entry has the default id of its name and address, as
long as nobody sets ids by hand; registering replaces what has the same id. `OwnEntriesKept` and
`DefaultIdsDiffer` assume `OwnAddresses`: no environment, store or edit sets a service address or
id. Then an id ends with the host name, so that registrations of different replicas never meet
under one id (`IdsDiffer`), and only Consul's reaping costs a replica that serves its entry. Without
it both fail, as the run `doc_replica_ids` shows of the ids. `BlankPrevails` is the action property
`BlankEntryPrevails`: `Fetch` overlays the store before it validates.

**`DeadlinesProofs`**. Every step of `Lifecycle` is a step of `Deadlines`, so its
theorems are used here. `StopInv` has one line per statement of `main`, bounding the
time since the signal by the timers that may still be running: `StopBounded`.
`RequestInv` does so per stage of a request: `InTimeDelivered`, `TimersCorrect`.
`RoomyInv` follows a stop: while the budget is the `Roomy` one, what is left of it always covers
what the longest request has left, through its calls and emission, its probes or a slow reader, so
that neither wait expires: `RoomyClean`.
The last three assume `NoOverflow`: `2*HTTPTimeout + slack` fits the integers.

**`ServerProofs`**. `DocumentInv` and `StatusInv` say, per stage of the request, what
has been written and what the recorder knows; they are needed because
`OneDocument` alone does not tell a panic before the answer from one after it.
`CheckInv` counts the running probes, as above, so that a report is known to be
complete; `ReadyInv` ties what was declared to what was found. `LogInv` follows what the
recorder knows to the log line. Results: `LogIsHonest`, `TypeCorrect`,
`AtMostOneDocument`, `SummaryIsExact` (any set of statuses), `ReadyIsTrue` (any set
of dependencies).

Four theorems say exactly when a documented claim that a run refutes (section 6) does hold:

| Theorem | The claim holds if | What breaks it |
|---|---|---|
| `UnavailablePreserved` | `Forthcoming`: upstreams answer in time, and each 503 has no JSON or a document that says 503 too | a 503 with JSON without a status, or with another one |
| `PlainPanicIs500` | `PlainStatuses`: a handler writes 0 or a status net/http sends as given | 1000 or 1xx from an upstream's document |
| `ParsedOnce` | `NoConsulEntries`: no setting of Consul is in the KV store, ever | one that is |
| `DefaultIdsDiffer` | `OwnAddresses`: nobody sets a service address or id | two replicas that share one |

Only model-checked: all liveness (`EmissionEnds`, `SignalStops`,
`EveryRequestAnswered`, `AcknowledgedIsRecorded`,
`EveryRequestEnds`, `StartIsDecided`) and with it the fairness of `GracefulStop`,
so `StopsGracefully` as a whole: weak fairness is about ENABLED, which is beyond this prover.
The pure modules (`Upstream`, `Validation`, `Config`) have no theorems of their own: what is needed of
them are lemmas beside the proofs that use them.

## 6. Where the code and its documentation disagree

- **Second upload** (`doc_second_upload`). README.md:185 promises that a PDF that
  was already extracted is answered from the dedup cache. Nothing stores an
  extraction, so the second upload calls Extract and audits again, unless a client
  POSTed the text in between.
- **Unavailable becomes 500** (`doc_unavailable_preserved`). `ParseProblem`
  accepts any JSON object. For a 503 with `{"detail": ...}` the problem's status
  is 0: `isServiceUnavailable` misses it, `WriteProblem(0)` panics, the client
  gets 500. Problem.go:43 says callers preserve the upstream status.
- **A panic that is not a 500** (`doc_panic_is_500`). Middleware.go:85 says a panic becomes
  a 500. An upstream's problem document may carry any integer as its status; for one
  outside 100..999 the recorder notes it, net/http panics, and the recovery, seeing a
  noted status, writes nothing: the client gets an empty 200.
- **Settings parsed twice** (`doc_settings_once`). Config/consul.go:8 says the Consul
  settings are parsed once. `fromEnv` parses them again from the overlay, and that
  reading registers the service: the KV store may move a replica to another agent, or
  take it out of Consul.
- **Replica ids** (`doc_replica_ids`). Tasks/plan.md:1292 says default ids contain name
  and host name. They contain the service address, which is the host name only if
  `CONSUL_SERVICE_ADDRESS` is not set: replicas that share one share their id.

Seen while modelling, without a run of their own: README.md:209 answers 502 for an
unavailable Extract, the code 503 for one that answers 503; README.md:46 and plan.md:1279
require settings in the KV store that the code also takes from the environment;
consul.go:25 says that settings are empty without Consul, the code returns what it read;
main.go:177 says the deadline is never exceeded, `StopIsBounded` has three calls to
Consul beyond it (15 s), and `STOP_GRACE_PERIOD` has to cover them; `ValidateFormat`
accepts `TEXT`, `NewWithOptions` then logs JSON; nothing relates `HEALTH_CHECK_TIMEOUT` to the
write timeout or to `SHUTDOWN_TIMEOUT`, either of which a `/readyz` may outlive; a prefix with a first slash, a prefix
that is itself a key, or siblings of a prefix without last slash refuse the start.

## 7. Not modelled, and the plan

Left out for good: the text of log lines and their sanitising (with `LOG_LEVEL` and
`LOG_FORMAT`, whose refusal is the failing branch of `LoadConfig`), request ids, JSON
layout, PDF parsing (pdfcpu: `Document` says what it finds), checksum arithmetic (a
checksum is a model value), service tags, test and development helpers.

Simplified: a call to Consul takes effect before its process goes on or ends, so a
deregistration applied after a restart is not modelled; an id is a pair of name and address, so
that two different pairs are never spelt alike, nor is an id set by hand spelt like a default one;
the timeout of idle connections bounds nothing else and is left out of `Deadlines`; there is no
panic of `sync.WaitGroup` for an `Add` that meets a `Wait` after `Shutdown` has timed out, when the
process is ending with an error anyway.

Not the code's to decide, so no property says it: whether an entry that a killed replica left
under another name, address or agent, after an edit of the KV store, ever vanishes (Consul's
reaping), and whether a live instance that was reaped is listed again (nothing registers it).

A further step would be a second refinement, that a process of `Replicas` is one of `Lifecycle`
seen more coarsely, its stop in one step.

`Requests` keeps the upstreams' side small: Persistence is one entry per
checksum, AUDA a set of recorded events; neither crashes, since a restart is
indistinguishable from a lost answer for the orchestrator. The orchestrator
itself persists nothing, so its crash is the unclean exit of `Lifecycle`.
