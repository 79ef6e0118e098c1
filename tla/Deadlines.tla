----------------------------- MODULE Deadlines ------------------------------
(***************************************************************************)
(* Lifecycle on a clock: how long a stop takes, and when a request is      *)
(* answered in time.  Every wait of the process has its timeout: calls to   *)
(* Consul (requestTimeout), the shutdown budget, the server's read and      *)
(* write timeouts (server.go), the budget of each upstream call and that of *)
(* the probes of /readyz (HEALTH_CHECK_TIMEOUT).  A tick is possible only   *)
(* while no wait is at its end and nothing is left to do that takes no time. *)
(***************************************************************************)
EXTENDS Lifecycle, Int64

CONSTANTS
  ConsulTimeout,       \* all in ticks
  HTTPTimeout,
  RequestBudgetSlack,
  ReadHeaderTimeout,
  NewConnGrace,        \* how long net/http's Shutdown waits for a connection without a request
  ShutdownTimeouts,    \* the values of SHUTDOWN_TIMEOUT to consider
  HealthCheckTimeouts  \* the values of HEALTH_CHECK_TIMEOUT to consider

ASSUME DurationsAssumption ==
  /\ {ConsulTimeout, HTTPTimeout, RequestBudgetSlack, ReadHeaderTimeout, NewConnGrace} \subseteq Nat \ {0}
  /\ ShutdownTimeouts \cup HealthCheckTimeouts \subseteq Nat \ {0}

\* Mutant: only one call fits.
RequestTimeoutOneCall(httpTimeout) == Wrap(httpTimeout + RequestBudgetSlack)

\* The server's ReadTimeout and WriteTimeout.
RequestTimeout(httpTimeout) == Wrap(2 * httpTimeout + RequestBudgetSlack)

Limit == RequestTimeout(HTTPTimeout)

VARIABLES
  shutdownTimeout,   \* the configured SHUTDOWN_TIMEOUT
  healthTimeout,     \* the configured HEALTH_CHECK_TIMEOUT
  stage,             \* [Request -> what its handler waits for, see Stages]
  left,              \* ticks left: of main's call to Consul, of the budget, of net/http's grace for
                     \* new connections, of each request's stage and of each emission
  spent              \* ticks since the signal, and since each request began, its upload included

clockVars == <<shutdownTimeout, healthTimeout, stage, left, spent>>

\* The client's header and body, the two upstream calls, the probes of /readyz, and
\* the client's reading of the answer.
Stages == {"upload", "lookup", "extract", "probes", "reply"}

Timed(v) == [r \in Request |-> v]

ClockInit ==
  /\ shutdownTimeout \in ShutdownTimeouts /\ healthTimeout \in HealthCheckTimeouts
  /\ stage = Timed("upload")
  /\ left  = [consul |-> 0, budget |-> 0, grace |-> 0, stage |-> Timed(0), emission |-> Timed(0)]
  /\ spent = [stop |-> 0, request |-> Timed(0), upload |-> Timed(0)]

CallsConsul == {"register", "deregister", "exiting"}
-----------------------------------------------------------------------------
(* The steps of Lifecycle, in time *)

Starts(r)  == handler[r] # "active" /\ handler'[r] = "active"
Schedules(r) == emission[r] = "none" /\ emission'[r] # "none"

\* The timer of the budget fires when the budget is spent, not before; Shutdown closes a
\* connection that sends no request; events are scheduled after the last upstream call.
InTime ==
  /\ budget = "running" /\ budget' = "expired" => left.budget = 0
  /\ \A r \in Request :
       /\ Starts(r) /\ listener = "shut" => left.grace > 0
       /\ Schedules(r) => stage[r] = "extract"

\* A step starts the timers of the waits it enters and forgets those of the waits it ends.
Arm(enters, waits, limit, timer) == IF enters THEN limit ELSE IF waits THEN timer ELSE 0

Arms ==
  /\ left' = [consul   |-> Arm(main' \in CallsConsul \ {main}, main' \in CallsConsul,
                               ConsulTimeout, left.consul),
              budget   |-> Arm(budget' = "running" /\ budget # "running", Alive',
                               shutdownTimeout, left.budget),
              grace    |-> Arm(listener' = "shut" /\ listener # "shut", listener' = "shut",
                               NewConnGrace + 1, left.grace),
              stage    |-> [r \in Request |-> Arm(Starts(r), r \in Active', Limit, left.stage[r])],
              emission |-> [r \in Request |-> Arm(Schedules(r), r \in Audit!Emitting',
                                                 HTTPTimeout, left.emission[r])]]
  /\ spent' = [spent EXCEPT !.request = [r \in Request |-> IF r \in Active' THEN @[r] ELSE 0],
                            !.upload  = [r \in Request |-> IF r \in Active' THEN @[r] ELSE 0]]
  /\ UNCHANGED <<shutdownTimeout, healthTimeout, stage>>

Step == Next /\ InTime /\ Arms

\* The handler of r goes from one wait to the next one, which takes up to limit.
Waits(r, next, limit) ==
  /\ Alive /\ handler[r] = "active"
  /\ stage' = [stage EXCEPT ![r] = next]
  /\ left' = [left EXCEPT !.stage[r] = limit]
  /\ UNCHANGED <<shutdownTimeout, healthTimeout, spent, vars>>

\* The body has been read, the lookup has ended: the next upstream call has its own budget.
Advance(r) ==
  /\ emission[r] = "none"
  /\ \/ stage[r] = "upload" /\ Waits(r, "lookup", HTTPTimeout)
     \/ stage[r] = "lookup" /\ Waits(r, "extract", HTTPTimeout)

\* GET /readyz, once its header has been read: the probes run side by side, each within
\* HEALTH_CHECK_TIMEOUT, which nothing relates to the server's timeouts.
Probe(r) ==
  /\ stage[r] = "upload" /\ spent.request[r] <= ReadHeaderTimeout
  /\ Waits(r, "probes", healthTimeout)

\* The handler answers, whatever it has waited for: the client may take the answer until
\* the write deadline, which counts from the end of the header.
Respond(r) ==
  /\ stage[r] # "reply"
  /\ LET rest == ReadHeaderTimeout + Limit - spent.request[r]
     IN Waits(r, "reply", IF rest > 0 THEN rest ELSE 0)
-----------------------------------------------------------------------------
(* The clock *)

\* What takes no time: the statements of main between its waits, the end of a wait whose
\* condition holds, the waiter seeing the counter at zero.
Connected == {r \in Request : handler[r] = "connected"}

Urgent ==
  \/ main \in {"start", "shutdown", "close"}
  \/ main = "serve" /\ (stop \/ listenErr)
  \/ main = "draining" /\ \/ budget = "expired"
                          \/ /\ Active = {}
                             /\ Connected # {} => left.grace = 0
  \/ main = "closing" /\ (budget = "expired" \/ waiter = "closed")
  \/ waiter = "waiting" /\ wg = 0

AtItsEnd ==
  \/ main \in CallsConsul /\ left.consul = 0
  \/ budget = "running" /\ left.budget = 0
  \/ \E r \in Active : left.stage[r] = 0
  \/ \E r \in Audit!Emitting : left.emission[r] = 0

Counts(n) == IF n = 0 THEN 0 ELSE n - 1

Tick ==
  /\ Alive /\ ~Urgent /\ ~AtItsEnd
  /\ left' = [consul   |-> Counts(left.consul),
              budget   |-> IF budget = "running" THEN Counts(left.budget) ELSE left.budget,
              grace    |-> Counts(left.grace),
              stage    |-> [r \in Request |-> Counts(left.stage[r])],
              emission |-> [r \in Request |-> Counts(left.emission[r])]]
  /\ spent' = [stop    |-> IF stop THEN spent.stop + 1 ELSE 0,
               request |-> [r \in Request |-> spent.request[r] + IF r \in Active THEN 1 ELSE 0],
               upload  |-> [r \in Request |-> spent.upload[r] +
                              IF r \in Active /\ stage[r] = "upload" THEN 1 ELSE 0]]
  /\ UNCHANGED <<shutdownTimeout, healthTimeout, stage, vars>>

TimedInit == Init /\ ClockInit

Handles(r) == Advance(r) \/ Probe(r) \/ Respond(r)

TimedNext == Step \/ (\E r \in Request : Handles(r)) \/ Tick

TimedSpec == TimedInit /\ [][TimedNext]_<<vars, clockVars>>
-----------------------------------------------------------------------------
TimersOK ==
  /\ TypeOK
  /\ shutdownTimeout \in ShutdownTimeouts /\ healthTimeout \in HealthCheckTimeouts
  /\ stage \in [Request -> Stages]
  /\ left.consul \in 0..ConsulTimeout /\ left.budget \in 0..shutdownTimeout
  /\ left.grace \in 0..(NewConnGrace + 1)
  /\ \A r \in Request : left.emission[r] \in 0..HTTPTimeout /\ left.stage[r] >= 0

\* From the signal to the exit it takes the shutdown budget, which the server and the audit
\* drain share, and the calls to Consul that lie outside of it: the deregistration, the
\* deferred one if that failed, and the registration if the signal came that early.  That
\* is more than SHUTDOWN_TIMEOUT, which main.go:177-180 says is never exceeded.
StopIsBounded == spent.stop <= shutdownTimeout + 3 * ConsulTimeout

\* What a request may take at most from its beginning to the end of its audit event: an
\* upload and two upstream calls before the event, an answer that the client takes until
\* the write deadline, the probes of /readyz.
Longest == {Limit + 3 * HTTPTimeout, ReadHeaderTimeout + Limit, ReadHeaderTimeout + healthTimeout}

\* A budget that covers the longest request from its late beginning on ends every stop by a
\* signal cleanly, whatever the clients, the upstreams, the probed services and AUDA do
\* (main.go:181-198).  HEALTH_CHECK_TIMEOUT counts as well: one above the budget makes a
\* stop fail that waits for a /readyz.
Roomy == \A wait \in Longest : shutdownTimeout > NewConnGrace + wait
RoomyStopIsClean == main = "exited" /\ budget # "unset" /\ Roomy => ~failed

\* The server's write timeout cuts off no answer that is due (server.go:14-18): not while
\* the two upstream calls of a request use their budgets, if its upload was over within
\* the slack, and not while /readyz waits for its probes, if HEALTH_CHECK_TIMEOUT lies
\* within the write timeout, as nobody checks.
InTimeIsDelivered == \A r \in Active :
  /\ stage[r] \in {"upload", "lookup", "extract"} /\ spent.upload[r] <= RequestBudgetSlack =>
       spent.request[r] <= Limit
  /\ stage[r] = "probes" /\ healthTimeout <= Limit =>
       spent.request[r] <= spent.upload[r] + Limit
=============================================================================
