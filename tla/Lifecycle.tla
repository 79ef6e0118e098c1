----------------------------- MODULE Lifecycle ------------------------------
(***************************************************************************)
(* The life of one orchestrator process, runWithSignals in                 *)
(* cmd/orchestrator/main.go: configure, register in Consul, serve, and on a signal    *)
(* deregister, shut the HTTP server down and drain the audit emissions     *)
(* within one budget.  Composes AuditService; net/http's server, Consul's  *)
(* catalog, the clients and the signals are the environment.               *)
(*                                                                         *)
(* A request is followed only as far as the shutdown can tell: whether its *)
(* handler runs and whether it has scheduled its audit event.  Requests    *)
(* refines what a handler does.                                            *)
(***************************************************************************)
EXTENDS Integers, FiniteSets

CONSTANTS
  Request,
  AudaReplies,
  Lossy

ASSUME RequestAssumption == IsFiniteSet(Request)

VARIABLES
  main,        \* where the main goroutine is
  failed,      \* the error runWithSignals will return is not nil (exit status 1)
  stop,        \* stopCh holds a signal
  listener,    \* the HTTP server, see TypeOK
  listenErr,   \* errCh holds the error of ListenAndServe
  budget,      \* shutdownCtx: "unset", "running", "expired"
  announced,   \* what main knows of its registration: "no", "yes", "withdrawn"
  catalog,     \* Consul lists this instance
  attempts,    \* deregistration requests sent
  handler      \* [Request -> "idle", "connected", "active", "returned"]

VARIABLES emission, post, wg, waiter, closer, owed      \* of AuditService

Audit == INSTANCE AuditService WITH
           Event <- Request,
           deadline <- budget = "expired",
           requestDone <- [r \in Request |-> handler[r] = "returned"]

mainVars   == <<main, failed, budget>>
consulVars == <<announced, catalog, attempts>>
serverVars == <<listener, listenErr, handler>>
auditVars  == <<emission, post, wg, waiter, closer, owed>>
vars == <<mainVars, stop, consulVars, serverVars, auditVars>>

Alive  == main # "exited"
Active == {r \in Request : handler[r] = "active"}

Init ==
  /\ main = "start" /\ failed = FALSE /\ budget = "unset"
  /\ stop = FALSE
  /\ announced = "no" /\ catalog = FALSE /\ attempts = 0
  /\ listener = "closed" /\ listenErr = FALSE
  /\ handler = [r \in Request |-> "idle"]
  /\ Audit!Init
-----------------------------------------------------------------------------
(* The main goroutine *)

\* The agent's answer: an error, or its absence, leaves open whether Consul has
\* applied the request; deregistering an unknown instance (404) succeeds.
RegisterService(err)   == catalog' \in IF err THEN BOOLEAN ELSE {TRUE}
DeregisterService(err) == catalog' \in IF err THEN {catalog, FALSE} ELSE {FALSE}

\* logging.New and loadConfig, either of which may fail.  So does a signal that comes
\* before signal.Notify: it kills the process.
LoadConfig ==
  /\ main = "start"
  /\ \/ main' = "register" /\ UNCHANGED failed
     \/ main' = "exited" /\ failed' = TRUE
  /\ UNCHANGED <<budget, stop, consulVars, serverVars, auditVars>>

\* The configuration that was loaded decides whether there is a Consul to register with.
Register ==
  /\ main = "register"
  /\ \/ main' = "serve" /\ UNCHANGED <<failed, announced, catalog>>
     \/ /\ RegisterService(FALSE)
        /\ main' = "serve" /\ announced' = "yes" /\ UNCHANGED failed
     \/ /\ RegisterService(TRUE)
        /\ main' = "exited" /\ failed' = TRUE /\ UNCHANGED announced
  /\ UNCHANGED <<budget, attempts, stop, serverVars, auditVars>>

\* Mutant: shutdownCtx is created before the deregistration.
SelectStopInBudget ==
  /\ main = "serve" /\ stop
  /\ main' = "deregister" /\ budget' = "running"
  /\ UNCHANGED <<failed, stop, consulVars, serverVars, auditVars>>

\* select on errCh and stopCh: either one when both are ready.
SelectStop ==
  /\ main = "serve" /\ stop
  /\ main' = "deregister"
  /\ UNCHANGED <<failed, budget, stop, consulVars, serverVars, auditVars>>

SelectError ==
  /\ main = "serve" /\ listenErr
  /\ main' = "exiting" /\ failed' = TRUE
  /\ UNCHANGED <<budget, stop, consulVars, serverVars, auditVars>>

\* Mutants: the closure marks the instance deregistered before it looks at the
\* error; it does not remember a success.
DeregisterOptimistic ==
  \/ announced # "yes" /\ UNCHANGED consulVars
  \/ /\ announced = "yes" /\ \E err \in BOOLEAN : DeregisterService(err)
     /\ attempts' = attempts + 1 /\ announced' = "withdrawn"

DeregisterAlways ==
  \/ announced = "no" /\ UNCHANGED consulVars
  \/ /\ announced # "no" /\ \E err \in BOOLEAN : DeregisterService(err)
     /\ attempts' = attempts + 1 /\ announced' = "withdrawn"

\* The closure deregister: nothing left to do, or one request, whose failure is
\* only logged so that the next call tries again.
Deregister ==
  \/ announced # "yes" /\ UNCHANGED consulVars
  \/ /\ announced = "yes"
     /\ attempts' = attempts + 1
     /\ \E err \in BOOLEAN :
          DeregisterService(err) /\ announced' = IF err THEN announced ELSE "withdrawn"

\* Mutant: only the deferred call deregisters.
WithdrawLater ==
  /\ main = "deregister"
  /\ main' = "shutdown"
  /\ UNCHANGED <<failed, budget, stop, consulVars, serverVars, auditVars>>

Withdraw ==
  /\ main = "deregister" /\ Deregister
  /\ main' = "shutdown"
  /\ UNCHANGED <<failed, budget, stop, serverVars, auditVars>>

\* Mutant: the audit drain starts without waiting for the server.
StartShutdownNoWait ==
  /\ main = "shutdown"
  /\ main' = "close" /\ budget' = "running" /\ listener' = "shut"
  /\ UNCHANGED <<failed, listenErr, handler, stop, consulVars, auditVars>>

\* shutdownCtx starts and srv.Shutdown closes the listener.
StartShutdown ==
  /\ main = "shutdown"
  /\ main' = "draining" /\ budget' = "running" /\ listener' = "shut"
  /\ UNCHANGED <<failed, listenErr, handler, stop, consulVars, auditVars>>

\* srv.Shutdown closed every idle connection and found no busy one.
ShutdownCompletes ==
  /\ main = "draining" /\ Active = {}
  /\ main' = "close" /\ listener' = "quiet"
  /\ UNCHANGED <<failed, budget, listenErr, handler, stop, consulVars, auditVars>>

\* Mutant: the error of srv.Shutdown is only logged.
ShutdownTimesOutQuietly ==
  /\ main = "draining" /\ budget = "expired"
  /\ main' = "close"
  /\ UNCHANGED <<failed, budget, stop, consulVars, serverVars, auditVars>>

ShutdownTimesOut ==
  /\ main = "draining" /\ budget = "expired"
  /\ main' = "close" /\ failed' = TRUE
  /\ UNCHANGED <<budget, stop, consulVars, serverVars, auditVars>>

\* Mutant: Close gets a budget of its own.
StartCloseAnew ==
  /\ main = "close" /\ Audit!Close
  /\ main' = "closing" /\ budget' = "running"
  /\ UNCHANGED <<failed, stop, consulVars, serverVars>>

StartClose ==
  /\ main = "close" /\ Audit!Close
  /\ main' = "closing"
  /\ UNCHANGED <<failed, budget, stop, consulVars, serverVars>>

\* Mutant: the error of Close is only logged.
CloseReturnsQuietly ==
  /\ main = "closing"
  /\ Audit!CloseDrained \/ Audit!CloseExpired
  /\ main' = "exiting"
  /\ UNCHANGED <<failed, budget, stop, consulVars, serverVars>>

CloseReturns ==
  /\ main = "closing"
  /\ \/ Audit!CloseDrained /\ UNCHANGED failed
     \/ Audit!CloseExpired /\ failed' = TRUE
  /\ main' = "exiting"
  /\ UNCHANGED <<budget, stop, consulVars, serverVars>>

\* runWithSignals returns: the deferred deregister runs, then the process ends.
Exit ==
  /\ main = "exiting" /\ Deregister
  /\ main' = "exited"
  /\ UNCHANGED <<failed, budget, stop, serverVars, auditVars>>

Main ==
  \/ LoadConfig \/ Register \/ SelectStop \/ SelectError \/ Withdraw \/ StartShutdown
  \/ ShutdownCompletes \/ ShutdownTimesOut \/ StartClose \/ CloseReturns \/ Exit
-----------------------------------------------------------------------------
(* The other goroutines of the process *)

Started == main \notin {"start", "register", "exited"}

Listen ==
  /\ Started /\ listener = "closed"
  /\ listener' = "open"
  /\ UNCHANGED <<listenErr, handler, mainVars, stop, consulVars, auditVars>>

\* ListenAndServe cannot bind, or its accept loop breaks later.
ListenFails ==
  /\ Started /\ listener \in {"closed", "open"}
  /\ listener' = "broken" /\ listenErr' = TRUE
  /\ UNCHANGED <<handler, mainVars, stop, consulVars, auditVars>>

\* A request on a connection that is open may begin until Shutdown has closed it.
Begin(r) ==
  /\ Alive /\ handler[r] = "connected" /\ listener # "quiet"
  /\ handler' = [handler EXCEPT ![r] = "active"]
  /\ UNCHANGED <<listener, listenErr, mainVars, stop, consulVars, auditVars>>

Schedule(r) ==
  /\ Alive /\ handler[r] = "active"
  /\ Audit!LogAsync(r)
  /\ UNCHANGED <<mainVars, stop, consulVars, serverVars>>

Return(r) ==
  /\ Alive /\ handler[r] = "active"
  /\ handler' = [handler EXCEPT ![r] = "returned"]
  /\ UNCHANGED <<listener, listenErr, mainVars, stop, consulVars, auditVars>>

Emit(r) ==
  /\ Alive /\ Audit!Goroutine(r)
  /\ UNCHANGED <<mainVars, stop, consulVars, serverVars>>

Waiter ==
  /\ Alive /\ Audit!WaiterWakes
  /\ UNCHANGED <<mainVars, stop, consulVars, serverVars>>

BudgetExpires ==
  /\ Alive /\ budget = "running"
  /\ budget' = "expired"
  /\ UNCHANGED <<main, failed, stop, consulVars, serverVars, auditVars>>
-----------------------------------------------------------------------------
(* The environment *)

Signal ==
  /\ main \notin {"start", "exited"} /\ ~stop
  /\ stop' = TRUE
  /\ UNCHANGED <<mainVars, consulVars, serverVars, auditVars>>

Connect(r) ==
  /\ Alive /\ handler[r] = "idle" /\ listener = "open"
  /\ handler' = [handler EXCEPT ![r] = "connected"]
  /\ UNCHANGED <<listener, listenErr, mainVars, stop, consulVars, auditVars>>

Auda(r) ==
  /\ Audit!Auda(r)
  /\ UNCHANGED <<mainVars, stop, consulVars, serverVars>>

\* DeregisterCriticalServiceAfter: Consul drops an instance whose check stays critical,
\* a live one too if the agent cannot reach it.  Nothing registers it again.
ConsulReaps ==
  /\ catalog
  /\ catalog' = FALSE
  /\ UNCHANGED <<announced, attempts, mainVars, stop, serverVars, auditVars>>

Process == Main \/ Listen \/ ListenFails \/ Waiter \/ BudgetExpires
             \/ \E r \in Request : Begin(r) \/ Schedule(r) \/ Return(r) \/ Emit(r)

Environment == Signal \/ ConsulReaps \/ \E r \in Request : Connect(r) \/ Auda(r)

Next == Process \/ Environment

\* The main goroutine runs and its timer fires.  Handlers, the emissions, AUDA and
\* Consul owe nothing: the stop must not depend on them.
Fairness == WF_vars(Main) /\ WF_vars(BudgetExpires)

Spec == Init /\ [][Next]_vars /\ Fairness
-----------------------------------------------------------------------------
TypeOK ==
  /\ main \in {"start", "register", "serve", "deregister", "shutdown", "draining",
               "close", "closing", "exiting", "exited"}
  /\ failed \in BOOLEAN /\ stop \in BOOLEAN /\ listenErr \in BOOLEAN /\ catalog \in BOOLEAN
  /\ budget \in {"unset", "running", "expired"}
  /\ announced \in {"no", "yes", "withdrawn"}
  /\ attempts \in Nat
  /\ listener \in {"closed", "open", "broken", "shut", "quiet"}
  /\ handler \in [Request -> {"idle", "connected", "active", "returned"}]
  /\ Audit!TypeOK

\* Exit status 0 means that nothing the process took on is lost: no handler was
\* cut off and no scheduled audit event was still being emitted (services.go:35-37).
CleanExitLosesNothing ==
  main = "exited" /\ ~failed => Active = {} /\ Audit!Emitting = {}

\* As long as the server shut down in time, no event is scheduled once Close is
\* waiting: the WaitGroup is never raised from zero concurrently with its Wait.
NoLateSchedule ==
  [][closer # "none" /\ ~failed => wg' <= wg]_vars

\* No connection is drained while the instance is still advertised without
\* having tried to withdraw it first (main.go:172-174).
WithdrawnBeforeDraining ==
  listener \in {"shut", "quiet"} /\ announced = "yes" => attempts > 0

\* An acknowledged registration outlives the process only if every exit path's
\* attempts failed: the one before draining and the deferred one.
AdvertisedOnlyAfterRetries ==
  main = "exited" /\ catalog /\ announced # "no" =>
     attempts = IF budget = "unset" THEN 1 ELSE 2

\* A deregistration that succeeded is never repeated (lines 145 to 152).
WithdrawnOnce == [][announced = "withdrawn" => attempts' = attempts]_vars

\* A signal stops the process even if handlers, emissions and AUDA hang.
SignalStops == stop ~> (main = "exited")
-----------------------------------------------------------------------------
\* A request is pending from the start of its handler until the handler has
\* returned and its audit event, if any, has been emitted or given up.
Work(r) ==
  IF handler[r] \in {"idle", "connected"} THEN "none"
  ELSE IF handler[r] = "active" \/ r \in Audit!Emitting THEN "pending"
  ELSE "settled"

Stop == INSTANCE GracefulStop WITH
          accepting <- listener # "quiet",
          work <- [r \in Request |-> Work(r)],
          asked <- stop,
          result <- IF Alive THEN "running" ELSE IF failed THEN "failed" ELSE "clean"

\* The process implements the abstract promise, its liveness included.
StopsGracefully == Stop!Spec
=============================================================================
