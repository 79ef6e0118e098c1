---------------------------- MODULE AuditService ----------------------------
(***************************************************************************)
(* The asynchronous audit emission of internal/services/audit_service.go:  *)
(* LogAsync starts one goroutine per event, which posts the event to the   *)
(* Audit Log service (AUDA) once; Close waits for the goroutines through a *)
(* sync.WaitGroup, or until its context is done.                           *)
(*                                                                         *)
(* Every event is scheduled by one request, so Event also names the        *)
(* request: requestDone[e] says its context is cancelled, which net/http   *)
(* does when the handler returns or the client goes away.                  *)
(***************************************************************************)
EXTENDS Upstream, Integers, FiniteSets

CONSTANTS
  Event,         \* the events that may ever be scheduled
  AudaReplies,   \* what AUDA may answer to a post
  Lossy          \* TRUE: AUDA may fail to answer within the emission's budget

ASSUME EventAssumption == IsFiniteSet(Event)
ASSUME LossyAssumption == Lossy \in BOOLEAN
ASSUME RepliesAssumption == Unsent \notin AudaReplies /\ Wire \notin AudaReplies

VARIABLES
  emission,      \* [Event -> state of the event's goroutine]
  post,          \* [Event -> Unsent, Wire or AUDA's answer]: the POST, outside the process
  wg,            \* the WaitGroup's counter
  waiter,        \* the goroutine Close starts: "none", "waiting", "closed" (done is closed)
  closer,        \* Close itself: "none", "selecting", "drained" (nil), "expired" (ctx.Err())
  deadline,      \* the context given to Close is done
  requestDone,   \* [Event -> BOOLEAN]
  owed           \* history: the events in flight when Close was called

vars == <<emission, post, wg, waiter, closer, deadline, requestDone, owed>>

InFlight == {"spawned", "posting"}
Outcomes == {"ok", "unauthorized", "failed"}

Emitting  == {e \in Event : emission[e] \in InFlight}
Scheduled == {e \in Event : emission[e] # "none"}
Recorded  == {e \in Event : IsSuccess(post[e].code)}

Init ==
  /\ emission = [e \in Event |-> "none"]
  /\ post = [e \in Event |-> Unsent]
  /\ wg = 0
  /\ waiter = "none"
  /\ closer = "none"
  /\ owed = {}
-----------------------------------------------------------------------------
(* The emission of one event *)

\* Mutant: wg.Add(1) is forgotten.
LogAsyncUncounted(e) ==
  /\ emission[e] = "none"
  /\ emission' = [emission EXCEPT ![e] = "spawned"]
  /\ UNCHANGED <<post, wg, waiter, closer, owed>>

\* wg.Add(1) runs in the caller, before the goroutine exists.
LogAsync(e) ==
  /\ emission[e] = "none"
  /\ emission' = [emission EXCEPT ![e] = "spawned"]
  /\ wg' = wg + 1
  /\ UNCHANGED <<post, waiter, closer, owed>>

\* Mutant: emit runs on the request's own context; once that is cancelled,
\* net/http sends nothing.
PostOnRequestContext(e) ==
  /\ emission[e] = "spawned"
  /\ emission' = [emission EXCEPT ![e] = "posting"]
  /\ post' = [post EXCEPT ![e] = IF requestDone[e] THEN Unsent ELSE Wire]
  /\ UNCHANGED <<wg, waiter, closer, owed>>

\* emit starts its budget and the client sends the request.
Post(e) ==
  /\ emission[e] = "spawned"
  /\ emission' = [emission EXCEPT ![e] = "posting"]
  /\ post' = [post EXCEPT ![e] = Wire]
  /\ UNCHANGED <<wg, waiter, closer, owed>>

\* AUDA handles the post, perhaps after the goroutine has given up on it.
Auda(e) ==
  /\ post[e] = Wire
  /\ \E reply \in AudaReplies : post' = [post EXCEPT ![e] = reply]
  /\ UNCHANGED <<emission, wg, waiter, closer, owed>>

\* Mutant: emit without a timeout.
EmitUnbounded(e) == FALSE

\* context.WithoutCancel: only emit's own budget ends the call, never the request's context.
EmitContextDone(e) == Lossy

Outcome(err) ==
  IF err = Nil THEN "ok" ELSE IF IsUnauthorized(err) THEN "unauthorized" ELSE "failed"

\* Mutant: wg.Done is not deferred, and the early return on a 401 misses it.
EmitReturnsLeaking(e) ==
  /\ emission[e] = "posting" /\ post[e] # Wire
  /\ emission' = [emission EXCEPT ![e] = Outcome(Do(post[e], FALSE))]
  /\ wg' = IF emission'[e] = "unauthorized" THEN wg ELSE wg - 1
  /\ UNCHANGED <<post, waiter, closer, owed>>

\* client.Emit returns; every path of emit ends in the deferred wg.Done.
EmitReturns(e) ==
  /\ emission[e] = "posting"
  /\ \/ /\ post[e] # Wire
        /\ emission' = [emission EXCEPT ![e] = Outcome(Do(post[e], FALSE))]
     \/ /\ EmitContextDone(e)
        /\ emission' = [emission EXCEPT ![e] = Outcome(Transport)]
  /\ wg' = wg - 1
  /\ UNCHANGED <<post, waiter, closer, owed>>
-----------------------------------------------------------------------------
(* Close *)

Close ==
  /\ closer = "none"
  /\ closer' = "selecting"
  /\ waiter' = "waiting"
  /\ owed' = Emitting
  /\ UNCHANGED <<emission, post, wg>>

\* Mutant: the goroutine closes done without waiting for the group.
WaiterHurries ==
  /\ waiter = "waiting"
  /\ waiter' = "closed"
  /\ UNCHANGED <<emission, post, wg, closer, owed>>

WaiterWakes ==
  /\ waiter = "waiting"
  /\ wg = 0
  /\ waiter' = "closed"
  /\ UNCHANGED <<emission, post, wg, closer, owed>>

\* When both channels are ready, select picks either.
CloseDrained ==
  /\ closer = "selecting"
  /\ waiter = "closed"
  /\ closer' = "drained"
  /\ UNCHANGED <<emission, post, wg, waiter, owed>>

\* Mutant: Close ignores its context.
CloseNeverExpires == FALSE

CloseExpired ==
  /\ closer = "selecting"
  /\ deadline
  /\ closer' = "expired"
  /\ UNCHANGED <<emission, post, wg, waiter, owed>>
-----------------------------------------------------------------------------
(* The service alone, with handlers that may schedule at any time, even    *)
(* while Close is waiting or after it has returned.                        *)

RequestEnds(e) ==
  /\ emission[e] # "none"
  /\ ~requestDone[e]
  /\ requestDone' = [requestDone EXCEPT ![e] = TRUE]
  /\ UNCHANGED <<emission, post, wg, waiter, closer, owed, deadline>>

DeadlinePasses ==
  /\ ~deadline
  /\ deadline' = TRUE
  /\ UNCHANGED <<emission, post, wg, waiter, closer, owed, requestDone>>

Goroutine(e)  == Post(e) \/ EmitReturns(e)
CloserStep    == WaiterWakes \/ CloseDrained \/ CloseExpired
ServiceStep   == Close \/ CloserStep \/ \E e \in Event : LogAsync(e) \/ Goroutine(e) \/ Auda(e)

SpecInit == Init /\ deadline = FALSE /\ requestDone = [e \in Event |-> FALSE]

Next ==
  \/ ServiceStep /\ UNCHANGED <<deadline, requestDone>>
  \/ DeadlinePasses
  \/ \E e \in Event : RequestEnds(e)

\* The Go scheduler runs every goroutine, the context's timer fires, and an
\* AUDA that is not Lossy answers.
Fairness ==
  /\ \A e \in Event : WF_vars(Goroutine(e) /\ UNCHANGED <<deadline, requestDone>>)
  /\ WF_vars(CloserStep /\ UNCHANGED <<deadline, requestDone>>)
  /\ WF_vars(DeadlinePasses)
  /\ ~Lossy => \A e \in Event : WF_vars(Auda(e) /\ UNCHANGED <<deadline, requestDone>>)

Spec == SpecInit /\ [][Next]_vars /\ Fairness
-----------------------------------------------------------------------------
TypeOK ==
  /\ emission \in [Event -> {"none"} \cup InFlight \cup Outcomes]
  /\ post \in [Event -> {Unsent, Wire} \cup AudaReplies]
  /\ wg \in Nat                 \* Go panics on a negative counter
  /\ waiter \in {"none", "waiting", "closed"}
  /\ closer \in {"none", "selecting", "drained", "expired"}
  /\ owed \subseteq Event
  /\ deadline \in BOOLEAN
  /\ requestDone \in [Event -> BOOLEAN]

\* The WaitGroup counts exactly the goroutines that have not finished, through
\* every way emit can end: a leaked count would hang every shutdown until its
\* deadline, a missing one would let Close return early (lines 29 and 31).
WaitGroupIsExact == wg = Cardinality(Emitting)

\* Close returns nil only after every event that was in flight when it was
\* called has ended, even if handlers keep scheduling events meanwhile.
DrainedKeepsPromise == closer = "drained" => owed \cap Emitting = {}

\* Every goroutine ends, so none is leaked by an AUDA that never answers.
EmissionEnds == \A e \in Event : (emission[e] = "spawned") ~> (emission[e] \in Outcomes)
=============================================================================
