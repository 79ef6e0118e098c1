------------------------------- MODULE Health -------------------------------
(***************************************************************************)
(* One readiness check (internal/health/checker.go): a goroutine per       *)
(* dependency sends one GET within its own timeout and notes the verdict   *)
(* in its own slot; Check waits for all of them and aggregates.  The       *)
(* Checker itself has no state that changes, so checks of concurrent       *)
(* requests share nothing.                                                 *)
(***************************************************************************)
EXTENDS Upstream, Integers

CONSTANTS
  Service,        \* the dependencies to probe
  HealthReplies   \* what they may answer

VARIABLES
  check,     \* "idle", "spawning" (then waiting), "reported"
  probe,     \* [Service -> "none", "running" or the verdict "ok" or "down" in its slot]
  answer,    \* [Service -> Unsent, Wire or the dependency's answer]
  pending,   \* the counter of Check's WaitGroup
  report     \* "none", "ok" or "degraded"

Init ==
  /\ check = "idle"
  /\ probe = [s \in Service |-> "none"]
  /\ answer = [s \in Service |-> Unsent]
  /\ pending = 0
  /\ report = "none"

Start ==
  /\ check = "idle"
  /\ check' = "spawning"
  /\ UNCHANGED <<probe, answer, pending, report>>

\* Mutant: wg.Add(1) is missing, so wg.Wait may return at once.
SpawnUncounted(s) ==
  /\ check = "spawning" /\ probe[s] = "none"
  /\ probe' = [probe EXCEPT ![s] = "running"]
  /\ answer' = [answer EXCEPT ![s] = Wire]
  /\ UNCHANGED <<check, pending, report>>

\* One turn of the loop: the goroutine exists, and its GET is under way.
Spawn(s) ==
  /\ check = "spawning" /\ probe[s] = "none"
  /\ probe' = [probe EXCEPT ![s] = "running"]
  /\ answer' = [answer EXCEPT ![s] = Wire]
  /\ pending' = pending + 1
  /\ UNCHANGED <<check, report>>

\* Mutant: the client has no timeout.
ProbeUnbounded(s) == FALSE

\* At any time the timeout may pass, the request be cancelled or the call fail.
ProbeFails(s) == TRUE

\* checkOne returns: a 2xx is healthy, a redirect is not (none is followed).
\* Nobody reads the slot before the deferred wg.Done.
Settle(s) ==
  /\ probe[s] = "running"
  /\ \/ /\ answer[s] # Wire
        /\ probe' = [probe EXCEPT ![s] = IF IsSuccess(answer[s].code) THEN "ok" ELSE "down"]
     \/ /\ ProbeFails(s)
        /\ probe' = [probe EXCEPT ![s] = "down"]
  /\ pending' = pending - 1
  /\ UNCHANGED <<check, answer, report>>

\* wg.Wait returns and the verdicts are aggregated.
Report ==
  /\ check = "spawning" /\ pending = 0
  /\ \A s \in Service : probe[s] # "none"
  /\ check' = "reported"
  /\ report' = IF \A s \in Service : probe[s] = "ok" THEN "ok" ELSE "degraded"
  /\ UNCHANGED <<probe, answer, pending>>

\* A dependency answers, perhaps after its probe was given up.
Answers(s) ==
  /\ answer[s] = Wire
  /\ \E reply \in HealthReplies : answer' = [answer EXCEPT ![s] = reply]
  /\ UNCHANGED <<check, probe, pending, report>>

TypeOK ==
  /\ check \in {"idle", "spawning", "reported"}
  /\ probe \in [Service -> {"none", "running", "ok", "down"}]
  /\ answer \in [Service -> {Unsent, Wire} \cup HealthReplies]
  /\ pending \in Nat
  /\ report \in {"none", "ok", "degraded"}
=============================================================================
