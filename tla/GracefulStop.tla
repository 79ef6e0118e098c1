---------------------------- MODULE GracefulStop ----------------------------
(***************************************************************************)
(* What the orchestrator promises about stopping, independent of Consul,   *)
(* HTTP and the WaitGroup: it takes work while it accepts, every piece of  *)
(* work it took is either settled or abandoned by an unclean stop, and     *)
(* once asked to stop it does stop.  Lifecycle implements it.              *)
(***************************************************************************)
CONSTANT Request

VARIABLES
  accepting,   \* new requests may still begin
  work,        \* [Request -> "none", "pending" or "settled"], response and audit event included
  asked,       \* a termination signal has arrived
  result       \* "running", then how the process ended: "clean" (exit 0) or "failed"

vars == <<accepting, work, asked, result>>

Pending == {r \in Request : work[r] = "pending"}

Init ==
  /\ accepting = TRUE
  /\ work = [r \in Request |-> "none"]
  /\ asked = FALSE
  /\ result = "running"

Running == result = "running"

Take(r) ==
  /\ Running /\ accepting
  /\ work[r] = "none"
  /\ work' = [work EXCEPT ![r] = "pending"]
  /\ UNCHANGED <<accepting, asked, result>>

Settle(r) ==
  /\ Running
  /\ work[r] = "pending"
  /\ work' = [work EXCEPT ![r] = "settled"]
  /\ UNCHANGED <<accepting, asked, result>>

Ask ==
  /\ Running /\ ~asked
  /\ asked' = TRUE
  /\ UNCHANGED <<accepting, work, result>>

Quiesce ==
  /\ Running /\ accepting
  /\ accepting' = FALSE
  /\ UNCHANGED <<work, asked, result>>

StopClean ==
  /\ Running /\ asked
  /\ ~accepting /\ Pending = {}
  /\ result' = "clean"
  /\ UNCHANGED <<accepting, work, asked>>

StopFailed ==
  /\ Running
  /\ result' = "failed"
  /\ UNCHANGED <<accepting, work, asked>>

Next ==
  \/ Ask \/ Quiesce \/ StopClean \/ StopFailed
  \/ \E r \in Request : Take(r) \/ Settle(r)

Spec == Init /\ [][Next]_vars /\ WF_vars(asked /\ (StopClean \/ StopFailed))
=============================================================================
