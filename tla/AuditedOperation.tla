-------------------------- MODULE AuditedOperation --------------------------
(***************************************************************************)
(* What a client and an auditor are promised about one request each:       *)
(*   - a request answered with success after doing work has its audit      *)
(*     event due at that moment, and one that did no work has none;        *)
(*   - a request denied did no work and never will;                        *)
(*   - only a request answered "unsure" may have done, or may still do,    *)
(*     work that no audit event will mention.                              *)
(* "denied" is a 4xx whose upstream call nobody repeated; "unsure" is any  *)
(* other failure, a 5xx as a rule, and a 4xx to a call that a proxy sent   *)
(* again: the first execution, which may have done the work, is hidden.    *)
(* Requests implements it.                                                 *)
(***************************************************************************)
CONSTANT Request

VARIABLES
  state,     \* [Request -> "idle", "open", "acked", "denied" or "unsure"]
  work,      \* [Request -> BOOLEAN] the work asked for was done upstream
  record,    \* [Request -> "none", "due" or "settled"] the emission of its audit event
  trail      \* the requests whose event the audit log holds

vars == <<state, work, record, trail>>

Init ==
  /\ state = [r \in Request |-> "idle"]
  /\ work = [r \in Request |-> FALSE]
  /\ record = [r \in Request |-> "none"]
  /\ trail = {}

Moves(r, from, to) == state[r] = from /\ state' = [state EXCEPT ![r] = to]

Open(r) == Moves(r, "idle", "open") /\ UNCHANGED <<work, record, trail>>

Work(r) ==
  /\ state[r] \in {"open", "unsure"} /\ ~work[r]
  /\ work' = [work EXCEPT ![r] = TRUE]
  /\ UNCHANGED <<state, record, trail>>

Ack(r) ==
  /\ work[r] /\ Moves(r, "open", "acked")
  /\ record' = [record EXCEPT ![r] = "due"]
  /\ UNCHANGED <<work, trail>>

AckRead(r) == ~work[r] /\ Moves(r, "open", "acked") /\ UNCHANGED <<work, record, trail>>

\* A request refused on arrival is opened and denied in one step.
Deny(r) ==
  /\ ~work[r]
  /\ Moves(r, "open", "denied") \/ Moves(r, "idle", "denied")
  /\ UNCHANGED <<work, record, trail>>

LeaveUnsure(r) == Moves(r, "open", "unsure") /\ UNCHANGED <<work, record, trail>>

Settle(r) ==
  /\ record[r] = "due"
  /\ record' = [record EXCEPT ![r] = "settled"]
  /\ UNCHANGED <<state, work, trail>>

Record(r) ==
  /\ record[r] # "none" /\ r \notin trail
  /\ trail' = trail \cup {r}
  /\ UNCHANGED <<state, work, record>>

Next == \E r \in Request : Open(r) \/ Work(r) \/ Ack(r) \/ AckRead(r) \/ Deny(r)
                             \/ LeaveUnsure(r) \/ Settle(r) \/ Record(r)

Spec == Init /\ [][Next]_vars
=============================================================================
