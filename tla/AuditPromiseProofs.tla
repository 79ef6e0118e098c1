------------------------- MODULE AuditPromiseProofs -------------------------
(***************************************************************************)
(* Requests implements AuditedOperation, for every number of requests and  *)
(* every behaviour of the upstreams; and without a repeating proxy, the    *)
(* audit trail explains what Persistence holds.                            *)
(***************************************************************************)
EXTENDS RequestsProofs

-----------------------------------------------------------------------------
(* The refinement of AuditedOperation                                      *)

\* What AuditedOperation sees of a request a step does not concern.
LEMMA SeenUnchanged ==
  ASSUME NEW q \in Request,
         UNCHANGED <<want[q], pc[q], resent[q], effect[q], response[q], emission[q], post[q]>>
  PROVE  /\ State(q)' = State(q) /\ Worked(q)' = Worked(q) /\ Record(q)' = Record(q)
         /\ q \in Audit!Recorded' <=> q \in Audit!Recorded
BY DEF State, Worked, Record, Succeeded, Refused, Denied, OpOf, Audit!Recorded, Audit!InFlight

\* What one request may do, as AuditedOperation sees it.
Promise(r) ==
  LET moves(from, to) == State(r) = from /\ State(r)' = to
      works   == Worked(r)' <=> Worked(r)
      records == Record(r)' = Record(r)
      keeps   == State(r)' = State(r)
      trails  == r \in Audit!Recorded' <=> r \in Audit!Recorded
  IN \/ keeps /\ works /\ records /\ trails
     \/ moves("idle", "open") /\ works /\ records /\ trails
     \/ keeps /\ State(r) \in {"open", "unsure"} /\ ~Worked(r) /\ Worked(r)' /\ records /\ trails
     \/ moves("open", "acked") /\ Worked(r) /\ works /\ Record(r)' = "due" /\ trails
     \/ moves("open", "acked") /\ ~Worked(r) /\ works /\ records /\ trails
     \/ (moves("open", "denied") \/ moves("idle", "denied")) /\ ~Worked(r) /\ works /\ records /\ trails
     \/ moves("open", "unsure") /\ works /\ records /\ trails
     \/ keeps /\ works /\ Record(r) = "due" /\ Record(r)' = "settled" /\ trails
     \/ keeps /\ works /\ records /\ Record(r) # "none" /\ r \notin Audit!Recorded /\ r \in Audit!Recorded'

\* A step of one request that leaves the others alone is a step of AuditedOperation.
LEMMA PromiseIsKept ==
  ASSUME NEW r \in Request, Promise(r),
         \A q \in Request \ {r} :
           UNCHANGED <<want[q], pc[q], resent[q], effect[q], response[q], emission[q], post[q]>>
  PROVE  [Audited!Next]_(Audited!vars)
<1> DEFINE states  == [q \in Request |-> State(q)]
           works   == [q \in Request |-> Worked(q)]
           records == [q \in Request |-> Record(q)]
<1>1. \A q \in Request \ {r} :
        /\ State(q)' = State(q) /\ Worked(q)' = Worked(q) /\ Record(q)' = Record(q)
        /\ q \in Audit!Recorded' <=> q \in Audit!Recorded
  BY SeenUnchanged
<1>2. /\ states' = [states EXCEPT ![r] = State(r)']
      /\ works' = [works EXCEPT ![r] = Worked(r)']
      /\ records' = [records EXCEPT ![r] = Record(r)']
  BY <1>1
<1>3. /\ State(r)' = State(r) => states' = states
      /\ (Worked(r)' <=> Worked(r)) => works' = works
      /\ Record(r)' = Record(r) => records' = records
  <2>1. (Worked(r)' <=> Worked(r)) => Worked(r)' = Worked(r)
    BY Zenon DEF Worked
  <2> QED
    BY <1>1, <2>1
<1>4. /\ (r \in Audit!Recorded' <=> r \in Audit!Recorded) => Audit!Recorded' = Audit!Recorded
      /\ r \in Audit!Recorded' => Audit!Recorded' = Audit!Recorded \cup {r}
  BY <1>1 DEF Audit!Recorded
<1> QED
  BY <1>2, <1>3, <1>4 DEF Promise, Audited!Next, Audited!vars, Audited!Open, Audited!Work, Audited!Ack, Audited!AckRead,
     Audited!Deny, Audited!LeaveUnsure, Audited!Settle, Audited!Record, Audited!Moves

\* Between two invariant states every step, of a handler, an upstream, a client or an
\* emission, is one AuditedOperation allows.
LEMMA StepIsKept ==
  ASSUME IInv, IInv', [Next]_vars
  PROVE  [Audited!Next]_(Audited!vars)
<1> DEFINE Others(r) == \A q \in Request \ {r} :
             UNCHANGED <<want[q], pc[q], resent[q], effect[q], response[q], emission[q], post[q]>>
<1>0. /\ TypeOK /\ TypeOK' /\ Audit!TypeOK /\ Audit!TypeOK'
      /\ \A r \in Request : RequestInv(r) /\ RequestInv(r)'
  BY DEF IInv, TypeOK
<1>1. CASE UNCHANGED vars
  <2>1. \A q \in Request : UNCHANGED <<want[q], pc[q], resent[q], effect[q], response[q], emission[q], post[q]>>
    BY <1>1 DEF vars, auditVars
  <2>2. \A q \in Request :
          /\ State(q)' = State(q) /\ Worked(q)' = Worked(q) /\ Record(q)' = Record(q)
          /\ q \in Audit!Recorded' <=> q \in Audit!Recorded
    BY <2>1, SeenUnchanged
  <2> QED
    BY <2>2 DEF Audited!vars, Audit!Recorded
<1>2. ASSUME NEW r \in Request, Reject(r)
      PROVE  Promise(r) /\ Others(r)
  <2>1. PICK op \in Operations, sum \in Sum, status \in 400..499 :
          Asks(r, op, sum, Absent) /\ Answer(r, status, Absent)
    BY <1>2, RejectionsAre4xx DEF Reject
  <2>2. /\ pc[r] = "idle" /\ effect[r] = 0 /\ resent[r] = 0
        /\ want' = [want EXCEPT ![r] = [op |-> op, sum |-> sum, text |-> Absent]]
        /\ pc' = [pc EXCEPT ![r] = "answered"]
        /\ response' = [response EXCEPT ![r] = [status |-> status, text |-> Absent]]
        /\ UNCHANGED <<call, resent, effect, auditVars>>
    BY <1>0, <1>2, <2>1 DEF Reject, Asks, Answer, Response, RequestInv, HandlerInv
  <2>3. Others(r)
    BY <1>0, <2>2 DEF TypeOK, auditVars
  <2>4. State(r) = "idle" /\ State(r)' = "denied"
    BY <1>0, <2>2 DEF TypeOK, State, Succeeded, Refused, Denied, IsSuccess
  <2>5. ~Worked(r) /\ ~Worked(r)' /\ Record(r)' = Record(r) /\ (r \in Audit!Recorded' <=> r \in Audit!Recorded)
    BY <2>2 DEF Worked, Record, Audit!Recorded, Audit!InFlight, auditVars
  <2> QED
    BY <2>3, <2>4, <2>5 DEF Promise
<1>3. ASSUME NEW r \in Request, Start(r)
      PROVE  Promise(r) /\ Others(r)
  <2>1. PICK op \in Operations, sum \in Sum, text \in Contents :
          /\ Asks(r, op, sum, text)
          /\ pc' = [pc EXCEPT ![r] = IF op = "extract" THEN "lookup" ELSE op]
    BY <1>3, PDFTextsAssumption DEF Start, Carried, Contents
  <2>2. /\ pc[r] = "idle" /\ effect[r] = 0
        /\ want' = [want EXCEPT ![r] = [op |-> op, sum |-> sum, text |-> text]]
        /\ UNCHANGED <<resent, effect, response, auditVars>>
    BY <1>0, <1>3, <2>1 DEF Start, Asks, RequestInv, HandlerInv
  <2>3. Others(r)
    BY <1>0, <2>1, <2>2 DEF TypeOK, auditVars
  <2>4. State(r) = "idle" /\ State(r)' = "open"
    BY <1>0, <2>1, <2>2, OperationsAssumption DEF TypeOK, State
  <2>5. ~Worked(r) /\ ~Worked(r)' /\ Record(r)' = Record(r) /\ (r \in Audit!Recorded' <=> r \in Audit!Recorded)
    BY <2>2 DEF Worked, Record, Audit!Recorded, Audit!InFlight, auditVars
  <2> QED
    BY <2>3, <2>4, <2>5 DEF Promise
<1>4. ASSUME NEW r \in Request, NEW status \in Nat, NEW text \in Contents,
             EndsAudited(r, status, text) \/ EndsQuietly(r, status, text)
      PROVE  Promise(r) /\ Others(r)
  <2>1. /\ pc[r] \notin {"idle", "answered"} /\ pc' = [pc EXCEPT ![r] = "answered"]
        /\ response' = [response EXCEPT ![r] = [status |-> status, text |-> text]]
        /\ UNCHANGED <<want, call, resent, effect, gone, store>>
    BY <1>4 DEF EndsAudited, EndsQuietly, Ends, Answer, Response
  <2>2. UNCHANGED post /\ emission[r] = "none" /\ \A q \in Request \ {r} : emission'[q] = emission[q]
    <3>1. emission[r] = "none"
      BY <1>0, <2>1 DEF RequestInv, HandlerInv
    <3>2. CASE EndsAudited(r, status, text)
      BY <1>0, <3>1, <3>2 DEF EndsAudited, Audit!LogAsync, Audit!TypeOK
    <3>3. CASE EndsQuietly(r, status, text)
      BY <3>1, <3>3 DEF EndsQuietly, auditVars
    <3> QED
      BY <1>4, <3>1, <3>2, <3>3
  <2>3. Others(r)
    BY <1>0, <2>1, <2>2 DEF TypeOK
  <2>4. /\ State(r) = "open"
        /\ State(r)' = IF IsSuccess(status) THEN "acked"
                       ELSE IF status \in 400..499 /\ resent[r] = 0 THEN "denied" ELSE "unsure"
    BY <1>0, <2>1 DEF TypeOK, State, Succeeded, Refused, Denied
  <2>5. (Worked(r)' <=> Worked(r)) /\ (r \in Audit!Recorded' <=> r \in Audit!Recorded) /\ Record(r) = "none"
    BY <2>1, <2>2 DEF Worked, OpOf, Audit!Recorded, Record
  <2>6. CASE EndsAudited(r, status, text)
    <3>1. Record(r)' = "due"
      BY <1>0, <2>6 DEF EndsAudited, Audit!LogAsync, Audit!TypeOK, Audit!InFlight, Record
    <3> QED
      BY <2>3, <2>4, <2>5, <2>6, <3>1 DEF EndsAudited, Promise
  <2>7. CASE EndsQuietly(r, status, text)
    <3>1. Record(r)' = Record(r)
      BY <2>7 DEF EndsQuietly, auditVars, Record, Audit!InFlight
    <3> QED
      BY <2>3, <2>4, <2>5, <2>7, <3>1 DEF EndsQuietly, Promise
  <2> QED
    BY <1>4, <2>6, <2>7
<1>5. ASSUME NEW r \in Request, LookupFails(r) \/ Resend(r) \/ Disconnect(r)
      PROVE  Promise(r) /\ Others(r)
  <2>1. /\ pc[r] \notin {"idle", "answered"} /\ pc'[r] \notin {"idle", "answered"}
        /\ \A q \in Request \ {r} : pc'[q] = pc[q] /\ resent'[q] = resent[q]
        /\ UNCHANGED <<want, effect, response, auditVars>>
    <3>1. pc[r] \notin {"idle", "answered"}
      BY <1>0, <1>5, SameUpstream DEF LookupFails, Resend, Disconnect, RequestInv, HandlerInv
    <3>2. CASE LookupFails(r)
      BY <1>0, <3>1, <3>2 DEF LookupFails, TypeOK
    <3>3. CASE Resend(r)
      BY <1>0, <3>1, <3>3 DEF Resend, TypeOK
    <3>4. CASE Disconnect(r)
      BY <3>1, <3>4 DEF Disconnect
    <3> QED
      BY <1>5, <3>2, <3>3, <3>4
  <2>2. Others(r)
    BY <2>1 DEF auditVars
  <2>3. State(r) = "open" /\ State(r)' = "open"
    BY <2>1 DEF State
  <2>4. (Worked(r)' <=> Worked(r)) /\ Record(r)' = Record(r) /\ (r \in Audit!Recorded' <=> r \in Audit!Recorded)
    BY <2>1 DEF Worked, OpOf, Record, Audit!Recorded, Audit!InFlight, auditVars
  <2> QED
    BY <2>2, <2>3, <2>4 DEF Promise
<1>6. ASSUME NEW r \in Request, Upstreams(r)
      PROVE  Promise(r) /\ Others(r)
  <2>1. PICK reply \in Answers : Executes(r, reply)
    BY <1>6, UpstreamAnswers
  <2>2. call[r] = Wire /\ UNCHANGED <<want, pc, resent, response, gone, auditVars>>
    BY <2>1 DEF Executes
  <2>3. effect'[r] \in {effect[r], effect[r] + 1} /\ \A q \in Request \ {r} : effect'[q] = effect[q]
    <3>1. CASE UNCHANGED effect
      BY <3>1
    <3>2. CASE effect' = [effect EXCEPT ![r] = @ + 1]
      BY <1>0, <3>2 DEF TypeOK
    <3> QED
      BY <2>1, <3>1, <3>2 DEF Executes
  <2>4. Others(r)
    BY <2>2, <2>3 DEF auditVars
  <2>5. State(r) \in {"open", "unsure"} /\ State(r)' = State(r)
    BY <1>0, <2>2, SameUpstream DEF RequestInv, HandlerInv, AnswerInv, State, Succeeded, Refused, Denied
  <2>6. Worked(r) => Worked(r)'
    BY <1>0, <2>2, <2>3 DEF TypeOK, Worked, OpOf
  <2>7. Record(r)' = Record(r) /\ (r \in Audit!Recorded' <=> r \in Audit!Recorded)
    BY <2>2 DEF Record, Audit!Recorded, Audit!InFlight, auditVars
  <2> QED
    BY <2>4, <2>5, <2>6, <2>7 DEF Promise
<1>7. ASSUME NEW r \in Request, Emits(r)
      PROVE  Promise(r) /\ Others(r)
  <2>1. /\ UNCHANGED <<want, pc, call, resent, effect, response, gone, store>>
        /\ \A q \in Request \ {r} : emission'[q] = emission[q] /\ post'[q] = post[q]
    BY <1>0, <1>7 DEF Emits, Audit!Goroutine, Audit!Post, Audit!EmitReturns, Audit!Auda, Audit!TypeOK
  <2>2. Others(r)
    BY <2>1
  <2>3. State(r)' = State(r) /\ (Worked(r)' <=> Worked(r))
    BY <2>1 DEF State, Succeeded, Refused, Denied, Worked, OpOf
  <2>4. CASE Audit!Post(r)
    <3>1. post[r] = Unsent /\ post'[r] = Wire /\ Record(r) = "due" /\ Record(r)' = "due"
      BY <1>0, <2>4, SameUpstream DEF IInv, EmissionInv, Audit!Post, Audit!TypeOK, Audit!InFlight, Record
    <3> QED
      BY <2>2, <2>3, <3>1, SameUpstream DEF Audit!Recorded, Promise
  <2>5. CASE Audit!EmitReturns(r)
    <3>1. Record(r) = "due" /\ Record(r)' = "settled" /\ UNCHANGED post
      BY <1>0, <2>5 DEF Audit!EmitReturns, Audit!Outcome, Audit!TypeOK, Audit!InFlight, Record
    <3> QED
      BY <2>2, <2>3, <3>1 DEF Audit!Recorded, Promise
  <2>6. CASE Audit!Auda(r)
    <3>1. post[r] = Wire /\ UNCHANGED emission
      BY <2>6, SameUpstream DEF Audit!Auda
    <3>2. Record(r) # "none" /\ Record(r)' = Record(r)
      BY <3>1, SameUpstream DEF IInv, EmissionInv, Record, Audit!InFlight
    <3>3. r \notin Audit!Recorded
      BY <3>1, SameUpstream DEF Audit!Recorded
    <3> QED
      BY <2>2, <2>3, <3>2, <3>3 DEF Promise
  <2> QED
    BY <1>7, <2>4, <2>5, <2>6 DEF Emits, Audit!Goroutine
<1>8. ASSUME NEW r \in Request, Handler(r)
      PROVE  Promise(r) /\ Others(r)
  BY <1>4, <1>5, <1>8, HandlerAnswers
<1>9. CASE Next
  <2>1. PICK r \in Request : Promise(r) /\ Others(r)
    BY <1>2, <1>3, <1>5, <1>6, <1>7, <1>8, <1>9 DEF Next
  <2> QED
    BY <2>1, PromiseIsKept
<1> QED
  BY <1>1, <1>9

LEMMA StartsPromise == Init => Audited!Init
<1> SUFFICES ASSUME Init PROVE Audited!Init
  OBVIOUS
<1>1. \A r \in Request : /\ State(r) = "idle" /\ Record(r) = "none" /\ r \notin Audit!Recorded
                         /\ Worked(r) = FALSE
  BY SameUpstream DEF Init, Audit!Init, State, Record, Audit!Recorded, Worked
<1>2. Audit!Recorded = {}
  BY <1>1 DEF Audit!Recorded
<1> QED
  BY <1>1, <1>2 DEF Audited!Init

\* For every request the client and the auditor are promised what AuditedOperation says:
\* acknowledged work has its event due at that moment, denied work never happens, and only
\* work behind an "unsure" answer may go unaudited.
THEOREM PromiseKept == Spec => KeepsAuditPromise
<1>1. IInv /\ IInv' /\ [Next]_vars => [Audited!Next]_(Audited!vars)
  BY StepIsKept
<1> QED
  BY <1>1, StartsPromise, Inductive, PTL DEF Spec, KeepsAuditPromise, Audited!Spec
-----------------------------------------------------------------------------
(* The trail and the store                                                 *)

\* The requests that did their work on a checksum.
DoneOn(s, op) == {r \in Request : effect[r] > 0 /\ want[r].sum = s /\ OpOf(r) = op}

\* While each call is sent once, a stored text is one creation more than deletions.
TrailInv ==
  /\ \A r \in Request : OpOf(r) = "create" /\ call[r] # Unsent => want[r].text \in Texts
  /\ \A s \in Sum : Cardinality(DoneOn(s, "create")) =
       Cardinality(DoneOn(s, "delete")) + (IF store[s] # Absent THEN 1 ELSE 0)

LEMMA DoneFinite == \A s, op : IsFiniteSet(DoneOn(s, op))
BY RequestAssumption, FS_Subset DEF DoneOn

\* What a step leaves alone, or concerns a request that has done nothing and does nothing.
LEMMA TrailUntouched ==
  ASSUME TrailInv, UNCHANGED store,
         \A q \in Request : effect[q] > 0 \/ effect'[q] > 0 => effect'[q] = effect[q] /\ want'[q] = want[q],
         \A q \in Request : OpOf(q)' = "create" /\ call'[q] # Unsent => want'[q].text \in Texts
  PROVE  TrailInv'
<1>1. ASSUME NEW s, NEW op
      PROVE  DoneOn(s, op)' = DoneOn(s, op)
  <2>1. \A q \in Request : (effect'[q] > 0 /\ want'[q].sum = s /\ want'[q].op = op)
                         <=> (effect[q] > 0 /\ want[q].sum = s /\ want[q].op = op)
    BY Zenon
  <2> QED
    BY <2>1 DEF DoneOn, OpOf
<1>2. \A s \in Sum : DoneOn(s, "create")' = DoneOn(s, "create") /\ DoneOn(s, "delete")' = DoneOn(s, "delete")
  BY <1>1
<1> QED
  BY <1>2 DEF TrailInv

\* The work of a call is done at most once; it is counted when the store changes.
LEMMA UpstreamsKeepTrail ==
  ASSUME Resends = 0, IInv, TrailInv, NEW r \in Request, Upstreams(r)
  PROVE  TrailInv'
<1>1. /\ call[r] = Wire /\ UNCHANGED want /\ effect[r] = 0
      /\ store \in [Sum -> Contents] /\ effect \in [Request -> Nat]
      /\ OpOf(r) = "create" => want[r].text \in Texts
      /\ OpOf(r) # "none"
  <2>1. call[r] = Wire /\ UNCHANGED want /\ RequestInv(r)
    BY DEF Upstreams, IInv
  <2>2. effect[r] = 0
    <3>1. resent[r] = 0 /\ effect[r] \in Nat
      BY DEF IInv, TypeOK
    <3> QED
      BY <2>1, <3>1, SameUpstream DEF RequestInv, WorkInv
  <2>3. OpOf(r) # "none"
    BY <2>1, SameUpstream, OperationsAssumption DEF RequestInv, HandlerInv
  <2> QED
    BY <2>1, <2>2, <2>3, SameUpstream DEF IInv, TypeOK, TrailInv
<1>2. want[r].sum \in Sum /\ Absent \notin Texts
  BY <1>1, AbsentAssumption DEF IInv, TypeOK, Idle, OpOf
<1>3. \A q \in Request : OpOf(q)' = OpOf(q) /\ want'[q] = want[q]
  BY <1>1 DEF OpOf
<1>4. \A q \in Request : OpOf(q)' = "create" /\ call'[q] # Unsent => want'[q].text \in Texts
  <2>1. PICK reply \in Answers : Executes(r, reply)
    BY UpstreamAnswers
  <2>2. \A q \in Request \ {r} : call'[q] = call[q]
    BY <2>1 DEF Executes, IInv, TypeOK
  <2> QED
    BY <1>1, <1>3, <2>2 DEF TrailInv
<1>5. CASE UNCHANGED <<effect, store>>
  BY <1>3, <1>4, <1>5, TrailUntouched
<1>6. ASSUME Done(r)
      PROVE  \A s, op : DoneOn(s, op)' = IF want[r].sum = s /\ OpOf(r) = op THEN DoneOn(s, op) \cup {r}
                                                                        ELSE DoneOn(s, op)
  <2>1. effect' = [effect EXCEPT ![r] = effect[r] + 1]
    BY <1>6 DEF Done
  <2>2. effect'[r] > 0 /\ \A q \in Request \ {r} : effect'[q] = effect[q]
    BY <1>1, <2>1
  <2> QED
    BY <1>1, <1>3, <2>2 DEF DoneOn
<1>7. \A s, op : /\ r \notin DoneOn(s, op)
                /\ Cardinality(DoneOn(s, op)) \in Nat
                /\ Cardinality(DoneOn(s, op) \cup {r}) = Cardinality(DoneOn(s, op)) + 1
  <2>1. \A s, op : r \notin DoneOn(s, op)
    BY <1>1 DEF DoneOn
  <2> QED
    BY <2>1, DoneFinite, FS_AddElement, FS_CardinalityType
<1>8. \A s \in Sum : Cardinality(DoneOn(s, "create")) =
        Cardinality(DoneOn(s, "delete")) + (IF store[s] # Absent THEN 1 ELSE 0)
  BY DEF TrailInv
<1>9. CASE Stores(r)
  <2>1. /\ OpOf(r) = "create" /\ store[want[r].sum] = Absent /\ Done(r)
        /\ store'[want[r].sum] # Absent /\ \A s \in Sum \ {want[r].sum} : store'[s] = store[s]
    BY <1>1, <1>2, <1>9 DEF Stores, OpOf
  <2>2. \A s \in Sum : Cardinality(DoneOn(s, "create")') =
          Cardinality(DoneOn(s, "delete")') + (IF store'[s] # Absent THEN 1 ELSE 0)
    <3> TAKE s \in Sum
    <3>1. DoneOn(s, "delete")' = DoneOn(s, "delete")
      BY <1>6, <2>1
    <3>2. CASE s = want[r].sum
      BY <1>2, <1>6, <1>7, <1>8, <2>1, <3>1, <3>2
    <3>3. CASE s # want[r].sum
      BY <1>6, <1>8, <2>1, <3>1, <3>3
    <3> QED
      BY <3>2, <3>3
  <2> QED
    BY <1>4, <2>2 DEF TrailInv
<1>10. CASE Deletes(r)
  <2>1. /\ OpOf(r) = "delete" /\ store[want[r].sum] # Absent /\ Done(r)
        /\ store'[want[r].sum] = Absent /\ \A s \in Sum \ {want[r].sum} : store'[s] = store[s]
    BY <1>1, <1>2, <1>10 DEF Deletes, OpOf
  <2>2. \A s \in Sum : Cardinality(DoneOn(s, "create")') =
          Cardinality(DoneOn(s, "delete")') + (IF store'[s] # Absent THEN 1 ELSE 0)
    <3> TAKE s \in Sum
    <3>1. DoneOn(s, "create")' = DoneOn(s, "create")
      BY <1>6, <2>1
    <3>2. CASE s = want[r].sum
      BY <1>2, <1>6, <1>7, <1>8, <2>1, <3>1, <3>2
    <3>3. CASE s # want[r].sum
      BY <1>6, <1>8, <2>1, <3>1, <3>3
    <3> QED
      BY <3>2, <3>3
  <2> QED
    BY <1>4, <2>2 DEF TrailInv
<1>11. CASE Updates(r) \/ Extracts(r)
  <2>1. OpOf(r) \in {"update", "extract"} /\ Done(r) /\ UNCHANGED store
    BY <1>11 DEF Updates, Extracts, AtExtract, OpOf
  <2>2. \A s : DoneOn(s, "create")' = DoneOn(s, "create") /\ DoneOn(s, "delete")' = DoneOn(s, "delete")
    BY <1>6, <2>1
  <2> QED
    BY <1>4, <1>8, <2>1, <2>2 DEF TrailInv
<1> QED
  BY <1>5, <1>9, <1>10, <1>11 DEF Upstreams, Reads, Lists, Conflicts, Misses, Refuses

LEMMA NextTrailInv ==
  ASSUME Resends = 0, IInv, TrailInv, [Next]_vars
  PROVE  TrailInv'
<1>1. CASE UNCHANGED vars
  BY <1>1, TrailUntouched DEF vars, TrailInv, OpOf
<1>2. ASSUME NEW r \in Request, Reject(r)
      PROVE  TrailInv'
  <2>1. /\ effect[r] = 0 /\ call[r] = Unsent /\ UNCHANGED <<call, effect, store>>
        /\ \A q \in Request \ {r} : want'[q] = want[q]
    BY <1>2 DEF Reject, Asks, IInv, TypeOK, RequestInv, HandlerInv
  <2> QED
    BY <2>1, TrailUntouched DEF TrailInv, OpOf
<1>3. ASSUME NEW r \in Request, Start(r)
      PROVE  TrailInv'
  <2>1. PICK op \in Operations, sum \in Sum : \E text \in Carried(op, sum) : Asks(r, op, sum, text)
    BY <1>3 DEF Start
  <2>2. OpOf(r)' = "create" => want'[r].text \in Texts
    BY <2>1 DEF Asks, Carried, OpOf, IInv, TypeOK
  <2>3. effect[r] = 0 /\ UNCHANGED <<effect, store>>
        /\ \A q \in Request \ {r} : want'[q] = want[q] /\ call'[q] = call[q]
    BY <1>3 DEF Start, Asks, IInv, TypeOK, RequestInv, HandlerInv
  <2> QED
    BY <2>2, <2>3, TrailUntouched DEF TrailInv, OpOf
<1>4. ASSUME NEW r \in Request, Handler(r)
      PROVE  TrailInv'
  <2>1. CASE LookupFails(r)
    <3>1. OpOf(r) = "extract" /\ UNCHANGED <<want, effect, store>> /\ \A q \in Request \ {r} : call'[q] = call[q]
      BY <2>1 DEF LookupFails, IInv, TypeOK, RequestInv, HandlerInv
    <3> QED
      BY <3>1, TrailUntouched DEF TrailInv, OpOf
  <2>2. CASE \E status \in Nat, text \in Contents : EndsAudited(r, status, text) \/ EndsQuietly(r, status, text)
    BY <2>2, TrailUntouched DEF EndsAudited, EndsQuietly, Ends, TrailInv, OpOf
  <2> QED
    BY <1>4, <2>1, <2>2, HandlerAnswers
<1>5. ASSUME NEW r \in Request, Disconnect(r) \/ Emits(r)
      PROVE  TrailInv'
  BY <1>5, TrailUntouched DEF Disconnect, Emits, TrailInv, OpOf
<1>6. ASSUME NEW r \in Request
      PROVE  ~Resend(r)
  BY DEF Resend, IInv, TypeOK
<1> QED
  BY <1>1, <1>2, <1>3, <1>4, <1>5, <1>6, UpstreamsKeepTrail DEF Next

\* As long as no proxy sends a call twice: once every request on a checksum has a definite
\* answer and no emission is pending, the recorded events tell whether Persistence holds a
\* text for it.
THEOREM TrailIsExact ==
  ASSUME Resends = 0
  PROVE  Spec => []TrailExplainsStore
<1>1. Init => TrailInv
  <2> SUFFICES ASSUME Init PROVE TrailInv
    OBVIOUS
  <2>1. \A s, op : DoneOn(s, op) = {}
    BY DEF Init, DoneOn
  <2> QED
    BY <2>1, FS_EmptySet DEF Init, TrailInv
<1>2. IInv /\ TrailInv /\ [Next]_vars => TrailInv'
  BY NextTrailInv
<1>3. ASSUME IInv, TrailInv, NEW s \in Sum, Definite(s)
      PROVE  (store[s] # Absent) <=> (Cardinality(OnSum(s, "create") \cap Audit!Recorded)
                                        > Cardinality(OnSum(s, "delete") \cap Audit!Recorded))
  <2>1. ASSUME NEW op \in {"create", "delete"}
        PROVE  OnSum(s, op) \cap Audit!Recorded = DoneOn(s, op)
    <3>1. ASSUME NEW r \in Request, want[r].sum = s, OpOf(r) = op
          PROVE  r \in Audit!Recorded <=> effect[r] > 0
      <4>1. AnswerInv(r) /\ resent[r] = 0 /\ (Worked(r) <=> effect[r] > 0)
        BY <1>3, <3>1 DEF IInv, TypeOK, RequestInv, Worked
      <4>2. r \in Audit!Recorded => emission[r] # "none"
        BY <1>3, SameUpstream DEF IInv, EmissionInv, Audit!Recorded
      <4>3. (Succeeded(r) \/ Denied(r)) /\ (emission[r] # "none" => r \in Audit!Recorded)
        BY <1>3, <3>1 DEF Definite, Audit!Scheduled
      <4> QED
        BY <4>1, <4>2, <4>3 DEF AnswerInv, Refused
    <3> QED
      BY <3>1 DEF OnSum, DoneOn, Audit!Recorded
  <2>2. Cardinality(DoneOn(s, "create")) \in Nat /\ Cardinality(DoneOn(s, "delete")) \in Nat
    BY DoneFinite, FS_CardinalityType
  <2>3. Cardinality(DoneOn(s, "create")) =
          Cardinality(DoneOn(s, "delete")) + (IF store[s] # Absent THEN 1 ELSE 0)
    BY <1>3 DEF TrailInv
  <2>4. (store[s] # Absent) <=> (Cardinality(DoneOn(s, "create")) > Cardinality(DoneOn(s, "delete")))
    BY <2>2, <2>3
  <2> QED
    BY <2>1, <2>4
<1>4. IInv /\ TrailInv => TrailExplainsStore
  BY <1>3 DEF TrailExplainsStore
<1> QED
  BY <1>1, <1>2, <1>4, Inductive, PTL DEF Spec
=============================================================================
