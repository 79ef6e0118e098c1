---------------------------- MODULE ServerProofs ----------------------------
(***************************************************************************)
(* For every set of statuses and every panic of a handler: one document at *)
(* most, WriteProblem tells exactly what a client sees, and so does the    *)
(* log line, for a status that is sent as it is given; with such statuses  *)
(* every panic is a 500.  For every set of dependencies: /readyz tells the *)
(* truth.                                                                  *)
(***************************************************************************)
EXTENDS Server, FiniteSetTheorems, TLAPS

\* The part of TypeOK that does not concern the readiness check.
ResponseTypeOK ==
  /\ pc \in {"idle", "handler", "checking", "body", "written", "panicking",
             "returned", "logged", "done"}
  /\ kind \in Kinds \cup {"none"}
  /\ recorded \in Nat /\ sent \in Nat /\ documents \in Nat
  /\ declared \in Nat

\* Before the document there is none; while the handler panics, a document in
\* the body implies that the recorder knows of it.
DocumentInv ==
  /\ pc \in {"idle", "handler", "checking", "body"} => documents = 0
  /\ documents <= 1
  /\ pc = "panicking" /\ documents = 1 => WrittenStatus # 0
  /\ pc \in {"body", "written"} /\ HasRecorder => recorded # 0

\* What the client has got so far agrees with what WriteProblem says of it.
StatusInv ==
  /\ pc \in {"idle", "handler", "checking"} => sent = 0 /\ recorded = 0 /\ declared = 0
  /\ kind \in Probes => declared \in {0, 200, 503}
  /\ pc = "body" => declared \in 100..999
                    /\ sent = IF IsFinal(declared) THEN declared ELSE 0
  /\ pc = "written" /\ ~crashed => sent = WriteProblem(declared)
  /\ pc = "panicking" /\ ~crashed => /\ declared \notin 100..999 /\ sent = 0
                                     /\ HasRecorder /\ recorded = declared
  /\ pc \in {"returned", "logged", "done"} /\ ~crashed => Implicit = WriteProblem(declared)
  /\ pc = "done" /\ ~crashed => sent = WriteProblem(declared)

IInv == ResponseTypeOK /\ DocumentInv /\ StatusInv

LEMMA InitIInv == Init => IInv
BY DEF Init, IInv, ResponseTypeOK, DocumentInv, StatusInv, HasRecorder, WrittenStatus, Probes, Kinds

\* The statuses a handler may declare: those of a probe are final ones.
LEMMA HandleIInv == IInv /\ Handle => IInv'
<1> SUFFICES ASSUME IInv, Handle PROVE IInv'
  OBVIOUS
<1>1. PICK status \in Declares : WriteHeader(status)
  BY DEF Handle
<1>2. status \in Nat /\ (kind \in Probes => status \in {200, 503})
  BY <1>1, StatusesAssumption DEF Declares, Probes, Handle, IInv, ResponseTypeOK, Kinds
<1> QED
  BY <1>1, <1>2 DEF Handle, WriteHeader, IInv, ResponseTypeOK, DocumentInv, StatusInv,
     HasRecorder, WrittenStatus, Probes, Kinds, IsFinal, Implicit, WriteProblem

LEMMA ReadyIInv == IInv /\ Ready => IInv'
<1> SUFFICES ASSUME IInv, Ready PROVE IInv'
  OBVIOUS
<1>1. PICK status \in {200, 503} : WriteHeader(status)
  BY DEF Ready
<1> QED
  BY <1>1 DEF Ready, WriteHeader, IInv, ResponseTypeOK, DocumentInv, StatusInv,
     HasRecorder, WrittenStatus, Probes, Kinds, IsFinal, Implicit, WriteProblem

\* Every step keeps the invariant; the readiness check does not touch it.
LEMMA NextIInv == IInv /\ [Next]_vars => IInv'
<1> SUFFICES ASSUME IInv, [Next]_vars PROVE IInv'
  OBVIOUS
<1> USE DEF IInv, ResponseTypeOK, DocumentInv, StatusInv, HasRecorder, WrittenStatus,
            Probes, Kinds, responseVars
<1>1. CASE Arrive
  BY <1>1 DEF Arrive
<1>2. CASE Preflight
  BY <1>2 DEF Preflight, Implicit, WriteProblem, IsFinal
<1>3. CASE Handle
  BY <1>3, HandleIInv
<1>4. CASE StartCheck
  BY <1>4 DEF StartCheck
<1>5. CASE Ready
  BY <1>5, ReadyIInv
<1>6. CASE Encode
  BY <1>6 DEF Encode, Implicit, WriteProblem, IsFinal
<1>7. CASE Return
  BY <1>7 DEF Return, Implicit, WriteProblem, IsFinal
<1>8. CASE Crash
  BY <1>8 DEF Crash
<1>9. CASE Recover
  BY <1>9 DEF Recover, Implicit, WriteProblem, IsFinal
<1>10. CASE Log
  BY <1>10 DEF Log, Implicit
<1>11. CASE Finish
  BY <1>11 DEF Finish, Implicit
<1>12. CASE Check \/ (\E s \in Service : Dependency(s)) \/ UNCHANGED vars
  BY <1>12 DEF Check, Dependency, vars, Implicit
<1> QED
  BY <1>1, <1>2, <1>3, <1>4, <1>5, <1>6, <1>7, <1>8, <1>9, <1>10, <1>11, <1>12 DEF Next, Chain

\* The invariant holds in every state the request can reach.
THEOREM Inductive == Spec => []IInv
BY InitIInv, NextIInv, PTL DEF Spec

\* However a handler fails, the body holds one document at most.
THEOREM AtMostOneDocument == Spec => []OneDocument
<1>1. IInv => OneDocument
  BY DEF IInv, DocumentInv, OneDocument
<1> QED
  BY <1>1, Inductive, PTL

\* Unless the handler itself panics, the client gets what WriteProblem says, for
\* every status a handler may pass on.
THEOREM SummaryIsExact == Spec => []WriteProblemIsExact
<1>1. IInv => WriteProblemIsExact
  BY DEF IInv, StatusInv, WriteProblemIsExact
<1> QED
  BY <1>1, Inductive, PTL
-----------------------------------------------------------------------------
Running == {s \in Service : probe[s] = "running"}

\* The counter is exact, so a check that has waited for it has all its verdicts.
CheckInv ==
  /\ Readiness!TypeOK
  /\ pending = Cardinality(Running)
  /\ \A s \in Service : probe[s] = "ok" => IsSuccess(answer[s].code)
  /\ \A s \in Service : probe[s] = "none" => answer[s] = Unsent
  /\ \A s \in Service : answer[s] = Unsent => probe[s] = "none"
  /\ report = "none" <=> check # "reported"
  /\ check = "reported" => \A s \in Service : probe[s] \in {"ok", "down"}
  /\ report = "ok" => \A s \in Service : probe[s] = "ok"
  /\ report = "degraded" => \E s \in Service : probe[s] = "down"

\* What /readyz has declared is what its check has found; a panic before it
\* declares anything ends as a 500.
ReadyInv ==
  /\ pc \in {"idle", "handler", "checking"} => ~crashed
  /\ kind = "readyz" =>
      /\ declared = 200 => report = "ok"
      /\ declared = 503 => report = "degraded"
      /\ pc \in {"body", "written"} => ~crashed
      /\ crashed => declared = 0
      /\ pc = "panicking" => sent = 0
      /\ crashed /\ pc \in {"returned", "logged", "done"} => sent = 500

\* Health has its own copies of the definitions of Upstream.
LEMMA SameUpstream ==
  /\ Readiness!Wire = Wire /\ Readiness!Unsent = Unsent /\ Wire # Unsent
  /\ \A code : Readiness!IsSuccess(code) <=> IsSuccess(code)
  /\ ~IsSuccess(Wire.code) /\ ~IsSuccess(Unsent.code)
<1>1. /\ Readiness!Wire = Wire /\ Readiness!Unsent = Unsent
      /\ Wire.code = 0 /\ Unsent.code = 0 /\ Wire.body = "wire" /\ Unsent.body = "unsent"
  BY DEF Readiness!Wire, Readiness!Unsent, Wire, Unsent, Reply, Readiness!Reply
<1>2. ~IsSuccess(0) /\ \A code : Readiness!IsSuccess(code) <=> IsSuccess(code)
  BY DEF Readiness!IsSuccess, IsSuccess
<1>3. Wire # Unsent
  BY <1>1
<1> QED
  BY <1>1, <1>2, <1>3

LEMMA RunningFinite == IsFiniteSet(Running) /\ Cardinality(Running) \in Nat
BY ServiceAssumption, FS_Subset, FS_CardinalityType DEF Running

\* One more goroutine is running, one more is counted.
LEMMA SpawnCheckInv ==
  ASSUME CheckInv, NEW s \in Service, Readiness!Spawn(s)
  PROVE  CheckInv'
<1> USE DEF CheckInv, Readiness!TypeOK, Readiness!Spawn
<1>1. Running' = Running \cup {s} /\ s \notin Running
  BY DEF Running
<1>2. (pending = Cardinality(Running))'
  BY <1>1, RunningFinite, FS_AddElement
<1>3. Readiness!TypeOK'
  OBVIOUS
<1> QED
  BY <1>2, <1>3, SameUpstream

\* A verdict ends one of the running goroutines and is not changed afterwards.
LEMMA SettleCheckInv ==
  ASSUME CheckInv, NEW s \in Service, Readiness!Settle(s)
  PROVE  CheckInv'
<1> USE DEF CheckInv, Readiness!TypeOK, Readiness!Settle
<1>1. Running' = Running \ {s} /\ s \in Running
  BY DEF Running
<1>2. (pending = Cardinality(Running))' /\ pending' \in Nat
  <2>1. /\ Cardinality(Running \ {s}) = Cardinality(Running) - 1
        /\ Cardinality(Running \ {s}) \in Nat
    BY <1>1, RunningFinite, FS_RemoveElement, FS_CardinalityType
  <2> QED
    BY <1>1, <2>1
<1>3. Readiness!TypeOK'
  BY <1>2
<1>4. report # "ok"
  OBVIOUS
<1>5. probe'[s] = "ok" => IsSuccess(answer[s].code)
  BY SameUpstream
<1>6. \A q \in Service \ {s} : probe'[q] = probe[q]
  OBVIOUS
<1>7. probe'[s] \in {"ok", "down"}
  OBVIOUS
<1> QED
  BY <1>2, <1>3, <1>4, <1>5, <1>6, <1>7

LEMMA ReportCheckInv ==
  ASSUME CheckInv, Readiness!Report
  PROVE  CheckInv'
<1> USE DEF CheckInv, Readiness!TypeOK, Readiness!Report
<1>1. Running' = Running
  BY DEF Running
<1>2. Running = {}
  BY RunningFinite, FS_EmptySet
<1>3. \A s \in Service : probe[s] \in {"ok", "down"}
  BY <1>2 DEF Running
<1> QED
  BY <1>1, <1>3

\* A late answer comes when its verdict is already "down".
LEMMA AnswersCheckInv ==
  ASSUME CheckInv, NEW s \in Service, Readiness!Answers(s)
  PROVE  CheckInv'
<1> USE DEF CheckInv, Readiness!TypeOK, Readiness!Answers
<1>1. Running' = Running
  BY DEF Running
<1>2. PICK reply \in HealthReplies : answer' = [answer EXCEPT ![s] = reply]
  OBVIOUS
<1>3. probe[s] # "ok" /\ probe[s] # "none"
  BY SameUpstream
<1>4. reply # Unsent
  BY HealthRepliesAssumption
<1>5. Readiness!TypeOK'
  BY <1>2
<1> QED
  BY <1>1, <1>2, <1>3, <1>4, <1>5

\* A step that leaves the readiness check alone keeps its invariant.
LEMMA CheckUntouched == CheckInv /\ UNCHANGED healthVars => CheckInv'
BY DEF CheckInv, Readiness!TypeOK, Running, healthVars

LEMMA NextCheckInv == CheckInv /\ [Next]_vars => CheckInv'
<1> SUFFICES ASSUME CheckInv, [Next]_vars PROVE CheckInv'
  OBVIOUS
<1>1. CASE UNCHANGED healthVars
  BY <1>1, CheckUntouched
<1>2. CASE StartCheck
  BY <1>2 DEF StartCheck, Readiness!Start, CheckInv, Readiness!TypeOK, Running
<1>3. CASE Check
  BY <1>3, SpawnCheckInv, SettleCheckInv, ReportCheckInv DEF Check
<1>4. ASSUME NEW s \in Service, Dependency(s) PROVE CheckInv'
  BY <1>4, AnswersCheckInv DEF Dependency
<1> QED
  BY <1>1, <1>2, <1>3, <1>4 DEF Next, Chain, vars, Arrive, Preflight, Handle, Ready, Encode,
     Return, Crash, Recover, Log, Finish

LEMMA NextReadyInv == IInv /\ CheckInv /\ ReadyInv /\ [Next]_vars => ReadyInv'
<1> SUFFICES ASSUME IInv, CheckInv, ReadyInv, [Next]_vars PROVE ReadyInv'
  OBVIOUS
<1> USE DEF ReadyInv, IInv, ResponseTypeOK, StatusInv, responseVars, healthVars
<1>1. CASE Arrive \/ Preflight \/ StartCheck
  BY <1>1 DEF Arrive, Preflight, StartCheck, Readiness!Start
<1>2. CASE Handle
  BY <1>2 DEF Handle, Declares
<1>3. CASE Ready
  <2>1. report \in {"ok", "degraded"}
    BY <1>3 DEF Ready, CheckInv, Readiness!TypeOK
  <2> QED
    BY <1>3, <2>1 DEF Ready, WriteHeader
<1>4. CASE Encode \/ Return \/ Log \/ Finish
  BY <1>4 DEF Encode, Return, Log, Finish, Implicit
<1>5. CASE Crash
  BY <1>5 DEF Crash
<1>6. CASE Recover
  BY <1>6 DEF Recover, WrittenStatus, HasRecorder, Probes
<1>7. CASE Check
  <2>1. CASE Readiness!Report
    <3>1. report = "none"
      BY <2>1 DEF CheckInv, Readiness!Report
    <3> QED
      BY <1>7, <2>1, <3>1 DEF Check
  <2>2. CASE \E s \in Service : Readiness!Spawn(s) \/ Readiness!Settle(s)
    BY <1>7, <2>2 DEF Check, Readiness!Spawn, Readiness!Settle
  <2> QED
    BY <1>7, <2>1, <2>2 DEF Check
<1>8. ASSUME NEW s \in Service, Dependency(s) PROVE ReadyInv'
  BY <1>8 DEF Dependency, Readiness!Answers
<1>9. CASE UNCHANGED vars
  BY <1>9 DEF vars
<1> QED
  BY <1>1, <1>2, <1>3, <1>4, <1>5, <1>6, <1>7, <1>8, <1>9 DEF Next, Chain

LEMMA InitReady == Init => CheckInv /\ ReadyInv
<1> SUFFICES ASSUME Init PROVE CheckInv /\ ReadyInv
  OBVIOUS
<1>1. Running = {}
  BY DEF Init, Readiness!Init, Running
<1>2. pending = Cardinality(Running)
  BY <1>1, FS_EmptySet DEF Init, Readiness!Init
<1>3. Readiness!TypeOK
  BY DEF Init, Readiness!Init, Readiness!TypeOK
<1>4. \A s \in Service : probe[s] = "none" /\ answer[s] = Unsent
  BY SameUpstream DEF Init, Readiness!Init
<1> QED
  BY <1>2, <1>3, <1>4 DEF Init, Readiness!Init, CheckInv, ReadyInv

\* Whatever the dependencies do, 200 means that each answered this check with a
\* 2xx, and 503 that one did not and that all probes are over.
THEOREM ReadyIsTrue == Spec => []ReadyTellsTruth
<1>1. IInv /\ CheckInv /\ ReadyInv => ReadyTellsTruth
  BY DEF IInv, StatusInv, CheckInv, ReadyInv, ReadyTellsTruth, Probes, WriteProblem, IsFinal
<1> QED
  BY <1>1, Inductive, InitReady, NextCheckInv, NextReadyInv, PTL DEF Spec
-----------------------------------------------------------------------------
\* Up to the log line the recorder knows what the client got, if that is a status net/http
\* sends as given; from then on the log line agrees with it.
LogInv ==
  /\ logged \in Nat /\ crashed \in BOOLEAN
  /\ HasRecorder /\ (declared = 0 \/ IsFinal(declared)) =>
       /\ pc \notin {"logged", "done"} => recorded = sent
       /\ pc = "logged" => logged = Implicit
       /\ pc = "done" => logged = sent

LEMMA NextLogInv == IInv /\ LogInv /\ [Next]_vars => LogInv'
<1> SUFFICES ASSUME IInv, LogInv, [Next]_vars PROVE LogInv'
  OBVIOUS
<1> USE DEF LogInv, IInv, ResponseTypeOK, StatusInv, DocumentInv, HasRecorder, IsFinal, Implicit, responseVars
<1>1. CASE Arrive \/ Preflight \/ StartCheck
  BY <1>1 DEF Arrive, Preflight, StartCheck
<1>2. CASE Handle
  <2>1. PICK status \in Declares : WriteHeader(status)
    BY <1>2 DEF Handle
  <2> QED
    BY <1>2, <2>1 DEF Handle, WriteHeader
<1>3. CASE Ready
  <2>1. PICK status \in {200, 503} : WriteHeader(status)
    BY <1>3 DEF Ready
  <2>2. IsFinal(status) /\ status \in 100..999
    BY <2>1
  <2> QED
    BY <1>3, <2>1, <2>2 DEF Ready, WriteHeader
<1>4. CASE Encode
  BY <1>4 DEF Encode
<1>5. CASE Return
  BY <1>5 DEF Return
<1>6. CASE Crash
  <2>1. crashed' \in BOOLEAN
    BY <1>6 DEF Crash
  <2> QED
    BY <1>6, <2>1 DEF Crash
<1>7. CASE Recover
  BY <1>7 DEF Recover, WrittenStatus
<1>8. CASE Log \/ Finish
  BY <1>8 DEF Log, Finish
<1>9. CASE Check \/ (\E s \in Service : Dependency(s)) \/ UNCHANGED vars
  BY <1>9 DEF Check, Dependency, vars
<1> QED
  BY <1>1, <1>2, <1>3, <1>4, <1>5, <1>6, <1>7, <1>8, <1>9 DEF Next, Chain

LEMMA LogInductive == Spec => []LogInv
<1>1. Init => LogInv
  <2> SUFFICES ASSUME Init PROVE LogInv
    OBVIOUS
  <2>1. crashed \in BOOLEAN
    BY DEF Init
  <2>2. logged \in Nat /\ pc \notin {"logged", "done"} /\ recorded = sent
    BY DEF Init
  <2> QED
    BY <2>1, <2>2 DEF LogInv
<1> QED
  BY <1>1, Inductive, NextLogInv, PTL DEF Spec

\* Every request but the probes is logged with the status its client got, wherever
\* its handler panics, unless net/http does not send the status as given.
THEOREM LogIsHonest == Spec => []LoggedAsSent
<1>1. LogInv => LoggedAsSent
  BY DEF LogInv, LoggedAsSent
<1> QED
  BY <1>1, LogInductive, PTL

\* The request and its readiness check have their types.
THEOREM TypeCorrect == Spec => []TypeOK
<1>1. IInv /\ LogInv /\ CheckInv => TypeOK
  BY DEF IInv, ResponseTypeOK, LogInv, CheckInv, TypeOK
<1>2. Spec => []CheckInv
  BY InitReady, NextCheckInv, PTL DEF Spec
<1> QED
  BY <1>1, <1>2, Inductive, LogInductive, PTL
-----------------------------------------------------------------------------
(* When a panic does become a 500.                                         *)

\* No handler passes on a status that net/http does not send as given, but for 0.
PlainStatuses == \A status \in Statuses : status = 0 \/ IsFinal(status)

PlainInv == declared = 0 \/ IsFinal(declared)

LEMMA StepPlain ==
  ASSUME PlainStatuses, IInv, PlainInv, [Next]_vars
  PROVE  PlainInv'
<1> USE DEF PlainInv
<1>1. CASE Handle
  <2>1. PICK status \in Declares : WriteHeader(status)
    BY <1>1 DEF Handle
  <2>2. status = 0 \/ IsFinal(status)
    BY <2>1 DEF Declares, PlainStatuses, IsFinal, IInv, ResponseTypeOK, Kinds
  <2> QED
    BY <2>1, <2>2 DEF WriteHeader
<1>2. CASE Ready
  BY <1>2 DEF Ready, WriteHeader, IsFinal
<1>3. CASE Preflight
  BY <1>3 DEF Preflight, IsFinal
<1>4. CASE UNCHANGED declared
  BY <1>4
<1> QED
  BY <1>1, <1>2, <1>3, <1>4 DEF Next, Chain, vars, Arrive, StartCheck, Encode, Return, Crash, Recover, Log, Finish,
     Check, Dependency, responseVars

\* Then every panic before the status line ends as a 500, as the comment in middleware.go
\* says: what breaks it is a status of 1000 or 1xx, which the recorder notes and net/http
\* does not send.
THEOREM PlainPanicIs500 == PlainStatuses => (Spec => PanicIs500)
<1> SUFFICES ASSUME PlainStatuses PROVE Spec => PanicIs500
  OBVIOUS
<1>1. Init => PlainInv
  BY DEF Init, PlainInv
<1>2. IInv /\ PlainInv /\ [Next]_vars => PlainInv'
  BY StepPlain
<1>3. IInv /\ LogInv /\ PlainInv /\ [Next]_vars => [pc = "panicking" /\ sent = 0 /\ pc' # pc => sent' = 500]_vars
  <2> SUFFICES ASSUME IInv, LogInv, PlainInv, Next, pc = "panicking", sent = 0, pc' # pc
               PROVE  sent' = 500
    BY DEF vars
  <2>1. WrittenStatus = 0
    BY DEF LogInv, PlainInv, WrittenStatus
  <2>2. Recover
    BY DEF Next, Chain, Arrive, Preflight, Handle, StartCheck, Ready, Encode, Return, Crash, Log, Finish,
       Check, Dependency
  <2> QED
    BY <2>1, <2>2 DEF Recover
<1> QED
  BY <1>1, <1>2, <1>3, Inductive, LogInductive, PTL DEF Spec, PanicIs500
=============================================================================
