-------------------------- MODULE LifecycleProofs ---------------------------
(***************************************************************************)
(* For every set of requests and every behaviour of Consul, AUDA and the   *)
(* clients: an exit with status 0 has lost nothing, the instance is        *)
(* withdrawn in order, and every step is one GracefulStop allows.          *)
(***************************************************************************)
EXTENDS Lifecycle, FiniteSetTheorems, TLAPS

PastShutdown == main \in {"close", "closing", "exiting", "exited"}

\* How main, the server and Close depend on each other.  The heart is the
\* fourth conjunct: with the server quiet nobody schedules, so what the waiter
\* saw stays true; with a server that is not quiet, failed is already set.
DrainInv ==
  /\ listener = "quiet" => Active = {}
  /\ PastShutdown /\ ~failed => listener = "quiet"
  /\ closer = "none" => waiter = "none"
  /\ waiter = "closed" /\ ~failed => Audit!Emitting = {}
  /\ closer # "none" => main \in {"closing", "exiting", "exited"}
  /\ closer = "drained" => waiter = "closed"
  /\ main \in {"exiting", "exited"} /\ ~failed => closer = "drained"

\* The counter is exact, as in AuditService (stated here on this module's own state).
WaitGroupExact == wg = Cardinality(Audit!Emitting)

IInv == TypeOK /\ WaitGroupExact /\ DrainInv

LEMMA EmittingFinite == IsFiniteSet(Audit!Emitting)
BY RequestAssumption, FS_Subset DEF Audit!Emitting

\* Scheduling raises the count of the emitting goroutines by one.
LEMMA OneMore ==
  ASSUME NEW r \in Request, r \notin Audit!Emitting, Audit!Emitting' = Audit!Emitting \cup {r}
  PROVE  Cardinality(Audit!Emitting') = Cardinality(Audit!Emitting) + 1
BY EmittingFinite, FS_AddElement

\* The end of an emission lowers it by one, never below zero.
LEMMA OneLess ==
  ASSUME NEW r \in Request, r \in Audit!Emitting, Audit!Emitting' = Audit!Emitting \ {r}
  PROVE  /\ Cardinality(Audit!Emitting') = Cardinality(Audit!Emitting) - 1
         /\ Cardinality(Audit!Emitting') \in Nat
BY EmittingFinite, FS_RemoveElement, FS_CardinalityType

LEMMA ZeroMeansNone ==
  ASSUME WaitGroupExact, wg = 0
  PROVE  Audit!Emitting = {}
BY EmittingFinite, FS_EmptySet DEF WaitGroupExact

LEMMA InitIInv == Init => IInv
<1> SUFFICES ASSUME Init PROVE IInv
  OBVIOUS
<1>1. Audit!Emitting = {} /\ Active = {}
  BY DEF Init, Audit!Init, Audit!Emitting, Audit!InFlight, Active
<1>2. failed \in BOOLEAN /\ stop \in BOOLEAN /\ listenErr \in BOOLEAN /\ catalog \in BOOLEAN
  BY Zenon DEF Init
<1>3. Audit!TypeOK
  <2>1. (budget = "expired") \in BOOLEAN /\ [r \in Request |-> handler[r] = "returned"] \in [Request -> BOOLEAN]
    BY Zenon
  <2> QED
    BY <2>1 DEF Init, Audit!Init, Audit!TypeOK
<1>4. TypeOK
  BY <1>2, <1>3 DEF Init, TypeOK
<1> QED
  BY <1>1, <1>4, FS_EmptySet DEF IInv, Init, Audit!Init, WaitGroupExact, DrainInv, PastShutdown

\* A step that leaves the audit service alone keeps its part of the invariant.
LEMMA AuditUntouched ==
  ASSUME IInv, UNCHANGED auditVars
  PROVE  Audit!TypeOK' /\ WaitGroupExact' /\ Audit!Emitting' = Audit!Emitting
<1>1. Audit!Emitting' = Audit!Emitting
  BY DEF auditVars, Audit!Emitting
<1>2. ((budget = "expired") \in BOOLEAN)' /\ ([r \in Request |-> handler[r] = "returned"] \in [Request -> BOOLEAN])'
  BY Zenon
<1>3. Audit!TypeOK'
  BY <1>2 DEF IInv, TypeOK, auditVars, Audit!TypeOK
<1> QED
  BY <1>1, <1>3 DEF IInv, auditVars, WaitGroupExact

\* The main goroutine keeps the types.
LEMMA MainTypeOK ==
  ASSUME IInv, Main
  PROVE  TypeOK'
<1> USE DEF IInv
<1>1. Audit!TypeOK'
  <2>1. ((budget = "expired") \in BOOLEAN)' /\ ([r \in Request |-> handler[r] = "returned"] \in [Request -> BOOLEAN])'
    BY Zenon
  <2>2. CASE UNCHANGED auditVars
    BY <2>2, AuditUntouched
  <2>3. CASE StartClose
    BY <2>1, <2>3 DEF StartClose, Audit!Close, TypeOK, Audit!TypeOK, Audit!Emitting
  <2>4. CASE CloseReturns
    BY <2>1, <2>4 DEF CloseReturns, Audit!CloseDrained, Audit!CloseExpired, TypeOK, Audit!TypeOK
  <2> QED
    BY <2>2, <2>3, <2>4 DEF Main, LoadConfig, Register, SelectStop, SelectError, Withdraw, StartShutdown,
       ShutdownCompletes, ShutdownTimesOut, Exit
<1>2. CASE LoadConfig \/ Register
  <2>1. catalog' \in BOOLEAN
    BY <1>2, Zenon DEF LoadConfig, Register, RegisterService, TypeOK, consulVars
  <2> QED
    BY <1>1, <1>2, <2>1 DEF LoadConfig, Register, TypeOK, serverVars, consulVars
<1>3. CASE SelectStop \/ SelectError
  BY <1>1, <1>3 DEF SelectStop, SelectError, TypeOK, serverVars, consulVars
<1>4. CASE Withdraw \/ Exit
  <2>1. Deregister
    BY <1>4 DEF Withdraw, Exit
  <2>2. catalog' \in BOOLEAN /\ announced' \in {"no", "yes", "withdrawn"} /\ attempts' \in Nat
    <3>1. CASE UNCHANGED consulVars
      BY <3>1 DEF TypeOK, consulVars
    <3>2. ASSUME NEW err \in BOOLEAN, DeregisterService(err), attempts' = attempts + 1,
                 announced' = IF err THEN announced ELSE "withdrawn"
          PROVE  catalog' \in BOOLEAN /\ announced' \in {"no", "yes", "withdrawn"} /\ attempts' \in Nat
      <4>1. catalog' \in BOOLEAN
        BY <3>2, Zenon DEF DeregisterService, TypeOK
      <4>2. announced' \in {"no", "yes", "withdrawn"} /\ attempts' \in Nat
        BY <3>2 DEF TypeOK
      <4> QED
        BY <4>1, <4>2
    <3> QED
      BY <2>1, <3>1, <3>2, Zenon DEF Deregister
  <2> QED
    BY <1>1, <1>4, <2>2 DEF Withdraw, Exit, TypeOK, serverVars
<1>5. CASE StartShutdown \/ ShutdownCompletes \/ ShutdownTimesOut
  BY <1>1, <1>5 DEF StartShutdown, ShutdownCompletes, ShutdownTimesOut, TypeOK, serverVars, consulVars
<1>6. CASE StartClose \/ CloseReturns
  BY <1>1, <1>6 DEF StartClose, CloseReturns, TypeOK, serverVars, consulVars
<1> QED
  BY <1>2, <1>3, <1>4, <1>5, <1>6 DEF Main

\* The server, the clients, the timer and Consul leave the audit service alone.
ServerStep ==
  \/ Listen \/ ListenFails \/ BudgetExpires \/ Signal \/ ConsulReaps
  \/ \E r \in Request : Begin(r) \/ Return(r) \/ Connect(r)

LEMMA ServerTypeOK ==
  ASSUME IInv, ServerStep
  PROVE  TypeOK' /\ UNCHANGED auditVars
<1> USE DEF IInv
<1>1. UNCHANGED auditVars
  BY DEF ServerStep, Listen, ListenFails, BudgetExpires, Signal, ConsulReaps, Begin, Return, Connect
<1>2. Audit!TypeOK'
  BY <1>1, AuditUntouched
<1>3. CASE Listen \/ ListenFails \/ BudgetExpires
  BY <1>2, <1>3 DEF Listen, ListenFails, BudgetExpires, TypeOK, mainVars, serverVars, consulVars
<1>4. CASE Signal \/ ConsulReaps
  <2>1. stop' \in BOOLEAN /\ catalog' \in BOOLEAN
    BY <1>4, Zenon DEF Signal, ConsulReaps, TypeOK, consulVars
  <2> QED
    BY <1>2, <1>4, <2>1 DEF Signal, ConsulReaps, TypeOK, mainVars, serverVars, consulVars
<1>5. CASE \E r \in Request : Begin(r) \/ Return(r) \/ Connect(r)
  BY <1>2, <1>5 DEF Begin, Return, Connect, TypeOK, mainVars, consulVars
<1> QED
  BY <1>1, <1>3, <1>4, <1>5 DEF ServerStep

\* The steps of the emissions, of Close's waiter and of AUDA leave the rest alone.
AuditStep == Waiter \/ \E r \in Request : Schedule(r) \/ Emit(r) \/ Auda(r)

LEMMA AuditTypeOK ==
  ASSUME IInv, AuditStep
  PROVE  TypeOK' /\ UNCHANGED <<mainVars, stop, consulVars, serverVars>>
<1> USE DEF IInv
<1>1. UNCHANGED <<mainVars, stop, consulVars, serverVars>>
  BY DEF AuditStep, Waiter, Schedule, Emit, Auda
<1>2. ((budget = "expired") \in BOOLEAN)' /\ ([r \in Request |-> handler[r] = "returned"] \in [Request -> BOOLEAN])'
  BY Zenon
<1>3. CASE Waiter
  BY <1>1, <1>2, <1>3 DEF Waiter, Audit!WaiterWakes, TypeOK, Audit!TypeOK, mainVars, consulVars, serverVars
<1>4. ASSUME NEW r \in Request, Schedule(r) \/ Auda(r) \/ (Emit(r) /\ Audit!Post(r))
      PROVE  TypeOK'
  BY <1>1, <1>2, <1>4 DEF Schedule, Auda, Audit!LogAsync, Audit!Auda, Audit!Post, Audit!InFlight,
     TypeOK, Audit!TypeOK, mainVars, consulVars, serverVars
<1>5. ASSUME NEW r \in Request, Emit(r), Audit!EmitReturns(r)
      PROVE  TypeOK'
  <2>1. PICK o \in Audit!Outcomes : emission' = [emission EXCEPT ![r] = o]
    BY <1>5 DEF Audit!EmitReturns, Audit!Outcome, Audit!Outcomes
  <2>2. r \in Audit!Emitting /\ Audit!Emitting' = Audit!Emitting \ {r}
    BY <1>5, <2>1 DEF Audit!EmitReturns, Audit!Emitting, Audit!InFlight, Audit!Outcomes, TypeOK, Audit!TypeOK
  <2>3. wg' \in Nat
    BY <1>5, <2>2, OneLess DEF Audit!EmitReturns, WaitGroupExact
  <2> QED
    BY <1>1, <1>2, <1>5, <2>1, <2>3 DEF Audit!EmitReturns, TypeOK, Audit!TypeOK, mainVars, consulVars, serverVars
<1> QED
  BY <1>1, <1>3, <1>4, <1>5 DEF AuditStep, Emit, Audit!Goroutine

\* Every step is one of the three kinds.
LEMMA NextSplit == Next => Main \/ ServerStep \/ AuditStep
BY DEF Next, Process, Environment, ServerStep, AuditStep

\* The counter stays exact.
LEMMA StepWaitGroup ==
  ASSUME IInv, Next
  PROVE  WaitGroupExact'
<1> USE DEF IInv
<1>1. CASE UNCHANGED auditVars
  BY <1>1, AuditUntouched
<1>2. CASE StartClose \/ CloseReturns \/ Waiter \/ \E r \in Request : Auda(r)
  BY <1>2 DEF StartClose, CloseReturns, Waiter, Auda, WaitGroupExact, Audit!Emitting,
     Audit!Close, Audit!CloseDrained, Audit!CloseExpired, Audit!WaiterWakes, Audit!Auda
<1>3. ASSUME NEW r \in Request, Schedule(r)
      PROVE  WaitGroupExact'
  <2>1. r \notin Audit!Emitting /\ Audit!Emitting' = Audit!Emitting \cup {r}
    BY <1>3 DEF Schedule, Audit!LogAsync, Audit!Emitting, Audit!InFlight, TypeOK, Audit!TypeOK
  <2> QED
    BY <1>3, <2>1, OneMore DEF Schedule, Audit!LogAsync, WaitGroupExact
<1>4. ASSUME NEW r \in Request, Emit(r), Audit!Post(r)
      PROVE  WaitGroupExact'
  <2>1. Audit!Emitting' = Audit!Emitting
    BY <1>4 DEF Audit!Post, Audit!Emitting, Audit!InFlight, TypeOK, Audit!TypeOK
  <2> QED
    BY <1>4, <2>1 DEF Audit!Post, WaitGroupExact
<1>5. ASSUME NEW r \in Request, Emit(r), Audit!EmitReturns(r)
      PROVE  WaitGroupExact'
  <2>1. PICK o \in Audit!Outcomes : emission' = [emission EXCEPT ![r] = o]
    BY <1>5 DEF Audit!EmitReturns, Audit!Outcome, Audit!Outcomes
  <2>2. r \in Audit!Emitting /\ Audit!Emitting' = Audit!Emitting \ {r}
    BY <1>5, <2>1 DEF Audit!EmitReturns, Audit!Emitting, Audit!InFlight, Audit!Outcomes, TypeOK, Audit!TypeOK
  <2> QED
    BY <1>5, <2>2, OneLess DEF Audit!EmitReturns, WaitGroupExact
<1>6. CASE Main
  BY <1>1, <1>2, <1>6 DEF Main, LoadConfig, Register, SelectStop, SelectError, Withdraw, StartShutdown,
     ShutdownCompletes, ShutdownTimesOut, Exit
<1> QED
  BY <1>1, <1>2, <1>3, <1>4, <1>5, <1>6, NextSplit, ServerTypeOK DEF AuditStep, Emit, Audit!Goroutine

\* The order of the shutdown, one step per action that can disturb it.
LEMMA StepDrain ==
  ASSUME IInv, Next
  PROVE  DrainInv'
<1> USE DEF IInv
<1>1. CASE Main
  <2>1. CASE LoadConfig \/ Register \/ SelectStop \/ SelectError \/ Withdraw \/ StartShutdown \/ Exit
    <3>1. Audit!Emitting' = Audit!Emitting /\ UNCHANGED <<closer, waiter>>
      BY <2>1, AuditUntouched DEF LoadConfig, Register, SelectStop, SelectError, Withdraw, StartShutdown, Exit, auditVars
    <3>2. Active' = Active
      BY <2>1 DEF LoadConfig, Register, SelectStop, SelectError, Withdraw, StartShutdown, Exit, serverVars, Active
    <3> QED
      BY <2>1, <3>1, <3>2 DEF LoadConfig, Register, SelectStop, SelectError, Withdraw, StartShutdown, Exit,
         serverVars, DrainInv, PastShutdown, TypeOK
  <2>2. CASE ShutdownCompletes
    BY <2>2, AuditUntouched DEF ShutdownCompletes, DrainInv, PastShutdown, Active, auditVars
  <2>3. CASE ShutdownTimesOut
    BY <2>3, AuditUntouched DEF ShutdownTimesOut, DrainInv, PastShutdown, Active, auditVars, serverVars
  <2>4. CASE StartClose
    BY <2>4 DEF StartClose, Audit!Close, DrainInv, PastShutdown, Active, serverVars, Audit!Emitting
  <2>5. CASE CloseReturns
    BY <2>5 DEF CloseReturns, Audit!CloseDrained, Audit!CloseExpired, DrainInv, PastShutdown, Active,
       serverVars, Audit!Emitting, TypeOK
  <2> QED
    BY <1>1, <2>1, <2>2, <2>3, <2>4, <2>5 DEF Main
<1>2. CASE ServerStep
  <2>1. Audit!Emitting' = Audit!Emitting /\ UNCHANGED <<closer, waiter>>
    BY <1>2, ServerTypeOK, AuditUntouched DEF auditVars
  <2>2. UNCHANGED <<main, failed>>
    BY <1>2 DEF ServerStep, Listen, ListenFails, BudgetExpires, Signal, ConsulReaps, Begin, Return, Connect, mainVars
  <2>3. (listener = "quiet")' => listener = "quiet" /\ Active' \subseteq Active
    BY <1>2 DEF ServerStep, Listen, ListenFails, BudgetExpires, Signal, ConsulReaps, Begin, Return, Connect,
       serverVars, Active, TypeOK
  <2>4. listener = "quiet" => (listener = "quiet")'
    BY <1>2 DEF ServerStep, Listen, ListenFails, BudgetExpires, Signal, ConsulReaps, Begin, Return, Connect, serverVars
  <2> QED
    BY <2>1, <2>2, <2>3, <2>4 DEF DrainInv, PastShutdown
<1>3. CASE AuditStep
  <2>1. UNCHANGED <<main, failed, listener, Active>>
    BY <1>3, AuditTypeOK DEF mainVars, serverVars, Active
  <2>2. CASE Waiter
    BY <2>1, <2>2, ZeroMeansNone DEF Waiter, Audit!WaiterWakes, DrainInv, PastShutdown, Audit!Emitting
  <2>3. ASSUME NEW r \in Request, Schedule(r)
        PROVE  DrainInv'
    <3>1. r \in Active /\ UNCHANGED <<closer, waiter>>
      BY <2>3 DEF Schedule, Active, Audit!LogAsync
    <3> QED
      BY <2>1, <3>1 DEF DrainInv, PastShutdown
  <2>4. ASSUME NEW r \in Request, Emit(r) \/ Auda(r)
        PROVE  DrainInv'
    <3>1. Audit!Emitting' \subseteq Audit!Emitting /\ UNCHANGED <<closer, waiter>>
      BY <2>4 DEF Emit, Auda, Audit!Goroutine, Audit!Post, Audit!EmitReturns, Audit!Auda,
         Audit!Emitting, Audit!InFlight, TypeOK, Audit!TypeOK
    <3> QED
      BY <2>1, <3>1 DEF DrainInv, PastShutdown
  <2> QED
    BY <1>3, <2>2, <2>3, <2>4 DEF AuditStep
<1> QED
  BY <1>1, <1>2, <1>3, NextSplit

LEMMA NextIInv == IInv /\ [Next]_vars => IInv'
<1> SUFFICES ASSUME IInv, [Next]_vars PROVE IInv'
  OBVIOUS
<1>1. CASE Next
  <2>1. TypeOK'
    BY <1>1, NextSplit, MainTypeOK, ServerTypeOK, AuditTypeOK
  <2> QED
    BY <1>1, <2>1, StepWaitGroup, StepDrain DEF IInv
<1>2. CASE UNCHANGED vars
  <2>1. UNCHANGED auditVars /\ UNCHANGED <<mainVars, stop, consulVars, serverVars>>
    BY <1>2 DEF vars
  <2>2. Audit!TypeOK' /\ WaitGroupExact' /\ Audit!Emitting' = Audit!Emitting
    BY <2>1, AuditUntouched
  <2>3. TypeOK'
    BY <2>1, <2>2 DEF IInv, TypeOK, mainVars, consulVars, serverVars
  <2> QED
    BY <2>1, <2>2, <2>3 DEF IInv, DrainInv, PastShutdown, Active, mainVars, serverVars, auditVars
<1> QED
  BY <1>1, <1>2

\* The strengthened invariant holds in every reachable state.
THEOREM Inductive == Spec => []IInv
BY InitIInv, NextIInv, PTL DEF Spec

\* The state has its types; the WaitGroup, of which Go panics below zero, is a natural number.
THEOREM TypeCorrect == Spec => []TypeOK
BY Inductive, PTL DEF IInv

\* Exit status 0 means that no handler was cut off and no event was being emitted.
THEOREM CleanExit == Spec => []CleanExitLosesNothing
<1>1. IInv => CleanExitLosesNothing
  BY DEF IInv, DrainInv, PastShutdown, CleanExitLosesNothing
<1> QED
  BY <1>1, Inductive, PTL

\* While the server shut down in time, Close never sees the counter rise.
THEOREM NoLateAdd == Spec => NoLateSchedule
<1>1. IInv /\ [Next]_vars => [closer # "none" /\ ~failed => wg' <= wg]_vars
  <2> SUFFICES ASSUME IInv, Next, closer # "none", ~failed
               PROVE  wg' <= wg
    BY DEF vars
  <2>1. Active = {}
    BY DEF IInv, DrainInv, PastShutdown
  <2>2. wg \in Nat
    BY DEF IInv, TypeOK, Audit!TypeOK
  <2>3. CASE UNCHANGED wg
    BY <2>2, <2>3
  <2>4. ASSUME NEW r \in Request, Emit(r), Audit!EmitReturns(r)
        PROVE  wg' <= wg
    BY <2>2, <2>4 DEF Audit!EmitReturns
  <2>5. ASSUME NEW r \in Request, Schedule(r)
        PROVE  FALSE
    BY <2>1, <2>5 DEF Schedule, Active
  <2>6. CASE Main \/ ServerStep
    <3>1. UNCHANGED wg
      BY <2>6, ServerTypeOK DEF Main, LoadConfig, Register, SelectStop, SelectError, Withdraw, StartShutdown,
         ShutdownCompletes, ShutdownTimesOut, StartClose, CloseReturns, Exit, auditVars,
         Audit!Close, Audit!CloseDrained, Audit!CloseExpired
    <3> QED
      BY <2>3, <3>1
  <2> QED
    BY <2>3, <2>4, <2>5, <2>6, NextSplit DEF AuditStep, Waiter, Emit, Auda, Audit!Goroutine,
       Audit!WaiterWakes, Audit!Post, Audit!Auda
<1> QED
  BY <1>1, Inductive, PTL DEF Spec, NoLateSchedule
-----------------------------------------------------------------------------
(* The registration: which attempts to withdraw it lie behind each statement *)
(* of main.                                                                   *)

Before    == {"start", "register", "serve", "deregister"}
Deciding  == {"shutdown", "draining", "close", "closing"}

\* attempts is tied to where main is, and the budget tells the two ways to the exit
\* apart: only the one through a signal has started it.
ConsulInv ==
  /\ announced = "no" \/ main \in Before => attempts = 0
  /\ main \in {"start", "register"} => announced = "no"
  /\ main \in Before => announced # "withdrawn"
  /\ announced # "no" /\ main \in Deciding => attempts = 1
  /\ announced = "yes" /\ main = "exiting" => attempts = IF budget = "unset" THEN 0 ELSE 1
  /\ announced = "yes" /\ main = "exited" => attempts = IF budget = "unset" THEN 1 ELSE 2
  /\ announced = "withdrawn" => ~catalog
  /\ main \in Before \cup {"shutdown"} => budget = "unset"
  /\ main \in Deciding \ {"shutdown"} => budget # "unset"
  /\ listener \in {"shut", "quiet"} => budget # "unset"

LEMMA InitConsul == Init => ConsulInv
BY DEF Init, ConsulInv, Before, Deciding

\* The closure tries at most once per call, and what it withdrew is gone.
LEMMA DeregisterFacts ==
  ASSUME TypeOK, Deregister
  PROVE  /\ announced = "no" => UNCHANGED consulVars
         /\ announced # "yes" => UNCHANGED consulVars
         /\ announced = "yes" => attempts' = attempts + 1
         /\ announced = "yes" => announced' \in {"yes", "withdrawn"}
         /\ announced = "yes" /\ announced' = "withdrawn" => ~catalog'
<1>1. CASE announced # "yes"
  BY <1>1 DEF Deregister
<1>2. CASE announced = "yes"
  <2>1. attempts' = attempts + 1
    BY <1>2 DEF Deregister
  <2>2. PICK err \in BOOLEAN : DeregisterService(err) /\ announced' = IF err THEN announced ELSE "withdrawn"
    BY <1>2 DEF Deregister
  <2>3. CASE err
    BY <1>2, <2>1, <2>2, <2>3
  <2>4. CASE ~err
    <3>1. catalog' \in {FALSE}
      BY <2>2, <2>4, Zenon DEF DeregisterService
    <3>2. ~catalog'
      BY <3>1, Zenon
    <3> QED
      BY <1>2, <2>1, <2>2, <2>4, <3>2
  <2> QED
    BY <2>3, <2>4
<1> QED
  BY <1>1, <1>2

LEMMA StepConsul ==
  ASSUME TypeOK, ConsulInv, Next
  PROVE  ConsulInv'
<1> USE DEF Before, Deciding
<1>1. CASE LoadConfig
  BY <1>1 DEF LoadConfig, ConsulInv, consulVars, serverVars
<1>2. CASE Register
  BY <1>2 DEF Register, ConsulInv, serverVars
<1>3. CASE SelectStop \/ SelectError
  BY <1>3 DEF SelectStop, SelectError, ConsulInv, consulVars, serverVars
<1>4. CASE Withdraw
  <2>1. ConsulInv /\ main = "deregister" /\ main' = "shutdown" /\ UNCHANGED <<budget, listener>>
    BY <1>4 DEF Withdraw, serverVars
  <2>2. Deregister
    BY <1>4 DEF Withdraw
  <2>3. CASE announced = "yes"
    BY <2>1, <2>2, <2>3, DeregisterFacts DEF ConsulInv, TypeOK
  <2>4. CASE announced # "yes"
    <3>1. UNCHANGED <<announced, catalog, attempts>>
      BY <2>2, <2>4, DeregisterFacts DEF consulVars
    <3> QED
      BY <2>1, <2>4, <3>1 DEF ConsulInv, TypeOK
  <2> QED
    BY <2>3, <2>4
<1>5. CASE Exit
  <2>1. ConsulInv /\ main = "exiting" /\ main' = "exited" /\ UNCHANGED <<budget, listener>>
    BY <1>5 DEF Exit, serverVars
  <2>2. Deregister
    BY <1>5 DEF Exit
  <2>3. CASE announced = "yes"
    BY <2>1, <2>2, <2>3, DeregisterFacts DEF ConsulInv, TypeOK
  <2>4. CASE announced # "yes"
    <3>1. UNCHANGED <<announced, catalog, attempts>>
      BY <2>2, <2>4, DeregisterFacts DEF consulVars
    <3> QED
      BY <2>1, <2>4, <3>1 DEF ConsulInv, TypeOK
  <2> QED
    BY <2>3, <2>4
<1>6. CASE StartShutdown \/ ShutdownCompletes \/ ShutdownTimesOut
  BY <1>6 DEF StartShutdown, ShutdownCompletes, ShutdownTimesOut, ConsulInv, consulVars, serverVars
<1>7. CASE StartClose \/ CloseReturns
  BY <1>7 DEF StartClose, CloseReturns, ConsulInv, consulVars, serverVars
<1>8. CASE ConsulReaps
  <2>1. ~catalog'
    BY <1>8, Zenon DEF ConsulReaps
  <2> QED
    BY <1>8, <2>1 DEF ConsulReaps, ConsulInv, mainVars, serverVars
<1>9. CASE Listen \/ ListenFails \/ BudgetExpires
  BY <1>9 DEF Listen, ListenFails, BudgetExpires, ConsulInv, consulVars, mainVars
<1>10. CASE Signal \/ \E r \in Request : Begin(r) \/ Return(r) \/ Connect(r)
  BY <1>10 DEF Signal, Begin, Return, Connect, ConsulInv, consulVars, mainVars, serverVars
<1>11. CASE Waiter \/ \E r \in Request : Schedule(r) \/ Emit(r) \/ Auda(r)
  BY <1>11 DEF Waiter, Schedule, Emit, Auda, ConsulInv, consulVars, mainVars, serverVars
<1> QED
  BY <1>1, <1>2, <1>3, <1>4, <1>5, <1>6, <1>7, <1>8, <1>9, <1>10, <1>11
     DEF Next, Process, Environment, Main

\* What main's statements imply of the registration holds in every reachable state.
THEOREM ConsulInductive == Spec => []ConsulInv
<1>1. TypeOK /\ ConsulInv /\ [Next]_vars => ConsulInv'
  <2>1. CASE UNCHANGED vars
    BY <2>1 DEF vars, mainVars, consulVars, serverVars, ConsulInv
  <2> QED
    BY <2>1, StepConsul
<1> QED
  BY <1>1, InitConsul, TypeCorrect, PTL DEF Spec

\* Connections are drained only after an attempt to withdraw the instance.
THEOREM WithdrawnFirst == Spec => []WithdrawnBeforeDraining
<1>1. TypeOK /\ ConsulInv => WithdrawnBeforeDraining
  BY DEF TypeOK, ConsulInv, WithdrawnBeforeDraining, Before, Deciding
<1> QED
  BY <1>1, ConsulInductive, TypeCorrect, PTL

\* A registration outlives the process only if every attempt its way out has failed.
THEOREM AdvertisedAfterRetries == Spec => []AdvertisedOnlyAfterRetries
<1>1. TypeOK /\ ConsulInv => AdvertisedOnlyAfterRetries
  BY DEF TypeOK, ConsulInv, AdvertisedOnlyAfterRetries
<1> QED
  BY <1>1, ConsulInductive, TypeCorrect, PTL

\* A deregistration that succeeded is not repeated, neither before draining nor on the way out.
THEOREM NeverWithdrawnTwice == Spec => WithdrawnOnce
<1>1. TypeOK /\ [Next]_vars => [announced = "withdrawn" => attempts' = attempts]_vars
  <2> SUFFICES ASSUME TypeOK, Next, announced = "withdrawn"
               PROVE  attempts' = attempts
    BY DEF vars
  <2>1. CASE Withdraw \/ Exit
    BY <2>1, DeregisterFacts DEF Withdraw, Exit, consulVars
  <2>2. CASE Main /\ ~Withdraw /\ ~Exit
    BY <2>2 DEF Main, LoadConfig, Register, SelectStop, SelectError, StartShutdown, ShutdownCompletes,
       ShutdownTimesOut, StartClose, CloseReturns, consulVars
  <2>3. CASE ServerStep
    BY <2>3 DEF ServerStep, Listen, ListenFails, BudgetExpires, Signal, ConsulReaps, Begin, Return, Connect, consulVars
  <2>4. CASE AuditStep
    BY <2>4 DEF AuditStep, Waiter, Schedule, Emit, Auda, consulVars
  <2> QED
    BY <2>1, <2>2, <2>3, <2>4, NextSplit
<1> QED
  BY <1>1, TypeCorrect, PTL DEF Spec, WithdrawnOnce
-----------------------------------------------------------------------------
(* The refinement of GracefulStop, its safety part.                        *)

\* Without an error, main leaves its select only on a signal.
SignalInv == main \notin {"start", "register", "serve"} /\ ~failed => stop

LEMMA InitSignal == Init => SignalInv
BY DEF Init, SignalInv

LEMMA StepSignal ==
  ASSUME SignalInv, [Next]_vars
  PROVE  SignalInv'
<1>1. CASE Main
  BY <1>1 DEF Main, LoadConfig, Register, SelectStop, SelectError, Withdraw, StartShutdown, ShutdownCompletes,
     ShutdownTimesOut, StartClose, CloseReturns, Exit, SignalInv
<1>2. CASE ServerStep
  BY <1>2 DEF ServerStep, Listen, ListenFails, BudgetExpires, Signal, ConsulReaps, Begin, Return, Connect,
     mainVars, SignalInv
<1>3. CASE AuditStep
  BY <1>3 DEF AuditStep, Waiter, Schedule, Emit, Auda, mainVars, SignalInv
<1>4. CASE UNCHANGED vars
  BY <1>4 DEF vars, mainVars, SignalInv
<1> QED
  BY <1>1, <1>2, <1>3, <1>4, NextSplit

\* A process that drains has received a signal or has failed.
THEOREM SignalledExit == Spec => []SignalInv
BY InitSignal, StepSignal, PTL DEF Spec

\* The main goroutine: the server becomes quiet, or the process ends.
LEMMA MainStops ==
  ASSUME IInv, ConsulInv, SignalInv, Main
  PROVE  [Stop!Next]_(Stop!vars)
<1>1. UNCHANGED <<stop, handler>> /\ Alive
  BY DEF Main, LoadConfig, Register, SelectStop, SelectError, Withdraw, StartShutdown, ShutdownCompletes,
     ShutdownTimesOut, StartClose, CloseReturns, Exit, serverVars, Alive
<1>2. Audit!Emitting' = Audit!Emitting
  BY DEF Main, LoadConfig, Register, SelectStop, SelectError, Withdraw, StartShutdown, ShutdownCompletes,
     ShutdownTimesOut, StartClose, CloseReturns, Exit, auditVars, Audit!Emitting, Audit!Close, Audit!CloseDrained,
     Audit!CloseExpired
<1>3. \A r \in Request : Work(r)' = Work(r)
  BY <1>1, <1>2 DEF Work
<1>4. CASE LoadConfig \/ Register
  <2>1. UNCHANGED listener /\ (main' # "exited" \/ failed')
    BY <1>4 DEF LoadConfig, Register, serverVars
  <2> QED
    BY <1>1, <1>3, <2>1 DEF Alive, Stop!Next, Stop!vars, Stop!StopFailed, Stop!Running
<1>5. CASE SelectStop \/ SelectError \/ Withdraw \/ ShutdownTimesOut \/ StartClose \/ CloseReturns
  <2>1. UNCHANGED listener /\ main' # "exited"
    BY <1>5 DEF SelectStop, SelectError, Withdraw, ShutdownTimesOut, StartClose, CloseReturns, serverVars
  <2> QED
    BY <1>1, <1>3, <2>1 DEF Alive, Stop!vars
<1>6. CASE StartShutdown
  <2>1. listener # "quiet" /\ listener' # "quiet" /\ main' # "exited"
    BY <1>6 DEF StartShutdown, ConsulInv, Before, Deciding
  <2> QED
    BY <1>1, <1>3, <2>1 DEF Alive, Stop!vars
<1>7. CASE ShutdownCompletes
  <2>1. listener' = "quiet" /\ main' # "exited"
    BY <1>7 DEF ShutdownCompletes
  <2> QED
    BY <1>1, <1>3, <2>1 DEF Alive, Stop!Next, Stop!vars, Stop!Quiesce, Stop!Running
<1>8. CASE Exit
  <2>1. UNCHANGED <<listener, failed>> /\ main = "exiting" /\ main' = "exited"
    BY <1>8 DEF Exit, serverVars
  <2>2. CASE failed
    BY <1>1, <1>3, <2>1, <2>2 DEF Alive, Stop!Next, Stop!vars, Stop!StopFailed, Stop!Running
  <2>3. CASE ~failed
    <3>1. stop /\ listener = "quiet" /\ Active = {} /\ Audit!Emitting = {}
      BY <2>1, <2>3 DEF IInv, DrainInv, PastShutdown, SignalInv
    <3>2. \A r \in Request : Work(r) # "pending"
      BY <3>1 DEF Work, Active
    <3> QED
      BY <1>1, <1>3, <2>1, <2>3, <3>1, <3>2 DEF Alive, Stop!Next, Stop!vars, Stop!StopClean, Stop!Running, Stop!Pending
  <2> QED
    BY <2>2, <2>3
<1> QED
  BY <1>4, <1>5, <1>6, <1>7, <1>8 DEF Main

\* A step that concerns one request, or none: it is taken, settled, or seen not to change.
LEMMA WorkMoves ==
  ASSUME NEW r \in Request, UNCHANGED <<main, failed, stop, listener>>,
         \A q \in Request \ {r} : Work(q)' = Work(q),
         \/ Work(r)' = Work(r)
         \/ Alive /\ listener # "quiet" /\ Work(r) = "none" /\ Work(r)' = "pending"
         \/ Alive /\ Work(r) = "pending" /\ Work(r)' = "settled"
  PROVE  [Stop!Next]_(Stop!vars)
<1> DEFINE works == [q \in Request |-> Work(q)]
<1>1. works' = [works EXCEPT ![r] = Work(r)']
  OBVIOUS
<1>2. Work(r)' = Work(r) => works' = works
  OBVIOUS
<1>3. UNCHANGED Alive
  BY DEF Alive
<1> QED
  BY <1>1, <1>2, <1>3 DEF Alive, Stop!Next, Stop!vars, Stop!Take, Stop!Settle, Stop!Running

LEMMA ServerStops ==
  ASSUME IInv, ServerStep
  PROVE  [Stop!Next]_(Stop!vars)
<1>1. UNCHANGED <<main, failed, emission>>
  BY DEF ServerStep, Listen, ListenFails, BudgetExpires, Signal, ConsulReaps, Begin, Return, Connect, mainVars, auditVars
<1>2. CASE Listen \/ ListenFails \/ BudgetExpires \/ ConsulReaps
  <2>1. UNCHANGED <<stop, handler>> /\ (listener' # "quiet" <=> listener # "quiet")
    BY <1>2 DEF Listen, ListenFails, BudgetExpires, ConsulReaps, serverVars
  <2>2. \A r \in Request : Work(r)' = Work(r)
    BY <1>1, <2>1 DEF Work, Audit!Emitting
  <2>3. (listener' # "quiet") = (listener # "quiet")
    BY <2>1
  <2> QED
    BY <1>1, <2>1, <2>2, <2>3 DEF Stop!vars, Alive
<1>3. CASE Signal
  <2>1. UNCHANGED <<listener, handler>> /\ Alive /\ ~stop /\ stop' = TRUE
    BY <1>3 DEF Signal, serverVars, Alive
  <2>2. \A r \in Request : Work(r)' = Work(r)
    BY <1>1, <2>1 DEF Work, Audit!Emitting
  <2> QED
    BY <1>1, <2>1, <2>2 DEF Stop!Next, Stop!vars, Stop!Ask, Stop!Running, Alive
<1>4. ASSUME NEW r \in Request, Begin(r) \/ Return(r) \/ Connect(r)
      PROVE  [Stop!Next]_(Stop!vars)
  <2>1. UNCHANGED <<stop, listener>> /\ Alive /\ \A q \in Request \ {r} : handler'[q] = handler[q]
    BY <1>4 DEF Begin, Return, Connect, IInv, TypeOK
  <2>2. \A q \in Request \ {r} : Work(q)' = Work(q)
    BY <1>1, <2>1 DEF Work, Audit!Emitting
  <2>3. CASE Begin(r)
    <3>1. listener # "quiet" /\ Work(r) = "none" /\ Work(r)' = "pending"
      BY <2>3 DEF Begin, Work, IInv, TypeOK
    <3> QED
      BY <1>1, <2>1, <2>2, <3>1, WorkMoves
  <2>4. CASE Return(r)
    <3>1. Work(r) = "pending" /\ Work(r)' \in {"pending", "settled"}
      BY <2>4 DEF Return, Work, IInv, TypeOK
    <3> QED
      BY <1>1, <2>1, <2>2, <3>1, WorkMoves
  <2>5. CASE Connect(r)
    <3>1. Work(r) = "none" /\ Work(r)' = "none"
      BY <2>5 DEF Connect, Work, IInv, TypeOK
    <3> QED
      BY <1>1, <2>1, <2>2, <3>1, WorkMoves
  <2> QED
    BY <1>4, <2>3, <2>4, <2>5
<1> QED
  BY <1>2, <1>3, <1>4 DEF ServerStep

LEMMA AuditStops ==
  ASSUME IInv, AuditStep
  PROVE  [Stop!Next]_(Stop!vars)
<1>1. UNCHANGED <<main, failed, stop, listener, handler>>
  BY DEF AuditStep, Waiter, Schedule, Emit, Auda, mainVars, serverVars
<1>2. CASE Waiter \/ \E r \in Request : Auda(r)
  <2>1. UNCHANGED emission
    BY <1>2 DEF Waiter, Auda, Audit!WaiterWakes, Audit!Auda
  <2>2. \A r \in Request : Work(r)' = Work(r)
    BY <1>1, <2>1 DEF Work, Audit!Emitting
  <2> QED
    BY <1>1, <2>2 DEF Stop!vars, Alive
<1>3. ASSUME NEW r \in Request, Schedule(r) \/ Emit(r)
      PROVE  [Stop!Next]_(Stop!vars)
  <2>1. Alive /\ \A q \in Request \ {r} : emission'[q] = emission[q]
    BY <1>3 DEF Schedule, Emit, Audit!LogAsync, Audit!Goroutine, Audit!Post, Audit!EmitReturns, IInv, TypeOK, Audit!TypeOK
  <2>2. \A q \in Request \ {r} : Work(q)' = Work(q)
    BY <1>1, <2>1 DEF Work, Audit!Emitting
  <2>3. CASE Schedule(r)
    <3>1. Work(r)' = Work(r)
      BY <1>1, <2>3 DEF Schedule, Work
    <3> QED
      BY <1>1, <2>2, <3>1, WorkMoves
  <2>4. CASE Emit(r)
    <3>1. r \in Audit!Emitting
      BY <2>4 DEF Emit, Audit!Goroutine, Audit!Post, Audit!EmitReturns, Audit!Emitting, Audit!InFlight
    <3>2. Work(r) \in {"none", "pending"} /\ (Work(r) = "none" => Work(r)' = "none")
          /\ (Work(r) = "pending" => Work(r)' \in {"pending", "settled"})
      BY <1>1, <3>1 DEF Work
    <3> QED
      BY <1>1, <2>1, <2>2, <3>2, WorkMoves
  <2> QED
    BY <1>3, <2>3, <2>4
<1> QED
  BY <1>2, <1>3 DEF AuditStep

\* Every behaviour of the process is one GracefulStop allows, but for its fairness: work is
\* taken only while the server accepts, and a clean exit follows a signal, with the server
\* quiet and all the work settled.
THEOREM StopsSafely == Spec => Stop!Init /\ [][Stop!Next]_(Stop!vars)
<1>1. Init => Stop!Init
  <2> SUFFICES ASSUME Init PROVE Stop!Init
    OBVIOUS
  <2>1. \A r \in Request : Work(r) = "none"
    BY DEF Init, Work
  <2>2. listener # "quiet" /\ stop = FALSE /\ Alive
    BY DEF Init, Alive
  <2> QED
    BY <2>1, <2>2 DEF Stop!Init
<1>2. IInv /\ ConsulInv /\ SignalInv /\ [Next]_vars => [Stop!Next]_(Stop!vars)
  <2> SUFFICES ASSUME IInv, ConsulInv, SignalInv, [Next]_vars
               PROVE  [Stop!Next]_(Stop!vars)
    OBVIOUS
  <2>1. CASE UNCHANGED vars
    <3>1. UNCHANGED <<main, failed, stop, listener, handler, emission>>
      BY <2>1 DEF vars, mainVars, serverVars, auditVars
    <3>2. \A r \in Request : Work(r)' = Work(r)
      BY <3>1 DEF Work, Audit!Emitting
    <3> QED
      BY <3>1, <3>2 DEF Stop!vars, Alive
  <2> QED
    BY <2>1, NextSplit, MainStops, ServerStops, AuditStops
<1> QED
  BY <1>1, <1>2, Inductive, ConsulInductive, SignalledExit, PTL DEF Spec
=============================================================================
