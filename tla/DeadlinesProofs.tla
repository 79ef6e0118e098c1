--------------------------- MODULE DeadlinesProofs --------------------------
(***************************************************************************)
(* For every choice of the timeouts: how long a stop takes at most, that    *)
(* the server's write timeout leaves both upstream calls their budget, and  *)
(* which shutdown budget outlasts every handler and its audit event.        *)
(***************************************************************************)
EXTENDS Deadlines, LifecycleProofs, Int64Proofs

C == ConsulTimeout
S == shutdownTimeout

\* The timers are records of naturals.
ClockOK ==
  /\ shutdownTimeout \in ShutdownTimeouts /\ healthTimeout \in HealthCheckTimeouts
  /\ stage \in [Request -> Stages]
  /\ left \in [consul : 0..C, budget : 0..S, grace : 0..(NewConnGrace + 1),
               stage : [Request -> Int], emission : [Request -> 0..HTTPTimeout]]
  /\ spent \in [stop : Nat, request : [Request -> Nat], upload : [Request -> Nat]]

\* What the stop has cost so far and what the wait main is in may still cost: one line
\* for each statement of main.
StopInv ==
  /\ main = "start" => ~stop
  /\ ~stop => spent.stop = 0
  /\ main = "register" => spent.stop + left.consul <= C
  /\ main = "serve" => spent.stop <= C
  /\ main = "deregister" => spent.stop + left.consul <= 2 * C
  /\ main = "shutdown" => spent.stop <= 2 * C
  /\ main \in {"draining", "close", "closing"} =>
       spent.stop + (IF budget = "running" THEN left.budget ELSE 0) <= 2 * C + S
  /\ main = "exiting" => spent.stop + left.consul <= 3 * C + S
  /\ main = "exited" => spent.stop <= 3 * C + S

TimedInv == IInv /\ ConsulInv /\ ClockOK

LEMMA DurationFacts ==
  /\ C \in Nat \ {0} /\ HTTPTimeout \in Nat \ {0} /\ RequestBudgetSlack \in Nat \ {0}
  /\ NewConnGrace \in Nat \ {0} /\ ReadHeaderTimeout \in Nat \ {0}
  /\ \A s \in ShutdownTimeouts \cup HealthCheckTimeouts : s \in Nat \ {0}
  /\ Limit \in Int
BY DurationsAssumption, MaxIntAssumption DEF C, Limit, RequestTimeout, Wrap

LEMMA InitTimed == TimedInit => TimedInv /\ StopInv
<1> SUFFICES ASSUME TimedInit PROVE TimedInv /\ StopInv
  OBVIOUS
<1>1. IInv /\ ConsulInv
  BY InitIInv, InitConsul DEF TimedInit
<1>2. ClockOK
  BY DurationFacts DEF TimedInit, ClockInit, ClockOK, Timed, Stages, C, S
<1>3. ~stop
  BY Zenon DEF TimedInit, Init
<1>4. main = "start" /\ spent.stop = 0
  BY DEF TimedInit, ClockInit, Init
<1> QED
  BY <1>1, <1>2, <1>3, <1>4 DEF TimedInv, StopInv

\* A step of Lifecycle, as far as the clock can tell.
Moves ==
  \/ UNCHANGED <<main, budget>>
  \/ main = "start" /\ main' \in {"register", "exited"} /\ UNCHANGED <<budget, stop>>
  \/ main = "register" /\ main' \in {"serve", "exited"} /\ UNCHANGED budget
  \/ main = "serve" /\ main' \in {"deregister", "exiting"} /\ UNCHANGED budget
  \/ main = "deregister" /\ main' = "shutdown" /\ UNCHANGED budget
  \/ main = "shutdown" /\ main' = "draining" /\ budget' = "running"
  \/ main = "draining" /\ main' = "close" /\ UNCHANGED budget
  \/ main = "close" /\ main' = "closing" /\ UNCHANGED budget
  \/ main = "closing" /\ main' = "exiting" /\ UNCHANGED budget
  \/ main = "exiting" /\ main' = "exited" /\ UNCHANGED budget
  \/ UNCHANGED main /\ budget = "running" /\ budget' = "expired"

LEMMA NextMoves ==
  ASSUME Next
  PROVE  Moves /\ (UNCHANGED stop \/ (main # "start" /\ UNCHANGED <<main, budget>>))
<1>1. CASE Main
  BY <1>1 DEF Main, LoadConfig, Register, SelectStop, SelectError, Withdraw, StartShutdown,
     ShutdownCompletes, ShutdownTimesOut, StartClose, CloseReturns, Exit, Moves
<1>2. CASE ServerStep
  BY <1>2 DEF ServerStep, Listen, ListenFails, BudgetExpires, Signal, ConsulReaps, Begin, Return, Connect,
     Moves, mainVars
<1>3. CASE AuditStep
  BY <1>3 DEF AuditStep, Waiter, Schedule, Emit, Auda, Moves, mainVars
<1> QED
  BY <1>1, <1>2, <1>3, NextSplit

\* No step stops what it never started.
LEMMA StepStaysStopped ==
  ASSUME Next
  PROVE  stop => stop'
<1>1. CASE Signal
  BY <1>1, Zenon DEF Signal
<1>2. CASE ~Signal
  <2>1. UNCHANGED stop
    BY <1>2 DEF Next, Process, Environment, Main, LoadConfig, Register, SelectStop, SelectError, Withdraw,
       StartShutdown, ShutdownCompletes, ShutdownTimesOut, StartClose, CloseReturns, Exit, Listen, ListenFails,
       BudgetExpires, ConsulReaps, Begin, Return, Connect, Waiter, Schedule, Emit, Auda
  <2> QED
    BY <2>1
<1> QED
  BY <1>1, <1>2

\* The timers after a step: the ones of the waits it enters are set.
LEMMA ArmsClock ==
  ASSUME ClockOK, Arms
  PROVE  ClockOK' /\ spent'.stop = spent.stop
<1>1. /\ C \in Nat /\ S \in Nat /\ S' = S /\ HTTPTimeout \in Nat /\ NewConnGrace \in Nat /\ Limit \in Int
  BY DurationFacts DEF ClockOK, Arms, S
<1>2. left' \in [consul : 0..C, budget : 0..S, grace : 0..(NewConnGrace + 1),
               stage : [Request -> Int], emission : [Request -> 0..HTTPTimeout]]
  <2>1. left'.consul \in 0..C
    BY <1>1 DEF Arms, Arm, ClockOK, C
  <2>2. left'.budget \in 0..S
    BY <1>1 DEF Arms, Arm, ClockOK, S
  <2>3. left'.grace \in 0..(NewConnGrace + 1)
    BY <1>1 DEF Arms, Arm, ClockOK
  <2>4. left'.stage \in [Request -> Int]
    BY <1>1 DEF Arms, Arm, ClockOK
  <2>5. left'.emission \in [Request -> 0..HTTPTimeout]
    BY <1>1 DEF Arms, Arm, ClockOK
  <2>6. left' = [consul |-> left'.consul, budget |-> left'.budget, grace |-> left'.grace,
                 stage |-> left'.stage, emission |-> left'.emission]
    BY DEF Arms
  <2> QED
    BY <2>1, <2>2, <2>3, <2>4, <2>5, <2>6
<1>3. spent' \in [stop : Nat, request : [Request -> Nat], upload : [Request -> Nat]] /\ spent'.stop = spent.stop
  BY DEF Arms, ClockOK
<1> QED
  BY <1>1, <1>2, <1>3 DEF ClockOK, Arms, C, S

\* What a handler's going on to its next wait leaves alone.
LEMMA WaitsClock ==
  ASSUME ClockOK, NEW r \in Request, NEW next \in Stages, NEW limit \in Int, Waits(r, next, limit)
  PROVE  /\ ClockOK' /\ UNCHANGED <<spent, vars, shutdownTimeout, healthTimeout>>
         /\ left'.consul = left.consul /\ left'.budget = left.budget /\ left'.grace = left.grace
         /\ left'.emission = left.emission
         /\ handler[r] = "active"
         /\ \A q \in Request : /\ stage'[q] = IF q = r THEN next ELSE stage[q]
                               /\ left'.stage[q] = IF q = r THEN limit ELSE left.stage[q]
<1>1. left' \in [consul : 0..C, budget : 0..S, grace : 0..(NewConnGrace + 1),
               stage : [Request -> Int], emission : [Request -> 0..HTTPTimeout]]
  BY DEF Waits, ClockOK
<1>2. stage' \in [Request -> Stages]
  BY DEF Waits, ClockOK
<1> QED
  BY <1>1, <1>2 DEF Waits, ClockOK, S, C

\* The stages and their limits.
LEMMA HandlesWaits ==
  ASSUME ClockOK, NEW r \in Request, Handles(r)
  PROVE  \E next \in Stages, limit \in Int :
           /\ Waits(r, next, limit)
           /\ \/ stage[r] = "upload" /\ next = "lookup" /\ limit = HTTPTimeout
              \/ stage[r] = "lookup" /\ next = "extract" /\ limit = HTTPTimeout
              \/ /\ stage[r] = "upload" /\ next = "probes" /\ limit = healthTimeout
                 /\ spent.request[r] <= ReadHeaderTimeout
              \/ /\ next = "reply" /\ limit >= 0
                 /\ limit > 0 => limit = ReadHeaderTimeout + Limit - spent.request[r]
<1>1. /\ HTTPTimeout \in Int /\ healthTimeout \in Int
      /\ ReadHeaderTimeout + Limit - spent.request[r] \in Int
      /\ {"lookup", "extract", "probes", "reply"} \subseteq Stages
  BY DurationFacts DEF ClockOK, Stages
<1>2. CASE Advance(r)
  BY <1>1, <1>2 DEF Advance
<1>3. CASE Probe(r)
  BY <1>1, <1>3 DEF Probe
<1>4. CASE Respond(r)
  <2> DEFINE rest == ReadHeaderTimeout + Limit - spent.request[r]
             limit == IF rest > 0 THEN rest ELSE 0
  <2>1. Waits(r, "reply", limit)
    BY <1>4 DEF Respond
  <2>2. limit \in Int /\ limit >= 0 /\ (limit > 0 => limit = rest)
    BY <1>1
  <2> HIDE DEF limit
  <2> QED
    BY <1>1, <2>1, <2>2
<1> QED
  BY <1>2, <1>3, <1>4 DEF Handles

LEMMA CountsStays ==
  ASSUME NEW k \in Nat, NEW n \in 0..k
  PROVE  Counts(n) \in 0..k
BY DEF Counts

LEMMA TickClock ==
  ASSUME ClockOK, Tick
  PROVE  /\ ClockOK' /\ UNCHANGED <<vars, shutdownTimeout>>
         /\ spent'.stop = IF stop THEN spent.stop + 1 ELSE 0
         /\ left'.consul = Counts(left.consul)
         /\ left'.budget = IF budget = "running" THEN Counts(left.budget) ELSE left.budget
<1>1. /\ C \in Nat /\ S \in Nat /\ HTTPTimeout \in Nat /\ NewConnGrace \in Nat
  BY DurationFacts DEF ClockOK, S
<1>2. left' \in [consul : 0..C, budget : 0..S, grace : 0..(NewConnGrace + 1),
               stage : [Request -> Int], emission : [Request -> 0..HTTPTimeout]]
  <2>1. left'.consul \in 0..C /\ left'.budget \in 0..S /\ left'.grace \in 0..(NewConnGrace + 1)
    <3>1. /\ left.consul \in 0..C /\ left.budget \in 0..S /\ left.grace \in 0..(NewConnGrace + 1)
          /\ NewConnGrace + 1 \in Nat
      BY <1>1 DEF ClockOK
    <3>2. /\ left'.consul = Counts(left.consul) /\ left'.grace = Counts(left.grace)
          /\ left'.budget = IF budget = "running" THEN Counts(left.budget) ELSE left.budget
      BY DEF Tick
    <3> QED
      BY <1>1, <3>1, <3>2, CountsStays
  <2>2. left'.stage \in [Request -> Int]
    BY <1>1 DEF Tick, Counts, ClockOK
  <2>3. left'.emission \in [Request -> 0..HTTPTimeout]
    BY <1>1 DEF Tick, Counts, ClockOK
  <2>4. left' = [consul |-> left'.consul, budget |-> left'.budget, grace |-> left'.grace,
                 stage |-> left'.stage, emission |-> left'.emission]
    BY DEF Tick
  <2> QED
    BY <2>1, <2>2, <2>3, <2>4
<1>3. spent' \in [stop : Nat, request : [Request -> Nat], upload : [Request -> Nat]]
  <2>1. spent'.stop \in Nat
    BY DEF Tick, ClockOK
  <2>2. spent'.request \in [Request -> Nat] /\ spent'.upload \in [Request -> Nat]
    BY DEF Tick, ClockOK
  <2>3. spent' = [stop |-> spent'.stop, request |-> spent'.request, upload |-> spent'.upload]
    BY DEF Tick
  <2> QED
    BY <2>1, <2>2, <2>3
<1> QED
  BY <1>2, <1>3 DEF Tick, ClockOK, S, C

\* Each statement of main keeps its line of StopInv.
LEMMA StepStop ==
  ASSUME TimedInv, StopInv, Step
  PROVE  StopInv'
<1>1. Moves /\ (UNCHANGED stop \/ (main # "start" /\ UNCHANGED <<main, budget>>)) /\ (stop => stop')
  BY NextMoves, StepStaysStopped DEF Step
<1>2. spent'.stop = spent.stop /\ spent.stop \in Nat /\ ClockOK'
  BY ArmsClock DEF Step, TimedInv, ClockOK
<1>3. /\ left'.consul = Arm(main' \in CallsConsul \ {main}, main' \in CallsConsul, C, left.consul)
      /\ left'.budget = Arm(budget' = "running" /\ budget # "running", Alive', S, left.budget)
      /\ S' = S
  BY DEF Step, Arms, C, S
<1>4. /\ left.consul \in 0..C /\ left.budget \in 0..S /\ C \in Nat /\ S \in Nat
  BY DurationFacts DEF TimedInv, ClockOK, S
<1>5. main' = "start" => ~stop'
  BY <1>1 DEF Moves, StopInv
<1>6. ~stop' => spent'.stop = 0
  BY <1>1, <1>2 DEF StopInv
<1>7. main \in {"draining", "close", "closing"} => budget # "unset"
  BY DEF TimedInv, ConsulInv, Deciding
<1>8. StopInv /\ main \in {"start", "register", "serve", "deregister", "shutdown", "draining",
                          "close", "closing", "exiting", "exited"}
  BY DEF TimedInv, IInv, TypeOK
<1>9. CASE UNCHANGED <<main, budget>>
  BY <1>2, <1>3, <1>4, <1>5, <1>6, <1>8, <1>9 DEF StopInv, Arm, CallsConsul, Alive
<1>10. CASE UNCHANGED main /\ budget = "running" /\ budget' = "expired"
  BY <1>2, <1>3, <1>4, <1>5, <1>6, <1>8, <1>10 DEF StopInv, Arm, CallsConsul, Alive
<1>11. CASE main \in {"start", "register", "serve"} /\ main' # main
  <2>1. main = "start" => spent.stop = 0
    BY <1>8 DEF StopInv
  <2> QED
    BY <1>1, <1>2, <1>3, <1>4, <1>5, <1>6, <1>8, <1>11, <2>1 DEF Moves, StopInv, Arm, CallsConsul, Alive
<1>12. CASE main \in {"deregister", "shutdown", "draining", "close"} /\ main' # main
  BY <1>1, <1>2, <1>3, <1>4, <1>5, <1>6, <1>7, <1>8, <1>12 DEF Moves, StopInv, Arm, CallsConsul, Alive
<1>13. CASE main \in {"closing", "exiting", "exited"} /\ main' # main
  BY <1>1, <1>2, <1>3, <1>4, <1>5, <1>6, <1>7, <1>8, <1>13 DEF Moves, StopInv, Arm, CallsConsul, Alive
<1> QED
  BY <1>1, <1>8, <1>9, <1>10, <1>11, <1>12, <1>13 DEF Moves

\* A tick costs the stop what it takes off the wait main is in.
LEMMA TickStop ==
  ASSUME TimedInv, StopInv, Tick
  PROVE  StopInv'
<1>1. /\ UNCHANGED <<main, budget, stop>> /\ S' = S /\ C' = C
      /\ spent'.stop = IF stop THEN spent.stop + 1 ELSE 0
      /\ left'.consul = Counts(left.consul)
      /\ left'.budget = IF budget = "running" THEN Counts(left.budget) ELSE left.budget
  BY TickClock DEF TimedInv, vars, mainVars, S, C
<1>2. /\ left.consul \in 0..C /\ left.budget \in 0..S /\ C \in Nat /\ S \in Nat /\ spent.stop \in Nat
  BY DurationFacts DEF TimedInv, ClockOK, S
<1>3. /\ main \notin {"start", "shutdown", "close", "exited"}
      /\ main = "serve" => ~stop
      /\ main = "draining" => budget # "expired"
      /\ main = "closing" => budget # "expired"
      /\ main \in CallsConsul => left.consul # 0
      /\ budget = "running" => left.budget # 0
  BY DEF Tick, Urgent, AtItsEnd, Alive
<1>4. main \in {"draining", "close", "closing"} => budget = "running"
  BY <1>3 DEF TimedInv, IInv, ConsulInv, TypeOK, Deciding
<1>5. CASE ~stop
  BY <1>1, <1>2, <1>3, <1>4, <1>5 DEF StopInv, Counts
<1>6. CASE stop
  BY <1>1, <1>2, <1>3, <1>4, <1>6 DEF StopInv, Counts, CallsConsul
<1> QED
  BY <1>5, <1>6

LEMMA NextTimed ==
  ASSUME TimedInv, StopInv, TimedNext
  PROVE  TimedInv' /\ StopInv'
<1>1. CASE Step
  <2>1. IInv' /\ ConsulInv'
    BY <1>1, NextIInv, StepConsul DEF TimedInv, Step, IInv
  <2>2. ClockOK'
    BY <1>1, ArmsClock DEF TimedInv, Step
  <2> QED
    BY <1>1, <2>1, <2>2, StepStop DEF TimedInv
<1>2. CASE Tick \/ \E r \in Request : Handles(r)
  <2>1. UNCHANGED vars /\ ClockOK'
    BY <1>2, TickClock, HandlesWaits, WaitsClock DEF TimedInv
  <2>2. IInv'
    BY <2>1, NextIInv DEF TimedInv
  <2>3. ConsulInv'
    BY <2>1 DEF TimedInv, vars, mainVars, consulVars, serverVars, ConsulInv
  <2>4. ASSUME Tick
        PROVE  StopInv'
    BY <2>4, TickStop
  <2>5. ASSUME NEW r \in Request, Handles(r)
        PROVE  StopInv'
    <3>1. /\ UNCHANGED <<main, budget, stop>> /\ S' = S /\ spent' = spent
          /\ left'.consul = left.consul /\ left'.budget = left.budget
      BY <2>5, HandlesWaits, WaitsClock DEF TimedInv, vars, mainVars, S
    <3> QED
      BY <3>1 DEF StopInv
  <2> QED
    BY <1>2, <2>1, <2>2, <2>3, <2>4, <2>5 DEF TimedInv
<1> QED
  BY <1>1, <1>2 DEF TimedNext

LEMMA TimedInductive == TimedSpec => [](TimedInv /\ StopInv)
<1>1. TimedInv /\ StopInv /\ [TimedNext]_<<vars, clockVars>> => (TimedInv /\ StopInv)'
  <2>1. ASSUME TimedInv, StopInv, UNCHANGED <<vars, clockVars>>
        PROVE  TimedInv' /\ StopInv'
    <3>1. UNCHANGED vars /\ UNCHANGED clockVars
      BY <2>1
    <3>2. IInv'
      BY <2>1, <3>1, NextIInv DEF TimedInv
    <3>3. ConsulInv'
      BY <2>1, <3>1 DEF TimedInv, vars, mainVars, consulVars, serverVars, ConsulInv
    <3>4. ClockOK' /\ StopInv'
      BY <2>1, <3>1 DEF TimedInv, clockVars, vars, mainVars, ClockOK, StopInv, S
    <3> QED
      BY <3>2, <3>3, <3>4 DEF TimedInv
  <2> QED
    BY <2>1, NextTimed
<1> QED
  BY <1>1, InitTimed, PTL DEF TimedSpec

\* The whole stop takes at most the budget and three calls to Consul, for all timeouts.
THEOREM StopBounded == TimedSpec => []StopIsBounded
<1>1. TimedInv /\ StopInv => StopIsBounded
  <2> SUFFICES ASSUME TimedInv, StopInv PROVE StopIsBounded
    OBVIOUS
  <2>1. C \in Nat /\ S \in Nat /\ spent.stop \in Nat /\ left.consul \in 0..C /\ left.budget \in 0..S
    BY DurationFacts DEF TimedInv, ClockOK, S
  <2>2. main \in {"start", "register", "serve", "deregister", "shutdown", "draining",
                 "close", "closing", "exiting", "exited"}
    BY DEF TimedInv, IInv, TypeOK
  <2>3. spent.stop <= S + 3 * C
    BY <2>1, <2>2 DEF StopInv
  <2> QED
    BY <2>3 DEF StopIsBounded, S, C
<1> QED
  BY <1>1, TimedInductive, PTL
-----------------------------------------------------------------------------
(* The write timeout, for timeouts that do not overflow.                    *)

NoOverflow == 2 * HTTPTimeout + RequestBudgetSlack <= MaxInt

\* What a request has used and what its wait may still cost: one line for each stage.
StageInv(r) ==
  /\ spent.upload[r] <= Limit
  /\ stage[r] = "upload" =>
       spent.request[r] = spent.upload[r] /\ spent.request[r] + left.stage[r] <= Limit
  /\ stage[r] = "lookup" => spent.request[r] + left.stage[r] <= spent.upload[r] + HTTPTimeout
  /\ stage[r] = "extract" => spent.request[r] + left.stage[r] <= spent.upload[r] + 2 * HTTPTimeout
  /\ stage[r] = "probes" =>
       /\ spent.upload[r] <= ReadHeaderTimeout
       /\ spent.request[r] + left.stage[r] <= spent.upload[r] + healthTimeout
  /\ stage[r] = "reply" /\ left.stage[r] > 0 =>
       spent.request[r] + left.stage[r] <= ReadHeaderTimeout + Limit

RequestInv ==
  /\ \A r \in Request : left.stage[r] >= 0
  /\ \A r \in Request : handler[r] \in {"idle", "connected"} =>
       stage[r] = "upload" /\ spent.request[r] = 0 /\ spent.upload[r] = 0
  /\ \A r \in Active : StageInv(r)

LEMMA LimitIsExact ==
  ASSUME NoOverflow
  PROVE  Limit = 2 * HTTPTimeout + RequestBudgetSlack
<1>1. 2 * HTTPTimeout + RequestBudgetSlack \in Int /\ 0 <= 2 * HTTPTimeout + RequestBudgetSlack
  BY DurationFacts
<1> QED
  BY <1>1, WrapIsExact DEF NoOverflow, Limit, RequestTimeout

\* A handler starts from an open connection and never starts again.
LEMMA HandlerMoves ==
  ASSUME IInv, Next, NEW r \in Request
  PROVE  /\ handler'[r] \in {"idle", "connected"} => handler[r] \in {"idle", "connected"}
         /\ handler'[r] = "active" => handler[r] \in {"connected", "active"}
<1>1. handler \in [Request -> {"idle", "connected", "active", "returned"}]
  BY DEF IInv, TypeOK
<1>2. CASE UNCHANGED handler
  BY <1>1, <1>2
<1>3. CASE ServerStep
  BY <1>1, <1>3 DEF ServerStep, Listen, ListenFails, BudgetExpires, Signal, ConsulReaps, Begin, Return, Connect,
     serverVars
<1>4. CASE Main
  BY <1>2, <1>4 DEF Main, LoadConfig, Register, SelectStop, SelectError, Withdraw, StartShutdown,
     ShutdownCompletes, ShutdownTimesOut, StartClose, CloseReturns, Exit, serverVars
<1> QED
  BY <1>2, <1>3, <1>4, NextSplit, AuditTypeOK DEF serverVars

\* The numbers a request is accounted with.
LEMMA RequestRanges ==
  ASSUME NoOverflow, TimedInv
  PROVE  /\ Limit \in Nat /\ HTTPTimeout \in Nat /\ healthTimeout \in Nat /\ ReadHeaderTimeout \in Nat
         /\ \A r \in Request : /\ spent.request[r] \in Nat /\ spent.upload[r] \in Nat
                               /\ left.stage[r] \in Int
                               /\ stage[r] \in {"upload", "lookup", "extract", "probes", "reply"}
BY LimitIsExact, DurationFacts DEF TimedInv, ClockOK, Stages

LEMMA StepRequest ==
  ASSUME NoOverflow, TimedInv, RequestInv, Step
  PROVE  RequestInv'
<1>1. /\ stage' = stage /\ healthTimeout' = healthTimeout /\ Limit \in Nat
      /\ handler \in [Request -> {"idle", "connected", "active", "returned"}]
  BY RequestRanges DEF Step, Arms, TimedInv, IInv, TypeOK
<1> SUFFICES ASSUME NEW r \in Request
             PROVE  /\ left'.stage[r] >= 0
                    /\ handler'[r] \in {"idle", "connected"} =>
                         stage'[r] = "upload" /\ spent'.request[r] = 0 /\ spent'.upload[r] = 0
                    /\ handler'[r] = "active" => StageInv(r)'
  BY DEF RequestInv, Active
<1>2. /\ handler'[r] \in {"idle", "connected"} => handler[r] \in {"idle", "connected"}
      /\ handler'[r] = "active" => handler[r] \in {"connected", "active"}
  BY HandlerMoves DEF Step, TimedInv
<1>3. /\ left'.stage[r] = Arm(Starts(r), handler'[r] = "active", Limit, left.stage[r])
      /\ spent'.request[r] = IF handler'[r] = "active" THEN spent.request[r] ELSE 0
      /\ spent'.upload[r] = IF handler'[r] = "active" THEN spent.upload[r] ELSE 0
  BY DEF Step, Arms, Active, TimedInv, ClockOK
<1>4. CASE handler'[r] = "active" /\ handler[r] = "active"
  <2>1. /\ left'.stage[r] = left.stage[r] /\ stage'[r] = stage[r]
        /\ spent'.request[r] = spent.request[r] /\ spent'.upload[r] = spent.upload[r]
    BY <1>1, <1>3, <1>4 DEF Arm, Starts
  <2>2. StageInv(r) /\ left.stage[r] >= 0
    BY <1>4 DEF RequestInv, Active
  <2> QED
    BY <1>1, <1>4, <2>1, <2>2 DEF StageInv
<1>5. CASE handler'[r] = "active" /\ handler[r] = "connected"
  <2>1. /\ left'.stage[r] = Limit /\ stage'[r] = "upload"
        /\ spent'.request[r] = 0 /\ spent'.upload[r] = 0
    BY <1>1, <1>3, <1>5 DEF Arm, Starts, RequestInv
  <2> QED
    BY <1>1, <1>5, <2>1 DEF StageInv
<1>6. CASE handler'[r] # "active"
  BY <1>1, <1>2, <1>3, <1>6 DEF RequestInv, Arm, Starts
<1> QED
  BY <1>2, <1>4, <1>5, <1>6

LEMMA HandlesRequest ==
  ASSUME NoOverflow, TimedInv, RequestInv, NEW q \in Request, Handles(q)
  PROVE  RequestInv'
<1>1. PICK next \in Stages, limit \in Int :
        /\ Waits(q, next, limit)
        /\ \/ stage[q] = "upload" /\ next = "lookup" /\ limit = HTTPTimeout
           \/ stage[q] = "lookup" /\ next = "extract" /\ limit = HTTPTimeout
           \/ /\ stage[q] = "upload" /\ next = "probes" /\ limit = healthTimeout
              /\ spent.request[q] <= ReadHeaderTimeout
           \/ /\ next = "reply" /\ limit >= 0
              /\ limit > 0 => limit = ReadHeaderTimeout + Limit - spent.request[q]
  BY HandlesWaits DEF TimedInv
<1>2. /\ UNCHANGED <<handler, spent, healthTimeout>> /\ handler[q] = "active"
      /\ \A r \in Request : /\ stage'[r] = IF r = q THEN next ELSE stage[r]
                            /\ left'.stage[r] = IF r = q THEN limit ELSE left.stage[r]
  BY <1>1, WaitsClock DEF TimedInv, vars, serverVars
<1>3. /\ Limit \in Nat /\ HTTPTimeout \in Nat /\ healthTimeout \in Nat /\ ReadHeaderTimeout \in Nat
      /\ spent.request[q] \in Nat /\ spent.upload[q] \in Nat /\ left.stage[q] \in Int
  BY RequestRanges
<1>4. StageInv(q) /\ left.stage[q] >= 0
  BY <1>2 DEF RequestInv, Active
<1>5. limit >= 0 /\ StageInv(q)'
  <2>1. stage'[q] = next /\ left'.stage[q] = limit
    BY <1>2
  <2> QED
    BY <1>1, <1>2, <1>3, <1>4, <2>1 DEF StageInv
<1>6. \A r \in Active \ {q} : StageInv(r)'
  BY <1>2 DEF RequestInv, StageInv, Active
<1> QED
  BY <1>2, <1>5, <1>6 DEF RequestInv, Active

LEMMA TickRequest ==
  ASSUME NoOverflow, TimedInv, RequestInv, Tick
  PROVE  RequestInv'
<1>1. UNCHANGED <<handler, stage, healthTimeout>> /\ Active' = Active
  BY DEF Tick, vars, serverVars, Active
<1>2. /\ Limit \in Nat /\ HTTPTimeout \in Nat /\ healthTimeout \in Nat /\ ReadHeaderTimeout \in Nat
      /\ \A r \in Request : /\ spent.request[r] \in Nat /\ spent.upload[r] \in Nat
                            /\ left.stage[r] \in Int
  BY RequestRanges
<1>3. \A r \in Request :
        /\ left'.stage[r] = Counts(left.stage[r])
        /\ spent'.request[r] = spent.request[r] + IF r \in Active THEN 1 ELSE 0
        /\ spent'.upload[r] = spent.upload[r] + IF r \in Active /\ stage[r] = "upload" THEN 1 ELSE 0
  BY DEF Tick
<1>4. ASSUME NEW r \in Request, r \notin Active
      PROVE  spent'.request[r] = spent.request[r] /\ spent'.upload[r] = spent.upload[r]
  BY <1>2, <1>3, <1>4
<1>5. ASSUME NEW r \in Active
      PROVE  StageInv(r)'
  <2>1. r \in Request /\ left.stage[r] >= 0 /\ left.stage[r] # 0 /\ StageInv(r)
    BY <1>5 DEF Tick, AtItsEnd, RequestInv, Active
  <2>2. left'.stage[r] = left.stage[r] - 1 /\ spent'.request[r] = spent.request[r] + 1
    BY <1>3, <1>5, <2>1 DEF Counts
  <2>3. spent'.upload[r] = IF stage[r] = "upload" THEN spent.upload[r] + 1 ELSE spent.upload[r]
    BY <1>2, <1>3, <1>5, <2>1
  <2> QED
    BY <1>1, <1>2, <2>1, <2>2, <2>3 DEF StageInv
<1>6. \A r \in Request : handler[r] \in {"idle", "connected"} => r \notin Active
  BY DEF Active
<1>7. \A r \in Request : left'.stage[r] >= 0
  BY <1>2, <1>3 DEF RequestInv, Counts
<1> QED
  BY <1>1, <1>4, <1>5, <1>6, <1>7 DEF RequestInv

LEMMA RequestInductive == NoOverflow => (TimedSpec => []RequestInv)
<1> SUFFICES ASSUME NoOverflow PROVE TimedSpec => []RequestInv
  OBVIOUS
<1>1. TimedInit => RequestInv
  <2> SUFFICES ASSUME TimedInit PROVE RequestInv
    OBVIOUS
  <2>1. Active = {}
    BY DEF TimedInit, Init, Active
  <2> QED
    BY <2>1 DEF TimedInit, ClockInit, Timed, RequestInv
<1>2. TimedInv /\ RequestInv /\ [TimedNext]_<<vars, clockVars>> => RequestInv'
  <2>1. ASSUME RequestInv, UNCHANGED <<vars, clockVars>>
        PROVE  RequestInv'
    BY <2>1 DEF vars, serverVars, clockVars, RequestInv, StageInv, Active
  <2> QED
    BY <2>1, StepRequest, HandlesRequest, TickRequest DEF TimedNext
<1> QED
  BY <1>1, <1>2, TimedInductive, PTL DEF TimedSpec

\* Without overflow the timers stay within the timeouts they count down.
THEOREM TimersCorrect == NoOverflow => (TimedSpec => []TimersOK)
<1> SUFFICES ASSUME NoOverflow PROVE TimedSpec => []TimersOK
  OBVIOUS
<1>1. TimedInv /\ RequestInv => TimersOK
  <2> SUFFICES ASSUME TimedInv, RequestInv PROVE TimersOK
    OBVIOUS
  <2>1. TypeOK /\ ClockOK /\ \A r \in Request : left.stage[r] >= 0
    BY DEF TimedInv, IInv, RequestInv
  <2>2. /\ left.consul \in 0..ConsulTimeout /\ left.budget \in 0..shutdownTimeout
        /\ left.grace \in 0..(NewConnGrace + 1)
        /\ \A r \in Request : left.emission[r] \in 0..HTTPTimeout
    BY <2>1 DEF ClockOK, C, S
  <2> QED
    BY <2>1, <2>2 DEF ClockOK, TimersOK
<1> QED
  BY <1>1, RequestInductive, TimedInductive, PTL

\* Without overflow no answer that is due is cut off.
THEOREM InTimeDelivered == NoOverflow => (TimedSpec => []InTimeIsDelivered)
<1> SUFFICES ASSUME NoOverflow PROVE TimedSpec => []InTimeIsDelivered
  OBVIOUS
<1>1. TimedInv /\ RequestInv => InTimeIsDelivered
  <2> SUFFICES ASSUME TimedInv, RequestInv, NEW r \in Active
               PROVE  /\ stage[r] \in {"upload", "lookup", "extract"} /\ spent.upload[r] <= RequestBudgetSlack =>
                           spent.request[r] <= Limit
                      /\ stage[r] = "probes" /\ healthTimeout <= Limit =>
                           spent.request[r] <= spent.upload[r] + Limit
    BY DEF InTimeIsDelivered
  <2>1. /\ r \in Request /\ Limit \in Nat /\ HTTPTimeout \in Nat /\ healthTimeout \in Nat
        /\ spent.request[r] \in Nat /\ spent.upload[r] \in Nat /\ left.stage[r] \in Int
        /\ left.stage[r] >= 0 /\ StageInv(r)
    BY RequestRanges DEF RequestInv, Active
  <2>2. stage[r] \in {"upload", "lookup", "extract"} =>
          spent.request[r] <= spent.upload[r] + 2 * HTTPTimeout
    BY <2>1 DEF StageInv
  <2>3. stage[r] = "probes" => spent.request[r] <= spent.upload[r] + healthTimeout
    BY <2>1 DEF StageInv
  <2>4. Limit = 2 * HTTPTimeout + RequestBudgetSlack /\ RequestBudgetSlack \in Nat
    BY LimitIsExact, DurationFacts
  <2> QED
    BY <2>1, <2>2, <2>3, <2>4
<1> QED
  BY <1>1, RequestInductive, TimedInductive, PTL
-----------------------------------------------------------------------------
(* A roomy budget never expires before the process is done with it.         *)

H == HTTPTimeout
Stopping == {"draining", "close", "closing"}

\* While the server drains, the budget outlasts every handler, those that may still begin,
\* and the event each of them may still schedule.
RoomyInv ==
  /\ main \in Before \cup {"shutdown"} => ~failed
  /\ budget # "unset" => ~failed
  /\ main \in Stopping => budget = "running" /\ left.budget > 0
  /\ main \in Stopping => \A r \in Audit!Emitting : left.emission[r] < left.budget
  /\ main = "draining" =>
       /\ listener = "shut"
       /\ left.grace > 0 => left.budget + NewConnGrace + 1 >= S + left.grace
       /\ \A r \in Active, wait \in Longest : wait < left.budget + spent.request[r]
  /\ main = "closing" => waiter # "none"

\* The timers of a step, one by one.
LEMMA ArmsOne ==
  ASSUME Arms, NEW r \in Request
  PROVE  /\ left'.budget = Arm(budget' = "running" /\ budget # "running", Alive', S, left.budget)
         /\ left'.grace = Arm(listener' = "shut" /\ listener # "shut", listener' = "shut",
                              NewConnGrace + 1, left.grace)
         /\ left'.stage[r] = Arm(Starts(r), r \in Active', Limit, left.stage[r])
         /\ left'.emission[r] = Arm(Schedules(r), r \in Audit!Emitting', H, left.emission[r])
         /\ stage' = stage /\ S' = S
BY DEF Arms, S, H

\* Ranges, for arithmetic.
LEMMA RoomyRanges ==
  ASSUME NoOverflow, TimedInv, RequestInv
  PROVE  /\ H \in Nat \ {0} /\ Limit \in Nat /\ NewConnGrace \in Nat /\ S \in Nat
         /\ left.budget \in Nat /\ left.grace \in Nat /\ Longest \subseteq Nat
         /\ \A r \in Request : /\ left.stage[r] \in Nat /\ left.emission[r] \in 0..H
                               /\ spent.request[r] \in Nat
<1>1. /\ H \in Nat \ {0} /\ Limit \in Nat /\ NewConnGrace \in Nat /\ S \in Nat
      /\ left.budget \in Nat /\ left.grace \in Nat
      /\ healthTimeout \in Nat /\ ReadHeaderTimeout \in Nat
  BY LimitIsExact, DurationFacts DEF H, S, TimedInv, ClockOK
<1>2. \A r \in Request : left.stage[r] \in Nat /\ left.emission[r] \in 0..H /\ spent.request[r] \in Nat
  BY <1>1 DEF TimedInv, ClockOK, RequestInv, H
<1> QED
  BY <1>1, <1>2 DEF Longest, H

\* No wait of a running handler ends after the longest of its kind.
LEMMA StagesEnd ==
  ASSUME NoOverflow, TimedInv, RequestInv, NEW r \in Active
  PROVE  /\ left.stage[r] > 0 => \E wait \in Longest : spent.request[r] + left.stage[r] <= wait
         /\ stage[r] = "extract" => \E wait \in Longest : spent.request[r] + H <= wait
<1>1. /\ r \in Request /\ Limit \in Nat /\ H \in Nat /\ healthTimeout \in Nat
      /\ ReadHeaderTimeout \in Nat /\ spent.request[r] \in Nat /\ spent.upload[r] \in Nat
      /\ left.stage[r] \in Int /\ left.stage[r] >= 0 /\ StageInv(r)
      /\ stage[r] \in {"upload", "lookup", "extract", "probes", "reply"}
  BY RequestRanges DEF RequestInv, Active, H
<1>2. /\ Limit + 3 * H \in Longest /\ ReadHeaderTimeout + Limit \in Longest
      /\ ReadHeaderTimeout + healthTimeout \in Longest
  BY DEF Longest, H
<1>3. CASE stage[r] \in {"upload", "lookup", "extract"}
  <2>1. spent.request[r] + left.stage[r] <= Limit + 2 * H
    BY <1>1, <1>3 DEF StageInv, H
  <2> QED
    BY <1>1, <1>2, <2>1
<1>4. CASE stage[r] = "probes"
  <2>1. spent.request[r] + left.stage[r] <= ReadHeaderTimeout + healthTimeout
    BY <1>1, <1>4 DEF StageInv
  <2> QED
    BY <1>2, <1>4, <2>1
<1>5. CASE stage[r] = "reply"
  BY <1>1, <1>2, <1>5 DEF StageInv
<1> QED
  BY <1>1, <1>3, <1>4, <1>5

\* A roomy budget is longer than what the longest request takes after the grace.
LEMMA RoomyIs ==
  ASSUME NoOverflow, TimedInv, RequestInv, Roomy
  PROVE  S > H /\ S > NewConnGrace + H /\ \A wait \in Longest : S > NewConnGrace + wait
<1>1. \A wait \in Longest : S > NewConnGrace + wait
  BY DEF Roomy, S
<1>2. Limit + 3 * H \in Longest
  BY DEF Longest, H
<1> QED
  BY <1>1, <1>2, RoomyRanges

\* An event is scheduled by a running handler, and only once.
LEMMA EmissionMoves ==
  ASSUME IInv, Next, NEW r \in Request
  PROVE  /\ Schedules(r) => r \in Active
         /\ r \in Audit!Emitting' /\ ~Schedules(r) => r \in Audit!Emitting
<1>1. emission \in [Request -> {"none", "spawned", "posting", "ok", "unauthorized", "failed"}]
  BY DEF IInv, TypeOK, Audit!TypeOK, Audit!InFlight, Audit!Outcomes
<1>2. CASE UNCHANGED emission
  BY <1>1, <1>2 DEF Schedules, Audit!Emitting
<1>3. ASSUME NEW q \in Request, Schedule(q)
      PROVE  /\ Schedules(r) => r \in Active
             /\ r \in Audit!Emitting' /\ ~Schedules(r) => r \in Audit!Emitting
  <2>1. q \in Active /\ emission[q] = "none" /\ emission' = [emission EXCEPT ![q] = "spawned"]
    BY <1>3 DEF Schedule, Audit!LogAsync, Active
  <2> QED
    BY <1>1, <2>1 DEF Schedules, Audit!Emitting, Audit!InFlight
<1>4. ASSUME NEW q \in Request, Emit(q)
      PROVE  /\ Schedules(r) => r \in Active
             /\ r \in Audit!Emitting' /\ ~Schedules(r) => r \in Audit!Emitting
  <2>1. emission[q] \in {"spawned", "posting"} /\ \E o : emission' = [emission EXCEPT ![q] = o]
    BY <1>4 DEF Emit, Audit!Goroutine, Audit!Post, Audit!EmitReturns
  <2> QED
    BY <1>1, <2>1 DEF Schedules, Audit!Emitting, Audit!InFlight
<1>5. CASE Main
  BY <1>2, <1>5 DEF Main, LoadConfig, Register, SelectStop, SelectError, Withdraw, StartShutdown,
     ShutdownCompletes, ShutdownTimesOut, StartClose, CloseReturns, Exit, auditVars,
     Audit!Close, Audit!CloseDrained, Audit!CloseExpired
<1>6. CASE ServerStep
  BY <1>2, <1>6, ServerTypeOK DEF auditVars
<1> QED
  BY <1>2, <1>3, <1>4, <1>5, <1>6, NextSplit DEF AuditStep, Waiter, Auda, Audit!WaiterWakes, Audit!Auda

\* Neither wait of the stop ends by the budget, so that nothing fails.
LEMMA StepFailed ==
  ASSUME TimedInv, RoomyInv, Step
  PROVE  /\ main' \in Before \cup {"shutdown"} => ~failed'
         /\ budget' # "unset" => ~failed'
<1>1. Next /\ ConsulInv
  BY DEF Step, TimedInv
<1>2. CASE LoadConfig \/ Register \/ SelectStop \/ SelectError \/ Withdraw \/ StartShutdown
  <2>1. main \in Before \cup {"shutdown"} /\ budget = "unset" /\ ~failed
    BY <1>1, <1>2 DEF LoadConfig, Register, SelectStop, SelectError, Withdraw, StartShutdown, RoomyInv, ConsulInv,
       Before
  <2>2. CASE SelectError
    BY <2>1, <2>2 DEF SelectError, Before
  <2>3. CASE LoadConfig \/ Register
    <3>1. budget' = "unset"
      BY <2>1, <2>3 DEF LoadConfig, Register
    <3>2. main' = "exited" \/ UNCHANGED failed
      BY <2>3 DEF LoadConfig, Register
    <3> QED
      BY <2>1, <3>1, <3>2 DEF Before
  <2>4. CASE SelectStop \/ Withdraw \/ StartShutdown
    BY <2>1, <2>4 DEF SelectStop, Withdraw, StartShutdown
  <2> QED
    BY <1>2, <2>2, <2>3, <2>4
<1>3. CASE ShutdownCompletes \/ ShutdownTimesOut \/ StartClose \/ CloseReturns \/ Exit
  BY <1>3 DEF ShutdownCompletes, ShutdownTimesOut, StartClose, CloseReturns, Exit, Audit!CloseExpired,
     RoomyInv, Stopping, Before
<1>4. CASE ServerStep \/ AuditStep
  BY <1>4 DEF ServerStep, Listen, ListenFails, BudgetExpires, Signal, ConsulReaps, Begin, Return, Connect,
     AuditStep, Waiter, Schedule, Emit, Auda, mainVars, RoomyInv
<1> QED
  BY <1>1, <1>2, <1>3, <1>4, NextSplit DEF Main

\* Only StartShutdown sets the budget; while the process stops no step touches it.
LEMMA StepBudget ==
  ASSUME NoOverflow, TimedInv, RequestInv, RoomyInv, Roomy, Step, main' \in Stopping
  PROVE  /\ budget' = "running" /\ left'.budget > 0
         /\ \/ StartShutdown /\ left'.budget = S
            \/ main \in Stopping /\ left'.budget = left.budget
<1>1. /\ Next /\ H \in Nat \ {0} /\ Limit \in Nat /\ NewConnGrace \in Nat /\ S \in Nat /\ left.budget \in Nat
      /\ S > 0
  BY RoomyRanges, RoomyIs DEF Step
<1>2. left'.budget = Arm(budget' = "running" /\ budget # "running", Alive', S, left.budget)
  BY DEF Step, Arms, S
<1>3. Alive'
  BY DEF Stopping, Alive
<1>4. CASE StartShutdown
  <2>1. budget = "unset" /\ budget' = "running"
    BY <1>4 DEF StartShutdown, TimedInv, ConsulInv
  <2> QED
    BY <1>1, <1>2, <1>4, <2>1 DEF Arm
<1>5. CASE ~StartShutdown
  <2>1. main \in Stopping /\ UNCHANGED budget
    <3>1. CASE Main
      BY <1>5, <3>1 DEF Main, LoadConfig, Register, SelectStop, SelectError, Withdraw,
         ShutdownCompletes, ShutdownTimesOut, StartClose, CloseReturns, Exit, Stopping
    <3>2. CASE ServerStep
      <4>1. UNCHANGED main /\ (UNCHANGED budget \/ (budget = "running" /\ budget' = "expired"))
        BY <3>2 DEF ServerStep, Listen, ListenFails, BudgetExpires, Signal, ConsulReaps, Begin, Return, Connect,
           mainVars
      <4>2. ~(budget = "running" /\ budget' = "expired")
        BY <1>1, <4>1 DEF Step, InTime, RoomyInv
      <4> QED
        BY <4>1, <4>2
    <3>3. CASE AuditStep
      BY <3>3 DEF AuditStep, Waiter, Schedule, Emit, Auda, mainVars
    <3> QED
      BY <1>1, <3>1, <3>2, <3>3, NextSplit
  <2> QED
    BY <1>2, <1>3, <2>1 DEF RoomyInv, Arm
<1> QED
  BY <1>4, <1>5

LEMMA StepEmissions ==
  ASSUME NoOverflow, TimedInv, RequestInv, RoomyInv, Roomy, Step, main' \in Stopping,
         NEW r \in Request, r \in Audit!Emitting'
  PROVE  left'.emission[r] < left'.budget
<1>1. /\ H \in Nat \ {0} /\ S \in Nat /\ left.budget \in Nat /\ left.emission[r] \in 0..H
      /\ spent.request[r] \in Nat /\ Longest \subseteq Nat /\ S > H
  BY RoomyRanges, RoomyIs
<1>2. left'.emission[r] = IF Schedules(r) THEN H ELSE left.emission[r]
  BY DEF Step, Arms, Arm, H
<1>3. /\ Schedules(r) => r \in Active /\ stage[r] = "extract"
      /\ ~Schedules(r) => r \in Audit!Emitting
  BY EmissionMoves DEF Step, InTime, TimedInv
<1>4. CASE left'.budget = S
  BY <1>1, <1>2, <1>4
<1>5. CASE main \in Stopping /\ left'.budget = left.budget
  <2>1. CASE Schedules(r)
    <3>1. main = "draining"
      <4>1. Active # {}
        BY <1>3, <2>1
      <4> QED
        BY <1>5, <4>1 DEF TimedInv, IInv, DrainInv, PastShutdown, RoomyInv, Stopping
    <3>2. PICK wait \in Longest : spent.request[r] + H <= wait
      BY <1>3, <2>1, StagesEnd
    <3>3. wait < left.budget + spent.request[r] /\ wait \in Nat
      BY <1>1, <1>3, <2>1, <3>1 DEF RoomyInv
    <3> QED
      BY <1>1, <1>2, <1>5, <2>1, <3>2, <3>3
  <2>2. CASE ~Schedules(r)
    BY <1>2, <1>3, <1>5, <2>2 DEF RoomyInv
  <2> QED
    BY <2>1, <2>2
<1> QED
  BY <1>4, <1>5, StepBudget

LEMMA StepDraining ==
  ASSUME NoOverflow, TimedInv, RequestInv, RoomyInv, Roomy, Step, main' = "draining"
  PROVE  /\ listener' = "shut"
         /\ left'.grace > 0 => left'.budget + NewConnGrace + 1 >= S' + left'.grace
         /\ \A r \in Active', wait \in Longest : wait < left'.budget + spent'.request[r]
<1>1. /\ NewConnGrace \in Nat /\ S \in Nat /\ left.budget \in Nat /\ left.grace \in Nat
      /\ Longest \subseteq Nat /\ \A wait \in Longest : S > NewConnGrace + wait
      /\ \A r \in Request : spent.request[r] \in Nat
  BY RoomyRanges, RoomyIs
<1>2. /\ Next /\ S' = S
      /\ left'.grace = Arm(listener' = "shut" /\ listener # "shut", listener' = "shut",
                           NewConnGrace + 1, left.grace)
      /\ \A r \in Active' : spent'.request[r] = spent.request[r]
  BY DEF Step, Arms, S, Active, TimedInv, ClockOK
<1>3. Active' \subseteq Request /\ \A r \in Active' : Starts(r) \/ r \in Active
  BY DEF Active, Starts
<1>4. CASE StartShutdown
  <2>1. listener # "shut" /\ listener' = "shut" /\ UNCHANGED handler
    BY <1>4 DEF StartShutdown, TimedInv, ConsulInv
  <2>2. left'.budget = S
    <3>1. main \notin Stopping
      BY <1>4 DEF StartShutdown, Stopping
    <3> QED
      BY <3>1, StepBudget DEF Stopping
  <2>3. left'.grace = NewConnGrace + 1
    BY <1>2, <2>1 DEF Arm
  <2>4. ASSUME NEW r \in Active', NEW wait \in Longest
        PROVE  wait < left'.budget + spent'.request[r]
    BY <1>1, <1>2, <1>3, <2>2
  <2> QED
    BY <1>1, <1>2, <2>1, <2>2, <2>3, <2>4
<1>5. CASE ~StartShutdown
  <2>1. main = "draining" /\ left'.budget = left.budget
    <3>1. main \in Stopping /\ left'.budget = left.budget
      BY <1>5, StepBudget DEF Stopping
    <3>2. Main => FALSE
      BY <1>5, <3>1 DEF Main, LoadConfig, Register, SelectStop, SelectError, Withdraw,
         ShutdownCompletes, ShutdownTimesOut, StartClose, CloseReturns, Exit, Stopping
    <3>3. UNCHANGED main
      BY <1>2, <3>2, NextMoves DEF Next, Process, Environment, Listen, ListenFails, BudgetExpires, Signal,
         ConsulReaps, Begin, Return, Connect, Waiter, Schedule, Emit, Auda, mainVars
    <3> QED
      BY <3>1, <3>3
  <2>2. /\ listener = "shut"
        /\ left.grace > 0 => left.budget + NewConnGrace + 1 >= S + left.grace
        /\ \A r \in Active, wait \in Longest : wait < left.budget + spent.request[r]
    BY <2>1 DEF RoomyInv
  <2>3. listener' = "shut"
    BY <1>2, <1>5, <2>1, <2>2 DEF Next, Process, Environment, Main, LoadConfig, Register, SelectStop, SelectError,
       Withdraw, ShutdownCompletes, ShutdownTimesOut, StartClose, CloseReturns, Exit, Listen, ListenFails,
       BudgetExpires, Signal, ConsulReaps, Begin, Return, Connect, Waiter, Schedule, Emit, Auda, serverVars
  <2>4. left'.grace = left.grace
    BY <1>2, <2>2, <2>3 DEF Arm
  <2>5. ASSUME NEW r \in Active', NEW wait \in Longest
        PROVE  wait < left'.budget + spent'.request[r]
    <3>1. CASE Starts(r)
      <4>1. left.grace > 0
        BY <1>3, <2>2, <3>1 DEF Step, InTime
      <4> QED
        BY <1>1, <1>2, <1>3, <2>1, <2>2, <4>1
    <3>2. CASE r \in Active
      BY <1>2, <2>1, <2>2, <3>2
    <3> QED
      BY <1>3, <3>1, <3>2
  <2> QED
    BY <1>2, <2>1, <2>2, <2>3, <2>4, <2>5
<1> QED
  BY <1>4, <1>5

LEMMA StepWaiter ==
  ASSUME RoomyInv, Next, main' = "closing"
  PROVE  waiter' # "none"
<1>1. CASE Main
  BY <1>1 DEF Main, LoadConfig, Register, SelectStop, SelectError, Withdraw, StartShutdown,
     ShutdownCompletes, ShutdownTimesOut, StartClose, CloseReturns, Exit, Audit!Close
<1>2. CASE ServerStep
  BY <1>2 DEF ServerStep, Listen, ListenFails, BudgetExpires, Signal, ConsulReaps, Begin, Return, Connect,
     mainVars, auditVars, RoomyInv
<1>3. CASE AuditStep
  BY <1>3 DEF AuditStep, Waiter, Schedule, Emit, Auda, mainVars, RoomyInv, Audit!WaiterWakes, Audit!LogAsync,
     Audit!Goroutine, Audit!Post, Audit!EmitReturns, Audit!Auda
<1> QED
  BY <1>1, <1>2, <1>3, NextSplit

\* A handler's next wait costs nothing yet, and its end is counted already.
LEMMA HandlesRoomy ==
  ASSUME TimedInv, RoomyInv, NEW q \in Request, Handles(q)
  PROVE  RoomyInv'
<1>1. /\ UNCHANGED <<vars, spent, shutdownTimeout, healthTimeout>> /\ left'.budget = left.budget
      /\ left'.grace = left.grace /\ left'.emission = left.emission
  BY HandlesWaits, WaitsClock DEF TimedInv
<1>2. /\ UNCHANGED <<main, failed, budget, listener, waiter>> /\ S' = S /\ Longest' = Longest
      /\ Audit!Emitting' = Audit!Emitting /\ Active' = Active
  BY <1>1 DEF vars, mainVars, serverVars, auditVars, Audit!Emitting, Active, S, Longest
<1> QED
  BY <1>1, <1>2 DEF RoomyInv

\* Time passes only while somebody whom the budget outlasts is waited for.
LEMMA TickRoomy ==
  ASSUME NoOverflow, TimedInv, RequestInv, RoomyInv, Roomy, Tick
  PROVE  RoomyInv'
<1>1. /\ NewConnGrace \in Nat /\ H \in Nat \ {0} /\ S \in Nat /\ S > NewConnGrace + H
      /\ left.budget \in Nat /\ left.grace \in Nat
      /\ Longest \subseteq Nat /\ \A wait \in Longest : S > NewConnGrace + wait
      /\ \A r \in Request : /\ spent.request[r] \in Nat /\ left.stage[r] \in Nat
                            /\ left.emission[r] \in Nat
  BY RoomyRanges, RoomyIs
<1>2. /\ UNCHANGED <<main, failed, budget, listener, waiter>> /\ S' = S /\ Longest' = Longest
      /\ Audit!Emitting' = Audit!Emitting /\ Active' = Active
  BY DEF Tick, vars, mainVars, serverVars, auditVars, Audit!Emitting, Active, S, Longest
<1>3. /\ left'.budget = IF budget = "running" THEN Counts(left.budget) ELSE left.budget
      /\ left'.grace = Counts(left.grace)
      /\ \A r \in Request : left'.emission[r] = Counts(left.emission[r])
      /\ \A r \in Request : r \in Active => spent'.request[r] = spent.request[r] + 1
  BY DEF Tick
<1>4. /\ \A r \in Active : left.stage[r] # 0
      /\ \A r \in Audit!Emitting : left.emission[r] # 0
      /\ main \notin {"shutdown", "close"}
  BY DEF Tick, AtItsEnd, Urgent
<1>5. Active \subseteq Request /\ Audit!Emitting \subseteq Request
  BY DEF Active, Audit!Emitting
<1>6. CASE main \notin Stopping
  BY <1>2, <1>6 DEF RoomyInv, Stopping
<1>7. CASE main = "draining"
  <2>1. /\ budget = "running" /\ left.budget > 0 /\ listener = "shut" /\ ~failed
        /\ left.grace > 0 => left.budget + NewConnGrace + 1 >= S + left.grace
        /\ \A r \in Active, wait \in Longest : wait < left.budget + spent.request[r]
        /\ \A r \in Audit!Emitting : left.emission[r] < left.budget
    BY <1>7 DEF RoomyInv, Stopping
  <2>2. left'.budget = left.budget - 1
    BY <1>1, <1>3, <2>1 DEF Counts
  <2>3. left.budget > 1
    <3>1. CASE Active = {}
      <4>1. left.grace # 0
        BY <1>7, <3>1 DEF Tick, Urgent
      <4> QED
        BY <1>1, <2>1, <4>1
    <3>2. ASSUME NEW r \in Active
          PROVE  left.budget > 1
      <4>1. left.stage[r] > 0 /\ r \in Request
        BY <1>1, <1>4, <1>5
      <4>2. PICK wait \in Longest : spent.request[r] + left.stage[r] <= wait
        BY <4>1, StagesEnd
      <4>3. wait < left.budget + spent.request[r]
        BY <2>1
      <4> QED
        BY <1>1, <4>1, <4>2, <4>3
    <3> QED
      BY <3>1, <3>2
  <2>4. ASSUME NEW r \in Active, NEW wait \in Longest
        PROVE  wait < left'.budget + spent'.request[r]
    BY <1>1, <1>3, <1>5, <2>1, <2>2
  <2>5. ASSUME NEW r \in Audit!Emitting
        PROVE  left'.emission[r] < left'.budget
    <3>1. left'.emission[r] = left.emission[r] - 1
      BY <1>1, <1>3, <1>4, <1>5 DEF Counts
    <3> QED
      BY <1>1, <1>5, <2>1, <2>2, <3>1
  <2>6. left'.grace > 0 => left'.budget + NewConnGrace + 1 >= S' + left'.grace
    BY <1>1, <1>2, <1>3, <2>1, <2>2 DEF Counts
  <2>7. left'.budget > 0
    BY <1>1, <2>2, <2>3
  <2> QED
    BY <1>2, <1>7, <2>1, <2>4, <2>5, <2>6, <2>7 DEF RoomyInv, Before
<1>8. CASE main = "closing"
  <2>1. /\ budget = "running" /\ left.budget > 0 /\ ~failed /\ waiter # "none"
        /\ \A r \in Audit!Emitting : left.emission[r] < left.budget
    BY <1>8 DEF RoomyInv, Stopping
  <2>2. waiter = "waiting" /\ wg # 0
    BY <1>8, <2>1 DEF Tick, Urgent, TimedInv, IInv, TypeOK, Audit!TypeOK
  <2>3. PICK r \in Audit!Emitting : TRUE
    BY <2>2, FS_EmptySet DEF TimedInv, IInv, WaitGroupExact
  <2>4. left.budget > 1
    BY <1>1, <1>4, <1>5, <2>1, <2>3
  <2>5. left'.budget = left.budget - 1
    BY <1>1, <1>3, <2>1 DEF Counts
  <2>6. ASSUME NEW e \in Audit!Emitting
        PROVE  left'.emission[e] < left'.budget
    <3>1. left'.emission[e] = left.emission[e] - 1
      BY <1>1, <1>3, <1>4, <1>5 DEF Counts
    <3> QED
      BY <1>1, <1>5, <2>1, <2>5, <3>1
  <2>7. left'.budget > 0
    BY <1>1, <2>4, <2>5
  <2> QED
    BY <1>2, <1>8, <2>1, <2>6, <2>7 DEF RoomyInv, Before
<1> QED
  BY <1>4, <1>6, <1>7, <1>8 DEF Stopping

\* A budget that covers the longest request - with HEALTH_CHECK_TIMEOUT among what it covers -
\* ends every stop by a signal with status 0, unless the timeouts overflow.
THEOREM RoomyClean == NoOverflow => (TimedSpec => []RoomyStopIsClean)
<1> SUFFICES ASSUME NoOverflow PROVE TimedSpec => []RoomyStopIsClean
  OBVIOUS
<1> DEFINE Inv == Roomy => RoomyInv
<1>1. TimedInit => Inv
  <2> SUFFICES ASSUME TimedInit PROVE Inv
    OBVIOUS
  <2>1. ~failed
    BY Zenon DEF TimedInit, Init
  <2>2. main = "start" /\ budget = "unset"
    BY DEF TimedInit, Init
  <2> QED
    BY <2>1, <2>2 DEF RoomyInv, Stopping
<1>2. TimedInv /\ RequestInv /\ Inv /\ [TimedNext]_<<vars, clockVars>> => Inv'
  <2> SUFFICES ASSUME TimedInv, RequestInv, Inv, [TimedNext]_<<vars, clockVars>> PROVE Inv'
    OBVIOUS
  <2>1. Roomy' = Roomy /\ Longest' = Longest
    BY HandlesWaits, WaitsClock DEF TimedNext, Step, Arms, Tick, clockVars, Roomy, Longest, TimedInv
  <2>2. CASE Step
    <3> SUFFICES ASSUME Roomy PROVE RoomyInv'
      BY <2>1
    <3>1. RoomyInv
      OBVIOUS
    <3>2. /\ main' \in Before \cup {"shutdown"} => ~failed'
          /\ budget' # "unset" => ~failed'
      BY <2>2, <3>1, StepFailed
    <3>3. main' \in Stopping => budget' = "running" /\ left'.budget > 0
      BY <2>2, <3>1, StepBudget
    <3>4. main' \in Stopping => \A r \in Audit!Emitting' : left'.emission[r] < left'.budget
      <4>1. Audit!Emitting' \subseteq Request
        BY DEF Audit!Emitting
      <4> QED
        BY <2>2, <3>1, <4>1, StepEmissions
    <3>5. main' = "draining" =>
            /\ listener' = "shut"
            /\ left'.grace > 0 => left'.budget + NewConnGrace + 1 >= S' + left'.grace
            /\ \A r \in Active', wait \in Longest : wait < left'.budget + spent'.request[r]
      BY <2>2, <3>1, StepDraining
    <3>6. main' = "closing" => waiter' # "none"
      BY <2>2, <3>1, StepWaiter DEF Step
    <3> QED
      BY <2>1, <3>2, <3>3, <3>4, <3>5, <3>6 DEF RoomyInv
  <2>3. CASE Tick \/ \E q \in Request : Handles(q)
    BY <2>1, <2>3, TickRoomy, HandlesRoomy
  <2>4. CASE UNCHANGED <<vars, clockVars>>
    BY <2>1, <2>4 DEF vars, mainVars, serverVars, auditVars, clockVars, RoomyInv, Active, Audit!Emitting, S
  <2> QED
    BY <2>2, <2>3, <2>4 DEF TimedNext
<1>3. Inv => RoomyStopIsClean
  BY DEF RoomyInv, RoomyStopIsClean
<1> QED
  BY <1>1, <1>2, <1>3, RequestInductive, TimedInductive, PTL DEF TimedSpec
=============================================================================
