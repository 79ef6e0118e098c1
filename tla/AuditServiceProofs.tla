------------------------- MODULE AuditServiceProofs -------------------------
(***************************************************************************)
(* For every set of events and every behaviour of AUDA: the WaitGroup is   *)
(* exact and Close, when it returns nil, has waited for what it owed.      *)
(***************************************************************************)
EXTENDS AuditService, FiniteSetTheorems, TLAPS

\* What Close knows, and how far it has got.  A goroutine that Close owes was
\* scheduled before it, so that LogAsync never adds to the owed ones; and they
\* have all ended from the moment the waiter saw the counter at zero.
CloserInv ==
  /\ owed \subseteq Scheduled
  /\ waiter = "closed" => owed \cap Emitting = {}
  /\ closer = "none" => waiter = "none"
  /\ closer = "drained" => waiter = "closed"

IInv == TypeOK /\ WaitGroupIsExact /\ CloserInv

\* Emitting is finite, so that its cardinality means something.
LEMMA EmittingFinite == IsFiniteSet(Emitting)
BY EventAssumption, FS_Subset DEF Emitting

\* A goroutine more raises the count of the emitting ones by one.
LEMMA OneMore ==
  ASSUME NEW e \in Event, e \notin Emitting, Emitting' = Emitting \cup {e}
  PROVE  Cardinality(Emitting') = Cardinality(Emitting) + 1
BY EmittingFinite, FS_AddElement

\* A goroutine less lowers it by one, never below zero.
LEMMA OneLess ==
  ASSUME NEW e \in Event, e \in Emitting, Emitting' = Emitting \ {e}
  PROVE  Cardinality(Emitting') = Cardinality(Emitting) - 1 /\ Cardinality(Emitting') \in Nat
BY EmittingFinite, FS_RemoveElement, FS_CardinalityType

\* The counter at zero means that nothing is being emitted.
LEMMA ZeroMeansNone ==
  ASSUME WaitGroupIsExact, wg = 0
  PROVE  Emitting = {}
BY EmittingFinite, FS_EmptySet DEF WaitGroupIsExact

LEMMA InitIInv == SpecInit => IInv
<1> SUFFICES ASSUME SpecInit PROVE IInv
  OBVIOUS
<1>1. Emitting = {}
  BY DEF SpecInit, Init, Emitting, InFlight
<1>2. deadline \in BOOLEAN /\ requestDone \in [Event -> BOOLEAN]
  BY Zenon DEF SpecInit
<1>3. TypeOK
  BY <1>2 DEF SpecInit, Init, TypeOK
<1> QED
  BY <1>1, <1>3, FS_EmptySet DEF IInv, WaitGroupIsExact, CloserInv, SpecInit, Init

LEMMA LogAsyncIInv ==
  ASSUME IInv, NEW e \in Event, LogAsync(e), UNCHANGED <<deadline, requestDone>>
  PROVE  IInv'
<1> USE DEF IInv
<1>1. e \notin Emitting /\ Emitting' = Emitting \cup {e}
  BY DEF TypeOK, LogAsync, Emitting, InFlight
<1>2. WaitGroupIsExact'
  BY <1>1, OneMore DEF LogAsync, WaitGroupIsExact
<1>3. TypeOK'
  BY DEF TypeOK, LogAsync, InFlight
<1>4. e \notin owed
  BY DEF CloserInv, Scheduled, LogAsync
<1>5. CloserInv'
  BY <1>1, <1>4 DEF CloserInv, Scheduled, LogAsync, TypeOK
<1> QED
  BY <1>2, <1>3, <1>5

LEMMA PostIInv ==
  ASSUME IInv, NEW e \in Event, Post(e), UNCHANGED <<deadline, requestDone>>
  PROVE  IInv'
<1> USE DEF IInv
<1>1. TypeOK'
  BY DEF TypeOK, Post, InFlight
<1>2. Emitting' = Emitting /\ Scheduled' = Scheduled
  BY DEF TypeOK, Post, Emitting, Scheduled, InFlight
<1> QED
  BY <1>1, <1>2 DEF Post, WaitGroupIsExact, CloserInv

LEMMA AudaIInv ==
  ASSUME IInv, NEW e \in Event, Auda(e), UNCHANGED <<deadline, requestDone>>
  PROVE  IInv'
<1> USE DEF IInv
<1>1. TypeOK'
  BY DEF TypeOK, Auda
<1>2. Emitting' = Emitting /\ Scheduled' = Scheduled
  BY DEF Auda, Emitting, Scheduled
<1> QED
  BY <1>1, <1>2 DEF Auda, WaitGroupIsExact, CloserInv

LEMMA EmitReturnsIInv ==
  ASSUME IInv, NEW e \in Event, EmitReturns(e), UNCHANGED <<deadline, requestDone>>
  PROVE  IInv'
<1> USE DEF IInv
<1>1. PICK o \in Outcomes : emission' = [emission EXCEPT ![e] = o]
  BY DEF EmitReturns, Outcome, Outcomes
<1>2. e \in Emitting /\ Emitting' = Emitting \ {e} /\ Scheduled' = Scheduled
  BY <1>1 DEF TypeOK, EmitReturns, Emitting, Scheduled, InFlight, Outcomes
<1>3. WaitGroupIsExact' /\ wg' \in Nat
  BY <1>2, OneLess DEF EmitReturns, WaitGroupIsExact
<1>4. TypeOK'
  BY <1>1, <1>3 DEF TypeOK, EmitReturns
<1>5. CloserInv'
  BY <1>2 DEF CloserInv, EmitReturns
<1> QED
  BY <1>3, <1>4, <1>5

LEMMA CloseIInv ==
  ASSUME IInv, Close, UNCHANGED <<deadline, requestDone>>
  PROVE  IInv'
<1> USE DEF IInv
<1>1. TypeOK'
  BY DEF TypeOK, Close, Emitting
<1>2. Emitting' = Emitting /\ Scheduled' = Scheduled
  BY DEF Close, Emitting, Scheduled
<1>3. Emitting \subseteq Scheduled
  BY DEF Emitting, Scheduled, InFlight
<1> QED
  BY <1>1, <1>2, <1>3 DEF Close, WaitGroupIsExact, CloserInv

\* The only step that has something to say: the waiter wakes at zero.
LEMMA CloserStepIInv ==
  ASSUME IInv, CloserStep, UNCHANGED <<deadline, requestDone>>
  PROVE  IInv'
<1> USE DEF IInv
<1>1. Emitting' = Emitting /\ Scheduled' = Scheduled /\ TypeOK' /\ wg' = wg /\ owed' = owed
  BY DEF CloserStep, WaiterWakes, CloseDrained, CloseExpired, TypeOK, Emitting, Scheduled
<1>2. CASE WaiterWakes
  BY <1>1, <1>2, ZeroMeansNone DEF WaiterWakes, WaitGroupIsExact, CloserInv
<1>3. CASE CloseDrained
  BY <1>1, <1>3 DEF CloseDrained, WaitGroupIsExact, CloserInv
<1>4. CASE CloseExpired
  BY <1>1, <1>4 DEF CloseExpired, WaitGroupIsExact, CloserInv
<1> QED
  BY <1>2, <1>3, <1>4 DEF CloserStep

LEMMA NextIInv == IInv /\ [Next]_vars => IInv'
<1> SUFFICES ASSUME IInv, [Next]_vars PROVE IInv'
  OBVIOUS
<1>1. CASE ServiceStep /\ UNCHANGED <<deadline, requestDone>>
  BY <1>1, LogAsyncIInv, PostIInv, AudaIInv, EmitReturnsIInv, CloseIInv, CloserStepIInv
  DEF ServiceStep, Goroutine
<1>2. CASE DeadlinePasses
  BY <1>2 DEF IInv, DeadlinePasses, TypeOK, WaitGroupIsExact, CloserInv, Emitting, Scheduled
<1>3. CASE \E e \in Event : RequestEnds(e)
  BY <1>3 DEF IInv, RequestEnds, TypeOK, WaitGroupIsExact, CloserInv, Emitting, Scheduled
<1>4. CASE UNCHANGED vars
  BY <1>4 DEF IInv, vars, TypeOK, WaitGroupIsExact, CloserInv, Emitting, Scheduled
<1> QED
  BY <1>1, <1>2, <1>3, <1>4 DEF Next

\* The strengthened invariant holds in every reachable state.
THEOREM Inductive == Spec => []IInv
BY InitIInv, NextIInv, PTL DEF Spec

\* The WaitGroup counts the goroutines exactly, in every reachable state.
THEOREM WaitGroupExact == Spec => []WaitGroupIsExact
BY Inductive, PTL DEF IInv

\* The service's state has its types; in particular the counter never goes below zero,
\* where WaitGroup.Done panics.
THEOREM TypeCorrect == Spec => []TypeOK
BY Inductive, PTL DEF IInv

\* Close returns nil only when everything in flight at its call has ended.
THEOREM CloseKeepsPromise == Spec => []DrainedKeepsPromise
<1>1. IInv => DrainedKeepsPromise
  BY DEF IInv, CloserInv, DrainedKeepsPromise
<1> QED
  BY <1>1, Inductive, PTL
=============================================================================
