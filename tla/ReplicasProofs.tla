--------------------------- MODULE ReplicasProofs ---------------------------
(***************************************************************************)
(* For every number of replicas, width of the integers, store and edits:   *)
(* the limits in force are sizes somebody wrote; a replica unlists another  *)
(* only under an id they share, withdraws its own entry and, started again, *)
(* replaces it; and as long as nobody sets a service address or id by hand, *)
(* no two replicas share one.  A blank entry ends a start; settings of      *)
(* Consul are read the same twice as long as the store has none.            *)
(***************************************************************************)
EXTENDS Replicas, Int64Proofs

\* What a process can read is what somebody wrote.
Written(get) == \A k \in Key : get[k] \in WrittenAt(k)

SettingsAreWritten(c) ==
  /\ \A k \in SizeKeys : c.size[k] > 0 /\ \E raw \in WrittenAt(k) :
       raw.is = "number" /\ c.size[k] = raw.number * ByteFactor[raw.unit]
  /\ c.consul.address \in WrittenAt("CONSUL_SERVICE_ADDRESS")
  /\ c.consul.id \in WrittenAt("CONSUL_SERVICE_ID")

\* The strengthening: the store and the environments hold written settings only.
IInv ==
  /\ TypeOK
  /\ DOMAIN cfg = Node
  /\ DOMAIN kv = {"values", "folder", "sibling"}
  /\ \A n \in Node : Written(env[n])
  /\ \A k \in DOMAIN kv.values : kv.values[k] \in WrittenAt(k)
  /\ \A n \in Node : phase[n] \in Built => SettingsAreWritten(cfg[n])

LEMMA SizeKeysAreKeys == SizeKeys \subseteq Key
BY DEF Key, RequiredKeys

LEMMA OverlayIsWritten ==
  ASSUME NEW values, NEW e, Written(e), \A k \in DOMAIN values : values[k] \in WrittenAt(k)
  PROVE  Written(Overlay(values, e))
BY DEF Written, Overlay

\* A size that parseByteSize accepts is not changed by the multiplication.
LEMMA AcceptedSize ==
  ASSUME NEW k \in SizeKeys, NEW raw \in WrittenAt(k), IsByteSize(raw)
  PROVE  ByteSizeOf(raw) = raw.number * ByteFactor[raw.unit] /\ ByteSizeOf(raw) \in 1..MaxInt
<1>1. /\ raw.is = "number" /\ raw.number \in Int /\ raw.number > 0
      /\ ByteFactor[raw.unit] \in Nat \ {0}
      /\ raw.number <= MaxInt \div ByteFactor[raw.unit]
  BY NumbersAssumption, ByteFactorAssumption DEF IsByteSize, SplitByteSize
<1>2. raw.number * ByteFactor[raw.unit] <= MaxInt
  BY <1>1, QuotientGuardIsExact
<1>3. 1 * ByteFactor[raw.unit] <= raw.number * ByteFactor[raw.unit]
  BY <1>1, ProductMonotonic
<1>4. raw.number * ByteFactor[raw.unit] \in Int /\ 0 < raw.number * ByteFactor[raw.unit]
  BY <1>1, <1>3
<1>5. Wrap(raw.number * ByteFactor[raw.unit]) = raw.number * ByteFactor[raw.unit]
  BY <1>2, <1>4, WrapIsExact
<1> QED
  BY <1>2, <1>4, <1>5, MaxIntAssumption DEF ByteSizeOf

LEMMA ValidSettings ==
  ASSUME NEW get, Written(get), Valid(get)
  PROVE  SettingsAreWritten(FromEnv(get))
<1>1. ASSUME NEW k \in SizeKeys
      PROVE  /\ FromEnv(get).size[k] > 0
             /\ \E raw \in WrittenAt(k) : /\ raw.is = "number"
                                          /\ FromEnv(get).size[k] = raw.number * ByteFactor[raw.unit]
  <2>1. FromEnv(get).size[k] = ByteSizeOf(get[k])
    BY DEF FromEnv
  <2>2. get[k] \in WrittenAt(k) /\ IsByteSize(get[k]) /\ get[k].is = "number"
    BY SizeKeysAreKeys DEF Written, Valid, IsByteSize, SplitByteSize
  <2> QED
    BY <2>1, <2>2, AcceptedSize
<1>2. {"CONSUL_SERVICE_ADDRESS", "CONSUL_SERVICE_ID"} \subseteq Key
  BY DEF Key, ConsulKeys
<1>3. /\ FromEnv(get).consul.address = get["CONSUL_SERVICE_ADDRESS"]
      /\ FromEnv(get).consul.id = get["CONSUL_SERVICE_ID"]
  BY DEF FromEnv, ConsulSettings
<1> QED
  BY <1>1, <1>2, <1>3 DEF SettingsAreWritten, Written

\* What Load accepts has the types of a configuration.
LEMMA ValidConfig ==
  ASSUME NEW get, Written(get), Valid(get)
  PROVE  ConfigOK(FromEnv(get))
<1>1. FromEnv(get).port \in 1..MaxPort
  <2>1. IsPort(get["PORT"])
    BY DEF Valid
  <2>2. "PORT" \in Key
    BY DEF Key, RequiredKeys
  <2>3. get["PORT"].number \in Int
    BY <2>1, <2>2, NumbersAssumption DEF Written, IsPort, IsInt
  <2>4. \A raw : raw.number \in Int /\ IsPort(raw) => raw.number \in 1..MaxPort
    <3>1. MaxPort \in Int
      BY DEF MaxPort
    <3> QED
      BY <3>1 DEF IsPort
  <2>5. FromEnv(get).port = get["PORT"].number
    BY DEF FromEnv
  <2> QED
    BY <2>1, <2>3, <2>4, <2>5
<1>2. ASSUME NEW k \in SizeKeys
      PROVE  FromEnv(get).size[k] \in 1..MaxInt
  <2>1. get[k] \in WrittenAt(k) /\ IsByteSize(get[k])
    BY SizeKeysAreKeys DEF Written, Valid
  <2> QED
    BY <2>1, AcceptedSize DEF FromEnv
<1>3. ASSUME NEW k \in DurationKeys
      PROVE  0 < FromEnv(get).timeout[k] /\ FromEnv(get).timeout[k] <= MaxInt
  <2>1. FromEnv(get).timeout[k] = DurationOf(get[k])
    BY DEF FromEnv
  <2> QED
    BY <2>1 DEF Valid, IsDuration
<1>4. FromEnv(get).consul.enabled \in BOOLEAN
  BY DEF FromEnv, ConsulSettings
<1> QED
  BY <1>1, <1>2, <1>3, <1>4 DEF ConfigOK

LEMMA InitIInv == Init => IInv
<1> SUFFICES ASSUME Init PROVE IInv
  OBVIOUS
<1>1. Store.folder \in BOOLEAN /\ Store.sibling \in BOOLEAN
  BY StoreAssumption, Zenon
<1>2. kv.folder \in BOOLEAN /\ kv.sibling \in BOOLEAN /\ DOMAIN kv.values \subseteq Key
  BY <1>1, StoreAssumption, Zenon DEF Init
<1>3. TypeOK
  BY <1>2, MaxEditsAssumption DEF Init, TypeOK, Built
<1>4. \A n \in Node : Written(env[n])
  BY DEF Init, Written, WrittenAt
<1>5. \A k \in DOMAIN kv.values : kv.values[k] \in WrittenAt(k)
  BY DEF Init, WrittenAt
<1> QED
  BY <1>3, <1>4, <1>5, StoreAssumption DEF Init, IInv, Built

\* What each kind of step does to the state of a node.
LEMMA EndsKeeps ==
  ASSUME IInv, NEW n \in Node, Ends(n), UNCHANGED <<env, kv, edits>>,
         \A e \in catalog' : e.owner \in Node
  PROVE  IInv'
<1>1. /\ \A m \in Node : /\ phase'[m] = IF m = n THEN "down" ELSE phase[m]
                         /\ cfg'[m] = IF m = n THEN None ELSE cfg[m]
      /\ phase' \in [Node -> {"down", "fetching"} \cup Built]
      /\ DOMAIN cfg' = Node
      /\ withdrawn' = withdrawn \ {n}
  BY DEF Ends, IInv, TypeOK
<1>2. TypeOK'
  BY <1>1 DEF IInv, TypeOK, Built
<1> QED
  BY <1>1, <1>2 DEF IInv, Built

LEMMA BuildsKeeps ==
  ASSUME IInv, NEW n \in Node, NEW get, Written(get), Builds(n, get), phase[n] \in {"down", "fetching"},
         UNCHANGED <<env, kv, edits, catalog>>
  PROVE  IInv'
<1>1. /\ \A m \in Node : /\ phase'[m] = IF m = n THEN "built" ELSE phase[m]
                         /\ cfg'[m] = IF m = n THEN FromEnv(get) ELSE cfg[m]
      /\ phase' \in [Node -> {"down", "fetching"} \cup Built]
      /\ DOMAIN cfg' = Node
      /\ withdrawn' = withdrawn
  BY DEF Builds, IInv, TypeOK, Built
<1>2. SettingsAreWritten(FromEnv(get)) /\ ConfigOK(FromEnv(get))
  BY ValidSettings, ValidConfig DEF Builds
<1>3. TypeOK'
  BY <1>1, <1>2 DEF IInv, TypeOK, Built
<1> QED
  BY <1>1, <1>2, <1>3 DEF IInv, Built

\* The other steps of a process move its phase between phases that have a configuration,
\* or between those that have none.
LEMMA MovesKeep ==
  ASSUME IInv, NEW n \in Node, NEW to \in {"fetching", "serving", "leaving"},
         phase' = [phase EXCEPT ![n] = to],
         phase[n] \in Built <=> to \in Built, phase[n] # "leaving",
         \E w \in SUBSET {n} : withdrawn' = withdrawn \cup w /\ (w # {} => to = "leaving"),
         UNCHANGED <<env, cfg, kv, edits>>,
         \A e \in catalog' : e.owner \in Node
  PROVE  IInv'
<1>1. /\ \A m \in Node : phase'[m] = IF m = n THEN to ELSE phase[m]
      /\ phase' \in [Node -> {"down", "fetching"} \cup Built]
  BY DEF IInv, TypeOK, Built
<1>2. TypeOK'
  BY <1>1 DEF IInv, TypeOK, Built
<1> QED
  BY <1>1, <1>2 DEF IInv, Built, TypeOK

LEMMA NextIInv ==
  ASSUME IInv, Next
  PROVE  IInv'
<1>1. ASSUME NEW n \in Node, Process(n)
      PROVE  IInv'
  <2>1. /\ phase[n] \in {"down", "fetching", "built", "serving", "leaving"}
        /\ Written(env[n]) /\ Written(Overlay(kv.values, env[n]))
        /\ \A e \in catalog : e.owner \in Node
    BY OverlayIsWritten DEF IInv, TypeOK, Built
  <2>2. Lists(n) \/ Unlists(n) \/ UNCHANGED catalog => \A e \in catalog' : e.owner \in Node
    BY <2>1 DEF Lists, Unlists, Own
  <2>3. CASE Start(n)
    <3>1. CASE ConsulSettings(env[n]).enabled
      BY <2>1, <2>3, <3>1, MovesKeep DEF Start, Built
    <3>2. CASE ~ConsulSettings(env[n]).enabled
      BY <2>1, <2>3, <3>2, BuildsKeeps DEF Start
    <3> QED
      BY <3>1, <3>2
  <2>4. CASE Fetch(n)
    BY <2>1, <2>4, BuildsKeeps DEF Fetch
  <2>5. CASE FetchRefused(n) \/ FetchFails(n) \/ Crash(n)
    BY <2>2, <2>5, EndsKeeps DEF FetchRefused, FetchFails, Crash
  <2>6. CASE RegisterFails(n) \/ Exit(n)
    BY <2>2, <2>6, EndsKeeps DEF RegisterFails, Exit
  <2>7. CASE Register(n)
    BY <2>2, <2>7, MovesKeep DEF Register, Built
  <2>8. CASE Stop(n) \/ ListenFails(n)
    <3>1. withdrawn' = withdrawn \cup {n} \/ withdrawn' = withdrawn \cup {}
      BY <2>8 DEF Stop, ListenFails
    <3>2. \E w \in SUBSET {n} : withdrawn' = withdrawn \cup w
      BY <3>1
    <3>3. /\ phase[n] = "serving" /\ phase' = [phase EXCEPT ![n] = "leaving"]
          /\ UNCHANGED <<env, cfg, kv, edits>>
          /\ Unlists(n) \/ UNCHANGED catalog
      BY <2>8 DEF Stop, ListenFails
    <3> QED
      BY <2>2, <3>2, <3>3, MovesKeep DEF Built
  <2> QED
    BY <1>1, <2>3, <2>4, <2>5, <2>6, <2>7, <2>8 DEF Process
<1>2. CASE Edit
  <2>1. UNCHANGED <<env, phase, cfg, withdrawn, catalog>> /\ edits' \in 0..MaxEdits
    BY <1>2, MaxEditsAssumption DEF Edit, IInv, TypeOK
  <2>2. PICK e \in Edits :
          \/ e.do = "put" /\ Put(e.key, e.value)
          \/ e.do = "delete" /\ Delete(e.key)
          \/ e.do = "folder" /\ kv' = [kv EXCEPT !.folder = ~@]
          \/ e.do = "sibling" /\ kv' = [kv EXCEPT !.sibling = ~@]
    BY <1>2 DEF Edit
  <2>3. /\ DOMAIN kv' = {"values", "folder", "sibling"}
        /\ DOMAIN kv'.values \subseteq Key
        /\ \A k \in DOMAIN kv'.values : kv'.values[k] \in WrittenAt(k)
    <3>1. CASE e.do = "put" /\ Put(e.key, e.value)
      BY <3>1, EditsAssumption DEF Put, IInv, TypeOK, WrittenAt
    <3>2. CASE e.do = "delete" /\ Delete(e.key)
      BY <3>2 DEF Delete, IInv, TypeOK
    <3>3. CASE kv' = [kv EXCEPT !.folder = ~@] \/ kv' = [kv EXCEPT !.sibling = ~@]
      BY <3>3 DEF IInv, TypeOK
    <3> QED
      BY <2>2, <3>1, <3>2, <3>3
  <2>4. kv'.folder \in BOOLEAN /\ kv'.sibling \in BOOLEAN
    <3>1. /\ kv'.folder = kv.folder \/ kv'.folder = ~kv.folder
          /\ kv'.sibling = kv.sibling \/ kv'.sibling = ~kv.sibling
      BY <2>2 DEF Put, Delete, IInv
    <3>2. kv.folder \in BOOLEAN /\ kv.sibling \in BOOLEAN
      BY Zenon DEF IInv, TypeOK
    <3> QED
      BY <3>1, <3>2, Zenon
  <2>5. TypeOK'
    BY <2>1, <2>3, <2>4 DEF IInv, TypeOK
  <2> QED
    BY <2>1, <2>3, <2>5 DEF IInv
<1>3. ASSUME NEW e \in catalog, Reap(e)
      PROVE  IInv'
  BY <1>3 DEF Reap, IInv, TypeOK
<1> QED
  BY <1>1, <1>2, <1>3 DEF Next

\* The strengthened invariant holds in every reachable state.
THEOREM Inductive == Spec => []IInv
<1>1. IInv /\ [Next]_vars => IInv'
  <2>1. CASE UNCHANGED vars
    BY <2>1 DEF vars, IInv, TypeOK
  <2> QED
    BY <2>1, NextIInv
<1> QED
  BY <1>1, InitIInv, PTL DEF Spec

\* The state has its types: a process has a configuration exactly from its loading to its
\* end, one whose port, sizes and durations are in their ranges.
THEOREM TypeCorrect == Spec => []TypeOK
BY Inductive, PTL DEF IInv

\* No limit in force is what an overflow has left of a size.
THEOREM LimitsWritten == Spec => []LimitsAreAsWritten
<1>1. IInv => LimitsAreAsWritten
  BY DEF IInv, TypeOK, LimitsAreAsWritten, SettingsAreWritten, Built
<1> QED
  BY <1>1, Inductive, PTL
-----------------------------------------------------------------------------
(* Whose registration is whose.                                            *)

\* What the steps of a process leave of the others: their phase and their configuration.
Elsewhere(n) == \A m \in Node \ {n} :
  /\ phase'[m] = phase[m] /\ cfg'[m] = cfg[m]
  /\ Registration(m)' = Registration(m) /\ Agent(m)' = Agent(m)

LEMMA StepElsewhere ==
  ASSUME IInv, NEW n \in Node, Process(n)
  PROVE  Elsewhere(n)
<1>1. /\ phase' = phase \/ \E p : phase' = [phase EXCEPT ![n] = p]
      /\ cfg' = cfg \/ \E c : cfg' = [cfg EXCEPT ![n] = c]
  BY DEF Process, Start, Fetch, FetchRefused, FetchFails, Register, RegisterFails, Stop, ListenFails,
     Exit, Crash, Ends, Builds
<1>2. \A m \in Node \ {n} : phase'[m] = phase[m] /\ cfg'[m] = cfg[m]
  BY <1>1 DEF IInv, TypeOK
<1> QED
  BY <1>2 DEF Elsewhere, Registration, Agent

\* A step of a process moves it, and one of a process that serves ends its serving.
LEMMA StepMoves ==
  ASSUME IInv, NEW n \in Node, Process(n)
  PROVE  phase'[n] # phase[n] /\ ~(phase[n] = "serving" /\ phase'[n] = "serving")
BY DEF Process, Start, Fetch, FetchRefused, FetchFails, Register, RegisterFails, Stop, ListenFails,
   Exit, Crash, Ends, Builds, IInv, TypeOK, Built

\* A process only ever touches what is listed under its own id.
LEMMA StepCatalog ==
  ASSUME NEW n \in Node, Process(n)
  PROVE  UNCHANGED catalog \/ (phase[n] \in Built /\ Announced(n) /\ (Lists(n) \/ Unlists(n)))
BY DEF Process, Start, Fetch, FetchRefused, FetchFails, Register, RegisterFails, Stop, ListenFails,
   Exit, Crash, Built, ToWithdraw

\* Who takes a replica's entry away: Consul, or a namesake that moves.
LEMMA OnlyNamesakes ==
  ASSUME IInv, [Next]_vars, NEW n \in Node, phase[n] = "serving", phase'[n] = "serving",
         Own(n) \in catalog, Own(n) \notin catalog', phase' # phase
  PROVE  \E m \in Namesakes(n) : phase'[m] # phase[m]
<1>1. PICK m \in Node : Process(m)
  BY DEF Next, Edit, Reap, vars
<1>2. m # n /\ phase'[m] # phase[m]
  BY <1>1, StepMoves
<1>3. phase[m] \in Built /\ Announced(m) /\ Own(n) \in SameID(m)
  BY <1>1, StepCatalog DEF Lists, Unlists
<1>4. Agent(m) = Agent(n) /\ Registration(m).id = Registration(n).id
  BY <1>3 DEF SameID, Own
<1> QED
  BY <1>2, <1>3, <1>4 DEF Namesakes

\* Whatever ids and addresses the configurations set: a replica that serves loses its entry
\* to Consul, or to a step of another that registers under the same id at the same agent.
THEOREM OthersKeepEntries == Spec => OnlyNamesakesUnlist
<1>1. IInv /\ [Next]_vars =>
        [\A n \in Node :
           /\ phase[n] = "serving" /\ phase'[n] = "serving"
           /\ Own(n) \in catalog /\ Own(n) \notin catalog'
           => phase' = phase \/ \E m \in Namesakes(n) : phase'[m] # phase[m]]_vars
  BY OnlyNamesakes
<1> QED
  BY <1>1, Inductive, PTL DEF Spec, OnlyNamesakesUnlist

LEMMA StepWithdrawn ==
  ASSUME IInv, WithdrawnIsUnlisted, Next
  PROVE  WithdrawnIsUnlisted'
<1>1. ASSUME NEW n \in Node, Process(n), NEW m \in withdrawn', NEW e \in SameID(m)'
      PROVE  e.owner # m
  <2>1. \/ withdrawn' = withdrawn
        \/ withdrawn' = withdrawn \ {n}
        \/ withdrawn' = withdrawn \cup {n} /\ Stop(n) /\ Unlists(n)
    BY <1>1 DEF Process, Start, Fetch, FetchRefused, FetchFails, Register, RegisterFails, Stop,
       ListenFails, Exit, Crash, Ends, Builds
  <2>2. m \in Node /\ (m \in withdrawn => phase[m] = "leaving")
    BY <1>1, <2>1 DEF IInv, TypeOK
  <2>3. CASE m # n
    <3>1. m \in withdrawn
      BY <1>1, <2>1, <2>3
    <3>2. Agent(m)' = Agent(m) /\ Registration(m)' = Registration(m)
      BY <1>1, <2>2, <2>3, StepElsewhere DEF Elsewhere
    <3>3. e \in SameID(m) \/ e = Own(n)
      BY <1>1, <3>2, StepCatalog DEF SameID, Lists, Unlists
    <3> QED
      BY <2>3, <3>1, <3>3 DEF WithdrawnIsUnlisted, Own
  <2>4. CASE m = n
    <3>1. Stop(n) /\ Unlists(n)
      BY <1>1, <2>1, <2>2, <2>4 DEF Process, Start, Fetch, FetchRefused, FetchFails, Register,
         RegisterFails, Stop, ListenFails, Exit, Crash, Ends, IInv, TypeOK
    <3>2. SameID(n)' = {}
      BY <3>1 DEF Stop, Unlists, SameID, Agent, Registration
    <3> QED
      BY <1>1, <2>4, <3>2
  <2> QED
    BY <2>3, <2>4
<1>2. CASE Edit
  BY <1>2 DEF Edit, WithdrawnIsUnlisted, SameID, Agent, Registration
<1>3. ASSUME NEW e \in catalog, Reap(e)
      PROVE  WithdrawnIsUnlisted'
  BY <1>3 DEF Reap, WithdrawnIsUnlisted, SameID, Agent, Registration
<1> QED
  BY <1>1, <1>2, <1>3 DEF Next, WithdrawnIsUnlisted

\* An acknowledged withdrawal leaves nothing of the replica's own behind, wherever it was made
\* and whatever ids the configurations set.
THEOREM WithdrawnUnlisted == Spec => []WithdrawnIsUnlisted
<1>1. Init => WithdrawnIsUnlisted
  BY DEF Init, WithdrawnIsUnlisted
<1>2. IInv /\ WithdrawnIsUnlisted /\ [Next]_vars => WithdrawnIsUnlisted'
  <2>1. CASE UNCHANGED vars
    BY <2>1 DEF vars, WithdrawnIsUnlisted, SameID, Agent, Registration
  <2> QED
    BY <2>1, StepWithdrawn
<1> QED
  BY <1>1, <1>2, Inductive, PTL DEF Spec

\* Nobody sets a service id by hand.
OwnIds == WrittenAt("CONSUL_SERVICE_ID") \subseteq {Blank}

\* The strengthening: an agent lists an id once, and every id is the default of the
\* name and address beside it.
ListedInv ==
  /\ \A e \in catalog : e.service.id = <<e.service.name, e.service.address>>
  /\ \A e, f \in catalog : e.agent = f.agent /\ e.service.id = f.service.id => e = f

LEMMA DefaultIdOf ==
  ASSUME NEW c, c.consul.id = Blank, NEW h
  PROVE  ServiceRegistration(c, h).id =
           <<ServiceRegistration(c, h).name, ServiceRegistration(c, h).address>>
BY DEF ServiceRegistration, DefaultID

LEMMA BuiltId ==
  ASSUME OwnIds, IInv, NEW n \in Node, phase[n] \in Built
  PROVE  cfg[n].consul.id = Blank
BY DEF OwnIds, IInv, SettingsAreWritten

LEMMA StepListed ==
  ASSUME OwnIds, IInv, ListedInv, [Next]_vars
  PROVE  ListedInv'
<1>1. CASE UNCHANGED vars
  BY <1>1 DEF vars, ListedInv
<1>2. ASSUME NEW n \in Node, Process(n)
      PROVE  ListedInv'
  <2>2. phase[n] \in Built =>
          Registration(n).id = <<Registration(n).name, Registration(n).address>>
    BY BuiltId, DefaultIdOf DEF Registration
  <2>3. UNCHANGED catalog \/ (phase[n] \in Built /\ (Lists(n) \/ Unlists(n)))
    BY <1>2, StepCatalog
  <2>4. \A e \in catalog' : e.service.id = <<e.service.name, e.service.address>>
    BY <2>2, <2>3 DEF ListedInv, Lists, Unlists, Own
  <2>5. \A e, f \in catalog' : e.agent = f.agent /\ e.service.id = f.service.id => e = f
    <3>1. CASE UNCHANGED catalog \/ Unlists(n)
      BY <3>1 DEF ListedInv, Unlists
    <3>2. CASE Lists(n)
      BY <3>2 DEF ListedInv, Lists, Own, SameID
    <3> QED
      BY <2>3, <3>1, <3>2
  <2> QED
    BY <2>4, <2>5 DEF ListedInv
<1>3. CASE Edit
  BY <1>3 DEF Edit, ListedInv
<1>4. ASSUME NEW e \in catalog, Reap(e)
      PROVE  ListedInv'
  BY <1>4 DEF Reap, ListedInv
<1> QED
  BY <1>1, <1>2, <1>3, <1>4 DEF Next

\* A replica that is started again replaces the entry it left behind, whatever changed in
\* its configuration beside its name, its address and its agent.
THEOREM RestartsReplace == Spec => []RestartReplaces
<1>1. CASE OwnIds
  <2>1. Init => ListedInv
    BY DEF Init, ListedInv
  <2>2. IInv /\ ListedInv /\ [Next]_vars => ListedInv'
    BY <1>1, StepListed
  <2>3. ListedInv => RestartReplaces
    BY DEF ListedInv, RestartReplaces
  <2> QED
    BY <2>1, <2>2, <2>3, Inductive, PTL DEF Spec
<1>2. CASE ~OwnIds
  <2>1. RestartReplaces
    BY <1>2 DEF OwnIds, RestartReplaces
  <2> QED
    BY <2>1, PTL
<1> QED
  BY <1>1, <1>2

\* Nobody sets a service address or a service id by hand.
OwnAddresses == \A k \in {"CONSUL_SERVICE_ADDRESS", "CONSUL_SERVICE_ID"} : WrittenAt(k) \subseteq {Blank}

LEMMA IdsDiffer ==
  ASSUME OwnAddresses, IInv, NEW n \in Node, NEW m \in Node, n # m, phase[n] \in Built, phase[m] \in Built
  PROVE  Registration(n).id # Registration(m).id
<1>1. /\ cfg[n].consul.address = Blank /\ cfg[n].consul.id = Blank
      /\ cfg[m].consul.address = Blank /\ cfg[m].consul.id = Blank
  BY DEF OwnAddresses, IInv, SettingsAreWritten
<1>2. Registration(n).id[2] = Text(Hostname[n]) /\ Registration(m).id[2] = Text(Hostname[m])
  BY <1>1 DEF Registration, ServiceRegistration, DefaultID
<1>3. Text(Hostname[n]) # Text(Hostname[m])
  <2>1. Text(Hostname[n]).text = Hostname[n] /\ Text(Hostname[m]).text = Hostname[m]
    BY DEF Text
  <2> QED
    BY <2>1, HostnameAssumption
<1> QED
  BY <1>2, <1>3

\* A replica that serves loses its entry to nobody but Consul.
OnlyConsulUnlists == [][\A n \in Node :
  /\ phase[n] = "serving" /\ phase'[n] = "serving"
  /\ Own(n) \in catalog /\ Own(n) \notin catalog'
  => phase' = phase]_vars

\* Without service addresses and ids of their own making, replicas do not touch each other's
\* entries at all: no start, stop, retry or crash of one unlists another that serves.
THEOREM OwnEntriesKept == OwnAddresses => (Spec => OnlyConsulUnlists)
<1> SUFFICES ASSUME OwnAddresses PROVE Spec => OnlyConsulUnlists
  OBVIOUS
<1>1. ASSUME IInv, NEW n \in Node, phase[n] = "serving"
      PROVE  Namesakes(n) = {}
  BY <1>1, IdsDiffer DEF Namesakes, Built
<1>2. IInv /\ [Next]_vars =>
        [\A n \in Node :
           /\ phase[n] = "serving" /\ phase'[n] = "serving"
           /\ Own(n) \in catalog /\ Own(n) \notin catalog'
           => phase' = phase]_vars
  BY <1>1, OnlyNamesakes
<1> QED
  BY <1>2, Inductive, PTL DEF Spec, OnlyConsulUnlists

\* What tasks/plan.md promises of the default ids holds exactly there: with a service address
\* or id of their own making, as the KV store may give to all replicas, it does not.
THEOREM DefaultIdsDiffer == OwnAddresses => (Spec => []ReplicaIdsDiffer)
<1> SUFFICES ASSUME OwnAddresses PROVE Spec => []ReplicaIdsDiffer
  OBVIOUS
<1>1. IInv => ReplicaIdsDiffer
  BY IdsDiffer DEF ReplicaIdsDiffer, Built
<1> QED
  BY <1>1, Inductive, PTL
-----------------------------------------------------------------------------
(* What the KV store may decide.                                           *)

\* A required entry that is blank in the store ends the start.
THEOREM BlankPrevails == Spec => BlankEntryPrevails
<1>1. ASSUME IInv, [Next]_vars, NEW n \in Node, phase[n] = "fetching", phase'[n] = "built",
             NEW k \in RequiredKeys \cap DOMAIN kv.values
      PROVE  kv.values[k] # Blank
  <2>1. PICK m \in Node : Process(m)
    BY <1>1 DEF Next, Edit, Reap, vars
  <2>2. m = n
    <3>1. \E to : phase' = [phase EXCEPT ![m] = to]
      BY <2>1, Zenon DEF Process, Start, Fetch, FetchRefused, FetchFails, Register, RegisterFails, Stop,
         ListenFails, Exit, Crash, Ends, Builds
    <3> QED
      BY <1>1, <3>1 DEF IInv, TypeOK
  <2>3. Fetch(n)
    BY <1>1, <2>1, <2>2 DEF Process, Start, FetchRefused, FetchFails, Register, RegisterFails, Stop,
       ListenFails, Exit, Crash, Ends, IInv, TypeOK
  <2>4. Overlay(kv.values, env[n])[k] # Blank
    BY <2>3 DEF Fetch, Builds, Valid
  <2> QED
    BY <2>4 DEF Overlay, Key
<1>2. IInv /\ [Next]_vars =>
        [\A n \in Node : phase[n] = "fetching" /\ phase'[n] = "built" =>
           \A k \in RequiredKeys \cap DOMAIN kv.values : kv.values[k] # Blank]_vars
  BY <1>1
<1> QED
  BY <1>2, Inductive, PTL DEF Spec, BlankEntryPrevails

\* Nobody puts a Consul setting into the KV store.
NoConsulEntries ==
  /\ ConsulKeys \cap DOMAIN Store.values = {}
  /\ \A e \in Edits : e.do = "put" => e.key \notin ConsulKeys

ParsedInv ==
  /\ ConsulKeys \cap DOMAIN kv.values = {}
  /\ \A n \in Node : phase[n] \in Built => cfg[n].consul = ConsulSettings(env[n])

LEMMA StepParsed ==
  ASSUME NoConsulEntries, IInv, ParsedInv, [Next]_vars
  PROVE  ParsedInv'
<1>1. CASE UNCHANGED vars
  BY <1>1 DEF vars, ParsedInv
<1>2. ASSUME NEW n \in Node, Process(n)
      PROVE  ParsedInv'
  <2>1. UNCHANGED <<env, kv>>
    BY <1>2 DEF Process, Start, Fetch, FetchRefused, FetchFails, Register, RegisterFails, Stop, ListenFails, Exit, Crash
  <2>2. \A m \in Node \ {n} : phase'[m] = phase[m] /\ cfg'[m] = cfg[m]
    BY <1>2, StepElsewhere DEF Elsewhere
  <2>3. phase'[n] \in Built => cfg'[n].consul = ConsulSettings(env[n])
    <3>1. CASE Start(n) \/ Fetch(n)
      <4>1. \A get : FromEnv(get).consul = ConsulSettings(get)
        BY DEF FromEnv
      <4>2. ConsulSettings(Overlay(kv.values, env[n])) = ConsulSettings(env[n])
        BY DEF ParsedInv, ConsulSettings, Overlay, Key, ConsulKeys
      <4>3. phase'[n] = "fetching" \/ Builds(n, env[n]) \/ Builds(n, Overlay(kv.values, env[n]))
        BY <3>1 DEF Start, Fetch, IInv, TypeOK
      <4> QED
        BY <4>1, <4>2, <4>3 DEF Builds, Built, IInv
    <3>2. CASE Ends(n)
      BY <3>2 DEF Ends, Built, IInv, TypeOK
    <3>3. CASE Register(n) \/ Stop(n) \/ ListenFails(n)
      BY <3>3 DEF Register, Stop, ListenFails, ParsedInv, Built
    <3> QED
      BY <1>2, <3>1, <3>2, <3>3 DEF Process, FetchRefused, FetchFails, RegisterFails, Exit, Crash
  <2> QED
    BY <2>1, <2>2, <2>3 DEF ParsedInv
<1>3. CASE Edit
  <2>1. UNCHANGED <<env, phase, cfg>>
    BY <1>3 DEF Edit
  <2>2. ConsulKeys \cap DOMAIN kv'.values = {}
    BY <1>3 DEF Edit, Put, Delete, NoConsulEntries, ParsedInv, IInv
  <2> QED
    BY <2>1, <2>2 DEF ParsedInv
<1>4. ASSUME NEW e \in catalog, Reap(e)
      PROVE  ParsedInv'
  BY <1>4 DEF Reap, ParsedInv
<1> QED
  BY <1>1, <1>2, <1>3, <1>4 DEF Next

\* Then the Consul settings in force are those of the environment, as consul.go says: the
\* second reading changes nothing.
THEOREM ParsedOnce == NoConsulEntries => (Spec => []SettingsParsedOnce)
<1> SUFFICES ASSUME NoConsulEntries PROVE Spec => []SettingsParsedOnce
  OBVIOUS
<1>1. Init => ParsedInv
  BY DEF Init, NoConsulEntries, ParsedInv, Built
<1>2. IInv /\ ParsedInv /\ [Next]_vars => ParsedInv'
  BY StepParsed
<1>3. ParsedInv => SettingsParsedOnce
  BY DEF ParsedInv, SettingsParsedOnce, Built
<1> QED
  BY <1>1, <1>2, <1>3, Inductive, PTL DEF Spec
=============================================================================
