------------------------------ MODULE Replicas ------------------------------
(***************************************************************************)
(* Several orchestrators behind one Consul: each loads its configuration   *)
(* once, from its environment and a KV store that an operator edits        *)
(* meanwhile, registers with the agent that configuration names, serves and *)
(* leaves; it may crash at any point and be started again.  Composes        *)
(* Config; what a process does between a signal and its exit is Lifecycle.  *)
(***************************************************************************)
EXTENDS Config, FiniteSets

CONSTANTS
  Node,         \* the containers
  Hostname,     \* [Node -> host name]
  Deployments,  \* what the containers may be given: environments, [Node -> [Key -> setting]]
  Store,        \* the KV store at first
  Edits,        \* what an operator may do to it: put or delete entries
  MaxEdits      \* how often (a bound of the model)

ASSUME HostnameAssumption == \A n, m \in Node : Hostname[n] = Hostname[m] => n = m
ASSUME MaxEditsAssumption == MaxEdits \in Nat
ASSUME StoreAssumption ==
  /\ DOMAIN Store = {"values", "folder", "sibling"}
  /\ DOMAIN Store.values \subseteq Key /\ {Store.folder, Store.sibling} \subseteq BOOLEAN
ASSUME EditsAssumption == \A e \in Edits : e.do = "put" => e.key \in Key

\* What anybody ever writes for a setting: in an environment or in the KV store.
WrittenAt(k) ==
  {e[n][k] : e \in Deployments, n \in Node}
    \cup (IF k \in DOMAIN Store.values THEN {Store.values[k]} ELSE {})
    \cup {e.value : e \in {d \in Edits : d.do = "put" /\ d.key = k}}

ASSUME NumbersAssumption ==
  \A k \in SizeKeys \cup {"PORT"} : \A raw \in WrittenAt(k) : raw.is = "number" => raw.number \in Int

VARIABLES
  env,        \* [Node -> its environment]
  phase,      \* [Node -> "down", "fetching", "built", "serving", "leaving"]
  cfg,        \* [Node -> the Config of its process, or None]
  withdrawn,  \* the nodes whose deregistration was acknowledged
  kv,         \* the KV store
  edits,      \* edits so far
  catalog     \* what the agents list: registrations, with the agent and the node (owner)
              \* that made each; Consul does not know the owner

vars == <<env, phase, cfg, withdrawn, kv, edits, catalog>>

None  == [port |-> 0, consul |-> [enabled |-> FALSE]]
Built == {"built", "serving", "leaving"}     \* the phases that have a configuration

Init ==
  /\ env \in Deployments
  /\ phase = [n \in Node |-> "down"]
  /\ cfg = [n \in Node |-> None]
  /\ withdrawn = {}
  /\ kv = Store /\ edits = 0
  /\ catalog = {}

Announced(n)    == cfg[n].consul.enabled
Registration(n) == ServiceRegistration(cfg[n], Text(Hostname[n]))
Agent(n)        == cfg[n].consul.httpAddr

\* Mutant: instances are told apart by their service name.
SameName(n) == {e \in catalog : e.agent = Agent(n) /\ e.service.id[1] = Registration(n).id[1]}

\* What the agent of n lists under the id of n, whoever registered it.
SameID(n) == {e \in catalog : e.agent = Agent(n) /\ e.service.id = Registration(n).id}

Own(n) == [agent |-> Agent(n), owner |-> n, service |-> Registration(n)]
-----------------------------------------------------------------------------
(* A process *)

Ends(n) ==
  /\ phase' = [phase EXCEPT ![n] = "down"]
  /\ cfg' = [cfg EXCEPT ![n] = None]
  /\ withdrawn' = withdrawn \ {n}

Builds(n, get) ==
  /\ Valid(get)
  /\ phase' = [phase EXCEPT ![n] = "built"]
  /\ cfg' = [cfg EXCEPT ![n] = FromEnv(get)]
  /\ UNCHANGED withdrawn

\* LoadConsulSettings decides from the environment alone whether Consul is asked.
\* A start that fails here leaves the node as it was.
Start(n) ==
  /\ phase[n] = "down" /\ ConsulSettingsValid(env[n])
  /\ IF ConsulSettings(env[n]).enabled
     THEN phase' = [phase EXCEPT ![n] = "fetching"] /\ UNCHANGED <<cfg, withdrawn>>
     ELSE Builds(n, env[n])
  /\ UNCHANGED <<env, kv, edits, catalog>>

\* Consul answers the one request for the prefix.
Fetch(n) ==
  /\ phase[n] = "fetching"
  /\ Readable(kv, ConsulSettings(env[n]).prefix)
  /\ Builds(n, Overlay(kv.values, env[n]))
  /\ UNCHANGED <<env, kv, edits, catalog>>

FetchRefused(n) ==
  /\ phase[n] = "fetching"
  /\ ~(/\ Readable(kv, ConsulSettings(env[n]).prefix)
       /\ Valid(Overlay(kv.values, env[n])))
  /\ Ends(n)
  /\ UNCHANGED <<env, kv, edits, catalog>>

\* Mutant: the KV client has no timeout.
FetchHangs(n) == FALSE

\* No answer within requestTimeout, or one that is an error.
FetchFails(n) ==
  /\ phase[n] = "fetching"
  /\ Ends(n)
  /\ UNCHANGED <<env, kv, edits, catalog>>

\* Registering replaces what the agent lists under the same id.
Lists(n) == catalog' = (catalog \ SameID(n)) \cup {Own(n)}

\* The Consul settings of the loaded configuration count now, not those that led to it.
Register(n) ==
  /\ phase[n] = "built"
  /\ Announced(n) => Lists(n)
  /\ ~Announced(n) => UNCHANGED catalog
  /\ phase' = [phase EXCEPT ![n] = "serving"]
  /\ UNCHANGED <<env, cfg, withdrawn, kv, edits>>

\* The CA file cannot be read, or the agent's answer is an error or late: it may
\* have registered the service.
RegisterFails(n) ==
  /\ phase[n] = "built" /\ Announced(n)
  /\ Lists(n) \/ UNCHANGED catalog
  /\ Ends(n)
  /\ UNCHANGED <<env, kv, edits>>

\* One call of the closure deregister, for an instance that is still to be withdrawn.
ToWithdraw(n) == Announced(n) /\ n \notin withdrawn

\* Mutant: the deregistration goes to the agent the environment names.
UnlistsAtBootstrap(n) ==
  catalog' = {e \in catalog : \/ e.agent # env[n]["CONSUL_HTTP_ADDR"]
                              \/ e.service.id # Registration(n).id}

Unlists(n) == catalog' = catalog \ SameID(n)

\* A signal: the first deregistration, acknowledged, or applied or not.  The node is
\* leaving whatever came of it.
Stop(n) ==
  /\ phase[n] = "serving"
  /\ \/ ToWithdraw(n) /\ Unlists(n) /\ withdrawn' = withdrawn \cup {n}
     \/ ToWithdraw(n) /\ Unlists(n) /\ UNCHANGED withdrawn
     \/ UNCHANGED <<catalog, withdrawn>>
  /\ phase' = [phase EXCEPT ![n] = "leaving"]
  /\ UNCHANGED <<env, cfg, kv, edits>>

\* ListenAndServe returned an error: only the deferred call deregisters.
ListenFails(n) ==
  /\ phase[n] = "serving"
  /\ phase' = [phase EXCEPT ![n] = "leaving"]
  /\ UNCHANGED <<env, cfg, withdrawn, kv, edits, catalog>>

Exit(n) ==
  /\ phase[n] = "leaving"
  /\ (ToWithdraw(n) /\ Unlists(n)) \/ UNCHANGED catalog
  /\ Ends(n)
  /\ UNCHANGED <<env, kv, edits>>

\* Also a signal before signal.Notify, which ends the process as SIGKILL does.
Crash(n) ==
  /\ phase[n] # "down"
  /\ Ends(n)
  /\ UNCHANGED <<env, kv, edits, catalog>>
-----------------------------------------------------------------------------
(* The environment *)

Put(k, v) ==
  kv' = [kv EXCEPT !.values = [j \in DOMAIN kv.values \cup {k} |->
                                 IF j = k THEN v ELSE kv.values[j]]]

Delete(k) ==
  kv' = [kv EXCEPT !.values = [j \in DOMAIN kv.values \ {k} |-> kv.values[j]]]

Edit ==
  /\ edits < MaxEdits /\ edits' = edits + 1
  /\ \E e \in Edits :
       \/ e.do = "put" /\ Put(e.key, e.value)
       \/ e.do = "delete" /\ Delete(e.key)
       \/ e.do = "folder" /\ kv' = [kv EXCEPT !.folder = ~@]
       \/ e.do = "sibling" /\ kv' = [kv EXCEPT !.sibling = ~@]
  /\ UNCHANGED <<env, phase, cfg, withdrawn, catalog>>

\* DeregisterCriticalServiceAfter: the agent drops an entry whose check stays critical,
\* that of a replica which serves too if the agent cannot reach it.  Nothing registers
\* it again.
Reap(e) ==
  /\ e \in catalog
  /\ catalog' = catalog \ {e}
  /\ UNCHANGED <<env, phase, cfg, withdrawn, kv, edits>>

Process(n) ==
  \/ Start(n) \/ Fetch(n) \/ FetchRefused(n) \/ FetchFails(n) \/ Register(n)
  \/ RegisterFails(n) \/ Stop(n) \/ ListenFails(n) \/ Exit(n) \/ Crash(n)

Next == Edit \/ (\E n \in Node : Process(n)) \/ (\E e \in catalog : Reap(e))

\* The client's timeout fires and a process that may register does.  Nobody has to
\* start, edit, stop or reap, and Consul need not answer the KV request.
Fairness == \A n \in Node : WF_vars(FetchFails(n)) /\ WF_vars(Register(n))

Spec == Init /\ [][Next]_vars /\ Fairness
-----------------------------------------------------------------------------
ConfigOK(c) ==
  /\ c.port \in 1..MaxPort
  /\ \A k \in SizeKeys : c.size[k] \in 1..MaxInt
  /\ \A k \in DurationKeys : 0 < c.timeout[k] /\ c.timeout[k] <= MaxInt
  /\ c.consul.enabled \in BOOLEAN

TypeOK ==
  /\ env \in Deployments
  /\ phase \in [Node -> {"down", "fetching"} \cup Built]
  /\ \A n \in Node : IF phase[n] \in Built THEN ConfigOK(cfg[n]) ELSE cfg[n] = None
  /\ withdrawn \subseteq {n \in Node : phase[n] = "leaving"}
  /\ DOMAIN kv.values \subseteq Key /\ kv.folder \in BOOLEAN /\ kv.sibling \in BOOLEAN
  /\ edits \in 0..MaxEdits
  /\ \A e \in catalog : e.owner \in Node

\* The other replicas that register under the id of n, at its agent: those that were given
\* its service id, or its service address with the default id (main.go:212-226).
Namesakes(n) == {m \in Node \ {n} :
  /\ phase[m] \in Built /\ Announced(m)
  /\ Agent(m) = Agent(n) /\ Registration(m).id = Registration(n).id}

\* Apart from Consul's reaping, in which no process moves, only a step of a namesake costs
\* a replica that serves its entry: whatever the others register, withdraw or retry on
\* their way out, with whatever configuration the KV store gave them, concerns other entries.
OnlyNamesakesUnlist == [][\A n \in Node :
  /\ phase[n] = "serving" /\ phase'[n] = "serving"
  /\ Own(n) \in catalog /\ Own(n) \notin catalog'
  => phase' = phase \/ \E m \in Namesakes(n) : phase'[m] # phase[m]]_vars

\* A replica whose withdrawal was acknowledged has left nothing of its own under its id,
\* also when the KV store has moved the service to another agent than the one it was
\* configured from, and when an earlier life of it was killed (main.go:145-152).  A
\* namesake may have registered again.
WithdrawnIsUnlisted == \A n \in withdrawn : \A e \in SameID(n) : e.owner # n

\* While nobody sets service ids by hand, an agent lists a replica once: one that was
\* killed, or whose registration or withdrawal was left in doubt, takes its old entry over
\* when it is started again with another port or other limits, and leaves no second one
\* behind that sends callers to where nobody listens (main.go:224-226).
RestartReplaces == WrittenAt("CONSUL_SERVICE_ID") \subseteq {Blank} =>
  \A e, f \in catalog :
    /\ e.owner = f.owner /\ e.agent = f.agent
    /\ e.service.name = f.service.name /\ e.service.address = f.service.address
    => e = f

\* The limits in force are positive and are sizes that somebody wrote, not what is
\* left of one after an overflow (config.go:249-251).
LimitsAreAsWritten == \A n \in Node, k \in SizeKeys : cfg[n] # None =>
  /\ cfg[n].size[k] > 0
  /\ \E raw \in WrittenAt(k) :
       raw.is = "number" /\ cfg[n].size[k] = raw.number * ByteFactor[raw.unit]

\* A required setting that the KV store holds blank is not taken from the environment:
\* no process is built from such a store (README.md:64).
BlankEntryPrevails == [][\A n \in Node : phase[n] = "fetching" /\ phase'[n] = "built" =>
  \A k \in RequiredKeys \cap DOMAIN kv.values : kv.values[k] # Blank]_vars

\* A start is decided even if Consul never answers (kv.go:34-36).
StartIsDecided == \A n \in Node : (phase[n] = "fetching") ~> (phase[n] \in {"serving", "down"})
-----------------------------------------------------------------------------
(* What the docs say and the code does not do.                             *)

\* consul.go:8-10: the Consul settings are parsed only once.  They are parsed again
\* from the KV store, and it is the second reading that registers the service.
SettingsParsedOnce == \A n \in Node : phase[n] = "built" => cfg[n].consul = ConsulSettings(env[n])

\* tasks/plan.md:1292-1293: default ids hold the host name, so that replicas do not collide.
ReplicaIdsDiffer == \A n, m \in Node :
  /\ n # m /\ phase[n] = "serving" /\ phase[m] = "serving" /\ Announced(n) /\ Announced(m)
  /\ cfg[n].consul.id = Blank /\ cfg[m].consul.id = Blank
  => Registration(n).id # Registration(m).id
=============================================================================
