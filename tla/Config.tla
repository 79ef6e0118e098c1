------------------------------- MODULE Config -------------------------------
(***************************************************************************)
(* The configuration a process starts with: the settings of internal/config *)
(* read from the environment under the values of Consul's KV store         *)
(* (internal/consul/kv.go), and the registration main.go derives from it.   *)
(*                                                                         *)
(* A setting is a record that says what its text is, white space trimmed.  *)
(* The parsers return at the first setting they reject; which one it was is *)
(* only logged, so that what remains is whether all are accepted.           *)
(***************************************************************************)
EXTENDS Int64

CONSTANTS
  ByteFactor,       \* byteSizeUnits: [unit -> bytes], with "" for a plain number
  DurationFactor,   \* time.ParseDuration: [unit -> its length]
  DefaultMaxStackLength

ASSUME ByteFactorAssumption ==
  \A unit \in DOMAIN ByteFactor : ByteFactor[unit] \in Nat \ {0} /\ Fits(ByteFactor[unit])

Blank           == [is |-> "blank"]                  \* unset, empty or white space
Text(s)         == [is |-> "text", text |-> s]
URL(s)          == [is |-> "url", text |-> s]        \* absolute, http or https, with a host
Number(n, unit) == [is |-> "number", number |-> n, unit |-> unit]
Path(s, slash)  == [is |-> "path", text |-> s, slash |-> slash]   \* where it has a slash:
                                                     \* a subset of {"first", "last"}
URLKeys == {"EXTRACT_BASE_URL", "PERSISTENCE_BASE_URL", "AUDIT_LOG_BASE_URL",
            "EXTRACT_HEALTH_URL", "PERSISTENCE_HEALTH_URL", "AUDIT_LOG_HEALTH_URL"}
TokenKeys    == {"AUDIT_LOG_API_TOKEN", "PERSISTENCE_API_TOKEN"}
DurationKeys == {"HTTP_TIMEOUT", "SHUTDOWN_TIMEOUT", "HEALTH_CHECK_TIMEOUT"}
SizeKeys     == {"MAX_PDF_SIZE_BYTES", "MAX_TEXT_BODY_BYTES"}
RequiredKeys == URLKeys \cup TokenKeys \cup DurationKeys \cup SizeKeys
                  \cup {"PORT", "MAX_PDF_PAGES", "LOG_MAX_VALUE_LENGTH"}
ConsulKeys   == {"CONSUL_ENABLED", "CONSUL_HTTP_ADDR", "CONSUL_HTTP_TOKEN", "CONSUL_HTTP_CA_FILE",
                 "CONSUL_KV_PREFIX", "CONSUL_SERVICE_ADDRESS", "CONSUL_SERVICE_NAME",
                 "CONSUL_SERVICE_ID", "CONSUL_SERVICE_CHECK_URL"}
Key == RequiredKeys \cup ConsulKeys \cup {"LOG_MAX_STACK_LENGTH"}
-----------------------------------------------------------------------------
(* The parsers.  A setting is a function get from Key, as getenv is.        *)

MaxPort == 65535

IsInt(raw)         == raw.is = "number" /\ raw.unit = "" /\ Fits(raw.number)
IsPositiveInt(raw) == IsInt(raw) /\ raw.number >= 1
IsPageLimit(raw)   == IsInt(raw) /\ raw.number >= 0
IsPortAny(raw)     == IsInt(raw)                  \* Mutant: any number is a port.
IsPort(raw)        == IsInt(raw) /\ 1 <= raw.number /\ raw.number <= MaxPort
IsBaseURL(raw)     == raw.is = "url"

DurationOf(raw) == raw.number * DurationFactor[raw.unit]
IsDuration(raw) ==
  /\ raw.is = "number" /\ raw.unit \in DOMAIN DurationFactor
  /\ 0 < DurationOf(raw) /\ DurationOf(raw) <= MaxInt

\* A number alone, or a number and a unit.
SplitByteSize(raw) == raw.is = "number" /\ raw.unit \in DOMAIN ByteFactor /\ Fits(raw.number)

\* Mutant: the product is not guarded.
IsByteSizeUnguarded(raw) == SplitByteSize(raw) /\ raw.number > 0

IsByteSize(raw) ==
  /\ SplitByteSize(raw) /\ raw.number > 0
  /\ raw.number <= MaxInt \div ByteFactor[raw.unit]
ByteSizeOf(raw) == Wrap(raw.number * ByteFactor[raw.unit])

ConsulSettings(get) ==
  [enabled |-> get["CONSUL_ENABLED"] = Text("true"),
   httpAddr |-> get["CONSUL_HTTP_ADDR"], caFile |-> get["CONSUL_HTTP_CA_FILE"],
   prefix |-> get["CONSUL_KV_PREFIX"], address |-> get["CONSUL_SERVICE_ADDRESS"],
   name |-> get["CONSUL_SERVICE_NAME"], id |-> get["CONSUL_SERVICE_ID"],
   check |-> get["CONSUL_SERVICE_CHECK_URL"]]

ConsulSettingsValid(get) == ConsulSettings(get).enabled =>
  \A k \in {"CONSUL_HTTP_ADDR", "CONSUL_HTTP_TOKEN", "CONSUL_KV_PREFIX"} : get[k] # Blank

Valid(get) ==
  /\ \A k \in RequiredKeys : get[k] # Blank
  /\ IsPort(get["PORT"])
  /\ \A k \in URLKeys : IsBaseURL(get[k])
  /\ \A k \in DurationKeys : IsDuration(get[k])
  /\ \A k \in SizeKeys : IsByteSize(get[k])
  /\ IsPageLimit(get["MAX_PDF_PAGES"])
  /\ IsPositiveInt(get["LOG_MAX_VALUE_LENGTH"])
  /\ get["LOG_MAX_STACK_LENGTH"] # Blank => IsPositiveInt(get["LOG_MAX_STACK_LENGTH"])
  /\ ConsulSettingsValid(get)

\* The part of config.Config that a process shows to others or is bounded by.
FromEnv(get) ==
  [port |-> get["PORT"].number,
   size |-> [k \in SizeKeys |-> ByteSizeOf(get[k])],
   timeout |-> [k \in DurationKeys |-> DurationOf(get[k])],
   stack |-> IF get["LOG_MAX_STACK_LENGTH"] = Blank
             THEN DefaultMaxStackLength ELSE get["LOG_MAX_STACK_LENGTH"].number,
   consul |-> ConsulSettings(get)]
-----------------------------------------------------------------------------
(* The KV store: [values |-> the entries below the prefix, folder |-> the   *)
(* prefix itself is an entry, sibling |-> another key begins with its text] *)

\* Mutant: a blank entry leaves the environment in force.
OverlayNonBlank(values, env) ==
  [k \in Key |-> IF k \in DOMAIN values /\ values[k] # Blank THEN values[k] ELSE env[k]]

\* LoadFromValues: an entry of the KV store hides the environment, blank or not.
Overlay(values, env) ==
  [k \in Key |-> IF k \in DOMAIN values THEN values[k] ELSE env[k]]

\* Whether LoadPrefix accepts the answer of a Consul that does answer: 404 if there
\* is nothing; else every entry must lie strictly below the prefix as it is spelt.
\* The query drops a first slash that the comparison keeps; a query without the
\* last slash also lists the siblings.
Readable(kv, prefix) ==
  /\ DOMAIN kv.values # {}
  /\ "first" \notin prefix.slash
  /\ ~kv.folder
  /\ kv.sibling => "last" \in prefix.slash

\* Mutant: the default id names the port too.
DefaultIDByPort(name, endpoint) == <<name, endpoint>>

DefaultID(name, endpoint) == <<name, endpoint[1]>>

\* serviceRegistration.  The host name is the default of the address only, and
\* with it of the id and the check.
ServiceRegistration(cfg, hostname) ==
  LET settings == cfg.consul
      address  == IF settings.address = Blank THEN hostname ELSE settings.address
      endpoint == <<address, cfg.port>>
      name     == IF settings.name = Blank THEN Text("orchestrator") ELSE settings.name
  IN [id |-> IF settings.id = Blank THEN DefaultID(name, endpoint) ELSE <<settings.id>>,
      name |-> name, address |-> address, port |-> cfg.port,
      check |-> IF settings.check = Blank THEN endpoint ELSE <<settings.check>>]
=============================================================================
