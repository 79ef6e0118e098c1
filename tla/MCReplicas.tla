----------------------------- MODULE MCReplicas -----------------------------
(* Two replicas, integers of 7 bits, and the edits an operator makes. *)
EXTENDS Replicas, TLC

CONSTANTS n1, n2

MCNodes    == {n1, n2}
MCHostname == n1 :> "host1" @@ n2 :> "host2"

MCByteFactor     == "" :> 1 @@ "KB" :> 2 @@ "MB" :> 8 @@ "GB" :> 32
MCDurationFactor == "s" :> 1 @@ "h" :> 10

Agent1 == Text("agent1")
Agent2 == Text("agent2")

\* A complete environment that asks Consul, by prefix; the same without Consul.
Deployed(prefix) == [k \in Key |->
  CASE k \in URLKeys              -> URL("http://upstream")
    [] k \in TokenKeys            -> Text("token")
    [] k \in DurationKeys         -> Number(5, "s")
    [] k \in SizeKeys             -> Number(3, "MB")
    [] k = "PORT"                 -> Number(8, "")
    [] k = "MAX_PDF_PAGES"        -> Number(0, "")
    [] k = "LOG_MAX_VALUE_LENGTH" -> Number(4, "")
    [] k = "CONSUL_ENABLED"       -> Text("true")
    [] k = "CONSUL_HTTP_ADDR"     -> Agent1
    [] k = "CONSUL_HTTP_TOKEN"    -> Text("token")
    [] k = "CONSUL_KV_PREFIX"     -> prefix
    [] OTHER                      -> Blank]
Local == [Deployed(Blank) EXCEPT !["CONSUL_ENABLED"] = Blank]

WithSlash == Deployed(Path("app", {"last"}))

MCDeployments == {n1 :> WithSlash @@ n2 :> other : other \in {Deployed(Path("app", {})), Local}}
AlikeConsul   == {[n \in MCNodes |-> WithSlash]}

MCStore == [values |-> "PORT" :> Number(9, ""), folder |-> FALSE, sibling |-> FALSE]

Puts(k, raw) == [do |-> "put", key |-> k, value |-> raw]

MCEdits ==
  {Puts("MAX_PDF_SIZE_BYTES", raw) : raw \in {Number(7, "MB"), Number(9, "MB"), Blank}}
    \cup {Puts("CONSUL_HTTP_ADDR", Agent2), Puts("CONSUL_SERVICE_NAME", Text("pdf")),
          Puts("CONSUL_SERVICE_ADDRESS", Text("pdf.example")),
          Puts("CONSUL_ENABLED", Text("false")), Puts("PORT", Number(0, ""))}
    \cup {[do |-> "delete", key |-> "PORT"], [do |-> "folder"], [do |-> "sibling"]}

AgentEdits   == {Puts("CONSUL_HTTP_ADDR", Agent2)}
AddressEdits == {Puts("CONSUL_SERVICE_ADDRESS", Text("pdf.example"))}
=============================================================================
