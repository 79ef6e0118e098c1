----------------------------- MODULE MCRequests -----------------------------
(* Requests on one checksum, with the answers upstreams really give. *)
EXTENDS Requests

CONSTANTS r1, r2, r3, s1, t1, blank, absent

MCTwo   == {r1, r2}
MCThree == {r1, r2, r3}
MCSums  == {s1}
MCText  == {t1}

MCPDFTexts == {t1, blank}
TextPDFs   == {t1}

AllOperations  == {"extract", "create", "find", "update", "delete", "list"}
Extractions    == {"extract"}
Writes         == {"extract", "create", "delete"}

Breaker      == Reply(503, "opaque", absent)    \* a circuit breaker's plain text
BareJSON     == Reply(503, "json", absent)      \* {"detail": "..."} without "status"
Unauthorized == Reply(401, "problem", absent)
Mislabelled  == Problem(503, 404, absent)      \* unavailable, by a document that says 404

NoRefusals   == {}
MCRefusals   == {Breaker, Unauthorized, Mislabelled}
JSONRefusals == {BareJSON}
MCBodies     == {"value", "opaque"}
ValueBodies  == {"value"}

HealthyAuda  == {Reply(201, "value", "")}
=============================================================================
