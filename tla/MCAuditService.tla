--------------------------- MODULE MCAuditService ---------------------------
(* AuditService on a few events, with every kind of answer AUDA can give. *)
EXTENDS AuditService

CONSTANTS e1, e2

MCEvents == {e1, e2}

MCReplies == {Reply(201, "value", ""), Reply(401, "problem", ""), Reply(503, "opaque", "")}
=============================================================================
