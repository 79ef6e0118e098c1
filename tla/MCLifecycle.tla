---------------------------- MODULE MCLifecycle -----------------------------
(* Lifecycle with a few requests and an AUDA that may answer 201 or nothing. *)
EXTENDS Lifecycle

CONSTANTS r1, r2

MCRequests == {r1, r2}

MCReplies == {[code |-> 201, body |-> "value", status |-> 201, value |-> ""]}
=============================================================================
