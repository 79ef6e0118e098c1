------------------------------ MODULE MCServer ------------------------------
(* Server with the statuses handlers use, those an upstream's problem document *)
(* may smuggle in, and three dependencies .                              *)
EXTENDS Server

CONSTANTS extract, persistence, audit

MCServices == {extract, persistence, audit}

MCStatuses == {0, 99, 102, 200, 201, 404, 422, 502, 503, 1000}

MCHealthReplies == {Reply(200, "value", ""), Reply(302, "opaque", ""), Reply(503, "opaque", "")}
=============================================================================
