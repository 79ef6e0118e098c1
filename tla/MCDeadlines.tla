---------------------------- MODULE MCDeadlines -----------------------------
(* Ticks of five seconds: the Consul client's timeout, the one for headers and net/http's *)
(* grace are one; for the rest the smallest values that keep upload, lookup, extraction   *)
(* and emission apart.                                                                    *)
EXTENDS Deadlines

CONSTANTS r1

MCRequests == {r1}

\* AUDA hangs: an emission ends when its goroutine gives up, at any time within its budget.
MCReplies == {}

\* One that is spent while a request runs, and one that covers it.
MCShutdownTimeouts == {2, 9}

\* One within the write timeout of 4, and the longest that the budget of 9 still covers.
MCHealthCheckTimeouts == {1, 6}
=============================================================================
