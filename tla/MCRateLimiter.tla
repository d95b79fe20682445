---------------------------- MODULE MCRateLimiter ----------------------------
(* Bounded instances of RateLimiter for TLC. *)
EXTENDS RateLimiter

L(count, window) == [count |-> count, window |-> window]

\* The shipped limits scaled down: execute_sql_safe is tight, the system-table
\* tools less so, any other tool has the fallback.
MCDefaults ==
    ("execute_sql_safe" :> L(2, 3)) @@ ("billing_summary" :> L(3, 2)) @@ ("health" :> L(3, 2))
MCFallback == L(3, 1)

\* MCP_RATE_LIMIT="billing_summary=9/9,nonsense,billing_summary=2/3,*=0/2,
\* health=1/-1": one tool overridden twice, a chunk that does not parse, a limit
\* for all that lets nothing through, a negative window (int() accepts both).
MCChunks == << [key |-> "billing_summary", limit |-> L(9, 9)],
               Malformed,
               [key |-> "billing_summary", limit |-> L(2, 3)],
               [key |-> Star, limit |-> L(0, 2)],
               [key |-> "health", limit |-> L(1, -1)] >>
=============================================================================
