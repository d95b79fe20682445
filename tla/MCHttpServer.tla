---------------------------- MODULE MCHttpServer ----------------------------
(* Bounded instances of HttpServer for TLC. *)
EXTENDS HttpServer, TLC

\* A server over stdio, one whose transport is another text, allowed to bind to an
\* external host with a blank token, one not allowed to, and loopback ones with a
\* token, by a flag over the environment, that trust the header or do not.
MCBase == [transport |-> "streamable-http", MCP_TRANSPORT |-> NotGiven, host |-> NotGiven,
           MCP_HOST |-> NotGiven, allowExternal |-> FALSE, token |-> "set", trust |-> FALSE,
           prometheus |-> FALSE]
MCConfigs ==
    {[MCBase EXCEPT !.transport = NotGiven],
     [MCBase EXCEPT !.transport = NotGiven, !.MCP_TRANSPORT = "another text",
                    !.host = "external", !.allowExternal = TRUE, !.token = "blank"],
     [MCBase EXCEPT !.MCP_HOST = "external", !.token = NotGiven]}
    \cup {[MCBase EXCEPT !.host = "loopback", !.MCP_HOST = "external", !.trust = trust,
                         !.prometheus = trust] : trust \in BOOLEAN}

Sent(path, auth, user, s, tool) ==
    [path |-> path, auth |-> auth, user |-> user, session |-> s, tool |-> tool]

\* What a message is rejected for varies by itself.
MCTools == {"execute_sql_safe", "billing_report"}
MCMessages ==
    {Sent(path, NotGiven, NotGiven, s, "billing_report") :
             path \in {"/readyz", "/metrics"}, s \in Sessions}
    \cup {Sent("/mcp", auth, NotGiven, s, "billing_report") :
             auth \in {"wrong", "non-ascii"}, s \in Sessions}
    \cup {Sent("/mcp", NotGiven, NotGiven, s, tool) : s \in Sessions, tool \in MCTools}
    \cup {Sent("/mcp", "right", user, s, tool) :
             user \in Users \cup {NotGiven}, s \in Sessions, tool \in MCTools}

\* The shipped limits in proportion: statements are the tightest.
MCLimits == [k \in Keys |-> IF k[1] = "execute_sql_safe" THEN [count |-> 1, window |-> 0]
                            ELSE [count |-> 2, window |-> 0]]

Symmetry == Permutations(Requests) \cup Permutations(Sessions)
=============================================================================
