----------------------------- MODULE MCSqlTools -----------------------------
(* Bounded instances of SqlTools for TLC. *)
EXTENDS SqlTools, TLC

Text(form, parsed) == [form |-> form, parsed |-> parsed]
Stmt(root, nodes) == [root |-> root, nodes |-> nodes \cup {root}, head |-> "none"]
Command(head) == [root |-> "Command", nodes |-> {"Command"}, head |-> head]

\* Roots of every class, each with and without a query and a write inside.
MCStatements ==
    {Stmt(root, nodes) : root \in {"Select", "Union", "Subquery", "Show", "Describe", "Insert",
                                   "Create", "Set", "Cache"},
                         nodes \in SUBSET {"Select", "Insert", "Drop"}}
    \cup {Command(head) : head \in {"EXPLAIN", "SHOW", "GRANT", "UNKNOWN"}}

MCPieces == {None, Stmt("Select", {}), Stmt("Drop", {})}

MCTexts ==
    {Text(form, <<>>) : form \in {"blank", "unparsable", "untokenizable", "parsed"}}
    \cup {Text("parsed", <<s>>) : s \in MCStatements}
    \cup {Text("parsed", <<a, b>>) : a \in MCPieces, b \in MCPieces}

Call(tool, since, limit) == [tool |-> tool, since |-> since, limit |-> limit]

MCSqlCalls == {[tool |-> "execute_sql_safe", sql |-> t, limit |-> Omitted] : t \in MCTexts}

\* Arguments inside, at the ends of and beyond what is clamped.
MCRequests ==
    {[tool |-> "execute_sql_safe", sql |-> t, limit |-> n] :
        t \in MCTexts, n \in {Omitted, 0, 2, 9}}
    \cup {Call(tool, h, n) : tool \in {"recent_audit_events", "recent_query_history"},
                             h \in (-1)..(MaxHours + 1) \cup {NotAnInt}, n \in {0, 2, 9, NotAnInt}}
    \cup {Call("list_system_tables", 1, 1)}
    \cup {Call("billing_summary", d, 1) : d \in {0, 2, 9, NotAnInt}}
    \cup {Call("billing_report", w, 1) : w \in {0, 1, 2, NotAnInt}}

MCReports == {Call("billing_report", 2, 1)}

\* Records and card make no difference to tools that read neither.
Relevant ==
    \/ request.tool \in {"billing_summary", "billing_report"}
    \/ card = Malformed /\ usage = CHOOSE u \in InitialUsage : TRUE

\* A serverless SQL sku and a jobs sku.
MCGroups == {<<"SQL_SKU", "SQL">>, <<"JOBS_SKU", "JOBS">>}
MCWords == [SQL_SKU  |-> {"SQL_COMPUTE", "COMPUTE"}, JOBS_SKU |-> {"JOBS", "COMPUTE"},
            SQL |-> {}, JOBS |-> {"JOBS"}]

History(a, b, c, d) == [x \in 0..(Days - 1) |-> <<a, b, c, d>>[x + 1]]

MCUsage ==
    {[g \in Groups |-> IF g[1] = "SQL_SKU" THEN sql ELSE jobs] :
        sql  \in {History(2, 1, 3, NoRecord), History(NoRecord, 5, NoRecord, NoRecord)},
        jobs \in {History(NotANumber, 4, NoRecord, NoRecord), History(1, -2, NotANumber, NoRecord)}}

MCPosts == {2, -1}

\* Cards that price both skus, one of them, or none.
MCCards == {Malformed, [SQL_SKU |-> 7, JOBS_SKU |-> NotANumber],
            [SQL_SKU |-> 13] @@ (Star :> 5)}
=============================================================================
