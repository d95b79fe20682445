------------------------------- MODULE SqlTools -------------------------------
(***************************************************************************)
(* The tools of sql_tools.py as their caller sees them: what passes the    *)
(* gate, how many rows come back, what the system-table tools make of      *)
(* them, and the billing report, which puts two summaries together.        *)
(*                                                                         *)
(* A statement takes its snapshot of the tables at one instant and is      *)
(* answered at a later one; clock, billing records and rate card change at *)
(* any time.  How a statement is run is in SqlExecution, here it may fail. *)
(* Units of usage are integers, rates are tenths of a cent per unit and    *)
(* amounts are cents.                                                      *)
(***************************************************************************)
EXTENDS SqlGate, FiniteSetsExt, Functions

CONSTANTS
    Requests,         \* tool calls and their arguments
    NotAnInt,         \* an argument int() rejects
    Omitted,          \* an argument left to its default
    Groups,           \* pairs of a sku and a billing origin product
    Words,            \* Words[x]: the words that occur in the name of sku x
    Star,             \* the key "*" of the rate card
    Cards,            \* what MCP_DBU_RATE_CARD may hold
    Malformed,        \* text that is no JSON object
    NotANumber,       \* a value of the rate card that is no number, or a NULL
    InitialUsage,     \* billing records to begin with
    Posts,            \* quantities of the records that may be added
    NoRecord,         \* no billing record of a group on a day
    Days,             \* bound: dates are 0..Days-1
    HoursPerDay, DaysPerWeek, MaxHours, MaxLimit, MaxDays, MaxWeeks,
    DefaultRowLimit, HardRowLimit, ListRowLimit, BillingRowLimit,
    MaxChanges        \* bound: changes of records, card and date

ASSUME ScaleAssumption ==
    /\ {Days, HoursPerDay, DaysPerWeek, MaxHours, MaxLimit, MaxDays, MaxWeeks} \subseteq Nat \ {0}
    /\ {DefaultRowLimit, HardRowLimit, ListRowLimit, BillingRowLimit} \subseteq Nat \ {0}
    /\ MaxChanges \in Nat /\ Days > 1

ASSUME MarksAssumption == {NotAnInt, Omitted, NoRecord, NotANumber} \cap Int = {}
ASSUME UsageAssumption ==
    /\ IsFiniteSet(Groups) /\ Posts \subseteq Int
    /\ InitialUsage \subseteq [Groups -> [0..(Days - 1) -> Int \cup {NoRecord, NotANumber}]]

ASSUME CardsAssumption ==
    \A c \in Cards \ {Malformed} : \A k \in DOMAIN c : c[k] \in Int \cup {NotANumber}

\* What a call of each tool looks like on the wire.
ASSUME RequestsAssumption == \A r \in Requests :
    \/ r.tool = "execute_sql_safe" /\ r.limit \in Int \cup {Omitted}
    \/ /\ r.tool \in {"recent_audit_events", "recent_query_history", "list_system_tables",
                       "billing_summary", "billing_report"}
       /\ {r.since, r.limit} \subseteq Int \cup {NotAnInt}

VARIABLES
    now,       \* the workspace's clock, in hours; an event is logged every hour
    usage,     \* system.billing.usage: usage[g][d]
    card,      \* MCP_DBU_RATE_CARD
    request,   \* the call being served
    pc,        \* how far it has come
    fetched,   \* rows the last statement has read
    current,   \* billing_report: the first summary
    result,    \* what the tool returned
    asked,     \* history: the hour when each statement took its snapshot
    changes,
    disturbed  \* history: something changed since the report's first snapshot

world == <<now, usage, card, changes, disturbed>>
vars  == <<world, request, pc, fetched, current, result, asked>>

Nothing == [kind |-> "none"]

Init ==
    /\ now \in {HoursPerDay * (Days - 1) - 1, HoursPerDay * (Days - 1)}
    /\ usage \in InitialUsage
    /\ card \in Cards
    /\ request \in Requests
    /\ pc = "called"
    /\ fetched = Nothing
    /\ current = Nothing
    /\ result = Nothing
    /\ asked = <<>>
    /\ changes = 0
    /\ disturbed = FALSE

Today == now \div HoursPerDay

Clamped(n, lo, hi) == Max({lo, Min({hi, n})})

\* The integer arguments of each tool, clamped by _coerce_int.
Hours  == Clamped(request.since, 1, MaxHours)
Limit  == Clamped(request.limit, 1, MaxLimit)
Window == Clamped(request.since, 1, MaxDays)
Weeks  == Clamped(request.since, 1, MaxWeeks)

\* Mutant: the hard ceiling is forgotten.
RowLimit_uncapped(n) == Max({1, IF n = Omitted THEN DefaultRowLimit ELSE n})

\* execute_sql_safe: the row limit in force.
RowLimit(n) == Clamped(IF n = Omitted THEN DefaultRowLimit ELSE n, 1, HardRowLimit)

Return(r) ==
    /\ result' = r
    /\ pc' = "done"
    /\ UNCHANGED <<world, request, fetched, current, asked>>

Error(type) == [kind |-> "error", type |-> type]

\* int() rejects an argument of a system-table tool.
Unusable == IF request.tool = "execute_sql_safe" THEN FALSE
            ELSE NotAnInt \in {request.since, request.limit}

\* _coerce_int raises, and _guard reports it.
BadArgument ==
    /\ pc = "called"
    /\ Unusable
    /\ Return(Error("ValueError"))

\* The gate's verdict on the request; the tools' own statements are SELECTs.
Admitted == request.tool = "execute_sql_safe" => Classify(request.sql).allowed

Refused ==
    /\ pc = "called"
    /\ ~Admitted
    /\ Return(Error(IF Classify(request.sql).reason = "raised" THEN "TokenError"
                    ELSE "SqlNotAllowed"))

Submit ==
    /\ pc = "called"
    /\ ~Unusable /\ Admitted
    /\ pc' = "submitted"
    /\ UNCHANGED <<world, request, fetched, current, result, asked>>

-----------------------------------------------------------------------------
(* A statement and what comes back.                                        *)

\* The sets of at most k elements of S that come first, larger keys first.
First(S, k, Key(_)) ==
    {T \in SUBSET S : /\ Cardinality(T) = Min({k, Cardinality(S)})
                      /\ \A a \in T, b \in S \ T : Key(a) >= Key(b)}

\* _statement_to_payload
Payload(rows, truncated) == [kind |-> "rows", rows |-> rows, truncated |-> truncated]

\* The workspace answers with the first rows, as many as the row limit allows,
\* and says whether it has cut any.
Snapshot(S, limit, Key(_), Row(_)) ==
    \E T \in First(S, limit, Key) :
        /\ fetched' = Payload([x \in T |-> Row(x)], T # S)
        /\ pc' = "read"
        /\ asked' = Append(asked, now)
        /\ UNCHANGED <<now, usage, card, changes, request, current, result>>

Itself(x) == x

\* Mutant: whole days before the remainder of the hours.
PartitionDays_floor(h) == Max({1, h \div HoursPerDay})

\* recent_audit_events: days of partitions for a window of h hours.
PartitionDays(h) == Max({1, (h + HoursPerDay - 1) \div HoursPerDay})

Recent == {t \in 0..now : t > now - Hours}
Pruned == {t \in Recent : t \div HoursPerDay >= Today - PartitionDays(Hours)}

ReadAudit ==
    /\ pc = "submitted" /\ request.tool = "recent_audit_events"
    /\ \E matched \in First(Pruned, Limit, Itself) :
          Snapshot(matched, RowLimit(Limit), Itself, Itself)
    /\ UNCHANGED disturbed

ReadHistory ==
    /\ pc = "submitted" /\ request.tool = "recent_query_history"
    /\ \E matched \in First(Recent, Limit, Itself) :
          Snapshot(matched, RowLimit(Limit), Itself, Itself)
    /\ UNCHANGED disturbed

\* Any number of rows up to one more than can be asked for.
ReadOther ==
    /\ pc = "submitted" /\ request.tool \in {"execute_sql_safe", "list_system_tables"}
    /\ \E m \in 0..(HardRowLimit + 1) :
          Snapshot(1..m, RowLimit(IF request.tool = "execute_sql_safe" THEN request.limit
                                  ELSE ListRowLimit), Itself, Itself)
    /\ UNCHANGED disturbed

\* The records of a group dated after d.
Records(g, d) == {x \in 0..(Days - 1) : x > d /\ usage[g][x] # NoRecord}

\* sum(usage_quantity): NULLs do not count, and nothing but NULLs is NULL.
Known(g, d) == {x \in Records(g, d) : usage[g][x] # NotANumber}
Units(g, d) ==
    IF Known(g, d) = {} THEN NotANumber ELSE SumFunctionOnSet(usage[g], Known(g, d))

\* The groups billed after d.
Billed(d) == {g \in Groups : Records(g, d) # {}}

\* ORDER BY total_units DESC puts NULLs last.
SizeOf(u) == IF u = NotANumber THEN -1000 ELSE u

\* usage_date > current_date() - INTERVAL n DAYS
Since(days) == Today - days

\* The report's two windows, as billing_summary clamps them.
CurrentDays == Clamped(Weeks * DaysPerWeek, 1, MaxDays)
WiderDays   == Clamped(Weeks * 2 * DaysPerWeek, 1, MaxDays)

BillingDays ==
    IF request.tool = "billing_summary" THEN Window
    ELSE IF current.kind = "none" THEN CurrentDays ELSE WiderDays

ReadBilling ==
    LET d == Since(BillingDays) IN
    /\ pc = "submitted" /\ request.tool \in {"billing_summary", "billing_report"}
    /\ Snapshot(Billed(d), RowLimit(BillingRowLimit),
                LAMBDA g : SizeOf(Units(g, d)), LAMBDA g : Units(g, d))
    /\ disturbed' = IF current.kind = "none" THEN FALSE ELSE disturbed

\* Rate limit, no warehouse, timeout, a statement that failed: execute_sql_safe
\* returns an error, and the tools around it pass it on.
ReadFails ==
    /\ pc = "submitted"
    /\ Return(Error("ReadFailed"))

-----------------------------------------------------------------------------
(* Dollars.                                                                *)

\* _load_rate_card: entries that are no number are dropped, a text that is no
\* object is no card.
RateCard ==
    IF card = Malformed THEN <<>>
    ELSE Restrict(card, {k \in DOMAIN card : card[k] # NotANumber})

\* rate_card.get(sku, rate_card.get("*")), empty when there is none.
Rate(sku) ==
    IF sku \in DOMAIN RateCard THEN {RateCard[sku]}
    ELSE IF Star \in DOMAIN RateCard THEN {RateCard[Star]} ELSE {}

\* round(x, 2) of tenths of a cent: floats may round a tie either way.
Rounded(x) == {c \in (x \div 10)..(x \div 10 + 1) : 10 * c - x \in -5..5}

\* The row has a rate and a number of units.
Priced(row, g) == Rate(g[1]) # {} /\ row[g] # NotANumber

\* What cost_usd of a row can be; NotANumber is null.
Costs(row, g) ==
    IF Priced(row, g) THEN UNION {Rounded(row[g] * r) : r \in Rate(g[1])} ELSE {NotANumber}

\* total: the sum of the costs that are not null, null if all are.
Total(cost) ==
    LET priced == {g \in DOMAIN cost : cost[g] # NotANumber} IN
    IF priced = {} THEN NotANumber ELSE SumFunctionOnSet(cost, priced)

\* _annotate_with_cost and the rest of billing_summary.
Summaries ==
    LET rows == fetched.rows
        choices == UNION {Costs(rows, g) : g \in DOMAIN rows} IN
    {[kind |-> "summary", cost |-> cost, truncated |-> fetched.truncated,
      applied |-> RateCard # <<>>, total |-> Total(cost)] :
        cost \in {c \in [DOMAIN rows -> choices] : \A g \in DOMAIN rows : c[g] \in Costs(rows, g)}}

\* _friendly_sku_label: the first rule that matches.
FriendlyLabel(sku, product) ==
    CASE product = "PREDICTIVE_OPTIMIZATION" -> "Background table optimization"
      [] product # "PREDICTIVE_OPTIMIZATION"
         /\ "STORAGE" \in Words[sku] \cup Words[product] -> "Data storage"
      [] OTHER ->
         IF product = "SQL" \/ "SQL_COMPUTE" \in Words[sku] THEN "Interactive SQL queries"
         ELSE IF {"JOBS", "COMPUTE"} \subseteq Words[sku] THEN "Scheduled jobs"
         ELSE sku

OrZero(total) == IF total = NotANumber THEN 0 ELSE total

\* Mutant: the prior period is the whole wider window.
PriorTotal_wider(cur, wider) == OrZero(wider.total)

\* What was spent in the wider window but not in the current one.
PriorTotal(cur, wider) == OrZero(wider.total) - OrZero(cur.total)

\* billing_report, from the two summaries.  Dollars are given when the first of
\* them had a rate card.
Report(cur, wider) ==
    LET prior == PriorTotal(cur, wider)
        rows == [g \in DOMAIN cur.cost |-> [cost |-> cur.cost[g],
                                            label |-> FriendlyLabel(g[1], g[2])]] IN
    IF cur.applied
    THEN [kind |-> "report", summary |-> rows, dollars |-> TRUE,
          total |-> OrZero(cur.total), prior |-> prior,
          delta |-> OrZero(cur.total) - prior, percent |-> prior # 0]
    ELSE [kind |-> "report", summary |-> rows, dollars |-> FALSE]

AnswerRows ==
    /\ pc = "read" /\ request.tool \notin {"billing_summary", "billing_report"}
    /\ Return(fetched)

AnswerSummary ==
    /\ pc = "read" /\ request.tool = "billing_summary"
    /\ \E s \in Summaries : Return(s)

\* The report keeps its first summary and asks for the second.
AskAgain ==
    /\ pc = "read" /\ request.tool = "billing_report" /\ current = Nothing
    /\ current' \in Summaries
    /\ pc' = "submitted"
    /\ UNCHANGED <<world, request, fetched, result, asked>>

AnswerReport ==
    /\ pc = "read" /\ request.tool = "billing_report" /\ current # Nothing
    /\ \E wider \in Summaries : Return(Report(current, wider))

-----------------------------------------------------------------------------
(* The world goes on while a call is served.                               *)

Changed ==
    /\ changes < MaxChanges
    /\ pc \in {"submitted", "read"}
    /\ changes' = changes + 1
    /\ disturbed' = TRUE
    /\ UNCHANGED <<request, pc, fetched, current, result, asked>>

\* A billing record arrives, for today or late; corrections are negative.
Post(g, d, q) ==
    /\ d <= Today
    /\ usage' = [usage EXCEPT ![g][d] = IF @ \in {NoRecord, NotANumber} THEN q ELSE @ + q]
    /\ Changed /\ UNCHANGED <<now, card>>

SetRateCard(c) ==
    /\ c # card /\ card' = c
    /\ Changed /\ UNCHANGED <<now, usage>>

Hour ==
    /\ now < HoursPerDay * Days - 1
    /\ now' = now + 1
    /\ Changed /\ UNCHANGED <<usage, card>>

Over == pc = "done" /\ UNCHANGED vars

Serve ==
    \/ BadArgument \/ Refused \/ Submit
    \/ ReadAudit \/ ReadHistory \/ ReadOther \/ ReadBilling \/ ReadFails
    \/ AnswerRows \/ AnswerSummary \/ AskAgain \/ AnswerReport

Next ==
    \/ Serve
    \/ \E g \in Groups, d \in 0..(Days - 1), q \in Posts : Post(g, d, q)
    \/ \E c \in Cards : SetRateCard(c)
    \/ Hour
    \/ Over

Spec == Init /\ [][Next]_vars

-----------------------------------------------------------------------------

TypeOK ==
    /\ now \in 0..(HoursPerDay * Days - 1)
    /\ usage \in [Groups -> [0..(Days - 1) -> Int \cup {NoRecord, NotANumber}]]
    /\ card \in Cards
    /\ request \in Requests
    /\ pc \in {"called", "submitted", "read", "done"}
    /\ fetched.kind \in {"none", "rows"}
    /\ current.kind \in {"none", "summary"}
    /\ result.kind \in {"none", "error", "rows", "summary", "report"}
    /\ pc = "done" <=> result # Nothing
    /\ fetched.kind = "rows" => Cardinality(DOMAIN fetched.rows) <= HardRowLimit
    /\ Len(asked) <= 2
    /\ changes \in 0..MaxChanges
    /\ disturbed \in BOOLEAN

\* What sql_safety.py says is allowed: a query, which may stand in parentheses,
\* or what explains, shows or describes.
DocumentedRoot(s) ==
    \/ s.root \in Queries \cup {"Subquery", "Show", "Describe"}
    \/ s.root = "Command" /\ s.head \in ALLOWED_KINDS

\* Default-deny: a statement of a caller that reaches the workspace is of one of
\* the documented kinds; USE, SET and every kind that is not recognised are
\* rejected, whatever stands inside.  (sql_safety.py, lines 8-12.)
DefaultDeny ==
    request.tool = "execute_sql_safe" /\ asked # <<>> =>
        \A s \in Range(Statements(request.sql)) : DocumentedRoot(s)

\* rows are the newest events, as many as asked for, of the window that ends then.
Newest(rows, then) ==
    LET due == {t \in 0..then : t > then - Hours} IN
    /\ rows \subseteq due
    /\ Cardinality(rows) = Min({Limit, HardRowLimit, Cardinality(due)})
    /\ \A t \in due \ rows, r \in rows : t < r

\* recent_audit_events and recent_query_history answer with the newest events
\* of the window, as of the hour the statement was run, none missing: pruning
\* the audit log to whole days of partitions loses none of the hours asked for.
WindowComplete ==
    result.kind = "rows" /\ request.tool \in {"recent_audit_events", "recent_query_history"} =>
        Newest(DOMAIN result.rows, asked[1])

WiderFits == 2 * Weeks * DaysPerWeek <= MaxDays

Price(g) == IF Rate(g[1]) = {} THEN 0 ELSE CHOOSE r \in Rate(g[1]) : TRUE

\* What the prior period's usage costs, in tenths of a cent, group by group.
PriorExact ==
    LET far  == Today - 2 * Weeks * DaysPerWeek
        near == Today - Weeks * DaysPerWeek
        days(g) == {d \in Records(g, far) \ Records(g, near) : usage[g][d] # NotANumber} IN
    SumFunction([g \in Groups |-> Price(g) * SumFunctionOnSet(usage[g], days(g))])

\* The prior period, the difference of two windows read and rounded separately,
\* is what that period's usage costs to within half a cent per row.
PriorIsRight ==
    LET rows == Cardinality(DOMAIN current.cost) + Cardinality(DOMAIN fetched.rows) IN
    10 * result.prior - PriorExact \in (-5 * rows)..(5 * rows)

\* The report has dollars for a prior period, and neither summary was cut.
HasPrior == result.kind = "report" /\ result.dollars /\ ~current.truncated /\ ~fetched.truncated

\* The report's prior period is right unless records, card or date changed after
\* the first read, a summary was cut, or the wider window does not fit the
\* longest that billing_summary takes.  (billing_report; the report says nothing
\* of any of these.)
PriorPeriodIsTrue == HasPrior /\ ~disturbed /\ WiderFits => PriorIsRight

\* billing_report's docstring gives the wider window twice the duration, for all
\* of 1 to 12 weeks.
PriorPeriodIsComparable == HasPrior /\ ~disturbed => PriorIsRight

-----------------------------------------------------------------------------
(* What the invariants rest on.                                            *)

\* How far a call has come: it read once, the report a second time after it
\* kept its first summary.
StageInv ==
    /\ current # Nothing => request.tool = "billing_report" /\ pc # "called"
    /\ asked \in Seq(0..now)
    /\ pc \in {"submitted", "read"} => ~Unusable
    /\ Len(asked) + (IF pc = "submitted" THEN 1 ELSE 0) <= (IF current = Nothing THEN 1 ELSE 2)
    /\ pc = "called" => asked = <<>> /\ fetched = Nothing
    /\ pc = "read" => asked # <<>> /\ fetched.kind = "rows"
    /\ result.kind = "rows" => asked # <<>> /\ result = fetched

\* What the recent_ tools have read is the window they were asked for.
WindowInv ==
    pc = "read" /\ request.tool \in {"recent_audit_events", "recent_query_history"} =>
        Newest(DOMAIN fetched.rows, asked[1])

\* s is a summary of the days after d.
IsSummary(s, d) ==
    /\ s.kind = "summary" /\ DOMAIN s.cost \subseteq Groups
    /\ \A g \in DOMAIN s.cost : s.cost[g] \in Costs([x \in Groups |-> Units(x, d)], g)
    /\ s.total = Total(s.cost)
    /\ s.truncated \/ DOMAIN s.cost = Billed(d)

\* While nothing has changed since the first read, both halves of a report say
\* what is still so: the summary it has kept, and what it has just read.
ReportInv ==
    /\ current = Nothing \/ current.kind = "summary"
    /\ result.kind = "report" =>
          /\ request.tool = "billing_report" /\ ~Unusable /\ current # Nothing
          /\ \E wider \in Summaries : result = Report(current, wider)
    /\ request.tool = "billing_report" /\ ~disturbed =>
          /\ current # Nothing => IsSummary(current, Since(CurrentDays))
          /\ pc = "read" \/ result.kind = "report" =>
                /\ DOMAIN fetched.rows \subseteq Groups
                /\ \A g \in DOMAIN fetched.rows : fetched.rows[g] = Units(g, Since(BillingDays))
                /\ fetched.truncated \/ DOMAIN fetched.rows = Billed(Since(BillingDays))

IInv == TypeOK /\ StageInv /\ WindowInv /\ WindowComplete
=============================================================================
