-------------------------------- MODULE Guard --------------------------------
(***************************************************************************)
(* _guard, the wrapper every tool runs in: the in-flight counter, the      *)
(* audit records of a call, the rate-limit gate, the timeout and the       *)
(* context variables, for tool calls that run as asyncio tasks and that    *)
(* may call other guarded tools (list_system_tables, recent_audit_events,  *)
(* billing_summary, billing_report ... all await the guarded               *)
(* execute_sql_safe).                                                      *)
(*                                                                         *)
(* One task runs at a time (loop) until it awaits.  stack[t] holds the     *)
(* guarded calls task t is inside of, outermost first.  The tool bodies    *)
(* are arbitrary: they await, call guarded tools, emit statement records,  *)
(* return and raise; a cancelled body may await again while it cleans up.  *)
(* The decision of the rate limiter is left open here (RateLimiter).       *)
(***************************************************************************)
EXTENDS Integers, FiniteSets, SequencesExt

CONSTANTS
    Tasks,          \* asyncio tasks serving tool calls
    MaxDepth,       \* bound: guarded calls nested in one task
    MaxCalls,       \* bound: guarded calls made in all
    MaxCancels,     \* bound: external cancellations in all
    MaxPrintFaults, \* bound: prints to stderr that raise
    Exporter,       \* an OTLP endpoint is configured and the SDK is installed
    AllowSync,      \* a synchronous tool is registered with allow_sync=True
    NoTask          \* no task is running: the event loop is idle

ASSUME BoundsAssumption ==
    /\ MaxDepth \in Nat \ {0} /\ MaxCalls \in Nat
    /\ MaxCancels \in Nat /\ MaxPrintFaults \in Nat
    /\ NoTask \notin Tasks /\ AllowSync \in BOOLEAN /\ Exporter \in BOOLEAN

VARIABLES
    loop,       \* the task the event loop is running, or NoTask
    stack,      \* stack[t]: frames [rid, timer, saved, before] of task t
    flow,       \* flow[t]: how control stands in the body of the top frame
    exc,        \* exc[t]: the exception propagating in task t
    cancelling, \* cancelling[t]: asyncio's count of cancellation requests
    ctx,        \* ctx[t]: the context variable _current_request_id
    inFlight,   \* _in_flight_tools
    trail,      \* trail[t]: audit records emitted by task t
    metrics,    \* mcp_tool_calls_total by outcome
    otel,       \* _otel_tracer: not looked for yet, "off", or "on"
    span,       \* span[r]: the OpenTelemetry span of call r
    calls,      \* guarded calls made so far; their request ids are 1..calls
    around,     \* around[r]: the calls that call r was made inside of
    struck,     \* calls live in a task when it was cancelled from outside
    cancels, faults

control == <<loop, flow, exc, cancelling>>
books   == <<inFlight, trail, metrics, faults>>
traces  == <<otel, span>>
ghosts  == <<around, struck>>
vars    == <<control, stack, ctx, books, traces, calls, ghosts, cancels>>

Rids   == 1..MaxCalls
NoRid  == 0
Frame  == [rid    : Rids,
           timer  : {"armed", "fired"},               \* asyncio.timeout
           saved  : Rids \cup {NoRid},                \* request_ctx_token
           before : 0..(MaxDepth + MaxCancels)]       \* cancelling on entry
Flows  == {"none",      \* not in a tool call
           "body",      \* the body runs
           "await",     \* the body is suspended
           "doomed",    \* suspended, and to be resumed with CancelledError
           "unwind",    \* an exception propagates to the guard
           "cleanup",   \* suspended in a handler while it propagates
           "sync"}      \* in a synchronous tool
Outcomes == {"success", "error", "timeout", "rate_limited"}
Record == [event : {"start", "limit", "statement"}, rid : Rids \cup {NoRid}]
          \cup [event : {"end"}, rid : Rids, outcome : Outcomes]

\* The counters as _init_prometheus registers them.
NoneCounted == [o \in Outcomes |-> 0]

Init ==
    /\ loop = NoTask
    /\ stack = [t \in Tasks |-> <<>>]
    /\ flow = [t \in Tasks |-> "none"]
    /\ exc = [t \in Tasks |-> "none"]
    /\ cancelling = [t \in Tasks |-> 0]
    /\ ctx = [t \in Tasks |-> NoRid]
    /\ inFlight = 0
    /\ trail = [t \in Tasks |-> <<>>]
    /\ metrics = NoneCounted
    /\ otel = "unset"
    /\ span = [r \in Rids |-> "none"]
    /\ calls = 0
    /\ around = [r \in Rids |-> {}]
    /\ struck = {}
    /\ cancels = 0
    /\ faults = 0

\* The calls task t is inside of.
Inside(t) == {stack[t][i].rid : i \in DOMAIN stack[t]}

Start(r)     == [event |-> "start", rid |-> r]
Limit(r)     == [event |-> "limit", rid |-> r]
Statement(r) == [event |-> "statement", rid |-> r]
End(r, o)    == [event |-> "end", rid |-> r, outcome |-> o]

\* _emit links and writes a record, then prints it to stderr.
Emit(t, recs) ==
    trail' = [trail EXCEPT ![t] = @ \o recs] /\ UNCHANGED <<metrics, faults>>

\* The print of the last of these records raises.
EmitRaises(t, recs) ==
    /\ faults < MaxPrintFaults
    /\ trail' = [trail EXCEPT ![t] = @ \o recs]
    /\ faults' = faults + 1
    /\ UNCHANGED metrics

\* telemetry.record_tool_call.
Count(o) == metrics' = [metrics EXCEPT ![o] = @ + 1]

\* The tool.end of call r is emitted, then the call is counted.
EmitEnd(t, before, r, o) ==
    /\ trail' = [trail EXCEPT ![t] = @ \o before \o <<End(r, o)>>]
    /\ Count(o)
    /\ UNCHANGED faults

-----------------------------------------------------------------------------
(* Where control goes once a guarded call is over, s being the frames      *)
(* that remain: back into the calling body, or out of the task.            *)

ReturnTo(t, s) ==
    /\ flow' = [flow EXCEPT ![t] = IF s = <<>> THEN "none" ELSE "body"]
    /\ exc' = [exc EXCEPT ![t] = "none"]
    /\ loop' = IF s = <<>> THEN NoTask ELSE t

RaiseTo(t, s, e) ==
    /\ flow' = [flow EXCEPT ![t] = IF s = <<>> THEN "none" ELSE "unwind"]
    /\ exc' = [exc EXCEPT ![t] = IF s = <<>> THEN "none" ELSE e]
    /\ loop' = IF s = <<>> THEN NoTask ELSE t

-----------------------------------------------------------------------------
(* telemetry.tool_span, around the body and its handlers.                  *)

\* _init_otel looks once whether there is an exporter.
InitOtel == otel' = IF otel # "unset" THEN otel ELSE IF Exporter THEN "on" ELSE "off"

OpenSpan(r) ==
    /\ InitOtel
    /\ span' = [span EXCEPT ![r] = IF otel' = "on" THEN "open" ELSE "none"]

EndSpan(t, status) ==
    /\ span' = [span EXCEPT ![Last(stack[t]).rid] = IF @ = "open" THEN status ELSE @]
    /\ UNCHANGED otel

\* The guard of the top frame returns.
Returns(t) == ReturnTo(t, Front(stack[t])) /\ EndSpan(t, "ended")

\* An exception leaves it.  Whether a CancelledError, which is no Exception, makes
\* the span an error depends on the version of the SDK.
Raises(t, e) ==
    /\ RaiseTo(t, Front(stack[t]), e)
    /\ EndSpan(t, IF e = "cancelled" THEN "cut off" ELSE "error")

-----------------------------------------------------------------------------
(* Entering a guarded call.                                                *)

Admitted(t, r) ==
    /\ Emit(t, <<Start(r)>>)
    /\ stack' = [stack EXCEPT ![t] = Append(@, [rid |-> r, timer |-> "armed",
                                                 saved |-> ctx[t], before |-> cancelling[t]])]
    /\ ctx' = [ctx EXCEPT ![t] = r]
    /\ inFlight' = inFlight + 1
    /\ flow' = [flow EXCEPT ![t] = "body"]
    /\ loop' = t
    /\ OpenSpan(r)
    /\ UNCHANGED exc

\* Mutant: a rejected call is not counted.
Rejected_uncounted(t, r) ==
    /\ Emit(t, <<Start(r), Limit(r), End(r, "rate_limited")>>)
    /\ ReturnTo(t, stack[t])
    /\ UNCHANGED <<stack, ctx, inFlight, traces>>

\* Mutant: the rejection path decrements by itself and in the finally as well.
Rejected_decrementsTwice(t, r) ==
    /\ EmitEnd(t, <<Start(r), Limit(r)>>, r, "rate_limited")
    /\ ReturnTo(t, stack[t])
    /\ inFlight' = inFlight - 1
    /\ UNCHANGED <<stack, ctx, traces>>

\* The rejection path decrements and resets by itself and skips the body.
Rejected(t, r) ==
    /\ EmitEnd(t, <<Start(r), Limit(r)>>, r, "rate_limited")
    /\ ReturnTo(t, stack[t])
    /\ UNCHANGED <<stack, ctx, inFlight, traces>>

\* A print raises in emit_tool_start, or on the rejection path: neither is
\* inside the try whose finally decrements, and there the context stays set.
EntryFails(t, r) ==
    /\ \/ EmitRaises(t, <<Start(r)>>) /\ UNCHANGED ctx
       \/ /\ \/ EmitRaises(t, <<Start(r), Limit(r)>>)
             \/ EmitRaises(t, <<Start(r), Limit(r), End(r, "rate_limited")>>)
          /\ ctx' = [ctx EXCEPT ![t] = IF stack[t] = <<>> THEN NoRid ELSE r]
    /\ inFlight' = inFlight + 1
    /\ RaiseTo(t, stack[t], "error")
    /\ UNCHANGED <<stack, traces>>

Enter(t) ==
    LET r == calls + 1 IN
    /\ calls < MaxCalls
    /\ calls' = r
    /\ around' = [around EXCEPT ![r] = Inside(t)]
    /\ Admitted(t, r) \/ Rejected(t, r) \/ EntryFails(t, r)
    /\ UNCHANGED <<struck, cancels, cancelling>>

\* The transport hands a tool call to an idle task, as a fresh asyncio task.
Arrive(t) ==
    /\ loop = NoTask
    /\ flow[t] = "none"
    /\ Enter(t)

\* The body of a tool awaits another guarded tool.
CallTool(t) ==
    /\ loop = t
    /\ flow[t] = "body"
    /\ Len(stack[t]) < MaxDepth
    /\ Enter(t)

-----------------------------------------------------------------------------
(* A synchronous tool: counted, but neither limited, recorded, timed out   *)
(* nor measured.  It holds the event loop until it returns or raises.      *)

\* The kinds of tools safe_tool takes.
SafeTool == {"async"} \cup (IF AllowSync THEN {"sync"} ELSE {})

CallSync(t) ==
    /\ "sync" \in SafeTool
    /\ loop = NoTask /\ flow[t] = "none"
    /\ loop' = t
    /\ flow' = [flow EXCEPT ![t] = "sync"]
    /\ inFlight' = inFlight + 1
    /\ UNCHANGED <<stack, ctx, exc, cancelling, trail, metrics, faults, traces, calls,
                   ghosts, cancels>>

SyncEnds(t) ==
    /\ loop = t /\ flow[t] = "sync"
    /\ loop' = NoTask
    /\ flow' = [flow EXCEPT ![t] = "none"]
    /\ inFlight' = inFlight - 1
    /\ UNCHANGED <<stack, ctx, exc, cancelling, trail, metrics, faults, traces, calls,
                   ghosts, cancels>>

-----------------------------------------------------------------------------
(* Leaving a guarded call.                                                 *)

\* Mutant: the timeout keeps its request, so no CancelledError is its own.
Withdrawn_never(t) == cancelling[t]

\* asyncio.timeout withdraws its own cancellation request on exit.
Withdrawn(t) == cancelling[t] - (IF Last(stack[t]).timer = "fired" THEN 1 ELSE 0)

\* Mutant: the context variable is cleared instead of reset with the token.
Pop_clearsContext(t) ==
    /\ stack' = [stack EXCEPT ![t] = Front(@)]
    /\ ctx' = [ctx EXCEPT ![t] = NoRid]
    /\ inFlight' = inFlight - 1
    /\ cancelling' = [cancelling EXCEPT ![t] = IF Len(stack[t]) = 1 THEN 0 ELSE Withdrawn(t)]

\* Mutant: the handler of an exception decrements, and so does the finally.
Pop_errorTwice(t) ==
    /\ stack' = [stack EXCEPT ![t] = Front(@)]
    /\ ctx' = [ctx EXCEPT ![t] = Last(stack[t]).saved]
    /\ inFlight' = inFlight - (IF exc[t] = "error" THEN 2 ELSE 1)
    /\ cancelling' = [cancelling EXCEPT ![t] = IF Len(stack[t]) = 1 THEN 0 ELSE Withdrawn(t)]

\* The top frame goes: its timeout exits, then the finally block runs.
Pop(t) ==
    /\ stack' = [stack EXCEPT ![t] = Front(@)]
    /\ ctx' = [ctx EXCEPT ![t] = Last(stack[t]).saved]
    /\ inFlight' = inFlight - 1
    /\ cancelling' = [cancelling EXCEPT ![t] = IF Len(stack[t]) = 1 THEN 0 ELSE Withdrawn(t)]

\* _cap_response: what the body returns may be an error already, and becomes one
\* if it is too large or not serializable.
Capped == {"success", "error"}

\* The body returned: the else block caps the response and emits tool.end.
\* A print that raises there is not caught by the guard.
Finish(t) ==
    LET r == Last(stack[t]).rid IN
    /\ loop = t
    /\ flow[t] = "body"
    /\ \E o \in Capped :
          \/ EmitEnd(t, <<>>, r, o) /\ Returns(t)
          \/ EmitRaises(t, <<End(r, o)>>) /\ Raises(t, "error")
    /\ Pop(t)
    /\ UNCHANGED <<calls, ghosts, cancels>>

\* except Exception: tool.end with outcome error.
ReportError(t, r, before) ==
    \/ EmitEnd(t, before, r, "error") /\ Returns(t)
    \/ EmitRaises(t, before \o <<End(r, "error")>>) /\ Raises(t, "error")

\* An exception other than a cancellation reaches the guard.
Fail(t) ==
    /\ loop = t
    /\ flow[t] = "unwind" /\ exc[t] = "error"
    /\ ReportError(t, Last(stack[t]).rid, <<>>)
    /\ Pop(t)
    /\ UNCHANGED <<calls, ghosts, cancels>>

\* Mutant: a timeout that has fired takes any cancellation for its own.
Expired_byTimer(t) == Last(stack[t]).timer = "fired"

\* The timeout takes a CancelledError for its own doing: it has fired, and no
\* request has come besides that was not outstanding when the call began.
Expired(t) ==
    Last(stack[t]).timer = "fired" /\ Withdrawn(t) <= Last(stack[t]).before

\* Mutant: the handler of the timeout re-raises instead of returning.
TimedOut_reraises(t) ==
    LET r == Last(stack[t]).rid IN
    /\ loop = t
    /\ flow[t] = "unwind" /\ exc[t] = "cancelled"
    /\ Expired(t)
    /\ ReportError(t, r, <<End(r, "timeout")>>)
    /\ Pop(t)
    /\ UNCHANGED <<calls, ghosts, cancels>>

\* That CancelledError becomes a TimeoutError.  When the print of its tool.end
\* raises, the handler for exceptions runs after all and emits a second one.
TimedOut(t) ==
    LET r == Last(stack[t]).rid IN
    /\ loop = t
    /\ flow[t] = "unwind" /\ exc[t] = "cancelled"
    /\ Expired(t)
    /\ \/ EmitEnd(t, <<>>, r, "timeout") /\ Returns(t)
       \/ /\ faults < MaxPrintFaults
          /\ trail' = [trail EXCEPT ![t] = @ \o <<End(r, "timeout"), End(r, "error")>>]
          /\ \/ faults' = faults + 1 /\ Count("error") /\ Returns(t)
             \/ /\ faults + 1 < MaxPrintFaults
                /\ faults' = faults + 2
                /\ UNCHANGED metrics
                /\ Raises(t, "error")
    /\ Pop(t)
    /\ UNCHANGED <<calls, ghosts, cancels>>

\* Any other CancelledError passes through: no handler, only the finally.
PassCancelled(t) ==
    /\ loop = t
    /\ flow[t] = "unwind" /\ exc[t] = "cancelled"
    /\ ~Expired(t)
    /\ Raises(t, "cancelled")
    /\ Pop(t)
    /\ UNCHANGED <<trail, metrics, faults, calls, ghosts, cancels>>

-----------------------------------------------------------------------------
(* The body of the top frame.                                              *)

BodyUnchanged == UNCHANGED <<stack, ctx, inFlight, traces, calls, ghosts, cancels, cancelling>>

Await(t) ==
    /\ loop = t
    /\ \/ flow[t] = "body" /\ flow' = [flow EXCEPT ![t] = "await"]
       \/ flow[t] = "unwind" /\ flow' = [flow EXCEPT ![t] = "cleanup"]
    /\ loop' = NoTask
    /\ BodyUnchanged /\ UNCHANGED <<exc, trail, metrics, faults>>

Resume(t) ==
    /\ loop = NoTask
    /\ loop' = t
    /\ \/ /\ flow[t] = "await"
          /\ flow' = [flow EXCEPT ![t] = "body"]
          /\ UNCHANGED exc
       \/ /\ flow[t] = "cleanup"
          /\ flow' = [flow EXCEPT ![t] = "unwind"]
          /\ UNCHANGED exc
       \/ /\ flow[t] = "doomed"
          /\ flow' = [flow EXCEPT ![t] = "unwind"]
          /\ exc' = [exc EXCEPT ![t] = "cancelled"]
    /\ BodyUnchanged /\ UNCHANGED <<trail, metrics, faults>>

Raise(t) ==
    /\ loop = t
    /\ flow[t] = "body"
    /\ flow' = [flow EXCEPT ![t] = "unwind"]
    /\ exc' = [exc EXCEPT ![t] = "error"]
    /\ BodyUnchanged /\ UNCHANGED <<loop, trail, metrics, faults>>

\* emit_databricks_statement, in a finally: it may run while an exception
\* propagates, and replaces that exception when its own print raises.
EmitStatement(t) ==
    LET rec == <<Statement(ctx[t])>> IN
    /\ loop = t
    /\ flow[t] \in {"body", "unwind"}
    /\ ~Contains(trail[t], Statement(ctx[t]))  \* bound: one record each
    /\ \/ Emit(t, rec) /\ UNCHANGED <<flow, exc>>
       \/ /\ EmitRaises(t, rec)
          /\ flow' = [flow EXCEPT ![t] = "unwind"]
          /\ exc' = [exc EXCEPT ![t] = "error"]
    /\ BodyUnchanged /\ UNCHANGED loop

-----------------------------------------------------------------------------
(* Cancellation.                                                           *)

CancelTask(t) ==
    /\ loop = NoTask
    /\ flow[t] \in {"await", "cleanup", "doomed"}
    /\ flow' = [flow EXCEPT ![t] = "doomed"]
    /\ cancelling' = [cancelling EXCEPT ![t] = @ + 1]
    /\ UNCHANGED <<loop, exc, ctx, books, traces, calls, around>>

\* The tools that nest have one timeout (60s), so deadlines expire outermost
\* first.
TimerFires(t, i) ==
    /\ i \in DOMAIN stack[t]
    /\ stack[t][i].timer = "armed"
    /\ \A j \in 1..(i - 1) : stack[t][j].timer = "fired"
    /\ stack' = [stack EXCEPT ![t][i].timer = "fired"]
    /\ CancelTask(t)
    /\ UNCHANGED <<struck, cancels>>

\* notifications/cancelled, a closed session or the shutdown.
ExternalCancel(t) ==
    /\ cancels < MaxCancels
    /\ cancels' = cancels + 1
    /\ struck' = struck \cup Inside(t)
    /\ CancelTask(t)
    /\ UNCHANGED stack

-----------------------------------------------------------------------------

Over ==
    /\ calls = MaxCalls
    /\ \A t \in Tasks : flow[t] = "none"
    /\ UNCHANGED vars

Running(t) ==
    \/ CallTool(t) \/ Finish(t) \/ Fail(t) \/ TimedOut(t) \/ PassCancelled(t)
    \/ Await(t) \/ Raise(t) \/ EmitStatement(t) \/ SyncEnds(t)

Next ==
    \/ \E t \in Tasks :
          \/ Arrive(t) \/ CallSync(t)
          \/ Running(t)
          \/ Resume(t)
          \/ \E i \in 1..MaxDepth : TimerFires(t, i)
          \/ ExternalCancel(t)
    \/ Over

Spec == Init /\ [][Next]_vars

-----------------------------------------------------------------------------

TypeOK ==
    /\ loop \in Tasks \cup {NoTask}
    /\ stack \in [Tasks -> Seq(Frame)]
    /\ flow \in [Tasks -> Flows]
    /\ exc \in [Tasks -> {"none", "error", "cancelled"}]
    /\ cancelling \in [Tasks -> 0..(MaxDepth + MaxCancels)]
    /\ ctx \in [Tasks -> Rids \cup {NoRid}]
    /\ inFlight \in 0..(MaxCalls + 1)
    /\ trail \in [Tasks -> Seq(Record)]
    /\ metrics \in [Outcomes -> 0..MaxCalls]
    /\ otel \in {"unset", "off", "on"}
    /\ span \in [Rids -> {"none", "open", "ended", "error", "cut off"}]
    /\ calls \in 0..MaxCalls
    /\ around \in [Rids -> SUBSET Rids]
    /\ struck \in SUBSET Rids
    /\ cancels \in 0..MaxCancels
    /\ faults \in 0..MaxPrintFaults

Frames == {x \in Tasks \X (1..MaxDepth) : x[2] <= Len(stack[x[1]])}
Live == UNION {Inside(t) : t \in Tasks}

Emitted(t) == Range(trail[t])
HasEnd(t, r) == \E o \in Outcomes : End(r, o) \in Emitted(t)

Syncs == {t \in Tasks : flow[t] = "sync"}

\* in_flight_tool_count() is the number of guarded calls being executed,
\* whichever of its exits each of the others took (app.py: "incremented in
\* _guard on tool entry, decremented in finally on exit").  A print to stderr
\* that raises can only make it too high, and by one at most.
InFlightExact == inFlight - Cardinality(Frames) - Cardinality(Syncs) \in 0..faults

\* Record b may come after record a: a does not end the call of b or one around
\* it (up[r] are the calls around r), and b does not start that of a or one around it.
Follows(up, a, b) ==
    /\ a.event = "end" => a.rid \notin {b.rid} \cup up[b.rid]
    /\ b.event = "start" => b.rid \notin {a.rid} \cup up[a.rid]
Nests(up, records) ==
    \A i, j \in DOMAIN records : i < j => Follows(up, records[i], records[j])

\* A call has at most one tool.end, and it is the call's last record; all
\* records of a call, and of the calls it made, lie between the call's own
\* start and end.  So the records of nested calls nest, as long as no print to
\* stderr has raised.
RecordsNest == faults = 0 => \A t \in Tasks : Nests(around, trail[t])

\* A start without an end is explained: the call is still live, it or a call
\* around it was cancelled from outside, or one around it ran into its timeout,
\* or a print to stderr has raised.
UnmatchedStartsExplained == faults = 0 =>
    \A t \in Tasks : \A r \in Rids :
        Start(r) \in Emitted(t) /\ ~HasEnd(t, r) =>
            \/ r \in Live
            \/ ({r} \cup around[r]) \cap struck # {}
            \/ \E a \in around[r] :
                  \/ End(a, "timeout") \in Emitted(t)
                  \/ \E i \in DOMAIN stack[t] : stack[t][i].rid = a /\ stack[t][i].timer = "fired"

\* While a body runs, current_request_id() is the request id of the innermost
\* guarded call, whatever was entered, rejected, cancelled and left before:
\* a statement record is never attributed to another call.  Only a print that
\* raises on the rejection path leaves another id behind.
ContextIsInnermost == faults = 0 =>
    \A t \in Tasks :
        ctx[t] = IF stack[t] = <<>> THEN NoRid ELSE Last(stack[t]).rid

\* Only an outermost call reports a timeout: when the deadline of a nested
\* call passes, the one around it has passed too and takes the cancellation.
\* (A print that raises while a cancellation propagates can swallow it.)
TimeoutsAreOutermost == faults = 0 =>
    \A t \in Tasks : \A r \in Rids : End(r, "timeout") \in Emitted(t) => around[r] = {}

\* The ends in the audit log with outcome o.
Ended(o) == {x \in Tasks \X Rids : End(x[2], o) \in Emitted(x[1])}

\* mcp_in_flight_tools: set next to inFlight, but not for synchronous tools.
Gauge == inFlight - Cardinality(Syncs)

Total(f) == f["success"] + f["error"] + f["timeout"] + f["rate_limited"]
Uncounted == [o \in Outcomes |-> Cardinality(Ended(o)) - metrics[o]]

\* The counters are those of the audit log, outcome by outcome; every print of a
\* tool.end that raises makes them one call short, and nothing makes a call count
\* twice, or count while the gauge has it in flight.
MetricsAgree ==
    /\ \A o \in Outcomes : Uncounted[o] >= 0
    /\ Total(Uncounted) <= faults
    /\ Total(metrics) + Gauge <= calls

\* With a tracer, a call has a span that is open exactly while it is live; only one
\* rejected by the rate limiter has none.  An exception ends it only when the
\* call has no tool.end: errors and timeouts that the guard turns into responses
\* leave no mark on it.
SpansMatch ==
    \A t \in Tasks : \A r \in Rids :
        Start(r) \in Emitted(t) =>
            /\ span[r] = "open" <=> r \in Live
            /\ span[r] = "none" <=> End(r, "rate_limited") \in Emitted(t)
            /\ span[r] \in {"error", "cut off"} => ~HasEnd(t, r)

SpansAgree == otel = "on" /\ faults = 0 => SpansMatch

\* Metrics, traces and audit log agree call by call, whichever of its exits each
\* call takes, on each of which app.py has to update all three.  (RUNBOOK.md: the
\* counters are of "completed tool calls"; traces and audit records "correlate
\* one-to-one", which is so but for rejected calls.)
TelemetryAgreesWithAudit == MetricsAgree /\ SpansAgree

-----------------------------------------------------------------------------
(* What the properties above rest on.                                      *)

\* A frame is a call of its own, and a task without frames is in no guarded call.
StackInv ==
    /\ \A t \in Tasks : /\ Len(stack[t]) <= MaxDepth
                        /\ flow[t] \in {"none", "sync"} <=> stack[t] = <<>>
                        /\ flow[t] = "sync" => loop = t
    /\ \A t, u \in Tasks : \A i \in DOMAIN stack[t], j \in DOMAIN stack[u] :
          stack[t][i].rid = stack[u][j].rid => t = u /\ i = j

\* Around a call are the calls below it on the stack, and those around them.
Below(t, i) == {stack[t][j].rid : j \in 1..(i - 1)}
AroundInv ==
    /\ \A t \in Tasks : \A i \in DOMAIN stack[t] :
          /\ stack[t][i].rid <= calls
          /\ around[stack[t][i].rid] = Below(t, i)
    /\ \A r \in 1..calls : \A a \in around[r] : a <= calls /\ around[a] \subseteq around[r]

\* The timeouts of the f outermost calls have fired; the other cancellations of a
\* task came from outside.
TimerInv == \A t \in Tasks : \E f \in 0..Len(stack[t]) :
    /\ \A i \in DOMAIN stack[t] : stack[t][i].timer = "fired" <=> i <= f
    /\ cancelling[t] \in f..(f + cancels)
    /\ stack[t] = <<>> => cancelling[t] = 0
    /\ faults = 0 /\ cancelling[t] > f => Inside(t) \subseteq struck

\* A task that was cancelled does nothing but leave its calls: it enters none.
Leaving(t) ==
    flow[t] = "doomed" \/ (flow[t] \in {"unwind", "cleanup"} /\ exc[t] = "cancelled")
UnwindInv == faults = 0 => \A t \in Tasks :
    /\ cancelling[t] > 0 <=> Leaving(t)
    /\ \A i \in DOMAIN stack[t] : stack[t][i].before = 0

\* Each frame has saved the id of the one below it.
ContextInv ==
    /\ \A t \in Tasks : ctx[t] <= calls /\ \A i \in DOMAIN stack[t] : stack[t][i].saved <= calls
    /\ faults = 0 => \A t \in Tasks : \A i \in DOMAIN stack[t] :
          stack[t][i].saved = IF i = 1 THEN NoRid ELSE stack[t][i - 1].rid

\* A call that is live has no tool.end yet, and its start is in its own task.
TrailInv ==
    /\ \A t \in Tasks : \A i \in DOMAIN trail[t] :
          trail[t][i].rid <= calls /\ (faults = 0 => trail[t][i].rid # NoRid)
    /\ \A t, u \in Tasks : \A r \in Inside(t) :
          ~HasEnd(u, r) /\ (Start(r) \in Emitted(u) => u = t)

SpanInv ==
    /\ \A r \in Rids : r > calls => span[r] = "none"
    /\ otel # "off" /\ faults = 0 => SpansMatch

CountInv ==
    /\ IsFiniteSet(Frames) /\ \A o \in Outcomes : IsFiniteSet(Ended(o))
    /\ InFlightExact /\ MetricsAgree

IInv ==
    /\ TypeOK /\ StackInv /\ AroundInv /\ TimerInv /\ UnwindInv
    /\ ContextInv /\ ContextIsInnermost
    /\ TrailInv /\ RecordsNest /\ UnmatchedStartsExplained /\ TimeoutsAreOutermost
    /\ SpanInv /\ CountInv
=============================================================================
