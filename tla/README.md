# Verification of the Databricks AI steward

TLA+ models of the steward's concurrent and stateful parts, the TLC runs that
check them on small instances, and TLAPS proofs of what can be proved for every
instance. All paths below are those of the repository; `PROJECT.json` maps each
definition to its lines.

    tlc -workers 2 -config SqlExecution_pool.cfg SqlExecution   # one run
    tlapm AuditChain_proofs.tla                                   # one proof

## 1. The system

The steward is an MCP server. A client calls tools over stdio or HTTP; every
tool is registered through `_guard` (`app.py`), which applies the audit trail,
the rate limit, the timeout and the response cap around the tool's body. The body
of almost every tool ends in `execute_sql_safe`, itself a guarded tool, which
passes a statement through the SQL gate and runs it in a Databricks warehouse
by way of the blocking SDK, in threads.

    client -> transport -> _guard -> tool body -> _guard(execute_sql_safe)
                            |  |                       |       |
                  rate_limit.check                classify   asyncio.to_thread
                            |                                  |
                    audit._emit -> JSONL file             Databricks SDK, statements
                                    ^
                              audit_verify

| Component | State it keeps | Operations | Hard behaviour | What makes it correct |
|---|---|---|---|---|
| SQL execution (`tools/sql_tools.py`) | per call: `resp`, `statement_id`, `deadline`, `final_state_value`; outside: thread pool, statements | submit, poll, cancel at the deadline, refetch, abort path, statement record | a cancellation or timeout at any await; threads that cannot be interrupted; a result that predates the statement's end; a full pool | no statement is left running without a reason; one true record per call; every call ends |
| Tool guard (`app.py`) | in-flight counter, context variables, one `asyncio.timeout` per call | enter, reject, finish, fail, time out, pass a cancellation on | nested guards each with a timeout on one task; exits that skip handlers; a print to stderr that raises | counter exact, records nest, context is the innermost call's |
| Rate limiter (`rate_limit.py`) | a deque of times per (tool, caller) | `check`, `_limit_for`, `_parse_overrides` | lazy pruning, boundaries, odd limits | exactly the sliding window |
| Audit log (`audit.py`) | `_seq`, `_last_hash`, `_chain_initialized`, the file | `_emit`, `_link_record`, recovery | crashes, failed or short writes, rotation, two processes | the file verifies unless something happened to it |
| Audit verifier (`audit_verify.py`) | none | `verify` | boundaries of the walk | reports every local change |
| Lifecycle (`lifecycle.py`, `tools/health.py`) | `_shutdown_event`, `_shutting_down`, cleanup callbacks | signal handler, `run_with_lifecycle`, `lifespan` | signals against disconnects, nested `wait_for`, a reader thread that cannot be cancelled | shutdown ends, is announced, runs the callbacks |
| SQL gate (`databricks/sql_safety.py`) | none | `classify` | defaults for node kinds in neither list; texts of several statements | documented: one statement, a SELECT, EXPLAIN, SHOW or DESCRIBE with no write inside, default-deny for the rest. The code does not deny every other kind (section 5) |
| Client and credentials (`databricks/client.py`) | default client, cache of per-tool clients | `get_workspace`, `resolve_warehouse_id`, `run_in_thread` | caches without a lock, shared by threads and loop, while tokens rotate; the innermost tool decides | a lookup ends with a credential that was in force during it |
| System-table and billing tools (`tools/sql_tools.py`) | none | clamp arguments, build SQL, sum and price rows, put two summaries together | clamps, days against hours, two reads that do not form a snapshot | complete windows, a prior period that is what it says |
| Server and HTTP authentication (`server.py`) | settings, caller identity per request | transports, bind check, bearer middleware, probes | identity across tasks and sessions | calls charged to their caller, whose quota holds |
| Telemetry (`telemetry.py`) | counters, gauge, tracer | record a call, spans, `/metrics` | kept up beside the audit log on every exit | agrees with the audit log |
| `list_catalogs`, prompts | none | one listing in a thread | | as credentials |

The hazards these bring, each at its line, are listed in `PROJECT.json`; every
one names the properties that would catch it, or says why none does yet.

## 2. The modules

Conventions. An action is a stretch of a coroutine from one `await` to the next
(nothing else on the loop runs in between) or one step of something that really
runs beside it: a thread, the workspace, another process, the client, time. A
comment "history" marks a variable the code does not keep. A definition
preceded by "Mutant:" and named `X_variant` is deliberately wrong: it is the
definition `X` with a plausible bug. It is used by no specification; put in the
place of `X` it makes a property fail, which shows that the property can fail.
Bounds are the constants `Max...`; each is named as a bound where it is declared.

**SqlExecution.** `task[c].pc` names the await at which call `c` is suspended:
`resolving` (`resolve_warehouse_id`), `submitting` (`execute_statement`),
`sleeping`, `polling`, `expiring` (cancel at the deadline), `refetching`,
`aborting` (cancel in `except BaseException`). `Invoke` ... `Aborted` are the
stretches; `TimerFires` is the guard's timeout; `ExternalCancel` is
`notifications/cancelled`, a closed session or shutdown, and may hit the same
call repeatedly, as a cancel scope does. `asyncio.to_thread` is a job
`<<c, pc>>` in `queue`, then in `running`: cancelling its future withdraws it
only if no thread has taken it; otherwise it runs on and its result goes nowhere.
`ThreadEnds` and the actions above it are the SDK's calls, `QueryEnds` and
`CancellationEnds` the workspace, where an accepted cancellation takes its
time (`CANCELING`, reported as still running). `FinalState` and `AbortState` are
what the `finally` block records. The SQL gate is a free choice in `Invoke`
(SqlGate), the client is there (Credentials).

**ToolCall** is what the tool promises, with no loop, pool, polling or timeout in it: a
call begins and is answered once (`Answer`), a statement is created once and cancelled only
at a request of the call that knows it, and what is asked of the workspace is accepted
(`Accept`), fails (`Fail`) or goes with the call (`Leaves`). `MayLeave` is the condition under
which a statement may outlive its call. `Promise == INSTANCE ToolCall` is the refinement:
`Phase` forgets the await a call is at, `Mute` keeps of the last reply only that it
had no status, and `OnWay` gathers a call's cancel jobs, queued or running.

**Guard.** `stack[t]` holds the guarded calls task `t` is in; `flow` and `exc`
say whether the body runs, awaits, is about to receive a cancellation, or has an
exception on its way out; `around` is history, the calls around each call.
`cancelling` is asyncio's count of cancellation
requests; by it `asyncio.timeout` decides whether a `CancelledError` is its own
(`Expired`). `Finish`, `Fail`, `TimedOut`, `PassCancelled`, `Rejected` are the
five exits; `EmitRaises` is `_emit` with its record written and the print to
stderr raising. Bodies are arbitrary. The limiter's decision is open. `metrics` and
`Gauge` are the Prometheus collectors, `otel` and `span` the tracer and the span
around each body; they are updated where the code updates them, after the record
they belong to. `CallSync` and `SyncEnds` are the wrapper of synchronous tools, which
`SafeTool` admits only with `allow_sync=True`: no tool of the repository asks for it,
the run does, and its calls are counted and nothing else.

**RateLimiter** is `check` and the two functions that find a limit;
**SlidingWindow** is what it promises, stated over the full history with no
deque. `Abstract == INSTANCE SlidingWindow` is the refinement (`now`, `admitted`
and `refused` map to themselves, `Keys` and `Limits` are derived).

**AuditChain.** The file as a sequence of lines (records or junk), the chain state
of each process, `_emit` with every way the write can go, restarts, power loss,
rotation, a second process. `verify` is the verifier's exit code as a function
of the lines. `causes` remembers which faults have happened, so that a property
can say what still holds after which faults. A hash is the hashed record itself:
SHA-256 is taken to be injective.

**Lifecycle.** stdio shutdown: `OnSignal` is the handler, `MainWakes`,
`GraceExpires`, `ServerDone` are `run_with_lifecycle`; `BeginCleanup`,
`CallbackEnds`, `CallbackTimesOut`, `ResistingGivesIn` the `finally` of
`lifespan`; `ServerEnds`, `ReaderReturns` the end of the session. Timers count
down in `Tick`, which happens only when the loop has nothing to do. A callback
in `Stubborn` may go on after a `CancelledError`, and `wait_for` then waits for
it: neither the grace period nor the cap on a callback is a hard bound.

**Credentials.** `get_workspace` in the steps another thread can get between: `Check`
(read the tool's variable, look in the cache), `Build`, `Store`, `Reread` (`return
_client` reads the global again). `stage` says who called: `list_catalogs` or
`resolve_warehouse_id` in a thread, `_execute_with_cancellation` on the loop
(`LoopFree`: nothing else on the loop moves meanwhile). `Rotate` changes a variable at
any moment. `inForce` and `boot` are history: which environments a lookup has seen,
which default tokens there were before the default client was settled.

**SqlGate** is `classify` with parse trees reduced to what it looks at; it has no state
and is part of **SqlTools**, which serves one call of any tool of `sql_tools.py`: gate,
clamps, the rows a statement may bring back (`Snapshot`: the first of them, up to the
row limit, as of one instant), sums, rate card, and the report that reads twice.
The other actions are the world: a record is posted, the rate card is replaced, an
hour passes. An event is logged every hour. Amounts are integers (cents, rates in
tenths of a cent), and `Rounded` gives both results of a tie, as floats may.

**HttpServer** is `main` (which transport, which bind is refused), the middleware and
the routes (one action per way a request can go), the calls a tool makes (`Plans`:
a report is five guarded calls) and the limiter they are charged to, an instance of
SlidingWindow: RateLimiter implements it, so it stands for it here. `context[r]` is the
context variable `mcp_caller_id` of request `r`. Whether a tool runs in the context of
the request that carries it or of the one that opened its session is decided in
FastMCP, outside the repository: `inherits` is either.

`MC...` modules hold what only TLC needs: symmetry sets, concrete limits.
`..._proofs` modules hold the theorems; the invariants these rest on stand, part by
part, at the end of the module they are about.

## 3. The runs

| Run | Instance | Shows |
|---|---|---|
| `sql_pool` | 2 calls, 1 thread, timeout and 1 external cancellation per call; SDK faults and replies without status or id for one of the two; fairness | `GhostsAreAccounted`, `TerminalRecordsAreTrue`, `TimeoutsLeaveNoGhost`, `ImplementsToolCall`, `KnownStatementsStop`, `CallsEnd` |
| `guard_calls` | 2 tasks, 3 calls nested up to 3 deep, 1 external cancellation, 2 failing prints, a synchronous tool, a tracer | `InFlightExact`, `RecordsNest`, `UnmatchedStartsExplained`, `ContextIsInnermost`, `TimeoutsAreOutermost`, `TelemetryAgreesWithAudit` |
| `rate_window` | 3 tools, clock to 5, 4 calls per key, overrides with a key twice, a malformed chunk, `*`, a zero count, a negative window | `QuotaHolds`, `OverridesInForce`, `ImplementsSlidingWindow` |
| `audit_faults` | 2 processes, 4 records, 2 deaths, all five faults | `AlarmHasACause`, `SegmentsAreLinked`, `AckedStaysReadable`, `ChangesAreDetected` |
| `shutdown` | grace 5, 3 callbacks of 2 each, one stubborn, 2 calls, 2 signals, fairness | `SkipsAreExplained`, `DrainStaysAnnounced`, `OverrunHasACause`, `ShutdownEnds` |
| `credentials` | 2 calls along 3 paths, 2 tokens, 2 tools whose variable is ever set, 2 rotations | `CredentialInForce`, `DefaultIsFromBoot`, `OneTokenPerCall` |
| `sql_tools` | 81 texts and 4 row limits; windows of every length to one beyond the clamp; 4 usage histories of 2 SKUs with NULLs and corrections, 3 rate cards; 1 change of the world | `WindowComplete`, `PriorPeriodIsTrue` |
| `http` | 5 configurations, 2 concurrent requests in 2 sessions, every kind of credential and header, clock to 1 | `ChargedToItsCaller`, `CallersKeepToTheirQuota`, `BucketsAreForCallers` |
| `audit_full_disk`, `credentials_wrapper`, `unknown_kind`, `report_clamped` | the smallest instance that shows it | a sentence of the documentation the code does not keep (section 5) |

Every passing run also checks the type invariant of its module, which carries the
numeric bounds (`Len(asked) <= 2`, at most `HardRowLimit` rows, a counter that is
never negative, a context that is reset when its request has been answered, an `os.close`
of stdin that is never repeated).

Why the bounds are enough. *SQL*: one thread for two calls is already a pool at
its limit, where a job waits behind an abandoned one; timeout and external cancellation,
in either order, are the two that reach a call, the second in its abort path, and a
third could not do anything new. One call the SDK fails beside one it does not shows that
the failures of one do no harm to the other; the proofs allow them for any set of calls. *Guard*: the
deepest real nesting is three (`billing_report`, `billing_summary`,
`execute_sql_safe`); three calls in two tasks give that nest, with a timeout that is
neither the outermost nor the innermost, or a nest of two beside a concurrent call,
or two calls one after the other inside a third. *Limiter*: four calls exceed every
count in force, the clock passes every window, and equal times, `window` apart
and `window + 1` apart all occur; the proofs remove the bounds. *Audit*: four
records allow a failure at the first line, in the middle and before the last,
with a restart on either side. *Shutdown*: 5 and 2 keep the default proportion of
`MCP_SHUTDOWN_GRACE_S` to `MCP_CLEANUP_TIMEOUT_S`, so three callbacks do not fit
into the grace period and its end can hit a callback, the loop's end, or calls
still unwinding; the second signal is the one to be ignored. *Credentials*: two calls
are a lookup in a thread against one on the loop, or two threads that both find no
client; two rotations change a token there and back, or two variables, within one
lookup. *SqlTools*: days of three hours, starting at the last hour of a day or the first
of the next, put midnight at every place of a window; weeks of one day and a
longest window of three make two weeks the report that does not fit, as seven
weeks are with 7, 14 and 90. *HttpServer*: the smallest counts keep the shipped order
(statements are the tightest), so a report is refused at its second
statement unless the clock moves on before it; two requests suffice for one caller's context to leak into the other's,
in the same session or in two.

Deadlock is checked in every run but `http`, where the bounds on requests and
charges end every behaviour; the `Over`, `Quiet` and `Exited` disjuncts are the
states in which the modelled part may stop.

## 4. Fairness

*SqlExecution.* `LoopFairness`: the event loop runs ready coroutines and due timers.
`SdkFairness`: blocking SDK calls come back, because the SDK has HTTP timeouts of
its own, and a cancellation the workspace has accepted takes effect. A query need
never end by itself. Without `SdkFairness` the tool can hang: the abort path
waits for a thread to run `cancel_execution` after the guard's only timeout has
been spent, so a wedged SDK thread holds the call for as long as it is wedged.

*Lifecycle.* `LoopFairness`: loop, clock, and the reader thread once its descriptor is
closed or at its end. `UnwindFairness`: tool calls end (that is `CallsEnd`), and a
callback that resists its cancellation gives in or finishes. A callback that just
hangs gets no fairness: its timeout has to end it. No signal, disconnect or call
is ever assumed to happen.

## 5. Where code and documentation differ

Four differences have a run that must find its property violated; `PROJECT.json`
quotes the lines.

1. `audit_full_disk`: a swallowed write failure leaves a gap, which the verifier
   reports as an edit.
2. `credentials_wrapper`: the token of a wrapper tool is never used, since its statement
   runs inside `execute_sql_safe`; `client.py` names `recent_audit_events` as the example.
3. `unknown_kind`: the gate promises to deny every kind of statement it does not know
   (`DefaultDeny`), but takes a root of any kind that wraps a query for a `SELECT`, because
   of the fallback meant for `WITH`. Only the node types of the walk are refused at any
   depth; a `Set` or a `Cache` around a query is sent to the workspace. `DocumentedRoot`
   is written from what the documentation allows, not from the code's branches.
4. `report_clamped`: for more than six weeks `billing_report` compares with a period that
   the 90 days of `billing_summary` cut short.

The passing properties state the following behaviour as exceptions:

- A call cancelled or timed out during `execute_statement` leaves before the `try`; its
  statement runs on and nobody asks to cancel it (a cause in `GhostsAreAccounted`;
  SECURITY.md says "on every cancellation path"). After an abort, `finally` overwrites
  `CANCELED` with the state of the last poll.
- A wrapper that times out inside `execute_sql_safe`, and any cancellation from outside,
  leaves a `tool.start` unmatched with the server alive (`UnmatchedStartsExplained`;
  AUDIT_LOG_SCHEMA.md says such a start means a crash).
- A print to stderr that raises leaks the in-flight counter (`InFlightExact` bounds it),
  leaves the metrics one call short, or gives a timed-out call a second `tool.end`.
- A call the rate limiter rejects has no span, though RUNBOOK.md says that spans and
  audit records correlate one-to-one; and a tool's error or timeout, which the
  guard turns into a response inside the span, leaves no mark on it: `tool_span`'s
  `except Exception` sees only prints that raise (`SpansAgree`). The in-flight gauge
  misses synchronous tools.
- A torn line swallows the next record (`AckedStaysReadable`); records lost at the end of
  the file go unnoticed (`AlarmHasACause`); a file begun by rotation under a running
  steward is linked but does not verify by itself (`SegmentsAreLinked`).
- A signal after the client has gone, or the end of the grace period, cuts off the
  callback being awaited and skips the rest (`SkipsAreExplained`); the end of the grace
  period may be spent on calls still unwinding (`OverrunHasACause`).
- `DATABRICKS_TOKEN` is read once, against the "takes effect on the next request" of
  `client.py`, while per-tool tokens follow a rotation (`DefaultIsFromBoot`,
  `CredentialInForce`); clients of replaced tokens stay in the cache.
- What the tokenizer raises is no `ParseError` and surfaces as that error (`Refused`).
- `billing_report` drops `truncated`, and a record, a new rate card or midnight between its
  two reads goes into the difference (`disturbed` in `PriorPeriodIsTrue`). `truncated`
  cannot be set for `recent_audit_events` and `recent_query_history`, whose SQL limit is
  their row limit.
- `MCP_TRANSPORT` is not checked against the choices of `--transport`; a header with
  characters `compare_digest` does not take is answered with 500, not 401.
- A call refused inside a report has already paid for the calls before it. If FastMCP
  runs tools in the context of the session, a caller draws on the quota of the one who
  opened it; `CallersKeepToTheirQuota` claims its bound for the other case only.

## 6. What is proved

Every safety property of section 3 is proved for every value of the constants:
any number of calls, tasks, threads, records, requests, callbacks; any limits and times.
In each module an invariant `IInv` (or named parts, where several were kept apart) is
shown to hold initially and to be kept by every step, one lemma per action; the theorems
are its consequences. TLC checked each `IInv` on the module's run before it was proved.

The assumptions are the named `ASSUME`s of the modules; TLC evaluates them in every
run. Most say that bounds, times and limits are numbers and that markers (`NoClient`,
`Unset`, `Junk`) are none of the values they stand beside. Those that say something of
the world: a pool has at least one thread (SqlExecution); an environment variable that
is not set is no token (Credentials); in SqlTools an argument is an integer or one of the
two marks for what is not, a billing quantity is an integer, a missing one or not a number;
the rates of a card that parses and the limits
of `MCP_RATE_LIMIT` are integers, or no numbers. In AuditChain a hash is the record it is of.

**RateLimiter_proofs.** `IInv` = types, `BucketIsRecentHistory`, `HistoryInOrder`,
`QuotaHolds`. `QuotaHolds` is not inductive: that a new admission is far enough from the
one `count` places back needs that the deque is a suffix of the history, that what
was dropped stays outside every later window (the clock only grows), and that a
limit of zero or less has admitted nothing. `ExactlyTheSlidingWindow` is the refinement:
`RecentCount` shows that the pruned deque has as many entries as the window over the whole
history, so the same guard holds on both sides. `OverridesInForce` compares two ways of
finding a limit: `_parse_overrides` and `_limit_for`, and `Written`, which looks for the last
chunk of the text that names the tool. `OverridesAreLast` shows that the table the loop leaves
holds the last limit for each name, whatever chunks the text has; with `RefusedInv` (a
refusal is met by a full deque, which is part of the history) `OverridesCorrect` follows.

**Guard_proofs.** A task's calls are a stack (`StackInv`), and what a call may claim depends
on the calls around it, which are forgotten when they leave; hence the history `around`
(`AroundInv`). `TimerInv` is the argument about nested timeouts: those that have fired are
the outermost ones of the stack, because they were set earlier and a fired one stops
the body under it, so asyncio's count of cancellations tells `asyncio.timeout` the
truth and only an outermost call can call a cancellation its own
(`TimeoutsAreOutermost`). `UnwindInv`: a task that was cancelled does nothing
but leave. `ContextInv` and `TrailInv` tie what each frame saved, and what it has written,
to the frame below; `SpanInv` and `CountInv` do the same for spans, counters and the set
of live calls, whose cardinality the in-flight counter is (`InFlightExact`, with no
condition but the number of raising prints). The conditions `faults = 0` in the parts
are those of the properties: a print that raises really does break them.

**SqlExecution_proofs.** `PhaseInv` (what is known at each await), `ReplyInv` (what an answer
says of the statement; a terminal state is final), `PoolInv` (a call that waits has its job
in the pool, and jobs that cancel know their statement), `CancelInv` (how far the request
to cancel has come) and, for `TimeoutsLeaveNoGhost`, `FaultFreeInv` (for a call without SDK faults the
abort path is entered by a cancellation alone and a dropped request means a second one).
`GhostsAreAccounted` is not inductive without `PoolInv`: that a request is on its way is a
fact about the queue and the threads, which other calls move as well.

`ToolCallCorrect` is the refinement of ToolCall. `Stretch` sums up what a coroutine does from one
await to the next, of itself or because it is cancelled: it goes on, sleeps, asks to cancel,
or leaves; each kind is one step of the promise (`GoesOnKeeps`, `SleepsKeeps`, `AsksKeeps`,
`LeavesKeeps`), a thread that ends is another (`ThreadKeeps`), and taking a job or the
deadline passing shows nothing. The mapping needs `RequestsInv`, a second inductive invariant:
a request to cancel is in the pool once, as a job of its call at that await or
beyond, and has left the pool when its answer is there. Without it a thread that ends could
leave a second copy of its request behind, or `Expired` go on to refetch with the
request still queued. That the answer is true and the statement accounted for comes from
`IInv` after the step.

**Credentials_proofs.** `CacheInv` (entries hold what their keys say), `LookupInv` (the token
in a lookup's hands was in force during it, and so is the one in its client), `BootInv` (until the
default client is settled, the environment's default token is one of `boot`), `IdInv` (an id
is one object) and `MovedInv` (a request the environment has not moved under sees one
environment). Two threads that both find no default client, and a client read
again after another thread has replaced it, are steps of these lemmas.

**AuditChain_proofs.** `IInv`: while nothing but deaths, power failures and rotations
has happened, every file is linked and every process that holds the chain in memory
holds the end of the file, unless that is empty; without rotations the file is
intact from line 1. The link between memory and file is what makes it inductive;
restarts keep it because recovery reads back the last line. `NoFalseAlarm` and
`SegmentsCorrect` follow. `NumbersInv` (no number in use beyond the records linked; lines
torn by short writes alone) gives `TypeCorrect` and `AckedCorrect`. `DetectionCorrect` is
about an intact file of any length and any one change of `Changes`: each leaves a line that
does not fit the one before it. It is here, and only here, that different records must have
different hashes.

**Lifecycle_proofs.** `IInv` = `TypeOK`, `HandlerInv` (the handler acts once; only the
client's departure ends a session that is still being waited on), `LoopInv` (callbacks up to
the current one are settled, the rest pending, and a loop left early was hit),
`TimeInv` (time spent plus time left stays within the cap). `TypeCorrect` (stdin is
closed once), `SkipsCorrect` and `CleanupCorrect` (`CleanupIsCapped`: the callbacks together get no more than their
timeouts, unless one resists) follow, for any number of callbacks,
stubborn or not. `DrainInv` gives `DrainCorrect`; `OverdueInv` (after the grace period the
server runs callbacks only with an excuse, or while one resists) gives the action property
`OverrunCorrect`. None needs fairness or a bound on the number of signals.

**HttpServer_proofs.** `ContextInv`: the context variable of a request being served names the
caller it is from; `SessionInv`: the one of a session names the caller of one of its
requests. With `PaidInv` (a call pays as one caller throughout) they give `ChargedCorrect`.
For `QuotaCorrect`, `LedgerInv` matches the payments of all requests one to one with
admissions of the limiter at the same times, so that a window with too many payments
would be one with too many admissions, which SlidingWindow excludes
(`KeepsQuota`); RateLimiter implements SlidingWindow by the refinement above.

**SqlTools_proofs.** `StageInv` (how far a call has come, and that its arguments were usable)
and `WindowInv` (what was read is the window asked for). `WindowCorrect` rests on
two lemmas: `NoHourIsPruned`, that the days the partition filter keeps cover every hour
of the window whatever the time of day, which is arithmetic with the division
rounded up; and `FirstOfFirst`, that the first `n` of the first `m` rows are the
first `n` of all when `n <= m`. `PriorCorrect` is about the report: `ReportInv` says that, while
nothing has changed, the summary it kept and the rows it has just read are both sums over
the records as they are now. The rest is arithmetic on sums: a sum over the wider window less
the one over the nearer is the sum over the days between (`SumSplits`,
`SumOfDifferences`), and rounding moves a sum by half a cent per row at most
(`SumOfRounded`).

*Sums, folds and parse loops.* The prover cannot instantiate the library's induction theorems,
which take an operator. `MinimalSet` replaces them: a nonempty collection of subsets of a finite
set has a minimal member (well-foundedness of strict inclusion, which the library states of a
set). Applied to the collection of those subsets a claim fails for, it is induction over finite
sets, and folds, which are `CHOOSE`s of a function that satisfies an equation, are shown to
exist (`SumsExist`, `OverridesAreLast`) and to obey it.

Only model-checked: liveness (`CallsEnd`, `KnownStatementsStop`, `ShutdownEnds`), since
fairness and `ENABLED` are out of the prover's reach, and the runs that expect a violation.

## 7. Not modelled

- How often the lifespan is entered over HTTP, once for the process or once per MCP
  session, is FastMCP's decision. Lifecycle takes it to be once, which is what its
  docstring says and what stdio does; HttpServer lets `/readyz` give either answer. Were
  it per session, the end of one session would announce a drain and run the cleanup
  under the others.
- After `run_with_lifecycle`, `asyncio.run` waits for executor threads; a blocked SDK
  call can delay the exit of the process further.
- The text of errors and what `_scrub` redacts in it, sizes of responses, digests of
  arguments, column names, the run rate of the report, the latency histogram,
  `uptime_s`, the switches read at import, the overrides and captures tests use.
- The prompts, which are constant texts. Tests and stress programs drive the code and
  were read for what they expect.

- A line torn by a power failure: `PowerLoss` takes whole records, so what `AlarmHasACause`
  and its proof say of power failures is about records lost, not cut. Torn lines come from
  short writes only (`EmitShort`).
- Which statements write is taken as `_DML_DDL_NODES` lists it; no property claims that the
  list is complete, only `DefaultDeny` what the kinds should be.
- A change between the two reads of `billing_report` is an exception of `PriorPeriodIsTrue`,
  which therefore does not say how far off the report is then. The number of rate-limiter
  keys is unbounded when an end-user header is trusted.

## 8. Plan

Done: SqlExecution with its refinement of ToolCall, Guard with telemetry, RateLimiter with its
refinement of SlidingWindow, AuditChain, Lifecycle, Credentials, SqlGate and SqlTools, HttpServer
over SlidingWindow, each with proofs. What would add most is *Guard composed with
AuditChain*: records of concurrent calls in one chain, where a start and its end may lie
in different files.
