----------------------------- MODULE SqlExecution -----------------------------
(***************************************************************************)
(* Concurrent calls of the tool execute_sql_safe: the coroutine of each    *)
(* call (execute_sql_safe and _execute_with_cancellation), the timeout its *)
(* guard puts around it, the cancellations that reach it from outside, the *)
(* thread pool in which asyncio.to_thread runs the blocking SDK calls, and *)
(* the statements as the Databricks workspace sees them.                   *)
(*                                                                         *)
(* A coroutine runs without interruption from one await to the next, so    *)
(* each such stretch is one action.  The value of task[c].pc names the     *)
(* await at which the call is suspended; it also names the thread-pool job *)
(* the call is waiting for, which is the pair <<c, pc>>.  A job whose call *)
(* has moved on is abandoned: it still runs, nobody reads its result.      *)
(***************************************************************************)
EXTENDS Naturals, FiniteSets, SequencesExt

CONSTANTS
    Calls,        \* the invocations of execute_sql_safe
    Workers,      \* threads in the event loop's default executor
    MaxCancels,   \* bound: external cancellations delivered to one call
    SdkFaults,    \* calls whose SDK calls may raise
    OddReplies    \* calls whose replies may lack a status or a statement id

ASSUME WorkersAssumption == Workers \in Nat \ {0}
ASSUME MaxCancelsAssumption == MaxCancels \in Nat
ASSUME FaultsAssumption == SdkFaults \subseteq Calls /\ OddReplies \subseteq Calls

VARIABLES
    task,      \* task[c]: where the coroutine of call c is and what it holds
    queue,     \* jobs handed to the executor and not yet taken by a thread
    running,   \* jobs a thread is executing
    stmt,      \* stmt[c]: the statement of call c in the workspace
    cancelReq, \* cancelReq[c]: what became of the last cancel_execution
    record,    \* record[c]: state in the tool.databricks_statement record
    outcome    \* outcome[c]: outcome in tool.end ("cancelled": no tool.end)

vars == <<task, queue, running, stmt, cancelReq, record, outcome>>

-----------------------------------------------------------------------------

Terminal == {"SUCCEEDED", "FAILED", "CANCELED"}

\* RUNNING stands for both members of _INFLIGHT_STATES.  CANCELING is a
\* statement whose cancellation the workspace has accepted and not yet
\* carried out: get_statement still reports it as in flight.
StmtStates == {"none", "RUNNING", "CANCELING"} \cup Terminal

\* What get_statement reports of a statement.
Reported(s) == IF s = "CANCELING" THEN "RUNNING" ELSE s

JobPcs == {"resolving", "submitting", "polling", "expiring", "refetching", "aborting"}
CancelPcs == {"expiring", "aborting"}
Waiting == JobPcs \cup {"sleeping"}
Pcs == Waiting \cup {"idle", "done"}
Jobs == Calls \X JobPcs

\* A status, NO_ID for an in-flight status without a statement id, BLANK for
\* a response without a status, or what the other SDK calls bring back.
Replies == {"RUNNING", "NO_ID", "BLANK"} \cup Terminal \cup
           {"pending", "ok", "unavailable", "error"}

Seen == {"none", "RUNNING", "NO_ID", "BLANK"} \cup Terminal

Task == [pc      : Pcs,
         timer   : {"armed", "fired"},  \* asyncio.timeout in the guard
         cancels : 0..MaxCancels,       \* external cancellations delivered
         due     : BOOLEAN,             \* now >= deadline
         reply   : Replies,             \* result of the awaited job
         seen    : Seen,                \* status of the last usable resp
         known   : BOOLEAN,             \* statement_id is at hand
         exc     : {"none", "sdk", "cancelled"}]  \* exception in flight

Init ==
    /\ task = [c \in Calls |-> [pc |-> "idle", timer |-> "armed", cancels |-> 0,
                                due |-> FALSE, reply |-> "pending", seen |-> "none",
                                known |-> FALSE, exc |-> "none"]]
    /\ queue = <<>>
    /\ running = {}
    /\ stmt = [c \in Calls |-> "none"]
    /\ cancelReq = [c \in Calls |-> "none"]
    /\ record = [c \in Calls |-> "none"]
    /\ outcome = [c \in Calls |-> "none"]

-----------------------------------------------------------------------------
(* How a coroutine leaves a stretch: on to another await, or out.          *)

At(c, pc) == task[c].pc = pc
Answered(c, pc) == At(c, pc) /\ task[c].reply # "pending"

\* Cancelling the future of a job removes the job if no thread has taken it.
Withdraw(c) == RemoveFirst(queue, <<c, task[c].pc>>)

\* Suspend on asyncio.to_thread: hand the executor a job and wait for it.
AwaitThread(c, t, pc) ==
    /\ task' = [task EXCEPT ![c] = [t EXCEPT !.pc = pc, !.reply = "pending"]]
    /\ queue' = Append(Withdraw(c), <<c, pc>>)

\* Leave with the statement state r in the audit trail (none: no record).
Leave(c, t, r, o) ==
    /\ task' = [task EXCEPT ![c] = [t EXCEPT !.pc = "done"]]
    /\ queue' = Withdraw(c)
    /\ record' = [record EXCEPT ![c] = r]
    /\ outcome' = [outcome EXCEPT ![c] = o]

\* Mutant: tool.end carries the state of the statement as its outcome.
ReturnOutcomes_raw(status) == {status}

\* A SUCCEEDED response is a success unless its rows exceed the response cap.
ReturnOutcomes(status) ==
    IF status = "SUCCEEDED" THEN {"success", "error"} ELSE {"error"}

\* The finally block: the last usable resp decides the recorded state.
FinalState(t, status) ==
    CASE status # "BLANK"  -> status
      [] t.seen = "none"   -> "BLANK"
      [] OTHER             -> t.seen

ReturnResp(c, t, status) ==
    \E o \in ReturnOutcomes(status) : Leave(c, t, FinalState(t, status), o)

\* How the guard reports an exception that leaves the tool: asyncio.timeout
\* turns a cancellation into ToolTimeout only if no one else asked for it.
RaiseOutcome(t) ==
    CASE t.exc = "sdk" -> "error"
      [] t.exc = "cancelled" /\ t.timer = "fired" /\ t.cancels = 0 -> "timeout"
      [] OTHER -> "cancelled"

\* Mutant: the finally block does not overwrite the "CANCELED" of the handler.
AbortState_assumed(t) == "CANCELED"

\* In the finally block of the abort path resp is still the last polled
\* response, so its state is recorded and not the "CANCELED" set before it.
AbortState(t) == IF t.seen # "none" THEN t.seen ELSE "CANCELED"

\* Mutant: the deadline path refetches and returns, and cancels nothing.
PollLoop_noCancel(c, t) ==
    \/ t.due /\ AwaitThread(c, t, "refetching") /\ UNCHANGED cancelReq
    \/ /\ ~t.due
       /\ task' = [task EXCEPT ![c] = [t EXCEPT !.pc = "sleeping", !.reply = "pending"]]
       /\ UNCHANGED <<queue, cancelReq>>

\* The head of the polling loop: cancel when the budget is spent, else sleep.
PollLoop(c, t) ==
    \/ /\ t.due
       /\ AwaitThread(c, t, "expiring")
       /\ cancelReq' = [cancelReq EXCEPT ![c] = "asked"]
    \/ /\ ~t.due
       /\ task' = [task EXCEPT ![c] = [t EXCEPT !.pc = "sleeping", !.reply = "pending"]]
       /\ UNCHANGED <<queue, cancelReq>>

\* except BaseException: cancel the statement, then re-raise.
Abort(c, t) ==
    /\ AwaitThread(c, t, "aborting")
    /\ cancelReq' = [cancelReq EXCEPT ![c] = "asked"]
    /\ UNCHANGED <<record, outcome>>

-----------------------------------------------------------------------------
(* The coroutine.                                                          *)

\* Enter the tool.  A statement classify rejects never reaches the pool.
Invoke(c, allowed) ==
    /\ At(c, "idle")
    /\ \/ /\ allowed
          /\ AwaitThread(c, task[c], "resolving")
          /\ UNCHANGED <<record, outcome>>
       \/ ~allowed /\ Leave(c, task[c], "none", "error")
    /\ UNCHANGED <<running, stmt, cancelReq>>

Resolved(c) ==
    /\ Answered(c, "resolving")
    /\ \/ /\ task[c].reply = "ok"
          /\ AwaitThread(c, task[c], "submitting")
          /\ UNCHANGED <<record, outcome>>
       \/ /\ task[c].reply # "ok"
          /\ Leave(c, task[c], "none", "error")
    /\ UNCHANGED <<running, stmt, cancelReq>>

\* With the shortest wait_timeout_s the budget is spent already on entry.
Submitted(c) ==
    LET r == task[c].reply IN
    /\ Answered(c, "submitting")
    /\ \/ /\ r = "error"
          /\ Leave(c, task[c], "none", "error")
          /\ UNCHANGED cancelReq
       \/ /\ r # "error" /\ r # "RUNNING"
          /\ ReturnResp(c, [task[c] EXCEPT !.known = (r # "NO_ID")], r)
          /\ UNCHANGED cancelReq
       \/ /\ r = "RUNNING"
          /\ \E spent \in BOOLEAN :
                PollLoop(c, [task[c] EXCEPT !.seen = r, !.known = TRUE, !.due = spent])
          /\ UNCHANGED <<record, outcome>>
    /\ UNCHANGED <<running, stmt>>

Wake(c) ==
    /\ At(c, "sleeping")
    /\ AwaitThread(c, task[c], "polling")
    /\ UNCHANGED <<running, stmt, cancelReq, record, outcome>>

Polled(c) ==
    LET r == task[c].reply IN
    /\ Answered(c, "polling")
    /\ \/ r = "error" /\ Abort(c, [task[c] EXCEPT !.exc = "sdk"])
       \/ /\ r = "RUNNING"
          /\ PollLoop(c, [task[c] EXCEPT !.seen = r])
          /\ UNCHANGED <<record, outcome>>
       \/ /\ r # "error" /\ r # "RUNNING"
          /\ ReturnResp(c, task[c], r)
          /\ UNCHANGED cancelReq
    /\ UNCHANGED <<running, stmt>>

\* _cancel_quietly swallows a failure: the refetch follows in any case.
Expired(c) ==
    /\ Answered(c, "expiring")
    /\ AwaitThread(c, task[c], "refetching")
    /\ UNCHANGED <<running, stmt, cancelReq, record, outcome>>

Refetched(c) ==
    LET r == task[c].reply IN
    /\ Answered(c, "refetching")
    /\ \/ r = "error" /\ Abort(c, [task[c] EXCEPT !.exc = "sdk"])
       \/ r # "error" /\ ReturnResp(c, task[c], r) /\ UNCHANGED cancelReq
    /\ UNCHANGED <<running, stmt>>

\* Mutant: the abort path cancels again until it sees the statement stopped,
\* looking at a response it never refreshes.
Aborted_untilStopped(c) ==
    /\ Answered(c, "aborting")
    /\ Abort(c, task[c])
    /\ UNCHANGED <<running, stmt>>

Aborted(c) ==
    /\ Answered(c, "aborting")
    /\ Leave(c, task[c], AbortState(task[c]), RaiseOutcome(task[c]))
    /\ UNCHANGED <<running, stmt, cancelReq>>

\* Mutant: the abort path is under "except Exception", which does not catch a
\* CancelledError.
Interrupt_uncaught(c, t) ==
    LET x == [t EXCEPT !.exc = "cancelled"] IN
    /\ Leave(c, x, IF t.known THEN AbortState(x) ELSE "none", RaiseOutcome(x))
    /\ UNCHANGED <<running, stmt, cancelReq>>

\* CancelledError raised at the await where call c is suspended; t is the
\* task with the cause already noted.
Interrupt(c, t) ==
    LET x == [t EXCEPT !.exc = "cancelled"] IN
    /\ \/ /\ t.pc \in {"resolving", "submitting"}
          /\ Leave(c, x, "none", RaiseOutcome(x))
          /\ UNCHANGED cancelReq
       \/ /\ t.pc \in {"sleeping", "polling", "expiring", "refetching"}
          /\ Abort(c, x)
       \/ /\ t.pc = "aborting"
          /\ Leave(c, x, AbortState(x), RaiseOutcome(x))
          /\ cancelReq' = [cancelReq EXCEPT ![c] =
                 IF Contains(queue, <<c, "aborting">>) THEN "dropped" ELSE @]
    /\ UNCHANGED <<running, stmt>>

\* The guard's deadline: asyncio.timeout cancels the task, once.
TimerFires(c) ==
    /\ task[c].pc \in Waiting
    /\ task[c].timer = "armed"
    /\ Interrupt(c, [task[c] EXCEPT !.timer = "fired"])

\* A cancel scope around the request (notifications/cancelled, shutdown):
\* it cancels again at every await until the task is gone.
ExternalCancel(c) ==
    /\ task[c].pc \in Waiting
    /\ task[c].cancels < MaxCancels
    /\ Interrupt(c, [task[c] EXCEPT !.cancels = @ + 1])

\* Time passes the polling deadline.
DeadlinePasses(c) ==
    /\ task[c].pc \in {"sleeping", "polling"}
    /\ ~task[c].due
    /\ task' = [task EXCEPT ![c].due = TRUE]
    /\ UNCHANGED <<queue, running, stmt, cancelReq, record, outcome>>

-----------------------------------------------------------------------------
(* The thread pool and the SDK calls it runs.                              *)

ThreadTakes ==
    /\ queue # <<>>
    /\ Cardinality(running) < Workers
    /\ running' = running \cup {Head(queue)}
    /\ queue' = Tail(queue)
    /\ UNCHANGED <<task, stmt, cancelReq, record, outcome>>

\* The thread of job <<c, pc>> ends; its result reaches a call still waiting.
ThreadEnds(c, pc, result) ==
    /\ <<c, pc>> \in running
    /\ running' = running \ {<<c, pc>>}
    /\ task' = IF At(c, pc) THEN [task EXCEPT ![c].reply = result] ELSE task
    /\ UNCHANGED <<queue, record, outcome>>

ResolveReturns(c) ==
    /\ \E result \in {"ok", "unavailable"} \cup (IF c \in SdkFaults THEN {"error"} ELSE {}) :
          ThreadEnds(c, "resolving", result)
    /\ UNCHANGED <<stmt, cancelReq>>

\* execute_statement creates the statement, then waits up to 5s inline.
StatementCreated(c) ==
    /\ <<c, "submitting">> \in running
    /\ stmt[c] = "none"
    /\ stmt' = [stmt EXCEPT ![c] = "RUNNING"]
    /\ UNCHANGED <<task, queue, running, cancelReq, record, outcome>>

OddOnes(c) ==
    IF c \notin OddReplies THEN {}
    ELSE {"BLANK"} \cup (IF stmt[c] = "RUNNING" THEN {"NO_ID"} ELSE {})

SubmitReturns(c) ==
    /\ \/ /\ stmt[c] # "none"
          /\ \E result \in {Reported(stmt[c])} \cup OddOnes(c) :
                ThreadEnds(c, "submitting", result)
       \/ c \in SdkFaults /\ ThreadEnds(c, "submitting", "error")
    /\ UNCHANGED <<stmt, cancelReq>>

GetReturns(c, pc) ==
    /\ pc \in {"polling", "refetching"}
    /\ \E result \in {Reported(stmt[c])} \cup (OddOnes(c) \ {"NO_ID"})
                     \cup (IF c \in SdkFaults THEN {"error"} ELSE {}) :
          ThreadEnds(c, pc, result)
    /\ UNCHANGED <<stmt, cancelReq>>

CancelReturns(c, pc) ==
    /\ pc \in CancelPcs
    /\ ThreadEnds(c, pc, "ok")
    /\ \/ /\ stmt' = [stmt EXCEPT ![c] = IF @ = "RUNNING" THEN "CANCELING" ELSE @]
          /\ cancelReq' = [cancelReq EXCEPT ![c] = "sent"]
       \/ /\ c \in SdkFaults
          /\ cancelReq' = [cancelReq EXCEPT ![c] = "refused"]
          /\ UNCHANGED stmt

-----------------------------------------------------------------------------
(* The workspace.                                                          *)

\* A statement may run for ever; a cancelled one ends, if only because it
\* finished before the cancellation took effect.
QueryEnds(c) ==
    /\ stmt[c] = "RUNNING"
    /\ stmt' \in {[stmt EXCEPT ![c] = s] : s \in {"SUCCEEDED", "FAILED"}}
    /\ UNCHANGED <<task, queue, running, cancelReq, record, outcome>>

CancellationEnds(c) ==
    /\ stmt[c] = "CANCELING"
    /\ stmt' \in {[stmt EXCEPT ![c] = s] : s \in Terminal}
    /\ UNCHANGED <<task, queue, running, cancelReq, record, outcome>>

-----------------------------------------------------------------------------

Coroutine(c) ==
    \/ \E allowed \in BOOLEAN : Invoke(c, allowed)
    \/ Resolved(c)
    \/ Submitted(c)
    \/ Wake(c)
    \/ Polled(c)
    \/ Expired(c)
    \/ Refetched(c)
    \/ Aborted(c)

SdkReturns(c) ==
    \/ StatementCreated(c)
    \/ ResolveReturns(c)
    \/ SubmitReturns(c)
    \/ \E pc \in JobPcs : GetReturns(c, pc) \/ CancelReturns(c, pc)

Quiet ==
    /\ \A c \in Calls : At(c, "done") /\ stmt[c] \in Terminal \cup {"none"}
    /\ queue = <<>> /\ running = {}
    /\ UNCHANGED vars

Next ==
    \/ ThreadTakes
    \/ \E c \in Calls :
          \/ Coroutine(c)
          \/ TimerFires(c)
          \/ ExternalCancel(c)
          \/ DeadlinePasses(c)
          \/ SdkReturns(c)
          \/ QueryEnds(c)
          \/ CancellationEnds(c)
    \/ Quiet

Spec == Init /\ [][Next]_vars

\* The event loop keeps running ready coroutines and timers.
LoopFairness ==
    \A c \in Calls : /\ WF_vars(Coroutine(c))
                     /\ WF_vars(TimerFires(c))
                     /\ WF_vars(DeadlinePasses(c))

\* The SDK's own HTTP timeouts bring every blocking call back in the end, and
\* the workspace carries out a cancellation it has accepted.
SdkFairness ==
    /\ WF_vars(ThreadTakes)
    /\ \A c \in Calls :
          /\ WF_vars(StatementCreated(c))
          /\ WF_vars(ResolveReturns(c))
          /\ WF_vars(SubmitReturns(c))
          /\ \A pc \in JobPcs : WF_vars(GetReturns(c, pc)) /\ WF_vars(CancelReturns(c, pc))
          /\ WF_vars(CancellationEnds(c))

FairSpec == Spec /\ LoopFairness /\ SdkFairness

-----------------------------------------------------------------------------

TypeOK ==
    /\ task \in [Calls -> Task]
    /\ queue \in Seq(Jobs)
    /\ running \in SUBSET Jobs
    /\ stmt \in [Calls -> StmtStates]
    /\ cancelReq \in [Calls -> {"none", "asked", "sent", "refused", "dropped"}]
    /\ record \in [Calls -> Seen]
    /\ outcome \in [Calls -> {"none", "success", "error", "timeout", "cancelled"}]

InPool(job) == job \in running \/ Contains(queue, job)

CancelPending(c) == \E pc \in CancelPcs : InPool(<<c, pc>>)

\* When a call is over and its statement is still running although the call
\* had learnt its id, then the request to cancel it is on its way, or was
\* refused by the SDK, or was dropped by a second cancellation before a thread
\* took it, or the call ended on a response that carried no status.
\* (_execute_with_cancellation: "on any cancellation fire cancel_execution".)
GhostsAreAccounted ==
    \A c \in Calls :
        At(c, "done") /\ task[c].known /\ stmt[c] = "RUNNING" =>
            \/ CancelPending(c)
            \/ cancelReq[c] \in {"refused", "dropped"}
            \/ task[c].reply = "BLANK"

\* The calls whose SDK calls never raise and always get complete replies.
Sound == Calls \ (SdkFaults \cup OddReplies)

\* A call that only the guard's timeout has cancelled, whose SDK calls do not fail
\* and which learnt its statement's id, never leaves it running with no request
\* to cancel it on the way: neither the deadline nor a timeout at any await, nor
\* what the other calls in the pool do or suffer, loses it.
TimeoutsLeaveNoGhost ==
    \A c \in Sound :
        At(c, "done") /\ task[c].known /\ task[c].cancels = 0 /\ stmt[c] = "RUNNING" =>
            CancelPending(c)

\* A terminal state written to the audit trail is the statement's true state,
\* whatever raced with the last poll; likewise a call reported as a success
\* has a statement that succeeded, even when a cancellation was under way.
TerminalRecordsAreTrue ==
    \A c \in Calls :
        /\ record[c] \in Terminal => stmt[c] = record[c]
        /\ outcome[c] = "success" => stmt[c] = "SUCCEEDED"

\* Every call of the tool ends: with its loop and its SDK threads running, a
\* statement that never finishes is cut off by the deadline or the timeout.
CallsEnd == \A c \in Calls : task[c].pc \in Waiting ~> At(c, "done")

\* Every statement whose id a call learnt stops, even if the query by itself
\* would run for ever and the SDK fails other calls, unless the SDK fails this one
\* or it is cancelled from outside.
KnownStatementsStop ==
    \A c \in Sound : task[c].known ~> stmt[c] \in Terminal \/ task[c].cancels > 0

\* What shows of a call through the promise of the tool.
Phase == [c \in Calls |-> CASE At(c, "idle") -> "idle"
                             [] At(c, "done") -> "over"
                             [] OTHER         -> "open"]
Known == [c \in Calls |-> task[c].known]
Mute  == [c \in Calls |-> task[c].reply = "BLANK"]
OnWay == [c \in Calls |-> {pc \in CancelPcs : InPool(<<c, pc>>)}]

\* The tool keeps its promise: behind the loop, the pool, the deadline and the
\* cancellations there is one true answer per call, no statement is cancelled
\* but by the call that knows it, and no request to cancel is lost without a
\* trace.  (execute_sql_safe, _execute_with_cancellation.)
Promise == INSTANCE ToolCall WITH
    phase <- Phase, known <- Known, mute <- Mute, onWay <- OnWay, request <- cancelReq
ImplementsToolCall == Promise!Spec

-----------------------------------------------------------------------------
(* What the invariants rest on.                                            *)

\* From the first poll on the statement's id is known and it was last seen
\* running; before that neither holds.
PhaseInv(c) ==
    /\ task[c].pc \in {"idle", "resolving", "submitting"} => ~task[c].known
    /\ task[c].pc \in Waiting \ {"resolving", "submitting"} =>
          task[c].known /\ task[c].seen = "RUNNING"
    /\ task[c].seen \in {"none", "RUNNING"}
    /\ task[c].known => stmt[c] # "none"

\* What a job can bring back; a terminal state is final.
ReplyInv(c) ==
    LET r == task[c].reply IN
    /\ At(c, "submitting") =>
          \/ r \in {"pending", "error"}
          \/ r \in {"RUNNING", "NO_ID", "BLANK"} \cup Terminal /\ stmt[c] # "none"
    /\ task[c].pc \in {"polling", "refetching"} =>
          r \in {"pending", "error", "RUNNING", "BLANK"} \cup Terminal
    /\ r \in Terminal => stmt[c] = r

\* A call that waits for a job waits for one that is queued or running, and
\* jobs that cancel are about a statement whose id is known.
PoolInv(c) ==
    /\ task[c].pc \in JobPcs /\ task[c].reply = "pending" => InPool(<<c, task[c].pc>>)
    /\ \A pc \in CancelPcs : InPool(<<c, pc>>) => task[c].known

\* A request to cancel that was answered has been carried out or refused; the
\* refetch comes after the answer.
CancelInv(c) ==
    /\ cancelReq[c] = "sent" => stmt[c] \notin {"none", "RUNNING"}
    /\ task[c].pc \in CancelPcs /\ task[c].reply # "pending" => cancelReq[c] \in {"sent", "refused"}
    /\ At(c, "refetching") => cancelReq[c] \in {"sent", "refused"}

\* While no SDK call of c fails, its abort path is entered by a cancellation, and a
\* request to cancel is dropped by a second one, which is not the guard's.
FaultFreeInv(c) ==
    /\ c \notin OddReplies => task[c].reply # "BLANK"
    /\ c \notin SdkFaults =>
          /\ task[c].reply # "error" /\ cancelReq[c] # "refused"
          /\ At(c, "aborting") => task[c].timer = "fired" \/ task[c].cancels > 0
          /\ cancelReq[c] = "dropped" => task[c].cancels > 0

IInv ==
    /\ TypeOK
    /\ \A c \in Calls :
          PhaseInv(c) /\ ReplyInv(c) /\ PoolInv(c) /\ CancelInv(c) /\ FaultFreeInv(c)
    /\ GhostsAreAccounted /\ TerminalRecordsAreTrue

\* A request to cancel is one job, and its call is where it was made or beyond;
\* once answered it has left the pool.
Once(job) ==
    /\ job \in running => ~Contains(queue, job)
    /\ \A i, j \in 1..Len(queue) : queue[i] = job /\ queue[j] = job => i = j

RequestInv(c) ==
    /\ At(c, "idle") => task[c].reply = "pending" /\ \A pc \in JobPcs : ~InPool(<<c, pc>>)
    /\ InPool(<<c, "expiring">>) => task[c].pc \in {"expiring", "aborting", "done"}
    /\ InPool(<<c, "aborting">>) => task[c].pc \in {"aborting", "done"}
    /\ \A pc \in CancelPcs :
          /\ Once(<<c, pc>>)
          /\ At(c, pc) => task[c].reply \in {"pending", "ok"}
          /\ At(c, pc) /\ task[c].reply = "ok" => ~InPool(<<c, pc>>)

RequestsInv == \A c \in Calls : RequestInv(c)

=============================================================================
