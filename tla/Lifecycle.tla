------------------------------ MODULE Lifecycle ------------------------------
(***************************************************************************)
(* Shutdown of the stdio server: the signal handler and the two waits of   *)
(* run_with_lifecycle, the server task it cancels, and the cleanup         *)
(* callbacks that task runs on its way out of lifespan.  Everything runs   *)
(* on one event loop; what is concurrent is the reader thread on stdin,    *)
(* the tool calls being unwound, the client and the signals.               *)
(*                                                                         *)
(* Time passes in ticks and only when the loop has nothing to do: a timer  *)
(* that is due fires before the next tick.                                 *)
(***************************************************************************)
EXTENDS Integers

CONSTANTS
    NCallbacks,      \* callbacks given to register_cleanup, in order 1, 2, ...
    Stubborn,        \* callbacks that may go on after a CancelledError
    ShutdownGrace,   \* SHUTDOWN_GRACE_S in ticks
    CleanupTimeout,  \* CLEANUP_TIMEOUT_S in ticks
    MaxCalls,        \* bound: tool calls at a time
    MaxSignals       \* bound: signals received

Callbacks == 1..NCallbacks

ASSUME TimesAssumption == ShutdownGrace \in Nat /\ CleanupTimeout \in Nat
ASSUME CallbacksAssumption == NCallbacks \in Nat /\ Stubborn \subseteq Callbacks
ASSUME BoundsAssumption == MaxCalls \in Nat /\ MaxSignals \in Nat

VARIABLES
    main,          \* run_with_lifecycle: in asyncio.wait, in wait_for within the
                   \* grace period or after it, or returned
    graceLeft,     \* ticks until wait_for times out
    event,         \* _shutdown_event.is_set()
    shuttingDown,  \* _shutting_down
    signals, closes,  \* signals received, os.close calls on stdin
    stdin,         \* open, closed by the handler, at its end (client gone)
    reader,        \* the thread that reads stdin
    server,        \* the server task: serving, leaving (unwinding the calls),
                   \* in the finally of lifespan, joining the reader, ended
    calls,         \* tool calls in flight
    cur,           \* the callback being awaited, 0 before the first
    status,        \* status[c]: what became of callback c
    cbLeft,        \* ticks until its wait_for times out
    spent,         \* history: ticks given to callbacks within their timeouts
    hits,          \* history: cancellations of the server task, <<origin, phase hit>>
    overran        \* history: time has passed after the grace period

vars == <<main, graceLeft, event, shuttingDown, signals, closes, stdin, reader,
          server, calls, cur, status, cbLeft, spent, hits, overran>>

control  == <<main, graceLeft>>
handler  == <<event, signals, closes>>
channel  == <<stdin, reader>>
cleanup  == <<cur, status, cbLeft>>
history  == <<spent, overran>>

Init ==
    /\ main = "waiting" /\ graceLeft = 0
    /\ event = FALSE /\ shuttingDown = FALSE
    /\ signals = 0 /\ closes = 0
    /\ stdin = "open" /\ reader = "blocked"
    /\ server = "serving" /\ calls = 0
    /\ cur = 0 /\ status = [c \in Callbacks |-> "pending"] /\ cbLeft = 0
    /\ spent = 0 /\ hits = {} /\ overran = FALSE

\* What the health tool answers: ready.
Ready == ~shuttingDown

-----------------------------------------------------------------------------
(* The finally of lifespan.                                                *)

\* Await the callback c, or leave lifespan after the last.
Await(c) ==
    IF c <= NCallbacks
    THEN cur' = c /\ cbLeft' = CleanupTimeout /\ server' = "cleanup"
    ELSE server' = "joining" /\ UNCHANGED <<cur, cbLeft>>

Running == server = "cleanup" /\ status[cur] = "pending"

\* It has been cancelled, by its own timeout (late) or with the server task
\* (resisting), and goes on all the same.
HoldsOn == server = "cleanup" /\ status[cur] \in {"late", "resisting"}

Settle(how) == status' = [status EXCEPT ![cur] = how]

\* The calls are unwound: the finally of lifespan begins.
BeginCleanup ==
    /\ server = "leaving" /\ calls = 0
    /\ shuttingDown' = TRUE
    /\ Await(1)
    /\ UNCHANGED <<control, handler, channel, calls, status, hits, history>>

\* Mutant: an exception of a callback is not swallowed.
CallbackEnds_escapes ==
    /\ Running \/ HoldsOn
    /\ \/ Settle("finished") /\ Await(cur + 1)
       \/ Settle("raised") /\ server' = "joining" /\ UNCHANGED <<cur, cbLeft>>
    /\ UNCHANGED <<control, handler, channel, shuttingDown, calls, hits, history>>

\* It returns or raises an Exception; the next one follows.
CallbackEnds ==
    /\ Running \/ HoldsOn
    /\ \E how \in IF status[cur] = "resisting" THEN {"swallowed"} ELSE {"finished", "raised"} :
          Settle(how)
    /\ Await(cur + 1)
    /\ UNCHANGED <<control, handler, channel, shuttingDown, calls, hits, history>>

\* wait_for cancels it after CLEANUP_TIMEOUT_S, and waits for it to comply.
CallbackTimesOut ==
    /\ Running /\ cbLeft = 0
    /\ \/ Settle("timedout") /\ Await(cur + 1)
       \/ /\ cur \in Stubborn
          /\ Settle("late")
          /\ UNCHANGED <<server, cur, cbLeft>>
    /\ UNCHANGED <<control, handler, channel, shuttingDown, calls, hits, history>>

\* The cancellation of the server task leaves the callback, and with it the
\* loop over the callbacks: CancelledError is not an Exception.
GiveIn == Settle("cancelled") /\ server' = "joining" /\ UNCHANGED <<cur, cbLeft>>

ResistingGivesIn ==
    /\ HoldsOn /\ status[cur] = "resisting"
    /\ GiveIn
    /\ UNCHANGED <<control, handler, channel, shuttingDown, calls, hits, history>>

\* server_task.cancel(), by main itself or through wait_for.
CancelServer(by) ==
    /\ hits' = hits \cup {<<by, server>>}
    /\ \/ server = "serving" /\ server' = "leaving" /\ UNCHANGED cleanup
       \/ server = "cleanup" /\ GiveIn
       \/ /\ server = "cleanup" /\ cur \in Stubborn
          /\ Settle("resisting")
          /\ UNCHANGED <<server, cur, cbLeft>>
       \/ server \in {"leaving", "joining", "ended"} /\ UNCHANGED <<server, cleanup>>

\* The server task ends when stdio_server has its reader thread back.
ServerEnds ==
    /\ server = "joining" /\ reader = "returned"
    /\ server' = "ended"
    /\ UNCHANGED <<control, handler, channel, shuttingDown, calls, cleanup, hits, history>>

-----------------------------------------------------------------------------
(* run_with_lifecycle.                                                     *)

\* Mutant: the handler leaves stdin open.
OnSignal_keepsStdin ==
    /\ signals < MaxSignals /\ main # "done"
    /\ signals' = signals + 1
    /\ event' = TRUE /\ shuttingDown' = TRUE
    /\ UNCHANGED <<control, closes, channel, server, calls, cleanup, hits, history>>

\* Mutant: a second signal is handled like the first.
OnSignal_again ==
    /\ signals < MaxSignals /\ main # "done"
    /\ signals' = signals + 1
    /\ event' = TRUE /\ shuttingDown' = TRUE
    /\ closes' = closes + 1
    /\ stdin' = IF stdin = "open" THEN "closed" ELSE stdin
    /\ UNCHANGED <<control, reader, server, calls, cleanup, hits, history>>

\* Mutant: drain mode is left to lifespan, as under HTTP.
OnSignal_unannounced ==
    /\ signals < MaxSignals /\ main # "done"
    /\ signals' = signals + 1
    /\ IF event
       THEN UNCHANGED <<event, closes, stdin>>
       ELSE /\ event' = TRUE
            /\ closes' = closes + 1
            /\ stdin' = IF stdin = "open" THEN "closed" ELSE stdin
    /\ UNCHANGED <<control, shuttingDown, reader, server, calls, cleanup, hits, history>>

\* _on_signal: the first signal counts.
OnSignal ==
    /\ signals < MaxSignals /\ main # "done"
    /\ signals' = signals + 1
    /\ IF event
       THEN UNCHANGED <<event, shuttingDown, closes, stdin>>
       ELSE /\ event' = TRUE /\ shuttingDown' = TRUE
            /\ closes' = closes + 1
            /\ stdin' = IF stdin = "open" THEN "closed" ELSE stdin
    /\ UNCHANGED <<control, reader, server, calls, cleanup, hits, history>>

\* asyncio.wait returns: on a signal the server task is cancelled and waited
\* for, otherwise the client is gone and there is nothing left to do.
MainWakes ==
    /\ main = "waiting" /\ (event \/ server = "ended")
    /\ IF event
       THEN main' = "grace" /\ graceLeft' = ShutdownGrace /\ CancelServer("signal")
       ELSE main' = "done" /\ UNCHANGED <<graceLeft, server, cleanup, hits>>
    /\ UNCHANGED <<handler, shuttingDown, channel, calls, history>>

\* Mutant: the grace period is over, but the server task is not cancelled.
GraceExpires_uncancelled ==
    /\ main = "grace" /\ graceLeft = 0 /\ server # "ended"
    /\ main' = "overdue"
    /\ UNCHANGED <<graceLeft, handler, shuttingDown, channel, server, calls, cleanup,
                   hits, history>>

\* wait_for cancels the server task again, and waits for it to comply.
GraceExpires ==
    /\ main = "grace" /\ graceLeft = 0 /\ server # "ended"
    /\ main' = "overdue"
    /\ CancelServer("grace")
    /\ UNCHANGED <<graceLeft, handler, shuttingDown, channel, calls, history>>

ServerDone ==
    /\ main \in {"grace", "overdue"} /\ server = "ended"
    /\ main' = "done"
    /\ UNCHANGED <<graceLeft, handler, shuttingDown, channel, server, calls, cleanup,
                   hits, history>>

-----------------------------------------------------------------------------
(* Around it: the client, the reader thread, the calls and the clock.      *)

ClientDisconnects ==
    /\ stdin = "open"
    /\ stdin' = "eof"
    /\ UNCHANGED <<control, handler, shuttingDown, reader, server, calls, cleanup,
                   hits, history>>

\* The reader thread is back, with the end of the input or because stdin was
\* closed under it; a session without input ends.  What the handler has queued
\* on the loop comes before what a thread reports to it.
ReaderReturns ==
    /\ reader = "blocked" /\ stdin # "open"
    /\ stdin = "closed" => main # "waiting"
    /\ reader' = "returned"
    /\ server' = IF server = "serving" THEN "leaving" ELSE server
    /\ UNCHANGED <<control, handler, shuttingDown, stdin, calls, cleanup, hits, history>>

CallStarts ==
    /\ server = "serving" /\ reader = "blocked" /\ calls < MaxCalls
    /\ calls' = calls + 1
    /\ UNCHANGED <<control, handler, shuttingDown, channel, server, cleanup, hits, history>>

\* A call ends by itself or, cancelled, some time later.
CallEnds ==
    /\ calls > 0
    /\ calls' = calls - 1
    /\ UNCHANGED <<control, handler, shuttingDown, channel, server, cleanup, hits, history>>

\* The loop has a step to make before it waits for the clock.
Busy ==
    \/ main = "waiting" /\ (event \/ server = "ended")
    \/ main = "grace" /\ graceLeft = 0
    \/ main \in {"grace", "overdue"} /\ server = "ended"
    \/ server = "leaving" /\ calls = 0
    \/ server = "joining" /\ reader = "returned"
    \/ Running /\ cbLeft = 0

Tick ==
    /\ ~Busy
    /\ main \in {"grace", "overdue"} \/ Running
    /\ graceLeft' = IF main = "grace" THEN graceLeft - 1 ELSE graceLeft
    /\ cbLeft' = IF Running THEN cbLeft - 1 ELSE cbLeft
    /\ spent' = IF Running THEN spent + 1 ELSE spent
    /\ overran' = (overran \/ main = "overdue")
    /\ UNCHANGED <<main, handler, shuttingDown, channel, server, calls, cur, status, hits>>

Exited == main = "done" /\ UNCHANGED vars

Next ==
    \/ OnSignal \/ MainWakes \/ GraceExpires \/ ServerDone
    \/ BeginCleanup \/ CallbackEnds \/ CallbackTimesOut \/ ResistingGivesIn \/ ServerEnds
    \/ ClientDisconnects \/ ReaderReturns \/ CallStarts \/ CallEnds
    \/ Tick \/ Exited

Spec == Init /\ [][Next]_vars

\* The event loop runs what is ready, the clock runs, and the reader thread
\* notices that stdin is gone.
LoopFairness ==
    /\ WF_vars(MainWakes) /\ WF_vars(GraceExpires) /\ WF_vars(ServerDone)
    /\ WF_vars(BeginCleanup) /\ WF_vars(CallbackTimesOut) /\ WF_vars(ServerEnds)
    /\ WF_vars(ReaderReturns) /\ WF_vars(Tick)

\* Calls come to an end (CallsEnd of SqlExecution), and a callback that holds
\* on after its cancellation does so too.  One that does not hold on may hang.
UnwindFairness ==
    /\ WF_vars(CallEnds)
    /\ WF_vars(HoldsOn /\ (CallbackEnds \/ ResistingGivesIn))

FairSpec == Spec /\ LoopFairness /\ UnwindFairness

-----------------------------------------------------------------------------

\* However many signals arrive, in whatever phase, stdin is closed once: its
\* descriptor may be another file's by then.  (_on_signal: "received %s during
\* shutdown; ignoring".)
TypeOK ==
    /\ main \in {"waiting", "grace", "overdue", "done"}
    /\ graceLeft \in 0..ShutdownGrace
    /\ event \in BOOLEAN /\ shuttingDown \in BOOLEAN
    /\ signals \in 0..MaxSignals /\ closes \in 0..1
    /\ stdin \in {"open", "closed", "eof"} /\ reader \in {"blocked", "returned"}
    /\ server \in {"serving", "leaving", "cleanup", "joining", "ended"}
    /\ calls \in 0..MaxCalls
    /\ cur \in 0..NCallbacks
    /\ status \in [Callbacks -> {"pending", "late", "resisting", "finished", "raised",
                                 "timedout", "swallowed", "cancelled"}]
    /\ cbLeft \in 0..CleanupTimeout
    /\ spent \in Nat
    /\ hits \subseteq {"signal", "grace"} \X {"serving", "leaving", "cleanup", "joining", "ended"}
    /\ overran \in BOOLEAN

\* From the first signal on health reports drain mode until the process is gone.
\* (_on_signal: "so the health tool can advertise drain mode immediately".)
DrainStaysAnnounced == [](event \/ server \in {"cleanup", "joining", "ended"} => []~Ready)

\* A callback that is never started has been cut off by a cancellation of the
\* server task: the grace period was over, or a signal found the cleanup already
\* under way because the client was gone.  Nothing another callback does, be it
\* raising or hanging, skips it.
SkipsAreExplained ==
    server \in {"joining", "ended"} /\ (\E c \in Callbacks : status[c] = "pending") =>
        \/ <<"grace", "cleanup">> \in hits /\ graceLeft = 0
        \/ <<"signal", "cleanup">> \in hits /\ stdin = "eof"

\* The callbacks awaited so far have had CLEANUP_TIMEOUT_S each and not more,
\* except for the time one held on after its cancellation.
\* (STRESS_FINDINGS.md: "each capped at MCP_CLEANUP_TIMEOUT_S".)
CleanupIsCapped == spent <= CleanupTimeout * cur

\* Shutdown takes longer than SHUTDOWN_GRACE_S only because calls were still being
\* unwound when the grace period was over (the cancellation at its end is spent
\* on them), a callback went on after a cancellation or the reader thread is
\* stuck; callbacks that merely hang do not delay it.
OverrunHasACause ==
    [][overran' /\ ~overran =>
          \/ <<"grace", "leaving">> \in hits \/ reader = "blocked"
          \/ HoldsOn \/ (\E c \in Callbacks : status[c] = "swallowed")]_vars

\* After a signal, or when the client is gone, the server comes down, even with
\* callbacks that hang and signals that keep arriving.
ShutdownEnds == (event \/ stdin = "eof") ~> main = "done"

-----------------------------------------------------------------------------
(* What the invariants rest on.                                            *)

\* A cancellation of the server task has hit the cleanup.
Hit == <<"signal", "cleanup">> \in hits \/ <<"grace", "cleanup">> \in hits

\* The handler acts once; while run_with_lifecycle is still waiting, only the
\* departure of the client makes the server task leave.
HandlerInv ==
    /\ closes = IF event THEN 1 ELSE 0
    /\ main = "waiting" /\ server # "serving" => stdin = "eof"
    /\ <<"signal", "cleanup">> \in hits => stdin = "eof"
    /\ <<"grace", "cleanup">> \in hits => main \in {"overdue", "done"} /\ graceLeft = 0

\* The callbacks up to the current one have been awaited, the rest not; the loop
\* is left behind the last one or because of a hit.
LoopInv ==
    /\ server \in {"serving", "leaving"} => cur = 0 /\ \A c \in Callbacks : status[c] = "pending"
    /\ server = "cleanup" =>
          /\ cur \in Callbacks /\ status[cur] \in {"pending", "late", "resisting"}
          /\ status[cur] = "resisting" => Hit
          /\ \A c \in Callbacks : c < cur => status[c] # "pending"
          /\ \A c \in Callbacks : c > cur => status[c] = "pending"
    /\ server \in {"joining", "ended"} => Hit \/ \A c \in Callbacks : status[c] # "pending"

\* The time a callback has left is not yet spent.
TimeInv == spent + (IF Running THEN cbLeft ELSE 0) <= CleanupTimeout * cur

IInv == TypeOK /\ HandlerInv /\ LoopInv /\ TimeInv

\* Drain mode is on from the handler's first run, and from the first callback.
DrainInv == event \/ server \in {"cleanup", "joining", "ended"} => ~Ready

\* The server task was still unwinding calls when the grace period ended, or a
\* callback has swallowed a cancellation.
Excused == <<"grace", "leaving">> \in hits \/ \E c \in Callbacks : status[c] = "swallowed"

\* Main waits only for a server task it has cancelled.  After the grace period
\* that task runs cleanup callbacks only if it is excused, or if the callback it
\* is in resists.
OverdueInv ==
    /\ main \in {"grace", "overdue"} => server # "serving"
    /\ main = "overdue" /\ server = "leaving" => Excused
    /\ main = "overdue" /\ server = "cleanup" => Excused \/ status[cur] = "resisting"

=============================================================================
