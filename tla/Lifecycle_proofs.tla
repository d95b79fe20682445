--------------------------- MODULE Lifecycle_proofs ---------------------------
(***************************************************************************)
(* Proofs about shutdown, for every number of callbacks, whichever of them *)
(* ignore cancellation, every grace period and callback timeout, and any   *)
(* number of calls and signals.                                            *)
(***************************************************************************)
EXTENDS Lifecycle, TLAPS

LEMMA InitIInv == Init => IInv
<1> SUFFICES ASSUME Init PROVE IInv
  OBVIOUS
<1>1. TypeOK
  <2>1. status \in [Callbacks -> {"pending"}]
    BY DEF Init
  <2>2. NCallbacks \in Nat /\ cur = 0 /\ hits = {}
    BY CallbacksAssumption DEF Init
  <2>3. /\ graceLeft \in 0..ShutdownGrace /\ cbLeft \in 0..CleanupTimeout
        /\ signals \in 0..MaxSignals /\ calls \in 0..MaxCalls
        /\ cur \in 0..NCallbacks /\ spent \in Nat /\ closes \in 0..1
    BY <2>2, TimesAssumption, BoundsAssumption DEF Init
  <2>4. status \in [Callbacks -> {"pending", "late", "resisting", "finished", "raised",
                                  "timedout", "swallowed", "cancelled"}]
    BY <2>1
  <2> QED
    BY <2>2, <2>3, <2>4 DEF Init, TypeOK
<1>2. HandlerInv /\ LoopInv
  BY DEF Init, HandlerInv, LoopInv
<1>3. TimeInv
  BY TimesAssumption DEF Init, TimeInv, Running
<1> QED
  BY <1>1, <1>2, <1>3 DEF IInv

-----------------------------------------------------------------------------
(* Steps that leave the cleanup alone.                                     *)

\* The loop over the callbacks and its clock are not touched, and the phase of
\* the server task does not change.
LEMMA CleanupAlone ==
    ASSUME LoopInv, TimeInv, UNCHANGED <<server, cur, status, cbLeft, spent, hits>>
    PROVE  LoopInv' /\ TimeInv'
BY DEF LoopInv, TimeInv, Hit, Running

LEMMA OnSignalIInv ==
    ASSUME IInv, OnSignal
    PROVE  IInv'
<1> USE DEF OnSignal, IInv, control, cleanup, history
<1>1. TypeOK'
  <2>1. signals' \in 0..MaxSignals /\ closes' \in 0..1
    BY BoundsAssumption DEF TypeOK, HandlerInv
  <2> QED
    BY <2>1 DEF TypeOK
<1>2. HandlerInv'
  BY DEF HandlerInv, TypeOK
<1>3. LoopInv' /\ TimeInv'
  BY CleanupAlone
<1> QED
  BY <1>1, <1>2, <1>3

LEMMA AroundIInv ==
    ASSUME IInv, ClientDisconnects \/ CallStarts \/ CallEnds
    PROVE  IInv'
<1> USE DEF ClientDisconnects, CallStarts, CallEnds, IInv, control, handler, channel,
            cleanup, history
<1>1. TypeOK'
  BY BoundsAssumption DEF TypeOK
<1>2. HandlerInv'
  BY DEF HandlerInv, TypeOK
<1>3. LoopInv' /\ TimeInv'
  BY CleanupAlone
<1> QED
  BY <1>1, <1>2, <1>3

LEMMA ServerDoneIInv ==
    ASSUME IInv, ServerDone
    PROVE  IInv'
<1> USE DEF ServerDone, IInv, handler, channel, cleanup, history
<1>1. TypeOK'
  BY DEF TypeOK
<1>2. HandlerInv'
  BY DEF HandlerInv
<1>3. LoopInv' /\ TimeInv'
  BY CleanupAlone
<1> QED
  BY <1>1, <1>2, <1>3

LEMMA ReaderReturnsIInv ==
    ASSUME IInv, ReaderReturns
    PROVE  IInv'
<1> USE DEF ReaderReturns, IInv, control, handler, cleanup, history
<1>1. TypeOK'
  BY DEF TypeOK
<1>2. HandlerInv'
  BY DEF HandlerInv, TypeOK
<1>3. LoopInv'
  BY DEF LoopInv, Hit
<1>4. TimeInv'
  BY DEF TimeInv, Running
<1> QED
  BY <1>1, <1>2, <1>3, <1>4

LEMMA ServerEndsIInv ==
    ASSUME IInv, ServerEnds
    PROVE  IInv'
<1> USE DEF ServerEnds, IInv, control, handler, channel, cleanup, history
<1>1. TypeOK'
  BY DEF TypeOK
<1>2. HandlerInv'
  BY DEF HandlerInv
<1>3. LoopInv'
  BY DEF LoopInv, Hit
<1>4. TimeInv'
  BY DEF TimeInv, Running
<1> QED
  BY <1>1, <1>2, <1>3, <1>4

-----------------------------------------------------------------------------
(* Steps of the cleanup.                                                   *)

\* The time for one more callback.
LEMMA OneMore == \A n \in Nat : CleanupTimeout * (n + 1) = CleanupTimeout * n + CleanupTimeout
BY TimesAssumption

\* Going on to the next callback, or leaving the loop behind the last.
LEMMA AwaitNext ==
    ASSUME TypeOK, TimeInv, Await(cur + 1), spent' = spent,
           \A c \in Callbacks : c <= cur => status'[c] # "pending",
           \A c \in Callbacks : c > cur => status'[c] = "pending"
    PROVE  /\ cur' \in 0..NCallbacks /\ cbLeft' \in 0..CleanupTimeout
           /\ server' \in {"cleanup", "joining"}
           /\ LoopInv' /\ TimeInv'
<1>1. /\ cur \in Nat /\ cur <= NCallbacks /\ NCallbacks \in Nat /\ spent \in Nat
      /\ CleanupTimeout \in Nat /\ cbLeft \in 0..CleanupTimeout
  BY CallbacksAssumption, TimesAssumption DEF TypeOK
<1>2. spent <= CleanupTimeout * cur
  <2>1. CleanupTimeout * cur \in Nat
    BY <1>1
  <2> QED
    BY <1>1, <2>1 DEF TimeInv
<1>3. CASE cur + 1 <= NCallbacks
  <2>1. cur' = cur + 1 /\ cbLeft' = CleanupTimeout /\ server' = "cleanup"
    BY <1>3 DEF Await
  <2>2. cur' \in Callbacks /\ status'[cur'] = "pending"
    BY <1>1, <1>3, <2>1 DEF Callbacks
  <2>3. LoopInv'
    BY <1>1, <2>1, <2>2 DEF LoopInv, Callbacks
  <2>4. TimeInv'
    <3>1. CleanupTimeout * cur' = CleanupTimeout * cur + CleanupTimeout
      BY <1>1, <2>1, OneMore
    <3>2. CleanupTimeout * cur \in Nat /\ CleanupTimeout * cur' \in Nat
      BY <1>1, <2>1
    <3> QED
      BY <1>1, <1>2, <2>1, <2>2, <3>1, <3>2 DEF TimeInv, Running
  <2> QED
    BY <1>1, <2>1, <2>2, <2>3, <2>4 DEF Callbacks
<1>4. CASE ~(cur + 1 <= NCallbacks)
  <2>1. server' = "joining" /\ cur' = cur /\ cbLeft' = cbLeft
    BY <1>4 DEF Await
  <2>2. \A c \in Callbacks : status'[c] # "pending"
    BY <1>1, <1>4 DEF Callbacks
  <2>3. LoopInv'
    BY <2>1, <2>2 DEF LoopInv
  <2>4. TimeInv'
    <3>1. CleanupTimeout * cur \in Nat
      BY <1>1
    <3> QED
      BY <1>1, <1>2, <2>1, <3>1 DEF TimeInv, Running
  <2> QED
    BY <1>1, <2>1, <2>3, <2>4
<1> QED
  BY <1>3, <1>4

\* Leaving the loop because of a hit.
LEMMA GiveInLeaves ==
    ASSUME TypeOK, TimeInv, GiveIn, Hit', spent' = spent
    PROVE  /\ UNCHANGED <<cur, cbLeft>> /\ server' = "joining"
           /\ LoopInv' /\ TimeInv'
<1>1. UNCHANGED <<cur, cbLeft>> /\ server' = "joining"
  BY DEF GiveIn
<1>2. LoopInv'
  BY <1>1 DEF LoopInv
<1>3. TimeInv'
  <2>1. CleanupTimeout \in Nat /\ cur \in Nat /\ cbLeft \in Nat /\ spent \in Nat
    BY TimesAssumption, CallbacksAssumption DEF TypeOK
  <2>2. CleanupTimeout * cur \in Nat
    BY <2>1
  <2> QED
    BY <1>1, <2>1, <2>2 DEF TimeInv, Running
<1> QED
  BY <1>1, <1>2, <1>3

\* The outcome of a callback is one of those TypeOK names.
LEMMA SettleType ==
    ASSUME TypeOK, cur \in Callbacks,
           NEW how \in {"pending", "late", "resisting", "finished", "raised", "timedout",
                        "swallowed", "cancelled"},
           Settle(how)
    PROVE  /\ status' \in [Callbacks -> {"pending", "late", "resisting", "finished", "raised",
                                         "timedout", "swallowed", "cancelled"}]
           /\ status'[cur] = how
           /\ \A c \in Callbacks : c # cur => status'[c] = status[c]
BY DEF TypeOK, Settle

LEMMA BeginCleanupIInv ==
    ASSUME IInv, BeginCleanup
    PROVE  IInv'
<1>1. /\ UNCHANGED <<main, graceLeft, event, signals, closes, stdin, reader, calls, status,
                     hits, spent, overran>>
      /\ shuttingDown' = TRUE
  BY DEF BeginCleanup, control, handler, channel, history
<1>2. cur = 0 /\ \A c \in Callbacks : status[c] = "pending"
  BY DEF BeginCleanup, IInv, LoopInv
<1>3. Await(cur + 1)
  BY <1>2 DEF BeginCleanup
<1>4. /\ cur' \in 0..NCallbacks /\ cbLeft' \in 0..CleanupTimeout
      /\ server' \in {"cleanup", "joining"} /\ LoopInv' /\ TimeInv'
  <2>1. \A c \in Callbacks : ~(c <= cur) /\ status'[c] = "pending"
    BY <1>1, <1>2 DEF Callbacks
  <2> QED
    BY <1>1, <1>3, <2>1, AwaitNext DEF IInv
<1>5. TypeOK'
  BY <1>1, <1>4 DEF IInv, TypeOK
<1>6. HandlerInv'
  BY <1>1, <1>4 DEF BeginCleanup, IInv, HandlerInv
<1> QED
  BY <1>4, <1>5, <1>6 DEF IInv

\* A callback of which status says how it ended is followed by the next.
LEMMA SettleAndAwait ==
    ASSUME IInv, server = "cleanup",
           NEW how \in {"finished", "raised", "timedout", "swallowed"},
           Settle(how), Await(cur + 1),
           UNCHANGED <<control, handler, channel, shuttingDown, calls, hits, history>>
    PROVE  IInv'
<1>1. UNCHANGED <<main, graceLeft, event, signals, closes, stdin, reader, calls, hits, spent,
                  overran, shuttingDown>>
  BY DEF control, handler, channel, history
<1>2. cur \in Callbacks
  BY DEF IInv, LoopInv
<1>3. /\ status' \in [Callbacks -> {"pending", "late", "resisting", "finished", "raised",
                                    "timedout", "swallowed", "cancelled"}]
      /\ status'[cur] = how
      /\ \A c \in Callbacks : c # cur => status'[c] = status[c]
  BY <1>2, SettleType DEF IInv
<1>4. /\ \A c \in Callbacks : c <= cur => status'[c] # "pending"
      /\ \A c \in Callbacks : c > cur => status'[c] = "pending"
  BY <1>2, <1>3 DEF IInv, LoopInv, Callbacks
<1>5. /\ cur' \in 0..NCallbacks /\ cbLeft' \in 0..CleanupTimeout
      /\ server' \in {"cleanup", "joining"} /\ LoopInv' /\ TimeInv'
  BY <1>1, <1>4, AwaitNext DEF IInv
<1>6. TypeOK'
  BY <1>1, <1>3, <1>5 DEF IInv, TypeOK
<1>7. HandlerInv'
  BY <1>1, <1>5 DEF IInv, HandlerInv
<1> QED
  BY <1>5, <1>6, <1>7 DEF IInv

LEMMA CallbackEndsIInv ==
    ASSUME IInv, CallbackEnds
    PROVE  IInv'
<1>1. PICK how \in {"finished", "raised", "swallowed"} : Settle(how)
  BY DEF CallbackEnds
<1>2. server = "cleanup"
  BY DEF CallbackEnds, Running, HoldsOn
<1> QED
  BY <1>1, <1>2, SettleAndAwait DEF CallbackEnds

\* A callback goes on after its cancellation.
LEMMA SettleAndHold ==
    ASSUME IInv, server = "cleanup",
           NEW how \in {"late", "resisting"}, how = "resisting" => Hit',
           Settle(how), UNCHANGED <<server, cur, cbLeft, spent>>
    PROVE  /\ status' \in [Callbacks -> {"pending", "late", "resisting", "finished", "raised",
                                         "timedout", "swallowed", "cancelled"}]
           /\ LoopInv' /\ TimeInv'
<1>1. cur \in Callbacks
  BY DEF IInv, LoopInv
<1>2. /\ status' \in [Callbacks -> {"pending", "late", "resisting", "finished", "raised",
                                    "timedout", "swallowed", "cancelled"}]
      /\ status'[cur] = how
      /\ \A c \in Callbacks : c # cur => status'[c] = status[c]
  BY <1>1, SettleType DEF IInv
<1>3. LoopInv'
  BY <1>1, <1>2 DEF IInv, LoopInv, Callbacks
<1>4. TimeInv'
  <2>1. CleanupTimeout \in Nat /\ cur \in Nat /\ cbLeft \in Nat /\ spent \in Nat
    BY TimesAssumption, CallbacksAssumption DEF IInv, TypeOK
  <2>2. CleanupTimeout * cur \in Nat
    BY <2>1
  <2> QED
    BY <1>2, <2>1, <2>2 DEF IInv, TimeInv, Running
<1> QED
  BY <1>2, <1>3, <1>4

LEMMA CallbackTimesOutIInv ==
    ASSUME IInv, CallbackTimesOut
    PROVE  IInv'
<1>1. server = "cleanup"
  BY DEF CallbackTimesOut, Running
<1>2. CASE Settle("timedout") /\ Await(cur + 1)
  BY <1>1, <1>2, SettleAndAwait DEF CallbackTimesOut
<1>3. CASE Settle("late") /\ UNCHANGED <<server, cur, cbLeft>>
  <2>1. UNCHANGED <<main, graceLeft, event, signals, closes, stdin, reader, calls, hits, spent,
                    overran, shuttingDown>>
    BY DEF CallbackTimesOut, control, handler, channel, history
  <2>2. /\ status' \in [Callbacks -> {"pending", "late", "resisting", "finished", "raised",
                                      "timedout", "swallowed", "cancelled"}]
        /\ LoopInv' /\ TimeInv'
    BY <1>1, <1>3, <2>1, SettleAndHold
  <2>3. TypeOK'
    BY <1>3, <2>1, <2>2 DEF IInv, TypeOK
  <2>4. HandlerInv'
    BY <1>3, <2>1 DEF IInv, HandlerInv
  <2> QED
    BY <2>2, <2>3, <2>4 DEF IInv
<1> QED
  BY <1>2, <1>3 DEF CallbackTimesOut

LEMMA ResistingGivesInIInv ==
    ASSUME IInv, ResistingGivesIn
    PROVE  IInv'
<1>1. UNCHANGED <<main, graceLeft, event, signals, closes, stdin, reader, calls, hits, spent,
                  overran, shuttingDown>>
  BY DEF ResistingGivesIn, control, handler, channel, history
<1>2. server = "cleanup" /\ cur \in Callbacks /\ Hit /\ Settle("cancelled")
  BY DEF ResistingGivesIn, HoldsOn, GiveIn, IInv, LoopInv
<1>3. /\ UNCHANGED <<cur, cbLeft>> /\ server' = "joining"
      /\ LoopInv' /\ TimeInv'
  BY <1>1, <1>2, GiveInLeaves DEF ResistingGivesIn, IInv, Hit
<1>4. TypeOK'
  BY <1>1, <1>2, <1>3, SettleType DEF IInv, TypeOK
<1>5. HandlerInv'
  BY <1>1, <1>2, <1>3 DEF IInv, HandlerInv
<1> QED
  BY <1>3, <1>4, <1>5 DEF IInv

-----------------------------------------------------------------------------
(* Cancellations of the server task, and time.                             *)

\* What a cancellation does to the cleanup, whoever sends it.
LEMMA CancelServerKeeps ==
    ASSUME IInv, NEW by \in {"signal", "grace"}, CancelServer(by), spent' = spent
    PROVE  /\ server' \in {"leaving", "cleanup", "joining", "ended"}
           /\ UNCHANGED <<cur, cbLeft>>
           /\ hits' = hits \cup {<<by, server>>}
           /\ hits' \subseteq {"signal", "grace"} \X
                               {"serving", "leaving", "cleanup", "joining", "ended"}
           /\ status' \in [Callbacks -> {"pending", "late", "resisting", "finished", "raised",
                                         "timedout", "swallowed", "cancelled"}]
           /\ LoopInv' /\ TimeInv'
<1>1. /\ hits' = hits \cup {<<by, server>>}
      /\ server \in {"serving", "leaving", "cleanup", "joining", "ended"}
      /\ hits \subseteq {"signal", "grace"} \X {"serving", "leaving", "cleanup", "joining", "ended"}
  BY DEF CancelServer, IInv, TypeOK
<1>2. hits' \subseteq {"signal", "grace"} \X {"serving", "leaving", "cleanup", "joining", "ended"}
  BY <1>1
<1>3. Hit => Hit'
  BY <1>1 DEF Hit
<1>4. CASE server = "serving" /\ server' = "leaving" /\ UNCHANGED cleanup
  <2>1. UNCHANGED <<cur, status, cbLeft>>
    BY <1>4 DEF cleanup
  <2>2. LoopInv' /\ TimeInv'
    BY <1>4, <2>1 DEF IInv, LoopInv, TimeInv, Running
  <2> QED
    BY <1>1, <1>2, <1>4, <2>1, <2>2 DEF IInv, TypeOK
<1>5. CASE server = "cleanup" /\ GiveIn
  <2>1. Hit' /\ Settle("cancelled") /\ cur \in Callbacks
    BY <1>1, <1>5 DEF Hit, GiveIn, IInv, LoopInv
  <2>2. UNCHANGED <<cur, cbLeft>> /\ server' = "joining" /\ LoopInv' /\ TimeInv'
    BY <1>5, <2>1, GiveInLeaves DEF IInv
  <2> QED
    BY <1>1, <1>2, <2>1, <2>2, SettleType DEF IInv
<1>6. CASE server = "cleanup" /\ Settle("resisting") /\ UNCHANGED <<server, cur, cbLeft>>
  <2>1. Hit'
    BY <1>1, <1>6 DEF Hit
  <2> QED
    BY <1>1, <1>2, <1>6, <2>1, SettleAndHold
<1>7. CASE server \in {"leaving", "joining", "ended"} /\ UNCHANGED <<server, cleanup>>
  <2>1. UNCHANGED <<server, cur, status, cbLeft>>
    BY <1>7 DEF cleanup
  <2>2. LoopInv' /\ TimeInv'
    BY <1>3, <1>7, <2>1 DEF IInv, LoopInv, TimeInv, Running
  <2> QED
    BY <1>1, <1>2, <1>7, <2>1, <2>2 DEF IInv, TypeOK
<1> QED
  BY <1>4, <1>5, <1>6, <1>7 DEF CancelServer

LEMMA MainWakesIInv ==
    ASSUME IInv, MainWakes
    PROVE  IInv'
<1>1. UNCHANGED <<event, signals, closes, stdin, reader, calls, spent, overran, shuttingDown>>
  BY DEF MainWakes, handler, channel, history
<1>2. CASE event
  <2>1. main = "waiting" /\ main' = "grace" /\ graceLeft' = ShutdownGrace /\ CancelServer("signal")
    BY <1>2 DEF MainWakes
  <2>2. /\ server' \in {"leaving", "cleanup", "joining", "ended"}
        /\ UNCHANGED <<cur, cbLeft>>
        /\ hits' = hits \cup {<<"signal", server>>}
        /\ hits' \subseteq {"signal", "grace"} \X
                            {"serving", "leaving", "cleanup", "joining", "ended"}
        /\ status' \in [Callbacks -> {"pending", "late", "resisting", "finished", "raised",
                                      "timedout", "swallowed", "cancelled"}]
        /\ LoopInv' /\ TimeInv'
    BY <1>1, <2>1, CancelServerKeeps
  <2>3. TypeOK'
    <3>1. graceLeft' \in 0..ShutdownGrace
      BY <2>1, TimesAssumption
    <3> QED
      BY <1>1, <2>1, <2>2, <3>1 DEF IInv, TypeOK
  <2>4. HandlerInv'
    <3>1. <<"grace", "cleanup">> \notin hits
      BY <2>1 DEF IInv, HandlerInv
    <3>2. <<"grace", "cleanup">> \notin hits'
      BY <2>2, <3>1
    <3>3. <<"signal", "cleanup">> \in hits' => stdin = "eof"
      BY <2>1, <2>2 DEF IInv, HandlerInv
    <3> QED
      BY <1>1, <2>1, <3>2, <3>3 DEF IInv, HandlerInv
  <2> QED
    BY <2>2, <2>3, <2>4 DEF IInv
<1>3. CASE ~event
  <2>1. /\ main = "waiting" /\ main' = "done"
        /\ UNCHANGED <<graceLeft, server, cur, status, cbLeft, hits>>
    BY <1>3 DEF MainWakes, cleanup
  <2>2. LoopInv' /\ TimeInv'
    BY <1>1, <2>1, CleanupAlone DEF IInv
  <2>3. TypeOK'
    BY <1>1, <2>1 DEF IInv, TypeOK
  <2>4. HandlerInv'
    BY <1>1, <2>1 DEF IInv, HandlerInv
  <2> QED
    BY <2>2, <2>3, <2>4 DEF IInv
<1> QED
  BY <1>2, <1>3

LEMMA GraceExpiresIInv ==
    ASSUME IInv, GraceExpires
    PROVE  IInv'
<1>1. UNCHANGED <<graceLeft, event, signals, closes, stdin, reader, calls, spent, overran,
                  shuttingDown>>
  BY DEF GraceExpires, handler, channel, history
<1>2. main = "grace" /\ main' = "overdue" /\ graceLeft = 0 /\ CancelServer("grace")
  BY DEF GraceExpires
<1>3. /\ server' \in {"leaving", "cleanup", "joining", "ended"}
      /\ UNCHANGED <<cur, cbLeft>>
      /\ hits' = hits \cup {<<"grace", server>>}
      /\ hits' \subseteq {"signal", "grace"} \X
                          {"serving", "leaving", "cleanup", "joining", "ended"}
      /\ status' \in [Callbacks -> {"pending", "late", "resisting", "finished", "raised",
                                    "timedout", "swallowed", "cancelled"}]
      /\ LoopInv' /\ TimeInv'
  BY <1>1, <1>2, CancelServerKeeps
<1>4. TypeOK'
  BY <1>1, <1>2, <1>3 DEF IInv, TypeOK
<1>5. HandlerInv'
  <2>1. <<"signal", "cleanup">> \in hits' => <<"signal", "cleanup">> \in hits
    BY <1>3
  <2> QED
    BY <1>1, <1>2, <2>1 DEF IInv, HandlerInv
<1> QED
  BY <1>3, <1>4, <1>5 DEF IInv

LEMMA TickIInv ==
    ASSUME IInv, Tick
    PROVE  IInv'
<1>1. /\ UNCHANGED <<main, event, signals, closes, stdin, reader, shuttingDown, server, calls,
                     cur, status, hits>>
      /\ graceLeft' = IF main = "grace" THEN graceLeft - 1 ELSE graceLeft
      /\ cbLeft' = IF Running THEN cbLeft - 1 ELSE cbLeft
      /\ spent' = IF Running THEN spent + 1 ELSE spent
      /\ overran' = (overran \/ main = "overdue")
  BY DEF Tick, handler, channel
<1>2. (main = "grace" => graceLeft # 0) /\ (Running => cbLeft # 0)
  BY DEF Tick, Busy
<1>3. /\ graceLeft \in 0..ShutdownGrace /\ cbLeft \in 0..CleanupTimeout /\ spent \in Nat
      /\ cur \in Nat /\ ShutdownGrace \in Nat /\ CleanupTimeout \in Nat
  BY TimesAssumption, CallbacksAssumption DEF IInv, TypeOK
<1>4. /\ graceLeft' \in 0..ShutdownGrace /\ cbLeft' \in 0..CleanupTimeout
      /\ spent' \in Nat
  BY <1>1, <1>2, <1>3
<1>5. overran' \in BOOLEAN
  BY <1>1
<1>6. TypeOK'
  BY <1>1, <1>4, <1>5 DEF IInv, TypeOK
<1>7. HandlerInv'
  BY <1>1 DEF IInv, HandlerInv
<1>8. LoopInv'
  BY <1>1 DEF IInv, LoopInv, Hit
<1>9. TimeInv'
  <2>1. CleanupTimeout * cur \in Nat
    BY <1>3
  <2>2. Running' <=> Running
    BY <1>1 DEF Running
  <2> QED
    BY <1>1, <1>3, <2>1, <2>2 DEF IInv, TimeInv
<1> QED
  BY <1>6, <1>7, <1>8, <1>9 DEF IInv

-----------------------------------------------------------------------------

LEMMA NextIInv == IInv /\ [Next]_vars => IInv'
<1> SUFFICES ASSUME IInv, [Next]_vars PROVE IInv'
  OBVIOUS
<1>1. CASE OnSignal
  BY <1>1, OnSignalIInv
<1>2. CASE MainWakes
  BY <1>2, MainWakesIInv
<1>3. CASE GraceExpires
  BY <1>3, GraceExpiresIInv
<1>4. CASE ServerDone
  BY <1>4, ServerDoneIInv
<1>5. CASE BeginCleanup
  BY <1>5, BeginCleanupIInv
<1>6. CASE CallbackEnds
  BY <1>6, CallbackEndsIInv
<1>7. CASE CallbackTimesOut
  BY <1>7, CallbackTimesOutIInv
<1>8. CASE ResistingGivesIn
  BY <1>8, ResistingGivesInIInv
<1>9. CASE ServerEnds
  BY <1>9, ServerEndsIInv
<1>10. CASE ClientDisconnects \/ CallStarts \/ CallEnds
  BY <1>10, AroundIInv
<1>11. CASE ReaderReturns
  BY <1>11, ReaderReturnsIInv
<1>12. CASE Tick
  BY <1>12, TickIInv
<1>13. CASE UNCHANGED vars
  BY <1>13, CleanupAlone DEF vars, IInv, TypeOK, HandlerInv
<1> QED
  BY <1>1, <1>2, <1>3, <1>4, <1>5, <1>6, <1>7, <1>8, <1>9, <1>10, <1>11, <1>12, <1>13
     DEF Next, Exited

LEMMA Invariance == Spec => []IInv
BY InitIInv, NextIInv, PTL DEF Spec

\* Every variable keeps its type; in particular no timer is overrun, and os.close
\* is called on stdin at most once, however many signals arrive.
THEOREM TypeCorrect == Spec => []TypeOK
<1>1. IInv => TypeOK
  BY DEF IInv
<1> QED
  BY <1>1, Invariance, PTL

\* No callback of lifespan is skipped by what another one does: for any number
\* of callbacks, well-behaved or not, a skipped one was cut off by the end of the
\* grace period, or by a signal that followed the client's departure.
THEOREM SkipsCorrect == Spec => []SkipsAreExplained
<1>1. IInv => SkipsAreExplained
  BY DEF IInv, HandlerInv, LoopInv, Hit, SkipsAreExplained
<1> QED
  BY <1>1, Invariance, PTL

\* The callbacks together get CLEANUP_TIMEOUT_S for each that was awaited.
THEOREM CleanupCorrect == Spec => []CleanupIsCapped
<1>1. IInv => CleanupIsCapped
  <2> SUFFICES ASSUME IInv PROVE CleanupIsCapped
    OBVIOUS
  <2>1. /\ CleanupTimeout \in Nat /\ cur \in Nat /\ cbLeft \in 0..CleanupTimeout
        /\ spent \in Nat
    BY TimesAssumption, CallbacksAssumption DEF IInv, TypeOK
  <2>2. CleanupTimeout * cur \in Nat
    BY <2>1
  <2> QED
    BY <2>1, <2>2 DEF IInv, TimeInv, CleanupIsCapped
<1> QED
  BY <1>1, Invariance, PTL


-----------------------------------------------------------------------------
(* Drain mode.                                                             *)

LEMMA InitDrain == Init => DrainInv
BY DEF Init, DrainInv

\* Nothing takes drain mode back.
LEMMA DrainLasts == ~Ready /\ [Next]_vars => ~Ready'
<1> SUFFICES ASSUME shuttingDown, [Next]_vars PROVE shuttingDown'
  BY DEF Ready
<1>1. CASE OnSignal
  BY <1>1 DEF OnSignal
<1>2. CASE BeginCleanup
  BY <1>2 DEF BeginCleanup
<1>3. CASE MainWakes \/ GraceExpires \/ ServerDone
  BY <1>3 DEF MainWakes, GraceExpires, ServerDone
<1>4. CASE CallbackEnds \/ CallbackTimesOut \/ ResistingGivesIn \/ ServerEnds
  BY <1>4 DEF CallbackEnds, CallbackTimesOut, ResistingGivesIn, ServerEnds
<1>5. CASE ClientDisconnects \/ ReaderReturns \/ CallStarts \/ CallEnds \/ Tick
  BY <1>5 DEF ClientDisconnects, ReaderReturns, CallStarts, CallEnds, Tick
<1>6. CASE UNCHANGED vars
  BY <1>6 DEF vars
<1> QED
  BY <1>1, <1>2, <1>3, <1>4, <1>5, <1>6 DEF Next, Exited

\* A step that neither handles a signal nor begins the cleanup leaves the signal
\* event alone, and makes the server task clean up only if it did before.
LEMMA DrainStep == DrainInv /\ [Next]_vars => DrainInv'
<1> SUFFICES ASSUME DrainInv, [Next]_vars, event' \/ server' \in {"cleanup", "joining", "ended"}
             PROVE  ~Ready'
  BY DEF DrainInv, Ready
<1>1. CASE OnSignal
  BY <1>1, DrainLasts DEF OnSignal, DrainInv, Ready
<1>2. CASE BeginCleanup
  BY <1>2 DEF BeginCleanup, Ready
<1>3. CASE MainWakes \/ GraceExpires \/ ServerDone
  <2>1. event \/ server \in {"cleanup", "joining", "ended"}
    BY <1>3 DEF MainWakes, GraceExpires, ServerDone, CancelServer, GiveIn, handler
  <2> QED
    BY <2>1, DrainLasts DEF DrainInv
<1>4. CASE CallbackEnds \/ CallbackTimesOut \/ ResistingGivesIn \/ ServerEnds
  <2>1. server \in {"cleanup", "joining"}
    BY <1>4 DEF CallbackEnds, CallbackTimesOut, ResistingGivesIn, ServerEnds, Running, HoldsOn
  <2> QED
    BY <2>1, DrainLasts DEF DrainInv
<1>5. CASE ClientDisconnects \/ ReaderReturns \/ CallStarts \/ CallEnds \/ Tick
  <2>1. event \/ server \in {"cleanup", "joining", "ended"}
    BY <1>5 DEF ClientDisconnects, ReaderReturns, CallStarts, CallEnds, Tick, handler
  <2> QED
    BY <2>1, DrainLasts DEF DrainInv
<1>6. CASE UNCHANGED vars
  BY <1>6 DEF vars, DrainInv, Ready
<1> QED
  BY <1>1, <1>2, <1>3, <1>4, <1>5, <1>6 DEF Next, Exited

\* Drain mode is announced from the first signal or the first callback on, and
\* never withdrawn.
THEOREM DrainCorrect == Spec => DrainStaysAnnounced
<1>1. DrainInv => (event \/ server \in {"cleanup", "joining", "ended"} => ~Ready)
  BY DEF DrainInv
<1> QED
  BY <1>1, InitDrain, DrainStep, DrainLasts, PTL DEF Spec, DrainStaysAnnounced

-----------------------------------------------------------------------------
(* What makes a shutdown overrun its grace period.                         *)

LEMMA InitOverdue == Init => OverdueInv
BY DEF Init, OverdueInv

\* Settling the callback that is awaited undoes no excuse.
LEMMA SettleExcuse ==
    ASSUME IInv, OverdueInv, server = "cleanup", NEW how, Settle(how), hits' = hits
    PROVE  /\ Excused => Excused'
           /\ how = "swallowed" => Excused'
           /\ status'[cur] = how
<1>1. cur \in Callbacks /\ status[cur] # "swallowed"
  BY DEF IInv, LoopInv
<1>2. status' = [status EXCEPT ![cur] = how] /\ DOMAIN status = Callbacks
  BY DEF Settle, IInv, TypeOK
<1>3. \A c \in Callbacks : status'[c] = IF c = cur THEN how ELSE status[c]
  BY <1>2
<1> QED
  BY <1>1, <1>3 DEF Excused

\* The end of a callback that resisted is an excuse.
LEMMA CallbackEndsOverdue ==
    ASSUME IInv, OverdueInv, CallbackEnds
    PROVE  OverdueInv'
<1>1. server = "cleanup" /\ hits' = hits /\ main' = main /\ Await(cur + 1)
  BY DEF CallbackEnds, Running, HoldsOn, control
<1>2. PICK how \in {"swallowed", "finished", "raised"} :
         Settle(how) /\ (status[cur] = "resisting" => how = "swallowed")
  BY DEF CallbackEnds
<1>3. main = "overdue" => Excused'
  BY <1>1, <1>2, SettleExcuse DEF OverdueInv
<1>4. server' \in {"cleanup", "joining"}
  BY <1>1 DEF Await
<1> QED
  BY <1>1, <1>3, <1>4 DEF OverdueInv

LEMMA CallbackTimesOutOverdue ==
    ASSUME IInv, OverdueInv, CallbackTimesOut
    PROVE  OverdueInv'
<1>1. server = "cleanup" /\ hits' = hits /\ main' = main /\ status[cur] = "pending"
  BY DEF CallbackTimesOut, Running, control
<1>2. PICK how \in {"timedout", "late"} : Settle(how)
  BY DEF CallbackTimesOut
<1>3. main = "overdue" => Excused'
  BY <1>1, <1>2, SettleExcuse DEF OverdueInv
<1>4. server' \in {"cleanup", "joining"}
  BY <1>1 DEF CallbackTimesOut, Await
<1> QED
  BY <1>1, <1>3, <1>4 DEF OverdueInv

\* The cancellation at the end of the grace period finds the server task either
\* unwinding calls, and is the excuse, or in a callback, which gives in or resists.
LEMMA GraceExpiresOverdue ==
    ASSUME IInv, OverdueInv, GraceExpires
    PROVE  OverdueInv'
<1>1. /\ main = "grace" /\ main' = "overdue" /\ CancelServer("grace")
      /\ hits' = hits \cup {<<"grace", server>>} /\ server # "serving"
  BY DEF GraceExpires, CancelServer, OverdueInv
<1>2. CASE server = "cleanup" /\ GiveIn
  BY <1>1, <1>2 DEF GiveIn, OverdueInv
<1>3. CASE server = "cleanup" /\ Settle("resisting") /\ UNCHANGED <<server, cur, cbLeft>>
  <2>1. cur \in Callbacks /\ DOMAIN status = Callbacks
    BY <1>3 DEF IInv, LoopInv, TypeOK
  <2>2. status'[cur'] = "resisting"
    BY <1>3, <2>1 DEF Settle
  <2> QED
    BY <1>1, <1>3, <2>2 DEF OverdueInv
<1>4. CASE server \in {"leaving", "joining", "ended"} /\ UNCHANGED <<server, cleanup>>
  BY <1>1, <1>4 DEF OverdueInv, Excused
<1> QED
  BY <1>1, <1>2, <1>3, <1>4 DEF CancelServer

LEMMA MainWakesOverdue ==
    ASSUME IInv, OverdueInv, MainWakes
    PROVE  OverdueInv'
<1>1. CASE event
  <2>1. main' = "grace" /\ CancelServer("signal")
    BY <1>1 DEF MainWakes
  <2>2. server' # "serving"
    BY <2>1 DEF CancelServer, GiveIn, IInv, TypeOK
  <2> QED
    BY <2>1, <2>2 DEF OverdueInv
<1>2. CASE ~event
  BY <1>2 DEF MainWakes, OverdueInv
<1> QED
  BY <1>1, <1>2

\* Steps that leave main and the callbacks alone, and make the server task at
\* most leave what it is doing.
LEMMA PhaseOverdue ==
    ASSUME OverdueInv, UNCHANGED <<main, cur, status, hits>>,
           \/ server' = server
           \/ server' = "ended"
           \/ server = "serving" /\ server' = "leaving"
    PROVE  OverdueInv'
<1>1. Excused' <=> Excused
  BY DEF Excused
<1> QED
  BY <1>1 DEF OverdueInv

LEMMA NextOverdue == IInv /\ OverdueInv /\ [Next]_vars => OverdueInv'
<1> SUFFICES ASSUME IInv, OverdueInv, [Next]_vars PROVE OverdueInv'
  OBVIOUS
<1>2. CASE OnSignal
  BY <1>2, PhaseOverdue DEF OnSignal, control, cleanup
<1>3. CASE ServerDone
  BY <1>3 DEF ServerDone, OverdueInv
<1>4. CASE BeginCleanup
  <2>1. /\ server = "leaving" /\ UNCHANGED <<main, status, hits>>
        /\ server' \in {"cleanup", "joining"}
    BY <1>4 DEF BeginCleanup, Await, control
  <2> QED
    BY <2>1 DEF OverdueInv, Excused
<1>5. CASE ResistingGivesIn
  <2>1. main' = main /\ server = "cleanup" /\ server' = "joining"
    BY <1>5 DEF ResistingGivesIn, GiveIn, HoldsOn, control
  <2> QED
    BY <2>1 DEF OverdueInv
<1>6. CASE ServerEnds
  BY <1>6, PhaseOverdue DEF ServerEnds, control, cleanup
<1>7. CASE ClientDisconnects \/ CallStarts \/ CallEnds \/ Tick
  BY <1>7, PhaseOverdue DEF ClientDisconnects, CallStarts, CallEnds, Tick, control, cleanup
<1>8. CASE ReaderReturns
  BY <1>8, PhaseOverdue DEF ReaderReturns, control, cleanup
<1>9. CASE UNCHANGED vars
  BY <1>9, PhaseOverdue DEF vars
<1> QED
  BY <1>2, <1>3, <1>4, <1>5, <1>6, <1>7, <1>8, <1>9, MainWakesOverdue, GraceExpiresOverdue,
     CallbackEndsOverdue, CallbackTimesOutOverdue DEF Next, Exited

\* A tick after the grace period finds calls that were being unwound when it
\* ended, the reader thread stuck, or a callback that goes on after a cancellation.
LEMMA TickExcused ==
    ASSUME IInv, OverdueInv, Tick, main = "overdue"
    PROVE  Excused \/ reader = "blocked" \/ HoldsOn
<1>1. server # "ended" /\ (server = "joining" => reader # "returned")
  BY DEF Tick, Busy
<1>2. server \in {"leaving", "cleanup", "joining"} /\ reader \in {"blocked", "returned"}
  BY <1>1 DEF OverdueInv, IInv, TypeOK
<1> QED
  BY <1>1, <1>2 DEF OverdueInv, HoldsOn

\* Callbacks that merely hang, however many, do not make a shutdown take longer
\* than SHUTDOWN_GRACE_S.
THEOREM OverrunCorrect == Spec => OverrunHasACause
<1>1. ASSUME IInv, OverdueInv, [Next]_vars, overran', ~overran
      PROVE  \/ <<"grace", "leaving">> \in hits \/ reader = "blocked"
             \/ HoldsOn \/ (\E c \in Callbacks : status[c] = "swallowed")
  <2>1. CASE Tick
    <3>1. main = "overdue"
      BY <1>1, <2>1 DEF Tick
    <3> QED
      BY <1>1, <2>1, <3>1, TickExcused DEF Excused
  <2>2. CASE overran' = overran
    BY <1>1, <2>2
  <2>3. Tick \/ overran' = overran
    BY <1>1 DEF Next, Exited, vars, OnSignal, MainWakes, GraceExpires, ServerDone, BeginCleanup,
       CallbackEnds, CallbackTimesOut, ResistingGivesIn, ServerEnds, ClientDisconnects,
       ReaderReturns, CallStarts, CallEnds, history
  <2> QED
    BY <2>1, <2>2, <2>3
<1>2. IInv /\ OverdueInv /\ [Next]_vars =>
        [overran' /\ ~overran =>
           \/ <<"grace", "leaving">> \in hits \/ reader = "blocked"
           \/ HoldsOn \/ (\E c \in Callbacks : status[c] = "swallowed")]_vars
  BY <1>1
<1> QED
  BY <1>2, Invariance, InitOverdue, NextOverdue, PTL DEF Spec, OverrunHasACause
=============================================================================
