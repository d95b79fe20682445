----------------------------- MODULE Guard_proofs -----------------------------
(***************************************************************************)
(* Proofs about the guard around every tool, for every set of tasks, every *)
(* depth of tools calling tools and every number of calls, cancellations   *)
(* and prints that raise.                                                  *)
(***************************************************************************)
EXTENDS Guard, FiniteSetTheorems, SequenceTheorems, TLAPS

-----------------------------------------------------------------------------
(* Sequences of frames and of records.                                     *)

LEMMA SeqFacts ==
    ASSUME NEW S, NEW s \in Seq(S)
    PROVE  /\ Len(s) \in Nat /\ DOMAIN s = 1..Len(s) /\ \A i \in DOMAIN s : s[i] \in S
           /\ s = <<>> <=> Len(s) = 0
BY LenProperties, ElementOfSeq, EmptySeq

LEMMA Pushed ==
    ASSUME NEW S, NEW s \in Seq(S), NEW x \in S
    PROVE  /\ Append(s, x) \in Seq(S) /\ Append(s, x) # <<>>
           /\ Len(Append(s, x)) = Len(s) + 1 /\ DOMAIN Append(s, x) = 1..(Len(s) + 1)
           /\ \A i \in 1..Len(s) : Append(s, x)[i] = s[i]
           /\ Append(s, x)[Len(s) + 1] = x
BY AppendProperties, LenProperties

LEMMA Popped ==
    ASSUME NEW S, NEW s \in Seq(S), s # <<>>
    PROVE  /\ Len(s) \in Nat \ {0} /\ Last(s) = s[Len(s)] /\ Last(s) \in S
           /\ Front(s) \in Seq(S) /\ Len(Front(s)) = Len(s) - 1
           /\ DOMAIN Front(s) = 1..(Len(s) - 1)
           /\ \A i \in 1..(Len(s) - 1) : Front(s)[i] = s[i]
           /\ Front(s) = <<>> <=> Len(s) = 1
<1>1. Len(s) \in Nat \ {0} /\ \A i \in 1..Len(s) : s[i] \in S
  BY EmptySeq, ElementOfSeq
<1>2. Last(s) = s[Len(s)] /\ Last(s) \in S
  BY <1>1 DEF Last
<1>3. Front(s) \in Seq(S) /\ Len(Front(s)) = Len(s) - 1
      /\ \A i \in 1..(Len(s) - 1) : Front(s)[i] = s[i]
  <2>1. PICK n \in Nat : n = Len(s) - 1
    BY <1>1
  <2>2. \A i \in 1..n : s[i] \in S
    BY <1>1, <2>1
  <2>3. 1 \in Int /\ n \in Int
    OBVIOUS
  <2>4. /\ SubSeq(s, 1, n) \in Seq(S)
        /\ Len(SubSeq(s, 1, n)) = IF 1 <= n THEN n - 1 + 1 ELSE 0
        /\ \A i \in 1..(n - 1 + 1) : SubSeq(s, 1, n)[i] = s[1 + i - 1]
    BY <2>2, <2>3, SubSeqProperties
  <2>5. (IF 1 <= n THEN n - 1 + 1 ELSE 0) = n /\ n - 1 + 1 = n /\ \A i \in 1..n : 1 + i - 1 = i
    OBVIOUS
  <2>6. Len(SubSeq(s, 1, n)) = n /\ \A i \in 1..n : SubSeq(s, 1, n)[i] = s[i]
    BY <2>4, <2>5
  <2>7. Front(s) = SubSeq(s, 1, n)
    BY <2>1 DEF Front
  <2> QED
    BY <2>1, <2>4, <2>6, <2>7
<1> QED
  BY <1>1, <1>2, <1>3, SeqFacts

LEMMA Joined ==
    ASSUME NEW S, NEW s \in Seq(S), NEW r \in Seq(S)
    PROVE  /\ s \o r \in Seq(S)
           /\ DOMAIN (s \o r) = 1..(Len(s) + Len(r))
           /\ \A i \in 1..Len(s) : (s \o r)[i] = s[i]
           /\ \A i \in 1..Len(r) : (s \o r)[Len(s) + i] = r[i]
           /\ \A i \in 1..(Len(s) + Len(r)) : i \notin 1..Len(s) => i - Len(s) \in 1..Len(r)
<1>1. /\ Len(s) \in Nat /\ Len(r) \in Nat /\ DOMAIN s = 1..Len(s) /\ DOMAIN r = 1..Len(r)
  BY LenProperties
<1>2. /\ s \o r \in Seq(S) /\ Len(s \o r) = Len(s) + Len(r)
      /\ \A i \in 1..(Len(s) + Len(r)) :
            (s \o r)[i] = IF i <= Len(s) THEN s[i] ELSE r[i - Len(s)]
  BY ConcatProperties
<1>3. DOMAIN (s \o r) = 1..(Len(s) + Len(r))
  BY <1>2, LenProperties
<1>4. \A i \in 1..Len(s) : (s \o r)[i] = s[i]
  BY <1>1, <1>2
<1>5. \A i \in 1..Len(r) : (s \o r)[Len(s) + i] = r[i] /\ Len(s) + i \in 1..(Len(s) + Len(r))
  <2> SUFFICES ASSUME NEW i \in 1..Len(r)
               PROVE  (s \o r)[Len(s) + i] = r[i] /\ Len(s) + i \in 1..(Len(s) + Len(r))
    OBVIOUS
  <2>1. Len(s) + i \in 1..(Len(s) + Len(r)) /\ ~(Len(s) + i <= Len(s)) /\ (Len(s) + i) - Len(s) = i
    BY <1>1
  <2> QED
    BY <1>2, <2>1
<1>6. \A i \in 1..(Len(s) + Len(r)) : i \notin 1..Len(s) => i - Len(s) \in 1..Len(r)
  BY <1>1
<1> QED
  BY <1>1, <1>2, <1>3, <1>4, <1>5, <1>6

-----------------------------------------------------------------------------
(* Types, and the effects operations share.                                *)

LEMMA StackTypes ==
    ASSUME TypeOK, NEW t \in Tasks
    PROVE  /\ stack[t] \in Seq(Frame) /\ Len(stack[t]) \in Nat
           /\ DOMAIN stack[t] = 1..Len(stack[t]) /\ (stack[t] = <<>> <=> Len(stack[t]) = 0)
           /\ \A i \in DOMAIN stack[t] :
                /\ stack[t][i] \in Frame /\ stack[t][i].rid \in Rids
                /\ stack[t][i].timer \in {"armed", "fired"}
                /\ stack[t][i].saved \in Rids \cup {NoRid} /\ stack[t][i].before \in Nat
<1>1. stack[t] \in Seq(Frame)
  BY DEF TypeOK
<1>2. \A x \in Frame : /\ x.rid \in Rids /\ x.timer \in {"armed", "fired"}
                       /\ x.saved \in Rids \cup {NoRid} /\ x.before \in Nat
  BY BoundsAssumption DEF Frame
<1> QED
  BY <1>1, <1>2, SeqFacts

LEMMA TrailTypes ==
    ASSUME TypeOK, NEW t \in Tasks
    PROVE  /\ trail[t] \in Seq(Record) /\ Len(trail[t]) \in Nat
           /\ DOMAIN trail[t] = 1..Len(trail[t])
           /\ \A i \in DOMAIN trail[t] : trail[t][i] \in Record /\ trail[t][i].rid \in Rids \cup {NoRid}
<1>1. trail[t] \in Seq(Record)
  BY DEF TypeOK
<1>2. \A x \in Record : x.rid \in Rids \cup {NoRid}
  BY DEF Record
<1> QED
  BY <1>1, <1>2, SeqFacts

LEMMA Numbers ==
    /\ Rids \subseteq Nat /\ NoRid \notin Rids /\ NoRid \in Nat
    /\ MaxDepth \in Nat /\ MaxCalls \in Nat /\ MaxCancels \in Nat /\ MaxPrintFaults \in Nat
    /\ TypeOK => calls \in Nat /\ faults \in Nat /\ cancels \in Nat
<1>1. Rids \subseteq Nat /\ NoRid \notin Rids /\ NoRid \in Nat
  BY BoundsAssumption DEF Rids, NoRid
<1>2. TypeOK => calls \in Nat /\ faults \in Nat /\ cancels \in Nat
  <2>1. TypeOK => calls \in 0..MaxCalls /\ faults \in 0..MaxPrintFaults /\ cancels \in 0..MaxCancels
    BY DEF TypeOK
  <2>2. \A n \in Nat : 0..n \subseteq Nat
    OBVIOUS
  <2> QED
    BY <2>1, <2>2, BoundsAssumption
<1> QED
  BY <1>1, <1>2, BoundsAssumption

LEMMA RecordsDiffer ==
    /\ \A r, q, o : Start(r) # End(q, o) /\ Limit(r) # End(q, o) /\ Statement(r) # End(q, o)
    /\ \A r, q : Start(r) # Limit(q) /\ Start(r) # Statement(q)
    /\ \A r, q : Start(r) = Start(q) => r = q
    /\ \A r, q, o, p : End(r, o) = End(q, p) => r = q /\ o = p
    /\ \A r, o : /\ Start(r).rid = r /\ Limit(r).rid = r /\ Statement(r).rid = r
                 /\ End(r, o).rid = r /\ Start(r).event = "start" /\ Limit(r).event = "limit"
                 /\ Statement(r).event = "statement" /\ End(r, o).event = "end"
    /\ \A r \in Rids, o \in Outcomes : Start(r) \in Record /\ Limit(r) \in Record /\ End(r, o) \in Record
    /\ \A r \in Rids \cup {NoRid} : Statement(r) \in Record
<1> USE DEF Start, Limit, Statement, End
<1>1. /\ \A r, q, o : Start(r) # End(q, o) /\ Limit(r) # End(q, o) /\ Statement(r) # End(q, o)
      /\ \A r, q : Start(r) # Limit(q) /\ Start(r) # Statement(q)
  <2>1. \A r, o : /\ Start(r).event = "start" /\ Limit(r).event = "limit"
                  /\ Statement(r).event = "statement" /\ End(r, o).event = "end"
    OBVIOUS
  <2> HIDE DEF Start, Limit, Statement, End
  <2> QED
    BY <2>1
<1>2. \A r, q : Start(r) = Start(q) => r = q
  OBVIOUS
<1>3. \A r, q, o, p : End(r, o) = End(q, p) => r = q /\ o = p
  OBVIOUS
<1>4. \A r \in Rids, o \in Outcomes : Start(r) \in Record /\ Limit(r) \in Record /\ End(r, o) \in Record
  BY DEF Record
<1>5. \A r \in Rids \cup {NoRid} : Statement(r) \in Record
  BY DEF Record
<1> QED
  BY <1>1, <1>2, <1>3, <1>4, <1>5

\* What an operation emits, it adds to the trail of its own task.
LEMMA EmittedGrows ==
    ASSUME TypeOK, NEW t \in Tasks, NEW recs \in Seq(Record),
           trail' = [trail EXCEPT ![t] = @ \o recs]
    PROVE  /\ trail' \in [Tasks -> Seq(Record)]
           /\ \A u \in Tasks : u # t => trail'[u] = trail[u] /\ Emitted(u)' = Emitted(u)
           /\ trail'[t] = trail[t] \o recs
           /\ Emitted(t)' = Emitted(t) \cup Range(recs)
<1>1. trail[t] \in Seq(Record) /\ trail \in [Tasks -> Seq(Record)]
  BY DEF TypeOK
<1>2. trail[t] \o recs \in Seq(Record)
  BY <1>1, Joined
<1>3. /\ trail' \in [Tasks -> Seq(Record)] /\ trail'[t] = trail[t] \o recs
      /\ \A u \in Tasks : u # t => trail'[u] = trail[u]
  BY <1>1, <1>2
<1>4. Range(trail[t] \o recs) = Range(trail[t]) \cup Range(recs)
  BY <1>1, RangeConcatenation
<1> QED
  BY <1>3, <1>4 DEF Emitted

\* Synchronous tools hold the event loop.
LEMMA SyncsHold ==
    ASSUME TypeOK, StackInv
    PROVE  /\ IsFiniteSet(Syncs) /\ Cardinality(Syncs) \in 0..1
           /\ loop = NoTask => Cardinality(Syncs) = 0
<1>1. Syncs \subseteq {loop} /\ (loop = NoTask => Syncs = {})
  BY BoundsAssumption DEF Syncs, StackInv
<1>2. Syncs = {} \/ Syncs = {loop}
  BY <1>1
<1>3. /\ IsFiniteSet({}) /\ Cardinality({}) = 0
      /\ IsFiniteSet({loop}) /\ Cardinality({loop}) = 1
  BY FS_EmptySet, FS_Singleton
<1> QED
  BY <1>1, <1>2, <1>3

\* One after the other, two sequences of records nest if each does and all those of
\* the second may follow all those of the first.
LEMMA NestsJoined ==
    ASSUME NEW up, NEW s \in Seq(Record), NEW r \in Seq(Record), Nests(up, s), Nests(up, r),
           \A i \in DOMAIN s, j \in DOMAIN r : Follows(up, s[i], r[j])
    PROVE  Nests(up, s \o r)
<1> DEFINE c == s \o r
<1>1. /\ Len(s) \in Nat /\ Len(r) \in Nat /\ DOMAIN s = 1..Len(s) /\ DOMAIN r = 1..Len(r)
  BY LenProperties
<1>2. /\ DOMAIN c = 1..(Len(s) + Len(r))
      /\ \A i \in 1..Len(s) : c[i] = s[i]
      /\ \A i \in 1..Len(r) : c[Len(s) + i] = r[i]
      /\ \A i \in 1..(Len(s) + Len(r)) : i \notin 1..Len(s) => i - Len(s) \in 1..Len(r)
  BY Joined
<1> HIDE DEF c
<1> SUFFICES ASSUME NEW i \in 1..(Len(s) + Len(r)), NEW j \in 1..(Len(s) + Len(r)), i < j
             PROVE  Follows(up, c[i], c[j])
  BY <1>2 DEF Nests, c
<1>3. CASE i \in 1..Len(s) /\ j \in 1..Len(s)
  BY <1>1, <1>2, <1>3 DEF Nests
<1>4. CASE i \in 1..Len(s) /\ j \notin 1..Len(s)
  <2>1. j - Len(s) \in 1..Len(r) /\ Len(s) + (j - Len(s)) = j
    BY <1>1, <1>2, <1>4
  <2>2. c[j] = r[j - Len(s)] /\ c[i] = s[i]
    BY <1>2, <1>4, <2>1
  <2> QED
    BY <1>1, <1>4, <2>1, <2>2
<1>5. CASE i \notin 1..Len(s)
  <2>1. /\ i - Len(s) \in 1..Len(r) /\ Len(s) + (i - Len(s)) = i
        /\ j - Len(s) \in 1..Len(r) /\ Len(s) + (j - Len(s)) = j
        /\ i - Len(s) < j - Len(s)
    BY <1>1, <1>2, <1>5
  <2>2. c[i] = r[i - Len(s)] /\ c[j] = r[j - Len(s)]
    BY <1>2, <2>1
  <2> QED
    BY <1>1, <2>1, <2>2 DEF Nests
<1> QED
  BY <1>3, <1>4, <1>5

\* The sequences of records that operations emit.
LEMMA Emissions ==
    \A a, b, c :
        /\ DOMAIN <<>> = {} /\ DOMAIN <<a>> = {1} /\ DOMAIN <<a, b>> = {1, 2}
        /\ DOMAIN <<a, b, c>> = {1, 2, 3}
        /\ Range(<<>>) = {} /\ Range(<<a>>) = {a} /\ Range(<<a, b>>) = {a, b}
        /\ Range(<<a, b, c>>) = {a, b, c}
BY DEF Range

\* What an operation leaves alone of the frames on the stacks.
SameFrames ==
    \A t \in Tasks :
        /\ Len(stack'[t]) = Len(stack[t]) /\ DOMAIN stack'[t] = DOMAIN stack[t]
        /\ stack'[t] = <<>> <=> stack[t] = <<>>
        /\ \A i \in DOMAIN stack[t] :
              /\ stack'[t][i].rid = stack[t][i].rid /\ stack'[t][i].saved = stack[t][i].saved
              /\ stack'[t][i].before = stack[t][i].before
              /\ stack[t][i].timer = "fired" => stack'[t][i].timer = "fired"

\* The same tasks are in guarded calls, and those in synchronous tools hold the loop.
SameTasks ==
    \A t \in Tasks : /\ flow'[t] \in {"none", "sync"} <=> flow[t] \in {"none", "sync"}
                     /\ flow'[t] = "sync" => loop' = t

\* An operation that neither enters nor leaves a call and emits no record keeps
\* everything that is about calls and records.
LEMMA QuietIInv ==
    ASSUME IInv, SameFrames, struck \subseteq struck',
           UNCHANGED <<ctx, trail, metrics, faults, otel, span, calls, around>>,
           TypeOK', TimerInv', UnwindInv', UNCHANGED Gauge,
           SameTasks
    PROVE  IInv'
<1>1. \A t \in Tasks : Inside(t)' = Inside(t)
  BY DEF SameFrames, Inside
<1>2. \A t \in Tasks : Emitted(t)' = Emitted(t)
  BY DEF Emitted
<1>3. \A t \in Tasks, r \in Rids : HasEnd(t, r)' = HasEnd(t, r)
  BY <1>2 DEF HasEnd
<1>4. Live' = Live
  BY <1>1 DEF Live
<1>5. StackInv'
  BY DEF IInv, StackInv, SameFrames, SameTasks
<1>6. AroundInv'
  <2>1. \A t \in Tasks : \A i \in DOMAIN stack[t] : \A j \in 1..(i - 1) : j \in DOMAIN stack[t]
    BY StackTypes DEF IInv
  <2>2. \A t \in Tasks : \A i \in DOMAIN stack[t] : Below(t, i)' = Below(t, i)
    BY <2>1 DEF SameFrames, Below
  <2> QED
    BY <2>2 DEF IInv, AroundInv, SameFrames
<1>7. ContextInv'
  <2>1. \A t \in Tasks : \A i \in DOMAIN stack[t] : i # 1 => i - 1 \in DOMAIN stack[t]
    BY StackTypes DEF IInv
  <2> QED
    BY <2>1 DEF IInv, ContextInv, SameFrames
<1>8. ContextIsInnermost'
  <2>1. \A t \in Tasks : stack[t] # <<>> => Len(stack[t]) \in DOMAIN stack[t]
    BY StackTypes DEF IInv
  <2> QED
    BY <2>1 DEF IInv, ContextIsInnermost, SameFrames, Last
<1>9. TrailInv'
  BY <1>1, <1>2 DEF IInv, TrailInv, HasEnd
<1>10. RecordsNest'
  BY DEF IInv, RecordsNest
<1>11. UnmatchedStartsExplained'
  BY <1>2, <1>3, <1>4 DEF IInv, UnmatchedStartsExplained, SameFrames
<1>12. TimeoutsAreOutermost'
  BY <1>2 DEF IInv, TimeoutsAreOutermost
<1>13. SpanInv'
  BY <1>2, <1>3, <1>4 DEF IInv, SpanInv, SpansMatch
<1>14. CountInv'
  <2>1. Frames' = Frames
    BY DEF Frames, SameFrames
  <2>2. \A o \in Outcomes : Ended(o)' = Ended(o)
    BY <1>2 DEF Ended
  <2>3. Uncounted' = Uncounted
    BY <2>2 DEF Uncounted
  <2>4. MetricsAgree'
    BY <2>3 DEF IInv, CountInv, MetricsAgree, Total
  <2>5. InFlightExact'
    <3>1. IsFiniteSet(Syncs) /\ Cardinality(Syncs) \in Nat /\ Cardinality(Frames) \in Nat
      BY SyncsHold, FS_CardinalityType DEF IInv, CountInv
    <3>2. Syncs' \subseteq {loop'}
      BY DEF Syncs, SameTasks
    <3>3. Cardinality(Syncs') \in Nat
      <4>1. Syncs' = {} \/ Syncs' = {loop'}
        BY <3>2
      <4>2. Cardinality({}) = 0 /\ Cardinality({loop'}) = 1
        BY FS_EmptySet, FS_Singleton
      <4> QED
        BY <4>1, <4>2
    <3>4. inFlight \in Int /\ inFlight' \in Int
      <4>1. inFlight \in 0..(MaxCalls + 1) /\ inFlight' \in 0..(MaxCalls + 1)
        BY DEF IInv, TypeOK
      <4>2. \A n : 0..n \subseteq Int
        OBVIOUS
      <4> QED
        BY <4>1, <4>2
    <3> QED
      BY <2>1, <3>1, <3>3, <3>4 DEF IInv, CountInv, InFlightExact, Gauge
  <2> QED
    BY <2>1, <2>2, <2>4, <2>5 DEF IInv, CountInv
<1> QED
  BY <1>5, <1>6, <1>7, <1>8, <1>9, <1>10, <1>11, <1>12, <1>13, <1>14 DEF IInv

-----------------------------------------------------------------------------
(* Steps that neither enter nor leave a guarded call.                      *)

LEMMA Ints ==
    /\ TypeOK => /\ inFlight \in Int /\ faults \in Nat /\ cancels \in Nat /\ calls \in Nat
                 /\ faults <= MaxPrintFaults /\ cancels <= MaxCancels /\ calls <= MaxCalls
    /\ \A t \in Tasks : TypeOK => cancelling[t] \in Nat
<1>1. TypeOK => /\ inFlight \in 0..(MaxCalls + 1) /\ faults \in 0..MaxPrintFaults
                /\ cancels \in 0..MaxCancels /\ calls \in 0..MaxCalls
                /\ \A t \in Tasks : cancelling[t] \in 0..(MaxDepth + MaxCancels)
  BY DEF TypeOK
<1>2. \A n : \A x \in 0..n : x \in Int /\ x \in Nat /\ x <= n
  OBVIOUS
<1> QED
  BY <1>1, <1>2

\* The body awaits, goes on or raises.
LEMMA BodyIInv ==
    ASSUME IInv, NEW t \in Tasks, Await(t) \/ Resume(t) \/ Raise(t)
    PROVE  IInv'
<1>1. UNCHANGED <<stack, ctx, inFlight, otel, span, calls, around, struck, cancels,
                  cancelling, trail, metrics, faults>>
  BY DEF Await, Resume, Raise, BodyUnchanged, traces, ghosts
<1>2. /\ flow[t] \in {"body", "unwind", "await", "cleanup", "doomed"}
      /\ flow'[t] \in {"body", "unwind", "await", "cleanup", "doomed"}
      /\ flow' \in [Tasks -> Flows] /\ \A u \in Tasks : u # t => flow'[u] = flow[u]
      /\ exc' \in [Tasks -> {"none", "error", "cancelled"}]
      /\ \A u \in Tasks : u # t => exc'[u] = exc[u]
      /\ loop' \in Tasks \cup {NoTask}
  <2>1. /\ flow \in [Tasks -> Flows] /\ exc \in [Tasks -> {"none", "error", "cancelled"}]
        /\ loop \in Tasks \cup {NoTask}
    BY DEF IInv, TypeOK
  <2>2. CASE Await(t)
    BY <2>1, <2>2 DEF Await, Flows
  <2>3. CASE Resume(t)
    BY <2>1, <2>3 DEF Resume, Flows
  <2>4. CASE Raise(t)
    BY <2>1, <2>4 DEF Raise, Flows
  <2> QED
    BY <2>2, <2>3, <2>4
<1>3. /\ loop \in {t, NoTask}
  BY DEF Await, Resume, Raise
<1>4. \A u \in Tasks : flow[u] # "sync" /\ flow'[u] # "sync"
  <2>1. \A u \in Tasks : flow[u] # "sync"
    BY <1>2, <1>3, BoundsAssumption DEF IInv, StackInv
  <2> QED
    BY <1>2, <2>1
<1>5. Leaving(t)' <=> Leaving(t)
  <2>1. flow \in [Tasks -> Flows] /\ exc \in [Tasks -> {"none", "error", "cancelled"}]
    BY DEF IInv, TypeOK
  <2>2. CASE Await(t)
    BY <2>1, <2>2 DEF Await, Leaving
  <2>3. CASE Resume(t)
    BY <2>1, <2>3 DEF Resume, Leaving
  <2>4. CASE Raise(t)
    BY <2>1, <2>4 DEF Raise, Leaving
  <2> QED
    BY <2>2, <2>3, <2>4
<1>6. \A u \in Tasks : Leaving(u)' <=> Leaving(u)
  BY <1>2, <1>5 DEF Leaving
<1>7. UNCHANGED Gauge
  BY <1>1, <1>4 DEF Gauge, Syncs
<1>8. TypeOK'
  BY <1>1, <1>2 DEF IInv, TypeOK
<1>9. TimerInv'
  BY <1>1 DEF IInv, TimerInv, Inside
<1>10. UnwindInv'
  BY <1>1, <1>6 DEF IInv, UnwindInv
<1>11. SameFrames
  BY <1>1 DEF SameFrames
<1>12. SameTasks
  BY <1>2, <1>4 DEF SameTasks
<1> QED
  BY <1>1, <1>7, <1>8, <1>9, <1>10, <1>11, <1>12, QuietIInv

\* A synchronous tool begins or ends.
LEMMA SyncIInv ==
    ASSUME IInv, NEW t \in Tasks, CallSync(t) \/ SyncEnds(t)
    PROVE  IInv'
<1>1. UNCHANGED <<stack, ctx, exc, cancelling, trail, metrics, faults, otel, span, calls,
                  around, struck, cancels>>
  BY DEF CallSync, SyncEnds, traces, ghosts
<1>2. /\ flow \in [Tasks -> Flows] /\ loop \in Tasks \cup {NoTask}
      /\ inFlight \in Int /\ calls \in 0..MaxCalls
  BY Ints DEF IInv, TypeOK
<1>3. /\ flow'[t] \in {"none", "sync"} /\ flow[t] \in {"none", "sync"}
      /\ flow' \in [Tasks -> Flows] /\ \A u \in Tasks : u # t => flow'[u] = flow[u]
      /\ loop' \in Tasks \cup {NoTask} /\ loop \in {t, NoTask}
  BY <1>2 DEF CallSync, SyncEnds, Flows
<1>4. \A u \in Tasks : u # t => flow[u] # "sync" /\ flow'[u] # "sync"
  BY <1>3, BoundsAssumption DEF IInv, StackInv
<1>5. Cardinality({}) = 0 /\ Cardinality({t}) = 1
  BY FS_EmptySet, FS_Singleton
<1>6. /\ inFlight' \in Int /\ Gauge' = Gauge /\ (flow'[t] = "sync" => loop' = t)
      /\ inFlight' \in {Gauge, Gauge + 1}
  <2>1. CASE CallSync(t)
    <3>1. Syncs = {} /\ Syncs' = {t} /\ inFlight' = inFlight + 1 /\ loop' = t
      BY <1>2, <1>4, <2>1 DEF CallSync, Syncs
    <3> QED
      BY <1>2, <1>5, <3>1 DEF Gauge
  <2>2. CASE SyncEnds(t)
    <3>1. Syncs = {t} /\ Syncs' = {} /\ inFlight' = inFlight - 1 /\ flow'[t] = "none"
      BY <1>2, <1>4, <2>2 DEF SyncEnds, Syncs
    <3> QED
      BY <1>2, <1>5, <3>1 DEF Gauge
  <2> QED
    BY <2>1, <2>2
<1>7. Gauge \in 0..MaxCalls
  <2>1. /\ Cardinality(Frames) \in Nat /\ Cardinality(Syncs) \in Nat
        /\ inFlight - Cardinality(Frames) - Cardinality(Syncs) >= 0
    BY SyncsHold, FS_CardinalityType, Ints DEF IInv, CountInv, InFlightExact
  <2>2. Gauge \in Int /\ Gauge >= 0
    BY <1>2, <2>1 DEF Gauge
  <2>3. \A o \in Outcomes : metrics[o] \in 0..MaxCalls
    BY DEF IInv, TypeOK
  <2>4. Total(metrics) \in Nat
    BY <2>3 DEF Total, Outcomes
  <2>5. Total(metrics) + Gauge <= calls
    BY DEF IInv, CountInv, MetricsAgree
  <2> QED
    BY <1>2, <2>2, <2>4, <2>5, Numbers
<1>8. inFlight' \in 0..(MaxCalls + 1)
  BY <1>6, <1>7, Numbers
<1>9. TypeOK'
  BY <1>1, <1>3, <1>8 DEF IInv, TypeOK
<1>10. TimerInv'
  BY <1>1 DEF IInv, TimerInv, Inside
<1>11. UnwindInv'
  <2>1. \A u \in Tasks : Leaving(u)' <=> Leaving(u)
    BY <1>1, <1>3 DEF Leaving
  <2> QED
    BY <1>1, <2>1 DEF IInv, UnwindInv
<1>12. SameFrames
  BY <1>1 DEF SameFrames
<1>13. SameTasks
  BY <1>3, <1>4, <1>6 DEF SameTasks
<1> QED
  BY <1>1, <1>6, <1>9, <1>10, <1>11, <1>12, <1>13, QuietIInv

\* A suspended task is cancelled, by one of its timeouts or from outside.
LEMMA CancelFrame ==
    ASSUME IInv, NEW t \in Tasks, CancelTask(t)
    PROVE  /\ UNCHANGED <<loop, exc, ctx, inFlight, trail, metrics, faults, otel, span, calls, around>>
           /\ flow' \in [Tasks -> Flows] /\ flow'[t] = "doomed" /\ stack[t] # <<>>
           /\ \A u \in Tasks : u # t => flow'[u] = flow[u] /\ cancelling'[u] = cancelling[u]
           /\ cancelling' = [cancelling EXCEPT ![t] = @ + 1]
           /\ cancelling'[t] = cancelling[t] + 1 /\ cancelling[t] \in Nat
           /\ SameTasks
           /\ \A u \in Tasks : u # t => (Leaving(u)' <=> Leaving(u))
           /\ Leaving(t)' /\ UNCHANGED Gauge
<1>1. /\ loop = NoTask /\ flow[t] \in {"await", "cleanup", "doomed"}
      /\ flow' = [flow EXCEPT ![t] = "doomed"] /\ cancelling' = [cancelling EXCEPT ![t] = @ + 1]
      /\ UNCHANGED <<loop, exc, ctx, inFlight, trail, metrics, faults, otel, span, calls, around>>
  BY DEF CancelTask, books, traces
<1>2. /\ flow \in [Tasks -> Flows] /\ cancelling[t] \in Nat
      /\ cancelling \in [Tasks -> 0..(MaxDepth + MaxCancels)]
  BY Ints DEF IInv, TypeOK
<1>3. stack[t] # <<>>
  BY <1>1 DEF IInv, StackInv
<1>4. /\ flow' \in [Tasks -> Flows] /\ flow'[t] = "doomed"
      /\ \A u \in Tasks : u # t => flow'[u] = flow[u]
  BY <1>1, <1>2 DEF Flows
<1>5. /\ cancelling'[t] = cancelling[t] + 1
      /\ \A u \in Tasks : u # t => cancelling'[u] = cancelling[u]
  BY <1>1, <1>2
<1>6. \A u \in Tasks : flow[u] # "sync" /\ flow'[u] # "sync"
  BY <1>1, <1>4, BoundsAssumption DEF IInv, StackInv
<1>7. UNCHANGED Gauge
  BY <1>1, <1>6 DEF Gauge, Syncs
<1>8. /\ \A u \in Tasks : u # t => (Leaving(u)' <=> Leaving(u))
      /\ Leaving(t)'
  BY <1>1, <1>4 DEF Leaving
<1>9. SameTasks
  BY <1>1, <1>4, <1>6 DEF SameTasks
<1> QED
  BY <1>1, <1>2, <1>3, <1>4, <1>5, <1>6, <1>7, <1>8, <1>9

LEMMA ExternalCancelIInv ==
    ASSUME IInv, NEW t \in Tasks, ExternalCancel(t)
    PROVE  IInv'
<1>1. /\ UNCHANGED stack /\ cancels' = cancels + 1 /\ cancels < MaxCancels
      /\ struck' = struck \cup Inside(t) /\ CancelTask(t)
  BY DEF ExternalCancel
<1>2. cancels \in Nat /\ faults \in Nat
  BY Ints DEF IInv
<1>3. SameFrames
  BY <1>1 DEF SameFrames
<1>4. TimerInv'
  <2> SUFFICES ASSUME NEW u \in Tasks
               PROVE  \E f \in 0..Len(stack'[u]) :
                        /\ \A i \in DOMAIN stack'[u] : stack'[u][i].timer = "fired" <=> i <= f
                        /\ cancelling'[u] \in f..(f + cancels')
                        /\ stack'[u] = <<>> => cancelling'[u] = 0
                        /\ faults' = 0 /\ cancelling'[u] > f => Inside(u)' \subseteq struck'
    BY DEF TimerInv
  <2>1. PICK f \in 0..Len(stack[u]) :
          /\ \A i \in DOMAIN stack[u] : stack[u][i].timer = "fired" <=> i <= f
          /\ cancelling[u] \in f..(f + cancels)
          /\ stack[u] = <<>> => cancelling[u] = 0
          /\ faults = 0 /\ cancelling[u] > f => Inside(u) \subseteq struck
    BY DEF IInv, TimerInv
  <2>2. f \in Nat /\ Inside(u)' = Inside(u)
    BY <1>1, StackTypes DEF IInv, Inside
  <2>3. /\ stack'[u] = stack[u] /\ faults' = faults
        /\ cancelling'[u] = IF u = t THEN cancelling[u] + 1 ELSE cancelling[u]
        /\ cancelling[u] \in Nat /\ (u = t => stack[u] # <<>>)
    BY <1>1, CancelFrame, Ints DEF IInv
  <2>4. cancelling'[u] \in f..(f + cancels')
    BY <1>1, <1>2, <2>1, <2>2, <2>3
  <2>5. faults' = 0 /\ cancelling'[u] > f => Inside(u)' \subseteq struck'
    BY <1>1, <2>1, <2>2, <2>3
  <2> QED
    BY <2>1, <2>3, <2>4, <2>5
<1>5. UnwindInv'
  BY <1>1, CancelFrame DEF IInv, UnwindInv
<1>6. TypeOK'
  <2>1. cancelling' \in [Tasks -> 0..(MaxDepth + MaxCancels)]
    <3>1. PICK f \in 0..Len(stack[t]) : cancelling[t] \in f..(f + cancels)
      BY DEF IInv, TimerInv
    <3>2. Len(stack[t]) \in Nat /\ Len(stack[t]) <= MaxDepth
      BY StackTypes DEF IInv, StackInv
    <3>3. cancelling[t] + 1 \in 0..(MaxDepth + MaxCancels)
      BY <1>1, <1>2, <3>1, <3>2, Numbers
    <3> QED
      BY <1>1, <3>3, CancelFrame DEF IInv, TypeOK
  <2>2. cancels' \in 0..MaxCancels
    BY <1>1, <1>2, Numbers
  <2>3. struck' \in SUBSET Rids
    <3>1. Inside(t) \subseteq Rids
      BY StackTypes DEF IInv, Inside
    <3> QED
      BY <1>1, <3>1 DEF IInv, TypeOK
  <2> QED
    BY <1>1, <2>1, <2>2, <2>3, CancelFrame DEF IInv, TypeOK
<1>7. UNCHANGED <<ctx, trail, metrics, faults, otel, span, calls, around>>
  BY <1>1, CancelFrame
<1>8. UNCHANGED Gauge
  BY <1>1, CancelFrame
<1>9. SameTasks
  BY <1>1, CancelFrame
<1>10. struck \subseteq struck'
  BY <1>1
<1> QED
  BY <1>3, <1>4, <1>5, <1>6, <1>7, <1>8, <1>9, <1>10, QuietIInv

LEMMA TimerFiresIInv ==
    ASSUME IInv, NEW t \in Tasks, NEW i \in 1..MaxDepth, TimerFires(t, i)
    PROVE  IInv'
<1> DEFINE new == [stack[t][i] EXCEPT !.timer = "fired"]
           s == [stack[t] EXCEPT ![i] = new]
<1>1. /\ i \in DOMAIN stack[t] /\ stack[t][i].timer = "armed"
      /\ \A j \in 1..(i - 1) : stack[t][j].timer = "fired"
      /\ stack' = [stack EXCEPT ![t] = s]
      /\ CancelTask(t) /\ UNCHANGED <<struck, cancels>>
  BY DEF TimerFires
<1>2. /\ new \in Frame /\ new.rid = stack[t][i].rid /\ new.saved = stack[t][i].saved
      /\ new.before = stack[t][i].before /\ new.timer = "fired"
  <2>1. stack[t][i] \in Frame
    BY <1>1, StackTypes DEF IInv
  <2> QED
    BY <2>1 DEF Frame
<1> HIDE DEF new
<1>3. /\ s \in Seq(Frame) /\ Len(s) = Len(stack[t]) /\ DOMAIN s = DOMAIN stack[t]
      /\ \A j \in DOMAIN stack[t] : s[j] = IF j = i THEN new ELSE stack[t][j]
      /\ DOMAIN stack[t] = 1..Len(stack[t]) /\ Len(stack[t]) \in Nat /\ stack[t] # <<>>
      /\ s # <<>>
  <2>1. /\ stack[t] \in Seq(Frame) /\ DOMAIN stack[t] = 1..Len(stack[t]) /\ Len(stack[t]) \in Nat
    BY StackTypes DEF IInv
  <2>2. /\ s \in Seq(Frame) /\ Len(s) = Len(stack[t])
        /\ \A j \in 1..Len(stack[t]) : s[j] = IF j = i THEN new ELSE stack[t][j]
    BY <1>1, <1>2, <2>1, ExceptSeq
  <2>3. DOMAIN s = 1..Len(s) /\ (s = <<>> <=> Len(s) = 0)
    BY <2>2, SeqFacts
  <2>4. stack[t] # <<>>
    BY <1>1
  <2> QED
    BY <1>1, <2>1, <2>2, <2>3, <2>4
<1>4. stack' \in [Tasks -> Seq(Frame)] /\ stack'[t] = s /\ \A u \in Tasks : u # t => stack'[u] = stack[u]
  <2>1. stack \in [Tasks -> Seq(Frame)]
    BY DEF IInv, TypeOK
  <2> HIDE DEF s
  <2> QED
    BY <1>1, <1>3, <2>1
<1> HIDE DEF s
<1>5. SameFrames
  <2>1. \A j \in DOMAIN stack[t] :
          /\ s[j].rid = stack[t][j].rid /\ s[j].saved = stack[t][j].saved
          /\ s[j].before = stack[t][j].before
          /\ stack[t][j].timer = "fired" => s[j].timer = "fired"
    BY <1>2, <1>3
  <2> QED
    BY <1>3, <1>4, <2>1 DEF SameFrames
<1>6. cancels \in Nat /\ faults \in Nat
  BY Ints DEF IInv
<1>7. \A u \in Tasks : Inside(u)' = Inside(u)
  BY <1>5 DEF SameFrames, Inside
<1>8. PICK f \in 0..Len(stack[t]) :
        /\ \A j \in DOMAIN stack[t] : stack[t][j].timer = "fired" <=> j <= f
        /\ cancelling[t] \in f..(f + cancels)
        /\ faults = 0 /\ cancelling[t] > f => Inside(t) \subseteq struck
  BY DEF IInv, TimerInv
<1>9. f + 1 = i
  <2>1. ~(i <= f)
    BY <1>1, <1>8
  <2>2. i - 1 <= f
    <3>1. CASE i = 1
      BY <3>1
    <3>2. CASE i # 1
      <4>1. i - 1 \in 1..(i - 1) /\ i - 1 \in DOMAIN stack[t]
        BY <1>1, <1>3, <3>2
      <4> QED
        BY <1>1, <1>8, <4>1
    <3> QED
      BY <3>1, <3>2
  <2> QED
    BY <1>3, <2>1, <2>2
<1>10. TimerInv'
  <2> SUFFICES ASSUME NEW u \in Tasks
               PROVE  \E g \in 0..Len(stack'[u]) :
                        /\ \A j \in DOMAIN stack'[u] : stack'[u][j].timer = "fired" <=> j <= g
                        /\ cancelling'[u] \in g..(g + cancels')
                        /\ stack'[u] = <<>> => cancelling'[u] = 0
                        /\ faults' = 0 /\ cancelling'[u] > g => Inside(u)' \subseteq struck'
    BY DEF TimerInv
  <2>1. CASE u = t
    <3>1. i \in 0..Len(stack'[t]) /\ stack'[t] # <<>>
      BY <1>1, <1>3, <1>4
    <3>2. \A j \in DOMAIN stack'[t] : stack'[t][j].timer = "fired" <=> j <= i
      BY <1>1, <1>2, <1>3, <1>4, <1>8, <1>9
    <3>3. cancelling'[t] \in i..(i + cancels') /\ (cancelling'[t] > i => cancelling[t] > f)
      BY <1>1, <1>3, <1>6, <1>8, <1>9, CancelFrame
    <3>4. faults' = 0 /\ cancelling'[t] > i => Inside(t)' \subseteq struck'
      BY <1>1, <1>7, <1>8, <3>3, CancelFrame
    <3> QED
      BY <2>1, <3>1, <3>2, <3>3, <3>4
  <2>2. CASE u # t
    <3>1. /\ stack'[u] = stack[u] /\ cancelling'[u] = cancelling[u] /\ cancels' = cancels
          /\ faults' = faults /\ struck' = struck /\ Inside(u)' = Inside(u)
      BY <1>1, <1>4, <1>7, <2>2, CancelFrame
    <3> QED
      BY <3>1 DEF IInv, TimerInv
  <2> QED
    BY <2>1, <2>2
<1>11. UnwindInv'
  <2>1. faults = 0 => \A u \in Tasks : cancelling'[u] > 0 <=> Leaving(u)'
    BY CancelFrame, <1>1 DEF IInv, UnwindInv
  <2>2. faults = 0 => \A u \in Tasks : \A j \in DOMAIN stack'[u] : stack'[u][j].before = 0
    BY <1>5 DEF IInv, UnwindInv, SameFrames
  <2> QED
    BY <1>1, <2>1, <2>2, CancelFrame DEF UnwindInv
<1>12. TypeOK'
  <2>1. cancelling' \in [Tasks -> 0..(MaxDepth + MaxCancels)]
    <3>1. Len(stack[t]) <= MaxDepth
      BY DEF IInv, StackInv
    <3>2. cancels <= MaxCancels
      BY Ints DEF IInv
    <3>3. cancelling[t] + 1 <= Len(stack[t]) + cancels /\ cancelling[t] \in Nat
      BY <1>1, <1>3, <1>6, <1>8, <1>9
    <3>4. cancelling[t] + 1 \in 0..(MaxDepth + MaxCancels)
      <4>1. Len(stack[t]) + cancels <= MaxDepth + MaxCancels
        BY <1>3, <1>6, <3>1, <3>2, BoundsAssumption
      <4> QED
        BY <1>3, <1>6, <3>3, <4>1, Numbers
    <3>5. /\ cancelling \in [Tasks -> 0..(MaxDepth + MaxCancels)]
          /\ cancelling' = [cancelling EXCEPT ![t] = @ + 1]
      BY <1>1, CancelFrame DEF IInv, TypeOK
    <3> QED
      BY <3>4, <3>5
  <2>2. UNCHANGED <<loop, exc, ctx, inFlight, trail, metrics, faults, otel, span, calls, around>>
        /\ flow' \in [Tasks -> Flows]
    BY <1>1, CancelFrame
  <2> QED
    BY <1>1, <1>4, <2>1, <2>2 DEF IInv, TypeOK
<1>13. /\ UNCHANGED <<ctx, trail, metrics, faults, otel, span, calls, around>>
       /\ UNCHANGED Gauge /\ SameTasks
  BY <1>1, CancelFrame
<1>14. struck \subseteq struck'
  BY <1>1
<1> QED
  BY <1>5, <1>10, <1>11, <1>12, <1>13, <1>14, QuietIInv

-----------------------------------------------------------------------------
(* Records of calls that are live.                                         *)

LEMMA EndRecord ==
    \A x \in Record : x.event = "end" => \E o \in Outcomes : x = End(x.rid, o)
<1> SUFFICES ASSUME NEW x \in Record, x.event = "end"
             PROVE  \E o \in Outcomes : x = End(x.rid, o)
  OBVIOUS
<1>1. x \in [event : {"end"}, rid : Rids, outcome : Outcomes]
  BY DEF Record
<1> QED
  BY <1>1 DEF End

\* The top call of a task and those around it are live: none has ended.
LEMMA TopIsLive ==
    ASSUME IInv, NEW t \in Tasks, stack[t] # <<>>
    PROVE  /\ Len(stack[t]) \in DOMAIN stack[t]
           /\ Last(stack[t]) = stack[t][Len(stack[t])] /\ Last(stack[t]) \in Frame
           /\ Last(stack[t]).rid \in Inside(t) /\ Last(stack[t]).rid \in Rids
           /\ Last(stack[t]).rid \in 1..calls
           /\ {Last(stack[t]).rid} \cup around[Last(stack[t]).rid] \subseteq Inside(t)
           /\ \A i \in DOMAIN trail[t] : trail[t][i].event = "end" => trail[t][i].rid \notin Inside(t)
<1> DEFINE n == Len(stack[t])
<1>1. /\ n \in DOMAIN stack[t] /\ DOMAIN stack[t] = 1..n /\ n \in Nat
      /\ stack[t][n] \in Frame /\ stack[t][n].rid \in Rids
  BY StackTypes DEF IInv
<1>2. Last(stack[t]) = stack[t][n] /\ stack[t][n].rid \in Inside(t)
  BY <1>1 DEF Last, Inside
<1>3. around[stack[t][n].rid] = Below(t, n) /\ stack[t][n].rid <= calls
  BY <1>1 DEF IInv, AroundInv
<1>4. Below(t, n) \subseteq Inside(t)
  <2>1. \A j \in 1..(n - 1) : j \in DOMAIN stack[t]
    BY <1>1
  <2> QED
    BY <2>1 DEF Below, Inside
<1>5. ASSUME NEW i \in DOMAIN trail[t], trail[t][i].event = "end"
      PROVE  trail[t][i].rid \notin Inside(t)
  <2>1. PICK o \in Outcomes : trail[t][i] = End(trail[t][i].rid, o)
    BY <1>5, EndRecord, TrailTypes DEF IInv
  <2>2. trail[t][i] \in Emitted(t)
    BY DEF Emitted, Range
  <2> QED
    BY <2>1, <2>2 DEF IInv, TrailInv, HasEnd
<1>6. stack[t][n].rid \in 1..calls
  BY <1>1, <1>3, Ints DEF IInv, Rids
<1> QED
  BY <1>1, <1>2, <1>3, <1>4, <1>5, <1>6

\* A statement record is emitted for the call it belongs to.
LEMMA StatementIInv ==
    ASSUME IInv, NEW t \in Tasks, EmitStatement(t)
    PROVE  IInv'
<1> DEFINE rec == <<Statement(ctx[t])>>
<1>1. /\ loop = t /\ loop' = loop /\ flow[t] \in {"body", "unwind"}
      /\ UNCHANGED <<stack, ctx, inFlight, otel, span, calls, around, struck, cancels,
                     cancelling, metrics>>
      /\ trail' = [trail EXCEPT ![t] = @ \o rec]
      /\ \/ UNCHANGED <<faults, flow, exc>>
         \/ /\ faults < MaxPrintFaults /\ faults' = faults + 1
            /\ flow' = [flow EXCEPT ![t] = "unwind"] /\ exc' = [exc EXCEPT ![t] = "error"]
  BY DEF EmitStatement, BodyUnchanged, Emit, EmitRaises, traces, ghosts
<1>2. /\ faults \in Nat /\ faults <= MaxPrintFaults /\ flow \in [Tasks -> Flows]
      /\ exc \in [Tasks -> {"none", "error", "cancelled"}] /\ ctx[t] \in Rids \cup {NoRid}
  BY Ints DEF IInv, TypeOK
<1>3. /\ faults' \in Nat /\ faults' >= faults /\ faults' <= MaxPrintFaults
      /\ faults' = 0 => faults = 0 /\ UNCHANGED <<flow, exc>>
  BY <1>1, <1>2, BoundsAssumption
<1>4. /\ flow' \in [Tasks -> Flows] /\ exc' \in [Tasks -> {"none", "error", "cancelled"}]
      /\ flow'[t] \in {"body", "unwind"} /\ \A u \in Tasks : u # t => flow'[u] = flow[u]
  BY <1>1, <1>2 DEF Flows
<1>5. stack[t] # <<>>
  BY <1>1 DEF IInv, StackInv
<1>6. rec \in Seq(Record) /\ Statement(ctx[t]) \in Record
  <2>1. Statement(ctx[t]) \in Record
    BY <1>2, RecordsDiffer
  <2> QED
    BY <2>1
<1>7. /\ trail' \in [Tasks -> Seq(Record)] /\ trail'[t] = trail[t] \o rec
      /\ \A u \in Tasks : u # t => trail'[u] = trail[u] /\ Emitted(u)' = Emitted(u)
      /\ Emitted(t)' = Emitted(t) \cup {Statement(ctx[t])}
  BY <1>1, <1>6, EmittedGrows, Emissions DEF IInv
<1>8. \A u \in Tasks : /\ \A r, o : End(r, o) \in Emitted(u)' <=> End(r, o) \in Emitted(u)
                       /\ \A r : Start(r) \in Emitted(u)' <=> Start(r) \in Emitted(u)
  BY <1>7, RecordsDiffer
<1>9. \A u \in Tasks : \A r : HasEnd(u, r)' <=> HasEnd(u, r)
  BY <1>8 DEF HasEnd
<1>10. Inside(t)' = Inside(t) /\ (\A u \in Tasks : Inside(u)' = Inside(u)) /\ Live' = Live
  BY <1>1 DEF Inside, Live
<1>11. TypeOK'
  <2>1. faults' \in 0..MaxPrintFaults
    BY <1>3, BoundsAssumption
  <2> QED
    BY <1>1, <1>4, <1>7, <2>1 DEF IInv, TypeOK
<1>12. StackInv'
  BY <1>1, <1>4 DEF IInv, StackInv
<1>13. AroundInv' /\ TimerInv' /\ UnwindInv'
  <2>1. AroundInv'
    <3>1. \A u, i : Below(u, i)' = Below(u, i)
      BY <1>1 DEF Below
    <3> QED
      BY <1>1, <3>1 DEF IInv, AroundInv
  <2>2. TimerInv'
    BY <1>1, <1>3, <1>10 DEF IInv, TimerInv
  <2>3. UnwindInv'
    BY <1>1, <1>3 DEF IInv, UnwindInv, Leaving
  <2> QED
    BY <2>1, <2>2, <2>3
<1>14. ContextInv' /\ ContextIsInnermost'
  BY <1>1, <1>3 DEF IInv, ContextInv, ContextIsInnermost
<1>15. TrailInv'
  <2>1. \A u \in Tasks : \A i \in DOMAIN trail'[u] :
          trail'[u][i].rid <= calls' /\ (faults' = 0 => trail'[u][i].rid # NoRid)
    <3> SUFFICES ASSUME NEW u \in Tasks, NEW i \in DOMAIN trail'[u]
                 PROVE  trail'[u][i].rid <= calls' /\ (faults' = 0 => trail'[u][i].rid # NoRid)
      OBVIOUS
    <3>1. \/ i \in DOMAIN trail[u] /\ trail'[u][i] = trail[u][i]
          \/ trail'[u][i] = Statement(ctx[t])
      <4>1. trail'[u][i] \in Emitted(u)'
        BY DEF Emitted, Range
      <4>2. CASE u = t
        <5>1. /\ DOMAIN trail[t] = 1..Len(trail[t]) /\ trail[t] \in Seq(Record) /\ Len(rec) = 1
          BY TrailTypes DEF IInv
        <5>2. /\ i \in 1..Len(trail[t]) => trail'[t][i] = trail[t][i]
              /\ i \notin 1..Len(trail[t]) => i - Len(trail[t]) \in 1..1
              /\ trail'[t][Len(trail[t]) + 1] = Statement(ctx[t])
          BY <1>6, <1>7, <4>2, <5>1, Joined
        <5>3. i \notin 1..Len(trail[t]) => i = Len(trail[t]) + 1
          <6>1. i \in Int /\ Len(trail[t]) \in Nat
            <7>1. trail'[t] \in Seq(Record)
              BY <1>7
            <7> QED
              BY <4>2, <7>1, SeqFacts, TrailTypes DEF IInv
          <6> QED
            BY <5>2, <6>1
        <5> QED
          BY <4>2, <5>1, <5>2, <5>3
      <4>3. CASE u # t
        BY <1>7, <4>3
      <4> QED
        BY <4>2, <4>3
    <3>2. ctx[t] <= calls /\ (faults' = 0 => ctx[t] # NoRid)
      BY <1>3, <1>5, TopIsLive, Numbers DEF IInv, ContextInv, ContextIsInnermost
    <3> QED
      BY <1>1, <1>3, <3>1, <3>2, RecordsDiffer DEF IInv, TrailInv
  <2> QED
    BY <1>8, <1>9, <1>10, <2>1 DEF IInv, TrailInv
<1>16. RecordsNest'
  <2> SUFFICES ASSUME faults' = 0, NEW u \in Tasks PROVE Nests(around', trail'[u])
    BY DEF RecordsNest
  <2>1. Nests(around, trail[u])
    BY <1>3 DEF IInv, RecordsNest
  <2>2. CASE u = t
    <3>1. ctx[t] = Last(stack[t]).rid
      BY <1>3, <1>5 DEF IInv, ContextIsInnermost
    <3>2. \A i \in DOMAIN trail[t] : Follows(around, trail[t][i], Statement(ctx[t]))
      BY <1>5, <3>1, TopIsLive, RecordsDiffer DEF Follows
    <3>3. \A i \in DOMAIN trail[t], j \in DOMAIN rec : Follows(around, trail[t][i], rec[j])
      BY <3>2
    <3>4. Nests(around, rec)
      BY DEF Nests
    <3> QED
      BY <1>1, <1>6, <1>7, <2>1, <2>2, <3>3, <3>4, NestsJoined, TrailTypes DEF IInv
  <2>3. CASE u # t
    BY <1>1, <1>7, <2>1, <2>3
  <2> QED
    BY <2>2, <2>3
<1>17. UnmatchedStartsExplained'
  BY <1>1, <1>3, <1>8, <1>9, <1>10 DEF IInv, UnmatchedStartsExplained
<1>18. TimeoutsAreOutermost'
  BY <1>1, <1>3, <1>8 DEF IInv, TimeoutsAreOutermost
<1>19. SpanInv'
  BY <1>1, <1>3, <1>8, <1>9, <1>10 DEF IInv, SpanInv, SpansMatch
<1>20. CountInv'
  <2>1. Frames' = Frames /\ Syncs' = Syncs
    BY <1>1, <1>4 DEF Frames, Syncs
  <2>2. \A o \in Outcomes : Ended(o)' = Ended(o)
    BY <1>8 DEF Ended
  <2>3. Uncounted' = Uncounted /\ Gauge' = Gauge
    BY <1>1, <2>1, <2>2 DEF Uncounted, Gauge
  <2>4. Total(Uncounted)' <= faults'
    <3>1. \A o \in Outcomes : Uncounted[o] \in Int
      <4>1. \A o \in Outcomes : Cardinality(Ended(o)) \in Nat
        BY FS_CardinalityType DEF IInv, CountInv
      <4>2. \A o \in Outcomes : metrics[o] \in Int
        <5>1. \A o \in Outcomes : metrics[o] \in 0..MaxCalls
          BY DEF IInv, TypeOK
        <5> QED
          BY <5>1
      <4> QED
        BY <4>1, <4>2 DEF Uncounted
    <3>2. Total(Uncounted) \in Int /\ Total(Uncounted) <= faults
      BY <3>1 DEF IInv, CountInv, MetricsAgree, Total, Outcomes
    <3> QED
      BY <1>2, <1>3, <2>3, <3>2 DEF Total
  <2>5. MetricsAgree'
    BY <1>1, <2>3, <2>4 DEF IInv, CountInv, MetricsAgree, Total
  <2>6. InFlightExact'
    BY <1>1, <1>2, <1>3, <2>1 DEF IInv, CountInv, InFlightExact
  <2> QED
    BY <2>1, <2>2, <2>5, <2>6 DEF IInv, CountInv
<1> QED
  BY <1>11, <1>12, <1>13, <1>14, <1>15, <1>16, <1>17, <1>18, <1>19, <1>20 DEF IInv

-----------------------------------------------------------------------------
(* Steps that enter or leave a guarded call.                               *)

\* No record is of a call that is yet to come.
LEMMA RecordsAreOld ==
    ASSUME IInv, NEW u \in Tasks, NEW x \in Emitted(u)
    PROVE  x \in Record /\ x.rid \in Nat /\ x.rid <= calls
<1>1. PICK i \in DOMAIN trail[u] : x = trail[u][i]
  BY DEF Emitted, Range
<1> QED
  BY <1>1, TrailTypes, Numbers DEF IInv, TrailInv

\* The ways in which operations put their records together.
LEMMA PutTogether ==
    ASSUME NEW s \in Seq(Record), NEW a \in Record, NEW b \in Record, NEW c \in Record
    PROVE  /\ (s \o <<>>) \o <<c>> = s \o <<c>> /\ <<>> \o <<c>> = <<c>>
           /\ (s \o <<a, b>>) \o <<c>> = s \o <<a, b, c>>
           /\ <<c>> \in Seq(Record) /\ <<a, b>> \in Seq(Record) /\ <<a, b, c>> \in Seq(Record)
<1>1. /\ <<c>> \in Seq(Record) /\ <<a, b>> \in Seq(Record) /\ <<a, b, c>> \in Seq(Record)
      /\ <<>> \in Seq(Record)
  OBVIOUS
<1>2. s \o <<>> = s /\ <<>> \o <<c>> = <<c>>
  BY <1>1, ConcatEmptySeq
<1>3. <<a, b>> \o <<c>> = <<a, b, c>>
  <2>1. /\ Len(<<a, b>>) = 2 /\ Len(<<c>>) = 1 /\ Len(<<a, b, c>>) = 3
        /\ <<a, b>>[1] = a /\ <<a, b>>[2] = b /\ <<c>>[1] = c
        /\ <<a, b, c>>[1] = a /\ <<a, b, c>>[2] = b /\ <<a, b, c>>[3] = c
    OBVIOUS
  <2>2. /\ <<a, b>> \o <<c>> \in Seq(Record) /\ Len(<<a, b>> \o <<c>>) = 2 + 1
        /\ \A i \in 1..(2 + 1) :
              (<<a, b>> \o <<c>>)[i] = IF i <= 2 THEN <<a, b>>[i] ELSE <<c>>[i - 2]
    BY <1>1, <2>1, ConcatProperties
  <2>3. PICK q \in Seq(Record) : q = <<a, b>> \o <<c>>
    BY <2>2
  <2>4. Len(q) = 3 /\ \A i \in 1..3 : q[i] = IF i <= 2 THEN <<a, b>>[i] ELSE <<c>>[i - 2]
    BY <2>2, <2>3
  <2>5. \A i \in 1..3 : q[i] = <<a, b, c>>[i]
    <3>1. q[1] = a /\ q[2] = b /\ q[3] = c
      BY <2>1, <2>4
    <3>2. \A i \in 1..3 : i = 1 \/ i = 2 \/ i = 3
      OBVIOUS
    <3> QED
      BY <2>1, <3>1, <3>2
  <2> QED
    BY <1>1, <2>1, <2>3, <2>4, <2>5, SeqEqual
<1>4. (s \o <<a, b>>) \o <<c>> = s \o (<<a, b>> \o <<c>>)
  BY <1>1, ConcatAssociative
<1> QED
  BY <1>1, <1>2, <1>3, <1>4

\* What changes, and what does not, as task t emits records of a call that has
\* no end yet, each end being new.
LEMMA Emitting ==
    ASSUME IInv, NEW t \in Tasks, NEW r \in Rids, NEW recs \in Seq(Record),
           \A x \in Range(recs) : x.rid = r,
           ~HasEnd(t, r), trail' = [trail EXCEPT ![t] = @ \o recs]
    PROVE  /\ trail' \in [Tasks -> Seq(Record)] /\ trail'[t] = trail[t] \o recs
           /\ \A u \in Tasks : u # t => trail'[u] = trail[u] /\ Emitted(u)' = Emitted(u)
           /\ Emitted(t)' = Emitted(t) \cup Range(recs)
           /\ \A u \in Tasks : \A q : q # r =>
                 /\ Start(q) \in Emitted(u)' <=> Start(q) \in Emitted(u)
                 /\ \A o : End(q, o) \in Emitted(u)' <=> End(q, o) \in Emitted(u)
                 /\ HasEnd(u, q)' <=> HasEnd(u, q)
           /\ \A u \in Tasks : \A i \in DOMAIN trail'[u] :
                 \/ trail'[u][i].rid = r
                 \/ i \in DOMAIN trail[u] /\ trail'[u][i] = trail[u][i]
           /\ \A o \in Outcomes :
                 /\ IsFiniteSet(Ended(o)')
                 /\ Cardinality(Ended(o)')
                       = Cardinality(Ended(o)) + (IF End(r, o) \in Range(recs) THEN 1 ELSE 0)
<1>1. /\ trail' \in [Tasks -> Seq(Record)] /\ trail'[t] = trail[t] \o recs
      /\ \A u \in Tasks : u # t => trail'[u] = trail[u] /\ Emitted(u)' = Emitted(u)
      /\ Emitted(t)' = Emitted(t) \cup Range(recs)
  BY EmittedGrows DEF IInv
<1>2. \A u \in Tasks : \A q : q # r =>
        /\ Start(q) \in Emitted(u)' <=> Start(q) \in Emitted(u)
        /\ \A o : End(q, o) \in Emitted(u)' <=> End(q, o) \in Emitted(u)
  BY <1>1, RecordsDiffer
<1>3. \A u \in Tasks : \A q : q # r => (HasEnd(u, q)' <=> HasEnd(u, q))
  BY <1>2 DEF HasEnd
<1>4. ASSUME NEW u \in Tasks, NEW i \in DOMAIN trail'[u]
      PROVE  \/ trail'[u][i].rid = r
             \/ i \in DOMAIN trail[u] /\ trail'[u][i] = trail[u][i]
  <2>1. CASE u = t
    <3>1. /\ trail[t] \in Seq(Record) /\ DOMAIN trail[t] = 1..Len(trail[t])
          /\ Len(trail[t]) \in Nat /\ Len(recs) \in Nat /\ DOMAIN recs = 1..Len(recs)
      BY TrailTypes, SeqFacts DEF IInv
    <3>2. /\ DOMAIN trail'[t] = 1..(Len(trail[t]) + Len(recs))
          /\ \A j \in 1..Len(trail[t]) : trail'[t][j] = trail[t][j]
          /\ \A j \in 1..Len(recs) : trail'[t][Len(trail[t]) + j] = recs[j]
          /\ \A j \in 1..(Len(trail[t]) + Len(recs)) :
                j \notin 1..Len(trail[t]) => j - Len(trail[t]) \in 1..Len(recs)
      BY <1>1, <3>1, Joined
    <3>3. CASE i \in 1..Len(trail[t])
      BY <2>1, <3>1, <3>2, <3>3
    <3>4. CASE i \notin 1..Len(trail[t])
      <4>1. PICK j \in 1..Len(recs) : j = i - Len(trail[t])
        BY <2>1, <3>2, <3>4
      <4>2. i = Len(trail[t]) + j
        BY <2>1, <3>1, <3>2, <4>1
      <4>3. trail'[t][i] = recs[j] /\ recs[j] \in Range(recs)
        BY <3>1, <3>2, <4>2 DEF Range
      <4> QED
        BY <2>1, <4>3
    <3> QED
      BY <3>3, <3>4
  <2>2. CASE u # t
    BY <1>1, <2>2
  <2> QED
    BY <2>1, <2>2
<1>5. ASSUME NEW o \in Outcomes
      PROVE  /\ IsFiniteSet(Ended(o)')
             /\ Cardinality(Ended(o)')
                   = Cardinality(Ended(o)) + (IF End(r, o) \in Range(recs) THEN 1 ELSE 0)
  <2>1. IsFiniteSet(Ended(o)) /\ Cardinality(Ended(o)) \in Nat
    BY FS_CardinalityType DEF IInv, CountInv
  <2>2. <<t, r>> \notin Ended(o)
    BY DEF Ended, HasEnd
  <2>3. \A u \in Tasks, q \in Rids : End(q, o) \in Emitted(u)' <=>
            End(q, o) \in Emitted(u) \/ (u = t /\ q = r /\ End(r, o) \in Range(recs))
    BY <1>1, <1>2
  <2>4. CASE End(r, o) \in Range(recs)
    <3>1. Ended(o)' = Ended(o) \cup {<<t, r>>}
      BY <2>3, <2>4 DEF Ended
    <3> QED
      BY <2>1, <2>2, <2>4, <3>1, FS_AddElement
  <2>5. CASE End(r, o) \notin Range(recs)
    <3>1. Ended(o)' = Ended(o)
      BY <2>3, <2>5 DEF Ended
    <3> QED
      BY <2>1, <2>5, <3>1
  <2> QED
    BY <2>4, <2>5
<1> QED
  BY <1>1, <1>2, <1>3, <1>4, <1>5

LEMMA SameSuffix ==
    ASSUME NEW S, NEW s \in Seq(S), NEW a \in Seq(S), NEW b \in Seq(S), s \o a = s \o b
    PROVE  a = b
<1>1. /\ Len(s) \in Nat /\ Len(a) \in Nat /\ Len(b) \in Nat
      /\ Len(s \o a) = Len(s) + Len(a) /\ Len(s \o b) = Len(s) + Len(b)
  BY ConcatProperties, LenProperties
<1>2. Len(a) = Len(b)
  BY <1>1
<1>3. \A i \in 1..Len(a) : (s \o a)[Len(s) + i] = a[i] /\ (s \o b)[Len(s) + i] = b[i]
  BY <1>2, Joined
<1>4. \A i \in 1..Len(a) : a[i] = b[i]
  BY <1>3
<1> QED
  BY <1>2, <1>4, SeqEqual

LEMMA Totals ==
    ASSUME NEW f, NEW g, NEW h,
           \A o \in Outcomes : f[o] \in Nat /\ g[o] \in Nat /\ h[o] = f[o] + g[o]
    PROVE  /\ Total(f) \in Nat /\ Total(g) \in Nat /\ Total(h) = Total(f) + Total(g)
           /\ \A o \in Outcomes : h[o] <= Total(h)
<1>1. /\ "success" \in Outcomes /\ "error" \in Outcomes
      /\ "timeout" \in Outcomes /\ "rate_limited" \in Outcomes
  BY DEF Outcomes
<1>2. Total(f) \in Nat /\ Total(g) \in Nat /\ Total(h) = Total(f) + Total(g)
  BY <1>1 DEF Total
<1>3. \A o \in Outcomes : h[o] <= Total(h)
  BY DEF Total, Outcomes
<1> QED
  BY <1>2, <1>3

\* The books balance after a step if it counts no call it does not end, is short of
\* one count at most for each print that raised, and counts or holds no more calls
\* than it admits.
LEMMA Counting ==
    ASSUME IInv, Syncs = {}, Syncs' = {}, faults' \in Nat, faults' >= faults,
           inFlight' \in Int, calls' \in 0..MaxCalls,
           NEW ended \in [Outcomes -> 0..1], NEW counted \in [Outcomes -> 0..1],
           \A o \in Outcomes : /\ IsFiniteSet(Ended(o)')
                               /\ Cardinality(Ended(o)') = Cardinality(Ended(o)) + ended[o]
                               /\ counted[o] <= ended[o],
           metrics' = [o \in Outcomes |-> metrics[o] + counted[o]],
           Total(ended) - Total(counted) <= faults' - faults,
           Total(counted) + inFlight' - inFlight <= calls' - calls,
           IsFiniteSet(Frames'), inFlight' - Cardinality(Frames') \in 0..faults'
    PROVE  /\ CountInv' /\ inFlight' \in 0..(MaxCalls + 1)
           /\ metrics' \in [Outcomes -> 0..MaxCalls]
<1>1. /\ Cardinality(Syncs) = 0 /\ Cardinality(Syncs') = 0 /\ faults \in Nat /\ calls \in Nat
      /\ inFlight \in Int /\ MaxCalls \in Nat
  BY FS_EmptySet, Ints, Numbers DEF IInv
<1>2. Gauge = inFlight /\ Gauge' = inFlight'
  BY <1>1 DEF Gauge
<1>3. \A o \in Outcomes : /\ metrics[o] \in Nat /\ metrics'[o] \in Nat
                          /\ metrics'[o] = metrics[o] + counted[o]
  <2>1. \A o \in Outcomes : metrics[o] \in 0..MaxCalls
    BY DEF IInv, TypeOK
  <2>2. \A n \in 0..MaxCalls : n \in Nat
    OBVIOUS
  <2>3. \A o \in Outcomes : metrics[o] \in Nat /\ counted[o] \in Nat
    BY <2>1, <2>2
  <2> QED
    BY <2>3
<1>4. \A o \in Outcomes : /\ Uncounted[o] \in Int /\ Uncounted[o] >= 0
                          /\ Uncounted'[o] = Uncounted[o] + ended[o] - counted[o]
  <2> SUFFICES ASSUME NEW o \in Outcomes
               PROVE  /\ Uncounted[o] \in Int /\ Uncounted[o] >= 0
                      /\ Uncounted'[o] = Uncounted[o] + ended[o] - counted[o]
    OBVIOUS
  <2>1. Cardinality(Ended(o)) \in Nat
    BY FS_CardinalityType DEF IInv, CountInv
  <2>2. /\ Uncounted[o] = Cardinality(Ended(o)) - metrics[o]
        /\ Uncounted'[o] = Cardinality(Ended(o)') - metrics'[o]
    BY DEF Uncounted
  <2>3. Uncounted[o] >= 0
    BY DEF IInv, CountInv, MetricsAgree
  <2>4. ended[o] \in 0..1 /\ counted[o] \in 0..1
    OBVIOUS
  <2> QED
    BY <1>3, <2>1, <2>2, <2>3, <2>4
<1>5. \A o \in Outcomes : Uncounted'[o] >= 0
  BY <1>4
<1>6. /\ Total(Uncounted') = Total(Uncounted) + Total(ended) - Total(counted)
      /\ Total(metrics') = Total(metrics) + Total(counted)
      /\ Total(Uncounted) \in Int /\ Total(ended) \in Int /\ Total(counted) \in Int
      /\ Total(metrics) \in Nat /\ Total(metrics') \in Nat
      /\ \A o \in Outcomes : metrics'[o] <= Total(metrics')
  <2>1. /\ "success" \in Outcomes /\ "error" \in Outcomes
        /\ "timeout" \in Outcomes /\ "rate_limited" \in Outcomes
    BY DEF Outcomes
  <2>2. \A o \in Outcomes : ended[o] \in Int /\ counted[o] \in Int
    <3>1. \A o \in Outcomes : ended[o] \in 0..1 /\ counted[o] \in 0..1
      OBVIOUS
    <3> QED
      BY <3>1
  <2>3. /\ Total(Uncounted') = Total(Uncounted) + Total(ended) - Total(counted)
        /\ Total(Uncounted) \in Int /\ Total(ended) \in Int /\ Total(counted) \in Int
    BY <1>4, <2>1, <2>2 DEF Total
  <2>4. \A o \in Outcomes : counted[o] \in Nat
    <3>1. \A o \in Outcomes : counted[o] \in 0..1
      OBVIOUS
    <3> QED
      BY <3>1
  <2>5. /\ Total(metrics) \in Nat /\ Total(counted) \in Nat
        /\ Total(metrics') = Total(metrics) + Total(counted)
        /\ \A o \in Outcomes : metrics'[o] <= Total(metrics')
    BY <1>3, <2>4, Totals
  <2> QED
    BY <2>3, <2>5
<1>7. Total(Uncounted) <= faults /\ Total(metrics) + Gauge <= calls
  BY DEF IInv, CountInv, MetricsAgree
<1>8. Total(Uncounted') <= faults' /\ Total(metrics') + inFlight' <= calls'
  BY <1>1, <1>2, <1>6, <1>7
<1>9. MetricsAgree'
  BY <1>2, <1>5, <1>8 DEF MetricsAgree, Total
<1>10. Cardinality(Frames') \in Nat
  BY FS_CardinalityType
<1>11. InFlightExact'
  BY <1>1, <1>10 DEF InFlightExact
<1>12. inFlight' >= 0 /\ inFlight' <= MaxCalls /\ \A o \in Outcomes : metrics'[o] \in 0..MaxCalls
  BY <1>1, <1>3, <1>6, <1>8, <1>10
<1>13. CountInv'
  BY <1>9, <1>11 DEF CountInv
<1> QED
  BY <1>1, <1>12, <1>13

LEMMA FramePushed ==
    ASSUME IInv, NEW t \in Tasks, NEW f \in Frame, Len(stack[t]) < MaxDepth,
           stack' = [stack EXCEPT ![t] = Append(@, f)]
    PROVE  IsFiniteSet(Frames') /\ Cardinality(Frames') = Cardinality(Frames) + 1
<1>1. /\ stack \in [Tasks -> Seq(Frame)] /\ Len(stack[t]) \in Nat
  BY StackTypes DEF IInv, TypeOK
<1>2. /\ \A u \in Tasks : u # t => stack'[u] = stack[u]
      /\ Len(stack'[t]) = Len(stack[t]) + 1
  BY <1>1, Pushed
<1>3. /\ <<t, Len(stack[t]) + 1>> \notin Frames
      /\ Frames' = Frames \cup {<<t, Len(stack[t]) + 1>>}
  <2>1. \A u \in Tasks : Len(stack[u]) \in Nat /\ MaxDepth \in Nat
    BY StackTypes, Numbers DEF IInv
  <2>2. ASSUME NEW u \in Tasks, NEW i \in 1..MaxDepth
        PROVE  i <= Len(stack'[u]) <=> (i <= Len(stack[u]) \/ (u = t /\ i = Len(stack[t]) + 1))
    BY <1>2, <2>1
  <2>3. Len(stack[t]) + 1 \in 1..MaxDepth /\ ~(Len(stack[t]) + 1 <= Len(stack[t]))
    BY <2>1
  <2> QED
    BY <2>2, <2>3 DEF Frames
<1> QED
  BY <1>3, FS_AddElement DEF IInv, CountInv

LEMMA FramePopped ==
    ASSUME IInv, NEW t \in Tasks, stack[t] # <<>>, stack' = [stack EXCEPT ![t] = Front(@)]
    PROVE  IsFiniteSet(Frames') /\ Cardinality(Frames') = Cardinality(Frames) - 1
<1>1. /\ stack \in [Tasks -> Seq(Frame)] /\ Len(stack[t]) \in Nat \ {0}
  BY StackTypes, Popped DEF IInv, TypeOK
<1>2. /\ \A u \in Tasks : u # t => stack'[u] = stack[u]
      /\ Len(stack'[t]) = Len(stack[t]) - 1
  BY <1>1, Popped
<1>3. /\ <<t, Len(stack[t])>> \in Frames
      /\ Frames' = Frames \ {<<t, Len(stack[t])>>}
  <2>1. \A u \in Tasks : Len(stack[u]) \in Nat /\ MaxDepth \in Nat
    BY StackTypes, Numbers DEF IInv
  <2>2. ASSUME NEW u \in Tasks, NEW i \in 1..MaxDepth
        PROVE  i <= Len(stack'[u]) <=> (i <= Len(stack[u]) /\ ~(u = t /\ i = Len(stack[t])))
    BY <1>1, <1>2, <2>1
  <2>3. Len(stack[t]) \in 1..MaxDepth
    BY <1>1, <2>1 DEF IInv, StackInv
  <2> QED
    BY <2>1, <2>2, <2>3 DEF Frames
<1> QED
  BY <1>3, FS_RemoveElement DEF IInv, CountInv

\* A task enters a call while it runs alone, and unless a print has raised it has
\* not been cancelled; the call is new to the stacks and to the trails.
LEMMA Entry ==
    ASSUME IInv, NEW t \in Tasks, Arrive(t) \/ CallTool(t)
    PROVE  /\ calls \in Nat /\ calls + 1 \in Rids /\ calls' = calls + 1 /\ calls' \in 0..MaxCalls
           /\ around' = [around EXCEPT ![calls + 1] = Inside(t)]
           /\ Admitted(t, calls + 1) \/ Rejected(t, calls + 1) \/ EntryFails(t, calls + 1)
           /\ UNCHANGED <<struck, cancels, cancelling>>
           /\ Len(stack[t]) < MaxDepth /\ flow[t] \in {"none", "body"} /\ Syncs = {}
           /\ loop \in {NoTask, t}
           /\ faults = 0 => cancelling[t] = 0
           /\ Inside(t) \subseteq 1..calls /\ \A u \in Tasks : calls + 1 \notin Inside(u)
           /\ \A u \in Tasks : Start(calls + 1) \notin Emitted(u) /\ ~HasEnd(u, calls + 1)
<1>1. /\ Enter(t) /\ flow[t] \in {"none", "body"} /\ loop \in {NoTask, t}
      /\ flow[t] = "none" \/ Len(stack[t]) < MaxDepth
  BY DEF Arrive, CallTool
<1>2. /\ calls' = calls + 1 /\ calls < MaxCalls
      /\ around' = [around EXCEPT ![calls + 1] = Inside(t)]
      /\ Admitted(t, calls + 1) \/ Rejected(t, calls + 1) \/ EntryFails(t, calls + 1)
      /\ UNCHANGED <<struck, cancels, cancelling>>
  BY <1>1 DEF Enter
<1>3. calls \in Nat /\ calls + 1 \in Rids /\ calls' \in 0..MaxCalls
  BY <1>2, Ints, Numbers DEF IInv, Rids
<1>4. Len(stack[t]) < MaxDepth
  <2>1. CASE flow[t] = "none"
    <3>1. stack[t] = <<>>
      BY <2>1 DEF IInv, StackInv
    <3>2. Len(stack[t]) = 0
      BY <3>1, StackTypes DEF IInv
    <3> QED
      BY <3>2, BoundsAssumption
  <2> QED
    BY <1>1, <2>1
<1>5. Syncs = {}
  BY <1>1, BoundsAssumption DEF IInv, StackInv, Syncs
<1>6. faults = 0 => cancelling[t] = 0
  <2>1. ~Leaving(t)
    BY <1>1 DEF Leaving
  <2>2. faults = 0 => ~(cancelling[t] > 0)
    BY <2>1 DEF IInv, UnwindInv
  <2> QED
    BY <2>2, Ints DEF IInv
<1>7. \A u \in Tasks : Inside(u) \subseteq 1..calls /\ calls + 1 \notin Inside(u)
  <2> SUFFICES ASSUME NEW u \in Tasks, NEW i \in DOMAIN stack[u]
               PROVE  stack[u][i].rid \in 1..calls /\ calls + 1 # stack[u][i].rid
    BY DEF Inside
  <2>1. stack[u][i].rid \in Rids /\ stack[u][i].rid <= calls
    BY StackTypes DEF IInv, AroundInv
  <2> QED
    BY <1>3, <2>1 DEF Rids
<1>8. \A u \in Tasks : Start(calls + 1) \notin Emitted(u) /\ ~HasEnd(u, calls + 1)
  BY <1>3, RecordsAreOld, RecordsDiffer DEF HasEnd
<1> QED
  BY <1>1, <1>2, <1>3, <1>4, <1>5, <1>6, <1>7, <1>8

LEMMA EnterIInv ==
    ASSUME IInv, NEW t \in Tasks, Arrive(t) \/ CallTool(t)
    PROVE  IInv'
<1>1. PICK r \in Rids : r = calls + 1
  BY Entry
<1>2. /\ calls \in Nat /\ r > calls /\ calls' = r /\ calls' \in 0..MaxCalls
      /\ around' = [around EXCEPT ![r] = Inside(t)]
      /\ Admitted(t, r) \/ Rejected(t, r) \/ EntryFails(t, r)
      /\ UNCHANGED <<struck, cancels, cancelling>>
      /\ Len(stack[t]) < MaxDepth /\ flow[t] \in {"none", "body"} /\ Syncs = {}
      /\ loop \in {NoTask, t}
      /\ faults = 0 => cancelling[t] = 0
      /\ Inside(t) \subseteq 1..calls /\ \A u \in Tasks : r \notin Inside(u)
      /\ \A u \in Tasks : Start(r) \notin Emitted(u) /\ ~HasEnd(u, r)
  BY <1>1, Entry
<1>3. /\ Start(r) \in Record /\ Limit(r) \in Record /\ End(r, "rate_limited") \in Record
      /\ trail[t] \in Seq(Record)
  BY RecordsDiffer, TrailTypes DEF IInv, Outcomes
<1>4. PICK recs \in {<<Start(r)>>, <<Start(r), Limit(r)>>,
                     <<Start(r), Limit(r), End(r, "rate_limited")>>} :
        /\ trail' = [trail EXCEPT ![t] = @ \o recs]
        /\ \/ Admitted(t, r) /\ recs = <<Start(r)>>
           \/ Rejected(t, r) /\ recs = <<Start(r), Limit(r), End(r, "rate_limited")>>
           \/ EntryFails(t, r)
  <2>1. CASE Admitted(t, r)
    BY <2>1 DEF Admitted, Emit
  <2>2. CASE Rejected(t, r)
    <3>1. trail' = [trail EXCEPT ![t] = @ \o <<Start(r), Limit(r)>> \o <<End(r, "rate_limited")>>]
      BY <2>2 DEF Rejected, EmitEnd
    <3>2. trail' = [trail EXCEPT ![t] = @ \o <<Start(r), Limit(r), End(r, "rate_limited")>>]
      BY <1>3, <3>1, PutTogether
    <3> QED
      BY <2>2, <3>2
  <2>3. CASE EntryFails(t, r)
    <3>1. PICK recs \in {<<Start(r)>>, <<Start(r), Limit(r)>>,
                     <<Start(r), Limit(r), End(r, "rate_limited")>>} : EmitRaises(t, recs)
      BY <2>3 DEF EntryFails
    <3> QED
      BY <2>3, <3>1 DEF EmitRaises
  <2> QED
    BY <1>2, <2>1, <2>2, <2>3
<1>5. /\ recs \in Seq(Record) /\ \A x \in Range(recs) : x.rid = r
      /\ Start(r) \in Range(recs) /\ \A o : End(r, o) \in Range(recs) => o = "rate_limited"
  <2>1. recs \in Seq(Record)
    <3>1. /\ <<Start(r)>> \in Seq(Record) /\ <<Start(r), Limit(r)>> \in Seq(Record)
          /\ <<Start(r), Limit(r), End(r, "rate_limited")>> \in Seq(Record)
      BY <1>3, PutTogether
    <3> QED
      BY <3>1
  <2>2. Range(recs) \in {{Start(r)}, {Start(r), Limit(r)}, {Start(r), Limit(r), End(r, "rate_limited")}}
    BY Emissions
  <2> QED
    BY <2>1, <2>2, RecordsDiffer
<1>6. /\ faults' \in Nat /\ faults' >= faults /\ faults' <= MaxPrintFaults
      /\ EntryFails(t, r) => faults' = faults + 1
      /\ ~EntryFails(t, r) => faults' = faults
  <2>1. faults \in Nat /\ faults <= MaxPrintFaults /\ MaxPrintFaults \in Nat
    BY Ints, Numbers DEF IInv
  <2>2. CASE EntryFails(t, r)
    <3>1. faults < MaxPrintFaults /\ faults' = faults + 1
      BY <2>2 DEF EntryFails, EmitRaises
    <3> QED
      BY <2>1, <2>2, <3>1
  <2>3. CASE ~EntryFails(t, r)
    BY <1>2, <2>1, <2>3 DEF Admitted, Rejected, Emit, EmitEnd
  <2> QED
    BY <2>2, <2>3
<1> DEFINE f == [rid |-> r, timer |-> "armed", saved |-> ctx[t], before |-> cancelling[t]]
<1>12. stack[t] \in Seq(Frame) /\ Len(stack[t]) \in Nat /\ DOMAIN stack[t] = 1..Len(stack[t])
  BY StackTypes DEF IInv
<1>7. /\ stack \in [Tasks -> Seq(Frame)] /\ flow \in [Tasks -> Flows]
      /\ exc \in [Tasks -> {"none", "error", "cancelled"}]
      /\ ctx \in [Tasks -> Rids \cup {NoRid}] /\ inFlight \in Int
      /\ cancelling \in [Tasks -> 0..(MaxDepth + MaxCancels)]
      /\ otel \in {"unset", "off", "on"}
      /\ span \in [Rids -> {"none", "open", "ended", "error", "cut off"}]
  BY StackTypes, Ints DEF IInv, TypeOK
<1>8. f \in Frame /\ f.rid = r /\ f.timer = "armed" /\ f.saved = ctx[t] /\ f.before = cancelling[t]
  BY <1>7 DEF Frame
<1> HIDE DEF f
<1>9. /\ stack' \in [Tasks -> Seq(Frame)] /\ \A u \in Tasks : u # t => stack'[u] = stack[u]
      /\ \/ /\ Admitted(t, r) /\ recs = <<Start(r)>>
            /\ stack' = [stack EXCEPT ![t] = Append(@, f)] /\ stack'[t] = Append(stack[t], f)
            /\ flow' = [flow EXCEPT ![t] = "body"] /\ loop' = t /\ exc' = exc
            /\ ctx' = [ctx EXCEPT ![t] = r] /\ inFlight' = inFlight + 1
            /\ metrics' = metrics /\ OpenSpan(r)
         \/ /\ Rejected(t, r) /\ recs = <<Start(r), Limit(r), End(r, "rate_limited")>>
            /\ ReturnTo(t, stack[t]) /\ UNCHANGED <<stack, ctx, inFlight, otel, span>>
            /\ metrics' = [metrics EXCEPT !["rate_limited"] = @ + 1]
         \/ /\ EntryFails(t, r)
            /\ ctx' \in {ctx, [ctx EXCEPT ![t] = IF stack[t] = <<>> THEN NoRid ELSE r]}
            /\ inFlight' = inFlight + 1 /\ RaiseTo(t, stack[t], "error")
            /\ UNCHANGED <<stack, otel, span, metrics>>
  <2>1. CASE Admitted(t, r) /\ recs = <<Start(r)>>
    <3>1. stack' = [stack EXCEPT ![t] = Append(@, f)]
      BY <2>1 DEF Admitted, f
    <3>2. stack'[t] = Append(stack[t], f) /\ Append(stack[t], f) \in Seq(Frame)
      <4>1. Append(stack[t], f) \in Seq(Frame)
        BY <1>12, <1>8, Pushed
      <4> QED
        BY <1>7, <3>1, <4>1
    <3>3. stack' \in [Tasks -> Seq(Frame)] /\ \A u \in Tasks : u # t => stack'[u] = stack[u]
      BY <1>7, <3>1, <3>2
    <3>4. /\ flow' = [flow EXCEPT ![t] = "body"] /\ loop' = t /\ exc' = exc
          /\ ctx' = [ctx EXCEPT ![t] = r] /\ inFlight' = inFlight + 1
          /\ metrics' = metrics /\ OpenSpan(r)
      BY <2>1 DEF Admitted, Emit
    <3> QED
      BY <2>1, <3>1, <3>2, <3>3, <3>4
  <2>2. CASE Rejected(t, r) /\ recs = <<Start(r), Limit(r), End(r, "rate_limited")>>
    BY <1>7, <2>2 DEF Rejected, EmitEnd, Count, traces
  <2>3. CASE EntryFails(t, r)
    <3>1. metrics' = metrics
      BY <2>3 DEF EntryFails, EmitRaises
    <3>2. /\ ctx' \in {ctx, [ctx EXCEPT ![t] = IF stack[t] = <<>> THEN NoRid ELSE r]}
          /\ inFlight' = inFlight + 1 /\ RaiseTo(t, stack[t], "error")
          /\ UNCHANGED <<stack, otel, span>>
      BY <2>3 DEF EntryFails, traces
    <3> QED
      BY <1>7, <2>3, <3>1, <3>2
  <2> QED
    BY <1>4, <2>1, <2>2, <2>3
<1>10. /\ flow' \in [Tasks -> Flows] /\ flow'[t] \in {"none", "body", "unwind"}
       /\ \A u \in Tasks : u # t => flow'[u] = flow[u] /\ exc'[u] = exc[u] /\ ctx'[u] = ctx[u]
       /\ exc' \in [Tasks -> {"none", "error", "cancelled"}] /\ loop' \in Tasks \cup {NoTask}
       /\ ctx' \in [Tasks -> Rids \cup {NoRid}] /\ ctx'[t] \in {ctx[t], r, NoRid}
       /\ inFlight' \in Int /\ otel' \in {"unset", "off", "on"}
       /\ span' \in [Rids -> {"none", "open", "ended", "error", "cut off"}]
       /\ faults' = 0 => flow'[t] \in {"none", "body"}
       /\ flow'[t] = "none" <=> stack'[t] = <<>>
  <2>1. CASE /\ Admitted(t, r)
             /\ stack'[t] = Append(stack[t], f)
             /\ flow' = [flow EXCEPT ![t] = "body"] /\ loop' = t /\ exc' = exc
             /\ ctx' = [ctx EXCEPT ![t] = r] /\ inFlight' = inFlight + 1
             /\ OpenSpan(r)
    <3>1. stack'[t] # <<>>
      BY <1>12, <1>8, <2>1, Pushed
    <3>2. /\ otel' \in {"unset", "off", "on"}
          /\ span' \in [Rids -> {"none", "open", "ended", "error", "cut off"}]
      BY <1>7, <2>1 DEF OpenSpan, InitOtel
    <3>3. /\ flow' \in [Tasks -> Flows] /\ flow'[t] = "body"
          /\ \A u \in Tasks : u # t => flow'[u] = flow[u]
      BY <1>7, <2>1 DEF Flows
    <3>4. /\ \A u \in Tasks : u # t => exc'[u] = exc[u] /\ ctx'[u] = ctx[u]
          /\ ctx' \in [Tasks -> Rids \cup {NoRid}] /\ ctx'[t] = r
      BY <1>7, <2>1
    <3>5. exc' = exc /\ loop' = t /\ inFlight' \in Int
      BY <2>1, Ints DEF IInv
    <3> QED
      BY <1>7, <3>1, <3>2, <3>3, <3>4, <3>5
  <2>2. CASE /\ Rejected(t, r)
             /\ ReturnTo(t, stack[t]) /\ UNCHANGED <<stack, ctx, inFlight, otel, span>>
    BY <1>7, <2>2 DEF ReturnTo, Flows
  <2>3. CASE /\ EntryFails(t, r)
             /\ ctx' \in {ctx, [ctx EXCEPT ![t] = IF stack[t] = <<>> THEN NoRid ELSE r]}
             /\ inFlight' = inFlight + 1 /\ RaiseTo(t, stack[t], "error")
             /\ UNCHANGED <<stack, otel, span, metrics>>
    <3>1. faults' # 0
      BY <1>6, <2>3, Ints DEF IInv
    <3>2. /\ flow' \in [Tasks -> Flows] /\ flow'[t] \in {"none", "unwind"}
          /\ \A u \in Tasks : u # t => flow'[u] = flow[u]
          /\ flow'[t] = "none" <=> stack[t] = <<>>
      BY <1>7, <2>3 DEF Flows, RaiseTo
    <3>3. /\ \A u \in Tasks : u # t => exc'[u] = exc[u]
          /\ exc' \in [Tasks -> {"none", "error", "cancelled"}] /\ loop' \in Tasks \cup {NoTask}
      BY <1>7, <2>3 DEF RaiseTo
    <3>4. /\ \A u \in Tasks : u # t => ctx'[u] = ctx[u]
          /\ ctx' \in [Tasks -> Rids \cup {NoRid}] /\ ctx'[t] \in {ctx[t], r, NoRid}
      <4>1. CASE ctx' = ctx
        BY <1>7, <4>1
      <4>2. CASE ctx' = [ctx EXCEPT ![t] = IF stack[t] = <<>> THEN NoRid ELSE r]
        BY <1>7, <4>2
      <4> QED
        BY <2>3, <4>1, <4>2
    <3>5. inFlight' \in Int /\ stack' = stack /\ otel' = otel /\ span' = span
      BY <2>3, Ints DEF IInv
    <3> QED
      BY <1>7, <3>1, <3>2, <3>3, <3>4, <3>5
  <2> QED
    BY <1>9, <2>1, <2>2, <2>3
<1>11. /\ \A i \in DOMAIN stack[t] : i \in DOMAIN stack'[t] /\ stack'[t][i] = stack[t][i]
       /\ \A i \in DOMAIN stack'[t] : \/ i \in DOMAIN stack[t]
                                      \/ /\ i = Len(stack[t]) + 1 /\ stack'[t][i] = f
                                         /\ recs = <<Start(r)>> /\ Admitted(t, r)
       /\ Len(stack'[t]) \in {Len(stack[t]), Len(stack[t]) + 1} /\ Len(stack'[t]) <= MaxDepth
       /\ DOMAIN stack'[t] = 1..Len(stack'[t])
       /\ stack'[t] = <<>> => stack[t] = <<>>
       /\ Inside(t) \subseteq Inside(t)'
       /\ \A u \in Tasks : \A q \in Inside(u)' :
             q \in Inside(u) \/ (u = t /\ q = r /\ recs = <<Start(r)>> /\ Admitted(t, r))
       /\ Admitted(t, r) /\ stack' = [stack EXCEPT ![t] = Append(@, f)] => r \in Inside(t)'
  <2>1. CASE stack' = stack
    <3>1. \A u \in Tasks : Inside(u)' = Inside(u)
      BY <2>1 DEF Inside
    <3>2. stack' # [stack EXCEPT ![t] = Append(@, f)]
      <4>1. Append(stack[t], f) # stack[t]
        BY <1>12, <1>8, Pushed
      <4> QED
        BY <1>7, <2>1, <4>1
    <3>3. Len(stack'[t]) = Len(stack[t]) /\ Len(stack'[t]) <= MaxDepth
      BY <1>2, <1>12, <2>1, Numbers
    <3>4. stack'[t] = stack[t] /\ DOMAIN stack'[t] = 1..Len(stack'[t])
      BY <1>12, <2>1
    <3> QED
      BY <3>1, <3>2, <3>3, <3>4
  <2>2. CASE /\ Admitted(t, r) /\ recs = <<Start(r)>>
             /\ stack' = [stack EXCEPT ![t] = Append(@, f)] /\ stack'[t] = Append(stack[t], f)
    <3>1. /\ Len(stack'[t]) = Len(stack[t]) + 1 /\ DOMAIN stack'[t] = 1..(Len(stack[t]) + 1)
          /\ \A i \in 1..Len(stack[t]) : stack'[t][i] = stack[t][i]
          /\ stack'[t][Len(stack[t]) + 1] = f /\ stack'[t] # <<>>
      BY <1>12, <1>8, <2>2, Pushed
    <3>2. \A i \in DOMAIN stack[t] : i \in DOMAIN stack'[t] /\ stack'[t][i] = stack[t][i]
      BY <1>12, <3>1
    <3>3. \A i \in DOMAIN stack'[t] : i \in DOMAIN stack[t] \/ (i = Len(stack[t]) + 1 /\ stack'[t][i] = f)
      BY <1>12, <3>1
    <3>4. Len(stack'[t]) <= MaxDepth
      BY <1>2, <1>12, <3>1, Numbers
    <3>5. Inside(t) \subseteq Inside(t)'
      BY <3>2 DEF Inside
    <3>6. \A u \in Tasks : \A q \in Inside(u)' : q \in Inside(u) \/ (u = t /\ q = r)
      BY <1>8, <1>9, <3>2, <3>3 DEF Inside
    <3>7. r \in Inside(t)'
      <4>1. Len(stack[t]) + 1 \in DOMAIN stack'[t] /\ stack'[t][Len(stack[t]) + 1].rid = r
        BY <1>12, <1>8, <3>1
      <4> QED
        BY <4>1 DEF Inside
    <3> QED
      BY <2>2, <3>1, <3>2, <3>3, <3>4, <3>5, <3>6, <3>7
  <2> QED
    BY <1>9, <2>1, <2>2
<1>13. /\ trail' \in [Tasks -> Seq(Record)] /\ trail'[t] = trail[t] \o recs
       /\ \A u \in Tasks : u # t => trail'[u] = trail[u] /\ Emitted(u)' = Emitted(u)
       /\ Emitted(t)' = Emitted(t) \cup Range(recs)
       /\ \A u \in Tasks : \A q : q # r =>
             /\ Start(q) \in Emitted(u)' <=> Start(q) \in Emitted(u)
             /\ \A o : End(q, o) \in Emitted(u)' <=> End(q, o) \in Emitted(u)
             /\ HasEnd(u, q)' <=> HasEnd(u, q)
       /\ \A u \in Tasks : \A i \in DOMAIN trail'[u] :
             \/ trail'[u][i].rid = r
             \/ i \in DOMAIN trail[u] /\ trail'[u][i] = trail[u][i]
       /\ \A o \in Outcomes :
             /\ IsFiniteSet(Ended(o)')
             /\ Cardinality(Ended(o)')
                   = Cardinality(Ended(o)) + (IF End(r, o) \in Range(recs) THEN 1 ELSE 0)
  BY <1>2, <1>4, <1>5, Emitting
<1>14. /\ Start(r) \in Emitted(t)'
       /\ \A o : End(r, o) \in Emitted(t)' /\ o \in Outcomes => o = "rate_limited"
       /\ recs = <<Start(r)>> => ~HasEnd(t, r)'
       /\ recs = <<Start(r), Limit(r), End(r, "rate_limited")>> => End(r, "rate_limited") \in Emitted(t)'
       /\ \A u \in Tasks : u # t => Start(r) \notin Emitted(u)' /\ ~HasEnd(u, r)'
  <2>1. \A o \in Outcomes : End(r, o) \notin Emitted(t)
    BY <1>2 DEF HasEnd
  <2>2. recs = <<Start(r)>> => Range(recs) = {Start(r)}
    BY Emissions
  <2>3. recs = <<Start(r), Limit(r), End(r, "rate_limited")>> => End(r, "rate_limited") \in Range(recs)
    BY Emissions
  <2>4. recs = <<Start(r)>> => ~HasEnd(t, r)'
    BY <1>13, <2>1, <2>2, RecordsDiffer DEF HasEnd
  <2>5. \A u \in Tasks : u # t => Start(r) \notin Emitted(u)' /\ ~HasEnd(u, r)'
    BY <1>2, <1>13 DEF HasEnd
  <2> QED
    BY <1>5, <1>13, <2>1, <2>3, <2>4, <2>5
<1>15. StackInv'
  <2>1. ASSUME NEW u \in Tasks
        PROVE  /\ Len(stack'[u]) <= MaxDepth
               /\ flow'[u] \in {"none", "sync"} <=> stack'[u] = <<>>
               /\ flow'[u] = "sync" => loop' = u
    <3>1. CASE u = t
      BY <1>10, <1>11, <3>1
    <3>2. CASE u # t
      <4>1. stack'[u] = stack[u] /\ flow'[u] = flow[u] /\ flow[u] # "sync"
        BY <1>2, <1>9, <1>10, <3>2 DEF Syncs
      <4> QED
        BY <4>1 DEF IInv, StackInv
    <3> QED
      BY <3>1, <3>2
  <2>2. ASSUME NEW u \in Tasks, NEW v \in Tasks, NEW i \in DOMAIN stack'[u], NEW j \in DOMAIN stack'[v],
               stack'[u][i].rid = stack'[v][j].rid
        PROVE  u = v /\ i = j
    <3>1. \A w \in Tasks : \A k \in DOMAIN stack'[w] :
            \/ k \in DOMAIN stack[w] /\ stack'[w][k] = stack[w][k] /\ stack[w][k].rid # r
            \/ w = t /\ k = Len(stack[t]) + 1 /\ stack'[w][k].rid = r
      <4> SUFFICES ASSUME NEW w \in Tasks, NEW k \in DOMAIN stack'[w]
                   PROVE  \/ k \in DOMAIN stack[w] /\ stack'[w][k] = stack[w][k] /\ stack[w][k].rid # r
                          \/ w = t /\ k = Len(stack[t]) + 1 /\ stack'[w][k].rid = r
        OBVIOUS
      <4>1. k \in DOMAIN stack[w] => stack[w][k].rid # r
        BY <1>2 DEF Inside
      <4>2. CASE w = t
        BY <1>8, <1>11, <4>1, <4>2
      <4>3. CASE w # t
        BY <1>9, <4>1, <4>3
      <4> QED
        BY <4>2, <4>3
    <3> QED
      BY <2>2, <3>1 DEF IInv, StackInv
  <2> QED
    BY <2>1, <2>2 DEF StackInv
<1>16. /\ around' \in [Rids -> SUBSET Rids] /\ around'[r] = Inside(t)
       /\ \A q \in Rids : q # r => around'[q] = around[q]
       /\ \A q \in Rids : q <= calls => q # r /\ around'[q] = around[q]
  <2>1. around \in [Rids -> SUBSET Rids]
    BY DEF IInv, TypeOK
  <2>2. Inside(t) \in SUBSET Rids
    BY StackTypes DEF IInv, Inside
  <2>3. \A q \in Rids : q <= calls => q # r
    BY <1>2, Numbers
  <2> QED
    BY <1>2, <2>1, <2>2, <2>3
<1>18. /\ \A q \in Rids : q <= calls => q <= calls'
       /\ \A q \in 1..calls' : q \in Rids /\ (q \in 1..calls \/ q = r)
       /\ r <= calls' /\ NoRid <= calls'
  <2>1. calls \in Nat /\ calls' = calls + 1 /\ r = calls + 1 /\ r <= MaxCalls
    BY <1>1, <1>2 DEF Rids
  <2> QED
    BY <2>1, BoundsAssumption DEF Rids, NoRid
<1>17. AroundInv'
  <2>1. ASSUME NEW u \in Tasks, NEW i \in DOMAIN stack'[u]
        PROVE  stack'[u][i].rid <= calls' /\ around'[stack'[u][i].rid] = Below(u, i)'
    <3>1. CASE i \in DOMAIN stack[u]
      <4>1. stack[u][i].rid <= calls /\ around[stack[u][i].rid] = Below(u, i) /\ stack[u][i].rid \in Rids
        BY <3>1, StackTypes DEF IInv, AroundInv
      <4>2. \A j \in 1..(i - 1) : j \in DOMAIN stack[u]
        BY <3>1, StackTypes DEF IInv
      <4>3. Below(u, i)' = Below(u, i) /\ stack'[u][i] = stack[u][i]
        <5>1. CASE u = t
          BY <1>11, <3>1, <4>2, <5>1 DEF Below
        <5>2. CASE u # t
          BY <1>9, <5>2 DEF Below
        <5> QED
          BY <5>1, <5>2
      <4>4. stack[u][i].rid <= calls'
        BY <1>18, <4>1
      <4> QED
        BY <1>16, <4>1, <4>3, <4>4
    <3>2. CASE i \notin DOMAIN stack[u]
      <4>1. u = t /\ i = Len(stack[t]) + 1 /\ stack'[t][i].rid = r
        BY <1>8, <1>9, <1>11, <3>2
      <4>2. Below(t, i)' = Inside(t)
        <5>1. 1..(i - 1) = DOMAIN stack[t]
          BY <1>12, <4>1
        <5>2. \A k \in DOMAIN stack[t] : stack'[t][k] = stack[t][k]
          BY <1>11
        <5>3. Below(t, i)' = {stack'[t][k].rid : k \in DOMAIN stack[t]}
          BY <5>1 DEF Below
        <5> QED
          BY <5>2, <5>3 DEF Inside
      <4> QED
        BY <1>16, <1>18, <4>1, <4>2
    <3> QED
      BY <3>1, <3>2
  <2>2. ASSUME NEW q \in 1..calls', NEW a \in around'[q]
        PROVE  a <= calls' /\ around'[a] \subseteq around'[q]
    <3>1. q \in Rids /\ (q \in 1..calls \/ q = r)
      BY <1>18
    <3>2. CASE q \in 1..calls
      <4>1. around'[q] = around[q]
        BY <1>16, <3>1, <3>2
      <4>2. around[q] \subseteq Rids
        BY <3>1 DEF IInv, TypeOK
      <4>3. a \in Rids /\ a <= calls /\ around[a] \subseteq around[q]
        BY <2>2, <3>2, <4>1, <4>2 DEF IInv, AroundInv
      <4> QED
        BY <1>16, <1>18, <4>1, <4>3
    <3>3. CASE q = r
      <4>1. PICK j \in DOMAIN stack[t] : a = stack[t][j].rid
        BY <1>16, <2>2, <3>3 DEF Inside
      <4>2. a \in Rids /\ a <= calls /\ around[a] = Below(t, j)
        BY <4>1, StackTypes DEF IInv, AroundInv
      <4>3. Below(t, j) \subseteq Inside(t)
        <5>1. \A k \in 1..(j - 1) : k \in DOMAIN stack[t]
          BY <1>12, <4>1
        <5> QED
          BY <5>1 DEF Below, Inside
      <4> QED
        BY <1>16, <1>18, <3>3, <4>2, <4>3
    <3> QED
      BY <3>1, <3>2, <3>3
  <2> QED
    BY <2>1, <2>2 DEF AroundInv
<1>19. faults' = 0 => /\ faults = 0 /\ ~EntryFails(t, r) /\ cancelling[t] = 0
                      /\ flow'[t] \in {"none", "body"}
                      /\ Admitted(t, r) \/ Rejected(t, r)
  <2>1. faults' = 0 => faults = 0 /\ ~EntryFails(t, r)
    <3>1. faults \in Nat
      BY Ints DEF IInv
    <3> QED
      BY <1>6, <3>1
  <2>2. faults' = 0 => flow'[t] \in {"none", "body"}
    BY <1>10
  <2> QED
    BY <1>2, <2>1, <2>2
<1>20. TimerInv'
  <2> SUFFICES ASSUME NEW u \in Tasks
               PROVE  \E g \in 0..Len(stack'[u]) :
                        /\ \A j \in DOMAIN stack'[u] : stack'[u][j].timer = "fired" <=> j <= g
                        /\ cancelling'[u] \in g..(g + cancels')
                        /\ stack'[u] = <<>> => cancelling'[u] = 0
                        /\ faults' = 0 /\ cancelling'[u] > g => Inside(u)' \subseteq struck'
    BY DEF TimerInv
  <2>1. PICK g \in 0..Len(stack[u]) :
          /\ \A j \in DOMAIN stack[u] : stack[u][j].timer = "fired" <=> j <= g
          /\ cancelling[u] \in g..(g + cancels)
          /\ stack[u] = <<>> => cancelling[u] = 0
          /\ faults = 0 /\ cancelling[u] > g => Inside(u) \subseteq struck
    BY DEF IInv, TimerInv
  <2>2. CASE u = t
    <3>1. g \in 0..Len(stack'[t])
      BY <1>11, <1>12, <2>1, <2>2
    <3>2. \A j \in DOMAIN stack'[t] : stack'[t][j].timer = "fired" <=> j <= g
      <4> SUFFICES ASSUME NEW j \in DOMAIN stack'[t]
                   PROVE  stack'[t][j].timer = "fired" <=> j <= g
        OBVIOUS
      <4>1. CASE j \in DOMAIN stack[t]
        BY <1>11, <2>1, <2>2, <4>1
      <4>2. CASE j \notin DOMAIN stack[t]
        <5>1. j = Len(stack[t]) + 1 /\ stack'[t][j] = f
          BY <1>11, <4>2
        <5>2. ~(j <= g)
          BY <1>12, <2>1, <2>2, <5>1
        <5> QED
          BY <1>8, <5>1, <5>2
      <4> QED
        BY <4>1, <4>2
    <3>3. stack'[t] = <<>> => cancelling'[t] = 0
      BY <1>2, <1>11, <2>1, <2>2
    <3>4. ~(faults' = 0 /\ cancelling'[t] > g)
      <4>1. g \in Nat
        BY <1>12, <2>1, <2>2
      <4>2. faults' = 0 => cancelling'[t] = 0
        BY <1>2, <1>19
      <4> QED
        BY <4>1, <4>2
    <3>5. cancelling'[t] \in g..(g + cancels')
      BY <1>2, <2>1, <2>2
    <3> QED
      BY <2>2, <3>1, <3>2, <3>3, <3>4, <3>5
  <2>3. CASE u # t
    <3>1. stack'[u] = stack[u] /\ Inside(u)' = Inside(u)
      BY <1>9, <2>3 DEF Inside
    <3>2. cancelling' = cancelling /\ cancels' = cancels /\ struck' = struck
      BY <1>2
    <3> QED
      BY <1>19, <2>1, <3>1, <3>2
  <2> QED
    BY <2>2, <2>3
<1>21. UnwindInv'
  <2> SUFFICES ASSUME faults' = 0, NEW u \in Tasks
               PROVE  /\ cancelling'[u] > 0 <=> Leaving(u)'
                      /\ \A i \in DOMAIN stack'[u] : stack'[u][i].before = 0
    BY DEF UnwindInv
  <2>1. /\ cancelling[u] > 0 <=> Leaving(u)
        /\ \A i \in DOMAIN stack[u] : stack[u][i].before = 0
    BY <1>19 DEF IInv, UnwindInv
  <2>2. cancelling' = cancelling /\ cancelling[t] = 0
    BY <1>2, <1>19
  <2>3. CASE u = t
    <3>1. ~Leaving(t)'
      BY <1>19 DEF Leaving
    <3>2. \A i \in DOMAIN stack'[t] : stack'[t][i].before = 0
      BY <1>8, <1>11, <2>1, <2>2, <2>3
    <3> QED
      BY <2>2, <2>3, <3>1, <3>2
  <2>4. CASE u # t
    <3>1. Leaving(u)' <=> Leaving(u)
      BY <1>10, <2>4 DEF Leaving
    <3> QED
      BY <1>9, <2>1, <2>2, <2>4, <3>1
  <2> QED
    BY <2>3, <2>4
<1>22. ContextInv' /\ ContextIsInnermost'
  <2>1. ASSUME NEW u \in Tasks
        PROVE  ctx'[u] <= calls' /\ \A i \in DOMAIN stack'[u] : stack'[u][i].saved <= calls'
    <3>1. /\ ctx[u] <= calls /\ ctx[u] \in Nat
          /\ \A i \in DOMAIN stack[u] : stack[u][i].saved <= calls /\ stack[u][i].saved \in Nat
      <4>1. ctx[u] <= calls /\ \A i \in DOMAIN stack[u] : stack[u][i].saved <= calls
        BY DEF IInv, ContextInv
      <4>2. ctx[u] \in Nat /\ \A i \in DOMAIN stack[u] : stack[u][i].saved \in Nat
        BY <1>7, StackTypes, Numbers DEF IInv
      <4> QED
        BY <4>1, <4>2
    <3>2. \A n \in Nat : n <= calls => n <= calls'
      BY <1>2
    <3>3. ctx'[u] <= calls'
      <4>1. ctx'[u] \in {ctx[u], r, NoRid}
        BY <1>10
      <4> QED
        BY <1>18, <3>1, <3>2, <4>1
    <3>4. CASE u = t
      BY <1>8, <1>11, <3>1, <3>2, <3>3, <3>4
    <3>5. CASE u # t
      BY <1>9, <3>1, <3>2, <3>3, <3>5
    <3> QED
      BY <3>4, <3>5
  <2>2. ASSUME faults' = 0, NEW u \in Tasks, NEW i \in DOMAIN stack'[u]
        PROVE  stack'[u][i].saved = IF i = 1 THEN NoRid ELSE stack'[u][i - 1].rid
    <3>1. CASE i \in DOMAIN stack[u]
      <4>1. stack[u][i].saved = IF i = 1 THEN NoRid ELSE stack[u][i - 1].rid
        BY <1>19, <2>2, <3>1 DEF IInv, ContextInv
      <4>2. i # 1 => i - 1 \in DOMAIN stack[u]
        BY <3>1, StackTypes DEF IInv
      <4>3. stack'[u][i] = stack[u][i] /\ (i # 1 => stack'[u][i - 1] = stack[u][i - 1])
        BY <1>9, <1>11, <3>1, <4>2
      <4> QED
        BY <4>1, <4>3
    <3>2. CASE i \notin DOMAIN stack[u]
      <4>1. u = t /\ i = Len(stack[t]) + 1 /\ stack'[t][i].saved = ctx[t]
        BY <1>8, <1>9, <1>11, <3>2
      <4>2. ctx[t] = IF stack[t] = <<>> THEN NoRid ELSE stack[t][Len(stack[t])].rid
        BY <1>19, <2>2 DEF IInv, ContextIsInnermost, Last
      <4>3. CASE stack[t] = <<>>
        <5>1. i = 1
          BY <4>1, <4>3, StackTypes DEF IInv
        <5> QED
          BY <4>1, <4>2, <4>3, <5>1
      <4>4. CASE stack[t] # <<>>
        <5>1. Len(stack[t]) \in DOMAIN stack[t] /\ i # 1 /\ i - 1 = Len(stack[t])
          BY <1>12, <4>1, <4>4, StackTypes DEF IInv
        <5>2. stack'[t][i - 1] = stack[t][Len(stack[t])]
          BY <1>11, <5>1
        <5> QED
          BY <4>1, <4>2, <4>4, <5>1, <5>2
      <4> QED
        BY <4>3, <4>4
    <3> QED
      BY <3>1, <3>2
  <2>3. ASSUME faults' = 0, NEW u \in Tasks
        PROVE  ctx'[u] = IF stack'[u] = <<>> THEN NoRid ELSE Last(stack'[u]).rid
    <3>1. ctx[u] = IF stack[u] = <<>> THEN NoRid ELSE Last(stack[u]).rid
      BY <1>19, <2>3 DEF IInv, ContextIsInnermost
    <3>2. CASE stack'[u] = stack[u] /\ ctx'[u] = ctx[u]
      BY <3>1, <3>2
    <3>3. CASE u = t /\ stack'[t] = Append(stack[t], f) /\ ctx' = [ctx EXCEPT ![t] = r]
      <4>1. stack'[t] # <<>> /\ Last(stack'[t]) = f
        BY <1>8, <1>12, <3>3, Pushed DEF Last
      <4> QED
        BY <1>7, <1>8, <3>3, <4>1
    <3> QED
      BY <1>9, <1>10, <1>19, <2>3, <3>2, <3>3
  <2> QED
    BY <2>1, <2>2, <2>3 DEF ContextInv, ContextIsInnermost
<1>23. TrailInv'
  <2>1. ASSUME NEW u \in Tasks, NEW i \in DOMAIN trail'[u]
        PROVE  trail'[u][i].rid <= calls' /\ (faults' = 0 => trail'[u][i].rid # NoRid)
    <3>1. CASE trail'[u][i].rid = r
      BY <1>18, <3>1, Numbers
    <3>2. CASE i \in DOMAIN trail[u] /\ trail'[u][i] = trail[u][i]
      <4>1. trail[u][i].rid <= calls /\ (faults = 0 => trail[u][i].rid # NoRid) /\ trail[u][i].rid \in Nat
        BY <3>2, TrailTypes, Numbers DEF IInv, TrailInv
      <4>2. \A n \in Nat : n <= calls => n <= calls'
        BY <1>2
      <4> QED
        BY <1>19, <3>2, <4>1, <4>2
    <3> QED
      BY <1>13, <3>1, <3>2
  <2>2. ASSUME NEW v \in Tasks, NEW u \in Tasks, NEW q \in Inside(v)'
        PROVE  ~HasEnd(u, q)' /\ (Start(q) \in Emitted(u)' => u = v)
    <3>1. CASE q \in Inside(v) /\ q # r
      BY <1>13, <3>1 DEF IInv, TrailInv
    <3>2. CASE v = t /\ q = r /\ recs = <<Start(r)>>
      <4>1. CASE u = t
        BY <1>14, <3>2, <4>1
      <4>2. CASE u # t
        BY <1>14, <3>2, <4>2
      <4> QED
        BY <4>1, <4>2
    <3> QED
      BY <1>2, <1>11, <3>1, <3>2
  <2> QED
    BY <2>1, <2>2 DEF TrailInv
<1>24. RecordsNest'
  <2> SUFFICES ASSUME faults' = 0, NEW u \in Tasks PROVE Nests(around', trail'[u])
    BY DEF RecordsNest
  <2>1. \A v \in Tasks : \A i \in DOMAIN trail[v] :
          /\ trail[v][i].rid \in Rids /\ trail[v][i].rid # r
          /\ around'[trail[v][i].rid] = around[trail[v][i].rid]
          /\ r \notin around[trail[v][i].rid]
    <3> SUFFICES ASSUME NEW v \in Tasks, NEW i \in DOMAIN trail[v]
                 PROVE  /\ trail[v][i].rid \in Rids /\ trail[v][i].rid # r
                        /\ around'[trail[v][i].rid] = around[trail[v][i].rid]
                        /\ r \notin around[trail[v][i].rid]
      OBVIOUS
    <3>1. trail[v][i].rid \in Rids \cup {NoRid} /\ trail[v][i].rid # NoRid /\ trail[v][i].rid <= calls
      BY <1>19, TrailTypes DEF IInv, TrailInv
    <3>2. PICK q \in Rids : q = trail[v][i].rid /\ q <= calls
      BY <3>1
    <3>3. q # r /\ around'[q] = around[q]
      BY <1>16, <3>2
    <3>4. r \notin around[q]
      <4>1. q \in 1..calls
        BY <1>2, <3>2 DEF Rids
      <4>2. \A a \in around[q] : a <= calls
        BY <4>1 DEF IInv, AroundInv
      <4> QED
        BY <1>2, <4>2
    <3> QED
      BY <3>2, <3>3, <3>4
  <2>2. \A v \in Tasks : Nests(around', trail[v])
    <3>1. \A v \in Tasks : Nests(around, trail[v])
      BY <1>19 DEF IInv, RecordsNest
    <3> QED
      BY <2>1, <3>1 DEF Nests, Follows
  <2>3. CASE u = t
    <3>1. /\ Start(r).rid = r /\ Limit(r).rid = r /\ End(r, "rate_limited").rid = r
          /\ Start(r).event = "start" /\ Limit(r).event = "limit"
          /\ End(r, "rate_limited").event = "end"
      BY RecordsDiffer
    <3>2. /\ \A j \in DOMAIN recs : recs[j].rid = r
          /\ \A j \in DOMAIN recs : recs[j].event = "start" => j = 1
          /\ \A i, j \in DOMAIN recs : i < j => recs[i].event # "end"
          /\ DOMAIN recs \subseteq {1, 2, 3}
      <4>1. CASE recs = <<Start(r)>>
        BY <3>1, <4>1
      <4>2. CASE recs = <<Start(r), Limit(r)>>
        BY <3>1, <4>2
      <4>3. CASE recs = <<Start(r), Limit(r), End(r, "rate_limited")>>
        BY <3>1, <4>3
      <4> QED
        BY <4>1, <4>2, <4>3
    <3>3. Nests(around', recs)
      <4>1. \A i, j \in DOMAIN recs : i < j => recs[j].event # "start"
        BY <3>2
      <4> QED
        BY <3>2, <4>1 DEF Nests, Follows
    <3>4. \A i \in DOMAIN trail[t], j \in DOMAIN recs : Follows(around', trail[t][i], recs[j])
      <4> SUFFICES ASSUME NEW i \in DOMAIN trail[t], NEW j \in DOMAIN recs
                   PROVE  Follows(around', trail[t][i], recs[j])
        OBVIOUS
      <4>1. trail[t][i].event = "end" => trail[t][i].rid \notin Inside(t)
        <5>1. CASE stack[t] = <<>>
          <6>1. Inside(t) = {}
            BY <5>1 DEF Inside
          <6> QED
            BY <6>1
        <5>2. CASE stack[t] # <<>>
          BY <5>2, TopIsLive
        <5> QED
          BY <5>1, <5>2
      <4>2. /\ recs[j].rid = r /\ around'[r] = Inside(t) /\ trail[t][i].rid # r
            /\ r \notin around'[trail[t][i].rid]
        BY <1>16, <2>1, <3>2
      <4> QED
        BY <4>1, <4>2 DEF Follows
    <3>5. trail[t] \in Seq(Record) /\ trail'[t] = trail[t] \o recs /\ recs \in Seq(Record)
      BY <1>3, <1>5, <1>13
    <3>6. Nests(around', trail[t])
      BY <2>2
    <3>7. Nests(around', trail[t] \o recs)
      BY <3>3, <3>4, <3>5, <3>6, NestsJoined
    <3> QED
      BY <2>3, <3>5, <3>7
  <2>4. CASE u # t
    BY <1>13, <2>2, <2>4
  <2> QED
    BY <2>3, <2>4
<1>25. Live \subseteq Live' /\ \A q \in Live' : q \in Live \/ (q = r /\ Admitted(t, r) /\ recs = <<Start(r)>>)
  <2>1. \A u \in Tasks : Inside(u) \subseteq Inside(u)'
    <3>1. \A u \in Tasks : u # t => Inside(u)' = Inside(u)
      BY <1>9 DEF Inside
    <3> QED
      BY <1>11, <3>1
  <2>2. Live \subseteq Live'
    BY <2>1 DEF Live
  <2>3. \A q \in Live' : q \in Live \/ (q = r /\ Admitted(t, r) /\ recs = <<Start(r)>>)
    BY <1>11 DEF Live
  <2> QED
    BY <2>2, <2>3
<1>26. ASSUME NEW u \in Tasks, NEW q \in Rids, Start(q) \in Emitted(u)', q # r
       PROVE  /\ Start(q) \in Emitted(u) /\ q \in Rids /\ around'[q] = around[q]
              /\ q \in Live' <=> q \in Live
              /\ HasEnd(u, q)' <=> HasEnd(u, q)
  BY <1>13, <1>16, <1>25, <1>26
<1>27. UnmatchedStartsExplained'
  <2> SUFFICES ASSUME faults' = 0, NEW u \in Tasks, NEW q \in Rids,
                      Start(q) \in Emitted(u)', ~HasEnd(u, q)'
               PROVE  \/ q \in Live'
                      \/ ({q} \cup around'[q]) \cap struck' # {}
                      \/ \E a \in around'[q] :
                            \/ End(a, "timeout") \in Emitted(u)'
                            \/ \E i \in DOMAIN stack'[u] :
                                  stack'[u][i].rid = a /\ stack'[u][i].timer = "fired"
    BY DEF UnmatchedStartsExplained
  <2>1. CASE q = r
    <3>1. u = t
      BY <1>14, <2>1
    <3>2. CASE recs = <<Start(r)>> /\ Admitted(t, r) /\ stack' = [stack EXCEPT ![t] = Append(@, f)]
      BY <1>11, <2>1, <3>2 DEF Live
    <3>3. CASE recs = <<Start(r), Limit(r), End(r, "rate_limited")>>
      BY <1>14, <2>1, <3>1, <3>3 DEF HasEnd, Outcomes
    <3> QED
      BY <1>9, <1>19, <3>2, <3>3
  <2>2. CASE q # r
    <3>1. /\ Start(q) \in Emitted(u) /\ ~HasEnd(u, q) /\ around'[q] = around[q] /\ struck' = struck
          /\ q \in Live => q \in Live'
      BY <1>2, <1>26, <2>2
    <3>2. \/ q \in Live
          \/ ({q} \cup around[q]) \cap struck # {}
          \/ \E a \in around[q] :
                \/ End(a, "timeout") \in Emitted(u)
                \/ \E i \in DOMAIN stack[u] : stack[u][i].rid = a /\ stack[u][i].timer = "fired"
      BY <1>19, <3>1 DEF IInv, UnmatchedStartsExplained
    <3>3. ASSUME NEW a \in around[q], End(a, "timeout") \in Emitted(u)
          PROVE  End(a, "timeout") \in Emitted(u)'
      BY <1>13, <3>3
    <3>4. \A i \in DOMAIN stack[u] : i \in DOMAIN stack'[u] /\ stack'[u][i] = stack[u][i]
      BY <1>9, <1>11
    <3> QED
      BY <3>1, <3>2, <3>3, <3>4
  <2> QED
    BY <2>1, <2>2
<1>28. TimeoutsAreOutermost'
  <2> SUFFICES ASSUME faults' = 0, NEW u \in Tasks, NEW q \in Rids, End(q, "timeout") \in Emitted(u)'
               PROVE  around'[q] = {}
    BY DEF TimeoutsAreOutermost
  <2>1. q # r
    BY <1>14 DEF HasEnd, Outcomes
  <2>2. End(q, "timeout") \in Emitted(u)
    BY <1>13, <2>1
  <2> QED
    BY <1>16, <1>19, <2>1, <2>2 DEF IInv, TimeoutsAreOutermost
<1>29. SpanInv'
  <2>1. \A q \in Rids : q # r => span'[q] = span[q]
    <3>1. CASE OpenSpan(r)
      BY <1>7, <3>1 DEF OpenSpan
    <3>2. CASE span' = span
      BY <3>2
    <3> QED
      BY <1>9, <3>1, <3>2
  <2>2. \A q \in Rids : q > calls => span[q] = "none"
    BY DEF IInv, SpanInv
  <2>3. \A q \in Rids : q > calls' => q > calls /\ q # r
    BY <1>2, Numbers
  <2>4. ASSUME otel' # "off", faults' = 0
        PROVE  SpansMatch'
    <3> SUFFICES ASSUME NEW u \in Tasks, NEW q \in Rids, Start(q) \in Emitted(u)'
                 PROVE  /\ span'[q] = "open" <=> q \in Live'
                        /\ span'[q] = "none" <=> End(q, "rate_limited") \in Emitted(u)'
                        /\ span'[q] \in {"error", "cut off"} => ~HasEnd(u, q)'
      BY DEF SpansMatch
    <3>1. CASE q = r /\ Admitted(t, r) /\ recs = <<Start(r)>> /\ OpenSpan(r)
               /\ stack' = [stack EXCEPT ![t] = Append(@, f)]
      <4>1. span'[r] = "open"
        BY <1>7, <2>4, <3>1 DEF OpenSpan, InitOtel
      <4>2. r \in Live' /\ u = t
        BY <1>11, <1>14, <3>1 DEF Live
      <4>3. End(r, "rate_limited") \notin Emitted(t)'
        BY <1>14, <3>1 DEF HasEnd, Outcomes
      <4> QED
        BY <3>1, <4>1, <4>2, <4>3
    <3>2. CASE q = r /\ recs = <<Start(r), Limit(r), End(r, "rate_limited")>> /\ span' = span
               /\ stack' = stack
      <4>1. span'[r] = "none"
        BY <1>2, <2>2, <3>2
      <4>2. r \notin Live' /\ u = t
        <5>1. r \notin Live' <=> r \notin Live
          BY <3>2 DEF Live, Inside
        <5> QED
          BY <1>2, <1>14, <3>2, <5>1 DEF Live
      <4>3. End(r, "rate_limited") \in Emitted(t)'
        BY <1>14, <3>2
      <4> QED
        BY <3>2, <4>1, <4>2, <4>3
    <3>3. CASE q # r
      <4>1. otel # "off"
        <5>1. otel' = otel \/ InitOtel
          BY <1>9 DEF OpenSpan
        <5> QED
          BY <2>4, <5>1 DEF InitOtel
      <4>2. /\ span[q] = "open" <=> q \in Live
            /\ span[q] = "none" <=> End(q, "rate_limited") \in Emitted(u)
            /\ span[q] \in {"error", "cut off"} => ~HasEnd(u, q)
        BY <1>19, <1>26, <2>4, <3>3, <4>1 DEF IInv, SpanInv, SpansMatch
      <4> QED
        BY <1>13, <1>26, <2>1, <3>3, <4>2
    <3> QED
      BY <1>9, <1>19, <2>4, <3>1, <3>2, <3>3
  <2> QED
    BY <2>1, <2>2, <2>3, <2>4 DEF SpanInv
<1>30. Syncs' = {}
  BY <1>2, <1>10 DEF Syncs
<1>31. IsFiniteSet(Frames) /\ Cardinality(Frames) \in Nat /\ inFlight \in Int /\ faults \in Nat
       /\ inFlight - Cardinality(Frames) \in 0..faults /\ calls \in Nat
  <2>1. IsFiniteSet(Frames) /\ Cardinality(Frames) \in Nat
    BY FS_CardinalityType DEF IInv, CountInv
  <2>2. Cardinality(Syncs) = 0
    BY <1>2, FS_EmptySet
  <2>3. inFlight \in Int /\ faults \in Nat /\ calls \in Nat
    BY Ints DEF IInv
  <2>4. inFlight - Cardinality(Frames) - Cardinality(Syncs) \in 0..faults
    BY DEF IInv, CountInv, InFlightExact
  <2> QED
    BY <2>1, <2>2, <2>3, <2>4
<1>32. PICK e \in 0..1, c \in 0..1 :
         /\ e = (IF End(r, "rate_limited") \in Range(recs) THEN 1 ELSE 0) /\ c <= e
         /\ metrics' = [o \in Outcomes |-> metrics[o] + (IF o = "rate_limited" THEN c ELSE 0)]
         /\ e - c <= faults' - faults /\ c + inFlight' - inFlight <= calls' - calls
         /\ IsFiniteSet(Frames') /\ inFlight' - Cardinality(Frames') \in 0..faults'
  <2>1. metrics \in [Outcomes -> Int]
    <3>1. metrics \in [Outcomes -> 0..MaxCalls]
      BY DEF IInv, TypeOK
    <3>2. 0..MaxCalls \subseteq Int
      OBVIOUS
    <3> QED
      BY <3>1, <3>2
  <2>2. stack' = stack => Frames' = Frames
    BY DEF Frames
  <2>3. calls' - calls = 1
    BY <1>1, <1>2, <1>31
  <2>4. CASE /\ Admitted(t, r) /\ recs = <<Start(r)>> /\ metrics' = metrics
             /\ stack' = [stack EXCEPT ![t] = Append(@, f)] /\ inFlight' = inFlight + 1
    <3>1. IsFiniteSet(Frames') /\ Cardinality(Frames') = Cardinality(Frames) + 1
      BY <1>2, <1>8, <2>4, FramePushed
    <3>2. End(r, "rate_limited") \notin Range(recs)
      <4>1. Range(recs) = {Start(r)}
        BY <2>4, Emissions
      <4> QED
        BY <4>1, RecordsDiffer
    <3>3. metrics' = [o \in Outcomes |-> metrics[o] + (IF o = "rate_limited" THEN 0 ELSE 0)]
      BY <2>1, <2>4
    <3>4. inFlight' - Cardinality(Frames') \in 0..faults' /\ 0 + inFlight' - inFlight <= calls' - calls
          /\ 0 - 0 <= faults' - faults
      <4>1. inFlight' = inFlight + 1 /\ faults' \in Nat /\ faults' >= faults
        BY <1>6, <2>4
      <4>2. inFlight' - Cardinality(Frames') = inFlight - Cardinality(Frames)
        BY <1>31, <3>1, <4>1
      <4>3. inFlight' - Cardinality(Frames') \in 0..faults'
        BY <1>31, <4>1, <4>2
      <4>4. 0 + inFlight' - inFlight <= calls' - calls
        BY <1>31, <2>3, <4>1
      <4>5. 0 - 0 <= faults' - faults
        <5>1. faults' \in Int /\ faults \in Int /\ faults' >= faults
          BY <1>31, <4>1
        <5>2. \A m, n \in Int : m >= n => 0 - 0 <= m - n
          OBVIOUS
        <5> QED
          BY <5>1, <5>2
      <4> QED
        BY <4>3, <4>4, <4>5
    <3>5. 0 \in 0..1 /\ 0 <= 0
      OBVIOUS
    <3> QED
      BY <3>1, <3>2, <3>3, <3>4, <3>5
  <2>5. CASE /\ Rejected(t, r) /\ recs = <<Start(r), Limit(r), End(r, "rate_limited")>>
             /\ UNCHANGED <<stack, inFlight>> /\ metrics' = [metrics EXCEPT !["rate_limited"] = @ + 1]
    <3>1. End(r, "rate_limited") \in Range(recs)
      BY <2>5, Emissions
    <3>2. metrics' = [o \in Outcomes |-> metrics[o] + (IF o = "rate_limited" THEN 1 ELSE 0)]
      <4>1. metrics' = [metrics EXCEPT !["rate_limited"] = @ + 1]
        BY <2>5
      <4>2. \A o \in Outcomes : metrics[o] \in Int
        BY <2>1
      <4>3. \A o \in Outcomes : metrics'[o] = metrics[o] + (IF o = "rate_limited" THEN 1 ELSE 0)
        BY <2>1, <4>1, <4>2
      <4>4. metrics' = [o \in Outcomes |-> metrics'[o]]
        BY <2>1, <4>1
      <4> QED
        BY <4>3, <4>4
    <3>3. inFlight' - Cardinality(Frames') \in 0..faults' /\ 1 + inFlight' - inFlight <= calls' - calls
          /\ 1 - 1 <= faults' - faults
      <4>1. /\ inFlight' = inFlight /\ Frames' = Frames /\ faults' \in Nat /\ faults' >= faults
        BY <1>6, <2>2, <2>5
      <4>2. inFlight' - Cardinality(Frames') \in 0..faults'
        BY <1>31, <4>1
      <4>3. 1 + inFlight' - inFlight <= calls' - calls
        BY <1>31, <2>3, <4>1
      <4>4. 1 - 1 <= faults' - faults
        <5>1. faults' \in Int /\ faults \in Int /\ faults' >= faults
          BY <1>31, <4>1
        <5>2. \A m, n \in Int : m >= n => 1 - 1 <= m - n
          OBVIOUS
        <5> QED
          BY <5>1, <5>2
      <4> QED
        BY <4>2, <4>3, <4>4
    <3>4. 1 \in 0..1 /\ 1 <= 1
      OBVIOUS
    <3> QED
      BY <1>31, <2>2, <2>5, <3>1, <3>2, <3>3, <3>4
  <2>6. CASE EntryFails(t, r) /\ inFlight' = inFlight + 1 /\ UNCHANGED <<stack, metrics>>
    <3>1. metrics' = [o \in Outcomes |-> metrics[o] + (IF o = "rate_limited" THEN 0 ELSE 0)]
      BY <2>1, <2>6
    <3>2. PICK e \in 0..1 : e = IF End(r, "rate_limited") \in Range(recs) THEN 1 ELSE 0
      OBVIOUS
    <3>3. inFlight' - Cardinality(Frames') \in 0..faults' /\ 0 + inFlight' - inFlight <= calls' - calls
          /\ e - 0 <= faults' - faults
      BY <1>6, <1>31, <2>2, <2>3, <2>6, <3>2
    <3>4. 0 \in 0..1 /\ 0 <= e
      BY <3>2
    <3> QED
      BY <1>31, <2>2, <2>6, <3>1, <3>2, <3>3, <3>4
  <2> QED
    BY <1>9, <2>4, <2>5, <2>6
<1>33. CountInv' /\ inFlight' \in 0..(MaxCalls + 1) /\ metrics' \in [Outcomes -> 0..MaxCalls]
  <2> DEFINE ended == [o \in Outcomes |-> IF o = "rate_limited" THEN e ELSE 0]
             counted == [o \in Outcomes |-> IF o = "rate_limited" THEN c ELSE 0]
  <2>1. ended \in [Outcomes -> 0..1] /\ counted \in [Outcomes -> 0..1]
    BY <1>32
  <2>2. \A o \in Outcomes : End(r, o) \in Range(recs) <=> (o = "rate_limited" /\ e = 1)
    BY <1>5, <1>32
  <2>3. \A o \in Outcomes : /\ IsFiniteSet(Ended(o)')
                            /\ Cardinality(Ended(o)') = Cardinality(Ended(o)) + ended[o]
                            /\ counted[o] <= ended[o]
    BY <1>13, <1>32, <2>2
  <2>4. metrics' = [o \in Outcomes |-> metrics[o] + counted[o]]
    BY <1>32
  <2>5. Total(ended) = e /\ Total(counted) = c
    BY <1>32 DEF Total, Outcomes
  <2> HIDE DEF ended, counted
  <2>6. Total(ended) - Total(counted) <= faults' - faults
        /\ Total(counted) + inFlight' - inFlight <= calls' - calls
    BY <1>32, <2>5
  <2>7. faults' \in Nat /\ faults' >= faults /\ inFlight' \in Int /\ calls' \in 0..MaxCalls
    BY <1>2, <1>6, <1>10
  <2>8. Syncs = {} /\ Syncs' = {} /\ IsFiniteSet(Frames') /\ inFlight' - Cardinality(Frames') \in 0..faults'
    BY <1>2, <1>30, <1>32
  <2> QED
    BY <2>1, <2>3, <2>4, <2>6, <2>7, <2>8, Counting
<1>34. TypeOK'
  <2>1. /\ faults' \in 0..MaxPrintFaults
    BY <1>6, Numbers
  <2>2. cancelling' = cancelling /\ cancels' = cancels /\ struck' = struck /\ calls' \in 0..MaxCalls
    BY <1>2
  <2> QED
    BY <1>9, <1>10, <1>13, <1>16, <1>33, <2>1, <2>2 DEF IInv, TypeOK
<1> QED
  BY <1>15, <1>17, <1>20, <1>21, <1>22, <1>23, <1>24, <1>27, <1>28, <1>29, <1>33, <1>34 DEF IInv

\* How a guarded call is left, r being its id: with its tool.end reported and counted, ...
Answers(t, r, o) ==
    /\ trail' = [trail EXCEPT ![t] = @ \o <<End(r, o)>>]
    /\ metrics' = [metrics EXCEPT ![o] = @ + 1] /\ faults' = faults
    /\ Returns(t)
    /\ o = "timeout" => Expired(t)
    /\ Leaving(t) => o = "timeout"
\* ... with a print that raised as it was reported, ...
Breaks(t, r, o) ==
    /\ trail' = [trail EXCEPT ![t] = @ \o <<End(r, o)>>]
    /\ metrics' = metrics /\ faults < MaxPrintFaults /\ faults' = faults + 1
    /\ Raises(t, "error")
\* ... with such a print and a second tool.end, the print of which may have raised too, ...
BreaksTwice(t, r) ==
    /\ trail' = [trail EXCEPT ![t] = @ \o <<End(r, "timeout"), End(r, "error")>>]
    /\ faults < MaxPrintFaults
    /\ \/ faults' = faults + 1 /\ metrics' = [metrics EXCEPT !["error"] = @ + 1] /\ Returns(t)
       \/ faults' = faults + 2 /\ faults + 1 < MaxPrintFaults /\ metrics' = metrics /\ Raises(t, "error")
\* ... or with a cancellation and no report.
Passes(t) ==
    /\ trail' = [trail EXCEPT ![t] = @ \o <<>>] /\ metrics' = metrics /\ faults' = faults
    /\ Raises(t, "cancelled")
    /\ ~Expired(t) /\ Leaving(t)

LEMMA Exit ==
    ASSUME IInv, NEW t \in Tasks, Finish(t) \/ Fail(t) \/ TimedOut(t) \/ PassCancelled(t),
           NEW r, r = Last(stack[t]).rid
    PROVE  /\ loop = t /\ flow[t] \in {"body", "unwind"} /\ stack[t] # <<>> /\ Syncs = {}
           /\ Pop(t) /\ UNCHANGED <<calls, around, struck, cancels>>
           /\ \/ \E o \in {"success", "error", "timeout"} : Answers(t, r, o)
              \/ \E o \in {"success", "error"} : Breaks(t, r, o)
              \/ BreaksTwice(t, r)
              \/ Passes(t)
<1>1. /\ loop = t /\ flow[t] \in {"body", "unwind"}
      /\ Pop(t) /\ UNCHANGED <<calls, around, struck, cancels>>
  BY DEF Finish, Fail, TimedOut, PassCancelled, ghosts
<1>2. stack[t] # <<>>
  BY <1>1 DEF IInv, StackInv
<1>3. Syncs = {}
  BY <1>1, BoundsAssumption DEF IInv, StackInv, Syncs
<1>4. /\ trail \in [Tasks -> Seq(Record)] /\ trail[t] \in Seq(Record) /\ r \in Rids
      /\ \A o \in Outcomes : End(r, o) \in Record
  BY <1>2, TopIsLive, RecordsDiffer DEF IInv, TypeOK
<1>5. \A o \in Outcomes : /\ (trail[t] \o <<>>) \o <<End(r, o)>> = trail[t] \o <<End(r, o)>>
                          /\ <<>> \o <<End(r, o)>> = <<End(r, o)>>
  BY <1>4, PutTogether
<1>6. /\ "success" \in Outcomes /\ "error" \in Outcomes /\ "timeout" \in Outcomes
  BY DEF Outcomes
<1>7. CASE Finish(t)
  <2>1. ~Leaving(t)
    BY <1>7 DEF Finish, Leaving
  <2>2. PICK o \in Capped : \/ EmitEnd(t, <<>>, r, o) /\ Returns(t)
                            \/ EmitRaises(t, <<End(r, o)>>) /\ Raises(t, "error")
    BY <1>7 DEF Finish
  <2>3. o \in {"success", "error"} /\ o \in Outcomes
    BY <1>6 DEF Capped
  <2>4. EmitEnd(t, <<>>, r, o) /\ Returns(t) => Answers(t, r, o)
    BY <1>5, <2>1, <2>3 DEF EmitEnd, Count, Answers
  <2>5. EmitRaises(t, <<End(r, o)>>) /\ Raises(t, "error") => Breaks(t, r, o)
    BY DEF EmitRaises, Breaks
  <2> QED
    BY <1>1, <1>2, <1>3, <2>2, <2>3, <2>4, <2>5
<1>8. CASE Fail(t)
  <2>1. ~Leaving(t)
    BY <1>8 DEF Fail, Leaving
  <2>2. \/ EmitEnd(t, <<>>, r, "error") /\ Returns(t)
        \/ EmitRaises(t, <<>> \o <<End(r, "error")>>) /\ Raises(t, "error")
    BY <1>8 DEF Fail, ReportError
  <2>3. EmitEnd(t, <<>>, r, "error") /\ Returns(t) => Answers(t, r, "error")
    BY <1>5, <1>6, <2>1 DEF EmitEnd, Count, Answers
  <2>4. EmitRaises(t, <<>> \o <<End(r, "error")>>) /\ Raises(t, "error") => Breaks(t, r, "error")
    BY <1>5, <1>6 DEF EmitRaises, Breaks
  <2> QED
    BY <1>1, <1>2, <1>3, <2>2, <2>3, <2>4
<1>9. CASE TimedOut(t)
  <2>1. EmitEnd(t, <<>>, r, "timeout") /\ Returns(t) => Answers(t, r, "timeout")
    BY <1>5, <1>6, <1>9 DEF TimedOut, EmitEnd, Count, Answers
  <2>2. ~(EmitEnd(t, <<>>, r, "timeout") /\ Returns(t)) => BreaksTwice(t, r)
    BY <1>9 DEF TimedOut, Count, BreaksTwice
  <2> QED
    BY <1>1, <1>2, <1>3, <2>1, <2>2
<1>10. CASE PassCancelled(t)
  <2>1. trail' = [trail EXCEPT ![t] = @ \o <<>>]
    <3>1. trail[t] \o <<>> = trail[t]
      BY <1>4, ConcatEmptySeq
    <3> QED
      BY <1>4, <1>10, <3>1 DEF PassCancelled
  <2>2. Passes(t)
    BY <1>10, <2>1 DEF PassCancelled, Passes, Leaving
  <2> QED
    BY <1>1, <1>2, <1>3, <2>2
<1> QED
  BY <1>7, <1>8, <1>9, <1>10

\* What an exit reports and counts: a tool.end, two, or none.
Reports(t, r, recs, ended, counted) ==
    /\ trail' = [trail EXCEPT ![t] = @ \o recs]
    /\ \A x \in Range(recs) : x.rid = r /\ x.event = "end"
    /\ \A o \in Outcomes : /\ ended[o] = IF End(r, o) \in Range(recs) THEN 1 ELSE 0
                           /\ counted[o] <= ended[o]
    /\ ended["rate_limited"] = 0
    /\ metrics' = [o \in Outcomes |-> metrics[o] + counted[o]]
    /\ Total(ended) - Total(counted) <= faults' - faults /\ Total(counted) <= 1
    /\ faults' \in 0..MaxPrintFaults /\ faults' >= faults
    /\ faults' = 0 => recs \in {<<>>} \cup {<<End(r, o)>> : o \in Outcomes}

LEMMA ExitReports ==
    ASSUME IInv, NEW t \in Tasks, NEW r \in Rids,
           \/ \E o \in {"success", "error", "timeout"} : Answers(t, r, o)
           \/ \E o \in {"success", "error"} : Breaks(t, r, o)
           \/ BreaksTwice(t, r)
           \/ Passes(t)
    PROVE  \E recs \in Seq(Record), ended \in [Outcomes -> 0..1], counted \in [Outcomes -> 0..1] :
              Reports(t, r, recs, ended, counted)
<1>1. /\ faults \in Nat /\ faults <= MaxPrintFaults /\ MaxPrintFaults \in Nat
  BY Ints, Numbers DEF IInv
<1>2. /\ metrics \in [Outcomes -> Int] /\ \A o \in Outcomes : metrics[o] \in Int
  <2>1. metrics \in [Outcomes -> 0..MaxCalls]
    BY DEF IInv, TypeOK
  <2>2. 0..MaxCalls \subseteq Int
    OBVIOUS
  <2> QED
    BY <2>1, <2>2
<1>3. \A o \in Outcomes : /\ End(r, o) \in Record /\ <<End(r, o)>> \in Seq(Record)
                         /\ End(r, o).rid = r /\ End(r, o).event = "end"
  BY RecordsDiffer
<1>4. \A o, p : End(r, o) = End(r, p) => o = p
  BY RecordsDiffer
<1>5. /\ "success" \in Outcomes /\ "error" \in Outcomes /\ "timeout" \in Outcomes
      /\ "rate_limited" \in Outcomes
  BY DEF Outcomes
<1> DEFINE none == [o \in Outcomes |-> 0]
           one(p) == [o \in Outcomes |-> IF o = p THEN 1 ELSE 0]
           two == [o \in Outcomes |-> IF o \in {"timeout", "error"} THEN 1 ELSE 0]
<1>6. /\ none \in [Outcomes -> 0..1] /\ Total(none) = 0 /\ \A o \in Outcomes : none[o] = 0
  BY DEF Total, Outcomes
<1>7. ASSUME NEW p \in {"success", "error", "timeout"}
      PROVE  /\ one(p) \in [Outcomes -> 0..1] /\ Total(one(p)) = 1 /\ one(p)["rate_limited"] = 0
             /\ \A o \in Outcomes : one(p)[o] = IF o = p THEN 1 ELSE 0
             /\ \A o \in Outcomes : one(p)[o] = IF End(r, o) \in Range(<<End(r, p)>>) THEN 1 ELSE 0
  <2>1. /\ one(p) \in [Outcomes -> 0..1] /\ one(p)["rate_limited"] = 0
        /\ \A o \in Outcomes : one(p)[o] = IF o = p THEN 1 ELSE 0
    BY <1>5
  <2>2. Total(one(p)) = 1
    BY DEF Total, Outcomes
  <2>3. \A o \in Outcomes : End(r, o) \in Range(<<End(r, p)>>) <=> o = p
    BY <1>4, Emissions
  <2> QED
    BY <2>1, <2>2, <2>3
<1>8. /\ two \in [Outcomes -> 0..1] /\ Total(two) = 2 /\ two["rate_limited"] = 0
      /\ \A o \in Outcomes : two[o] = IF o \in {"timeout", "error"} THEN 1 ELSE 0
      /\ \A o \in Outcomes :
            two[o] = IF End(r, o) \in Range(<<End(r, "timeout"), End(r, "error")>>) THEN 1 ELSE 0
  <2>1. /\ two \in [Outcomes -> 0..1] /\ two["rate_limited"] = 0
        /\ \A o \in Outcomes : two[o] = IF o \in {"timeout", "error"} THEN 1 ELSE 0
    BY <1>5
  <2>2. Total(two) = 2
    BY DEF Total, Outcomes
  <2>3. \A o \in Outcomes : End(r, o) \in Range(<<End(r, "timeout"), End(r, "error")>>)
                               <=> o \in {"timeout", "error"}
    BY <1>4, Emissions
  <2> QED
    BY <2>1, <2>2, <2>3
<1> HIDE DEF none, one, two
<1>9. metrics = [o \in Outcomes |-> metrics[o] + none[o]]
  <2>1. \A o \in Outcomes : metrics[o] = metrics[o] + none[o]
    BY <1>2, <1>6
  <2>2. metrics = [o \in Outcomes |-> metrics[o]]
    BY <1>2
  <2> QED
    BY <2>1, <2>2
<1>10. ASSUME NEW p \in {"success", "error", "timeout"}
       PROVE  [metrics EXCEPT ![p] = @ + 1] = [o \in Outcomes |-> metrics[o] + one(p)[o]]
  <2>1. \A o \in Outcomes : [metrics EXCEPT ![p] = @ + 1][o] = metrics[o] + one(p)[o]
    BY <1>2, <1>7
  <2>2. [metrics EXCEPT ![p] = @ + 1] = [o \in Outcomes |-> [metrics EXCEPT ![p] = @ + 1][o]]
    BY <1>2
  <2> QED
    BY <2>1, <2>2
<1>11. CASE \E o \in {"success", "error", "timeout"} : Answers(t, r, o)
  <2>1. PICK p \in {"success", "error", "timeout"} : Answers(t, r, p)
    BY <1>11
  <2>2. p \in Outcomes /\ Range(<<End(r, p)>>) = {End(r, p)}
    BY <1>5, Emissions
  <2>3. /\ trail' = [trail EXCEPT ![t] = @ \o <<End(r, p)>>] /\ faults' = faults
        /\ metrics' = [metrics EXCEPT ![p] = @ + 1]
    BY <2>1 DEF Answers
  <2>4. \A o \in Outcomes : one(p)[o] <= one(p)[o]
    BY <1>7
  <2>5. Total(one(p)) - Total(one(p)) <= faults' - faults /\ Total(one(p)) <= 1
    BY <1>1, <1>7, <2>3
  <2>6. faults' \in 0..MaxPrintFaults /\ faults' >= faults
    BY <1>1, <2>3
  <2> <<End(r, p)>> \in Seq(Record) /\ one(p) \in [Outcomes -> 0..1]
    BY <1>3, <1>7, <2>2
  <2> WITNESS <<End(r, p)>> \in Seq(Record), one(p) \in [Outcomes -> 0..1], one(p) \in [Outcomes -> 0..1]
  <2> QED
    BY <1>3, <1>7, <1>10, <2>2, <2>3, <2>4, <2>5, <2>6 DEF Reports
<1>12. CASE \E o \in {"success", "error"} : Breaks(t, r, o)
  <2>1. PICK p \in {"success", "error", "timeout"} : Breaks(t, r, p)
    BY <1>12
  <2>2. p \in Outcomes /\ Range(<<End(r, p)>>) = {End(r, p)}
    BY <1>5, Emissions
  <2>3. /\ trail' = [trail EXCEPT ![t] = @ \o <<End(r, p)>>] /\ metrics' = metrics
        /\ faults < MaxPrintFaults /\ faults' = faults + 1
    BY <2>1 DEF Breaks
  <2>4. \A o \in Outcomes : none[o] <= one(p)[o]
    BY <1>6, <1>7
  <2>5. Total(one(p)) - Total(none) <= faults' - faults /\ Total(none) <= 1
    BY <1>1, <1>6, <1>7, <2>3
  <2>6. faults' \in 0..MaxPrintFaults /\ faults' >= faults
    BY <1>1, <2>3
  <2> <<End(r, p)>> \in Seq(Record) /\ one(p) \in [Outcomes -> 0..1] /\ none \in [Outcomes -> 0..1]
    BY <1>3, <1>6, <1>7, <2>2
  <2> WITNESS <<End(r, p)>> \in Seq(Record), one(p) \in [Outcomes -> 0..1], none \in [Outcomes -> 0..1]
  <2> QED
    BY <1>3, <1>7, <1>9, <2>2, <2>3, <2>4, <2>5, <2>6 DEF Reports
<1>13. CASE BreaksTwice(t, r)
  <2> DEFINE recs == <<End(r, "timeout"), End(r, "error")>>
  <2>1. /\ recs \in Seq(Record) /\ \A x \in Range(recs) : x.rid = r /\ x.event = "end"
    <3>1. Range(recs) = {End(r, "timeout"), End(r, "error")}
      BY Emissions
    <3>2. recs \in Seq(Record)
      BY <1>3, <1>5
    <3> QED
      BY <1>3, <1>5, <3>1, <3>2
  <2>2. trail' = [trail EXCEPT ![t] = @ \o recs]
    BY <1>13 DEF BreaksTwice
  <2>3. \A o \in Outcomes : two[o] = IF End(r, o) \in Range(recs) THEN 1 ELSE 0
    BY <1>8
  <2>4. /\ faults' \in 0..MaxPrintFaults /\ faults' >= faults /\ faults' # 0
    BY <1>1, <1>13 DEF BreaksTwice
  <2> HIDE DEF recs
  <2>5. CASE faults' = faults + 1 /\ metrics' = [metrics EXCEPT !["error"] = @ + 1]
    <3>1. metrics' = [o \in Outcomes |-> metrics[o] + one("error")[o]]
      BY <1>10, <2>5
    <3>2. \A o \in Outcomes : one("error")[o] <= two[o]
      BY <1>7, <1>8
    <3>3. Total(one("error")) = 1 /\ one("error") \in [Outcomes -> 0..1]
      BY <1>7
    <3>4. Total(two) - Total(one("error")) <= faults' - faults /\ Total(one("error")) <= 1
      BY <1>1, <1>8, <2>5, <3>3
    <3> recs \in Seq(Record) /\ two \in [Outcomes -> 0..1] /\ one("error") \in [Outcomes -> 0..1]
      BY <1>8, <2>1, <3>3
    <3> WITNESS recs \in Seq(Record), two \in [Outcomes -> 0..1], one("error") \in [Outcomes -> 0..1]
    <3> QED
      BY <1>8, <2>1, <2>2, <2>3, <2>4, <3>1, <3>2, <3>3, <3>4 DEF Reports
  <2>6. CASE faults' = faults + 2 /\ metrics' = metrics
    <3>1. \A o \in Outcomes : none[o] <= two[o]
      BY <1>6, <1>8
    <3>2. Total(two) - Total(none) <= faults' - faults /\ Total(none) <= 1
      BY <1>1, <1>6, <1>8, <2>6
    <3> recs \in Seq(Record) /\ two \in [Outcomes -> 0..1] /\ none \in [Outcomes -> 0..1]
      BY <1>6, <1>8, <2>1
    <3> WITNESS recs \in Seq(Record), two \in [Outcomes -> 0..1], none \in [Outcomes -> 0..1]
    <3> QED
      BY <1>6, <1>8, <1>9, <2>1, <2>2, <2>3, <2>4, <2>6, <3>1, <3>2 DEF Reports
  <2> QED
    BY <1>13, <2>5, <2>6 DEF BreaksTwice
<1>14. CASE Passes(t)
  <2>1. <<>> \in Seq(Record) /\ Range(<<>>) = {}
    BY EmptySeq, Emissions
  <2>2. trail' = [trail EXCEPT ![t] = @ \o <<>>] /\ metrics' = metrics /\ faults' = faults
    BY <1>14 DEF Passes
  <2>3. /\ \A o \in Outcomes : none[o] = (IF End(r, o) \in Range(<<>>) THEN 1 ELSE 0) /\ none[o] <= none[o]
    BY <1>6, <2>1
  <2>4. Total(none) - Total(none) <= faults' - faults /\ Total(none) <= 1
    BY <1>1, <1>6, <2>2
  <2>5. faults' \in 0..MaxPrintFaults /\ faults' >= faults
    BY <1>1, <2>2
  <2> <<>> \in Seq(Record) /\ none \in [Outcomes -> 0..1]
    BY <1>6, <2>1
  <2> WITNESS <<>> \in Seq(Record), none \in [Outcomes -> 0..1], none \in [Outcomes -> 0..1]
  <2> QED
    BY <1>5, <1>6, <1>9, <2>1, <2>2, <2>3, <2>4, <2>5 DEF Reports
<1> QED
  BY <1>11, <1>12, <1>13, <1>14

LEMMA LeaveIInv ==
    ASSUME IInv, NEW t \in Tasks, Finish(t) \/ Fail(t) \/ TimedOut(t) \/ PassCancelled(t)
    PROVE  IInv'
<1>1. /\ loop = t /\ flow[t] \in {"body", "unwind"} /\ stack[t] # <<>> /\ Syncs = {}
      /\ Pop(t) /\ UNCHANGED <<calls, around, struck, cancels>>
  BY Exit
<1>2. PICK r \in Rids : r = Last(stack[t]).rid
  BY <1>1, TopIsLive
<1>3. \/ \E o \in {"success", "error", "timeout"} : Answers(t, r, o)
      \/ \E o \in {"success", "error"} : Breaks(t, r, o)
      \/ BreaksTwice(t, r)
      \/ Passes(t)
  BY <1>2, Exit
<1>4. PICK recs \in Seq(Record), ended \in [Outcomes -> 0..1], counted \in [Outcomes -> 0..1] :
        /\ trail' = [trail EXCEPT ![t] = @ \o recs]
        /\ \A x \in Range(recs) : x.rid = r /\ x.event = "end"
        /\ \A o \in Outcomes : /\ ended[o] = IF End(r, o) \in Range(recs) THEN 1 ELSE 0
                               /\ counted[o] <= ended[o]
        /\ ended["rate_limited"] = 0
        /\ metrics' = [o \in Outcomes |-> metrics[o] + counted[o]]
        /\ Total(ended) - Total(counted) <= faults' - faults /\ Total(counted) <= 1
        /\ faults' \in 0..MaxPrintFaults /\ faults' >= faults
        /\ faults' = 0 => recs \in {<<>>} \cup {<<End(r, o)>> : o \in Outcomes}
  <2>1. PICK recs \in Seq(Record), ended \in [Outcomes -> 0..1], counted \in [Outcomes -> 0..1] :
          Reports(t, r, recs, ended, counted)
    BY <1>3, ExitReports
  <2> QED
    BY <2>1 DEF Reports
<1>5. PICK n \in Nat \ {0} :
        /\ n = Len(stack[t]) /\ DOMAIN stack[t] = 1..n /\ n \in DOMAIN stack[t]
        /\ stack \in [Tasks -> Seq(Frame)] /\ stack[t] \in Seq(Frame)
        /\ stack[t][n].rid = r /\ Last(stack[t]) = stack[t][n]
        /\ r \in Inside(t) /\ r \in 1..calls
        /\ {r} \cup around[r] \subseteq Inside(t)
        /\ \A i \in DOMAIN trail[t] : trail[t][i].event = "end" => trail[t][i].rid \notin Inside(t)
  <2>1. /\ stack \in [Tasks -> Seq(Frame)] /\ stack[t] \in Seq(Frame)
        /\ DOMAIN stack[t] = 1..Len(stack[t])
    BY StackTypes DEF IInv, TypeOK
  <2>2. Len(stack[t]) \in Nat \ {0}
    BY <1>1, <2>1, Popped
  <2> QED
    BY <1>1, <1>2, <2>1, <2>2, TopIsLive
<1>6. /\ stack' \in [Tasks -> Seq(Frame)] /\ \A u \in Tasks : u # t => stack'[u] = stack[u]
      /\ Len(stack'[t]) = n - 1 /\ DOMAIN stack'[t] = 1..(n - 1)
      /\ \A i \in 1..(n - 1) : i \in DOMAIN stack[t] /\ stack'[t][i] = stack[t][i]
      /\ stack'[t] = <<>> <=> n = 1
      /\ stack' = [stack EXCEPT ![t] = Front(@)] /\ stack'[t] = Front(stack[t])
  <2>1. stack' = [stack EXCEPT ![t] = Front(@)]
    BY <1>1 DEF Pop
  <2>2. /\ Front(stack[t]) \in Seq(Frame) /\ Len(Front(stack[t])) = n - 1
        /\ DOMAIN Front(stack[t]) = 1..(n - 1)
        /\ \A i \in 1..(n - 1) : Front(stack[t])[i] = stack[t][i]
        /\ Front(stack[t]) = <<>> <=> n = 1
    BY <1>1, <1>5, Popped
  <2>3. stack'[t] = Front(stack[t]) /\ stack' \in [Tasks -> Seq(Frame)]
        /\ \A u \in Tasks : u # t => stack'[u] = stack[u]
    BY <1>5, <2>1, <2>2
  <2>4. \A i \in 1..(n - 1) : i \in DOMAIN stack[t]
    BY <1>5
  <2> QED
    BY <2>1, <2>2, <2>3, <2>4
<1>7. /\ ctx' = [ctx EXCEPT ![t] = stack[t][n].saved]
      /\ inFlight' = inFlight - 1
      /\ cancelling' = [cancelling EXCEPT ![t] = IF n = 1 THEN 0 ELSE Withdrawn(t)]
      /\ Withdrawn(t) = cancelling[t] - (IF stack[t][n].timer = "fired" THEN 1 ELSE 0)
  BY <1>1, <1>5 DEF Pop, Withdrawn
<1>8. /\ Returns(t) \/ Raises(t, "error") \/ Raises(t, "cancelled")
      /\ faults' = 0 => /\ faults = 0
                        /\ \/ Returns(t) /\ \E o \in {"success", "error", "timeout"} : Answers(t, r, o)
                           \/ Raises(t, "cancelled") /\ Passes(t)
  <2>1. faults \in Nat
    BY Ints DEF IInv
  <2>2. CASE \E o \in {"success", "error", "timeout"} : Answers(t, r, o)
    BY <2>1, <2>2 DEF Answers
  <2>3. CASE \E o \in {"success", "error"} : Breaks(t, r, o)
    BY <2>1, <2>3 DEF Breaks
  <2>4. CASE BreaksTwice(t, r)
    BY <2>1, <2>4 DEF BreaksTwice
  <2>5. CASE Passes(t)
    BY <2>1, <2>5 DEF Passes
  <2> QED
    BY <1>3, <2>2, <2>3, <2>4, <2>5
<1>9. /\ flow' \in [Tasks -> Flows] /\ flow'[t] \in {"none", "body", "unwind"}
      /\ flow'[t] = "none" <=> stack'[t] = <<>>
      /\ \A u \in Tasks : u # t => flow'[u] = flow[u] /\ exc'[u] = exc[u]
      /\ exc' \in [Tasks -> {"none", "error", "cancelled"}] /\ loop' \in Tasks \cup {NoTask}
  <2>1. flow \in [Tasks -> Flows] /\ exc \in [Tasks -> {"none", "error", "cancelled"}]
    BY DEF IInv, TypeOK
  <2>2. ReturnTo(t, stack'[t]) \/ RaiseTo(t, stack'[t], "error") \/ RaiseTo(t, stack'[t], "cancelled")
    BY <1>6, <1>8 DEF Returns, Raises
  <2>3. CASE ReturnTo(t, stack'[t])
    BY <2>1, <2>3 DEF ReturnTo, Flows
  <2>4. CASE RaiseTo(t, stack'[t], "error")
    BY <2>1, <2>4 DEF RaiseTo, Flows
  <2>5. CASE RaiseTo(t, stack'[t], "cancelled")
    BY <2>1, <2>5 DEF RaiseTo, Flows
  <2> QED
    BY <2>2, <2>3, <2>4, <2>5
<1>10. /\ otel' = otel /\ span' \in [Rids -> {"none", "open", "ended", "error", "cut off"}]
       /\ \A q \in Rids : q # r => span'[q] = span[q]
       /\ span[r] = "open" => /\ span'[r] \in {"ended", "error", "cut off"}
                              /\ Returns(t) => span'[r] = "ended"
  <2>1. span \in [Rids -> {"none", "open", "ended", "error", "cut off"}]
    BY DEF IInv, TypeOK
  <2>2. PICK status \in {"ended", "error", "cut off"} : EndSpan(t, status) /\ (Returns(t) => status = "ended")
    <3>1. CASE Returns(t)
      BY <3>1 DEF Returns
    <3>2. CASE ~Returns(t) /\ Raises(t, "error")
      BY <3>2 DEF Raises
    <3>3. CASE ~Returns(t) /\ Raises(t, "cancelled")
      BY <3>3 DEF Raises
    <3> QED
      BY <1>8, <3>1, <3>2, <3>3
  <2>3. otel' = otel /\ span' = [span EXCEPT ![r] = IF @ = "open" THEN status ELSE @]
    BY <1>2, <2>2 DEF EndSpan
  <2> QED
    BY <2>1, <2>2, <2>3
<1>11. /\ \A u \in Tasks : u # t => Inside(u)' = Inside(u) /\ r \notin Inside(u)
       /\ Inside(t)' = Inside(t) \ {r} /\ Live' = Live \ {r} /\ r \in Live
  <2>1. \A u \in Tasks : u # t => Inside(u)' = Inside(u) /\ r \notin Inside(u)
    BY <1>5, <1>6 DEF IInv, StackInv, Inside
  <2>2. Inside(t)' = Inside(t) \ {r}
    <3>1. \A q : q \in Inside(t)' <=> \E i \in 1..(n - 1) : q = stack[t][i].rid
      BY <1>6 DEF Inside
    <3>2. \A i \in 1..n : stack[t][i].rid = r => i = n
      <4>1. \A i, j \in DOMAIN stack[t] : stack[t][i].rid = stack[t][j].rid => i = j
        BY DEF IInv, StackInv
      <4>2. DOMAIN stack[t] = 1..n /\ n \in DOMAIN stack[t] /\ stack[t][n].rid = r
        BY <1>5
      <4> QED
        BY <4>1, <4>2
    <3>3. \A i : i \in 1..(n - 1) <=> i \in 1..n /\ i # n
      OBVIOUS
    <3>4. \A q : q \in Inside(t) <=> \E i \in 1..n : q = stack[t][i].rid
      BY <1>5 DEF Inside
    <3>5. stack[t][n].rid = r
      BY <1>5
    <3>6. \A q : q \in Inside(t)' <=> q \in Inside(t) /\ q # r
      BY <3>1, <3>2, <3>3, <3>4, <3>5
    <3> QED
      BY <3>6
  <2>3. Live' = Live \ {r} /\ r \in Live
    <3>1. /\ \A q : q \in Live <=> \E u \in Tasks : q \in Inside(u)
          /\ \A q : q \in Live' <=> \E u \in Tasks : q \in Inside(u)'
      BY DEF Live
    <3>2. r \in Inside(t)
      BY <1>5
    <3>3. \A q : q \in Live' <=> q \in Live /\ q # r
      BY <2>1, <2>2, <3>1, <3>2
    <3> QED
      BY <3>1, <3>2, <3>3
  <2> QED
    BY <2>1, <2>2, <2>3
<1>12. PICK f \in 0..n :
         /\ \A i \in DOMAIN stack[t] : stack[t][i].timer = "fired" <=> i <= f
         /\ cancelling[t] \in f..(f + cancels) /\ cancelling[t] \in Nat
         /\ faults = 0 /\ cancelling[t] > f => Inside(t) \subseteq struck
  BY <1>5, Ints DEF IInv, TimerInv
<1>13. /\ stack[t][n].timer = "fired" <=> f = n
       /\ Withdrawn(t) = cancelling[t] - (IF f = n THEN 1 ELSE 0)
       /\ cancelling[t] \in Nat /\ f \in Nat /\ f <= n /\ f <= cancelling[t]
       /\ cancelling[t] <= f + cancels /\ cancels \in Nat
       /\ cancelling'[t] = IF n = 1 THEN 0 ELSE cancelling[t] - (IF f = n THEN 1 ELSE 0)
       /\ \A u \in Tasks : u # t => cancelling'[u] = cancelling[u]
       /\ cancelling' \in [Tasks -> 0..(MaxDepth + MaxCancels)]
  <2>1. n <= f <=> f = n
    BY <1>12
  <2>2. stack[t][n].timer = "fired" <=> f = n
    BY <1>5, <1>12, <2>1
  <2>3. Withdrawn(t) = cancelling[t] - (IF f = n THEN 1 ELSE 0)
    BY <1>7, <2>2
  <2>4. f \in Nat /\ f <= n /\ cancels \in Nat /\ cancelling[t] \in Nat
    BY <1>12, Ints DEF IInv
  <2>5. f <= cancelling[t] /\ cancelling[t] <= f + cancels
    BY <1>12, <2>4
  <2>6. cancelling \in [Tasks -> 0..(MaxDepth + MaxCancels)]
    BY DEF IInv, TypeOK
  <2>7. cancelling'[t] = IF n = 1 THEN 0 ELSE cancelling[t] - (IF f = n THEN 1 ELSE 0)
    BY <1>7, <2>3, <2>6
  <2>8. cancelling'[t] \in 0..(MaxDepth + MaxCancels)
    <3>1. cancelling[t] \in 0..(MaxDepth + MaxCancels)
      BY <2>6
    <3>2. cancelling'[t] >= 0 /\ cancelling'[t] <= cancelling[t] /\ cancelling'[t] \in Int
      BY <2>4, <2>5, <2>7
    <3> QED
      BY <3>1, <3>2, Numbers
  <2> QED
    BY <1>7, <2>2, <2>3, <2>4, <2>5, <2>6, <2>7, <2>8
<1>14. /\ trail' \in [Tasks -> Seq(Record)] /\ trail'[t] = trail[t] \o recs
       /\ \A u \in Tasks : u # t => trail'[u] = trail[u] /\ Emitted(u)' = Emitted(u)
       /\ Emitted(t)' = Emitted(t) \cup Range(recs)
       /\ \A u \in Tasks : \A q : q # r =>
             /\ Start(q) \in Emitted(u)' <=> Start(q) \in Emitted(u)
             /\ \A o : End(q, o) \in Emitted(u)' <=> End(q, o) \in Emitted(u)
             /\ HasEnd(u, q)' <=> HasEnd(u, q)
       /\ \A u \in Tasks : \A i \in DOMAIN trail'[u] :
             \/ trail'[u][i].rid = r
             \/ i \in DOMAIN trail[u] /\ trail'[u][i] = trail[u][i]
       /\ \A o \in Outcomes :
             /\ IsFiniteSet(Ended(o)')
             /\ Cardinality(Ended(o)')
                   = Cardinality(Ended(o)) + (IF End(r, o) \in Range(recs) THEN 1 ELSE 0)
  <2>1. ~HasEnd(t, r)
    BY <1>5 DEF IInv, TrailInv
  <2>2. trail' = [trail EXCEPT ![t] = @ \o recs] /\ \A x \in Range(recs) : x.rid = r
    BY <1>4
  <2> QED
    BY <2>1, <2>2, Emitting
<1>15. ASSUME faults' = 0, NEW o \in {"success", "error", "timeout"}, Answers(t, r, o)
       PROVE  /\ recs = <<End(r, o)>> /\ cancelling'[t] = 0 /\ Returns(t)
              /\ o = "timeout" => n = 1
              /\ o # "timeout" => f = 0
              /\ ~Leaving(t)'
  <2>1. o \in Outcomes /\ trail[t] \in Seq(Record) /\ <<End(r, o)>> \in Seq(Record)
    BY RecordsDiffer, TrailTypes DEF IInv, Outcomes
  <2>2. recs = <<End(r, o)>>
    <3>1. trail'[t] = trail[t] \o <<End(r, o)>>
      BY <1>15, <2>1 DEF Answers, IInv, TypeOK
    <3> QED
      BY <1>14, <2>1, <3>1, SameSuffix
  <2>3. faults = 0 /\ stack[t][n].before = 0 /\ (cancelling[t] > 0 <=> Leaving(t))
    BY <1>5, <1>8, <1>15 DEF IInv, UnwindInv
  <2>4. Expired(t) => f = n /\ Withdrawn(t) <= 0
    BY <1>5, <1>13, <2>3 DEF Expired
  <2>5. (o = "timeout" => Expired(t)) /\ (Leaving(t) => o = "timeout") /\ Returns(t)
    BY <1>15 DEF Answers
  <2>6. cancelling'[t] = 0 /\ (o = "timeout" => n = 1) /\ (o # "timeout" => f = 0)
    <3>1. CASE ~Leaving(t)
      <4>1. cancelling[t] = 0 /\ f = 0
        BY <1>13, <2>3, <3>1
      <4>2. f # n /\ ~Expired(t)
        BY <2>4, <4>1
      <4>3. cancelling'[t] = 0
        <5>1. cancelling'[t] = IF n = 1 THEN 0 ELSE cancelling[t] - (IF f = n THEN 1 ELSE 0)
          BY <1>13
        <5>2. (IF f = n THEN 1 ELSE 0) = 0 /\ 0 - 0 = 0
          BY <4>2
        <5> QED
          BY <4>1, <5>1, <5>2
      <4> QED
        BY <2>5, <4>1, <4>2, <4>3
    <3>2. CASE Leaving(t)
      <4>1. f = n /\ cancelling[t] - 1 <= 0
        BY <1>13, <2>4, <2>5, <3>2
      <4>2. n = 1
        BY <1>13, <4>1
      <4> QED
        BY <1>13, <2>5, <3>2, <4>2
    <3> QED
      BY <3>1, <3>2
  <2>7. flow'[t] \in {"none", "body"}
    BY <2>5 DEF Returns, ReturnTo, IInv, TypeOK
  <2>8. ~Leaving(t)'
    BY <2>7 DEF Leaving
  <2> QED
    BY <2>2, <2>5, <2>6, <2>8
<1>16. ASSUME faults' = 0, Passes(t)
       PROVE  /\ recs = <<>> /\ Raises(t, "cancelled")
              /\ cancelling'[t] > 0 <=> n # 1
              /\ Leaving(t)' <=> n # 1
              /\ Inside(t) \subseteq struck \/ (f >= 1 /\ n >= 2)
  <2>1. trail[t] \in Seq(Record) /\ <<>> \in Seq(Record)
    BY TrailTypes, EmptySeq DEF IInv
  <2>2. recs = <<>>
    <3>1. trail'[t] = trail[t] \o <<>>
      BY <1>16, <2>1 DEF Passes, IInv, TypeOK
    <3> QED
      BY <1>14, <2>1, <3>1, SameSuffix
  <2>3. faults = 0 /\ stack[t][n].before = 0 /\ (cancelling[t] > 0 <=> Leaving(t))
    BY <1>5, <1>8, <1>16 DEF IInv, UnwindInv
  <2>4. cancelling[t] > 0 /\ ~(f = n /\ Withdrawn(t) <= 0)
    BY <1>5, <1>13, <1>16, <2>3 DEF Passes, Expired
  <2>5. cancelling'[t] > 0 <=> n # 1
    BY <1>13, <2>4
  <2>6. cancelling[t] > f \/ (f >= 1 /\ n >= 2)
    BY <1>13, <2>4
  <2>7. Inside(t) \subseteq struck \/ (f >= 1 /\ n >= 2)
    BY <1>12, <2>3, <2>6
  <2>8. RaiseTo(t, stack'[t], "cancelled")
    BY <1>6, <1>16 DEF Passes, Raises
  <2>9. n # 1 => flow'[t] = "unwind" /\ exc'[t] = "cancelled"
    BY <1>6, <2>8 DEF RaiseTo, IInv, TypeOK
  <2>10. n = 1 => flow'[t] = "none"
    BY <1>6, <1>9
  <2>11. Leaving(t)' <=> n # 1
    BY <2>9, <2>10 DEF Leaving
  <2> QED
    BY <1>16, <2>2, <2>5, <2>7, <2>11 DEF Passes
<1>17. faults' = 0 => \/ \E o \in {"success", "error", "timeout"} : Answers(t, r, o)
                      \/ Passes(t)
  BY <1>8
<1>18. StackInv'
  <2>1. ASSUME NEW u \in Tasks
        PROVE  /\ Len(stack'[u]) <= MaxDepth
               /\ flow'[u] \in {"none", "sync"} <=> stack'[u] = <<>>
               /\ flow'[u] = "sync" => loop' = u
    <3>1. CASE u = t
      <4>1. n <= MaxDepth
        BY <1>5 DEF IInv, StackInv
      <4>2. Len(stack'[t]) <= MaxDepth
        BY <1>6, <4>1, Numbers
      <4> QED
        BY <1>9, <3>1, <4>2
    <3>2. CASE u # t
      <4>1. stack'[u] = stack[u] /\ flow'[u] = flow[u] /\ flow[u] # "sync"
        BY <1>1, <1>6, <1>9, <3>2 DEF Syncs
      <4> QED
        BY <4>1 DEF IInv, StackInv
    <3> QED
      BY <3>1, <3>2
  <2>2. \A u \in Tasks : \A i \in DOMAIN stack'[u] : i \in DOMAIN stack[u] /\ stack'[u][i] = stack[u][i]
    BY <1>6
  <2>3. \A u, v \in Tasks : \A i \in DOMAIN stack'[u], j \in DOMAIN stack'[v] :
          stack'[u][i].rid = stack'[v][j].rid => u = v /\ i = j
    <3>1. \A u, v \in Tasks : \A i \in DOMAIN stack[u], j \in DOMAIN stack[v] :
            stack[u][i].rid = stack[v][j].rid => u = v /\ i = j
      BY DEF IInv, StackInv
    <3> QED
      BY <2>2, <3>1
  <2> QED
    BY <2>1, <2>3 DEF StackInv
<1>19. AroundInv'
  <2>1. ASSUME NEW u \in Tasks, NEW i \in DOMAIN stack'[u]
        PROVE  stack'[u][i].rid <= calls /\ around[stack'[u][i].rid] = Below(u, i)'
    <3>1. i \in DOMAIN stack[u] /\ stack'[u][i] = stack[u][i]
      BY <1>6
    <3>2. \A j \in 1..(i - 1) : stack'[u][j] = stack[u][j]
      <4>1. CASE u = t
        <5>1. i \in 1..(n - 1)
          BY <1>6, <4>1
        <5>2. 1..(i - 1) \subseteq 1..(n - 1)
          BY <5>1
        <5> QED
          BY <1>6, <4>1, <5>2
      <4>2. CASE u # t
        BY <1>6, <4>2
      <4> QED
        BY <4>1, <4>2
    <3>3. Below(u, i)' = Below(u, i)
      BY <3>2 DEF Below
    <3> QED
      BY <3>1, <3>3 DEF IInv, AroundInv
  <2> QED
    BY <1>1, <2>1 DEF IInv, AroundInv
<1>20. TimerInv'
  <2> SUFFICES ASSUME NEW u \in Tasks
               PROVE  \E g \in 0..Len(stack'[u]) :
                        /\ \A j \in DOMAIN stack'[u] : stack'[u][j].timer = "fired" <=> j <= g
                        /\ cancelling'[u] \in g..(g + cancels')
                        /\ stack'[u] = <<>> => cancelling'[u] = 0
                        /\ faults' = 0 /\ cancelling'[u] > g => Inside(u)' \subseteq struck'
    BY DEF TimerInv
  <2>1. CASE u = t
    <3>1. PICK g \in 0..(n - 1) : g = IF f = n THEN n - 1 ELSE f
      BY <1>13
    <3>2. \A j \in DOMAIN stack'[t] : stack'[t][j].timer = "fired" <=> j <= g
      <4> SUFFICES ASSUME NEW j \in DOMAIN stack'[t]
                   PROVE  stack'[t][j].timer = "fired" <=> j <= g
        OBVIOUS
      <4>1. j \in 1..(n - 1) /\ stack'[t][j] = stack[t][j] /\ j \in DOMAIN stack[t]
        BY <1>6
      <4>2. j <= f <=> j <= g
        BY <1>13, <3>1, <4>1
      <4> QED
        BY <1>12, <4>1, <4>2
    <3>3. cancelling'[t] \in g..(g + cancels)
      <4>1. CASE n = 1
        <5>1. g = 0 /\ cancelling'[t] = 0
          BY <1>13, <3>1, <4>1
        <5> QED
          BY <1>13, <5>1
      <4>2. CASE n # 1
        BY <1>13, <3>1, <4>2
      <4> QED
        BY <4>1, <4>2
    <3>4. stack'[t] = <<>> => cancelling'[t] = 0
      BY <1>6, <1>13
    <3>5. faults' = 0 /\ cancelling'[t] > g => Inside(t)' \subseteq struck
      <4>1. cancelling'[t] > g => cancelling[t] > f
        BY <1>13, <3>1
      <4> QED
        BY <1>8, <1>11, <1>12, <4>1
    <3>6. g \in 0..Len(stack'[t])
      BY <1>6, <3>1
    <3> QED
      BY <1>1, <2>1, <3>2, <3>3, <3>4, <3>5, <3>6
  <2>2. CASE u # t
    <3>1. stack'[u] = stack[u] /\ Inside(u)' = Inside(u) /\ cancelling'[u] = cancelling[u]
      BY <1>6, <1>11, <1>13, <2>2
    <3>2. cancels' = cancels /\ struck' = struck /\ (faults' = 0 => faults = 0)
      BY <1>1, <1>8
    <3> QED
      BY <3>1, <3>2 DEF IInv, TimerInv
  <2> QED
    BY <2>1, <2>2
<1>21. UnwindInv'
  <2> SUFFICES ASSUME faults' = 0, NEW u \in Tasks
               PROVE  /\ cancelling'[u] > 0 <=> Leaving(u)'
                      /\ \A i \in DOMAIN stack'[u] : stack'[u][i].before = 0
    BY DEF UnwindInv
  <2>1. /\ cancelling[u] > 0 <=> Leaving(u)
        /\ \A i \in DOMAIN stack[u] : stack[u][i].before = 0
    BY <1>8 DEF IInv, UnwindInv
  <2>2. \A i \in DOMAIN stack'[u] : stack'[u][i].before = 0
    BY <1>6, <2>1
  <2>3. CASE u = t
    <3>1. cancelling'[t] > 0 <=> Leaving(t)'
      BY <1>15, <1>16, <1>17
    <3> QED
      BY <2>2, <2>3, <3>1
  <2>4. CASE u # t
    <3>1. Leaving(u)' <=> Leaving(u)
      BY <1>9, <2>4 DEF Leaving
    <3> QED
      BY <1>13, <2>1, <2>2, <2>4, <3>1
  <2> QED
    BY <2>3, <2>4
<1>22. ContextInv' /\ ContextIsInnermost'
  <2>1. /\ ctx' \in [Tasks -> Rids \cup {NoRid}] /\ ctx'[t] = stack[t][n].saved
        /\ \A u \in Tasks : u # t => ctx'[u] = ctx[u]
    <3>1. stack[t][n].saved \in Rids \cup {NoRid} /\ ctx \in [Tasks -> Rids \cup {NoRid}]
      BY <1>5, StackTypes DEF IInv, TypeOK
    <3> QED
      BY <1>7, <3>1
  <2>2. ASSUME NEW u \in Tasks
        PROVE  ctx'[u] <= calls' /\ \A i \in DOMAIN stack'[u] : stack'[u][i].saved <= calls'
    <3>1. ctx[u] <= calls /\ \A i \in DOMAIN stack[u] : stack[u][i].saved <= calls
      BY DEF IInv, ContextInv
    <3>2. stack[t][n].saved <= calls
      BY <1>5 DEF IInv, ContextInv
    <3> QED
      BY <1>1, <1>6, <2>1, <3>1, <3>2
  <2>3. ASSUME faults' = 0, NEW u \in Tasks, NEW i \in DOMAIN stack'[u]
        PROVE  stack'[u][i].saved = IF i = 1 THEN NoRid ELSE stack'[u][i - 1].rid
    <3>1. i \in DOMAIN stack[u] /\ stack'[u][i] = stack[u][i]
      BY <1>6
    <3>2. stack[u][i].saved = IF i = 1 THEN NoRid ELSE stack[u][i - 1].rid
      BY <1>8, <2>3, <3>1 DEF IInv, ContextInv
    <3>3. i # 1 => stack'[u][i - 1] = stack[u][i - 1]
      <4>1. CASE u = t
        <5>1. i # 1 => i - 1 \in 1..(n - 1)
          BY <1>6, <4>1
        <5> QED
          BY <1>6, <4>1, <5>1
      <4>2. CASE u # t
        BY <1>6, <4>2
      <4> QED
        BY <4>1, <4>2
    <3> QED
      BY <3>1, <3>2, <3>3
  <2>4. ASSUME faults' = 0, NEW u \in Tasks
        PROVE  ctx'[u] = IF stack'[u] = <<>> THEN NoRid ELSE Last(stack'[u]).rid
    <3>1. CASE u = t
      <4>1. stack[t][n].saved = IF n = 1 THEN NoRid ELSE stack[t][n - 1].rid
        BY <1>5, <1>8, <2>4 DEF IInv, ContextInv
      <4>2. n # 1 => stack'[t] # <<>> /\ Last(stack'[t]) = stack[t][n - 1]
        <5>1. n # 1 => n - 1 \in 1..(n - 1)
          OBVIOUS
        <5> QED
          BY <1>6, <5>1 DEF Last
      <4> QED
        BY <1>6, <2>1, <3>1, <4>1, <4>2
    <3>2. CASE u # t
      BY <1>6, <1>8, <2>1, <2>4, <3>2 DEF IInv, ContextIsInnermost
    <3> QED
      BY <3>1, <3>2
  <2> QED
    BY <2>2, <2>3, <2>4 DEF ContextInv, ContextIsInnermost
<1>23. TrailInv'
  <2>1. ASSUME NEW u \in Tasks, NEW i \in DOMAIN trail'[u]
        PROVE  trail'[u][i].rid <= calls /\ (faults' = 0 => trail'[u][i].rid # NoRid)
    <3>1. CASE trail'[u][i].rid = r
      BY <1>5, <3>1, Numbers
    <3>2. CASE i \in DOMAIN trail[u] /\ trail'[u][i] = trail[u][i]
      BY <1>8, <3>2 DEF IInv, TrailInv
    <3> QED
      BY <1>14, <3>1, <3>2
  <2>2. ASSUME NEW v \in Tasks, NEW u \in Tasks, NEW q \in Inside(v)'
        PROVE  ~HasEnd(u, q)' /\ (Start(q) \in Emitted(u)' => u = v)
    <3>1. q \in Inside(v) /\ q # r
      <4>1. CASE v = t
        BY <1>11, <2>2, <4>1
      <4>2. CASE v # t
        BY <1>11, <2>2, <4>2
      <4> QED
        BY <4>1, <4>2
    <3> QED
      BY <1>14, <3>1 DEF IInv, TrailInv
  <2> QED
    BY <1>1, <2>1, <2>2 DEF TrailInv
<1>24. RecordsNest'
  <2> SUFFICES ASSUME faults' = 0, NEW u \in Tasks PROVE Nests(around', trail'[u])
    BY DEF RecordsNest
  <2>1. \A v \in Tasks : Nests(around, trail[v])
    BY <1>8 DEF IInv, RecordsNest
  <2>2. CASE u = t
    <3>1. /\ \A i, j \in DOMAIN recs : i < j => FALSE
          /\ \A j \in DOMAIN recs : recs[j].rid = r /\ recs[j].event # "start"
      <4>1. CASE recs = <<>>
        BY <4>1
      <4>2. CASE \E o \in Outcomes : recs = <<End(r, o)>>
        <5>1. PICK o \in Outcomes : recs = <<End(r, o)>>
          BY <4>2
        <5>2. DOMAIN recs = {1} /\ recs[1].rid = r /\ recs[1].event = "end"
          BY <5>1, RecordsDiffer
        <5> QED
          BY <5>2
      <4> QED
        BY <1>4, <4>1, <4>2
    <3>2. Nests(around, recs)
      BY <3>1 DEF Nests
    <3>3. \A i \in DOMAIN trail[t], j \in DOMAIN recs : Follows(around, trail[t][i], recs[j])
      BY <1>5, <3>1 DEF Follows
    <3>4. trail[t] \in Seq(Record) /\ recs \in Seq(Record) /\ Nests(around, trail[t])
      BY <2>1, TrailTypes DEF IInv
    <3>5. Nests(around, trail[t] \o recs)
      BY <3>2, <3>3, <3>4, NestsJoined
    <3> QED
      BY <1>1, <1>14, <2>2, <3>5
  <2>3. CASE u # t
    BY <1>1, <1>14, <2>1, <2>3
  <2> QED
    BY <2>2, <2>3
<1>25. \A u \in Tasks : \A q : Start(q) \in Emitted(u)' <=> Start(q) \in Emitted(u)
  <2>1. \A q : Start(q) \notin Range(recs)
    BY <1>4, RecordsDiffer
  <2> QED
    BY <1>14, <2>1
<1>26. UnmatchedStartsExplained'
  <2> SUFFICES ASSUME faults' = 0, NEW u \in Tasks, NEW q \in Rids,
                      Start(q) \in Emitted(u)', ~HasEnd(u, q)'
               PROVE  \/ q \in Live'
                      \/ ({q} \cup around'[q]) \cap struck' # {}
                      \/ \E a \in around'[q] :
                            \/ End(a, "timeout") \in Emitted(u)'
                            \/ \E i \in DOMAIN stack'[u] :
                                  stack'[u][i].rid = a /\ stack'[u][i].timer = "fired"
    BY DEF UnmatchedStartsExplained
  <2>1. Start(q) \in Emitted(u) /\ (q = r => u = t) /\ q \in 1..calls
    <3>1. Start(q) \in Emitted(u)
      BY <1>25
    <3>2. q = r => u = t
      BY <1>5, <3>1 DEF IInv, TrailInv
    <3>3. q <= calls
      BY <3>1, RecordsAreOld, RecordsDiffer
    <3> QED
      BY <3>1, <3>2, <3>3, Ints DEF IInv, Rids
  <2>2. f >= 1 /\ n >= 2 => \E i \in DOMAIN stack'[t] :
                              stack'[t][i].rid \in around[r] /\ stack'[t][i].timer = "fired"
    <3> SUFFICES ASSUME f >= 1, n >= 2
                 PROVE  \E i \in DOMAIN stack'[t] :
                           stack'[t][i].rid \in around[r] /\ stack'[t][i].timer = "fired"
      OBVIOUS
    <3>1. 1 \in 1..(n - 1) /\ 1 \in DOMAIN stack'[t] /\ stack'[t][1] = stack[t][1] /\ 1 \in DOMAIN stack[t]
      <4>1. 1 \in 1..(n - 1)
        OBVIOUS
      <4> QED
        BY <1>6, <4>1
    <3>2. stack[t][1].timer = "fired" /\ stack[t][1].rid \in Below(t, n)
      BY <1>12, <1>13, <3>1 DEF Below
    <3>3. around[r] = Below(t, n)
      BY <1>5 DEF IInv, AroundInv
    <3> QED
      BY <3>1, <3>2, <3>3
  <2>3. CASE q = r
    <3>1. CASE \E o \in {"success", "error", "timeout"} : Answers(t, r, o)
      <4>1. PICK o \in {"success", "error", "timeout"} : Answers(t, r, o)
        BY <3>1
      <4>2. o \in Outcomes /\ End(r, o) \in Emitted(t)'
        BY <1>14, <1>15, <4>1, Emissions DEF Outcomes
      <4> QED
        BY <2>1, <2>3, <4>2 DEF HasEnd
    <3>2. CASE Passes(t)
      <4>1. Inside(t) \subseteq struck \/ (f >= 1 /\ n >= 2)
        BY <1>16, <3>2
      <4> QED
        BY <1>1, <1>5, <2>1, <2>2, <2>3, <4>1
    <3> QED
      BY <1>17, <3>1, <3>2
  <2>4. CASE q # r
    <3>1. ~HasEnd(u, q) /\ \A x : x \in Emitted(u) => x \in Emitted(u)'
      BY <1>14, <2>4
    <3>2. \/ q \in Live
          \/ ({q} \cup around[q]) \cap struck # {}
          \/ \E a \in around[q] :
                \/ End(a, "timeout") \in Emitted(u)
                \/ \E i \in DOMAIN stack[u] : stack[u][i].rid = a /\ stack[u][i].timer = "fired"
      BY <1>8, <2>1, <3>1 DEF IInv, UnmatchedStartsExplained
    <3>3. CASE q \in Live
      BY <1>11, <2>4, <3>3
    <3>4. CASE ({q} \cup around[q]) \cap struck # {}
      BY <1>1, <3>4
    <3>5. CASE \E a \in around[q] : End(a, "timeout") \in Emitted(u)
      BY <1>1, <3>1, <3>5
    <3>6. CASE \E a \in around[q] : \E i \in DOMAIN stack[u] :
                  stack[u][i].rid = a /\ stack[u][i].timer = "fired"
      <4>1. PICK i \in DOMAIN stack[u] : stack[u][i].rid \in around[q] /\ stack[u][i].timer = "fired"
        BY <3>6
      <4>2. CASE u # t \/ i # n
        <5>1. i \in DOMAIN stack'[u] /\ stack'[u][i] = stack[u][i]
          <6>1. CASE u = t
            <7>1. i \in 1..(n - 1)
              BY <1>5, <4>2, <6>1
            <7> QED
              BY <1>6, <6>1, <7>1
          <6>2. CASE u # t
            BY <1>6, <6>2
          <6> QED
            BY <6>1, <6>2
        <5> QED
          BY <1>1, <4>1, <5>1
      <4>3. CASE u = t /\ i = n
        <5>1. r \in around[q] /\ f = n /\ around[r] \subseteq around[q]
          <6>1. r \in around[q] /\ f = n
            BY <1>5, <1>13, <4>1, <4>3
          <6> QED
            BY <2>1, <6>1 DEF IInv, AroundInv
        <5>2. CASE \E o \in {"success", "error", "timeout"} : Answers(t, r, o)
          <6>1. PICK o \in {"success", "error", "timeout"} : Answers(t, r, o)
            BY <5>2
          <6>2. recs = <<End(r, o)>> /\ (o # "timeout" => f = 0)
            BY <1>15, <6>1
          <6>3. o = "timeout"
            BY <5>1, <6>2
          <6>4. End(r, "timeout") \in Emitted(t)'
            BY <1>14, <6>2, <6>3, Emissions
          <6> QED
            BY <1>1, <4>3, <5>1, <6>4
        <5>3. CASE Passes(t)
          <6>1. Inside(t) \subseteq struck \/ (f >= 1 /\ n >= 2)
            BY <1>16, <5>3
          <6> QED
            BY <1>1, <1>5, <2>2, <4>3, <5>1, <6>1
        <5> QED
          BY <1>17, <5>2, <5>3
      <4> QED
        BY <4>2, <4>3
    <3> QED
      BY <3>2, <3>3, <3>4, <3>5, <3>6
  <2> QED
    BY <2>3, <2>4
<1>27. TimeoutsAreOutermost'
  <2> SUFFICES ASSUME faults' = 0, NEW u \in Tasks, NEW q \in Rids, End(q, "timeout") \in Emitted(u)'
               PROVE  around'[q] = {}
    BY DEF TimeoutsAreOutermost
  <2>1. CASE q # r \/ End(q, "timeout") \in Emitted(u)
    <3>1. End(q, "timeout") \in Emitted(u)
      BY <1>14, <2>1
    <3> QED
      BY <1>1, <1>8, <3>1 DEF IInv, TimeoutsAreOutermost
  <2>2. CASE q = r /\ End(q, "timeout") \notin Emitted(u)
    <3>1. End(r, "timeout") \in Range(recs)
      BY <1>14, <2>2
    <3>2. n = 1
      <4>1. CASE Passes(t)
        BY <1>16, <3>1, <4>1, Emissions
      <4>2. CASE \E o \in {"success", "error", "timeout"} : Answers(t, r, o)
        <5>1. PICK o \in {"success", "error", "timeout"} : Answers(t, r, o)
          BY <4>2
        <5>2. recs = <<End(r, o)>> /\ (o = "timeout" => n = 1)
          BY <1>15, <5>1
        <5> QED
          BY <3>1, <5>2, Emissions, RecordsDiffer
      <4> QED
        BY <1>17, <4>1, <4>2
    <3>3. around[r] = Below(t, n)
      BY <1>5 DEF IInv, AroundInv
    <3>4. Below(t, 1) = {}
      BY DEF Below
    <3> QED
      BY <1>1, <2>2, <3>2, <3>3, <3>4
  <2> QED
    BY <2>1, <2>2
<1>28. SpanInv'
  <2>1. \A q \in Rids : q > calls' => span'[q] = "none"
    <3>1. \A q \in Rids : q > calls => span[q] = "none" /\ q # r
      <4>1. r <= calls /\ r \in Nat /\ calls \in Nat
        BY <1>5, Ints DEF IInv
      <4>2. \A q \in Rids : q \in Nat
        BY Numbers
      <4>3. \A q \in Rids : q > calls => q # r
        BY <4>1, <4>2
      <4> QED
        BY <4>3 DEF IInv, SpanInv
    <3> QED
      BY <1>1, <1>10, <3>1
  <2>2. ASSUME otel' # "off", faults' = 0, NEW u \in Tasks, NEW q \in Rids, Start(q) \in Emitted(u)'
        PROVE  /\ span'[q] = "open" <=> q \in Live'
               /\ span'[q] = "none" <=> End(q, "rate_limited") \in Emitted(u)'
               /\ span'[q] \in {"error", "cut off"} => ~HasEnd(u, q)'
    <3>1. Start(q) \in Emitted(u)
      BY <1>25, <2>2
    <3>2. /\ span[q] = "open" <=> q \in Live
          /\ span[q] = "none" <=> End(q, "rate_limited") \in Emitted(u)
          /\ span[q] \in {"error", "cut off"} => ~HasEnd(u, q)
      BY <1>8, <1>10, <2>2, <3>1 DEF IInv, SpanInv, SpansMatch
    <3>3. CASE q # r
      BY <1>10, <1>11, <1>14, <3>2, <3>3
    <3>4. CASE q = r
      <4>1. u = t /\ r \in Live /\ ~HasEnd(t, r)
        BY <1>5, <1>11, <3>1, <3>4 DEF IInv, TrailInv
      <4>2. span'[r] \in {"ended", "error", "cut off"} /\ (Returns(t) => span'[r] = "ended")
        BY <1>10, <3>2, <3>4, <4>1
      <4>3. r \notin Live'
        BY <1>11
      <4>4. End(r, "rate_limited") \notin Emitted(t)'
        <5>1. "rate_limited" \in Outcomes /\ End(r, "rate_limited") \notin Range(recs)
          BY <1>4 DEF Outcomes
        <5> QED
          BY <1>14, <4>1, <5>1 DEF HasEnd
      <4>5. span'[r] \in {"error", "cut off"} => ~HasEnd(t, r)'
        <5>1. CASE Passes(t)
          <6>1. recs = <<>>
            BY <1>16, <2>2, <5>1
          <6>2. Emitted(t)' = Emitted(t)
            BY <1>14, <6>1, Emissions
          <6> QED
            BY <4>1, <6>2 DEF HasEnd
        <5>2. CASE \E o \in {"success", "error", "timeout"} : Answers(t, r, o)
          BY <1>15, <2>2, <4>2, <5>2
        <5> QED
          BY <1>17, <2>2, <5>1, <5>2
      <4> QED
        BY <3>4, <4>1, <4>2, <4>3, <4>4, <4>5
    <3> QED
      BY <3>3, <3>4
  <2> QED
    BY <2>1, <2>2 DEF SpanInv, SpansMatch
<1>29. CountInv' /\ inFlight' \in 0..(MaxCalls + 1) /\ metrics' \in [Outcomes -> 0..MaxCalls]
  <2>1. Syncs' = {}
    BY <1>1, <1>9 DEF Syncs
  <2>2. inFlight \in Int /\ faults \in Nat /\ calls \in 0..MaxCalls /\ calls \in Nat
        /\ calls' = calls /\ Cardinality(Syncs) = 0
    BY <1>1, Ints, FS_EmptySet DEF IInv, TypeOK
  <2>3. inFlight' = inFlight - 1 /\ inFlight' \in Int
    BY <1>7, <2>2
  <2>4. faults' \in Nat /\ faults' >= faults
    <3>1. faults' \in 0..MaxPrintFaults /\ faults' >= faults
      BY <1>4
    <3> QED
      BY <3>1
  <2>5. IsFiniteSet(Frames') /\ Cardinality(Frames') = Cardinality(Frames) - 1
    BY <1>1, <1>6, FramePopped
  <2>6. inFlight' - Cardinality(Frames') \in 0..faults'
    <3>1. inFlight - Cardinality(Frames) - Cardinality(Syncs) \in 0..faults /\ Cardinality(Frames) \in Int
      <4>1. Cardinality(Frames) \in Nat
        BY FS_CardinalityType DEF IInv, CountInv
      <4> QED
        BY <4>1 DEF IInv, CountInv, InFlightExact
    <3>2. inFlight' - Cardinality(Frames') = inFlight - Cardinality(Frames) - Cardinality(Syncs)
      BY <2>2, <2>3, <2>5, <3>1
    <3> QED
      BY <2>2, <2>4, <3>1, <3>2
  <2>7. Total(counted) \in Nat /\ Total(counted) <= 1
    <3>1. \A o \in Outcomes : counted[o] \in Nat
      <4>1. \A o \in Outcomes : counted[o] \in 0..1
        OBVIOUS
      <4> QED
        BY <4>1
    <3>2. Total(counted) \in Nat
      BY <3>1 DEF Total, Outcomes
    <3> QED
      BY <1>4, <3>2
  <2>8. Total(counted) + inFlight' - inFlight <= calls' - calls
    BY <2>2, <2>3, <2>7
  <2>9. \A o \in Outcomes : /\ IsFiniteSet(Ended(o)')
                            /\ Cardinality(Ended(o)') = Cardinality(Ended(o)) + ended[o]
                            /\ counted[o] <= ended[o]
    BY <1>4, <1>14
  <2>10. /\ metrics' = [o \in Outcomes |-> metrics[o] + counted[o]]
         /\ Total(ended) - Total(counted) <= faults' - faults
    BY <1>4
  <2>11. Syncs = {} /\ calls' \in 0..MaxCalls
    BY <1>1, <2>2
  <2> QED
    BY <2>1, <2>3, <2>4, <2>5, <2>6, <2>8, <2>9, <2>10, <2>11, Counting
<1>30. TypeOK'
  <2>1. ctx' \in [Tasks -> Rids \cup {NoRid}]
    <3>1. stack[t][n].saved \in Rids \cup {NoRid} /\ ctx \in [Tasks -> Rids \cup {NoRid}]
      BY <1>5, StackTypes DEF IInv, TypeOK
    <3> QED
      BY <1>7, <3>1
  <2>2. /\ stack' \in [Tasks -> Seq(Frame)] /\ flow' \in [Tasks -> Flows]
        /\ exc' \in [Tasks -> {"none", "error", "cancelled"}] /\ loop' \in Tasks \cup {NoTask}
        /\ cancelling' \in [Tasks -> 0..(MaxDepth + MaxCancels)]
        /\ trail' \in [Tasks -> Seq(Record)] /\ faults' \in 0..MaxPrintFaults
        /\ span' \in [Rids -> {"none", "open", "ended", "error", "cut off"}]
    BY <1>4, <1>6, <1>9, <1>10, <1>13, <1>14
  <2>3. UNCHANGED <<calls, around, struck, cancels, otel>>
    BY <1>1, <1>10
  <2> QED
    BY <1>29, <2>1, <2>2, <2>3 DEF IInv, TypeOK
<1> QED
  BY <1>18, <1>19, <1>20, <1>21, <1>22, <1>23, <1>24, <1>26, <1>27, <1>28, <1>29, <1>30 DEF IInv

-----------------------------------------------------------------------------
(* The invariant.                                                          *)

LEMMA InitIInv ==
    ASSUME Init
    PROVE  IInv
<1>1. \A t \in Tasks : stack[t] = <<>> /\ trail[t] = <<>> /\ flow[t] = "none" /\ cancelling[t] = 0
                       /\ ctx[t] = NoRid /\ exc[t] = "none"
  BY DEF Init
<1>2. \A t \in Tasks : DOMAIN stack[t] = {} /\ DOMAIN trail[t] = {} /\ Len(stack[t]) = 0
  BY <1>1, EmptySeq
<1>3. \A t \in Tasks : Inside(t) = {} /\ Emitted(t) = {}
  BY <1>2 DEF Inside, Emitted, Range
<1>4. TypeOK
  <2>1. <<>> \in Seq(Frame) /\ <<>> \in Seq(Record)
    BY EmptySeq
  <2>2. /\ 0 \in 0..(MaxDepth + MaxCancels) /\ 0 \in 0..(MaxCalls + 1) /\ 0 \in 0..MaxCalls
        /\ 0 \in 0..MaxCancels /\ 0 \in 0..MaxPrintFaults
    BY Numbers
  <2> QED
    BY <2>1, <2>2 DEF Init, TypeOK, Flows, NoneCounted
<1>5. StackInv
  BY <1>1, <1>2, Numbers DEF StackInv
<1>6. AroundInv
  <2>1. calls = 0 /\ 1..0 = {}
    BY DEF Init
  <2> QED
    BY <1>2, <2>1 DEF AroundInv
<1>7. TimerInv
  <2>1. cancels = 0 /\ 0 \in 0..0 /\ 0 \in 0..(0 + 0) /\ ~(0 > 0)
    BY DEF Init
  <2> QED
    BY <1>1, <1>2, <2>1 DEF TimerInv
<1>8. UnwindInv
  <2>1. \A t \in Tasks : ~Leaving(t) /\ ~(cancelling[t] > 0)
    BY <1>1 DEF Leaving
  <2> QED
    BY <1>2, <2>1 DEF UnwindInv
<1>9. ContextInv /\ ContextIsInnermost
  BY <1>1, <1>2 DEF Init, ContextInv, ContextIsInnermost, NoRid
<1>10. TrailInv /\ RecordsNest
  BY <1>2, <1>3 DEF TrailInv, RecordsNest, Nests
<1>11. UnmatchedStartsExplained /\ TimeoutsAreOutermost
  BY <1>3 DEF UnmatchedStartsExplained, TimeoutsAreOutermost
<1>12. SpanInv
  BY <1>3 DEF Init, SpanInv, SpansMatch
<1>13. CountInv
  <2>1. Frames = {}
    BY <1>2 DEF Frames
  <2>2. Syncs = {} /\ \A o \in Outcomes : Ended(o) = {}
    BY <1>1, <1>3 DEF Syncs, Ended
  <2>3. IsFiniteSet({}) /\ Cardinality({}) = 0
    BY FS_EmptySet
  <2>4. inFlight = 0 /\ faults = 0 /\ calls = 0 /\ \A o \in Outcomes : metrics[o] = 0
    BY DEF Init, NoneCounted
  <2>5. \A o \in Outcomes : Uncounted[o] = 0
    BY <2>2, <2>3, <2>4 DEF Uncounted
  <2>6. Total(Uncounted) = 0 /\ Total(metrics) = 0
    BY <2>4, <2>5 DEF Total, Outcomes
  <2>7. MetricsAgree
    BY <2>2, <2>3, <2>4, <2>5, <2>6 DEF MetricsAgree, Gauge
  <2>8. InFlightExact
    BY <2>1, <2>2, <2>3, <2>4 DEF InFlightExact
  <2> QED
    BY <2>1, <2>2, <2>3, <2>7, <2>8 DEF CountInv
<1> QED
  BY <1>4, <1>5, <1>6, <1>7, <1>8, <1>9, <1>10, <1>11, <1>12, <1>13 DEF IInv

LEMMA NextIInv ==
    ASSUME IInv, [Next]_vars
    PROVE  IInv'
<1>1. CASE \E t \in Tasks : Arrive(t) \/ CallTool(t)
  BY <1>1, EnterIInv
<1>2. CASE \E t \in Tasks : Finish(t) \/ Fail(t) \/ TimedOut(t) \/ PassCancelled(t)
  BY <1>2, LeaveIInv
<1>3. CASE \E t \in Tasks : CallSync(t) \/ SyncEnds(t)
  BY <1>3, SyncIInv
<1>4. CASE \E t \in Tasks : Await(t) \/ Resume(t) \/ Raise(t)
  BY <1>4, BodyIInv
<1>5. CASE \E t \in Tasks : EmitStatement(t)
  BY <1>5, StatementIInv
<1>6. CASE \E t \in Tasks : \E i \in 1..MaxDepth : TimerFires(t, i)
  BY <1>6, TimerFiresIInv
<1>7. CASE \E t \in Tasks : ExternalCancel(t)
  BY <1>7, ExternalCancelIInv
<1>8. CASE UNCHANGED vars
  <2>1. SameFrames /\ SameTasks
    BY <1>8 DEF SameFrames, SameTasks, IInv, StackInv, vars, control
  <2>2. Syncs' = Syncs /\ Gauge' = Gauge
    BY <1>8 DEF Syncs, Gauge, vars, control, books
  <2>3. TypeOK'
    BY <1>8 DEF IInv, TypeOK, vars, control, books, traces, ghosts
  <2>4. TimerInv'
    <3>1. \A t \in Tasks : Inside(t)' = Inside(t)
      BY <1>8 DEF Inside, vars
    <3> QED
      BY <1>8, <3>1 DEF IInv, TimerInv, vars, control, books, ghosts
  <2>5. UnwindInv'
    BY <1>8 DEF IInv, UnwindInv, Leaving, vars, control, books
  <2> QED
    BY <1>8, <2>1, <2>2, <2>3, <2>4, <2>5, QuietIInv DEF vars, control, books, traces, ghosts
<1> QED
  BY <1>1, <1>2, <1>3, <1>4, <1>5, <1>6, <1>7, <1>8 DEF Next, Running, Over

-----------------------------------------------------------------------------

\* The frames on the stacks are calls of their own, those around a call are the ones
\* below it, timeouts fire outermost first, a cancelled task only leaves its calls, and
\* the books balance: in every execution of _guard (app.py).
THEOREM Invariance == Spec => []IInv
<1>1. Init => IInv
  BY InitIInv
<1>2. IInv /\ [Next]_vars => IInv'
  BY NextIInv
<1> QED
  BY <1>1, <1>2, PTL DEF Spec

\* The variables keep their types: in particular asyncio's count of cancellation requests
\* never goes below zero, nor does the in-flight counter.
THEOREM TypeCorrect == Spec => []TypeOK
<1>1. IInv => TypeOK
  BY DEF IInv
<1> QED
  BY <1>1, Invariance, PTL

\* _in_flight_tools is the number of guarded calls and synchronous tools being executed,
\* too high by at most the number of prints that raised.
THEOREM CounterCorrect == Spec => []InFlightExact
<1>1. IInv => InFlightExact
  BY DEF IInv, CountInv
<1> QED
  BY <1>1, Invariance, PTL

\* The audit records of a call, and of the calls it makes, lie between the start and the
\* one end of the call, unless a print to stderr raises.
THEOREM NestingCorrect == Spec => []RecordsNest
<1>1. IInv => RecordsNest
  BY DEF IInv
<1> QED
  BY <1>1, Invariance, PTL

\* A tool.start without a tool.end is that of a live call or of one cut off, by a
\* cancellation from outside or by the timeout of a call around it.
THEOREM UnmatchedStartsCorrect == Spec => []UnmatchedStartsExplained
<1>1. IInv => UnmatchedStartsExplained
  BY DEF IInv
<1> QED
  BY <1>1, Invariance, PTL

\* The request id in the context is that of the innermost call, also after calls were
\* rejected, cancelled or timed out.
THEOREM ContextCorrect == Spec => []ContextIsInnermost
<1>1. IInv => ContextIsInnermost
  BY DEF IInv
<1> QED
  BY <1>1, Invariance, PTL

\* A nested call never reports a timeout: the call around it takes the cancellation.
THEOREM TimeoutsCorrect == Spec => []TimeoutsAreOutermost
<1>1. IInv => TimeoutsAreOutermost
  BY DEF IInv
<1> QED
  BY <1>1, Invariance, PTL

\* Counters and spans agree with the audit log, on every exit a call can take.
THEOREM TelemetryCorrect == Spec => []TelemetryAgreesWithAudit
<1>1. IInv => TelemetryAgreesWithAudit
  BY DEF IInv, CountInv, SpanInv, SpansAgree, TelemetryAgreesWithAudit
<1> QED
  BY <1>1, Invariance, PTL
=============================================================================
