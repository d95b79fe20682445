----------------------------- MODULE RateLimiter -----------------------------
(***************************************************************************)
(* rate_limit.check: one deque of admission times per (tool, caller), old  *)
(* entries dropped from its left end whenever the key is used.  check      *)
(* takes an uncontended asyncio.Lock and never suspends, so a call is one  *)
(* step.  admitted and refused are history: the code keeps only buckets.   *)
(***************************************************************************)
EXTENDS Integers, FiniteSets, SequencesExt

CONSTANTS
    Tools, Callers,
    Star,       \* the key "*" of MCP_RATE_LIMIT
    Chunks,     \* MCP_RATE_LIMIT: a sequence of [key, limit] and Malformed
    Malformed,  \* a chunk that does not parse
    Defaults,   \* _DEFAULT_LIMITS
    Fallback,   \* _FALLBACK
    MaxTime,    \* bound: the clock stops there
    MaxCalls    \* bound: calls answered per key

Limit == [count : Int, window : Int]
Keys == Tools \X Callers

\* int() accepts every integer, in the shipped limits all are positive.
ASSUME LimitsAssumption ==
    /\ Chunks \in Seq(Range(Chunks)) /\ Fallback \in Limit
    /\ \A chunk \in Range(Chunks) : chunk = Malformed \/ chunk.limit \in Limit
    /\ \A tool \in DOMAIN Defaults : Defaults[tool] \in Limit

\* out[key] = limit
Put(out, key, limit) ==
    [name \in DOMAIN out \cup {key} |-> IF name = key THEN limit ELSE out[name]]

\* _parse_overrides: a later chunk for a key replaces an earlier one, and a
\* malformed chunk is skipped.
Overrides ==
    FoldLeft(LAMBDA out, chunk : IF chunk = Malformed THEN out
                                 ELSE Put(out, chunk.key, chunk.limit),
             <<>>, Chunks)

\* Mutant: "*" is looked up before the tool.
LimitFor_starFirst(tool) ==
    IF Star \in DOMAIN Overrides THEN Overrides[Star]
    ELSE IF tool \in DOMAIN Overrides THEN Overrides[tool]
    ELSE IF tool \in DOMAIN Defaults THEN Defaults[tool]
    ELSE Fallback

\* _limit_for: override for the tool, override for all, default, fallback.
LimitFor(tool) ==
    IF tool \in DOMAIN Overrides THEN Overrides[tool]
    ELSE IF Star \in DOMAIN Overrides THEN Overrides[Star]
    ELSE IF tool \in DOMAIN Defaults THEN Defaults[tool]
    ELSE Fallback

Limits == [k \in Keys |-> LimitFor(k[1])]

ASSUME BoundsAssumption == MaxTime \in Nat /\ MaxCalls \in Nat

VARIABLES
    now,       \* time.monotonic()
    buckets,   \* _buckets
    admitted,  \* history: admitted[k], times at which calls were admitted
    refused    \* history: refused[k], number of calls refused

vars == <<now, buckets, admitted, refused>>

Init ==
    /\ now = 0
    /\ buckets = [k \in Keys |-> <<>>]
    /\ admitted = [k \in Keys |-> <<>>]
    /\ refused = [k \in Keys |-> 0]

\* Mutant: an entry exactly window old is dropped too.
Evicts_inclusive(bucket, cutoff, d) ==
    /\ \A i \in 1..d : bucket[i] <= cutoff
    /\ d < Len(bucket) => bucket[d + 1] > cutoff

\* The deque left when the d entries at its old end, and no more, are older
\* than cutoff.
Evicts(bucket, cutoff, d) ==
    /\ \A i \in 1..d : bucket[i] < cutoff
    /\ d < Len(bucket) => bucket[d + 1] >= cutoff

\* Mutant: the call is appended before the bucket is compared with the limit.
check_chargesFirst(k) ==
    LET limit == Limits[k] IN
    /\ Len(admitted[k]) + refused[k] < MaxCalls
    /\ \E d \in 0..Len(buckets[k]) :
          LET bucket == Append(SubSeq(buckets[k], d + 1, Len(buckets[k])), now) IN
          /\ Evicts(buckets[k], now - limit.window, d)
          /\ buckets' = [buckets EXCEPT ![k] = bucket]
          /\ \/ /\ Len(bucket) > limit.count
                /\ refused' = [refused EXCEPT ![k] = @ + 1]
                /\ UNCHANGED admitted
             \/ /\ Len(bucket) <= limit.count
                /\ admitted' = [admitted EXCEPT ![k] = Append(@, now)]
                /\ UNCHANGED refused
    /\ UNCHANGED now

\* Mutant: the cutoff is appended where the time belongs.
check_appendsCutoff(k) ==
    LET limit == Limits[k] IN
    /\ Len(admitted[k]) + refused[k] < MaxCalls
    /\ \E d \in 0..Len(buckets[k]) :
          LET bucket == SubSeq(buckets[k], d + 1, Len(buckets[k])) IN
          /\ Evicts(buckets[k], now - limit.window, d)
          /\ Len(bucket) < limit.count
          /\ buckets' = [buckets EXCEPT ![k] = Append(bucket, now - limit.window)]
          /\ admitted' = [admitted EXCEPT ![k] = Append(@, now)]
    /\ UNCHANGED <<now, refused>>

check(k) ==
    LET limit == Limits[k] IN
    /\ Len(admitted[k]) + refused[k] < MaxCalls
    /\ \E d \in 0..Len(buckets[k]) :
          LET bucket == SubSeq(buckets[k], d + 1, Len(buckets[k])) IN
          /\ Evicts(buckets[k], now - limit.window, d)
          /\ \/ /\ Len(bucket) >= limit.count
                /\ buckets' = [buckets EXCEPT ![k] = bucket]
                /\ refused' = [refused EXCEPT ![k] = @ + 1]
                /\ UNCHANGED admitted
             \/ /\ Len(bucket) < limit.count
                /\ buckets' = [buckets EXCEPT ![k] = Append(bucket, now)]
                /\ admitted' = [admitted EXCEPT ![k] = Append(@, now)]
                /\ UNCHANGED refused
    /\ UNCHANGED now

Tick ==
    /\ now < MaxTime
    /\ now' = now + 1
    /\ UNCHANGED <<buckets, admitted, refused>>

Over ==
    /\ now = MaxTime
    /\ \A k \in Keys : Len(admitted[k]) + refused[k] = MaxCalls
    /\ UNCHANGED vars

Next == (\E k \in Keys : check(k)) \/ Tick \/ Over

Spec == Init /\ [][Next]_vars

-----------------------------------------------------------------------------

TypeOK ==
    /\ now \in Nat
    /\ buckets \in [Keys -> Seq(Nat)]
    /\ admitted \in [Keys -> Seq(Nat)]
    /\ refused \in [Keys -> Nat]

\* Any admission and the one count places before it are more than window apart.
Spread(times, count, window) ==
    \A i, j \in 1..Len(times) : i + count <= j => times[j] - times[i] > window

\* No stretch of window seconds, wherever it starts, holds more than count
\* admissions of one tool to one caller.  (check: the bucket is pruned only
\* when used and keeps only what the pruning left.)
QuotaHolds ==
    \A k \in Keys : Spread(admitted[k], Limits[k].count, Limits[k].window)

\* The bucket is the recent end of the times, and the rest is before cutoff.
RecentEnd(bucket, times, cutoff) ==
    /\ Len(bucket) <= Len(times)
    /\ \A i \in 1..Len(bucket) : bucket[i] = times[Len(times) - Len(bucket) + i]
    /\ \A i \in 1..(Len(times) - Len(bucket)) : times[i] < cutoff

\* The deque is the recent end of the history of admissions, and what it has
\* dropped is out of every window to come: nothing that still counts is lost.
BucketIsRecentHistory ==
    \A k \in Keys : RecentEnd(buckets[k], admitted[k], now - Limits[k].window)

\* Times in order, the last no later than t, and only where the limit admits.
InOrder(times, t, count) ==
    /\ \A i, j \in 1..Len(times) : i <= j => times[i] <= times[j]
    /\ \A i \in 1..Len(times) : times[i] <= t
    /\ Len(times) > 0 => count > 0

\* What QuotaHolds and the refinement rest on besides: the history grows in
\* time order, and a limit that lets nothing through has let nothing through.
HistoryInOrder == \A k \in Keys : InOrder(admitted[k], now, Limits[k].count)

\* The chunks of the text that give a limit for name.
Given(name) == {i \in DOMAIN Chunks : Chunks[i] # Malformed /\ Chunks[i].key = name}

\* The limit the operator has written down for a tool: the last one given for
\* it, else the last given for all, else the shipped one.
Written(tool) ==
    IF Given(tool) # {} THEN Chunks[Max(Given(tool))].limit
    ELSE IF Given(Star) # {} THEN Chunks[Max(Given(Star))].limit
    ELSE IF tool \in DOMAIN Defaults THEN Defaults[tool]
    ELSE Fallback

\* Callers are held to the limits the operator has written down, whatever else
\* the text of MCP_RATE_LIMIT holds, and are not refused before they have used
\* them.  (_parse_overrides goes through the text once; _limit_for looks in four
\* places.)
OverridesInForce ==
    \A k \in Keys :
        LET limit == Written(k[1]) IN
        /\ Spread(admitted[k], limit.count, limit.window)
        /\ refused[k] > 0 => Len(admitted[k]) >= limit.count

\* A refusal follows as many admissions as the limit allows.
RefusedInv == \A k \in Keys : refused[k] > 0 => Len(admitted[k]) >= Limits[k].count

IInv == TypeOK /\ BucketIsRecentHistory /\ HistoryInOrder /\ QuotaHolds

\* The limiter is exact: it admits and refuses as the sliding window says,
\* never one call more and never one fewer, and a refused call does not
\* prolong the refusal (check records a call only when it admits it).
Abstract == INSTANCE SlidingWindow WITH
    Keys <- Keys, Limits <- Limits, MaxTime <- MaxTime, MaxCalls <- MaxCalls,
    now <- now, admitted <- admitted, refused <- refused
ImplementsSlidingWindow == Abstract!Spec
=============================================================================
