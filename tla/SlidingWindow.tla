---------------------------- MODULE SlidingWindow ----------------------------
(***************************************************************************)
(* What the rate limiter promises, with no regard to how it remembers      *)
(* calls: a call on a key is admitted exactly when fewer than Count(key)   *)
(* calls on that key were admitted in the last Window(key) seconds, both   *)
(* ends included.  Refused calls count for nothing.                        *)
(***************************************************************************)
EXTENDS Integers, Sequences, FiniteSets

CONSTANTS
    Keys,      \* what is limited separately: pairs of a tool and a caller
    Limits,    \* Limits[k]: [count, window] in force for key k
    MaxTime,   \* bound: the clock stops there
    MaxCalls   \* bound: calls answered per key

VARIABLES
    now,       \* the monotonic clock
    admitted,  \* admitted[k]: times at which calls on k were admitted
    refused    \* refused[k]: number of calls on k that were refused

vars == <<now, admitted, refused>>

Init ==
    /\ now = 0
    /\ admitted = [k \in Keys |-> <<>>]
    /\ refused = [k \in Keys |-> 0]

\* The admissions on k that still count.
Recent(k) == {i \in DOMAIN admitted[k] : admitted[k][i] >= now - Limits[k].window}

Answered(k) == Len(admitted[k]) + refused[k]

Admit(k) ==
    /\ Cardinality(Recent(k)) < Limits[k].count
    /\ admitted' = [admitted EXCEPT ![k] = Append(@, now)]
    /\ UNCHANGED <<now, refused>>

Refuse(k) ==
    /\ Cardinality(Recent(k)) >= Limits[k].count
    /\ refused' = [refused EXCEPT ![k] = @ + 1]
    /\ UNCHANGED <<now, admitted>>

Tick ==
    /\ now < MaxTime
    /\ now' = now + 1
    /\ UNCHANGED <<admitted, refused>>

Next ==
    \/ \E k \in Keys : Answered(k) < MaxCalls /\ (Admit(k) \/ Refuse(k))
    \/ Tick

Spec == Init /\ [][Next]_vars

-----------------------------------------------------------------------------
\* The admissions on k in the window that begins at t.
Within(k, t) ==
    {i \in DOMAIN admitted[k] : admitted[k][i] \in t..(t + Limits[k].window)}

\* No window, wherever it begins, holds more than count admissions.
KeepsQuota(k) ==
    \A t \in 0..MaxTime :
        Within(k, t) # {} => Cardinality(Within(k, t)) <= Limits[k].count
=============================================================================
