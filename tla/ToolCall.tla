------------------------------- MODULE ToolCall -------------------------------
(***************************************************************************)
(* What execute_sql_safe promises of the statement it runs, with no regard *)
(* to the event loop, the thread pool or the polling: one true answer per  *)
(* call, at most one statement, which nobody else cancels, and a request   *)
(* to cancel that, once made, is carried out, refused or owned up to.      *)
(***************************************************************************)
CONSTANTS
    Calls,        \* the invocations of the tool
    OddReplies    \* calls whose replies may lack a status

VARIABLES
    phase,    \* phase[c]: "idle", "open", then "over" for good
    stmt,     \* stmt[c]: the statement in the workspace
    known,    \* known[c]: the call has learnt the statement's id
    mute,     \* mute[c]: what the workspace answered last has no status
    onWay,    \* onWay[c]: requests to cancel not yet answered
    request,  \* request[c]: what became of the last one
    record,   \* record[c]: the statement's state in the audit trail
    outcome   \* outcome[c]: the outcome in the audit trail

vars == <<phase, stmt, known, mute, onWay, request, record, outcome>>

Terminal == {"SUCCEEDED", "FAILED", "CANCELED"}
Outcomes == {"success", "error", "timeout", "cancelled"}

\* When a request is made: at the deadline of the polling, and on the way out.
Occasions == {"expiring", "aborting"}

Init ==
    /\ phase = [c \in Calls |-> "idle"]
    /\ stmt = [c \in Calls |-> "none"]
    /\ known = [c \in Calls |-> FALSE]
    /\ mute = [c \in Calls |-> FALSE]
    /\ onWay = [c \in Calls |-> {}]
    /\ request = [c \in Calls |-> "none"]
    /\ record = [c \in Calls |-> "none"]
    /\ outcome = [c \in Calls |-> "none"]

Begin(c) ==
    /\ phase[c] = "idle"
    /\ phase' = [phase EXCEPT ![c] = "open"]
    /\ UNCHANGED <<stmt, known, mute, onWay, request, record, outcome>>

\* The workspace creates the statement, perhaps when the call is over.
Create(c) ==
    /\ phase[c] # "idle" /\ stmt[c] = "none"
    /\ stmt' = [stmt EXCEPT ![c] = "RUNNING"]
    /\ UNCHANGED <<phase, known, mute, onWay, request, record, outcome>>

\* It ends by itself.
Finish(c) ==
    /\ stmt[c] = "RUNNING"
    /\ stmt' \in {[stmt EXCEPT ![c] = s] : s \in {"SUCCEEDED", "FAILED"}}
    /\ UNCHANGED <<phase, known, mute, onWay, request, record, outcome>>

\* It ends after a request to cancel it was accepted.
Stop(c) ==
    /\ stmt[c] = "CANCELING"
    /\ stmt' \in {[stmt EXCEPT ![c] = s] : s \in Terminal}
    /\ UNCHANGED <<phase, known, mute, onWay, request, record, outcome>>

\* Only the id of a statement that exists can be learnt.
Learns(c) ==
    \/ UNCHANGED known
    \/ stmt[c] # "none" /\ known' = [known EXCEPT ![c] = TRUE]

Learn(c) ==
    /\ phase[c] = "open" /\ Learns(c)
    /\ UNCHANGED <<phase, stmt, mute, onWay, request, record, outcome>>

Hear(c) ==
    /\ phase[c] = "open"
    /\ mute' \in {[mute EXCEPT ![c] = b] : b \in {FALSE, (c \in OddReplies)}}
    /\ UNCHANGED <<phase, stmt, known, onWay, request, record, outcome>>

\* Ask the workspace to cancel the statement; a request that has not left yet
\* may be replaced.
Ask(c, occasion) ==
    /\ phase[c] = "open"
    /\ Learns(c) /\ known'[c]
    /\ mute' = [mute EXCEPT ![c] = FALSE]
    /\ onWay' \in {[onWay EXCEPT ![c] = kept \cup {occasion}] : kept \in {{}, onWay[c]}}
    /\ request' = [request EXCEPT ![c] = "asked"]
    /\ UNCHANGED <<phase, stmt, record, outcome>>

\* The workspace accepts a request, or the SDK fails.
Accept(c, occasion) ==
    /\ occasion \in onWay[c]
    /\ onWay' = [onWay EXCEPT ![c] = @ \ {occasion}]
    /\ request' = [request EXCEPT ![c] = "sent"]
    /\ stmt' = [stmt EXCEPT ![c] = IF @ = "RUNNING" THEN "CANCELING" ELSE @]
    /\ UNCHANGED <<phase, known, mute, record, outcome>>

Fail(c, occasion) ==
    /\ occasion \in onWay[c]
    /\ onWay' = [onWay EXCEPT ![c] = @ \ {occasion}]
    /\ request' = [request EXCEPT ![c] = "refused"]
    /\ UNCHANGED <<phase, stmt, known, mute, record, outcome>>

\* A call that leaves may take with it the requests that have not left yet.
Leaves(c) ==
    \/ UNCHANGED <<onWay, request>>
    \/ /\ onWay[c] # {}
       /\ onWay' \in {[onWay EXCEPT ![c] = kept] : kept \in SUBSET onWay[c]}
       /\ request' = [request EXCEPT ![c] = "dropped"]

\* A statement may be left running by a call that knew of it only if a request
\* to cancel it is on its way or has failed, or the workspace did not say that
\* it runs.
MayLeave(c) ==
    stmt[c] = "RUNNING" /\ known'[c] =>
        onWay'[c] # {} \/ request'[c] \in {"refused", "dropped"} \/ mute[c]

\* The one answer: a terminal state in it is true, a success succeeded, and a
\* call that learnt its statement's id leaves a record of it.
Answer(c, state, o) ==
    /\ phase[c] \in {"idle", "open"}
    /\ phase' = [phase EXCEPT ![c] = "over"]
    /\ Learns(c) /\ Leaves(c) /\ MayLeave(c)
    /\ state \in Terminal => stmt[c] = state
    /\ o = "success" => stmt[c] = "SUCCEEDED"
    /\ known'[c] => state # "none"
    /\ record' = [record EXCEPT ![c] = state]
    /\ outcome' = [outcome EXCEPT ![c] = o]
    /\ UNCHANGED <<stmt, mute>>

Next ==
    \E c \in Calls :
        \/ Begin(c) \/ Create(c) \/ Finish(c) \/ Stop(c) \/ Learn(c) \/ Hear(c)
        \/ \E occasion \in Occasions :
              Ask(c, occasion) \/ Accept(c, occasion) \/ Fail(c, occasion)
        \/ \E state \in Terminal \cup {"none", "RUNNING", "NO_ID", "BLANK"}, o \in Outcomes :
              Answer(c, state, o)

Spec == Init /\ [][Next]_vars
=============================================================================
