------------------------------ MODULE HttpServer ------------------------------
(***************************************************************************)
(* server.py: which transport is served and how it is bound, the routes,   *)
(* the bearer middleware that decides who the caller is, and what the tool *)
(* calls of that caller are charged.  The limiter is the exact window of   *)
(* SlidingWindow, which RateLimiter implements; here its keys meet the     *)
(* callers and the guarded tools that call one another.                    *)
(*                                                                         *)
(* Each request is a task with its own copy of the context variable        *)
(* mcp_caller_id.  A tool runs in the context of the request that carries  *)
(* it or, in a task of the MCP session, in a copy of the context of the    *)
(* request that opened the session: FastMCP decides, so both are allowed.  *)
(***************************************************************************)
EXTENDS Integers, FiniteSets, SequencesExt

CONSTANTS
    Configs,         \* command lines and environments the server starts with
    NotGiven,        \* a flag or variable that is absent, an empty header
    Requests,        \* HTTP requests, or calls over stdio
    Messages,        \* what may arrive: [path, auth, user, session, tool]
    Sessions,        \* MCP sessions
    Users,           \* end users an upstream proxy names in its header
    TokenName,       \* MCP_BEARER_TOKEN_NAME, or "bearer-authenticated"
    ProcessDefault,  \* MCP_CALLER_ID, or "unknown"
    Limits,          \* the limit of each (tool, caller)
    MaxTime,         \* bound: the clock stops there
    MaxCharges       \* bound: calls answered per (tool, caller)

Callers == Users \cup {TokenName, ProcessDefault}
Plans ==  \* the guarded calls a tool call makes, in order
    [execute_sql_safe |-> <<"execute_sql_safe">>,
     billing_summary  |-> <<"billing_summary", "execute_sql_safe">>,
     billing_report   |-> <<"billing_report", "billing_summary", "execute_sql_safe",
                                              "billing_summary", "execute_sql_safe">>]
Tools == DOMAIN Plans
Keys == Tools \X Callers

OpenPaths == {"/healthz", "/readyz", "/metrics"}

\* Authorization (auth) is the expected text, another one, one with characters
\* that compare_digest does not take, or absent.
Message == [path : OpenPaths \cup {"/mcp"}, auth : {"right", "wrong", "non-ascii", NotGiven},
            user : Users \cup {NotGiven}, session : Sessions, tool : Tools]

Unopened == "unopened"

ASSUME MessagesAssumption == Messages \subseteq Message
ASSUME CallersAssumption == NotGiven \notin Callers /\ Unopened \notin Callers \cup {NotGiven}
ASSUME LimitsAssumption ==
    \A k \in Keys : Limits[k].count \in Int /\ Limits[k].window \in Int
ASSUME BoundsAssumption == MaxTime \in Nat /\ MaxCharges \in Nat

VARIABLES
    config,     \* what the server was started with
    phase,      \* "starting", "refused", "stdio", "serving", "draining", "down"
    inherits,   \* whose context a tool runs in: its "request" or "session"
    req,        \* req[r]: the request
    context,    \* context[r]: mcp_caller_id in the task of request r
    session,    \* session[s]: the caller in the context that opened session s
    now, admitted, refused   \* the rate limiter

limiter == <<now, admitted, refused>>
vars    == <<config, phase, inherits, req, context, session, limiter>>

Limiter == INSTANCE SlidingWindow WITH
    Keys <- Keys, Limits <- Limits, MaxTime <- MaxTime, MaxCalls <- MaxCharges,
    now <- now, admitted <- admitted, refused <- refused

Idle == [pc |-> "idle"]

Init ==
    /\ config \in Configs
    /\ phase = "starting"
    /\ inherits \in {"request", "session"}
    /\ req = [r \in Requests |-> Idle]
    /\ context = [r \in Requests |-> NotGiven]
    /\ session = [s \in Sessions |-> Unopened]
    /\ Limiter!Init

-----------------------------------------------------------------------------
(* main.                                                                   *)

\* A flag wins over its variable, the variable over the default.
Setting(flag, var, default) ==
    IF flag # NotGiven THEN flag ELSE IF var # NotGiven THEN var ELSE default

\* argparse checks the choices of a flag, not those of a default taken from the
\* environment: any other text in MCP_TRANSPORT is served as streamable-http.
Transport == Setting(config.transport, config.MCP_TRANSPORT, "stdio")
External == Setting(config.host, config.MCP_HOST, "loopback") = "external"
AllowExternal == config.allowExternal

\* Authentication is on when something is left of MCP_BEARER_TOKEN once stripped.
AuthEnabled == config.token = "set"

\* MCP_TRUST_END_USER_HEADER: the operator vouches for the proxy in front.
TrustHeader == config.trust

StartStdio ==
    /\ phase = "starting" /\ Transport = "stdio"
    /\ phase' = "stdio"
    /\ UNCHANGED <<config, inherits, req, context, session, limiter>>

RefusesBind == External /\ ~AllowExternal

RefuseBind ==
    /\ phase = "starting" /\ Transport # "stdio" /\ RefusesBind
    /\ phase' = "refused"
    /\ UNCHANGED <<config, inherits, req, context, session, limiter>>

StartHttp ==
    /\ phase = "starting" /\ Transport # "stdio" /\ ~RefusesBind
    /\ phase' = "serving"
    /\ UNCHANGED <<config, inherits, req, context, session, limiter>>

-----------------------------------------------------------------------------
(* A request: the middleware, the routes, the tool.                        *)

Receive(r, m, pc) ==
    /\ phase \in {"stdio", "serving"}
    /\ phase = "stdio" => m.path = "/mcp" /\ m.auth = NotGiven /\ m.user = NotGiven
    /\ req[r] = Idle
    /\ req' = [req EXCEPT ![r] =
                [pc |-> pc, paid |-> <<>>, path |-> m.path, auth |-> m.auth,
                 user |-> m.user, session |-> m.session, tool |-> m.tool]]
    /\ UNCHANGED <<config, phase, inherits, session, limiter>>

Protected(m) == phase # "stdio" /\ AuthEnabled /\ m.path \notin OpenPaths

PassUnprotected(r, m) ==
    /\ ~Protected(m) /\ m.path = "/mcp"
    /\ Receive(r, m, "routed")
    /\ UNCHANGED context

\* /metrics is a route when MCP_PROMETHEUS_ENABLED is set and the library is there.
MetricsRoute == config.prometheus

\* The routes of the probes.  /readyz says whether a lifespan has ended, which is
\* for FastMCP to decide.
Probe(r, m) ==
    /\ m.path \in OpenPaths
    /\ \E answer \in IF m.path = "/metrics" /\ ~MetricsRoute THEN {"404"}
                     ELSE IF m.path = "/readyz" THEN {"200", "503"} ELSE {"200"} :
          Receive(r, m, answer)
    /\ UNCHANGED context

Unauthorized(r, m) ==
    /\ Protected(m) /\ m.auth \in {"wrong", NotGiven}
    /\ Receive(r, m, "401")
    /\ UNCHANGED context

\* compare_digest raises a TypeError, which nothing catches.
ComparisonRaises(r, m) ==
    /\ Protected(m) /\ m.auth = "non-ascii"
    /\ Receive(r, m, "500")
    /\ UNCHANGED context

\* Mutant: the header is used whether it is to be trusted or not.
Caller_alwaysHeader(m) == IF m.user # NotGiven THEN m.user ELSE TokenName

\* The caller of an authenticated request.
Caller(m) == IF TrustHeader /\ m.user # NotGiven THEN m.user ELSE TokenName

\* Mutant: the caller is kept in a variable of the process.
Bind_global(r, m) == context' = [x \in Requests |-> Caller(m)]

\* audit.set_caller_id, in the context of this request.
Bind(r, m) == context' = [context EXCEPT ![r] = Caller(m)]

Authenticated(r, m) ==
    /\ Protected(m) /\ m.auth = "right"
    /\ Receive(r, m, "routed")
    /\ Bind(r, m)

\* The first request of a session opens it.
CallTool(r) ==
    LET s == req[r].session IN
    /\ req[r].pc = "routed"
    /\ req' = [req EXCEPT ![r].pc = "calling"]
    /\ session' = [session EXCEPT ![s] = IF @ = Unopened THEN context[r] ELSE @]
    /\ UNCHANGED <<config, phase, inherits, context, limiter>>

\* audit.current_caller_id() where the context variable has value c.
Named(c) == IF c = NotGiven THEN ProcessDefault ELSE c

\* In the task the tool runs in.
CallerId(r) == Named(IF inherits = "request" THEN context[r] ELSE session[req[r].session])

\* Mutant: the tools inside a tool call run with the process's default caller.
NextKey_default(r) ==
    LET i == Len(req[r].paid) + 1 IN
    <<Plans[req[r].tool][i], IF i = 1 THEN CallerId(r) ELSE ProcessDefault>>

\* What the next guarded call is charged to.
NextKey(r) == <<Plans[req[r].tool][Len(req[r].paid) + 1], CallerId(r)>>

Unpaid(r) == req[r].pc = "calling" /\ Len(req[r].paid) < Len(Plans[req[r].tool])

Charge(r) ==
    /\ Unpaid(r)
    /\ Limiter!Answered(NextKey(r)) < MaxCharges
    /\ Limiter!Admit(NextKey(r))
    /\ req' = [req EXCEPT ![r].paid = Append(@, [key |-> NextKey(r), at |-> now])]
    /\ UNCHANGED <<config, phase, inherits, context, session>>

\* Mutant: the context is reset only when the tool returns a result.
Respond_resetOnSuccess(r) ==
    /\ req' = [req EXCEPT ![r].pc = "answered"]
    /\ context' = [context EXCEPT ![r] = IF Unpaid(r) THEN @ ELSE NotGiven]
    /\ UNCHANGED <<config, phase, inherits, session>>

\* The response leaves; dispatch's finally calls audit.reset_caller_id.
Respond(r) ==
    /\ req' = [req EXCEPT ![r].pc = "answered"]
    /\ context' = [context EXCEPT ![r] = NotGiven]
    /\ UNCHANGED <<config, phase, inherits, session>>

\* A guarded call that is refused returns an error, which every tool around it
\* returns in its turn: what was paid so far is lost.
Limited(r) ==
    /\ Unpaid(r)
    /\ Limiter!Answered(NextKey(r)) < MaxCharges
    /\ Limiter!Refuse(NextKey(r))
    /\ Respond(r)

\* It ends with a result, or at any moment with an error or a timeout.
Answer(r) ==
    /\ req[r].pc = "calling" /\ req[r].paid # <<>>
    /\ Respond(r)
    /\ UNCHANGED limiter

Responses == {"200", "401", "404", "500", "503", "answered"}

-----------------------------------------------------------------------------
(* uvicorn: after SIGTERM no request is accepted, and the lifespan ends when *)
(* those in flight have been answered.                                     *)

Signal ==
    /\ phase = "serving" /\ phase' = "draining"
    /\ UNCHANGED <<config, inherits, req, context, session, limiter>>

Drained ==
    /\ phase = "draining"
    /\ \A r \in Requests : req[r].pc \in Responses \cup {"idle"}
    /\ phase' = "down"
    /\ UNCHANGED <<config, inherits, req, context, session, limiter>>

Tick ==
    /\ Limiter!Tick
    /\ UNCHANGED <<config, phase, inherits, req, context, session>>

Arrive(r, m) ==
    \/ PassUnprotected(r, m) \/ Probe(r, m) \/ Unauthorized(r, m)
    \/ ComparisonRaises(r, m) \/ Authenticated(r, m)

Next ==
    \/ StartStdio \/ RefuseBind \/ StartHttp
    \/ \E r \in Requests :
          \/ \E m \in Messages : Arrive(r, m)
          \/ CallTool(r) \/ Charge(r) \/ Limited(r) \/ Answer(r)
    \/ Signal \/ Drained \/ Tick

Spec == Init /\ [][Next]_vars

-----------------------------------------------------------------------------

Payment == [key : Keys, at : Nat]
Request == [pc : {"routed", "calling"} \cup Responses, paid : Seq(Payment),
            path : OpenPaths \cup {"/mcp"}, auth : {"right", "wrong", "non-ascii", NotGiven},
            user : Users \cup {NotGiven}, session : Sessions, tool : Tools]

TypeOK ==
    /\ config \in Configs
    /\ phase \in {"starting", "refused", "stdio", "serving", "draining", "down"}
    /\ inherits \in {"request", "session"}
    /\ req \in [Requests -> Request \cup {Idle}]
    /\ \A r \in Requests : req[r] # Idle => Len(req[r].paid) <= Len(Plans[req[r].tool])
    /\ context \in [Requests -> Callers \cup {NotGiven}]
    /\ \A r \in Requests : context[r] # NotGiven => req[r].pc \in {"routed", "calling"}
    /\ session \in [Sessions -> Callers \cup {NotGiven, Unopened}]
    /\ now \in 0..MaxTime
    /\ admitted \in [Keys -> Seq(Nat)] /\ refused \in [Keys -> Nat]
    /\ \A k \in Keys : Len(admitted[k]) + refused[k] <= MaxCharges

\* The requests that a charge by request r may be put down to.
Peers(r) == IF inherits = "request" THEN {r}
            ELSE {x \in Requests : req[x] # Idle /\ req[x].session = req[r].session}

\* Who a request is from, as far as the configuration lets it be told.
Identity(r) ==
    IF phase = "stdio" \/ ~AuthEnabled THEN ProcessDefault
    ELSE IF TrustHeader /\ req[r].user # NotGiven THEN req[r].user ELSE TokenName

\* A request that passed the middleware carried the token, if one is configured.
Vouched(r) == phase # "stdio" /\ AuthEnabled => req[r].auth = "right"

\* Whatever a tool call pays, at any depth of tools inside tools, is charged to
\* one caller, the one its own request (or one of its session) identified; with
\* a token configured that request carried the token.  Concurrent requests of
\* others do not mix in.  (dispatch sets a context variable around call_next.)
ChargedToItsCaller ==
    \A r \in Requests : req[r] # Idle =>
        \A i \in DOMAIN req[r].paid :
            /\ req[r].paid[i].key[2] = req[r].paid[1].key[2]
            /\ \E x \in Peers(r) : req[r].paid[i].key[2] = Identity(x) /\ Vouched(x)

\* The calls charged to a key, one by one: which request made them, and which
\* of its guarded calls they were.
Payments(k) ==
    {x \in Requests \X (1..Len(Plans.billing_report)) :
        /\ req[x[1]] # Idle /\ x[2] \in DOMAIN req[x[1]].paid
        /\ req[x[1]].paid[x[2]].key = k}

\* The calls of a tool made from time t on within its window by requests from c,
\* on their own or inside other tools.
Used(c, tool, t) ==
    {x \in UNION {Payments(<<tool, payer>>) : payer \in Callers} :
        /\ Identity(x[1]) = c
        /\ req[x[1]].paid[x[2]].at \in t..(t + Limits[<<tool, c>>].window)}

\* One who calls cannot get past the limit of a tool by opening sessions, by
\* headers nobody trusts, or by way of a tool that calls it: all requests from
\* one caller together stay within the quota of each tool.  This needs tools to
\* run in the context of their own request; in that of the session's opener a
\* caller draws on the quota of others.
CallersKeepToTheirQuota ==
    inherits = "request" =>
        \A c \in Callers, tool \in Tools, t \in 0..MaxTime :
            Used(c, tool, t) # {} => Cardinality(Used(c, tool, t)) <= Limits[<<tool, c>>].count

\* The limiter keeps a deque for every key it has seen and drops none.  Its keys
\* are of callers who sent a request that passed the middleware, and unless an
\* end-user header is trusted of one caller only: requests that are rejected, or
\* that name users nobody vouches for, do not make it grow.  (rate_limit._buckets)
BucketsAreForCallers ==
    LET known == {k[2] : k \in {k \in Keys : Len(admitted[k]) + refused[k] > 0}} IN
    /\ \A c \in known : \E r \in Requests :
          req[r] # Idle /\ c = Identity(r) /\ Vouched(r)
    /\ ~TrustHeader => Cardinality(known) <= 1
-----------------------------------------------------------------------------
(* What the properties above rest on.                                      *)

\* The context variable of a request being served names the caller it is from.
ContextInv ==
    /\ phase \in {"starting", "refused"} => \A r \in Requests : req[r] = Idle
    /\ \A r \in Requests : req[r].pc \in {"routed", "calling"} =>
          Named(context[r]) = Identity(r) /\ Vouched(r)

\* The one in the context of a session names the caller of one of its requests.
SessionInv ==
    /\ \A s \in Sessions : session[s] # Unopened =>
          \E x \in Requests : /\ req[x] # Idle /\ req[x].session = s
                              /\ Named(session[s]) = Identity(x) /\ Vouched(x)
    /\ \A r \in Requests : req[r].pc = "calling" => session[req[r].session] # Unopened

\* A call pays as one caller from beginning to end.
PaidInv ==
    \A r \in Requests :
        /\ req[r].pc = "routed" => req[r].paid = <<>>
        /\ req[r].pc = "calling" =>
              \A i \in DOMAIN req[r].paid : req[r].paid[i].key[2] = CallerId(r)

\* Every payment is an admission of its own, made at the same time.
LedgerInv ==
    \A k \in Keys : \E f \in [Payments(k) -> DOMAIN admitted[k]] :
        /\ \A x, y \in Payments(k) : f[x] = f[y] => x = y
        /\ \A x \in Payments(k) : admitted[k][f[x]] = req[x[1]].paid[x[2]].at

BucketInv ==
    \A k \in Keys : Len(admitted[k]) + refused[k] > 0 =>
        \E r \in Requests : req[r] # Idle /\ k[2] = Identity(r) /\ Vouched(r)

IInv ==
    /\ TypeOK /\ ContextInv /\ SessionInv /\ PaidInv /\ ChargedToItsCaller
    /\ LedgerInv /\ BucketInv
    /\ \A k \in Keys : Limiter!KeepsQuota(k)
=============================================================================
