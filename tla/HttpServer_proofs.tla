-------------------------- MODULE HttpServer_proofs --------------------------
(***************************************************************************)
(* Proofs about callers and what they are charged, for every command line, *)
(* every set of requests, messages, sessions and users, every table of     *)
(* integer limits and every bound.                                         *)
(***************************************************************************)
EXTENDS HttpServer, FiniteSetTheorems, FunctionTheorems, SequenceTheorems, TLAPS

-----------------------------------------------------------------------------
(* The window of the limiter.                                              *)

\* The limiter counts with the same Cardinality.
LEMMA SameCardinality == \A S : Limiter!Cardinality(S) = Cardinality(S)
BY DEF Cardinality, Limiter!Cardinality

\* A sequence, and the sequence with an element appended.
LEMMA Appending ==
    ASSUME NEW S, NEW s \in Seq(S), NEW x \in S
    PROVE  /\ Len(s) \in Nat /\ DOMAIN s = 1..Len(s) /\ \A i \in 1..Len(s) : s[i] \in S
           /\ Append(s, x) \in Seq(S) /\ Len(Append(s, x)) = Len(s) + 1
           /\ DOMAIN Append(s, x) = 1..(Len(s) + 1)
           /\ Append(s, x)[Len(s) + 1] = x
           /\ \A i \in 1..Len(s) : Append(s, x)[i] = s[i]
<1>1. Append(s, x) \in Seq(S) /\ Len(Append(s, x)) = Len(s) + 1
  BY AppendProperties
<1> QED
  BY <1>1, AppendProperties, LenProperties, ElementOfSeq

\* Every window that contains a new admission begins late enough for all its
\* other admissions to be counted by the guard of that admission.
LEMMA AdmitKeepsQuota ==
    ASSUME now \in Nat, admitted \in [Keys -> Seq(Nat)], NEW k \in Keys, Limiter!Admit(k),
           \A q \in Keys : Limiter!KeepsQuota(q)
    PROVE  \A q \in Keys : Limiter!KeepsQuota(q)'
<1> DEFINE a == admitted[k]
           n == Len(a)
           c == Limits[k].count
           w == Limits[k].window
           recent == {i \in DOMAIN a : a[i] >= now - w}
<1>1. /\ Cardinality(recent) < c
      /\ admitted' = [admitted EXCEPT ![k] = Append(a, now)] /\ now' = now
  BY SameCardinality DEF Limiter!Admit, Limiter!Recent
<1>2. /\ n \in Nat /\ DOMAIN a = 1..n /\ c \in Int /\ w \in Int
      /\ DOMAIN admitted'[k] = 1..(n + 1) /\ admitted'[k][n + 1] = now
      /\ \A i \in 1..n : admitted'[k][i] = a[i] /\ a[i] \in Nat
  <2>1. admitted'[k] = Append(a, now) /\ a \in Seq(Nat)
    BY <1>1
  <2> QED
    BY <2>1, Appending, LimitsAssumption
<1>3. \A q \in Keys : q # k => admitted'[q] = admitted[q]
  BY <1>1
<1> HIDE DEF a, n, c, w, recent
<1>4. ASSUME NEW t \in 0..MaxTime, Limiter!Within(k, t)' # {}
      PROVE  Cardinality(Limiter!Within(k, t)') <= c
  <2> DEFINE before == {i \in 1..n : a[i] \in t..(t + w)}
             after == {i \in 1..(n + 1) : admitted'[k][i] \in t..(t + w)}
  <2>1. Limiter!Within(k, t) = before /\ Limiter!Within(k, t)' = after
    BY <1>2 DEF Limiter!Within, a, w
  <2>2. IsFiniteSet(1..n) /\ IsFiniteSet(before)
    <3>1. IsFiniteSet(1..n)
      BY <1>2, FS_Interval
    <3>2. before \in SUBSET (1..n)
      OBVIOUS
    <3> QED
      BY <3>1, <3>2, FS_Subset
  <2>3. t \in Int
    OBVIOUS
  <2>4. CASE now \in t..(t + w)
    <3>1. after = before \cup {n + 1} /\ n + 1 \notin before
      BY <1>2, <2>4
    <3>2. before \subseteq recent
      BY <1>2, <2>3, <2>4 DEF recent
    <3>3. IsFiniteSet(recent)
      BY <1>2, <2>2, FS_Subset DEF recent
    <3>4. Cardinality(before) <= Cardinality(recent) /\ Cardinality(recent) \in Nat
          /\ Cardinality(before) \in Nat
      BY <2>2, <3>2, <3>3, FS_Subset, FS_CardinalityType
    <3>5. Cardinality(after) = Cardinality(before) + 1
      BY <2>2, <3>1, FS_AddElement
    <3> HIDE DEF before, after
    <3> QED
      BY <1>1, <1>2, <2>1, <3>4, <3>5
  <2>5. CASE now \notin t..(t + w)
    <3>1. after = before
      BY <1>2, <2>5
    <3>2. Limiter!Within(k, t) # {}
      BY <1>4, <2>1, <3>1
    <3>3. Cardinality(Limiter!Within(k, t)) <= c
      BY <3>2, SameCardinality DEF Limiter!KeepsQuota, c
    <3> QED
      BY <2>1, <3>1, <3>3
  <2> QED
    BY <2>4, <2>5
<1>5. Limiter!KeepsQuota(k)'
  BY <1>4, SameCardinality DEF Limiter!KeepsQuota, c
<1>6. ASSUME NEW q \in Keys, q # k PROVE Limiter!KeepsQuota(q)'
  BY <1>3, <1>6 DEF Limiter!KeepsQuota, Limiter!Within
<1> QED
  BY <1>5, <1>6

-----------------------------------------------------------------------------
(* Requests, plans and callers.                                            *)

LEMMA PlanSteps ==
    \A tool \in Tools :
        /\ Len(Plans[tool]) \in 1..Len(Plans.billing_report)
        /\ \A i \in 1..Len(Plans[tool]) : Plans[tool][i] \in Tools
<1>1. Tools = {"execute_sql_safe", "billing_summary", "billing_report"}
  BY DEF Tools, Plans
<1>2. Len(Plans.billing_report) = 5
  BY DEF Plans
<1>3. /\ Len(Plans["execute_sql_safe"]) = 1
      /\ \A i \in 1..1 : Plans["execute_sql_safe"][i] \in Tools
  BY <1>1 DEF Plans
<1>4. /\ Len(Plans["billing_summary"]) = 2
      /\ \A i \in 1..2 : Plans["billing_summary"][i] \in Tools
  BY <1>1 DEF Plans
<1>5. /\ Len(Plans["billing_report"]) = 5
      /\ \A i \in 1..5 : Plans["billing_report"][i] \in Tools
  BY <1>1 DEF Plans
<1> QED
  BY <1>1, <1>2, <1>3, <1>4, <1>5

\* A request is idle or has the fields of a message, a state and its payments.
LEMMA RequestFields ==
    ASSUME TypeOK, NEW r \in Requests, req[r] # Idle
    PROVE  /\ req[r] \in Request /\ req[r].pc \in {"routed", "calling"} \cup Responses
           /\ req[r].paid \in Seq(Payment) /\ req[r].session \in Sessions /\ req[r].tool \in Tools
           /\ req[r].user \in Users \cup {NotGiven}
           /\ DOMAIN req[r].paid = 1..Len(req[r].paid) /\ Len(req[r].paid) \in Nat
           /\ \A i \in DOMAIN req[r].paid : req[r].paid[i] \in Payment
<1>1. req[r] \in Request
  BY DEF TypeOK
<1>2. req[r].paid \in Seq(Payment)
  BY <1>1 DEF Request
<1>3. /\ DOMAIN req[r].paid = 1..Len(req[r].paid) /\ Len(req[r].paid) \in Nat
      /\ \A i \in DOMAIN req[r].paid : req[r].paid[i] \in Payment
  BY <1>2, LenProperties, ElementOfSeq
<1> QED
  BY <1>1, <1>2, <1>3 DEF Request

LEMMA IdleIsNoRequest ==
    /\ Idle.pc = "idle" /\ "idle" \notin {"routed", "calling"} \cup Responses
    /\ \A x \in Request : x # Idle /\ x.pc # "idle"
BY DEF Idle, Responses, Request

\* An operation that leaves a request the request it was.
Same(x) ==
    req[x] # Idle =>
        /\ req'[x] # Idle /\ req'[x].auth = req[x].auth /\ req'[x].user = req[x].user
        /\ req'[x].session = req[x].session /\ req'[x].tool = req[x].tool

\* One in which it does not pay.
PaysNothing(x) ==
    IF req[x] # Idle THEN req'[x].paid = req[x].paid ELSE req'[x] = Idle \/ req'[x].paid = <<>>

\* Who a request is from does not change while it is served.
LEMMA IdentityStays ==
    ASSUME UNCHANGED <<config, inherits>>, (phase' = "stdio") <=> (phase = "stdio"),
           \A x \in Requests : Same(x)
    PROVE  /\ \A x \in Requests : req[x] # Idle =>
                 Identity(x)' = Identity(x) /\ Vouched(x)' = Vouched(x)
           /\ \A r \in Requests : req[r] # Idle => Peers(r) \subseteq Peers(r)'
BY DEF Same, Identity, Vouched, Peers, AuthEnabled, TrustHeader

\* When nothing is paid, what was paid stays accounted for.
LEMMA LedgerStays ==
    ASSUME IInv, UNCHANGED <<config, inherits, admitted>>,
           (phase' = "stdio") <=> (phase = "stdio"),
           \A x \in Requests : Same(x) /\ PaysNothing(x)
    PROVE  LedgerInv' /\ ChargedToItsCaller'
<1>1. \A x \in Requests : req'[x] # Idle =>
        \/ req'[x].paid = <<>>
        \/ req[x] # Idle /\ req'[x].paid = req[x].paid
  BY DEF PaysNothing
<1>2. DOMAIN <<>> = {}
  OBVIOUS
<1>3. \A k \in Keys : Payments(k)' = Payments(k)
  BY <1>1, <1>2 DEF Same, PaysNothing, Payments
<1>4. \A k \in Keys : \A x \in Payments(k) : req'[x[1]].paid = req[x[1]].paid
  BY DEF Payments, PaysNothing
<1>5. LedgerInv'
  BY <1>3, <1>4 DEF IInv, LedgerInv
<1>6. ChargedToItsCaller'
  <2> SUFFICES ASSUME NEW r \in Requests, req'[r] # Idle, NEW i \in DOMAIN req'[r].paid
               PROVE  /\ req'[r].paid[i].key[2] = req'[r].paid[1].key[2]
                      /\ \E x \in Peers(r)' :
                            req'[r].paid[i].key[2] = Identity(x)' /\ Vouched(x)'
    BY DEF ChargedToItsCaller
  <2>1. req[r] # Idle /\ req'[r].paid = req[r].paid /\ i \in DOMAIN req[r].paid
    BY <1>1, <1>2
  <2>2. /\ req[r].paid[i].key[2] = req[r].paid[1].key[2]
        /\ \E x \in Peers(r) : req[r].paid[i].key[2] = Identity(x) /\ Vouched(x)
    BY <2>1 DEF IInv, ChargedToItsCaller
  <2>3. \A x \in Peers(r) : x \in Requests /\ req[x] # Idle
    BY <2>1 DEF Peers
  <2> QED
    BY <2>1, <2>2, <2>3, IdentityStays
<1> QED
  BY <1>5, <1>6

\* The caller a tool call pays as is one that its request, or one of its session,
\* identified.
LEMMA CallerIsIdentified ==
    ASSUME IInv, NEW r \in Requests, req[r].pc = "calling"
    PROVE  /\ CallerId(r) \in Callers
           /\ \E x \in Peers(r) : /\ x \in Requests /\ req[x] # Idle
                                  /\ CallerId(r) = Identity(x) /\ Vouched(x)
<1>1. req[r] # Idle /\ req[r].session \in Sessions
  BY IdleIsNoRequest, RequestFields DEF IInv
<1>2. CASE inherits = "request"
  <2>1. Named(context[r]) = Identity(r) /\ Vouched(r) /\ r \in Peers(r)
    BY <1>2 DEF IInv, ContextInv, Peers
  <2>2. Named(context[r]) \in Callers
    BY DEF IInv, TypeOK, Named, Callers
  <2> QED
    BY <1>1, <1>2, <2>1, <2>2 DEF CallerId
<1>3. CASE inherits # "request"
  <2> DEFINE s == req[r].session
  <2>1. session[s] # Unopened
    BY DEF IInv, SessionInv
  <2>2. PICK x \in Requests : /\ req[x] # Idle /\ req[x].session = s
                              /\ Named(session[s]) = Identity(x) /\ Vouched(x)
    BY <1>1, <2>1 DEF IInv, SessionInv
  <2>3. Named(session[s]) \in Callers
    BY <1>1, <2>1 DEF IInv, TypeOK, Named, Callers
  <2> QED
    BY <1>3, <2>2, <2>3 DEF CallerId, Peers
<1> QED
  BY <1>2, <1>3

-----------------------------------------------------------------------------
(* Steps that pay nothing.                                                 *)

\* The server starts, when no request has come, or begins to stop.
LEMMA PhaseIInv ==
    ASSUME IInv, UNCHANGED <<config, inherits, req, context, session, limiter>>,
           \/ phase = "starting" /\ phase' \in {"stdio", "refused", "serving"}
           \/ phase = "serving" /\ phase' = "draining"
           \/ phase = "draining" /\ phase' = "down"
    PROVE  IInv'
<1> USE DEF limiter
<1>1. TypeOK'
  BY DEF IInv, TypeOK
<1>2. \A k \in Keys : Limiter!KeepsQuota(k)'
  BY DEF IInv, Limiter!KeepsQuota, Limiter!Within
<1>3. CASE phase = "starting"
  <2>1. \A r \in Requests : req[r] = Idle /\ req[r].pc = "idle"
    BY <1>3, IdleIsNoRequest DEF IInv, ContextInv
  <2>2. \A s \in Sessions : session[s] = Unopened
    BY <2>1 DEF IInv, SessionInv
  <2>3. \A k \in Keys : Payments(k) = {} /\ Payments(k)' = {}
    BY <2>1 DEF Payments
  <2>4. LedgerInv'
    BY <2>3 DEF IInv, LedgerInv
  <2>5. ContextInv' /\ SessionInv' /\ PaidInv' /\ ChargedToItsCaller'
    BY <2>1, <2>2 DEF ContextInv, SessionInv, PaidInv, ChargedToItsCaller
  <2>6. BucketInv'
    BY <2>1 DEF IInv, BucketInv
  <2> QED
    BY <1>1, <1>2, <2>4, <2>5, <2>6 DEF IInv
<1>4. CASE phase # "starting"
  <2>1. /\ (phase' = "stdio") <=> (phase = "stdio")
        /\ \A x \in Requests : Same(x) /\ PaysNothing(x)
    BY <1>4 DEF Same, PaysNothing
  <2>2. \A x \in Requests : req[x] # Idle => Identity(x)' = Identity(x) /\ Vouched(x)' = Vouched(x)
    BY <2>1, IdentityStays
  <2>3. LedgerInv' /\ ChargedToItsCaller'
    BY <2>1, LedgerStays
  <2>4. ContextInv' /\ SessionInv' /\ BucketInv'
    BY <1>4, <2>2, IdleIsNoRequest DEF IInv, ContextInv, SessionInv, BucketInv
  <2>5. PaidInv'
    BY DEF IInv, PaidInv, CallerId
  <2> QED
    BY <1>1, <1>2, <2>3, <2>4, <2>5 DEF IInv
<1> QED
  BY <1>3, <1>4

\* A request comes in.  If it is to be served, its context names the caller.
LEMMA ReceiveIInv ==
    ASSUME IInv, NEW r \in Requests, NEW m \in Message,
           NEW pc \in {"routed"} \cup Responses, Receive(r, m, pc),
           context' = context \/ (pc = "routed" /\ Bind(r, m)),
           pc = "routed" => Named(context'[r]) = Identity(r)' /\ Vouched(r)'
    PROVE  IInv'
<1> DEFINE new == [pc |-> pc, paid |-> <<>>, path |-> m.path, auth |-> m.auth,
                   user |-> m.user, session |-> m.session, tool |-> m.tool]
<1>1. /\ phase \in {"stdio", "serving"} /\ req[r] = Idle /\ req' = [req EXCEPT ![r] = new]
      /\ UNCHANGED <<config, phase, inherits, session, now, admitted, refused>>
  BY DEF Receive, limiter
<1>2. /\ new \in Request /\ new # Idle /\ new.paid = <<>> /\ new.pc = pc /\ new.tool = m.tool
      /\ Len(new.paid) = 0
  <2>1. <<>> \in Seq(Payment) /\ Len(<<>>) = 0
    OBVIOUS
  <2>2. new \in Request
    BY <2>1 DEF Request, Message
  <2> QED
    BY <2>1, <2>2, IdleIsNoRequest
<1>3. context' \in [Requests -> Callers \cup {NotGiven}]
      /\ \A x \in Requests : x # r => context'[x] = context[x]
  <2>1. Caller(m) \in Callers
    BY DEF Caller, Message, Callers
  <2> QED
    BY <2>1 DEF IInv, TypeOK, Bind
<1> HIDE DEF new
<1>4. \A x \in Requests : req'[x] = IF x = r THEN new ELSE req[x]
  BY <1>1 DEF IInv, TypeOK
<1>5. \A x \in Requests : Same(x) /\ PaysNothing(x)
  BY <1>1, <1>2, <1>4 DEF Same, PaysNothing
<1>6. \A x \in Requests : req[x] # Idle => Identity(x)' = Identity(x) /\ Vouched(x)' = Vouched(x)
  BY <1>1, <1>5, IdentityStays
<1>7. LedgerInv' /\ ChargedToItsCaller'
  BY <1>1, <1>5, LedgerStays
<1>8. TypeOK'
  <2>1. req' \in [Requests -> Request \cup {Idle}]
    BY <1>1, <1>2 DEF IInv, TypeOK
  <2>2. Len(new.paid) <= Len(Plans[new.tool])
    BY <1>2, PlanSteps DEF Message
  <2>3. context[r] = NotGiven /\ (context'[r] # NotGiven => pc = "routed")
    BY <1>1, IdleIsNoRequest DEF IInv, TypeOK
  <2>4. \A x \in Requests : req'[x] # Idle => Len(req'[x].paid) <= Len(Plans[req'[x].tool])
    BY <1>4, <2>2 DEF IInv, TypeOK
  <2>5. \A x \in Requests : context'[x] # NotGiven => req'[x].pc \in {"routed", "calling"}
    BY <1>2, <1>3, <1>4, <2>3 DEF IInv, TypeOK
  <2> QED
    BY <1>1, <1>3, <2>1, <2>4, <2>5 DEF IInv, TypeOK
<1>9. ContextInv'
  <2>1. \A x \in Requests : req'[x].pc \in {"routed", "calling"} =>
          Named(context'[x]) = Identity(x)' /\ Vouched(x)'
    <3>1. ASSUME NEW x \in Requests, x # r, req'[x].pc \in {"routed", "calling"}
          PROVE  Named(context'[x]) = Identity(x)' /\ Vouched(x)'
      <4>1. req[x] # Idle /\ Named(context[x]) = Identity(x) /\ Vouched(x)
        BY <1>4, <3>1, IdleIsNoRequest DEF IInv, ContextInv
      <4> QED
        BY <1>3, <1>6, <3>1, <4>1
    <3>2. req'[r].pc \in {"routed", "calling"} => pc = "routed"
      BY <1>2, <1>4 DEF Responses
    <3> QED
      BY <3>1, <3>2
  <2> QED
    BY <1>1, <2>1 DEF ContextInv
<1>10. pc # "calling"
  BY DEF Responses
<1>11. SessionInv'
  <2>1. \A s \in Sessions : session'[s] # Unopened =>
          \E x \in Requests : /\ req'[x] # Idle /\ req'[x].session = s
                              /\ Named(session'[s]) = Identity(x)' /\ Vouched(x)'
    BY <1>1, <1>4, <1>6 DEF IInv, SessionInv
  <2>2. \A x \in Requests : req'[x].pc = "calling" => session'[req'[x].session] # Unopened
    BY <1>1, <1>2, <1>4, <1>10 DEF IInv, SessionInv
  <2> QED
    BY <2>1, <2>2 DEF SessionInv
<1>12. PaidInv'
  BY <1>1, <1>2, <1>3, <1>4, <1>10 DEF IInv, PaidInv, CallerId
<1>13. BucketInv'
  BY <1>1, <1>4, <1>6 DEF IInv, BucketInv
<1>14. \A k \in Keys : Limiter!KeepsQuota(k)'
  BY <1>1 DEF IInv, Limiter!KeepsQuota, Limiter!Within
<1> QED
  BY <1>7, <1>8, <1>9, <1>11, <1>12, <1>13, <1>14 DEF IInv

LEMMA ArriveIInv ==
    ASSUME IInv, NEW r \in Requests, NEW m \in Messages, Arrive(r, m)
    PROVE  IInv'
<1>1. m \in Message /\ IInv
  BY MessagesAssumption
<1>2. \A pc : Receive(r, m, pc) =>
        /\ phase \in {"stdio", "serving"} /\ UNCHANGED <<config, phase>>
        /\ context[r] = NotGiven /\ req'[r].user = m.user /\ req'[r].auth = m.auth
        /\ phase = "stdio" => m.path = "/mcp"
  <2> SUFFICES ASSUME NEW pc, Receive(r, m, pc)
               PROVE  /\ phase \in {"stdio", "serving"} /\ UNCHANGED <<config, phase>>
                      /\ context[r] = NotGiven
                      /\ req'[r].user = m.user /\ req'[r].auth = m.auth
                      /\ phase = "stdio" => m.path = "/mcp"
    OBVIOUS
  <2>1. req[r].pc \notin {"routed", "calling"}
    BY IdleIsNoRequest DEF Receive
  <2>2. context[r] = NotGiven
    BY <2>1 DEF IInv, TypeOK
  <2>3. req \in [Requests -> Request \cup {Idle}]
    BY DEF IInv, TypeOK
  <2> QED
    BY <2>2, <2>3 DEF Receive
<1>3. CASE PassUnprotected(r, m)
  <2>1. Receive(r, m, "routed") /\ context' = context /\ ~Protected(m) /\ m.path = "/mcp"
    BY <1>3 DEF PassUnprotected
  <2>2. phase = "stdio" \/ ~AuthEnabled
    BY <2>1 DEF Protected, OpenPaths
  <2>3. Named(context'[r]) = Identity(r)' /\ Vouched(r)'
    BY <1>2, <2>1, <2>2 DEF Named, Identity, Vouched, AuthEnabled
  <2> QED
    BY <1>1, <2>1, <2>3, ReceiveIInv
<1>4. ASSUME NEW pc \in Responses, Receive(r, m, pc), context' = context PROVE IInv'
  <2>1. pc # "routed"
    BY DEF Responses
  <2> QED
    BY <1>1, <1>4, <2>1, ReceiveIInv
<1>5. CASE Probe(r, m)
  BY <1>4, <1>5 DEF Probe, Responses
<1>6. CASE Unauthorized(r, m) \/ ComparisonRaises(r, m)
  BY <1>4, <1>6 DEF Unauthorized, ComparisonRaises, Responses
<1>7. CASE Authenticated(r, m)
  <2>1. /\ Receive(r, m, "routed") /\ Bind(r, m) /\ m.auth = "right"
        /\ phase # "stdio" /\ AuthEnabled
    BY <1>7 DEF Authenticated, Protected
  <2>2. context'[r] = Caller(m) /\ Caller(m) \in Callers
    BY <1>1, <2>1 DEF IInv, TypeOK, Bind, Caller, Message, Callers
  <2>3. Named(context'[r]) = Identity(r)' /\ Vouched(r)'
    BY <1>2, <2>1, <2>2, CallersAssumption
       DEF Named, Identity, Vouched, Caller, AuthEnabled, TrustHeader
  <2> QED
    BY <1>1, <2>1, <2>3, ReceiveIInv
<1> QED
  BY <1>3, <1>5, <1>6, <1>7 DEF Arrive

\* A request that is being served goes on as it was, and the context of a session
\* stays what it is or becomes that of the request that opens it.
LEMMA CallToolIInv ==
    ASSUME IInv, NEW r \in Requests, CallTool(r)
    PROVE  IInv'
<1> DEFINE s == req[r].session
           new == [req[r] EXCEPT !.pc = "calling"]
<1>1. /\ req[r].pc = "routed" /\ req' = [req EXCEPT ![r] = new]
      /\ session' = [session EXCEPT ![s] = IF @ = Unopened THEN context[r] ELSE @]
      /\ UNCHANGED <<config, phase, inherits, context, now, admitted, refused>>
  BY DEF CallTool, limiter
<1>2. /\ req[r] # Idle /\ req[r] \in Request /\ s \in Sessions /\ req[r].paid = <<>>
      /\ context[r] \in Callers \cup {NotGiven} /\ context[r] # Unopened
  BY <1>1, IdleIsNoRequest, RequestFields, CallersAssumption DEF IInv, TypeOK, PaidInv
<1>3. /\ new \in Request /\ new # Idle /\ new.pc = "calling"
      /\ new.paid = req[r].paid /\ new.auth = req[r].auth /\ new.user = req[r].user
      /\ new.session = s /\ new.tool = req[r].tool
  <2>1. /\ new \in Request /\ new.pc = "calling"
        /\ new.paid = req[r].paid /\ new.auth = req[r].auth /\ new.user = req[r].user
        /\ new.session = s /\ new.tool = req[r].tool
    BY <1>2 DEF Request
  <2> QED
    BY <2>1, IdleIsNoRequest
<1>4. \A x \in Sessions : session'[x] =
        IF x = s /\ session[x] = Unopened THEN context[r] ELSE session[x]
  BY <1>1, <1>2 DEF IInv, TypeOK
<1> HIDE DEF new
<1>5. \A x \in Requests : req'[x] = IF x = r THEN new ELSE req[x]
  BY <1>1 DEF IInv, TypeOK
<1>6. \A x \in Requests : Same(x) /\ PaysNothing(x)
  BY <1>2, <1>3, <1>5 DEF Same, PaysNothing
<1>7. \A x \in Requests : req[x] # Idle => Identity(x)' = Identity(x) /\ Vouched(x)' = Vouched(x)
  BY <1>1, <1>6, IdentityStays
<1>8. LedgerInv' /\ ChargedToItsCaller'
  BY <1>1, <1>6, LedgerStays
<1>9. TypeOK'
  <2>1. req' \in [Requests -> Request \cup {Idle}]
    BY <1>1, <1>3 DEF IInv, TypeOK
  <2>2. session' \in [Sessions -> Callers \cup {NotGiven, Unopened}]
    BY <1>1, <1>2 DEF IInv, TypeOK
  <2>3. \A x \in Requests : req'[x] # Idle => Len(req'[x].paid) <= Len(Plans[req'[x].tool])
    BY <1>2, <1>3, <1>5 DEF IInv, TypeOK
  <2>4. \A x \in Requests : context'[x] # NotGiven => req'[x].pc \in {"routed", "calling"}
    BY <1>1, <1>3, <1>5 DEF IInv, TypeOK
  <2> QED
    BY <1>1, <2>1, <2>2, <2>3, <2>4 DEF IInv, TypeOK
<1>10. ContextInv'
  <2>1. phase' \notin {"starting", "refused"}
    BY <1>1, <1>2 DEF IInv, ContextInv
  <2>2. \A x \in Requests : req'[x].pc \in {"routed", "calling"} =>
          req[x] # Idle /\ req[x].pc \in {"routed", "calling"}
    BY <1>1, <1>2, <1>5, IdleIsNoRequest
  <2> QED
    BY <1>1, <1>7, <2>1, <2>2 DEF IInv, ContextInv
<1>11. SessionInv'
  <2>1. \A x \in Sessions : session'[x] # Unopened =>
          \E y \in Requests : /\ req'[y] # Idle /\ req'[y].session = x
                              /\ Named(session'[x]) = Identity(y)' /\ Vouched(y)'
    <3> SUFFICES ASSUME NEW x \in Sessions, session'[x] # Unopened
                 PROVE  \E y \in Requests :
                          /\ req'[y] # Idle /\ req'[y].session = x
                          /\ Named(session'[x]) = Identity(y)' /\ Vouched(y)'
      OBVIOUS
    <3>1. CASE x = s /\ session[x] = Unopened
      <4>1. Named(context[r]) = Identity(r) /\ Vouched(r)
        BY <1>1 DEF IInv, ContextInv
      <4> QED
        BY <1>2, <1>3, <1>4, <1>5, <1>7, <3>1, <4>1
    <3>2. CASE ~(x = s /\ session[x] = Unopened)
      <4>1. session'[x] = session[x]
        BY <1>4, <3>2
      <4>2. PICK y \in Requests : /\ req[y] # Idle /\ req[y].session = x
                                  /\ Named(session[x]) = Identity(y) /\ Vouched(y)
        BY <4>1 DEF IInv, SessionInv
      <4> QED
        BY <1>6, <1>7, <4>1, <4>2 DEF Same
    <3> QED
      BY <3>1, <3>2
  <2>2. \A x \in Requests : req'[x].pc = "calling" => session'[req'[x].session] # Unopened
    <3> SUFFICES ASSUME NEW x \in Requests, req'[x].pc = "calling"
                 PROVE  session'[req'[x].session] # Unopened
      OBVIOUS
    <3>1. CASE x = r
      BY <1>2, <1>3, <1>4, <1>5, <3>1
    <3>2. CASE x # r
      <4>1. req'[x] = req[x] /\ req[x].pc = "calling" /\ req[x].session \in Sessions
        BY <1>5, <3>2, IdleIsNoRequest, RequestFields DEF IInv
      <4> QED
        BY <1>2, <1>4, <4>1 DEF IInv, SessionInv
    <3> QED
      BY <3>1, <3>2
  <2> QED
    BY <2>1, <2>2 DEF SessionInv
<1>12. PaidInv'
  <2> SUFFICES ASSUME NEW x \in Requests
               PROVE  /\ req'[x].pc = "routed" => req'[x].paid = <<>>
                      /\ req'[x].pc = "calling" => \A i \in DOMAIN req'[x].paid :
                            req'[x].paid[i].key[2] = CallerId(x)'
    BY DEF PaidInv
  <2>1. CASE x = r
    <3>1. DOMAIN <<>> = {}
      OBVIOUS
    <3> QED
      BY <1>2, <1>3, <1>5, <2>1, <3>1
  <2>2. CASE x # r
    <3>1. req'[x] = req[x]
      BY <1>5, <2>2
    <3>2. req[x].pc = "calling" =>
            /\ req[x].session \in Sessions /\ session[req[x].session] # Unopened
      BY IdleIsNoRequest, RequestFields DEF IInv, SessionInv
    <3>3. req[x].pc = "calling" => CallerId(x)' = CallerId(x)
      BY <1>1, <1>4, <3>1, <3>2 DEF CallerId
    <3> QED
      BY <3>1, <3>3 DEF IInv, PaidInv
  <2> QED
    BY <2>1, <2>2
<1>13. BucketInv'
  BY <1>1, <1>6, <1>7 DEF IInv, BucketInv, Same
<1>14. \A k \in Keys : Limiter!KeepsQuota(k)'
  BY <1>1 DEF IInv, Limiter!KeepsQuota, Limiter!Within
<1> QED
  BY <1>8, <1>9, <1>10, <1>11, <1>12, <1>13, <1>14 DEF IInv

-----------------------------------------------------------------------------
(* Guarded calls, answers and the clock.                                   *)

\* What is not yet paid of a tool call is charged to a key of the limiter, for a
\* caller that a request identified.
LEMMA UnpaidKey ==
    ASSUME IInv, NEW r \in Requests, Unpaid(r)
    PROVE  /\ req[r].pc = "calling" /\ req[r] # Idle
           /\ NextKey(r) \in Keys /\ NextKey(r)[2] = CallerId(r)
           /\ \E x \in Peers(r) : /\ x \in Requests /\ req[x] # Idle
                                  /\ NextKey(r)[2] = Identity(x) /\ Vouched(x)
           /\ Len(req[r].paid) + 1 \in 1..Len(Plans[req[r].tool])
           /\ Len(req[r].paid) + 1 \in 1..Len(Plans.billing_report)
<1>1. req[r].pc = "calling" /\ Len(req[r].paid) < Len(Plans[req[r].tool])
  BY DEF Unpaid
<1>2. req[r] # Idle /\ req[r].tool \in Tools /\ Len(req[r].paid) \in Nat
  BY <1>1, IdleIsNoRequest, RequestFields DEF IInv
<1>3. /\ Len(req[r].paid) + 1 \in 1..Len(Plans[req[r].tool])
      /\ Len(req[r].paid) + 1 \in 1..Len(Plans.billing_report)
  BY <1>1, <1>2, PlanSteps
<1>4. Plans[req[r].tool][Len(req[r].paid) + 1] \in Tools
  BY <1>2, <1>3, PlanSteps
<1> QED
  BY <1>1, <1>2, <1>3, <1>4, CallerIsIdentified DEF NextKey, Keys

\* A request is answered, with or without a refusal by the limiter.
LEMMA RespondIInv ==
    ASSUME IInv, NEW r \in Requests, Limited(r) \/ Answer(r)
    PROVE  IInv'
<1> DEFINE new == [req[r] EXCEPT !.pc = "answered"]
<1>1. /\ req[r].pc = "calling" /\ req' = [req EXCEPT ![r] = new]
      /\ context' = [context EXCEPT ![r] = NotGiven]
      /\ UNCHANGED <<config, phase, inherits, session, now, admitted>>
  BY DEF Limited, Answer, Respond, Unpaid, Limiter!Refuse, limiter
<1>2. \A k \in Keys :
        \/ refused'[k] = refused[k]
        \/ /\ refused'[k] = refused[k] + 1 /\ Len(admitted[k]) + refused[k] < MaxCharges
           /\ \E x \in Requests : req[x] # Idle /\ k[2] = Identity(x) /\ Vouched(x)
  <2>1. CASE Limited(r)
    BY <2>1, UnpaidKey DEF IInv, TypeOK, Limited, Limiter!Refuse, Limiter!Answered
  <2>2. CASE Answer(r)
    BY <2>2 DEF Answer, limiter
  <2> QED
    BY <2>1, <2>2
<1>3. refused' \in [Keys -> Nat]
  <2>1. CASE Limited(r)
    BY <2>1, UnpaidKey DEF IInv, TypeOK, Limited, Limiter!Refuse
  <2>2. CASE Answer(r)
    BY <2>2 DEF IInv, TypeOK, Answer, limiter
  <2> QED
    BY <2>1, <2>2
<1>4. req[r] # Idle /\ req[r] \in Request
  BY <1>1, IdleIsNoRequest, RequestFields DEF IInv
<1>5. /\ new \in Request /\ new # Idle /\ new.pc = "answered"
      /\ new.paid = req[r].paid /\ new.auth = req[r].auth /\ new.user = req[r].user
      /\ new.session = req[r].session /\ new.tool = req[r].tool
  <2>1. /\ new \in Request /\ new.pc = "answered"
        /\ new.paid = req[r].paid /\ new.auth = req[r].auth /\ new.user = req[r].user
        /\ new.session = req[r].session /\ new.tool = req[r].tool
    BY <1>4 DEF Request, Responses
  <2> QED
    BY <2>1, IdleIsNoRequest
<1> HIDE DEF new
<1>6. \A x \in Requests : req'[x] = IF x = r THEN new ELSE req[x]
  BY <1>1 DEF IInv, TypeOK
<1>7. \A x \in Requests : context'[x] = IF x = r THEN NotGiven ELSE context[x]
  BY <1>1 DEF IInv, TypeOK
<1>8. \A x \in Requests : Same(x) /\ PaysNothing(x)
  BY <1>4, <1>5, <1>6 DEF Same, PaysNothing
<1>9. \A x \in Requests : req[x] # Idle => Identity(x)' = Identity(x) /\ Vouched(x)' = Vouched(x)
  BY <1>1, <1>8, IdentityStays
<1>10. LedgerInv' /\ ChargedToItsCaller'
  BY <1>1, <1>8, LedgerStays
<1>11. TypeOK'
  <2>1. /\ req' \in [Requests -> Request \cup {Idle}]
        /\ context' \in [Requests -> Callers \cup {NotGiven}]
    BY <1>1, <1>5 DEF IInv, TypeOK
  <2>2. \A x \in Requests : req'[x] # Idle => Len(req'[x].paid) <= Len(Plans[req'[x].tool])
    BY <1>4, <1>5, <1>6 DEF IInv, TypeOK
  <2>3. \A x \in Requests : context'[x] # NotGiven => req'[x].pc \in {"routed", "calling"}
    BY <1>6, <1>7 DEF IInv, TypeOK
  <2>4. \A k \in Keys : Len(admitted'[k]) + refused'[k] <= MaxCharges
    <3> SUFFICES ASSUME NEW k \in Keys PROVE Len(admitted[k]) + refused'[k] <= MaxCharges
      BY <1>1
    <3>1. Len(admitted[k]) \in Nat /\ refused[k] \in Nat
      BY LenProperties DEF IInv, TypeOK
    <3>2. Len(admitted[k]) + refused[k] <= MaxCharges
      BY DEF IInv, TypeOK
    <3> QED
      BY <1>2, <3>1, <3>2, BoundsAssumption
  <2> QED
    BY <1>1, <1>3, <2>1, <2>2, <2>3, <2>4 DEF IInv, TypeOK
<1>12. \A x \in Requests : req'[x].pc \in {"routed", "calling"} =>
          x # r /\ req'[x] = req[x] /\ context'[x] = context[x] /\ req[x] # Idle
  <2>1. "answered" \notin {"routed", "calling"}
    OBVIOUS
  <2> QED
    BY <1>5, <1>6, <1>7, <2>1, IdleIsNoRequest
<1>13. ContextInv'
  BY <1>1, <1>4, <1>9, <1>12 DEF IInv, ContextInv
<1>14. SessionInv'
  <2>1. \A x \in Sessions : session'[x] # Unopened =>
          \E y \in Requests : /\ req'[y] # Idle /\ req'[y].session = x
                              /\ Named(session'[x]) = Identity(y)' /\ Vouched(y)'
    BY <1>1, <1>8, <1>9 DEF IInv, SessionInv, Same
  <2>2. \A x \in Requests : req'[x].pc = "calling" => session'[req'[x].session] # Unopened
    BY <1>1, <1>12 DEF IInv, SessionInv
  <2> QED
    BY <2>1, <2>2 DEF SessionInv
<1>15. PaidInv'
  BY <1>1, <1>12 DEF IInv, PaidInv, CallerId
<1>16. BucketInv'
  <2> SUFFICES ASSUME NEW k \in Keys, Len(admitted'[k]) + refused'[k] > 0
               PROVE  \E x \in Requests : req'[x] # Idle /\ k[2] = Identity(x)' /\ Vouched(x)'
    BY DEF BucketInv
  <2>1. \E x \in Requests : req[x] # Idle /\ k[2] = Identity(x) /\ Vouched(x)
    BY <1>1, <1>2 DEF IInv, BucketInv
  <2> QED
    BY <1>8, <1>9, <2>1 DEF Same
<1>17. \A k \in Keys : Limiter!KeepsQuota(k)'
  BY <1>1 DEF IInv, Limiter!KeepsQuota, Limiter!Within
<1> QED
  BY <1>10, <1>11, <1>13, <1>14, <1>15, <1>16, <1>17 DEF IInv

LEMMA TickIInv == IInv /\ Tick => IInv'
<1> SUFFICES ASSUME IInv, Tick PROVE IInv'
  OBVIOUS
<1>1. /\ now' \in 0..MaxTime
      /\ UNCHANGED <<config, phase, inherits, req, context, session, admitted, refused>>
  BY BoundsAssumption DEF IInv, TypeOK, Tick, Limiter!Tick
<1>2. \A x \in Requests : Same(x) /\ PaysNothing(x)
  BY <1>1 DEF Same, PaysNothing
<1>3. LedgerInv' /\ ChargedToItsCaller'
  BY <1>1, <1>2, LedgerStays
<1>4. \A x \in Requests : Identity(x)' = Identity(x) /\ Vouched(x)' = Vouched(x)
  BY <1>1 DEF Identity, Vouched, AuthEnabled, TrustHeader
<1>5. TypeOK'
  BY <1>1 DEF IInv, TypeOK
<1>6. ContextInv' /\ SessionInv' /\ BucketInv'
  BY <1>1, <1>4 DEF IInv, ContextInv, SessionInv, BucketInv
<1>7. PaidInv'
  BY <1>1 DEF IInv, PaidInv, CallerId
<1>8. \A k \in Keys : Limiter!KeepsQuota(k)'
  BY <1>1 DEF IInv, Limiter!KeepsQuota, Limiter!Within
<1> QED
  BY <1>3, <1>5, <1>6, <1>7, <1>8 DEF IInv

\* A guarded call is paid: the request has one payment more, and so has the
\* limiter, made now and for the caller the request pays as.
LEMMA ChargeIInv ==
    ASSUME IInv, NEW r \in Requests, Charge(r)
    PROVE  IInv'
<1>0. PICK k \in Keys : k = NextKey(r)
  BY UnpaidKey DEF Charge
<1> DEFINE n == Len(req[r].paid)
           paid == Append(req[r].paid, [key |-> k, at |-> now])
           new == [req[r] EXCEPT !.paid = paid]
           m == Len(admitted[k])
<1>1. /\ Limiter!Admit(k) /\ m + refused[k] < MaxCharges
      /\ req' = [req EXCEPT ![r] = new]
      /\ UNCHANGED <<config, phase, inherits, context, session>>
  BY <1>0 DEF Charge, Limiter!Answered
<1>2. /\ req[r].pc = "calling" /\ req[r] # Idle /\ k \in Keys /\ k[2] = CallerId(r)
      /\ \E x \in Peers(r) : /\ x \in Requests /\ req[x] # Idle
                             /\ k[2] = Identity(x) /\ Vouched(x)
      /\ n + 1 \in 1..Len(Plans[req[r].tool]) /\ n + 1 \in 1..Len(Plans.billing_report)
  BY <1>0, UnpaidKey DEF Charge
<1>3. /\ now \in Nat /\ UNCHANGED <<now, refused>>
      /\ admitted' = [admitted EXCEPT ![k] = Append(admitted[k], now)]
  BY <1>1, BoundsAssumption DEF IInv, TypeOK, Limiter!Admit
<1>4. /\ n \in Nat /\ paid \in Seq(Payment) /\ Len(paid) = n + 1
      /\ DOMAIN req[r].paid = 1..n /\ DOMAIN paid = 1..(n + 1)
      /\ paid[n + 1].key = k /\ paid[n + 1].at = now
      /\ \A i \in 1..n : paid[i] = req[r].paid[i]
  <2>1. [key |-> k, at |-> now] \in Payment /\ req[r].paid \in Seq(Payment)
    BY <1>2, <1>3, RequestFields DEF IInv, Payment
  <2> QED
    BY <2>1, Appending
<1>5. /\ m \in Nat /\ admitted'[k] \in Seq(Nat)
      /\ DOMAIN admitted[k] = 1..m /\ DOMAIN admitted'[k] = 1..(m + 1)
      /\ admitted'[k][m + 1] = now /\ \A i \in 1..m : admitted'[k][i] = admitted[k][i]
      /\ Len(admitted'[k]) = m + 1
  <2>1. admitted[k] \in Seq(Nat) /\ admitted'[k] = Append(admitted[k], now)
    BY <1>2, <1>3 DEF IInv, TypeOK
  <2> QED
    BY <1>3, <2>1, Appending
<1>6. \A q \in Keys : q # k => admitted'[q] = admitted[q]
  BY <1>3 DEF IInv, TypeOK
<1>7. /\ new \in Request /\ new # Idle /\ new.pc = "calling" /\ new.paid = paid
      /\ new.auth = req[r].auth /\ new.user = req[r].user
      /\ new.session = req[r].session /\ new.tool = req[r].tool
  <2>1. req[r] \in Request
    BY <1>2, RequestFields DEF IInv
  <2> HIDE DEF paid
  <2>2. /\ new \in Request /\ new.pc = "calling" /\ new.paid = paid
        /\ new.auth = req[r].auth /\ new.user = req[r].user
        /\ new.session = req[r].session /\ new.tool = req[r].tool
    BY <1>2, <1>4, <2>1 DEF Request
  <2> QED
    BY <2>2, IdleIsNoRequest
<1> HIDE DEF new, paid, n, m
<1>8. \A x \in Requests : req'[x] = IF x = r THEN new ELSE req[x]
  BY <1>1 DEF IInv, TypeOK
<1>9. \A x \in Requests : Same(x)
  BY <1>2, <1>7, <1>8 DEF Same
<1>10. /\ \A x \in Requests : req[x] # Idle =>
             Identity(x)' = Identity(x) /\ Vouched(x)' = Vouched(x)
       /\ \A x \in Requests : req[x] # Idle => Peers(x) \subseteq Peers(x)'
  BY <1>1, <1>9, IdentityStays
<1>11. CallerId(r)' = CallerId(r) /\ \A x \in Requests : CallerId(x)' = CallerId(x)
  BY <1>1, <1>7, <1>8 DEF CallerId
<1>12. TypeOK'
  <2>1. req' \in [Requests -> Request \cup {Idle}]
    BY <1>1, <1>7 DEF IInv, TypeOK
  <2>2. \A x \in Requests : req'[x] # Idle => Len(req'[x].paid) <= Len(Plans[req'[x].tool])
    <3>1. Len(new.paid) <= Len(Plans[new.tool])
      BY <1>2, <1>4, <1>7
    <3> QED
      BY <1>8, <3>1 DEF IInv, TypeOK
  <2>3. \A x \in Requests : context'[x] # NotGiven => req'[x].pc \in {"routed", "calling"}
    BY <1>1, <1>7, <1>8 DEF IInv, TypeOK
  <2>4. admitted' \in [Keys -> Seq(Nat)]
    BY <1>2, <1>3, <1>5 DEF IInv, TypeOK
  <2>5. \A q \in Keys : Len(admitted'[q]) + refused'[q] <= MaxCharges
    <3>1. Len(admitted'[k]) + refused'[k] <= MaxCharges
      BY <1>1, <1>2, <1>3, <1>5, BoundsAssumption DEF IInv, TypeOK, m
    <3> QED
      BY <1>3, <1>6, <3>1 DEF IInv, TypeOK
  <2> QED
    BY <1>1, <1>3, <2>1, <2>2, <2>3, <2>4, <2>5 DEF IInv, TypeOK
<1>13. ContextInv'
  BY <1>1, <1>2, <1>7, <1>8, <1>10, IdleIsNoRequest DEF IInv, ContextInv
<1>14. SessionInv'
  <2>1. \A x \in Sessions : session'[x] # Unopened =>
          \E y \in Requests : /\ req'[y] # Idle /\ req'[y].session = x
                              /\ Named(session'[x]) = Identity(y)' /\ Vouched(y)'
    BY <1>1, <1>9, <1>10 DEF IInv, SessionInv, Same
  <2>2. \A x \in Requests : req'[x].pc = "calling" => session'[req'[x].session] # Unopened
    BY <1>1, <1>2, <1>7, <1>8 DEF IInv, SessionInv
  <2> QED
    BY <2>1, <2>2 DEF SessionInv
<1>15. PaidInv'
  <2> SUFFICES ASSUME NEW x \in Requests
               PROVE  /\ req'[x].pc = "routed" => req'[x].paid = <<>>
                      /\ req'[x].pc = "calling" => \A i \in DOMAIN req'[x].paid :
                            req'[x].paid[i].key[2] = CallerId(x)'
    BY DEF PaidInv
  <2>1. CASE x = r
    <3>1. ASSUME NEW i \in 1..(n + 1) PROVE paid[i].key[2] = CallerId(r)
      BY <1>2, <1>4, <3>1 DEF IInv, PaidInv
    <3> QED
      BY <1>4, <1>7, <1>8, <1>11, <2>1, <3>1
  <2>2. CASE x # r
    BY <1>8, <1>11, <2>2 DEF IInv, PaidInv
  <2> QED
    BY <2>1, <2>2
<1>16. ChargedToItsCaller'
  <2> SUFFICES ASSUME NEW x \in Requests, req'[x] # Idle, NEW i \in DOMAIN req'[x].paid
               PROVE  /\ req'[x].paid[i].key[2] = req'[x].paid[1].key[2]
                      /\ \E y \in Peers(x)' :
                            req'[x].paid[i].key[2] = Identity(y)' /\ Vouched(y)'
    BY DEF ChargedToItsCaller
  <2>1. CASE x = r
    <3>1. i \in 1..(n + 1) /\ 1 \in 1..(n + 1)
      BY <1>4, <1>7, <1>8, <2>1
    <3>2. \A j \in 1..(n + 1) : req'[r].paid[j].key[2] = CallerId(r)
      <4>1. /\ req'[r].pc = "calling" /\ req'[r].paid = paid
        BY <1>7, <1>8
      <4> QED
        BY <1>4, <1>11, <1>15, <4>1 DEF PaidInv
    <3>3. PICK y \in Peers(r) : /\ y \in Requests /\ req[y] # Idle
                               /\ CallerId(r) = Identity(y) /\ Vouched(y)
      BY <1>2
    <3>4. y \in Peers(r)' /\ Identity(y)' = Identity(y) /\ Vouched(y)' = Vouched(y)
      BY <1>2, <1>10, <3>3
    <3> QED
      BY <2>1, <3>1, <3>2, <3>3, <3>4
  <2>2. CASE x # r
    <3>1. req'[x] = req[x]
      BY <1>8, <2>2
    <3>2. PICK y \in Peers(x) : req[x].paid[i].key[2] = Identity(y) /\ Vouched(y)
      BY <3>1 DEF IInv, ChargedToItsCaller
    <3>3. y \in Requests /\ req[y] # Idle
      BY <3>1 DEF Peers
    <3>4. y \in Peers(x)' /\ Identity(y)' = Identity(y) /\ Vouched(y)' = Vouched(y)
      BY <1>10, <3>1, <3>2, <3>3
    <3>5. req[x].paid[i].key[2] = req[x].paid[1].key[2]
      BY <3>1 DEF IInv, ChargedToItsCaller
    <3> QED
      BY <3>1, <3>2, <3>4, <3>5
  <2> QED
    BY <2>1, <2>2
<1>17. LedgerInv'
  <2> DEFINE p == <<r, n + 1>>
  <2>1. p[1] = r /\ p[2] = n + 1 /\ \A i \in Nat : i \in 1..n => i # n + 1
    BY <1>4
  <2>2. /\ p \notin Payments(k) /\ Payments(k)' = Payments(k) \cup {p}
        /\ \A q \in Keys : q # k => Payments(q)' = Payments(q)
    <3>1. \A x \in Requests, i \in 1..Len(Plans.billing_report), q \in Keys :
            (req'[x] # Idle /\ i \in DOMAIN req'[x].paid /\ req'[x].paid[i].key = q)
            <=> \/ req[x] # Idle /\ i \in DOMAIN req[x].paid /\ req[x].paid[i].key = q
                \/ x = r /\ i = n + 1 /\ q = k
      <4> SUFFICES ASSUME NEW x \in Requests, NEW i \in 1..Len(Plans.billing_report), NEW q \in Keys
                   PROVE  (req'[x] # Idle /\ i \in DOMAIN req'[x].paid /\ req'[x].paid[i].key = q)
            <=> \/ req[x] # Idle /\ i \in DOMAIN req[x].paid /\ req[x].paid[i].key = q
                \/ x = r /\ i = n + 1 /\ q = k
        OBVIOUS
      <4>1. CASE x # r
        BY <1>8, <4>1
      <4>2. CASE x = r
        <5>1. req'[x] # Idle /\ req'[x].paid = paid
          BY <1>7, <1>8, <4>2
        <5>2. i \in 1..(n + 1) <=> i \in 1..n \/ i = n + 1
          BY <1>4
        <5> QED
          BY <1>2, <1>4, <4>2, <5>1, <5>2
      <4> QED
        BY <4>1, <4>2
    <3>2. p \in Requests \X (1..Len(Plans.billing_report))
      BY <1>2
    <3>3. p \notin Payments(k)
      BY <1>4, <2>1 DEF Payments
    <3>4. \A x \in Requests \X (1..Len(Plans.billing_report)) :
            /\ x[1] \in Requests /\ x[2] \in 1..Len(Plans.billing_report)
            /\ (x[1] = r /\ x[2] = n + 1) <=> x = p
      OBVIOUS
    <3> HIDE DEF p
    <3>5. Payments(k)' = Payments(k) \cup {p}
      <4>1. ASSUME NEW x \in Requests \X (1..Len(Plans.billing_report))
            PROVE  x \in Payments(k)' <=> x \in Payments(k) \/ x = p
        <5>1. /\ x \in Payments(k) <=> /\ req[x[1]] # Idle /\ x[2] \in DOMAIN req[x[1]].paid
                                       /\ req[x[1]].paid[x[2]].key = k
              /\ x \in Payments(k)' <=> /\ req'[x[1]] # Idle /\ x[2] \in DOMAIN req'[x[1]].paid
                                        /\ req'[x[1]].paid[x[2]].key = k
          BY DEF Payments
        <5> QED
          BY <1>2, <3>1, <3>4, <5>1
      <4>2. /\ Payments(k) \subseteq Requests \X (1..Len(Plans.billing_report))
            /\ Payments(k)' \subseteq Requests \X (1..Len(Plans.billing_report))
        BY DEF Payments
      <4> QED
        BY <3>2, <4>1, <4>2
    <3>6. \A q \in Keys : q # k => Payments(q)' = Payments(q)
      BY <3>1, <3>4 DEF Payments
    <3> QED
      BY <3>3, <3>5, <3>6
  <2>3. \A q \in Keys : \A x \in Payments(q) :
          req'[x[1]].paid[x[2]].at = req[x[1]].paid[x[2]].at
    BY <1>4, <1>7, <1>8 DEF Payments
  <2>4. req'[p[1]].paid[p[2]].at = now
    BY <1>4, <1>7, <1>8
  <2> SUFFICES ASSUME NEW q \in Keys
               PROVE  \E g \in [Payments(q)' -> DOMAIN admitted'[q]] :
                        /\ \A x, y \in Payments(q)' : g[x] = g[y] => x = y
                        /\ \A x \in Payments(q)' : admitted'[q][g[x]] = req'[x[1]].paid[x[2]].at
    BY DEF LedgerInv
  <2>5. PICK f \in [Payments(q) -> DOMAIN admitted[q]] :
          /\ \A x, y \in Payments(q) : f[x] = f[y] => x = y
          /\ \A x \in Payments(q) : admitted[q][f[x]] = req[x[1]].paid[x[2]].at
    BY DEF IInv, LedgerInv
  <2>6. CASE q # k
    BY <1>6, <2>2, <2>3, <2>5, <2>6
  <2>7. CASE q = k
    <3> HIDE DEF p
    <3> DEFINE g == [x \in Payments(k)' |-> IF x = p THEN m + 1 ELSE f[x]]
    <3>1. \A x \in Payments(k) : f[x] \in 1..m /\ g[x] = f[x] /\ x \in Payments(k)'
      BY <1>5, <2>2, <2>5, <2>7
    <3>2. p \in Payments(k)' /\ g[p] = m + 1
      BY <2>2
    <3>3. g \in [Payments(k)' -> 1..(m + 1)]
      BY <1>5, <2>2, <3>1
    <3> HIDE DEF g
    <3>4. \A x, y \in Payments(k)' : g[x] = g[y] => x = y
      BY <1>5, <2>2, <2>5, <2>7, <3>1, <3>2
    <3>5. \A x \in Payments(k)' : admitted'[k][g[x]] = req'[x[1]].paid[x[2]].at
      BY <1>2, <1>5, <2>2, <2>3, <2>4, <2>5, <2>7, <3>1, <3>2
    <3>6. g \in [Payments(q)' -> DOMAIN admitted'[q]]
      BY <1>5, <2>7, <3>3
    <3> QED
      BY <2>7, <3>4, <3>5, <3>6
  <2> QED
    BY <2>6, <2>7
<1>18. BucketInv'
  <2> SUFFICES ASSUME NEW q \in Keys, Len(admitted'[q]) + refused'[q] > 0
               PROVE  \E x \in Requests : req'[x] # Idle /\ q[2] = Identity(x)' /\ Vouched(x)'
    BY DEF BucketInv
  <2>1. \E x \in Requests : req[x] # Idle /\ q[2] = Identity(x) /\ Vouched(x)
    BY <1>2, <1>3, <1>6 DEF IInv, BucketInv
  <2> QED
    BY <1>9, <1>10, <2>1 DEF Same
<1>19. \A q \in Keys : Limiter!KeepsQuota(q)'
  BY <1>1, <1>2, <1>3, AdmitKeepsQuota DEF IInv, TypeOK
<1> QED
  BY <1>12, <1>13, <1>14, <1>15, <1>16, <1>17, <1>18, <1>19 DEF IInv

-----------------------------------------------------------------------------
(* The theorems.                                                           *)

LEMMA InitIInv == Init => IInv
<1> SUFFICES ASSUME Init PROVE IInv
  OBVIOUS
<1>1. /\ \A r \in Requests : req[r] = Idle /\ req[r].pc = "idle" /\ context[r] = NotGiven
      /\ \A s \in Sessions : session[s] = Unopened
      /\ \A k \in Keys : admitted[k] = <<>> /\ refused[k] = 0 /\ DOMAIN admitted[k] = {}
      /\ Len(<<>>) = 0
  BY IdleIsNoRequest DEF Init, Limiter!Init
<1>2. TypeOK
  <2>1. /\ req \in [Requests -> Request \cup {Idle}]
        /\ context \in [Requests -> Callers \cup {NotGiven}]
        /\ session \in [Sessions -> Callers \cup {NotGiven, Unopened}]
    BY DEF Init
  <2>2. admitted \in [Keys -> Seq(Nat)] /\ refused \in [Keys -> Nat] /\ now \in 0..MaxTime
    BY BoundsAssumption DEF Init, Limiter!Init
  <2>3. \A k \in Keys : Len(admitted[k]) + refused[k] <= MaxCharges
    BY <1>1, BoundsAssumption
  <2> QED
    BY <1>1, <2>1, <2>2, <2>3 DEF Init, TypeOK
<1>3. ContextInv /\ SessionInv /\ PaidInv /\ ChargedToItsCaller
  BY <1>1, IdleIsNoRequest DEF ContextInv, SessionInv, PaidInv, ChargedToItsCaller
<1>4. LedgerInv
  <2>1. \A k \in Keys : Payments(k) = {}
    BY <1>1 DEF Payments
  <2>2. [x \in {} |-> x] \in [{} -> {}]
    OBVIOUS
  <2> QED
    BY <1>1, <2>1, <2>2 DEF LedgerInv
<1>5. BucketInv
  BY <1>1 DEF BucketInv
<1>6. \A k \in Keys : Limiter!KeepsQuota(k)
  BY <1>1 DEF Limiter!KeepsQuota, Limiter!Within
<1> QED
  BY <1>2, <1>3, <1>4, <1>5, <1>6 DEF IInv

LEMMA NextIInv == IInv /\ [Next]_vars => IInv'
<1> SUFFICES ASSUME IInv, [Next]_vars PROVE IInv'
  OBVIOUS
<1>1. CASE StartStdio \/ RefuseBind \/ StartHttp \/ Signal \/ Drained
  BY <1>1, PhaseIInv DEF StartStdio, RefuseBind, StartHttp, Signal, Drained
<1>2. ASSUME NEW r \in Requests, NEW m \in Messages, Arrive(r, m) PROVE IInv'
  BY <1>2, ArriveIInv
<1>3. ASSUME NEW r \in Requests, CallTool(r) \/ Charge(r) \/ Limited(r) \/ Answer(r) PROVE IInv'
  BY <1>3, CallToolIInv, ChargeIInv, RespondIInv
<1>4. CASE Tick
  BY <1>4, TickIInv
<1>5. CASE UNCHANGED vars
  <2>1. UNCHANGED <<config, phase, inherits, req, context, session, now, admitted, refused>>
    BY <1>5 DEF vars, limiter
  <2>2. \A x \in Requests : Same(x) /\ PaysNothing(x)
    BY <2>1 DEF Same, PaysNothing
  <2>3. LedgerInv' /\ ChargedToItsCaller'
    BY <2>1, <2>2, LedgerStays
  <2>4. \A x \in Requests : Identity(x)' = Identity(x) /\ Vouched(x)' = Vouched(x)
    BY <2>1 DEF Identity, Vouched, AuthEnabled, TrustHeader
  <2>5. TypeOK'
    BY <2>1 DEF IInv, TypeOK
  <2>6. ContextInv' /\ SessionInv' /\ BucketInv'
    BY <2>1, <2>4 DEF IInv, ContextInv, SessionInv, BucketInv
  <2>7. PaidInv'
    BY <2>1 DEF IInv, PaidInv, CallerId
  <2>8. \A k \in Keys : Limiter!KeepsQuota(k)'
    BY <2>1 DEF IInv, Limiter!KeepsQuota, Limiter!Within
  <2> QED
    BY <2>3, <2>5, <2>6, <2>7, <2>8 DEF IInv
<1> QED
  BY <1>1, <1>2, <1>3, <1>4, <1>5 DEF Next

\* The invariant holds of every run of the server.
THEOREM Invariance == Spec => []IInv
BY InitIInv, NextIInv, PTL DEF Spec

\* The server, its requests, sessions and limiter keep to their types, a request
\* never makes more guarded calls than its tool has, and the context variable is
\* set only while a request is being served.
THEOREM TypeCorrect == Spec => []TypeOK
<1>1. IInv => TypeOK
  BY DEF IInv
<1> QED
  BY <1>1, Invariance, PTL

\* Whatever a tool call pays, at any depth of tools inside tools, is charged to
\* one caller, one that its request or one of its session identified.
THEOREM ChargedCorrect == Spec => []ChargedToItsCaller
<1>1. IInv => ChargedToItsCaller
  BY DEF IInv
<1> QED
  BY <1>1, Invariance, PTL

\* What a caller used of a tool are admissions of the limiter, each its own, in
\* the same window.
LEMMA IInvQuota == IInv => CallersKeepToTheirQuota
<1> SUFFICES ASSUME IInv, inherits = "request", NEW c \in Callers, NEW tool \in Tools,
                    NEW t \in 0..MaxTime, Used(c, tool, t) # {}
             PROVE  Cardinality(Used(c, tool, t)) <= Limits[<<tool, c>>].count
  BY DEF CallersKeepToTheirQuota
<1> DEFINE U == Used(c, tool, t)
           k == <<tool, c>>
           W == Limiter!Within(k, t)
<1>1. k \in Keys
  BY DEF Keys
<1>2. \A x \in U : x \in Payments(k) /\ req[x[1]].paid[x[2]].at \in t..(t + Limits[k].window)
  <2> SUFFICES ASSUME NEW x \in U
               PROVE  x \in Payments(k)
    BY DEF Used
  <2>1. PICK payer \in Callers : x \in Payments(<<tool, payer>>)
    BY DEF Used
  <2>2. /\ x[1] \in Requests /\ req[x[1]] # Idle /\ x[2] \in DOMAIN req[x[1]].paid
        /\ req[x[1]].paid[x[2]].key = <<tool, payer>>
    BY <2>1 DEF Payments
  <2>3. Identity(x[1]) = c
    BY DEF Used
  <2>4. Peers(x[1]) = {x[1]}
    BY DEF Peers
  <2>5. req[x[1]].paid[x[2]].key[2] = c
    BY <2>2, <2>3, <2>4 DEF IInv, ChargedToItsCaller
  <2>6. payer = c
    BY <2>2, <2>5
  <2> QED
    BY <2>1, <2>6
<1>3. PICK f \in [Payments(k) -> DOMAIN admitted[k]] :
        /\ \A x, y \in Payments(k) : f[x] = f[y] => x = y
        /\ \A x \in Payments(k) : admitted[k][f[x]] = req[x[1]].paid[x[2]].at
  BY <1>1 DEF IInv, LedgerInv
<1>4. \A x \in U : f[x] \in W
  BY <1>2, <1>3 DEF Limiter!Within
<1>5. IsFiniteSet(W)
  <2>1. admitted[k] \in Seq(Nat)
    BY <1>1 DEF IInv, TypeOK
  <2>2. DOMAIN admitted[k] = 1..Len(admitted[k]) /\ Len(admitted[k]) \in Nat
    BY <2>1, LenProperties
  <2>3. W \in SUBSET (1..Len(admitted[k]))
    BY <2>2 DEF Limiter!Within
  <2>4. IsFiniteSet(1..Len(admitted[k]))
    BY <2>2, FS_Interval
  <2> HIDE DEF W, k
  <2> QED
    BY <2>3, <2>4, FS_Subset
<1> HIDE DEF U, W
<1>6. Cardinality(U) <= Cardinality(W) /\ Cardinality(U) \in Nat /\ Cardinality(W) \in Nat
  <2> DEFINE g == [x \in U |-> f[x]]
  <2>1. g \in [U -> W]
    BY <1>4
  <2>2. \A x, y \in U : g[x] = g[y] => x = y
    BY <1>2, <1>3
  <2>3. g \in Injection(U, W)
    BY <2>1, <2>2, Fun_IsInj
  <2>4. IsFiniteSet(U) /\ Cardinality(U) <= Cardinality(W)
    BY <1>5, <2>3, FS_Injection
  <2> QED
    BY <1>5, <2>4, FS_CardinalityType
<1>7. W # {}
  BY <1>4 DEF U
<1>8. Cardinality(W) <= Limits[k].count
  BY <1>1, <1>7, SameCardinality DEF IInv, Limiter!KeepsQuota, W
<1> QED
  BY <1>1, <1>6, <1>8, LimitsAssumption DEF U

\* Where a tool runs in the context of its own request, all requests of a caller
\* together, over every session and through every tool that calls the tool, stay
\* within that caller's limit in every window of time.
THEOREM QuotaCorrect == Spec => []CallersKeepToTheirQuota
BY Invariance, IInvQuota, PTL

LEMMA IInvBuckets == IInv => BucketsAreForCallers
<1> SUFFICES ASSUME IInv PROVE BucketsAreForCallers
  OBVIOUS
<1> DEFINE known == {k[2] : k \in {k \in Keys : Len(admitted[k]) + refused[k] > 0}}
<1>1. \A c \in known : \E r \in Requests : req[r] # Idle /\ c = Identity(r) /\ Vouched(r)
  BY DEF IInv, BucketInv
<1>2. ASSUME ~TrustHeader PROVE Cardinality(known) <= 1
  <2>1. PICK d : \A r \in Requests : Identity(r) = d
    BY <1>2 DEF Identity
  <2>2. known = {} \/ known = {d}
    BY <1>1, <2>1
  <2> HIDE DEF known
  <2>3. Cardinality({}) = 0 /\ Cardinality({d}) = 1
    BY FS_EmptySet, FS_Singleton
  <2>4. Cardinality(known) \in 0..1
    BY <2>2, <2>3
  <2> QED
    BY <2>4
<1> QED
  BY <1>1, <1>2 DEF BucketsAreForCallers

\* The limiter keeps buckets only for callers whose requests passed the
\* middleware, and for one caller only when no end-user header is trusted.
THEOREM BucketsCorrect == Spec => []BucketsAreForCallers
BY Invariance, IInvBuckets, PTL
=============================================================================
