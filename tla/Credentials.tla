----------------------------- MODULE Credentials -----------------------------
(***************************************************************************)
(* get_workspace and its callers: which Databricks credential a tool call  *)
(* works with.  MCP_TOOL_TOKEN_<TOOL> and DATABRICKS_TOKEN may be rotated  *)
(* at any time.  Clients are cached: one default client for the process,   *)
(* and one per tool and token.                                             *)
(*                                                                         *)
(* A lookup checks the cache, constructs a client (which reads the SDK's   *)
(* configuration, so it takes a while) and stores it, with no lock.        *)
(* list_catalogs and resolve_warehouse_id look up in a worker thread;      *)
(* _execute_with_cancellation looks up on the event loop, which does       *)
(* nothing else meanwhile.  What is done with the client once a statement  *)
(* is submitted is in SqlExecution.                                        *)
(***************************************************************************)
EXTENDS Integers, FiniteSets, SequencesExt

CONSTANTS
    Calls,         \* tool calls
    Assigned,      \* bound: the tools whose variable is ever set
    Tokens,        \* access tokens
    Unset,         \* the variable is empty (for the default: the SDK's profile)
    NoClient,      \* None
    MaxRotations   \* bound: changes of the environment

ASSUME TokensAssumption == Unset \notin Tokens
ASSUME BoundsAssumption == MaxRotations \in Nat

Default == "default"
Tools == {"list_catalogs", "execute_sql_safe", "recent_audit_events"}
Names == Tools \cup {Default}

\* The guarded calls a request makes, outermost first: the system-table tools
\* await execute_sql_safe.  _guard sets the context variable to the innermost.
Paths == {<<"list_catalogs">>, <<"execute_sql_safe">>,
          <<"recent_audit_events", "execute_sql_safe">>}

\* A WorkspaceClient: whose credential it holds, the token, and which object.
Client == [name : Names, token : Tokens \cup {Unset}, id : Nat]

ASSUME ClientAssumption == NoClient \notin Client

VARIABLES
    env,          \* env[n]: MCP_TOOL_TOKEN_<n>, or DATABRICKS_TOKEN for Default
    client,       \* _client
    toolClients,  \* _tool_clients, from pairs of a tool and a token
    path,         \* path[c]: the guarded calls of request c
    stage,        \* stage[c]: how far request c has come
    pc,           \* pc[c]: how far its lookup has come
    token,        \* token[c]: tool_token, read by _tool_token_for
    mine,         \* mine[c]: the client this lookup constructed or found
    resolver,     \* resolver[c]: the client the warehouse was resolved with
    ws,           \* ws[c]: the client the statement or listing is made with
    rotations,
    built,        \* clients constructed so far
    inForce,      \* history: inForce[c], environments since c's lookup began
    boot,         \* history: default tokens until the default client settled
    moved         \* history: moved[c], the environment changed during request c

caches   == <<client, toolClients, built>>
lookups  == <<pc, token, mine>>
requests == <<path, stage, resolver, ws>>
history  == <<inForce, boot, moved>>
vars     == <<env, caches, lookups, requests, rotations, history>>

Init ==
    /\ \E t \in Tokens : env \in {e \in [Names -> {t, Unset}] :
                                 /\ e[Default] = t
                                 /\ \A n \in Tools \ Assigned : e[n] = Unset}
    /\ client = NoClient
    /\ toolClients = <<>>
    /\ path = [c \in Calls |-> <<>>]
    /\ stage = [c \in Calls |-> "idle"]
    /\ pc = [c \in Calls |-> "none"]
    /\ token = [c \in Calls |-> Unset]
    /\ mine = [c \in Calls |-> NoClient]
    /\ resolver = [c \in Calls |-> NoClient]
    /\ ws = [c \in Calls |-> NoClient]
    /\ rotations = 0
    /\ built = 0
    /\ inForce = [c \in Calls |-> {}]
    /\ boot = {env[Default]}
    /\ moved = [c \in Calls |-> FALSE]

\* audit.current_tool(), in the task or in a thread with a copy of its context.
Tool(c) == Last(path[c])

\* The call is over, and its locals are gone.
Finish(c) ==
    /\ stage' = [stage EXCEPT ![c] = "done"]
    /\ pc' = [pc EXCEPT ![c] = "none"]
    /\ token' = [token EXCEPT ![c] = Unset]
    /\ mine' = [mine EXCEPT ![c] = NoClient]
    /\ resolver' = [resolver EXCEPT ![c] = NoClient]
    /\ ws' = [ws EXCEPT ![c] = NoClient]
    /\ inForce' = [inForce EXCEPT ![c] = {}]
    /\ moved' = [moved EXCEPT ![c] = FALSE]
    /\ UNCHANGED <<env, caches, path, rotations, boot>>

\* The event loop is free unless a lookup runs on it.
LoopFree == \A c \in Calls : stage[c] = "acquire" => pc[c] = "none"

-----------------------------------------------------------------------------
(* get_workspace.                                                          *)

Begin(c) ==
    /\ pc' = [pc EXCEPT ![c] = "check"]
    /\ inForce' = [inForce EXCEPT ![c] = {env}]

\* Mutant: threads do not get a copy of the context, and so have no tool.
TokenFor_noContext(c) == IF stage[c] = "acquire" THEN env[Tool(c)] ELSE Unset

\* _tool_token_for(audit.current_tool())
TokenFor(c) == env[Tool(c)]

\* Mutant: the cache is keyed by tool name alone.
CachedFor_tool(tool, t) ==
    {toolClients[k] : k \in {k \in DOMAIN toolClients : k[1] = tool}}

\* _tool_clients.get(cache_key)
CachedFor(tool, t) == {toolClients[k] : k \in {<<tool, t>>} \cap DOMAIN toolClients}

\* Mutant: the default client is constructed whenever it is asked for.
CachedDefault_never == {}

CachedDefault == {client} \ {NoClient}

\* A token for the tool comes first, even when the default client exists.
Check(c) ==
    LET t == TokenFor(c)
        found == IF t # Unset THEN CachedFor(Tool(c), t) ELSE CachedDefault IN
    /\ pc[c] = "check"
    /\ token' = [token EXCEPT ![c] = t]
    /\ \/ \E known \in found : /\ mine' = [mine EXCEPT ![c] = known]
                               /\ pc' = [pc EXCEPT ![c] = "found"]
       \/ /\ found = {}
          /\ pc' = [pc EXCEPT ![c] = "build"]
          /\ UNCHANGED mine
    /\ UNCHANGED <<env, caches, requests, rotations, history>>

\* _build_tool_client gets the token that was read; WorkspaceClient() reads the
\* default token itself, by now perhaps another one.
Build(c) ==
    LET name == IF token[c] # Unset THEN Tool(c) ELSE Default IN
    /\ pc[c] = "build"
    /\ mine' = [mine EXCEPT ![c] =
                  [name |-> name, id |-> built + 1,
                   token |-> IF name = Default THEN env[Default] ELSE token[c]]]
    /\ built' = built + 1
    /\ pc' = [pc EXCEPT ![c] = "store"]
    /\ UNCHANGED <<env, client, toolClients, token, requests, rotations, history>>

\* _tool_clients[cache_key] = client
Cached(tool, t, k) ==
    [x \in DOMAIN toolClients \cup {<<tool, t>>} |->
        IF x = <<tool, t>> THEN k ELSE toolClients[x]]

\* Mutant: the key is made from the variable read again.
Store_rereads(c) ==
    /\ pc[c] = "store"
    /\ mine[c].name # Default
    /\ toolClients' = Cached(Tool(c), env[Tool(c)], mine[c])
    /\ pc' = [pc EXCEPT ![c] = "found"]
    /\ UNCHANGED <<env, client, built, token, mine, requests, rotations, history>>

Store(c) ==
    /\ pc[c] = "store"
    /\ \/ /\ mine[c].name = Default
          /\ client' = mine[c]
          /\ pc' = [pc EXCEPT ![c] = "reread"]
          /\ UNCHANGED toolClients
       \/ /\ mine[c].name # Default
          /\ toolClients' = Cached(Tool(c), token[c], mine[c])
          /\ pc' = [pc EXCEPT ![c] = "found"]
          /\ UNCHANGED client
    /\ UNCHANGED <<env, built, token, mine, requests, rotations, history>>

\* return _client: another thread may have stored its own meanwhile.
Reread(c) ==
    /\ pc[c] = "reread"
    /\ mine' = [mine EXCEPT ![c] = client]
    /\ pc' = [pc EXCEPT ![c] = "found"]
    /\ UNCHANGED <<env, caches, token, requests, rotations, history>>

\* The constructor raises: no host, no usable configuration.
BuildFails(c) ==
    /\ pc[c] = "build"
    /\ Finish(c)

-----------------------------------------------------------------------------
(* The callers.                                                            *)

\* list_catalogs looks up in a thread, and so does resolve_warehouse_id, unless
\* the caller or MCP_DATABRICKS_WAREHOUSE_ID named a warehouse.
Invoke(c) ==
    /\ stage[c] = "idle" /\ LoopFree
    /\ \E p \in Paths : path' = [path EXCEPT ![c] = p]
    /\ \/ /\ Tool(c)' = "list_catalogs"
          /\ stage' = [stage EXCEPT ![c] = "list"]
          /\ Begin(c)
       \/ /\ Tool(c)' = "execute_sql_safe"
          /\ stage' = [stage EXCEPT ![c] = "resolve"]
          /\ Begin(c)
       \/ /\ Tool(c)' = "execute_sql_safe"
          /\ stage' = [stage EXCEPT ![c] = "acquire"]
          /\ UNCHANGED <<pc, inForce>>
    /\ UNCHANGED <<env, caches, token, mine, resolver, ws, rotations, boot, moved>>

\* ws = get_workspace() in _execute_with_cancellation, on the loop.
Acquire(c) ==
    /\ stage[c] = "acquire" /\ LoopFree
    /\ Begin(c)
    /\ UNCHANGED <<env, caches, token, mine, requests, rotations, boot, moved>>

\* The lookup returns to its caller.
Found(c) ==
    /\ pc[c] = "found"
    /\ pc' = [pc EXCEPT ![c] = "none"]
    /\ mine' = [mine EXCEPT ![c] = NoClient]
    /\ token' = [token EXCEPT ![c] = Unset]
    /\ inForce' = [inForce EXCEPT ![c] = {}]
    /\ \/ /\ stage[c] = "list"
          /\ ws' = [ws EXCEPT ![c] = mine[c]]
          /\ stage' = [stage EXCEPT ![c] = "listing"]
          /\ UNCHANGED resolver
       \/ /\ stage[c] = "resolve"
          /\ resolver' = [resolver EXCEPT ![c] = mine[c]]
          /\ stage' = [stage EXCEPT ![c] = "warehouses"]
          /\ UNCHANGED ws
       \/ /\ stage[c] = "acquire"
          /\ ws' = [ws EXCEPT ![c] = mine[c]]
          /\ stage' = [stage EXCEPT ![c] = "statement"]
          /\ UNCHANGED resolver
    /\ UNCHANGED <<env, caches, path, rotations, boot, moved>>

\* ws.warehouses.list() names a warehouse, or there is none, or it raises.
Resolved(c) ==
    /\ stage[c] = "warehouses" /\ LoopFree
    /\ \/ Finish(c)
       \/ /\ stage' = [stage EXCEPT ![c] = "acquire"]
          /\ UNCHANGED <<env, caches, lookups, path, resolver, ws, rotations, history>>

\* The listing or the statement is over.
Return(c) ==
    /\ stage[c] \in {"listing", "statement"} /\ LoopFree
    /\ Finish(c)

-----------------------------------------------------------------------------
\* A default client exists and nobody who found none is still about to store.
Settled == client # NoClient
           /\ \A c \in Calls : token[c] = Unset => pc[c] \notin {"build", "store"}

\* A secrets injector changes a variable of the process.
Rotate(n, t) ==
    /\ rotations < MaxRotations
    /\ n \in Assigned \cup {Default}
    /\ t # env[n] /\ (n = Default => t \in Tokens)
    /\ env' = [env EXCEPT ![n] = t]
    /\ rotations' = rotations + 1
    /\ inForce' = [c \in Calls |-> IF pc[c] = "none" THEN inForce[c]
                                   ELSE inForce[c] \cup {env'}]
    /\ boot' = IF Settled THEN boot ELSE boot \cup {env'[Default]}
    /\ moved' = [c \in Calls |-> moved[c] \/ stage[c] \notin {"idle", "done"}]
    /\ UNCHANGED <<caches, lookups, requests>>

Over ==
    /\ \A c \in Calls : stage[c] = "done"
    /\ UNCHANGED vars

Lookup(c) == Check(c) \/ Build(c) \/ Store(c) \/ Reread(c) \/ BuildFails(c)
Step(c) == Invoke(c) \/ Acquire(c) \/ Found(c) \/ Resolved(c) \/ Return(c)

Next ==
    \/ \E c \in Calls : Lookup(c) \/ Step(c)
    \/ \E n \in Names, t \in Tokens \cup {Unset} : Rotate(n, t)
    \/ Over

Spec == Init /\ [][Next]_vars

-----------------------------------------------------------------------------

TypeOK ==
    /\ env \in [Names -> Tokens \cup {Unset}]
    /\ client \in Client \cup {NoClient}
    /\ \A k \in DOMAIN toolClients :
          k \in Tools \X Tokens /\ toolClients[k] \in Client
    /\ path \in [Calls -> Paths \cup {<<>>}]
    /\ stage \in [Calls -> {"idle", "list", "listing", "resolve", "warehouses",
                            "acquire", "statement", "done"}]
    /\ pc \in [Calls -> {"none", "check", "build", "store", "reread", "found"}]
    /\ token \in [Calls -> Tokens \cup {Unset}]
    /\ mine \in [Calls -> Client \cup {NoClient}]
    /\ resolver \in [Calls -> Client \cup {NoClient}]
    /\ ws \in [Calls -> Client \cup {NoClient}]
    /\ rotations \in 0..MaxRotations
    /\ built \in Nat
    /\ inForce \in [Calls -> SUBSET [Names -> Tokens \cup {Unset}]]
    /\ boot \subseteq Tokens \cup {Unset}
    /\ moved \in [Calls -> BOOLEAN]

Held(c) == {mine[c], resolver[c], ws[c]} \ {NoClient}

\* Environment e gives tool the credential that k holds: the tool's own if it
\* has one; otherwise the process's, whatever that is.
Grants(e, tool, k) ==
    IF e[tool] # Unset THEN k.name = tool /\ k.token = e[tool] ELSE k.name = Default

\* A lookup ends with the credential of the innermost guarded tool, as the
\* environment had it at some moment of that very lookup: a rotated per-tool
\* token takes effect on the next lookup, a revoked one is never found in the
\* cache, and no tool works with another tool's client, whatever the threads
\* that share the caches do.  (get_workspace; _tool_clients.)
CredentialInForce ==
    \A c \in Calls : pc[c] = "found" =>
        \E e \in inForce[c] : Grants(e, Tool(c), mine[c])

\* The default client is the opposite: its token is one that was in force
\* before the first lookups that needed it were over, and stays for the life of
\* the process.  (get_workspace: `if _client is None`, with no regard to
\* DATABRICKS_TOKEN afterwards.)
DefaultIsFromBoot ==
    \A c \in Calls : \A k \in Held(c) : k.name = Default => k.token \in boot

\* A warehouse is resolved and the statement submitted with one token, though
\* the two are separate lookups, one in a thread and one on the loop; unless the
\* environment changed during the call, or default clients were constructed
\* twice.  (resolve_warehouse_id, _execute_with_cancellation.)
OneTokenPerCall ==
    \A c \in Calls :
        /\ resolver[c] # NoClient /\ ws[c] # NoClient
        /\ resolver[c].token # ws[c].token
        => \/ moved[c]
           \/ resolver[c].name = Default /\ ws[c].name = Default
              /\ resolver[c].id # ws[c].id

-----------------------------------------------------------------------------
(* What the properties above rest on.                                      *)

Kept == ({client} \ {NoClient}) \cup {toolClients[k] : k \in DOMAIN toolClients}
Clients == Kept \cup UNION {Held(c) : c \in Calls}

\* The caches hold what their keys say.
CacheInv ==
    /\ client # NoClient => client.name = Default
    /\ \A k \in DOMAIN toolClients :
          toolClients[k].name = k[1] /\ toolClients[k].token = k[2]

\* The token a lookup has read was in force during it, and the client it comes
\* to holds that token, or is a default one if there was none.
LookupOk(c) ==
    /\ stage[c] \in {"idle", "done"} =>
          pc[c] = "none" /\ resolver[c] = NoClient /\ ws[c] = NoClient
    /\ stage[c] \notin {"idle", "done"} => path[c] \in Paths
    /\ pc[c] # "none" => stage[c] \in {"list", "resolve", "acquire"} /\ env \in inForce[c]
    /\ pc[c] \in {"none", "check", "build"} => mine[c] = NoClient
    /\ pc[c] \in {"build", "store", "reread", "found"} =>
          \E e \in inForce[c] : e[Tool(c)] = token[c]
    /\ pc[c] \in {"store", "reread", "found"} =>
          /\ mine[c] # NoClient
          /\ IF token[c] # Unset THEN mine[c].name = Tool(c) /\ mine[c].token = token[c]
                                 ELSE mine[c].name = Default
    /\ pc[c] = "reread" => token[c] = Unset /\ client # NoClient

LookupInv == \A c \in Calls : LookupOk(c)

\* A default client constructed now gets a token of the boot period.
BootInv ==
    /\ ~Settled => env[Default] \in boot
    /\ \A k \in Clients : k.name = Default => k.token \in boot

\* An id stands for one object.
IdInv == \A k1, k2 \in Clients : k1.id <= built /\ (k1.id = k2.id => k1 = k2)

\* Until the environment moves a request sees one environment.
MovedOk(c) == ~moved[c] =>
    /\ pc[c] # "none" => inForce[c] = {env}
    /\ \A k \in {resolver[c], ws[c]} \ {NoClient} : Grants(env, Tool(c), k)

MovedInv == \A c \in Calls : MovedOk(c)

IInv == TypeOK /\ CacheInv /\ LookupInv /\ BootInv /\ IdInv /\ MovedInv

-----------------------------------------------------------------------------
\* client.py names recent_audit_events as a tool to give a token of its own, and
\* says the token is used while that tool executes.
WrapperUsesItsToken ==
    \A c \in Calls : \A k \in {ws[c]} \ {NoClient} :
        ~moved[c] /\ env[Head(path[c])] # Unset => k.token = env[Head(path[c])]
=============================================================================
