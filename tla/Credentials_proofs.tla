-------------------------- MODULE Credentials_proofs --------------------------
(***************************************************************************)
(* Proofs about the credentials of tool calls, for every set of calls and  *)
(* tokens and any number of rotations.                                     *)
(***************************************************************************)
EXTENDS Credentials, TLAPS

-----------------------------------------------------------------------------
(* Tools, clients and the set of them that is in use.                      *)

LEMMA ToolOfPath ==
    ASSUME NEW c, path[c] \in Paths
    PROVE  Tool(c) \in Tools /\ Tool(c) \in Names /\ Tool(c) # Default
<1>1. ASSUME NEW p \in Paths
      PROVE  Last(p) \in Tools
  <2>1. CASE p = <<"list_catalogs">>
    BY <2>1 DEF Last, Tools
  <2>2. CASE p = <<"execute_sql_safe">>
    BY <2>2 DEF Last, Tools
  <2>3. CASE p = <<"recent_audit_events", "execute_sql_safe">>
    BY <2>3 DEF Last, Tools
  <2> QED
    BY <2>1, <2>2, <2>3 DEF Paths
<1> QED
  BY <1>1 DEF Tool, Tools, Names, Default

\* Clients that go away endanger neither their identity nor their tokens.
LEMMA FewerClients ==
    ASSUME IdInv, BootInv, Clients' \subseteq Clients, built' = built, boot \subseteq boot'
    PROVE  IdInv' /\ \A k \in Clients' : k.name = Default => k.token \in boot'
BY DEF IdInv, BootInv

\* What an ended call leaves behind.
LEMMA FinishIInv ==
    ASSUME IInv, NEW c \in Calls, Finish(c), UNCHANGED <<caches>>
    PROVE  IInv'
<1>1. TypeOK'
  BY DEF IInv, TypeOK, Finish, caches
<1>2. CacheInv'
  BY DEF IInv, CacheInv, Finish, caches
<1>3. LookupInv'
  BY DEF IInv, TypeOK, LookupInv, LookupOk, Finish, caches, Tool
<1>4. BootInv' /\ IdInv'
  <2>1. Clients' \subseteq Clients
    BY DEF IInv, TypeOK, Finish, caches, Clients, Kept, Held
  <2>2. Settled => Settled'
    BY DEF IInv, TypeOK, Finish, caches, Settled
  <2> QED
    BY <2>1, <2>2, FewerClients DEF IInv, Finish, caches, BootInv
<1>5. MovedInv'
  BY DEF IInv, TypeOK, MovedInv, MovedOk, Grants, Finish, Tool
<1> QED
  BY <1>1, <1>2, <1>3, <1>4, <1>5 DEF IInv

-----------------------------------------------------------------------------
(* get_workspace.                                                          *)

LEMMA CheckIInv ==
    ASSUME IInv, NEW c \in Calls, Check(c)
    PROVE  IInv'
<1> DEFINE t == TokenFor(c)
           found == IF t # Unset THEN CachedFor(Tool(c), t) ELSE CachedDefault
<1>1. /\ pc[c] = "check" /\ token' = [token EXCEPT ![c] = t]
      /\ UNCHANGED <<env, caches, requests, rotations, history>>
      /\ \/ \E known \in found : /\ mine' = [mine EXCEPT ![c] = known]
                                 /\ pc' = [pc EXCEPT ![c] = "found"]
         \/ found = {} /\ pc' = [pc EXCEPT ![c] = "build"] /\ mine' = mine
  BY DEF Check
<1>2. /\ path[c] \in Paths /\ Tool(c) \in Tools /\ Tool(c) \in Names /\ Tool(c) # Default
      /\ stage[c] \in {"list", "resolve", "acquire"} /\ env \in inForce[c] /\ mine[c] = NoClient
  BY <1>1, ToolOfPath DEF IInv, LookupInv, LookupOk
<1>3. t = env[Tool(c)] /\ t \in Tokens \cup {Unset}
  BY <1>2 DEF IInv, TypeOK, TokenFor
<1>4. \A known \in found :
        /\ known \in Client /\ known # NoClient /\ known \in Kept
        /\ IF t # Unset THEN known.name = Tool(c) /\ known.token = t ELSE known.name = Default
  <2>1. CASE t # Unset
    <3>1. \A known \in found : <<Tool(c), t>> \in DOMAIN toolClients
                                /\ known = toolClients[<<Tool(c), t>>]
      BY <2>1 DEF CachedFor
    <3> QED
      BY <2>1, <3>1, ClientAssumption DEF IInv, TypeOK, CacheInv, Kept
  <2>2. CASE t = Unset
    BY <2>2, ClientAssumption DEF IInv, TypeOK, CacheInv, Kept, CachedDefault
  <2> QED
    BY <2>1, <2>2
<1>5. t = Unset /\ found = {} => client = NoClient
  BY DEF CachedDefault
<1> HIDE DEF t, found
<1>6. TypeOK'
  BY <1>1, <1>3, <1>4 DEF IInv, TypeOK, caches, requests, history
<1>7. CacheInv'
  BY <1>1 DEF IInv, CacheInv, caches
<1>8. ASSUME NEW d \in Calls
      PROVE  LookupOk(d)'
  <2>1. CASE d = c
    BY <1>1, <1>2, <1>3, <1>4, <2>1 DEF IInv, TypeOK, LookupOk, caches, requests, history, Tool
  <2>2. CASE d # c
    BY <1>1, <2>2 DEF IInv, TypeOK, LookupInv, LookupOk, caches, requests, history, Tool
  <2> QED
    BY <2>1, <2>2
<1>9. BootInv' /\ IdInv'
  <2>1. Clients' \subseteq Clients
    BY <1>1, <1>4 DEF IInv, TypeOK, caches, requests, Clients, Kept, Held
  <2>2. Settled => Settled'
    BY <1>1, <1>5 DEF IInv, TypeOK, caches, Settled
  <2> QED
    BY <1>1, <2>1, <2>2, FewerClients DEF IInv, BootInv, caches, history
<1>10. MovedInv'
  BY <1>1 DEF IInv, TypeOK, MovedInv, MovedOk, Grants, Tool, requests, history
<1> QED
  BY <1>6, <1>7, <1>8, <1>9, <1>10 DEF IInv, LookupInv

\* The one step that brings a new client: no other has its id, and a default one
\* is built before the boot period ends.
LEMMA BuildIInv ==
    ASSUME IInv, NEW c \in Calls, Build(c)
    PROVE  IInv'
<1> DEFINE name == IF token[c] # Unset THEN Tool(c) ELSE Default
           new == [name |-> name, id |-> built + 1,
                   token |-> IF name = Default THEN env[Default] ELSE token[c]]
<1>1. /\ pc[c] = "build" /\ mine' = [mine EXCEPT ![c] = new] /\ built' = built + 1
      /\ pc' = [pc EXCEPT ![c] = "store"]
      /\ UNCHANGED <<env, client, toolClients, token, requests, rotations, history>>
  BY DEF Build
<1>2. /\ path[c] \in Paths /\ Tool(c) \in Tools /\ Tool(c) \in Names /\ Tool(c) # Default
      /\ stage[c] \in {"list", "resolve", "acquire"} /\ env \in inForce[c] /\ mine[c] = NoClient
      /\ \E e \in inForce[c] : e[Tool(c)] = token[c]
  BY <1>1, ToolOfPath DEF IInv, LookupInv, LookupOk
<1>3. /\ new \in Client /\ new # NoClient /\ new.id = built + 1
      /\ IF token[c] # Unset THEN new.name = Tool(c) /\ new.token = token[c]
                             ELSE new.name = Default /\ new.token = env[Default]
  <2>1. name \in Names /\ env[Default] \in Tokens \cup {Unset} /\ token[c] \in Tokens \cup {Unset}
    BY <1>2 DEF IInv, TypeOK, Names
  <2>2. new \in Client
    BY <2>1 DEF IInv, TypeOK, Client
  <2> QED
    BY <1>2, <2>2, ClientAssumption
<1>4. new.name = Default => new.token \in boot
  <2>1. token[c] = Unset => ~Settled
    BY <1>1 DEF Settled
  <2> QED
    BY <1>2, <1>3, <2>1 DEF IInv, BootInv
<1> HIDE DEF name, new
<1>5. TypeOK'
  BY <1>1, <1>3 DEF IInv, TypeOK, requests, history
<1>6. CacheInv'
  BY <1>1 DEF IInv, CacheInv
<1>7. ASSUME NEW d \in Calls
      PROVE  LookupOk(d)'
  <2>1. CASE d = c
    BY <1>1, <1>2, <1>3, <2>1 DEF IInv, TypeOK, LookupOk, requests, history, Tool
  <2>2. CASE d # c
    BY <1>1, <2>2 DEF IInv, TypeOK, LookupInv, LookupOk, requests, history, Tool
  <2> QED
    BY <2>1, <2>2
<1>8. Clients' \subseteq Clients \cup {new}
  BY <1>1 DEF IInv, TypeOK, requests, Clients, Kept, Held
<1>9. BootInv'
  <2>1. Settled => Settled'
    BY <1>1 DEF IInv, TypeOK, Settled
  <2> QED
    BY <1>1, <1>4, <1>8, <2>1 DEF IInv, BootInv, history
<1>10. IdInv'
  <2>1. built \in Nat /\ built' = built + 1
    BY <1>1 DEF IInv, TypeOK
  <2>2. Clients \subseteq Client
    BY DEF IInv, TypeOK, Clients, Kept, Held
  <2>3. \A k \in Clients : k.id \in Nat /\ k.id <= built
    BY <2>2 DEF IInv, IdInv, Client
  <2>4. \A k \in Clients : k.id # new.id /\ k.id <= built'
    BY <1>3, <2>1, <2>3
  <2> QED
    BY <1>3, <1>8, <2>1, <2>4 DEF IInv, IdInv
<1>11. MovedInv'
  BY <1>1 DEF IInv, TypeOK, MovedInv, MovedOk, Grants, Tool, requests, history
<1> QED
  BY <1>5, <1>6, <1>7, <1>9, <1>10, <1>11 DEF IInv, LookupInv

LEMMA StoreIInv ==
    ASSUME IInv, NEW c \in Calls, Store(c)
    PROVE  IInv'
<1>1. /\ pc[c] = "store"
      /\ UNCHANGED <<env, built, token, mine, requests, rotations, history>>
  BY DEF Store
<1>2. \/ /\ mine[c].name = Default /\ client' = mine[c] /\ toolClients' = toolClients
         /\ pc' = [pc EXCEPT ![c] = "reread"]
      \/ /\ mine[c].name # Default /\ toolClients' = Cached(Tool(c), token[c], mine[c])
         /\ client' = client /\ pc' = [pc EXCEPT ![c] = "found"]
  BY DEF Store
<1>3. /\ path[c] \in Paths /\ Tool(c) \in Tools /\ Tool(c) \in Names /\ Tool(c) # Default
      /\ mine[c] \in Client /\ mine[c] # NoClient /\ token[c] \in Tokens \cup {Unset}
      /\ IF token[c] # Unset THEN mine[c].name = Tool(c) /\ mine[c].token = token[c]
                             ELSE mine[c].name = Default
  BY <1>1, ToolOfPath DEF IInv, TypeOK, LookupInv, LookupOk
<1>4. mine[c].name # Default =>
        /\ <<Tool(c), token[c]>> \in Tools \X Tokens
        /\ \A k \in DOMAIN toolClients' :
              \/ k = <<Tool(c), token[c]>> /\ toolClients'[k] = mine[c]
              \/ k \in DOMAIN toolClients /\ toolClients'[k] = toolClients[k]
  BY <1>2, <1>3 DEF Cached
<1>5. TypeOK'
  <2>1. \A k \in DOMAIN toolClients' : k \in Tools \X Tokens /\ toolClients'[k] \in Client
    BY <1>2, <1>3, <1>4 DEF IInv, TypeOK
  <2> QED
    BY <1>1, <1>2, <1>3, <2>1 DEF IInv, TypeOK, requests, history
<1>6. CacheInv'
  <2>1. CASE mine[c].name = Default
    BY <1>2, <2>1 DEF IInv, CacheInv
  <2>2. CASE mine[c].name # Default
    BY <1>2, <1>3, <1>4, <2>2 DEF IInv, CacheInv
  <2> QED
    BY <2>1, <2>2
<1>7. ASSUME NEW d \in Calls
      PROVE  LookupOk(d)'
  <2>1. CASE d = c
    BY <1>1, <1>2, <1>3, <2>1 DEF IInv, TypeOK, LookupInv, LookupOk, requests, history, Tool
  <2>2. CASE d # c
    BY <1>1, <1>2, <1>3, <2>2 DEF IInv, TypeOK, LookupInv, LookupOk, requests, history, Tool
  <2> QED
    BY <2>1, <2>2
<1>8. BootInv' /\ IdInv'
  <2>1. Clients' \subseteq Clients
    <3>1. Held(c) \subseteq Clients /\ mine[c] \in Clients
      BY <1>3 DEF Clients, Held
    <3>2. Kept' \subseteq Clients
      BY <1>2, <1>4, <3>1 DEF Clients, Kept
    <3>3. \A d \in Calls : Held(d)' = Held(d)
      BY <1>1 DEF Held, requests
    <3> QED
      BY <3>2, <3>3 DEF Clients
  <2>2. Settled => Settled'
    BY <1>1, <1>2, <1>3 DEF IInv, TypeOK, Settled
  <2> QED
    BY <1>1, <2>1, <2>2, FewerClients DEF IInv, BootInv, history
<1>9. MovedInv'
  BY <1>1, <1>2 DEF IInv, TypeOK, MovedInv, MovedOk, Grants, Tool, requests, history
<1> QED
  BY <1>5, <1>6, <1>7, <1>8, <1>9 DEF IInv, LookupInv

LEMMA RereadIInv ==
    ASSUME IInv, NEW c \in Calls, Reread(c)
    PROVE  IInv'
<1>1. /\ pc[c] = "reread" /\ mine' = [mine EXCEPT ![c] = client]
      /\ pc' = [pc EXCEPT ![c] = "found"]
      /\ UNCHANGED <<env, caches, token, requests, rotations, history>>
  BY DEF Reread
<1>2. client \in Client /\ client # NoClient /\ client.name = Default /\ token[c] = Unset
  BY <1>1 DEF IInv, TypeOK, CacheInv, LookupInv, LookupOk
<1>3. TypeOK'
  BY <1>1, <1>2 DEF IInv, TypeOK, caches, requests, history
<1>4. CacheInv'
  BY <1>1 DEF IInv, CacheInv, caches
<1>5. LookupInv'
  BY <1>1, <1>2 DEF IInv, TypeOK, LookupInv, LookupOk, caches, requests, history, Tool
<1>6. BootInv' /\ IdInv'
  <2>1. Clients' \subseteq Clients
    BY <1>1, <1>2 DEF IInv, TypeOK, caches, requests, Clients, Kept, Held
  <2>2. Settled => Settled'
    BY <1>1 DEF IInv, TypeOK, caches, Settled
  <2> QED
    BY <1>1, <2>1, <2>2, FewerClients DEF IInv, BootInv, caches, history
<1>7. MovedInv'
  BY <1>1 DEF IInv, TypeOK, MovedInv, MovedOk, Grants, Tool, requests, history
<1> QED
  BY <1>3, <1>4, <1>5, <1>6, <1>7 DEF IInv

LEMMA BuildFailsIInv ==
    ASSUME IInv, NEW c \in Calls, BuildFails(c)
    PROVE  IInv'
BY FinishIInv DEF BuildFails, Finish

-----------------------------------------------------------------------------
(* The callers.                                                            *)

LEMMA InvokeIInv ==
    ASSUME IInv, NEW c \in Calls, Invoke(c)
    PROVE  IInv'
<1>1. PICK p \in Paths : path' = [path EXCEPT ![c] = p]
  BY DEF Invoke
<1>2. /\ stage[c] = "idle"
      /\ \/ /\ stage' = [stage EXCEPT ![c] = "list"] \/ stage' = [stage EXCEPT ![c] = "resolve"]
            /\ pc' = [pc EXCEPT ![c] = "check"] /\ inForce' = [inForce EXCEPT ![c] = {env}]
         \/ stage' = [stage EXCEPT ![c] = "acquire"] /\ pc' = pc /\ inForce' = inForce
      /\ UNCHANGED <<env, caches, token, mine, resolver, ws, rotations, boot, moved>>
  BY DEF Invoke, Begin
<1>3. pc[c] = "none" /\ mine[c] = NoClient /\ resolver[c] = NoClient /\ ws[c] = NoClient
  BY <1>2 DEF IInv, LookupInv, LookupOk
<1>4. TypeOK'
  BY <1>1, <1>2 DEF IInv, TypeOK, caches
<1>5. CacheInv'
  BY <1>2 DEF IInv, CacheInv, caches
<1>6. ASSUME NEW d \in Calls
      PROVE  LookupOk(d)'
  <2>1. CASE d = c
    BY <1>1, <1>2, <1>3, <2>1 DEF IInv, TypeOK, LookupOk, caches
  <2>2. CASE d # c
    BY <1>1, <1>2, <2>2 DEF IInv, TypeOK, LookupInv, LookupOk, caches, Tool
  <2> QED
    BY <2>1, <2>2
<1>7. BootInv' /\ IdInv'
  <2>1. Clients' \subseteq Clients
    BY <1>2 DEF caches, Clients, Kept, Held
  <2>2. Settled => Settled'
    BY <1>2 DEF IInv, TypeOK, caches, Settled
  <2> QED
    BY <1>2, <2>1, <2>2, FewerClients DEF IInv, BootInv, caches
<1>8. MovedInv'
  BY <1>1, <1>2, <1>3 DEF IInv, TypeOK, MovedInv, MovedOk, Grants, Tool
<1> QED
  BY <1>4, <1>5, <1>6, <1>7, <1>8 DEF IInv, LookupInv

LEMMA AcquireIInv ==
    ASSUME IInv, NEW c \in Calls, Acquire(c)
    PROVE  IInv'
<1>1. /\ stage[c] = "acquire" /\ pc[c] = "none"
      /\ pc' = [pc EXCEPT ![c] = "check"] /\ inForce' = [inForce EXCEPT ![c] = {env}]
      /\ UNCHANGED <<env, caches, token, mine, requests, rotations, boot, moved>>
  BY DEF Acquire, Begin, LoopFree
<1>2. TypeOK'
  BY <1>1 DEF IInv, TypeOK, caches, requests
<1>3. CacheInv'
  BY <1>1 DEF IInv, CacheInv, caches
<1>4. LookupInv'
  BY <1>1 DEF IInv, TypeOK, LookupInv, LookupOk, caches, requests, Tool
<1>5. BootInv' /\ IdInv'
  <2>1. Clients' \subseteq Clients
    BY <1>1 DEF caches, requests, Clients, Kept, Held
  <2>2. Settled => Settled'
    BY <1>1 DEF IInv, TypeOK, caches, Settled
  <2> QED
    BY <1>1, <2>1, <2>2, FewerClients DEF IInv, BootInv, caches
<1>6. MovedInv'
  BY <1>1 DEF IInv, TypeOK, MovedInv, MovedOk, Grants, Tool, requests
<1> QED
  BY <1>2, <1>3, <1>4, <1>5, <1>6 DEF IInv

\* The client handed over was granted by an environment of the lookup, the only
\* one there is while nothing moves.
LEMMA FoundIInv ==
    ASSUME IInv, NEW c \in Calls, Found(c)
    PROVE  IInv'
<1>1. /\ pc[c] = "found" /\ pc' = [pc EXCEPT ![c] = "none"]
      /\ mine' = [mine EXCEPT ![c] = NoClient] /\ token' = [token EXCEPT ![c] = Unset]
      /\ inForce' = [inForce EXCEPT ![c] = {}]
      /\ UNCHANGED <<env, caches, path, rotations, boot, moved>>
  BY DEF Found
<1>2. \/ stage' = [stage EXCEPT ![c] = "listing"] /\ ws' = [ws EXCEPT ![c] = mine[c]]
         /\ resolver' = resolver
      \/ stage' = [stage EXCEPT ![c] = "warehouses"] /\ ws' = ws
         /\ resolver' = [resolver EXCEPT ![c] = mine[c]]
      \/ stage' = [stage EXCEPT ![c] = "statement"] /\ ws' = [ws EXCEPT ![c] = mine[c]]
         /\ resolver' = resolver
  BY DEF Found
<1>3. /\ path[c] \in Paths /\ mine[c] \in Client /\ mine[c] # NoClient
      /\ stage[c] \notin {"idle", "done"}
      /\ \E e \in inForce[c] : Grants(e, Tool(c), mine[c])
  BY <1>1 DEF IInv, TypeOK, LookupInv, LookupOk, Grants
<1>4. TypeOK'
  BY <1>1, <1>2, <1>3 DEF IInv, TypeOK, caches
<1>5. CacheInv'
  BY <1>1 DEF IInv, CacheInv, caches
<1>6. ASSUME NEW d \in Calls
      PROVE  LookupOk(d)'
  <2>1. CASE d = c
    BY <1>1, <1>2, <1>3, <2>1 DEF IInv, TypeOK, LookupOk, caches
  <2>2. CASE d # c
    BY <1>1, <1>2, <2>2 DEF IInv, TypeOK, LookupInv, LookupOk, caches, Tool
  <2> QED
    BY <2>1, <2>2
<1>7. BootInv' /\ IdInv'
  <2>1. \A d \in Calls : Held(d)' \subseteq Held(d)
    BY <1>1, <1>2 DEF IInv, TypeOK, Held
  <2>2. Clients' \subseteq Clients
    BY <1>1, <2>1 DEF caches, Clients, Kept
  <2>3. Settled => Settled'
    BY <1>1 DEF IInv, TypeOK, caches, Settled
  <2> QED
    BY <1>1, <2>2, <2>3, FewerClients DEF IInv, BootInv, caches
<1>8. ASSUME NEW d \in Calls
      PROVE  MovedOk(d)'
  <2>1. CASE d = c
    <3>1. ~moved[c] => Grants(env, Tool(c), mine[c])
      BY <1>1, <1>3 DEF IInv, MovedInv, MovedOk
    <3> QED
      BY <1>1, <1>2, <2>1, <3>1 DEF IInv, TypeOK, MovedInv, MovedOk, Grants, Tool
  <2>2. CASE d # c
    BY <1>1, <1>2, <2>2 DEF IInv, TypeOK, MovedInv, MovedOk, Grants, Tool
  <2> QED
    BY <2>1, <2>2
<1> QED
  BY <1>4, <1>5, <1>6, <1>7, <1>8 DEF IInv, LookupInv, MovedInv

LEMMA ResolvedIInv ==
    ASSUME IInv, NEW c \in Calls, Resolved(c)
    PROVE  IInv'
<1>1. CASE Finish(c)
  BY <1>1, FinishIInv DEF Finish
<1>2. CASE /\ stage' = [stage EXCEPT ![c] = "acquire"]
           /\ UNCHANGED <<env, caches, lookups, path, resolver, ws, rotations, history>>
  <2>1. stage[c] = "warehouses"
    BY DEF Resolved
  <2>2. TypeOK'
    BY <1>2 DEF IInv, TypeOK, caches, lookups, history
  <2>3. LookupInv'
    BY <1>2, <2>1 DEF IInv, TypeOK, LookupInv, LookupOk, caches, lookups, history, Tool
  <2>4. CacheInv' /\ IdInv' /\ BootInv'
    BY <1>2 DEF IInv, CacheInv, IdInv, BootInv, Clients, Kept, Held, Settled,
                caches, lookups, history
  <2>5. MovedInv'
    BY <1>2 DEF IInv, MovedInv, MovedOk, Grants, Tool, lookups, history
  <2> QED
    BY <2>2, <2>3, <2>4, <2>5 DEF IInv
<1> QED
  BY <1>1, <1>2 DEF Resolved

\* A rotation adds to what was in force during every lookup under way, ends the
\* claim on every request under way, and extends the boot period's tokens.
LEMMA RotateIInv ==
    ASSUME IInv, NEW n \in Names, NEW t \in Tokens \cup {Unset}, Rotate(n, t)
    PROVE  IInv'
<1>1. /\ rotations < MaxRotations /\ rotations' = rotations + 1
      /\ env' = [env EXCEPT ![n] = t]
      /\ inForce' = [c \in Calls |-> IF pc[c] = "none" THEN inForce[c]
                                       ELSE inForce[c] \cup {env'}]
      /\ boot' = IF Settled THEN boot ELSE boot \cup {env'[Default]}
      /\ moved' = [c \in Calls |-> moved[c] \/ stage[c] \notin {"idle", "done"}]
      /\ UNCHANGED <<caches, lookups, requests>>
  BY DEF Rotate
<1>2. env' \in [Names -> Tokens \cup {Unset}] /\ Default \in Names
  BY <1>1 DEF IInv, TypeOK, Names
<1>3. TypeOK'
  <2>1. rotations' \in 0..MaxRotations
    BY <1>1, BoundsAssumption DEF IInv, TypeOK
  <2>2. inForce' \in [Calls -> SUBSET [Names -> Tokens \cup {Unset}]]
    BY <1>1, <1>2 DEF IInv, TypeOK
  <2> QED
    BY <1>1, <1>2, <2>1, <2>2 DEF IInv, TypeOK, caches, lookups, requests
<1>4. LookupInv'
  BY <1>1 DEF IInv, LookupInv, LookupOk, caches, lookups, requests, Tool
<1>5. CacheInv' /\ IdInv'
  BY <1>1 DEF IInv, CacheInv, IdInv, Clients, Kept, Held, caches, lookups, requests
<1>6. BootInv'
  <2>1. Clients' = Clients /\ Settled' = Settled
    BY <1>1 DEF Clients, Kept, Held, Settled, caches, lookups, requests
  <2> QED
    BY <1>1, <2>1 DEF IInv, BootInv
<1>7. MovedInv'
  BY <1>1 DEF IInv, LookupInv, LookupOk, MovedInv, MovedOk, lookups, requests
<1> QED
  BY <1>3, <1>4, <1>5, <1>6, <1>7 DEF IInv

-----------------------------------------------------------------------------
(* The invariant and what follows from it.                                 *)

LEMMA InitIInv == Init => IInv
<1> SUFFICES ASSUME Init PROVE IInv
  OBVIOUS
<1>1. env \in [Names -> Tokens \cup {Unset}] /\ env[Default] \in Tokens
  BY DEF Init
<1>2. DOMAIN toolClients = {}
  BY DEF Init
<1>3. TypeOK
  BY <1>1, <1>2, BoundsAssumption DEF Init, TypeOK
<1>4. CacheInv /\ LookupInv
  BY <1>2 DEF Init, CacheInv, LookupInv, LookupOk
<1>5. Clients = {}
  BY <1>2 DEF Init, Clients, Kept, Held
<1>6. BootInv /\ IdInv /\ MovedInv
  BY <1>5 DEF Init, BootInv, IdInv, MovedInv, MovedOk
<1> QED
  BY <1>3, <1>4, <1>6 DEF IInv

LEMMA NextIInv == IInv /\ [Next]_vars => IInv'
<1> SUFFICES ASSUME IInv, [Next]_vars PROVE IInv'
  OBVIOUS
<1>1. ASSUME NEW c \in Calls, Lookup(c) PROVE IInv'
  BY <1>1, CheckIInv, BuildIInv, StoreIInv, RereadIInv, BuildFailsIInv DEF Lookup
<1>2. ASSUME NEW c \in Calls, Return(c) PROVE IInv'
  BY <1>2, FinishIInv DEF Return, Finish
<1>3. ASSUME NEW c \in Calls, Step(c) PROVE IInv'
  BY <1>2, <1>3, InvokeIInv, AcquireIInv, FoundIInv, ResolvedIInv DEF Step
<1>4. ASSUME NEW n \in Names, NEW t \in Tokens \cup {Unset}, Rotate(n, t) PROVE IInv'
  BY <1>4, RotateIInv
<1>5. CASE UNCHANGED vars
  BY <1>5 DEF vars, caches, lookups, requests, history, IInv, TypeOK, CacheInv, LookupInv,
              LookupOk, BootInv, IdInv, MovedInv, MovedOk, Settled, Clients, Kept, Held,
              Grants, Tool
<1> QED
  BY <1>1, <1>3, <1>4, <1>5 DEF Next, Over

LEMMA Invariance == Spec => []IInv
BY InitIInv, NextIInv, PTL DEF Spec

-----------------------------------------------------------------------------

\* Type correctness: whatever the interleaving of the loop with its threads, the
\* cached clients, the environment and what each call holds keep their types.
THEOREM TypeCorrect == Spec => []TypeOK
<1>1. IInv => TypeOK
  BY DEF IInv
<1> QED
  BY <1>1, Invariance, PTL

\* Whatever other threads do to the caches and whenever tokens are rotated, a
\* lookup ends with the credential its own tool had at some moment of it.
THEOREM CredentialCorrect == Spec => []CredentialInForce
<1>1. IInv => CredentialInForce
  BY DEF IInv, LookupInv, LookupOk, CredentialInForce, Grants
<1> QED
  BY <1>1, Invariance, PTL

\* No default client ever holds a token from after the boot period.
THEOREM DefaultCorrect == Spec => []DefaultIsFromBoot
<1>1. IInv => DefaultIsFromBoot
  BY DEF IInv, BootInv, Clients, DefaultIsFromBoot
<1> QED
  BY <1>1, Invariance, PTL

\* The two lookups of one statement agree on the token unless the environment
\* moved in between or two default clients were built.
THEOREM OneTokenCorrect == Spec => []OneTokenPerCall
<1>1. ASSUME IInv, NEW c \in Calls, resolver[c] # NoClient, ws[c] # NoClient,
             resolver[c].token # ws[c].token, ~moved[c]
      PROVE  /\ resolver[c].name = Default /\ ws[c].name = Default
             /\ resolver[c].id # ws[c].id
  <2>1. Grants(env, Tool(c), resolver[c]) /\ Grants(env, Tool(c), ws[c])
    BY <1>1 DEF IInv, MovedInv, MovedOk
  <2>2. resolver[c] \in Clients /\ ws[c] \in Clients
    BY <1>1 DEF Clients, Held
  <2> QED
    BY <1>1, <2>1, <2>2 DEF IInv, IdInv, Grants
<1>2. IInv => OneTokenPerCall
  BY <1>1 DEF OneTokenPerCall
<1> QED
  BY <1>2, Invariance, PTL
=============================================================================
