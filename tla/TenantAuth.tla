----------------------------- MODULE TenantAuth -----------------------------
(***************************************************************************)
(* Authentication in the API Gateway (api_gateway/auth.py): a cache of     *)
(* tenants by API key, filled by lookups in the Control Plane.  Requests    *)
(* are coroutines of one gateway process: the code between two awaits is    *)
(* one action.  invalidate_cache has no caller, so it has no action.        *)
(***************************************************************************)
EXTENDS TenantStore

CONSTANT Requests     \* calls of /v1/chat

VARIABLES
  cache,      \* cache[k]: the tenant cached for key k, or None
  pc,         \* pc[r]: where validate_api_key is with r
  key,        \* key[r]: the API key r came with
  answer,     \* answer[r]: what the Control Plane's reply to r says
  granted,    \* granted[r]: the tenant r was let in as
  held        \* history: <<key, tenant>> pairs the table had at some time
              \* since the gateway's last start

gatewayVars == <<cache, pc, key, answer, granted>>
vars == <<storeVars, faults, gatewayVars, held>>

(* A tenant as the gateway knows it (TenantConfig).                         *)
Grants == [tenant : Tenants, config : Configs]

Outcomes == {"admitted", "refused", "unreachable", "lost"}

ASSUME NobodyAssumption == None \notin Grants /\ None \notin Keys

(* What the lookup of k returns: the row of its owner, or nothing.          *)
Answers(k) ==
  LET owners == {t \in Tenants : Owns(t, k)} IN
  IF owners = {} THEN {None}
  ELSE {[tenant |-> t, config |-> table[t].config] : t \in owners}

(* The pairs of a key and what it grants that the table has.                *)
Pairs == {p \in Keys \X Grants : /\ Owns(p[2].tenant, p[1])
                                  /\ table[p[2].tenant].config = p[2].config}

Init ==
  /\ StoreInit
  /\ faults = 0
  /\ cache = [k \in Keys |-> None]
  /\ pc = [r \in Requests |-> "new"]
  /\ key = [r \in Requests |-> None]
  /\ answer = [r \in Requests |-> None]
  /\ granted = [r \in Requests |-> None]
  /\ held = {}

(* The Control Plane's own steps.                                           *)
StoreStep ==
  /\ StoreNext
  /\ held' = held \cup Pairs'
  /\ UNCHANGED gatewayVars

(* A key in the cache is let in without a lookup.                            *)
CacheHit(r, k) ==
  /\ pc[r] = "new"
  /\ cache[k] # None
  /\ pc' = [pc EXCEPT ![r] = "admitted"]
  /\ key' = [key EXCEPT ![r] = k]
  /\ granted' = [granted EXCEPT ![r] = cache[k]]
  /\ UNCHANGED <<storeVars, faults, cache, answer, held>>

CacheMiss(r, k) ==
  /\ pc[r] = "new"
  /\ cache[k] = None
  /\ pc' = [pc EXCEPT ![r] = "asking"]
  /\ key' = [key EXCEPT ![r] = k]
  /\ UNCHANGED <<storeVars, faults, cache, answer, granted, held>>

(* GET /tenants/by-key: the Control Plane reads the table.                   *)
Lookup(r) ==
  /\ pc[r] = "asking"
  /\ plane = "up"
  /\ pc' = [pc EXCEPT ![r] = "answered"]
  /\ \E a \in Answers(key[r]) : answer' = [answer EXCEPT ![r] = a]
  /\ UNCHANGED <<storeVars, faults, cache, key, granted, held>>

(* The reply arrives: 200 is cached and let in, 404 is a 401.                *)
Reply(r) ==
  /\ pc[r] = "answered"
  /\ IF answer[r] # None
     THEN /\ cache' = [cache EXCEPT ![key[r]] = answer[r]]
          /\ granted' = [granted EXCEPT ![r] = answer[r]]
          /\ pc' = [pc EXCEPT ![r] = "admitted"]
     ELSE /\ pc' = [pc EXCEPT ![r] = "refused"]
          /\ UNCHANGED <<cache, granted>>
  /\ answer' = [answer EXCEPT ![r] = None]
  /\ UNCHANGED <<storeVars, faults, key, held>>

(* RequestError: nobody listens, or the reply does not come in two seconds.  *)
(* Another status is a 401 like an unknown key.                              *)
LookupFails(r) ==
  /\ pc[r] \in {"asking", "answered"}
  /\ \/ plane # "up" /\ pc' = [pc EXCEPT ![r] = "unreachable"] /\ UNCHANGED faults
     \/ Fault /\ pc' = [pc EXCEPT ![r] = "unreachable"]
     \/ plane = "up" /\ Fault /\ pc' = [pc EXCEPT ![r] = "refused"]
  /\ answer' = [answer EXCEPT ![r] = None]
  /\ UNCHANGED <<storeVars, cache, key, granted, held>>

(* Mutant: the cache survives the process.                                   *)
MutGatewayRestart ==
  /\ Fault
  /\ pc' = [r \in Requests |-> IF pc[r] = "new" THEN "new" ELSE "lost"]
  /\ answer' = [r \in Requests |-> None]
  /\ granted' = [r \in Requests |-> None]
  /\ held' = Pairs
  /\ UNCHANGED <<storeVars, cache, key>>

(* The gateway process is replaced: its cache is gone, and so are the        *)
(* requests it was handling, admitted ones (their streams) included.         *)
GatewayRestart ==
  /\ Fault
  /\ cache' = [k \in Keys |-> None]
  /\ pc' = [r \in Requests |-> IF pc[r] = "new" THEN "new" ELSE "lost"]
  /\ answer' = [r \in Requests |-> None]
  /\ granted' = [r \in Requests |-> None]
  /\ held' = Pairs
  /\ UNCHANGED <<storeVars, key>>

RequestStep(r) == Lookup(r) \/ Reply(r) \/ LookupFails(r)

GatewayNext ==
  \/ \E r \in Requests, k \in Keys : CacheHit(r, k) \/ CacheMiss(r, k)
  \/ \E r \in Requests : RequestStep(r)
  \/ GatewayRestart

Next == StoreStep \/ GatewayNext

Spec == Init /\ [][Next]_vars

(* The event loop goes on with every request: a reply or an error comes      *)
(* within httpx's two seconds.  Nothing else runs by itself.                 *)
FairSpec == Spec /\ \A r \in Requests : WF_vars(RequestStep(r))

-----------------------------------------------------------------------------
TypeOK ==
  /\ StoreTypeOK
  /\ cache \in [Keys -> Grants \cup {None}]
  /\ pc \in [Requests -> {"new", "asking", "answered"} \cup Outcomes]
  /\ key \in [Requests -> Keys \cup {None}]
  /\ \A r \in Requests : pc[r] # "new" => key[r] # None
  /\ answer \in [Requests -> Grants \cup {None}]
  /\ \A r \in Requests : answer[r] # None => pc[r] = "answered"
  /\ granted \in [Requests -> Grants \cup {None}]
  /\ \A r \in Requests : pc[r] = "admitted" <=> granted[r] # None

(* Whoever is let in was in the table with that key, tier and limits at some *)
(* time since the gateway's last start: a key revoked before that start is   *)
(* never let in, although nothing ever removes it from the cache             *)
(* (_fetch_tenant_by_key keeps what it found for the life of the process).   *)
NothingFromBefore ==
  /\ \A r \in Requests : granted[r] # None => <<key[r], granted[r]>> \in held
  /\ \A k \in Keys : cache[k] # None => <<k, cache[k]>> \in held

(* As auth.py:26 has it, "TTL-based invalidation is handled by periodic      *)
(* refresh": a key nobody owns any more leaves the cache.                    *)
RevokedKeyLeavesCache ==
  \A k \in Keys : (cache[k] # None /\ \A t \in Tenants : ~Owns(t, k)) ~>
                    (cache[k] = None \/ \E t \in Tenants : Owns(t, k))
=============================================================================
