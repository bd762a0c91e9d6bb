----------------------------- MODULE TenantStore -----------------------------
(***************************************************************************)
(* The Control Plane's table of tenants (control_plane/tenant_store.py)    *)
(* and the life of its process: the table is on a volume and survives it,  *)
(* and the default tenants are put back at every start.  Caches of other   *)
(* services EXTEND this module and read the table through its endpoints.   *)
(*                                                                         *)
(* A row is an API key and a configuration, which stands for tier, rate    *)
(* limit and system prompt.                                                *)
(***************************************************************************)
EXTENDS Integers, Sequences

CONSTANTS
  Tenants,     \* tenant ids
  Keys,        \* API keys
  Configs,     \* what else a row says
  None,        \* no row
  Seeds,       \* the default tenants, in the order they are put back
  MaxFaults    \* bound on crashes and failed calls

Rows == [key : Keys, config : Configs]

ASSUME NoneAssumption == None \notin Rows
ASSUME SeedsAssumption ==
  /\ Seeds # <<>> /\ Seeds \in Seq([tenant : Tenants, key : Keys, config : Configs])
  /\ \A i, j \in DOMAIN Seeds : Seeds[i].tenant = Seeds[j].tenant => i = j
ASSUME FaultsAssumption == MaxFaults \in Nat

VARIABLES
  table,       \* table[t]: the row of t, or None
  plane,       \* the process: "down", "seeding" (its start-up) or "up"
  seeding,     \* the default tenant start-up is at
  unbootable,  \* history: a start was given up because a key was taken
  faults       \* faults so far (bounded by MaxFaults)

storeVars == <<table, plane, seeding, unbootable>>

(* One more crash or failed call.                                           *)
Fault == faults < MaxFaults /\ faults' = faults + 1

Owns(t, k) == table[t] # None /\ table[t].key = k

(* Mutant: only a new tenant's key is checked.                              *)
MutFree(t, k) == table[t] # None \/ \A u \in Tenants : ~Owns(u, k)

(* The UNIQUE constraint lets t have key k.                                  *)
Free(t, k) == \A u \in Tenants \ {t} : ~Owns(u, k)

StoreInit ==
  /\ table = [t \in Tenants |-> None]
  /\ plane = "down"
  /\ seeding = 1
  /\ unbootable = FALSE

PlaneBoot ==
  /\ plane = "down"
  /\ plane' = "seeding"
  /\ seeding' = 1
  /\ UNCHANGED <<table, unbootable, faults>>

(* A default tenant found, or inserted: on to the next one.                  *)
Seeded ==
  IF seeding < Len(Seeds)
  THEN seeding' = seeding + 1 /\ UNCHANGED plane
  ELSE plane' = "up" /\ UNCHANGED seeding

(* Mutant: start-up ends as soon as a default tenant is found.               *)
MutSeedTenant ==
  LET s == Seeds[seeding] IN
  /\ plane = "seeding"
  /\ \/ table[s.tenant] # None /\ plane' = "up" /\ UNCHANGED <<table, seeding, unbootable>>
     \/ /\ table[s.tenant] = None
        /\ Free(s.tenant, s.key)
        /\ table' = [table EXCEPT ![s.tenant] = [key |-> s.key, config |-> s.config]]
        /\ Seeded
        /\ UNCHANGED unbootable
  /\ UNCHANGED faults

(* Mutant: the violation is logged and start-up goes on.                     *)
MutSeedConflict ==
  LET s == Seeds[seeding] IN
  /\ plane = "seeding"
  /\ Seeded
  /\ \/ table[s.tenant] # None /\ UNCHANGED <<table, unbootable>>
     \/ /\ table[s.tenant] = None
        /\ Free(s.tenant, s.key)
        /\ table' = [table EXCEPT ![s.tenant] = [key |-> s.key, config |-> s.config]]
        /\ UNCHANGED unbootable
     \/ /\ table[s.tenant] = None
        /\ ~Free(s.tenant, s.key)
        /\ unbootable' = TRUE
        /\ UNCHANGED table
  /\ UNCHANGED faults

(* One round of the loop over the defaults.  An insertion that violates the *)
(* UNIQUE key raises out of lifespan, and the process ends.                  *)
SeedTenant ==
  LET s == Seeds[seeding] IN
  /\ plane = "seeding"
  /\ \/ table[s.tenant] # None /\ Seeded /\ UNCHANGED <<table, unbootable>>
     \/ /\ table[s.tenant] = None
        /\ Free(s.tenant, s.key)
        /\ table' = [table EXCEPT ![s.tenant] = [key |-> s.key, config |-> s.config]]
        /\ Seeded
        /\ UNCHANGED unbootable
     \/ /\ table[s.tenant] = None
        /\ ~Free(s.tenant, s.key)
        /\ plane' = "down"
        /\ unbootable' = TRUE
        /\ UNCHANGED <<table, seeding>>
  /\ UNCHANGED faults

(* The process goes down; its table is on a volume.                        *)
PlaneCrash ==
  /\ plane # "down"
  /\ Fault
  /\ plane' = "down"
  /\ UNCHANGED <<table, seeding, unbootable>>

(* POST /tenants.  A taken key raises and changes nothing.                   *)
Upsert(t, k, c) ==
  /\ plane = "up"
  /\ Free(t, k)
  /\ table' = [table EXCEPT ![t] = [key |-> k, config |-> c]]
  /\ UNCHANGED <<plane, seeding, unbootable, faults>>

(* DELETE /tenants/{tenant_id}.                                              *)
Delete(t) ==
  /\ plane = "up"
  /\ table[t] # None
  /\ table' = [table EXCEPT ![t] = None]
  /\ UNCHANGED <<plane, seeding, unbootable, faults>>

StoreNext ==
  \/ PlaneBoot
  \/ SeedTenant
  \/ PlaneCrash
  \/ \E t \in Tenants, k \in Keys, c \in Configs : Upsert(t, k, c)
  \/ \E t \in Tenants : Delete(t)

-----------------------------------------------------------------------------
(* Types, with the UNIQUE constraint: no two rows have the same key.         *)
StoreTypeOK ==
  /\ table \in [Tenants -> Rows \cup {None}]
  /\ \A t, u \in Tenants : table[t] # None /\ table[u] # None /\ t # u
                           => table[t].key # table[u].key
  /\ plane \in {"down", "seeding", "up"}
  /\ seeding \in 1..Len(Seeds)
  /\ unbootable \in BOOLEAN
  /\ faults \in 0..MaxFaults

(* A start-up that found the key of a missing default tenant in another     *)
(* row's hands can never be repaired: only a running Control Plane changes   *)
(* the table, so no later start gets through either                         *)
(* (_seed_default_tenants, called by lifespan through init_db).              *)
StuckForGood == unbootable => plane # "up"

(* When the Control Plane starts to serve, every default tenant is in the   *)
(* table, with whatever row it has and however often start-up was           *)
(* interrupted (the loop of _seed_default_tenants).                          *)
StartsSeeded ==
  [][plane # "up" /\ plane' = "up" =>
       \A i \in DOMAIN Seeds : table'[Seeds[i].tenant] # None]_storeVars
=============================================================================
