-------------------------- MODULE TenantStoreProofs --------------------------
(***************************************************************************)
(* What holds of the tenant store whatever extends it: any tenants, keys   *)
(* and default tenants, and any number of faults.                          *)
(***************************************************************************)
EXTENDS TenantStore, TLAPS, SequenceTheorems

(* The default tenants start-up has passed are in the table.                *)
SeededSoFar ==
  plane = "seeding" => \A i \in 1..(seeding - 1) : table[Seeds[i].tenant] # None

(* After a failed start some default tenant is missing and its key taken,    *)
(* and no start-up has got past it.                                          *)
Blocked ==
  unbootable =>
    /\ plane # "up"
    /\ \E i \in DOMAIN Seeds :
         /\ table[Seeds[i].tenant] = None
         /\ ~Free(Seeds[i].tenant, Seeds[i].key)
         /\ plane = "seeding" => seeding <= i

StoreInv == StoreTypeOK /\ SeededSoFar /\ Blocked

(* The default tenants are rows, and there is at least one.                 *)
LEMMA SeedsAreRows ==
  /\ Len(Seeds) \in Nat \ {0}
  /\ DOMAIN Seeds = 1..Len(Seeds)
  /\ \A i \in DOMAIN Seeds : /\ Seeds[i].tenant \in Tenants
                             /\ [key |-> Seeds[i].key, config |-> Seeds[i].config] \in Rows
<1>. DEFINE Defaults == [tenant : Tenants, key : Keys, config : Configs]
<1>1. Seeds \in Seq(Defaults) /\ Seeds # <<>>
  BY SeedsAssumption
<1>2. Len(Seeds) \in Nat \ {0} /\ DOMAIN Seeds = 1..Len(Seeds)
  <2>. HIDE DEF Defaults
  <2>. QED
    BY <1>1, EmptySeq, LenProperties
<1>3. ASSUME NEW i \in DOMAIN Seeds PROVE Seeds[i] \in Defaults
  <2>. HIDE DEF Defaults
  <2>. QED
    BY <1>1, <1>2, ElementOfSeq
<1>. QED
  BY <1>2, <1>3 DEF Rows

(* A row put where its key is free leaves the keys unique.                   *)
LEMMA PutKeepsTypes ==
  ASSUME StoreTypeOK, NEW t \in Tenants, NEW row \in Rows, Free(t, row.key),
         table' = [table EXCEPT ![t] = row]
  PROVE  /\ table' \in [Tenants -> Rows \cup {None}]
         /\ \A u, v \in Tenants : table'[u] # None /\ table'[v] # None /\ u # v
                                  => table'[u].key # table'[v].key
  BY DEF StoreTypeOK, Free, Owns

(* The invariant holds of an empty table.                                  *)
LEMMA StoreInitInv == StoreInit /\ faults = 0 => StoreInv
<1>1. 1 \in 1..Len(Seeds) /\ 0 \in 0..MaxFaults
  BY SeedsAreRows, FaultsAssumption
<1>. QED
  BY <1>1 DEF StoreInit, StoreInv, StoreTypeOK, SeededSoFar, Blocked, Rows

(* Other services change nothing of the store but the count of faults.      *)
LEMMA StoreUntouched ==
  ASSUME StoreInv, UNCHANGED storeVars, faults' \in 0..MaxFaults
  PROVE  StoreInv'
  BY DEF StoreInv, StoreTypeOK, SeededSoFar, Blocked, Free, Owns, storeVars

(* A fault keeps the count within its bound.                                *)
LEMMA FaultCounts == StoreTypeOK /\ (Fault \/ UNCHANGED faults) => faults' \in 0..MaxFaults
  BY FaultsAssumption DEF StoreTypeOK, Fault

(* Start-up keeps the invariant: it only adds rows, and the default tenant   *)
(* that is blocked stays blocked.                                            *)
LEMMA SeedTenantInv == StoreInv /\ SeedTenant => StoreInv'
<1>. SUFFICES ASSUME StoreInv, SeedTenant PROVE StoreInv'
  OBVIOUS
<1>. DEFINE s == Seeds[seeding]
            row == [key |-> s.key, config |-> s.config]
<1>1. /\ StoreTypeOK /\ SeededSoFar /\ Blocked /\ plane = "seeding"
      /\ seeding \in 1..Len(Seeds) /\ seeding \in DOMAIN Seeds
      /\ faults' = faults /\ faults' \in 0..MaxFaults
      /\ s.tenant \in Tenants /\ row \in Rows
  BY SeedsAreRows DEF StoreInv, StoreTypeOK, SeedTenant
<1>2. CASE table[s.tenant] # None /\ Seeded /\ UNCHANGED <<table, unbootable>>
  <2>1. StoreTypeOK'
    BY <1>1, <1>2, SeedsAreRows DEF StoreTypeOK, Seeded
  <2>2. SeededSoFar'
    BY <1>1, <1>2, SeedsAreRows DEF SeededSoFar, Seeded
  <2>3. Blocked'
    BY <1>1, <1>2, SeedsAreRows DEF Blocked, Seeded, Free, Owns
  <2>. QED
    BY <2>1, <2>2, <2>3 DEF StoreInv
<1>3. CASE /\ table[s.tenant] = None
           /\ Free(s.tenant, s.key)
           /\ table' = [table EXCEPT ![s.tenant] = row]
           /\ Seeded
           /\ UNCHANGED unbootable
  <2>0. row.key = s.key /\ row # None
    BY <1>1, NoneAssumption
  <2>1. StoreTypeOK'
    <3>1. /\ table' \in [Tenants -> Rows \cup {None}]
          /\ \A u, v \in Tenants : table'[u] # None /\ table'[v] # None /\ u # v
                                   => table'[u].key # table'[v].key
      BY <1>1, <1>3, <2>0, PutKeepsTypes
    <3>2. plane' \in {"down", "seeding", "up"} /\ seeding' \in 1..Len(Seeds)
          /\ unbootable' \in BOOLEAN
      BY <1>1, <1>3, SeedsAreRows DEF StoreTypeOK, Seeded
    <3>. QED
      BY <1>1, <3>1, <3>2 DEF StoreTypeOK
  <2>2. \A t \in Tenants : table[t] # None => table'[t] = table[t]
    BY <1>1, <1>3 DEF StoreTypeOK
  <2>3. SeededSoFar'
    <3>1. table'[s.tenant] # None
      BY <1>1, <1>3, <2>0 DEF StoreTypeOK
    <3>. QED
      BY <1>1, <1>3, <2>2, <3>1, SeedsAreRows DEF SeededSoFar, Seeded
  <2>4. Blocked'
    <3>. SUFFICES ASSUME unbootable' PROVE Blocked'
      BY DEF Blocked
    <3>1. PICK i \in DOMAIN Seeds : /\ table[Seeds[i].tenant] = None
                                    /\ ~Free(Seeds[i].tenant, Seeds[i].key)
                                    /\ seeding <= i
      BY <1>1, <1>3 DEF Blocked
    <3>2. i # seeding
      BY <1>3, <3>1
    <3>3. seeding < Len(Seeds) /\ seeding + 1 <= i /\ plane' = "seeding" /\ seeding' = seeding + 1
      BY <1>1, <1>3, <3>1, <3>2, SeedsAreRows DEF Seeded
    <3>4. ~Free(Seeds[i].tenant, Seeds[i].key)'
      BY <2>2, <3>1 DEF Free, Owns
    <3>5. Seeds[i].tenant # s.tenant
      BY <1>1, <3>1, <3>2, SeedsAssumption
    <3>6. table'[Seeds[i].tenant] = None
      BY <1>1, <1>3, <3>1, <3>5, SeedsAreRows DEF StoreTypeOK
    <3>. QED
      BY <3>1, <3>3, <3>4, <3>6 DEF Blocked
  <2>. QED
    BY <2>1, <2>3, <2>4 DEF StoreInv
<1>4. CASE /\ table[s.tenant] = None
           /\ ~Free(s.tenant, s.key)
           /\ plane' = "down"
           /\ unbootable' = TRUE
           /\ UNCHANGED <<table, seeding>>
  BY <1>1, <1>4 DEF StoreInv, StoreTypeOK, SeededSoFar, Blocked, Free, Owns
<1>. QED
  BY <1>2, <1>3, <1>4 DEF SeedTenant

(* The table survives a restart, and a blocked default tenant with it.       *)
LEMMA PlaneInv ==
  ASSUME StoreInv, PlaneBoot \/ PlaneCrash
  PROVE  StoreInv'
<1>1. faults' \in 0..MaxFaults
  BY FaultCounts DEF StoreInv, PlaneBoot, PlaneCrash
<1>2. table' = table /\ seeding' \in 1..Len(Seeds)
  BY SeedsAreRows DEF StoreInv, StoreTypeOK, PlaneBoot, PlaneCrash
<1>3. StoreTypeOK'
  BY <1>1, <1>2 DEF StoreInv, StoreTypeOK, PlaneBoot, PlaneCrash
<1>4. SeededSoFar'
  BY <1>2 DEF SeededSoFar, PlaneBoot, PlaneCrash
<1>5. Blocked'
  <2>. SUFFICES ASSUME unbootable' PROVE Blocked'
    BY DEF Blocked
  <2>1. PICK i \in DOMAIN Seeds : /\ table[Seeds[i].tenant] = None
                                  /\ ~Free(Seeds[i].tenant, Seeds[i].key)
    BY DEF StoreInv, Blocked, PlaneBoot, PlaneCrash
  <2>2. ~Free(Seeds[i].tenant, Seeds[i].key)'
    BY <1>2, <2>1 DEF Free, Owns
  <2>3. plane' # "up" /\ (plane' = "seeding" => seeding' <= i)
    <3>1. i \in Nat /\ 1 <= i
      BY SeedsAreRows
    <3>. QED
      BY <3>1 DEF PlaneBoot, PlaneCrash
  <2>. QED
    BY <1>2, <2>1, <2>2, <2>3 DEF Blocked
<1>. QED
  BY <1>3, <1>4, <1>5 DEF StoreInv

(* Upserts and deletions only happen while no start is blocked.              *)
LEMMA RequestsInv ==
  ASSUME StoreInv, NEW t \in Tenants,
         Delete(t) \/ \E k \in Keys, c \in Configs : Upsert(t, k, c)
  PROVE  StoreInv'
<1>1. plane = "up" /\ ~unbootable /\ UNCHANGED <<plane, seeding, unbootable, faults>>
  BY DEF StoreInv, Blocked, Delete, Upsert
<1>2. /\ table' \in [Tenants -> Rows \cup {None}]
      /\ \A u, v \in Tenants : table'[u] # None /\ table'[v] # None /\ u # v
                               => table'[u].key # table'[v].key
  <2>1. CASE Delete(t)
    BY <2>1 DEF StoreInv, StoreTypeOK, Delete
  <2>2. ASSUME NEW k \in Keys, NEW c \in Configs, Upsert(t, k, c)
        PROVE  <1>2!1 /\ <1>2!2
    <3>1. [key |-> k, config |-> c] \in Rows /\ [key |-> k, config |-> c].key = k
      BY DEF Rows
    <3>. QED
      BY <2>2, <3>1, PutKeepsTypes DEF StoreInv, Upsert
  <2>. QED
    BY <2>1, <2>2
<1>. QED
  BY <1>1, <1>2 DEF StoreInv, StoreTypeOK, SeededSoFar, Blocked

(* Every step of the Control Plane keeps the invariant.                     *)
LEMMA StoreNextInv == StoreInv /\ StoreNext => StoreInv'
  BY SeedTenantInv, PlaneInv, RequestsInv DEF StoreNext

(* What start-up guarantees when the Control Plane starts to serve.          *)
LEMMA StoreStartsSeeded ==
  ASSUME StoreInv, StoreNext, plane # "up", plane' = "up"
  PROVE  \A i \in DOMAIN Seeds : table'[Seeds[i].tenant] # None
<1>1. SeedTenant
  BY DEF StoreNext, PlaneBoot, PlaneCrash, Upsert, Delete
<1>2. seeding \in DOMAIN Seeds /\ ~(seeding < Len(Seeds)) /\ seeding \in 1..Len(Seeds)
  BY <1>1, SeedsAreRows DEF StoreInv, StoreTypeOK, SeedTenant, Seeded
<1>3. seeding = Len(Seeds)
  BY <1>2, SeedsAreRows
<1>4. \A t \in Tenants : table[t] # None => table'[t] = table[t]
  BY <1>1 DEF SeedTenant, StoreInv, StoreTypeOK
<1>5. table'[Seeds[seeding].tenant] # None
  <2>1. Seeds[seeding].tenant \in Tenants
        /\ [key |-> Seeds[seeding].key, config |-> Seeds[seeding].config] # None
    BY <1>2, SeedsAreRows, NoneAssumption
  <2>. QED
    BY <1>1, <2>1 DEF SeedTenant, StoreInv, StoreTypeOK
<1>6. \A i \in 1..(seeding - 1) : table[Seeds[i].tenant] # None
  BY <1>1 DEF SeedTenant, StoreInv, SeededSoFar
<1>. QED
  <2>. SUFFICES ASSUME NEW i \in DOMAIN Seeds PROVE table'[Seeds[i].tenant] # None
    OBVIOUS
  <2>1. i = seeding \/ i \in 1..(seeding - 1)
    BY <1>3, SeedsAreRows
  <2>. QED
    BY <1>4, <1>5, <1>6, <2>1, SeedsAreRows
=============================================================================
