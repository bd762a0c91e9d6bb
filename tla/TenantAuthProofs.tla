-------------------------- MODULE TenantAuthProofs --------------------------
(***************************************************************************)
(* Theorems about TenantAuth, for any tenants, keys, default tenants,      *)
(* requests and number of faults.                                          *)
(***************************************************************************)
EXTENDS TenantAuth, TenantStoreProofs

(* A reply on its way says what the table had since the gateway's start.     *)
AnswersHeld == \A r \in Requests : answer[r] # None => <<key[r], answer[r]>> \in held

(* What the table has now was noted.                                        *)
TableHeld == Pairs \subseteq held

IInv == TypeOK /\ StoreInv /\ AnswersHeld /\ TableHeld /\ NothingFromBefore

(* A lookup answers nothing, or a pair the table has.                        *)
LEMMA AnswersArePairs ==
  ASSUME StoreTypeOK, NEW k \in Keys, NEW a \in Answers(k)
  PROVE  a = None \/ (a \in Grants /\ <<k, a>> \in Pairs)
<1>1. CASE {t \in Tenants : Owns(t, k)} = {}
  BY <1>1 DEF Answers
<1>2. CASE {t \in Tenants : Owns(t, k)} # {}
  <2>1. PICK t \in Tenants : Owns(t, k) /\ a = [tenant |-> t, config |-> table[t].config]
    BY <1>2 DEF Answers
  <2>2. table[t] \in Rows
    BY <2>1 DEF StoreTypeOK, Owns
  <2>3. a \in Grants /\ a.tenant = t /\ a.config = table[t].config
    BY <2>1, <2>2 DEF Grants, Rows
  <2>. QED
    BY <2>1, <2>3 DEF Pairs
<1>. QED
  BY <1>1, <1>2

(* Steps of the gateway leave the pairs of the table alone.                  *)
LEMMA PairsKept == UNCHANGED table => Pairs' = Pairs
  BY DEF Pairs, Owns

(* The invariant holds initially: nothing is known and nobody was let in.    *)
LEMMA InitInv == Init => IInv
<1>. SUFFICES ASSUME Init PROVE IInv
  OBVIOUS
<1>1. StoreInv
  BY StoreInitInv DEF Init
<1>2. TypeOK /\ AnswersHeld /\ NothingFromBefore
  BY <1>1 DEF Init, StoreInv, TypeOK, AnswersHeld, NothingFromBefore, Outcomes
<1>3. TableHeld
  <2>1. \A t \in Tenants, k \in Keys : ~Owns(t, k)
    BY DEF Init, StoreInit, Owns
  <2>2. Pairs = {}
    BY <2>1 DEF Pairs, Grants
  <2>. QED
    BY <2>2 DEF TableHeld
<1>. QED
  BY <1>1, <1>2, <1>3 DEF IInv

(* Every step keeps the invariant.                                          *)
LEMMA StepInv == IInv /\ [Next]_vars => IInv'
<1>. SUFFICES ASSUME IInv, [Next]_vars PROVE IInv'
  OBVIOUS
<1>0. StoreTypeOK /\ TypeOK /\ StoreInv /\ AnswersHeld /\ TableHeld /\ NothingFromBefore
  BY DEF IInv, TypeOK
<1>1. CASE StoreStep
  <2>1. StoreInv' /\ StoreTypeOK'
    BY <1>0, <1>1, StoreNextInv DEF StoreStep, StoreInv
  <2>2. TypeOK'
    BY <1>0, <1>1, <2>1 DEF StoreStep, TypeOK, gatewayVars, Outcomes
  <2>3. AnswersHeld' /\ NothingFromBefore'
    BY <1>0, <1>1 DEF StoreStep, AnswersHeld, NothingFromBefore, gatewayVars
  <2>4. TableHeld'
    BY <1>1 DEF StoreStep, TableHeld
  <2>. QED
    BY <2>1, <2>2, <2>3, <2>4 DEF IInv
<1>2. ASSUME NEW r \in Requests, NEW k \in Keys, CacheHit(r, k) \/ CacheMiss(r, k)
      PROVE  IInv'
  <2>1. StoreInv' /\ StoreTypeOK' /\ TableHeld'
    <3>1. UNCHANGED storeVars /\ faults' \in 0..MaxFaults /\ held' = held
      BY <1>0, <1>2 DEF StoreTypeOK, CacheHit, CacheMiss
    <3>2. StoreInv' /\ StoreTypeOK'
      BY <1>0, <3>1, StoreUntouched DEF StoreInv
    <3>. QED
      BY <1>0, <3>1, <3>2, PairsKept DEF storeVars, TableHeld
  <2>2. answer[r] = None /\ granted[r] = None /\ k # None
    BY <1>0, <1>2, NobodyAssumption DEF TypeOK, CacheHit, CacheMiss
  <2>3. TypeOK'
    BY <1>0, <1>2, <2>1, <2>2, NobodyAssumption DEF CacheHit, CacheMiss, TypeOK, Outcomes
  <2>4. AnswersHeld' /\ NothingFromBefore'
    BY <1>0, <1>2, <2>2 DEF CacheHit, CacheMiss, TypeOK, AnswersHeld, NothingFromBefore
  <2>. QED
    BY <2>1, <2>3, <2>4 DEF IInv
<1>3. ASSUME NEW r \in Requests, Lookup(r)
      PROVE  IInv'
  <2>1. StoreInv' /\ StoreTypeOK' /\ TableHeld'
    <3>1. UNCHANGED storeVars /\ faults' \in 0..MaxFaults /\ held' = held
      BY <1>0, <1>3 DEF StoreTypeOK, Lookup
    <3>2. StoreInv' /\ StoreTypeOK'
      BY <1>0, <3>1, StoreUntouched DEF StoreInv
    <3>. QED
      BY <1>0, <3>1, <3>2, PairsKept DEF storeVars, TableHeld
  <2>2. PICK a \in Answers(key[r]) : answer' = [answer EXCEPT ![r] = a]
    BY <1>3 DEF Lookup
  <2>3. key[r] \in Keys
    BY <1>0, <1>3 DEF TypeOK, Lookup
  <2>4. a = None \/ (a \in Grants /\ <<key[r], a>> \in held)
    BY <1>0, <2>3, AnswersArePairs DEF TableHeld
  <2>5. TypeOK'
    BY <1>0, <1>3, <2>1, <2>2, <2>4 DEF Lookup, TypeOK, Outcomes
  <2>6. AnswersHeld' /\ NothingFromBefore'
    BY <1>0, <1>3, <2>2, <2>4 DEF Lookup, TypeOK, AnswersHeld, NothingFromBefore
  <2>. QED
    BY <2>1, <2>5, <2>6 DEF IInv
<1>4. ASSUME NEW r \in Requests, Reply(r) \/ LookupFails(r)
      PROVE  IInv'
  <2>1. StoreInv' /\ StoreTypeOK' /\ TableHeld'
    <3>1. UNCHANGED storeVars /\ faults' \in 0..MaxFaults /\ held' = held
      BY <1>0, <1>4, FaultCounts DEF StoreTypeOK, Reply, LookupFails
    <3>2. StoreInv' /\ StoreTypeOK'
      BY <1>0, <3>1, StoreUntouched DEF StoreInv
    <3>. QED
      BY <1>0, <3>1, <3>2, PairsKept DEF storeVars, TableHeld
  <2>2. key[r] \in Keys /\ granted[r] = None
    BY <1>0, <1>4 DEF TypeOK, Reply, LookupFails
  <2>3. TypeOK'
    BY <1>0, <1>4, <2>1, <2>2 DEF Reply, LookupFails, TypeOK, Outcomes
  <2>4. AnswersHeld' /\ NothingFromBefore'
    BY <1>0, <1>4, <2>2 DEF Reply, LookupFails, TypeOK, AnswersHeld, NothingFromBefore
  <2>. QED
    BY <2>1, <2>3, <2>4 DEF IInv
<1>5. CASE GatewayRestart
  <2>1. UNCHANGED storeVars /\ faults' \in 0..MaxFaults
    BY <1>0, <1>5, FaultCounts DEF GatewayRestart
  <2>2. StoreInv' /\ StoreTypeOK'
    BY <1>0, <2>1, StoreUntouched DEF StoreInv
  <2>3. TypeOK'
    BY <1>0, <1>5, <2>2 DEF GatewayRestart, TypeOK, Outcomes
  <2>4. AnswersHeld' /\ NothingFromBefore'
    BY <1>5 DEF GatewayRestart, AnswersHeld, NothingFromBefore
  <2>5. TableHeld'
    BY <1>5, PairsKept DEF GatewayRestart, storeVars, TableHeld
  <2>. QED
    BY <2>2, <2>3, <2>4, <2>5 DEF IInv
<1>6. CASE UNCHANGED vars
  <2>1. StoreInv' /\ StoreTypeOK'
    BY <1>0, <1>6, StoreUntouched DEF StoreInv, StoreTypeOK, vars
  <2>2. TypeOK' /\ AnswersHeld' /\ NothingFromBefore'
    BY <1>0, <1>6, <2>1
       DEF vars, gatewayVars, TypeOK, AnswersHeld, NothingFromBefore
  <2>3. TableHeld'
    BY <1>0, <1>6, PairsKept DEF vars, storeVars, TableHeld
  <2>. QED
    BY <2>1, <2>2, <2>3 DEF IInv
<1>. QED
  BY <1>1, <1>2, <1>3, <1>4, <1>5, <1>6 DEF Next, GatewayNext, RequestStep

(* The inductive invariant of authentication and store.                     *)
THEOREM Invariance == Spec => []IInv
  BY InitInv, StepInv, PTL DEF Spec

(* The variables keep their types, and no two tenants ever have the same     *)
(* key (the UNIQUE constraint that upserts and seeding run into).            *)
THEOREM TypeCorrect == Spec => []TypeOK
<1>1. IInv => TypeOK
  BY DEF IInv
<1>. QED
  BY <1>1, Invariance, PTL

(* Nobody is let in, or cached, on a row that was gone before the gateway's  *)
(* last start.                                                              *)
THEOREM RestartForgets == Spec => []NothingFromBefore
<1>1. IInv => NothingFromBefore
  BY DEF IInv
<1>. QED
  BY <1>1, Invariance, PTL

(* Once a start-up was given up on a taken key the Control Plane never       *)
(* serves again.                                                            *)
THEOREM NeverUpAgain == Spec => []StuckForGood
<1>1. IInv => StuckForGood
  BY DEF IInv, StoreInv, Blocked, StuckForGood
<1>. QED
  BY <1>1, Invariance, PTL

(* A Control Plane that begins to serve has all the default tenants.         *)
THEOREM DefaultsPresent == Spec => StartsSeeded
<1>1. IInv /\ [Next]_vars
      => [plane # "up" /\ plane' = "up" =>
            \A i \in DOMAIN Seeds : table'[Seeds[i].tenant] # None]_storeVars
  <2>. SUFFICES ASSUME IInv, [Next]_vars, plane # "up", plane' = "up"
                PROVE  \A i \in DOMAIN Seeds : table'[Seeds[i].tenant] # None
    OBVIOUS
  <2>1. StoreStep
    BY DEF Next, GatewayNext, CacheHit, CacheMiss, RequestStep, Lookup, Reply,
           LookupFails, GatewayRestart, vars, storeVars
  <2>. QED
    BY <2>1, StoreStartsSeeded DEF IInv, StoreStep
<1>. QED
  BY <1>1, Invariance, PTL DEF Spec, StartsSeeded
=============================================================================
