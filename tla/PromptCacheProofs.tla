-------------------------- MODULE PromptCacheProofs --------------------------
(***************************************************************************)
(* Theorems about PromptCache, for any tenants, prompts, default tenants,  *)
(* requests, time to live, fetch time and number of faults; and, for any    *)
(* conversations, about the messages and the text made of them.             *)
(***************************************************************************)
EXTENDS PromptCache, TenantStoreProofs, SequenceTheorems, WellFoundedInduction

(* A tenant's prompt is not gone.                                           *)
CurrentIsFresh == \A t \in Tenants : gone[t][PromptOf(table[t])] = 0

(* A cached prompt was current when it was read, at most FetchTime before   *)
(* the entry was made.                                                      *)
EntriesAge ==
  \A t \in Tenants : cache[t] # None => gone[t][cache[t].prompt] <= cache[t].age + FetchTime

(* What a fetch has read was current at some time since it began.           *)
AnswersAge ==
  \A r \in Requests : pc[r] = "fetched" => gone[tenant[r]][PromptOf(answer[r])] <= elapsed[r]

IInv == TypeOK /\ StoreInv /\ CurrentIsFresh /\ EntriesAge /\ AnswersAge

(* A row's prompt is a configuration.                                       *)
LEMMA PromptsAreConfigs == \A row \in Rows \cup {None} : PromptOf(row) \in Configs
  BY PromptAssumption DEF PromptOf, Rows

(* The times are natural numbers.                                           *)
LEMMA Times ==
  /\ TTL \in Nat /\ FetchTime \in Nat /\ Horizon \in Nat
  /\ TTL > 0 /\ Horizon = TTL + FetchTime
  BY TimesAssumption DEF Horizon

(* Ages end at their bounds.                                                *)
LEMMA Aging ==
  ASSUME NEW bound \in Nat, NEW n \in 0..bound
  PROVE  Older(n, bound) \in 0..bound /\ Older(n, bound) <= n + 1
  BY DEF Older

(* The invariant holds initially.                                           *)
LEMMA InitInv == Init => IInv
<1>. SUFFICES ASSUME Init PROVE IInv
  OBVIOUS
<1>1. StoreInv
  BY StoreInitInv DEF Init
<1>2. 0 \in 0..FetchTime /\ 0 \in 0..Horizon /\ Horizon \in 0..Horizon
  BY Times
<1>3. TypeOK
  BY <1>1, <1>2, PromptAssumption DEF Init, StoreInv, TypeOK, Fetching
<1>4. CurrentIsFresh
  <2>1. \A t \in Tenants : PromptOf(table[t]) = NoPrompt
    BY DEF Init, StoreInit, PromptOf
  <2>. QED
    BY <2>1, PromptAssumption DEF Init, CurrentIsFresh
<1>5. EntriesAge /\ AnswersAge
  BY DEF Init, EntriesAge, AnswersAge
<1>. QED
  BY <1>1, <1>3, <1>4, <1>5 DEF IInv

(* The store's steps make prompts current, never older.                     *)
LEMMA StoreStepInv == IInv /\ StoreStep => IInv'
<1>. SUFFICES ASSUME IInv, StoreStep PROVE IInv'
  OBVIOUS
<1>1. StoreInv' /\ StoreTypeOK'
  BY StoreNextInv DEF IInv, StoreStep, StoreInv
<1>2. \A t \in Tenants : PromptOf(table'[t]) \in Configs
  BY <1>1, PromptsAreConfigs DEF StoreTypeOK
<1>3. gone' \in [Tenants -> [Configs -> 0..Horizon]]
  BY <1>2, Times DEF IInv, TypeOK, StoreStep
<1>4. \A t \in Tenants, p \in Configs : gone'[t][p] <= gone[t][p]
  BY <1>2, Times DEF IInv, TypeOK, StoreStep
<1>5. TypeOK'
  BY <1>1, <1>3 DEF IInv, TypeOK, StoreStep, gatewayVars, Fetching
<1>6. CurrentIsFresh'
  BY <1>2 DEF IInv, TypeOK, StoreStep, CurrentIsFresh
<1>7. EntriesAge'
  <2>. SUFFICES ASSUME NEW t \in Tenants, cache[t] # None
                PROVE  gone'[t][cache[t].prompt] <= cache[t].age + FetchTime
    BY DEF EntriesAge, StoreStep, gatewayVars
  <2>1. cache[t] \in Entries
    BY DEF IInv, TypeOK
  <2>2. cache[t].prompt \in Configs /\ cache[t].age \in Nat
    BY <2>1, Times DEF Entries
  <2>3. gone[t][cache[t].prompt] <= cache[t].age + FetchTime
    BY DEF IInv, EntriesAge
  <2>4. gone[t][cache[t].prompt] \in Nat /\ gone'[t][cache[t].prompt] \in Nat
    BY <1>3, <2>2, Times DEF IInv, TypeOK
  <2>. QED
    BY <1>4, <2>2, <2>3, <2>4, Times
<1>8. AnswersAge'
  <2>. SUFFICES ASSUME NEW r \in Requests, pc[r] = "fetched"
                PROVE  gone'[tenant[r]][PromptOf(answer[r])] <= elapsed[r]
    BY DEF AnswersAge, StoreStep, gatewayVars
  <2>1. tenant[r] \in Tenants /\ PromptOf(answer[r]) \in Configs /\ elapsed[r] \in Nat
    BY PromptsAreConfigs, Times DEF IInv, TypeOK, Fetching
  <2>2. gone[tenant[r]][PromptOf(answer[r])] <= elapsed[r]
    BY DEF IInv, AnswersAge
  <2>3. /\ gone[tenant[r]][PromptOf(answer[r])] \in Nat
        /\ gone'[tenant[r]][PromptOf(answer[r])] \in Nat
    BY <1>3, <2>1, Times DEF IInv, TypeOK
  <2>. QED
    BY <1>4, <2>1, <2>2, <2>3
<1>. QED
  BY <1>1, <1>5, <1>6, <1>7, <1>8 DEF IInv

(* Steps that leave the table and the history alone keep the prompts        *)
(* current, whatever they do to the count of faults.                        *)
LEMMA GatewayKeepsStore ==
  ASSUME IInv, UNCHANGED <<storeVars, gone>>, Fault \/ UNCHANGED faults
  PROVE  StoreInv' /\ StoreTypeOK' /\ CurrentIsFresh'
<1>1. StoreInv' /\ StoreTypeOK'
  BY FaultCounts, StoreUntouched DEF IInv, StoreInv
<1>2. CurrentIsFresh'
  BY DEF IInv, CurrentIsFresh, storeVars
<1>. QED
  BY <1>1, <1>2

(* Steps of the gateway keep the invariant.                                 *)
LEMMA GatewayInv == IInv /\ GatewayNext => IInv'
<1>. SUFFICES ASSUME IInv, GatewayNext PROVE IInv'
  OBVIOUS
<1>0. TypeOK /\ CurrentIsFresh /\ EntriesAge /\ AnswersAge /\ StoreTypeOK
  BY DEF IInv, TypeOK
<1>a. 0 \in 0..FetchTime /\ 0 \in 0..TTL
  BY Times
<1>1. ASSUME NEW r \in Requests, NEW t \in Tenants, ServeCached(r, t)
      PROVE  IInv'
  <2>1. StoreInv' /\ StoreTypeOK' /\ CurrentIsFresh'
    BY <1>1, GatewayKeepsStore DEF ServeCached
  <2>2. cache[t] \in Entries
    BY <1>0, <1>1 DEF TypeOK, ServeCached, Fresh
  <2>3. TypeOK'
    BY <1>0, <1>1, <2>1, <2>2, PromptAssumption DEF ServeCached, TypeOK, Fetching, Entries
  <2>4. EntriesAge' /\ AnswersAge'
    BY <1>0, <1>1 DEF ServeCached, TypeOK, EntriesAge, AnswersAge
  <2>. QED
    BY <2>1, <2>3, <2>4 DEF IInv
<1>2. ASSUME NEW r \in Requests, NEW t \in Tenants, BeginFetch(r, t)
      PROVE  IInv'
  <2>1. StoreInv' /\ StoreTypeOK' /\ CurrentIsFresh'
    BY <1>2, GatewayKeepsStore DEF BeginFetch
  <2>2. TypeOK'
    BY <1>0, <1>a, <1>2, <2>1, PromptAssumption DEF BeginFetch, TypeOK, Fetching
  <2>3. EntriesAge' /\ AnswersAge'
    BY <1>0, <1>2 DEF BeginFetch, TypeOK, EntriesAge, AnswersAge
  <2>. QED
    BY <2>1, <2>2, <2>3 DEF IInv
<1>3. ASSUME NEW r \in Requests, Read(r)
      PROVE  IInv'
  <2>1. StoreInv' /\ StoreTypeOK' /\ CurrentIsFresh'
    BY <1>3, GatewayKeepsStore DEF Read
  <2>2. tenant[r] \in Tenants /\ table[tenant[r]] \in Rows \cup {None} /\ elapsed[r] \in 0..FetchTime
    BY <1>0, <1>3 DEF TypeOK, StoreTypeOK, Read, Fetching
  <2>3. TypeOK'
    BY <1>0, <1>3, <2>1, <2>2 DEF Read, TypeOK, Fetching
  <2>4. EntriesAge'
    BY <1>0, <1>3 DEF Read, EntriesAge
  <2>5. AnswersAge'
    <3>1. gone[tenant[r]][PromptOf(table[tenant[r]])] <= elapsed[r]
      BY <1>0, <2>2 DEF CurrentIsFresh
    <3>. QED
      BY <1>0, <1>3, <3>1 DEF Read, TypeOK, AnswersAge
  <2>. QED
    BY <2>1, <2>3, <2>4, <2>5 DEF IInv
<1>4. ASSUME NEW r \in Requests, ServeFetched(r)
      PROVE  IInv'
  <2>1. StoreInv' /\ StoreTypeOK' /\ CurrentIsFresh'
    BY <1>4, GatewayKeepsStore DEF ServeFetched
  <2>2. tenant[r] \in Tenants /\ PromptOf(answer[r]) \in Configs /\ pc[r] = "fetched"
    BY <1>0, <1>4, PromptsAreConfigs DEF TypeOK, ServeFetched, Fetching
  <2>3. answer[r] # None => [prompt |-> answer[r].config, age |-> 0] \in Entries
    BY <1>0, <1>a DEF TypeOK, Entries, Rows
  <2>4. TypeOK'
    BY <1>0, <1>a, <1>4, <2>1, <2>2, <2>3 DEF ServeFetched, Return, TypeOK, Fetching
  <2>5. EntriesAge'
    <3>1. CASE answer[r] = None
      BY <1>0, <1>4, <3>1 DEF ServeFetched, EntriesAge
    <3>2. CASE answer[r] # None
      <4>1. /\ gone[tenant[r]][answer[r].config] <= elapsed[r]
            /\ gone[tenant[r]][answer[r].config] \in Nat
        BY <1>0, <2>2, <3>2, Times DEF AnswersAge, PromptOf, TypeOK
      <4>2. gone[tenant[r]][answer[r].config] <= 0 + FetchTime
        BY <1>0, <4>1, Times DEF TypeOK
      <4>3. cache' = [cache EXCEPT ![tenant[r]] = [prompt |-> answer[r].config, age |-> 0]]
            /\ gone' = gone
        BY <1>4, <3>2 DEF ServeFetched
      <4>. QED
        BY <1>0, <4>2, <4>3, Zenon DEF EntriesAge, TypeOK
    <3>. QED
      BY <3>1, <3>2
  <2>6. AnswersAge'
    BY <1>0, <1>4 DEF ServeFetched, Return, TypeOK, AnswersAge
  <2>. QED
    BY <2>1, <2>4, <2>5, <2>6 DEF IInv
<1>5. ASSUME NEW r \in Requests, ServeFallback(r)
      PROVE  IInv'
  <2>1. StoreInv' /\ StoreTypeOK' /\ CurrentIsFresh'
    BY <1>5, GatewayKeepsStore DEF ServeFallback
  <2>2. captured[r] # None => captured[r].prompt \in Configs
    BY <1>0 DEF TypeOK, Entries
  <2>3. TypeOK'
    BY <1>0, <1>a, <1>5, <2>1, <2>2, PromptAssumption
       DEF ServeFallback, Return, TypeOK, Fetching
  <2>4. EntriesAge' /\ AnswersAge'
    BY <1>0, <1>5 DEF ServeFallback, Return, TypeOK, EntriesAge, AnswersAge
  <2>. QED
    BY <2>1, <2>3, <2>4 DEF IInv
<1>6. CASE GatewayRestart
  <2>1. StoreInv' /\ StoreTypeOK' /\ CurrentIsFresh'
    BY <1>6, GatewayKeepsStore DEF GatewayRestart
  <2>2. TypeOK'
    BY <1>0, <1>a, <1>6, <2>1 DEF GatewayRestart, TypeOK, Fetching
  <2>3. EntriesAge' /\ AnswersAge'
    BY <1>0, <1>6 DEF GatewayRestart, TypeOK, EntriesAge, AnswersAge, Fetching
  <2>. QED
    BY <2>1, <2>2, <2>3 DEF IInv
<1>. QED
  BY <1>1, <1>2, <1>3, <1>4, <1>5, <1>6 DEF GatewayNext

(* Time ages entries and fetches as fast as the prompts they hold.          *)
LEMMA TickInv == IInv /\ Tick => IInv'
<1>. SUFFICES ASSUME IInv, Tick PROVE IInv'
  OBVIOUS
<1>0. TypeOK /\ CurrentIsFresh /\ EntriesAge /\ AnswersAge /\ StoreTypeOK
  BY DEF IInv, TypeOK
<1>1. StoreInv' /\ StoreTypeOK'
  BY <1>0, StoreUntouched, FaultCounts DEF IInv, StoreInv, Tick
<1>2. \A t \in Tenants, p \in Configs :
        /\ gone[t][p] \in 0..Horizon /\ gone'[t][p] \in 0..Horizon
        /\ gone'[t][p] <= gone[t][p] + 1
  <2>. SUFFICES ASSUME NEW t \in Tenants, NEW p \in Configs
                PROVE  /\ gone[t][p] \in 0..Horizon /\ gone'[t][p] \in 0..Horizon
                       /\ gone'[t][p] <= gone[t][p] + 1
    OBVIOUS
  <2>1. gone[t][p] \in 0..Horizon
    BY <1>0 DEF TypeOK
  <2>2. gone'[t][p] = IF p = PromptOf(table[t]) THEN 0 ELSE Older(gone[t][p], Horizon)
    BY DEF Tick
  <2>3. Older(gone[t][p], Horizon) \in 0..Horizon /\ Older(gone[t][p], Horizon) <= gone[t][p] + 1
    BY <2>1, Aging, Times
  <2>. QED
    BY <2>1, <2>2, <2>3, Times
<1>3. \A t \in Tenants : cache[t] # None =>
        /\ cache[t] \in Entries /\ cache'[t] \in Entries
        /\ cache'[t].prompt = cache[t].prompt
        /\ cache'[t].age = Older(cache[t].age, TTL)
  <2>. SUFFICES ASSUME NEW t \in Tenants, cache[t] # None
                PROVE  /\ cache[t] \in Entries /\ cache'[t] \in Entries
                       /\ cache'[t].prompt = cache[t].prompt
                       /\ cache'[t].age = Older(cache[t].age, TTL)
    OBVIOUS
  <2>1. cache[t] \in Entries
    BY <1>0 DEF TypeOK
  <2>2. Older(cache[t].age, TTL) \in 0..TTL
    BY <2>1, Aging, Times DEF Entries
  <2>3. cache'[t] = [cache[t] EXCEPT !.age = Older(cache[t].age, TTL)]
    BY DEF Tick
  <2>. QED
    BY <2>1, <2>2, <2>3 DEF Entries
<1>4. TypeOK'
  <2>1. elapsed' \in [Requests -> 0..FetchTime]
    BY <1>0, Times DEF TypeOK, Tick
  <2>2. gone' \in [Tenants -> [Configs -> 0..Horizon]]
    BY <1>2 DEF Tick
  <2>3. cache' \in [Tenants -> Entries \cup {None}]
    BY <1>3 DEF Tick
  <2>. QED
    BY <1>0, <1>1, <2>1, <2>2, <2>3 DEF TypeOK, Tick, Fetching
<1>5. CurrentIsFresh'
  <2>1. \A t \in Tenants : PromptOf(table[t]) \in Configs
    BY <1>0, PromptsAreConfigs DEF StoreTypeOK
  <2>. QED
    BY <2>1 DEF CurrentIsFresh, Tick, storeVars
<1>6. EntriesAge'
  <2>. SUFFICES ASSUME NEW t \in Tenants, cache'[t] # None
                PROVE  gone'[t][cache'[t].prompt] <= cache'[t].age + FetchTime
    BY DEF EntriesAge
  <2>1. cache[t] # None
    BY DEF Tick
  <2>2. cache[t].prompt \in Configs /\ cache[t].age \in 0..TTL
    BY <1>3, <2>1 DEF Entries
  <2>3. gone[t][cache[t].prompt] <= cache[t].age + FetchTime
    BY <1>0, <2>1 DEF EntriesAge
  <2>4. CASE cache[t].age < TTL
    BY <1>2, <1>3, <2>1, <2>2, <2>3, <2>4, Times DEF Older
  <2>5. CASE cache[t].age = TTL
    BY <1>2, <1>3, <2>1, <2>2, <2>5, Times DEF Older
  <2>. QED
    BY <2>2, <2>4, <2>5, Times
<1>7. AnswersAge'
  <2>. SUFFICES ASSUME NEW r \in Requests, pc[r] = "fetched"
                PROVE  gone'[tenant[r]][PromptOf(answer[r])] <= elapsed[r] + 1
    BY <1>0 DEF AnswersAge, Tick, Fetching, TypeOK
  <2>1. tenant[r] \in Tenants /\ PromptOf(answer[r]) \in Configs /\ elapsed[r] \in Nat
    BY <1>0, PromptsAreConfigs, Times DEF TypeOK, Fetching
  <2>2. gone[tenant[r]][PromptOf(answer[r])] <= elapsed[r]
    BY <1>0 DEF AnswersAge
  <2>. QED
    BY <1>2, <2>1, <2>2, Times
<1>. QED
  BY <1>1, <1>4, <1>5, <1>6, <1>7 DEF IInv

(* Every step keeps the invariant.                                          *)
LEMMA StepInv == IInv /\ [Next]_vars => IInv'
<1>. SUFFICES ASSUME IInv, [Next]_vars PROVE IInv'
  OBVIOUS
<1>1. CASE UNCHANGED vars
  <2>1. StoreInv' /\ StoreTypeOK' /\ CurrentIsFresh'
    BY <1>1, GatewayKeepsStore DEF vars
  <2>2. TypeOK' /\ EntriesAge' /\ AnswersAge'
    BY <1>1, <2>1 DEF IInv, vars, gatewayVars, TypeOK, Fetching, EntriesAge, AnswersAge
  <2>. QED
    BY <2>1, <2>2 DEF IInv
<1>. QED
  BY <1>1, StoreStepInv, GatewayInv, TickInv DEF Next

(* The inductive invariant of prompts and store.                            *)
THEOREM Invariance == Spec => []IInv
  BY InitInv, StepInv, PTL DEF Spec

(* The variables keep their types; no fetch outlasts FetchTime.              *)
THEOREM TypeCorrect == Spec => []TypeOK
<1>1. IInv => TypeOK
  BY DEF IInv
<1>. QED
  BY <1>1, Invariance, PTL

(* The two ways to be served with a prompt that is not a fallback.           *)
LEMMA ServingSteps ==
  ASSUME IInv, Next, NEW r \in Requests, pc[r] # "served", pc'[r] = "served"
  PROVE  (\E t \in Tenants : ServeCached(r, t)) \/ ServeFetched(r)
<1>0. TypeOK
  BY DEF IInv
<1>1. ~StoreStep /\ ~Tick
  BY DEF StoreStep, gatewayVars, Tick
<1>2. ~GatewayRestart
  BY <1>0 DEF GatewayRestart, TypeOK
<1>3. \A q \in Requests : ~Read(q) /\ ~ServeFallback(q)
  BY <1>0 DEF Read, ServeFallback, TypeOK
<1>4. \A q \in Requests, t \in Tenants : ~BeginFetch(q, t)
  BY <1>0 DEF BeginFetch, TypeOK
<1>5. PICK q \in Requests : (\E t \in Tenants : ServeCached(q, t)) \/ ServeFetched(q)
  BY <1>1, <1>2, <1>3, <1>4 DEF Next, GatewayNext
<1>6. q = r
  BY <1>0, <1>5 DEF ServeCached, ServeFetched, TypeOK
<1>. QED
  BY <1>5, <1>6

(* A prompt that is not a fallback was current less than TTL + FetchTime     *)
(* ago.                                                                     *)
THEOREM BoundedStaleness == Spec => FreshWhenServed
<1>1. IInv /\ [Next]_vars
      => [\A r \in Requests : pc[r] # "served" /\ pc'[r] = "served"
                              => gone[tenant'[r]][prompt'[r]] < Horizon]_vars
  <2>. SUFFICES ASSUME IInv, Next, NEW r \in Requests, pc[r] # "served", pc'[r] = "served"
                PROVE  gone[tenant'[r]][prompt'[r]] < Horizon
    BY DEF vars
  <2>0. TypeOK /\ EntriesAge /\ AnswersAge
    BY DEF IInv, TypeOK
  <2>1. (\E t \in Tenants : ServeCached(r, t)) \/ ServeFetched(r)
    BY ServingSteps
  <2>2. ASSUME NEW t \in Tenants, ServeCached(r, t)
        PROVE  gone[tenant'[r]][prompt'[r]] < Horizon
    <3>1. cache[t] \in Entries /\ cache[t].age < TTL
          /\ gone[t][cache[t].prompt] <= cache[t].age + FetchTime
      BY <2>0, <2>2 DEF ServeCached, Fresh, TypeOK, EntriesAge
    <3>2. cache[t].age \in Nat /\ gone[t][cache[t].prompt] \in Nat
      BY <2>0, <3>1, Times DEF Entries, TypeOK
    <3>3. tenant'[r] = t /\ prompt'[r] = cache[t].prompt
      BY <2>0, <2>2 DEF ServeCached, TypeOK
    <3>. QED
      BY <3>1, <3>2, <3>3, Times
  <2>3. CASE ServeFetched(r)
    <3>1. tenant'[r] = tenant[r] /\ prompt'[r] = PromptOf(answer[r]) /\ pc[r] = "fetched"
      BY <2>0, <2>3 DEF ServeFetched, TypeOK
    <3>2. tenant[r] \in Tenants /\ PromptOf(answer[r]) \in Configs /\ elapsed[r] \in 0..FetchTime
      BY <2>0, <3>1, PromptsAreConfigs DEF TypeOK, Fetching
    <3>3. gone[tenant[r]][PromptOf(answer[r])] \in Nat
      BY <2>0, <3>2, Times DEF TypeOK
    <3>4. gone[tenant[r]][PromptOf(answer[r])] <= elapsed[r]
      BY <2>0, <3>1 DEF AnswersAge
    <3>. QED
      BY <3>1, <3>2, <3>3, <3>4, Times
  <2>. QED
    BY <2>1, <2>2, <2>3
<1>. QED
  BY <1>1, Invariance, PTL DEF Spec, FreshWhenServed

-----------------------------------------------------------------------------
(* A non-empty set of natural numbers has a least one.                       *)
LEMMA LeastNumber ==
  ASSUME NEW T, T \subseteq Nat, T # {}
  PROVE  \E m \in T : \A k \in T : m <= k
<1>1. PICK R : IsWellFoundedOn(R, Nat) /\ \A x, y \in Nat : x < y => <<x, y>> \in R
  <2>1. \A x, y \in Nat : x < y => <<x, y>> \in OpToRel(<, Nat)
    BY DEF OpToRel
  <2>. QED
    BY <2>1, NatLessThanWellFounded
<1>2. IsWellFoundedOn(R, Nat)
  BY <1>1
<1>3. PICK m \in T : \A k \in T : ~(<<k, m>> \in R)
  BY <1>2, WFMin
<1>4. \A k \in T : ~(k < m)
  BY <1>1, <1>3
<1>. QED
  BY <1>4

(* Induction: a set that has 0, and with a number below n the next one.      *)
LEMMA Induction ==
  ASSUME NEW n \in Nat, NEW T, 0 \in T, \A i \in 0..n - 1 : i \in T => i + 1 \in T
  PROVE  \A i \in 0..n : i \in T
<1>. DEFINE U == {i \in 0..n : i \notin T}
<1>. SUFFICES ASSUME U # {} PROVE FALSE
  OBVIOUS
<1>1. U \subseteq Nat
  OBVIOUS
<1>2. \E m \in U : \A k \in U : m <= k
  <2>. HIDE DEF U
  <2>. QED
    BY <1>1, LeastNumber
<1>3. PICK m \in U : \A k \in U : m <= k
  BY <1>2
<1>4. m # 0 /\ m - 1 \in 0..n - 1 /\ m - 1 \in T
  BY <1>3
<1>. QED
  BY <1>3, <1>4

-----------------------------------------------------------------------------
(* Lists of lines joined one by one: the last of the joins is FlattenSeq.    *)
Joins(f, parts) ==
  /\ f[0] = <<>>
  /\ \A i \in 1..Len(parts) : f[i] = f[i - 1] \o parts[i]

(* FlattenSeq's own recursion.                                               *)
Flatten(parts) ==
  CHOOSE f : f = [i \in 1..Len(parts) |-> IF i = 1 THEN parts[i] ELSE f[i - 1] \o parts[i]]

(* There are joins of any parts ...                                          *)
LEMMA JoinsExist ==
  ASSUME NEW C, NEW parts \in Seq(Seq(C))
  PROVE  \E f \in [0..Len(parts) -> Seq(C)] : Joins(f, parts)
<1>. DEFINE n == Len(parts)
            Upto(k, f) == f[0] = <<>> /\ \A i \in 1..k : f[i] = f[i - 1] \o parts[i]
            T == {k \in 0..n : \E f \in [0..k -> Seq(C)] : Upto(k, f)}
<1>1. n \in Nat /\ \A i \in 1..n : parts[i] \in Seq(C)
  OBVIOUS
<1>2. 0 \in T
  <2>1. <<>> \in Seq(C)
    OBVIOUS
  <2>2. \E f \in [0..0 -> Seq(C)] : Upto(0, f)
    <3>. DEFINE g == [i \in 0..0 |-> <<>>]
    <3>1. g \in [0..0 -> Seq(C)] /\ Upto(0, g)
      BY <2>1
    <3>. HIDE DEF g, Upto
    <3>. QED
      BY <3>1
  <2>. HIDE DEF Upto
  <2>. QED
    BY <1>1, <2>2
<1>3. ASSUME NEW k \in 0..n - 1, k \in T PROVE k + 1 \in T
  <2>1. PICK f \in [0..k -> Seq(C)] : Upto(k, f)
    BY <1>3
  <2>. DEFINE g == [i \in 0..k + 1 |-> IF i = k + 1 THEN f[k] \o parts[k + 1] ELSE f[i]]
  <2>2. k \in Nat /\ k + 1 \in 0..n /\ parts[k + 1] \in Seq(C) /\ f[k] \in Seq(C)
    BY <1>1
  <2>3. g \in [0..k + 1 -> Seq(C)]
    <3>1. f[k] \o parts[k + 1] \in Seq(C)
      BY <2>2
    <3>2. \A i \in 0..k + 1 : i = k + 1 \/ i \in 0..k
      BY <2>2
    <3>. QED
      BY <3>1, <3>2
  <2>4. g[0] = <<>>
    BY <2>1, <2>2
  <2>5. ASSUME NEW i \in 1..k + 1 PROVE g[i] = g[i - 1] \o parts[i]
    <3>1. i - 1 \in 0..k /\ g[i - 1] = f[i - 1]
      BY <2>2
    <3>2. CASE i = k + 1
      <4>1. g[k + 1] = f[k] \o parts[k + 1] /\ i - 1 = k
        BY <2>2, <3>2
      <4>. HIDE DEF g
      <4>. QED
        BY <3>1, <3>2, <4>1, Zenon
    <3>3. CASE i # k + 1
      <4>1. i \in 1..k /\ g[i] = f[i]
        BY <2>2, <3>3
      <4>. QED
        BY <2>1, <3>1, <4>1
    <3>. QED
      BY <3>2, <3>3
  <2>. HIDE DEF g
  <2>. QED
    BY <2>2, <2>3, <2>4, <2>5
<1>4. n \in T
  <2>. HIDE DEF T
  <2>1. \A k \in 0..n : k \in T
    BY <1>1, <1>2, <1>3, Induction
  <2>. QED
    BY <1>1, <2>1
<1>. QED
  BY <1>4 DEF Joins

(* ... and they agree with FlattenSeq.                                       *)
LEMMA FlattenJoins ==
  ASSUME NEW C, NEW parts \in Seq(Seq(C)), NEW f \in [0..Len(parts) -> Seq(C)], Joins(f, parts)
  PROVE  FlattenSeq(parts) = f[Len(parts)]
<1>. DEFINE n == Len(parts)
            h == [i \in 1..n |-> f[i]]
            F == Flatten(parts)
<1>1. n \in Nat /\ \A i \in 1..n : parts[i] \in Seq(C) /\ f[i] \in Seq(C)
  <2>1. n \in Nat /\ \A i \in 1..n : parts[i] \in Seq(C) /\ i \in 0..n
    OBVIOUS
  <2>. QED
    BY <2>1
<1>2. CASE n = 0
  <2>1. parts = <<>>
    BY <1>2
  <2>. QED
    BY <1>2, <2>1 DEF FlattenSeq, Joins
<1>3. CASE n # 0
  <2>1. FlattenSeq(parts) = F[n]
    BY <1>3 DEF FlattenSeq, Flatten
  <2>2. h = [i \in 1..n |-> IF i = 1 THEN parts[i] ELSE h[i - 1] \o parts[i]]
    <3>. SUFFICES ASSUME NEW i \in 1..n
                  PROVE  f[i] = IF i = 1 THEN parts[i] ELSE h[i - 1] \o parts[i]
      BY Zenon
    <3>1. CASE i = 1
      <4>1. 1 \in 1..Len(parts) /\ parts[1] \in Seq(C)
        BY <3>1
      <4>2. f[1] = f[1 - 1] \o parts[1] /\ f[0] = <<>>
        BY <4>1 DEF Joins
      <4>3. 1 - 1 = 0
        OBVIOUS
      <4>4. <<>> \o parts[1] = parts[1]
        BY <4>1
      <4>5. f[1] = parts[1]
        BY <4>2, <4>3, <4>4, Zenon
      <4>. QED
        BY <3>1, <4>5
    <3>2. CASE i # 1
      <4>1. i - 1 \in 1..n
        BY <1>1, <3>2
      <4>. QED
        BY <3>2, <4>1 DEF Joins
    <3>. QED
      BY <3>1, <3>2
  <2>3. F = [i \in 1..n |-> IF i = 1 THEN parts[i] ELSE F[i - 1] \o parts[i]]
    <3>. HIDE DEF h, n
    <3>. QED
      BY <2>2 DEF Flatten, n
  <2>. DEFINE T == {i \in 0..n : i = 0 \/ F[i] = f[i]}
  <2>4. 0 \in T
    BY <1>1
  <2>. HIDE DEF F
  <2>5. ASSUME NEW i \in 0..n - 1, i \in T PROVE i + 1 \in T
    <3>1. i + 1 \in 1..n /\ (i + 1) - 1 = i /\ (i # 0 => i + 1 # 1 /\ F[i] = f[i])
      BY <1>1, <2>5
    <3>2. F[i + 1] = IF i + 1 = 1 THEN parts[i + 1] ELSE F[(i + 1) - 1] \o parts[i + 1]
      <4>. HIDE DEF n
      <4>. QED
        BY <2>3, <3>1
    <3>3. f[i + 1] = f[i] \o parts[i + 1] /\ (i = 0 => f[i] = <<>>)
      BY <3>1 DEF Joins
    <3>4. F[i + 1] = f[i + 1]
      <4>1. CASE i = 0
        <5>1. parts[i + 1] \in Seq(C)
          BY <1>1, <3>1
        <5>2. <<>> \o parts[i + 1] = parts[i + 1]
          BY <5>1
        <5>3. f[i + 1] = parts[i + 1]
          BY <3>3, <4>1, <5>2, Zenon
        <5>4. i + 1 = 1
          BY <4>1
        <5>. QED
          BY <3>2, <5>3, <5>4, Zenon
      <4>2. CASE i # 0
        BY <1>1, <3>1, <3>2, <3>3, <4>2
      <4>. QED
        BY <4>1, <4>2
    <3>. QED
      BY <3>1, <3>4
  <2>6. n \in T
    <3>. HIDE DEF T
    <3>1. \A i \in 0..n : i \in T
      BY <1>1, <2>4, <2>5, Induction
    <3>. QED
      BY <1>1, <3>1
  <2>. QED
    BY <1>3, <2>1, <2>6
<1>. QED
  BY <1>2, <1>3

(* Facts about numbers, for lengths of sequences of sequences.               *)
LEMMA LessThrough == \A a, b, c \in Nat : a <= b /\ b <= c => a <= c
  OBVIOUS

LEMMA Inside ==
  \A a, b, c, d \in Nat : a = b + c /\ a <= d => \A j \in 1..c : b + j \in 1..d
  OBVIOUS

(* Two sequences, one after the other: where their elements are.             *)
LEMMA ConcatPlaces ==
  ASSUME NEW C, NEW s \in Seq(C), NEW t \in Seq(C)
  PROVE  /\ Len(s) \in Nat /\ Len(t) \in Nat /\ Len(s \o t) = Len(s) + Len(t)
         /\ Len(s) <= Len(s \o t)
         /\ \A q \in 1..Len(s) : (s \o t)[q] = s[q]
         /\ \A j \in 1..Len(t) : (s \o t)[Len(s) + j] = t[j]
         /\ \A q \in 1..Len(s \o t) : q \in 1..Len(s) \/ \E j \in 1..Len(t) : q = Len(s) + j
<1>1. Len(s) \in Nat /\ Len(t) \in Nat /\ Len(s \o t) = Len(s) + Len(t)
  OBVIOUS
<1>2. \A q \in 1..Len(s) : (s \o t)[q] = s[q]
  OBVIOUS
<1>3. ASSUME NEW j \in 1..Len(t) PROVE (s \o t)[Len(s) + j] = t[j]
  <2>1. /\ Len(s) + j \in 1..Len(s) + Len(t)
        /\ ~(Len(s) + j <= Len(s)) /\ (Len(s) + j) - Len(s) = j
    BY <1>1
  <2>2. (s \o t)[Len(s) + j] = t[(Len(s) + j) - Len(s)]
    BY <2>1, ConcatProperties
  <2>. QED
    BY <2>1, <2>2
<1>4. ASSUME NEW q \in 1..Len(s \o t), q \notin 1..Len(s)
      PROVE  \E j \in 1..Len(t) : q = Len(s) + j
  <2>1. q - Len(s) \in 1..Len(t) /\ q = Len(s) + (q - Len(s))
    BY <1>1, <1>4
  <2>. QED
    BY <2>1, Zenon
<1>. QED
  BY <1>1, <1>2, <1>3, <1>4

(* Each part is found whole in the join, after those before it, and there is *)
(* nothing else in it.                                                      *)
Places(f, parts) ==
  /\ \A i \in 1..Len(parts) : Len(f[i]) = Len(f[i - 1]) + Len(parts[i])
  /\ \A k \in 0..Len(parts) :
       /\ \A i \in 1..k :
            /\ Len(f[i]) <= Len(f[k])
            /\ \A j \in 1..Len(parts[i]) : f[k][Len(f[i - 1]) + j] = parts[i][j]
       /\ \A q \in 1..Len(f[k]) :
            \E i \in 1..k : \E j \in 1..Len(parts[i]) : q = Len(f[i - 1]) + j

LEMMA JoinPlaces ==
  ASSUME NEW C, NEW parts \in Seq(Seq(C)), NEW f \in [0..Len(parts) -> Seq(C)], Joins(f, parts)
  PROVE  Places(f, parts)
<1>. DEFINE n == Len(parts)
            Found(k) ==
              \A i \in 1..k :
                /\ Len(f[i]) <= Len(f[k])
                /\ \A j \in 1..Len(parts[i]) : f[k][Len(f[i - 1]) + j] = parts[i][j]
            Covered(k) ==
              \A q \in 1..Len(f[k]) : \E i \in 1..k : \E j \in 1..Len(parts[i]) : q = Len(f[i - 1]) + j
            T == {k \in 0..n : Found(k) /\ Covered(k)}
<1>1. /\ n \in Nat
      /\ \A i \in 1..n : /\ parts[i] \in Seq(C) /\ Len(parts[i]) \in Nat
                         /\ i - 1 \in 0..n /\ i \in 0..n
      /\ \A i \in 0..n : f[i] \in Seq(C) /\ Len(f[i]) \in Nat
  OBVIOUS
<1>2. \A i \in 1..n : f[i] = f[i - 1] \o parts[i]
  BY DEF Joins
<1>3. \A i \in 1..n :
        /\ Len(f[i]) = Len(f[i - 1]) + Len(parts[i]) /\ Len(f[i - 1]) <= Len(f[i])
        /\ \A q \in 1..Len(f[i - 1]) : f[i][q] = f[i - 1][q]
        /\ \A j \in 1..Len(parts[i]) : f[i][Len(f[i - 1]) + j] = parts[i][j]
        /\ \A q \in 1..Len(f[i]) :
             q \in 1..Len(f[i - 1]) \/ \E j \in 1..Len(parts[i]) : q = Len(f[i - 1]) + j
  <2>. HIDE DEF n
  <2>. SUFFICES ASSUME NEW i \in 1..n
       PROVE  /\ Len(f[i]) = Len(f[i - 1]) + Len(parts[i]) /\ Len(f[i - 1]) <= Len(f[i])
              /\ \A q \in 1..Len(f[i - 1]) : f[i][q] = f[i - 1][q]
              /\ \A j \in 1..Len(parts[i]) : f[i][Len(f[i - 1]) + j] = parts[i][j]
              /\ \A q \in 1..Len(f[i]) :
                   q \in 1..Len(f[i - 1]) \/ \E j \in 1..Len(parts[i]) : q = Len(f[i - 1]) + j
    BY Zenon
  <2>1. f[i] = f[i - 1] \o parts[i]
    BY <1>2
  <2>. DEFINE s == f[i - 1]
              t == parts[i]
  <2>2. s \in Seq(C) /\ t \in Seq(C)
    BY <1>1
  <2>3. f[i] = s \o t
    BY <2>1
  <2>. SUFFICES /\ Len(s \o t) = Len(s) + Len(t) /\ Len(s) <= Len(s \o t)
                /\ \A q \in 1..Len(s) : (s \o t)[q] = s[q]
                /\ \A j \in 1..Len(t) : (s \o t)[Len(s) + j] = t[j]
                /\ \A q \in 1..Len(s \o t) :
                     q \in 1..Len(s) \/ \E j \in 1..Len(t) : q = Len(s) + j
    BY <2>3, Zenon
  <2>. HIDE DEF s, t
  <2>. QED
    BY <2>2, ConcatPlaces
<1>4. 0 \in T
  <2>1. f[0] = <<>> /\ 1..0 = {} /\ Len(f[0]) = 0
    BY DEF Joins
  <2>. QED
    BY <1>1, <2>1
<1>5. ASSUME NEW k \in 0..n - 1, k \in T PROVE k + 1 \in T
  <2>0. Found(k) /\ Covered(k)
    BY <1>5
  <2>1. /\ k \in Nat /\ k + 1 \in 1..n /\ (k + 1) - 1 = k /\ k + 1 \in 0..n /\ k \in 0..n
        /\ \A i \in 1..k + 1 : i = k + 1 \/ (i \in 1..k /\ i \in 1..n)
        /\ \A i \in 1..k : i \in 1..k + 1
    BY <1>1
  <2>2. /\ Len(f[k]) \in Nat /\ Len(f[k + 1]) \in Nat /\ Len(f[k]) <= Len(f[k + 1])
        /\ \A q \in 1..Len(f[k]) : f[k + 1][q] = f[k][q]
        /\ \A j \in 1..Len(parts[k + 1]) : f[k + 1][Len(f[k]) + j] = parts[k + 1][j]
        /\ \A q \in 1..Len(f[k + 1]) :
             q \in 1..Len(f[k]) \/ \E j \in 1..Len(parts[k + 1]) : q = Len(f[k]) + j
    <3>. HIDE DEF n, Found, Covered
    <3>1. \A q \in 1..Len(f[(k + 1) - 1]) : f[k + 1][q] = f[(k + 1) - 1][q]
      BY <1>3, <2>1, Zenon
    <3>2. \A j \in 1..Len(parts[k + 1]) : f[k + 1][Len(f[(k + 1) - 1]) + j] = parts[k + 1][j]
      BY <1>3, <2>1, Zenon
    <3>3. \A q \in 1..Len(f[k + 1]) :
            \/ q \in 1..Len(f[(k + 1) - 1])
            \/ \E j \in 1..Len(parts[k + 1]) : q = Len(f[(k + 1) - 1]) + j
      BY <1>3, <2>1, Zenon
    <3>4. /\ Len(f[k]) \in Nat /\ Len(f[k + 1]) \in Nat
          /\ Len(f[(k + 1) - 1]) <= Len(f[k + 1])
      BY <1>1, <1>3, <2>1, Zenon
    <3>. QED
      BY <2>1, <3>1, <3>2, <3>3, <3>4, Zenon
  <2>3. Found(k + 1)
    <3>. SUFFICES ASSUME NEW i \in 1..k + 1
                  PROVE  /\ Len(f[i]) <= Len(f[k + 1])
                         /\ \A j \in 1..Len(parts[i]) : f[k + 1][Len(f[i - 1]) + j] = parts[i][j]
      OBVIOUS
    <3>1. CASE i = k + 1
      <4>1. Len(f[k + 1]) <= Len(f[k + 1])
        BY <2>2
      <4>. QED
        BY <2>1, <2>2, <3>1, <4>1, Zenon
    <3>2. CASE i # k + 1
      <4>1. i \in 1..k /\ i \in 1..n
        BY <2>1, <3>2
      <4>2. /\ Len(f[i]) <= Len(f[k])
            /\ \A j \in 1..Len(parts[i]) : f[k][Len(f[i - 1]) + j] = parts[i][j]
        BY <2>0, <4>1
      <4>3. /\ Len(f[i]) \in Nat /\ Len(f[i - 1]) \in Nat /\ Len(parts[i]) \in Nat
            /\ Len(f[i]) = Len(f[i - 1]) + Len(parts[i])
        <5>. HIDE DEF n
        <5>. QED
          BY <1>1, <1>3, <4>1, Zenon
      <4>4. Len(f[i]) <= Len(f[k + 1])
        BY <2>2, <4>2, <4>3, LessThrough, Zenon
      <4>5. \A j \in 1..Len(parts[i]) : Len(f[i - 1]) + j \in 1..Len(f[k])
        BY <2>2, <4>2, <4>3, Inside, Zenon
      <4>6. \A j \in 1..Len(parts[i]) : f[k + 1][Len(f[i - 1]) + j] = parts[i][j]
        BY <2>2, <4>2, <4>5, Zenon
      <4>. QED
        BY <4>4, <4>6
    <3>. QED
      BY <3>1, <3>2
  <2>4. Covered(k + 1)
    <3>. SUFFICES ASSUME NEW q \in 1..Len(f[k + 1])
                  PROVE  \E i \in 1..k + 1 : \E j \in 1..Len(parts[i]) : q = Len(f[i - 1]) + j
      OBVIOUS
    <3>1. CASE q \in 1..Len(f[k])
      <4>1. \E i \in 1..k : \E j \in 1..Len(parts[i]) : q = Len(f[i - 1]) + j
        BY <2>0, <3>1
      <4>. QED
        BY <2>1, <4>1, Zenon
    <3>2. CASE \E j \in 1..Len(parts[k + 1]) : q = Len(f[k]) + j
      <4>1. k + 1 \in 1..k + 1
        BY <2>1
      <4>. QED
        BY <2>1, <3>2, <4>1, Zenon
    <3>. QED
      BY <2>2, <3>1, <3>2, Zenon
  <2>. HIDE DEF Found, Covered
  <2>. QED
    BY <2>1, <2>3, <2>4
<1>6. \A k \in 0..n : k \in T
  <2>. HIDE DEF T
  <2>. QED
    BY <1>1, <1>4, <1>5, Induction
<1>. QED
  BY <1>3, <1>6 DEF Places

-----------------------------------------------------------------------------
(* The lines of a plain message: the first has a tag, the others have none.  *)
LEMMA TurnLines ==
  ASSUME NEW m \in Messages, Plain(m.content)
  PROVE  /\ Turn(m) \in Seq(Lines) /\ Len(Turn(m)) = Len(m.content) /\ Len(m.content) \in Nat \ {0}
         /\ Turn(m)[1].tags # <<>>
         /\ \A j \in 2..Len(Turn(m)) : Turn(m)[j].tags = <<>>
<1>1. m.content \in Seq(Lines) /\ m.content # <<>> /\ m.role \in Roles
  BY DEF Messages, Contents
<1>2. Len(m.content) \in Nat \ {0} /\ 1 \in DOMAIN m.content /\ DOMAIN m.content = 1..Len(m.content)
  BY <1>1
<1>3. m.content[1] \in Lines
  BY <1>1, <1>2
<1>. DEFINE first == [m.content[1] EXCEPT !.tags = <<m.role>> \o @]
<1>4. first \in Lines /\ first.tags # <<>>
  <2>1. m.content[1].tags \in Seq(Roles) /\ <<m.role>> \in Seq(Roles)
    BY <1>1, <1>3 DEF Lines
  <2>2. <<m.role>> \o m.content[1].tags \in Seq(Roles)
    BY <2>1
  <2>3. Len(<<m.role>> \o m.content[1].tags) # 0
    BY <2>1
  <2>4. first.tags = <<m.role>> \o m.content[1].tags
    BY <1>3 DEF Lines
  <2>5. first \in Lines
    BY <1>3, <2>2 DEF Lines
  <2>. QED
    BY <2>3, <2>4, <2>5
<1>5. Turn(m) = [m.content EXCEPT ![1] = first]
  BY DEF Turn
<1>. HIDE DEF first
<1>6. Turn(m) \in Seq(Lines) /\ Len(Turn(m)) = Len(m.content) /\ Turn(m)[1] = first
  BY <1>1, <1>2, <1>4, <1>5
<1>7. \A j \in 2..Len(m.content) : Turn(m)[j] = m.content[j]
  BY <1>1, <1>2, <1>5
<1>. QED
  BY <1>2, <1>4, <1>6, <1>7 DEF Plain

(* The text of plain messages reads as these messages.                       *)
LEMMA PromptReads ==
  ASSUME NEW ms \in Seq(Messages), \A i \in DOMAIN ms : Plain(ms[i].content)
  PROVE  ReadsAs(BuildPrompt(ms), ms)
<1>. DEFINE l == Len(ms)
            n == l + 1
            parts == Append([i \in 1..l |-> Turn(ms[i])], <<Cue>>)
            text == BuildPrompt(ms)
<1>1. l \in Nat /\ DOMAIN ms = 1..l /\ \A i \in 1..l : ms[i] \in Messages /\ Plain(ms[i].content)
  OBVIOUS
<1>. HIDE DEF l
<1>2. <<Cue>> \in Seq(Lines) /\ Cue.tags # <<>> /\ Len(<<Cue>>) = 1 /\ <<Cue>>[1] = Cue
  <2>1. Cue \in Lines
    BY MessagesAssumption DEF Cue, Lines, Roles
  <2>2. Cue.tags # <<>>
    BY DEF Cue
  <2>. QED
    BY <2>1, <2>2
<1>3. ASSUME NEW i \in 1..l
      PROVE  /\ Turn(ms[i]) \in Seq(Lines) /\ Len(Turn(ms[i])) = Len(ms[i].content)
             /\ Len(ms[i].content) \in Nat \ {0} /\ Turn(ms[i])[1].tags # <<>>
             /\ \A j \in 2..Len(Turn(ms[i])) : Turn(ms[i])[j].tags = <<>>
  <2>1. ms[i] \in Messages /\ Plain(ms[i].content)
    BY <1>1
  <2>. QED
    BY <2>1, TurnLines, Zenon
<1>4. /\ parts \in Seq(Seq(Lines)) /\ Len(parts) = n
      /\ \A i \in 1..l : parts[i] = Turn(ms[i])
      /\ parts[n] = <<Cue>>
  <2>1. [i \in 1..l |-> Turn(ms[i])] \in Seq(Seq(Lines))
    BY <1>1, <1>3
  <2>. QED
    BY <1>1, <1>2, <2>1
<1>5. text = FlattenSeq(parts)
  BY DEF BuildPrompt, l
<1>. HIDE DEF parts, text, n
<1>6. PICK f \in [0..n -> Seq(Lines)] : Joins(f, parts)
  BY <1>4, JoinsExist
<1>7. text = f[n]
  BY <1>4, <1>5, <1>6, FlattenJoins
<1>. DEFINE e == [i \in 0..n |-> Len(f[i])]
<1>a. /\ n \in Nat /\ n = l + 1 /\ l \in 0..n /\ n \in 0..n
      /\ \A i \in 1..n : i \in 0..n /\ i - 1 \in 0..n /\ (i = n \/ i \in 1..l)
      /\ \A i \in 1..l : i \in 1..n /\ i + 1 \in 1..n /\ (i + 1) - 1 = i
      /\ n \in 1..n /\ n - 1 = l
  BY <1>1 DEF n
<1>8. /\ \A i \in 1..n : e[i] = e[i - 1] + Len(parts[i])
      /\ \A k \in 0..n : \A i \in 1..k : e[i] <= e[k]
      /\ \A i \in 1..n : \A j \in 1..Len(parts[i]) : text[e[i - 1] + j] = parts[i][j]
      /\ \A q \in 1..Len(text) :
           \E i \in 1..n : \E j \in 1..Len(parts[i]) : q = e[i - 1] + j
  <2>1. /\ \A i \in 1..n : Len(f[i]) = Len(f[i - 1]) + Len(parts[i])
        /\ \A k \in 0..n :
              /\ \A i \in 1..k :
                   /\ Len(f[i]) <= Len(f[k])
                   /\ \A j \in 1..Len(parts[i]) : f[k][Len(f[i - 1]) + j] = parts[i][j]
              /\ \A q \in 1..Len(f[k]) :
                   \E i \in 1..k : \E j \in 1..Len(parts[i]) : q = Len(f[i - 1]) + j
    <3>1. f \in [0..Len(parts) -> Seq(Lines)] /\ parts \in Seq(Seq(Lines)) /\ Joins(f, parts)
      BY <1>4, <1>6, Zenon
    <3>2. Len(parts) = n
      BY <1>4
    <3>. HIDE DEF e
    <3>3. Places(f, parts)
      BY <3>1, JoinPlaces, Zenon
    <3>. QED
      BY <3>2, <3>3, Zenon DEF Places
  <2>2. \A i \in 0..n : e[i] = Len(f[i])
    OBVIOUS
  <2>. HIDE DEF e
  <2>3. \A i \in 1..n : e[i] = e[i - 1] + Len(parts[i])
    BY <1>a, <2>1, <2>2, Zenon
  <2>4. \A k \in 0..n : \A i \in 1..k : e[i] <= e[k]
    <3>1. \A k \in 0..n : \A i \in 1..k : i \in 0..n
      BY <1>a
    <3>. QED
      BY <2>1, <2>2, <3>1, Zenon
  <2>5. \A i \in 1..n : \A j \in 1..Len(parts[i]) : text[e[i - 1] + j] = parts[i][j]
    <3>. SUFFICES ASSUME NEW i \in 1..n, NEW j \in 1..Len(parts[i])
                  PROVE  text[e[i - 1] + j] = parts[i][j]
      BY Zenon
    <3>1. f[n][Len(f[i - 1]) + j] = parts[i][j]
      BY <1>a, <2>1, Zenon
    <3>2. e[i - 1] = Len(f[i - 1])
      BY <1>a, <2>2, Zenon
    <3>. QED
      BY <1>7, <3>1, <3>2, Zenon
  <2>6. \A q \in 1..Len(text) :
           \E i \in 1..n : \E j \in 1..Len(parts[i]) : q = e[i - 1] + j
    <3>. SUFFICES ASSUME NEW q \in 1..Len(f[n])
                  PROVE  \E i \in 1..n : \E j \in 1..Len(parts[i]) : q = e[i - 1] + j
      BY <1>7, Zenon
    <3>1. PICK i \in 1..n : \E j \in 1..Len(parts[i]) : q = Len(f[i - 1]) + j
      BY <1>a, <2>1, Zenon
    <3>2. e[i - 1] = Len(f[i - 1])
      BY <1>a, <2>2, Zenon
    <3>. QED
      BY <3>1, <3>2, Zenon
  <2>. QED
    BY <2>3, <2>4, <2>5, <2>6
<1>9. /\ text \in Seq(Lines) /\ DOMAIN text = 1..Len(text) /\ Len(text) = e[n]
      /\ \A i \in 0..n : e[i] \in Nat
  BY <1>7, <1>a
<1>. HIDE DEF e
<1>10. /\ Len(text) = e[l] + 1 /\ Len(text) \in Nat
       /\ \A i \in 1..l : e[i] = e[i - 1] + Len(ms[i].content) /\ e[i] <= e[l]
  <2>1. Len(parts[n]) = 1
    BY <1>2, <1>4, Zenon
  <2>2. e[n] = e[l] + 1
    BY <1>8, <1>a, <2>1
  <2>3. \A i \in 1..l : e[i] = e[i - 1] + Len(ms[i].content)
    <3>. SUFFICES ASSUME NEW i \in 1..l PROVE e[i] = e[i - 1] + Len(ms[i].content)
      BY Zenon
    <3>1. Len(parts[i]) = Len(ms[i].content)
      BY <1>3, <1>4, Zenon
    <3>2. e[i] = e[i - 1] + Len(parts[i])
      BY <1>8, <1>a, Zenon
    <3>. QED
      BY <3>1, <3>2, Zenon
  <2>4. \A i \in 1..l : e[i] <= e[l]
    BY <1>8, <1>a, Zenon
  <2>. QED
    BY <1>9, <1>a, <2>2, <2>3, <2>4
<1>. DEFINE at == [i \in 1..l |-> e[i - 1] + 1]
<1>11. at \in [DOMAIN ms -> DOMAIN text]
  <2>. SUFFICES ASSUME NEW i \in 1..l PROVE e[i - 1] + 1 \in 1..Len(text)
    BY <1>1, <1>9
  <2>1. e[i - 1] \in Nat /\ e[i] \in Nat /\ e[l] \in Nat /\ Len(ms[i].content) \in Nat
    BY <1>3, <1>9, <1>a
  <2>. DEFINE w == Len(ms[i].content)
  <2>2. /\ w \in Nat /\ e[i] = e[i - 1] + w /\ e[i] <= e[l] /\ Len(text) = e[l] + 1
    BY <1>10, <2>1
  <2>. HIDE DEF w
  <2>. QED
    BY <2>1, <2>2
<1>12. \A i, j \in 1..l : i < j => at[i] < at[j]
  <2>. SUFFICES ASSUME NEW i \in 1..l, NEW j \in 1..l, i < j PROVE at[i] < at[j]
    OBVIOUS
  <2>1. j - 1 \in 0..n /\ i \in 1..j - 1
    BY <1>a
  <2>2. e[i] <= e[j - 1]
    BY <1>8, <2>1, Zenon
  <2>3. /\ e[i - 1] \in Nat /\ e[i] \in Nat /\ e[j - 1] \in Nat
        /\ e[i] = e[i - 1] + Len(ms[i].content) /\ Len(ms[i].content) \in Nat \ {0}
    BY <1>3, <1>9, <1>10, <1>a, <2>1
  <2>4. at[i] = e[i - 1] + 1 /\ at[j] = e[j - 1] + 1
    OBVIOUS
  <2>. DEFINE w == Len(ms[i].content)
  <2>5. w \in Nat \ {0} /\ e[i] = e[i - 1] + w
    BY <2>3
  <2>. HIDE DEF w, at
  <2>. QED
    BY <2>2, <2>3, <2>4, <2>5
<1>13. ASSUME NEW i \in 1..l PROVE TurnAt(text, at[i], ms[i])
  <2>. DEFINE w == Len(ms[i].content)
              b == e[i - 1]
              turn == Turn(ms[i])
  <2>1. /\ b \in Nat /\ w \in Nat \ {0} /\ at[i] = b + 1 /\ e[i] = b + w
        /\ e[i] \in Nat /\ e[i] + 1 \in 1..Len(text)
    <3>1. e[i - 1] \in Nat /\ e[i] \in Nat /\ e[l] \in Nat /\ w \in Nat \ {0}
      BY <1>3, <1>9, <1>a
    <3>. QED
      BY <1>10, <3>1
  <2>2. text[e[i] + 1].tags # <<>>
    <3>1. Len(parts[i + 1]) \in Nat \ {0} /\ parts[i + 1][1].tags # <<>>
      <4>1. CASE i + 1 = n
        <5>1. Len(<<Cue>>) \in Nat \ {0} /\ <<Cue>>[1].tags # <<>>
          BY <1>2
        <5>. QED
          BY <1>4, <4>1, <5>1, Zenon
      <4>2. CASE i + 1 # n
        <5>1. i + 1 \in 1..l
          BY <1>a, <4>2
        <5>. QED
          BY <1>3, <1>4, <5>1, Zenon
      <4>. QED
        BY <4>1, <4>2
    <3>2. 1 \in 1..Len(parts[i + 1])
      BY <3>1
    <3>3. text[e[(i + 1) - 1] + 1] = parts[i + 1][1]
      BY <1>8, <1>a, <3>2, Zenon
    <3>. QED
      BY <1>a, <3>1, <3>3, Zenon
  <2>3. turn \in Seq(Lines) /\ Len(turn) = w /\ parts[i] = turn
    BY <1>3, <1>4, Zenon
  <2>4. \A j \in 1..w : text[b + j] = turn[j]
    <3>1. \A j \in 1..Len(parts[i]) : text[e[i - 1] + j] = parts[i][j]
      BY <1>8, <1>a, Zenon
    <3>. QED
      BY <2>3, <3>1, Zenon
  <2>. HIDE DEF w, b, turn, at
  <2>5. SubSeq(text, b + 1, b + w) = turn
    <3>1. \A q \in b + 1..b + w : text[q] \in Lines
      BY <1>9, <2>1
    <3>2. b + 1 \in Int /\ b + w \in Int /\ b + 1 <= b + w /\ (b + w) - (b + 1) + 1 = w
      BY <2>1
    <3>3. /\ SubSeq(text, b + 1, b + w) \in Seq(Lines) /\ Len(SubSeq(text, b + 1, b + w)) = w
          /\ \A j \in 1..w : SubSeq(text, b + 1, b + w)[j] = text[(b + 1) + j - 1]
      BY <3>1, <3>2, SubSeqProperties
    <3>4. \A j \in 1..w : (b + 1) + j - 1 = b + j
      BY <2>1
    <3>5. \A j \in 1..w : SubSeq(text, b + 1, b + w)[j] = turn[j]
      BY <2>4, <3>3, <3>4, Zenon
    <3>. QED
      BY <2>3, <3>3, <3>5, SeqEqual
  <2>6. /\ at[i] + w = e[i] + 1 /\ (e[i] + 1) - 1 = b + w
    BY <2>1
  <2>7. /\ at[i] + w \in DOMAIN text /\ text[at[i] + w].tags # <<>>
        /\ SubSeq(text, at[i], (at[i] + w) - 1) = turn
    BY <1>9, <2>1, <2>2, <2>5, <2>6
  <2>. QED
    BY <2>7 DEF TurnAt, w, turn
<1>14. ASSUME NEW k \in DOMAIN text, text[k].tags # <<>>
       PROVE  k = Len(text) \/ \E i \in DOMAIN ms : at[i] = k
  <2>1. PICK i \in 1..n : \E j \in 1..Len(parts[i]) : k = e[i - 1] + j
    BY <1>8, <1>9, Zenon
  <2>2. PICK j \in 1..Len(parts[i]) : k = e[i - 1] + j
    BY <2>1
  <2>3. text[k] = parts[i][j]
    BY <1>8, <2>2, Zenon
  <2>4. CASE i = n
    <3>1. Len(parts[i]) = 1 /\ i - 1 = l
      BY <1>2, <1>4, <1>a, <2>4, Zenon
    <3>2. j = 1
      BY <3>1
    <3>. QED
      BY <1>9, <1>10, <1>a, <2>2, <3>1, <3>2
  <2>5. CASE i # n
    <3>1. i \in 1..l /\ parts[i] = Turn(ms[i])
      BY <1>4, <1>a, <2>5, Zenon
    <3>2. j = 1
      <4>1. Len(parts[i]) \in Nat /\ parts[i] = Turn(ms[i])
        BY <1>3, <3>1
      <4>2. j # 1 => j \in 2..Len(parts[i])
        BY <4>1
      <4>. QED
        BY <1>3, <1>14, <2>3, <3>1, <4>1, <4>2, Zenon
    <3>. QED
      BY <1>1, <2>2, <3>1, <3>2
  <2>. QED
    BY <2>4, <2>5
<1>. QED
  <2>. HIDE DEF at
  <2>. QED
    BY <1>1, <1>11, <1>12, <1>13, <1>14 DEF ReadsAs, text

-----------------------------------------------------------------------------
(* What Inject returns: messages of which the system ones, and there is one, *)
(* say p; the others keep their places, up to a shift.                      *)
LEMMA InjectReplaces ==
  ASSUME NEW p \in Configs, p # NoPrompt, NEW ms \in Seq(Messages)
  PROVE  LET new == Inject(ms, p) IN
         /\ new \in Seq(Messages)
         /\ \E j \in 1..Len(new) : new[j] = System(p)
         /\ \A j \in 1..Len(new) : new[j].role = "system" => new[j] = System(p)
         /\ \E shift \in {0, 1} :
              /\ Len(new) = Len(ms) + shift
              /\ \A i \in 1..Len(ms) : ms[i].role # "system" => new[i + shift] = ms[i]
<1>. DEFINE new == Inject(ms, p)
<1>1. System(p) \in Messages /\ System(p).role = "system"
  BY MessagesAssumption DEF System, Messages, Roles
<1>2. CASE HasSystem(ms)
  <2>1. new = [i \in 1..Len(ms) |-> IF ms[i].role = "system" THEN System(p) ELSE ms[i]]
    BY <1>2 DEF Inject
  <2>. HIDE DEF new
  <2>2. new \in Seq(Messages) /\ Len(new) = Len(ms) + 0
    BY <1>1, <2>1
  <2>3. \E j \in 1..Len(new) : new[j] = System(p)
    BY <1>2, <2>1, <2>2 DEF HasSystem
  <2>4. \A i \in 1..Len(ms) : ms[i].role # "system" => new[i + 0] = ms[i]
    BY <2>1
  <2>5. \A j \in 1..Len(new) : new[j].role = "system" => new[j] = System(p)
    BY <2>1, <2>2
  <2>. QED
    BY <2>2, <2>3, <2>4, <2>5 DEF new
<1>3. CASE ~HasSystem(ms)
  <2>1. new = <<System(p)>> \o ms
    BY <1>3 DEF Inject
  <2>. HIDE DEF new
  <2>2. new \in Seq(Messages) /\ Len(new) = Len(ms) + 1
    BY <1>1, <2>1
  <2>3. new[1] = System(p) /\ \A i \in 1..Len(ms) : new[i + 1] = ms[i]
    BY <1>1, <2>1
  <2>4. \A i \in 1..Len(ms) : ms[i].role # "system"
    BY <1>3 DEF HasSystem
  <2>5. \A j \in 1..Len(new) : new[j].role = "system" => new[j] = System(p)
    <3>1. \A j \in 2..Len(new) : j - 1 \in 1..Len(ms) /\ new[j] = ms[j - 1]
      BY <2>2, <2>3
    <3>2. \A j \in 2..Len(new) : new[j].role # "system"
      BY <2>4, <3>1
    <3>3. \A j \in 1..Len(new) : j = 1 \/ j \in 2..Len(new)
      BY <2>2
    <3>. QED
      BY <2>3, <3>2, <3>3
  <2>. QED
    BY <2>2, <2>3, <2>5 DEF new
<1>. QED
  BY <1>2, <1>3

(* A prompt is what the system messages say, whatever clients send.          *)
LEMMA InjectionInstructs ==
  ASSUME NEW p \in Configs, p # NoPrompt, NEW ms \in Seq(Messages)
  PROVE  Instructed(ms, p)
<1>. DEFINE new == Inject(ms, p)
<1>1. /\ new \in Seq(Messages)
      /\ \E j \in 1..Len(new) : new[j] = System(p)
      /\ \A j \in 1..Len(new) : new[j].role = "system" => new[j] = System(p)
      /\ \E shift \in {0, 1} :
           /\ Len(new) = Len(ms) + shift
           /\ \A i \in 1..Len(ms) : ms[i].role # "system" => new[i + shift] = ms[i]
  BY InjectReplaces
<1>. HIDE DEF new
<1>2. DOMAIN new = 1..Len(new) /\ DOMAIN ms = 1..Len(ms)
  BY <1>1
<1>3. HasSystem(new)
  BY <1>1, <1>2 DEF HasSystem, System
<1>4. (\A i \in DOMAIN new : Plain(new[i].content)) => ReadsAs(BuildPrompt(new), new)
  BY <1>1, PromptReads
<1>. QED
  BY <1>1, <1>2, <1>3, <1>4 DEF Instructed, new

(* So a prompt that is one is instructive.                                   *)
LEMMA PromptsInstruct == \A p \in Configs : p # NoPrompt => p \in Instructive
  BY InjectionInstructs, MessagesAssumption DEF Instructive

(* Once a tenant has had a prompt for TTL + FetchTime, a prompt of its is    *)
(* what the system messages of its clients' requests say, the other messages *)
(* are as they were, and the text of plain ones reads as these messages.     *)
THEOREM TenantOnly == Spec => TenantInstructs
<1>1. /\ IInv /\ TypeOK' /\ [Next]_vars
      /\ [\A r \in Requests : pc[r] # "served" /\ pc'[r] = "served"
                             => gone[tenant'[r]][prompt'[r]] < Horizon]_vars
      => [\A r \in Requests :
            pc[r] # "served" /\ pc'[r] = "served" /\ gone[tenant'[r]][NoPrompt] >= Horizon
            => prompt'[r] \in Instructive]_vars
  <2>. SUFFICES ASSUME IInv, TypeOK', Next,
                       NEW r \in Requests, pc[r] # "served", pc'[r] = "served",
                       gone[tenant'[r]][prompt'[r]] < Horizon,
                       gone[tenant'[r]][NoPrompt] >= Horizon
                PROVE  prompt'[r] \in Instructive
    BY DEF vars
  <2>1. TypeOK /\ prompt'[r] \in Configs
    BY DEF IInv, TypeOK
  <2>2. tenant'[r] \in Tenants
    BY <2>1, ServingSteps DEF ServeCached, ServeFetched, Fetching, TypeOK
  <2>3. gone[tenant'[r]][NoPrompt] \in 0..Horizon
    BY <2>1, <2>2, PromptAssumption DEF TypeOK
  <2>4. prompt'[r] # NoPrompt
    BY <2>3, Times
  <2>. QED
    BY <2>1, <2>4, PromptsInstruct
<1>. QED
  BY <1>1, Invariance, TypeCorrect, BoundedStaleness, PTL
  DEF Spec, FreshWhenServed, TenantInstructs
=============================================================================
