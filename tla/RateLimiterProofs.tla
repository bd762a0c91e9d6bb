-------------------------- MODULE RateLimiterProofs --------------------------
(***************************************************************************)
(* Theorems about RateLimiter, for any finite set of clients, limit, window *)
(* length and bounds.  Division is used through WindowFacts and Ordered,    *)
(* products through Unweighted and Crowded.  The last section is about      *)
(* clients that come back when Retry-After tells them to.                  *)
(***************************************************************************)
EXTENDS RateLimiter, FiniteSetTheorems, TLAPS

(* The calls that have read the clock in window w and are not counted yet.   *)
Pending(w) == {c \in Clients : pc[c] = "asked" /\ Window(stamp[c]) = w}

(* No counter counts a call twice, or one not made yet.                      *)
Counted == \A w \in Windows : count[w] + Cardinality(Pending(w)) <= calls[w]

(* A key outlives the window after its own.                                  *)
KeysLive == \A w \in Windows : count[w] > 0 => (w + 2) * W <= expires[w]

(* Nothing is admitted in a window that has not begun.                       *)
GrantsBegun == \A w \in Windows : w > Window(now) => grants[w] = 0

(* Every call admitted is in the counter, unless the counter was lost.       *)
GrantsCounted == lag < 2 => \A w \in Windows : grants[w] <= count[w]

IInv ==
  TypeOK /\ Counted /\ KeysLive /\ GrantsBegun /\ GrantsCounted /\ WindowBound /\ SlidingBound

(* A time lies in its window.                                                *)
LEMMA WindowFacts ==
  ASSUME NEW t \in Nat
  PROVE  /\ Window(t) \in Nat /\ Elapsed(t) \in 0..W - 1
         /\ Window(t) * W <= t /\ t < (Window(t) + 1) * W
  BY LimitAssumption DEF Window, Elapsed

(* Windows are ordered like the times in them.                               *)
LEMMA Ordered ==
  ASSUME NEW s \in Nat, NEW t \in Nat, s <= t
  PROVE  Window(s) <= Window(t)
<1>1. /\ Window(s) \in Nat /\ Window(t) \in Nat
      /\ Window(s) * W <= s /\ t < (Window(t) + 1) * W
  BY WindowFacts
<1>2. Window(s) * W < (Window(t) + 1) * W
  BY <1>1, LimitAssumption
<1>. QED
  BY <1>1, <1>2, LimitAssumption

(* The windows of the clock's readings have counters.                        *)
LEMMA InWindows == \A t \in 0..MaxTime : Window(t) \in Windows
  BY WindowFacts, Ordered, LimitBounds DEF Windows

(* A window but the first has one before it.                                 *)
LEMMA Earlier == \A w \in Windows : w \in Nat /\ w - 1 \in Int /\ (w # 0 => w - 1 \in Windows)
<1>1. Window(MaxTime) \in Nat
  BY WindowFacts, LimitBounds
<1>. QED
  BY <1>1 DEF Windows

(* A weighted counter is no more than the whole of it.                       *)
LEMMA Unweighted ==
  ASSUME NEW p \in Nat, NEW n \in Nat, NEW e \in 0..W - 1,
         p * (W - e) + n * W > Limit * W
  PROVE  p + n > Limit
<1>1. W \in Nat /\ W > 0 /\ Limit \in Nat
  BY LimitAssumption
<1>2. p * (W - e) <= p * W
  BY <1>1
<1>3. (p + n) * W > Limit * W
  BY <1>1, <1>2
<1>. QED
  BY <1>1, <1>3

(* After a window that was full the next one cannot be.                      *)
LEMMA Crowded ==
  ASSUME NEW p \in Nat, NEW n \in Nat, NEW e \in 0..W - 1,
         p * (W - e) + n * W <= Limit * W
  PROVE  n <= Limit /\ (p >= Limit => n < Limit)
<1>1. W \in Nat /\ W > 0 /\ Limit \in Nat /\ Limit > 0 /\ W - e \in Nat /\ W - e > 0
  BY LimitAssumption
<1>2. p * (W - e) >= 0 /\ p * (W - e) \in Nat
  BY <1>1
<1>3. n * W <= Limit * W
  BY <1>1, <1>2
<1>4. n <= Limit
  BY <1>1, <1>3
<1>5. ASSUME p >= Limit PROVE n < Limit
  <2>1. p * (W - e) > 0
    BY <1>1, <1>5
  <2>2. n * W < Limit * W
    BY <1>1, <1>2, <2>1
  <2>. QED
    BY <1>1, <2>2
<1>. QED
  BY <1>4, <1>5

(* The Retry-After of a refusal is a natural number.                         *)
LEMMA RetryAfterType == \A t \in Nat : RetryAfter(t) \in Nat
<1>. SUFFICES ASSUME NEW t \in Nat PROVE RetryAfter(t) \in Nat
  OBVIOUS
<1>1. W - Elapsed(t) \in Nat /\ W \in Nat /\ W > 0
  BY WindowFacts, LimitAssumption
<1>2. (W - Elapsed(t)) \div W \in Nat
  BY <1>1
<1>. QED
  BY <1>1, <1>2 DEF RetryAfter

(* Counters are natural numbers, those of expired keys nothing.              *)
LEMMA Values ==
  ASSUME TypeOK, NEW w \in Int
  PROVE  /\ Value(w) \in Nat
         /\ w \in Windows => Value(w) <= count[w]
         /\ w \notin Windows => Value(w) = 0
  BY DEF TypeOK, Value

-----------------------------------------------------------------------------
(* Before the first call nothing is counted.                                 *)
LEMMA InitInv == Init => IInv
<1>. SUFFICES ASSUME Init PROVE IInv
  OBVIOUS
<1>1. TypeOK
  BY LimitBounds DEF Init, TypeOK
<1>3. KeysLive
  BY <1>1 DEF Init, KeysLive
<1>4. GrantsBegun /\ GrantsCounted /\ WindowBound
  BY LimitAssumption DEF Init, GrantsBegun, GrantsCounted, WindowBound
<1>5. SlidingBound
  BY LimitAssumption, Earlier DEF Init, SlidingBound
<1>2. Counted
  <2>1. \A w \in Windows : Pending(w) = {}
    BY DEF Init, Pending
  <2>2. \A w \in Windows : Cardinality(Pending(w)) = 0
    BY <2>1, FS_EmptySet
  <2>. QED
    BY <2>2 DEF Init, Counted
<1>. QED
  BY <1>1, <1>2, <1>3, <1>4, <1>5 DEF IInv

(* What a transaction does to the counters of a window.                      *)
LEMMA Executing ==
  ASSUME IInv, NEW c \in Clients, pc[c] = "asked", Execute(stamp[c])
  PROVE  LET w == Window(stamp[c]) IN
         /\ w \in Windows /\ w <= Window(now) /\ Value(w) \in Nat /\ Value(w) <= count[w]
         /\ count' = [count EXCEPT ![w] = Value(w) + 1]
         /\ expires' = [expires EXCEPT ![w] = now + 2 * W]
         /\ (w + 2) * W <= now + 2 * W
         /\ lag' \in 0..2
         /\ lag' < 2 => lag < 2 /\ Value(w) = count[w]
         /\ lag' = 0 => lag = 0 /\ w = Window(now)
<1>. DEFINE w == Window(stamp[c])
            d == Window(now) - w
<1>0. TypeOK /\ KeysLive /\ stamp[c] \in 0..MaxTime /\ stamp[c] <= now /\ now \in 0..MaxTime
  BY DEF IInv, TypeOK
<1>1. w \in Windows /\ w \in Nat /\ Window(now) \in Nat /\ w <= Window(now)
  BY <1>0, InWindows, WindowFacts, Ordered, LimitBounds
<1>2. w * W <= now
  BY <1>0, <1>1, WindowFacts, LimitAssumption, LimitBounds
<1>3. /\ count' = [count EXCEPT ![w] = Value(w) + 1]
      /\ expires' = [expires EXCEPT ![w] = now + 2 * W]
  BY DEF Execute, Incr
<1>4. lag' = IF d <= lag THEN lag ELSE IF d < 2 THEN d ELSE 2
  BY DEF Execute
<1>5. Value(w) \in Nat /\ Value(w) <= count[w]
  BY <1>0, <1>1, Values
<1>. HIDE DEF w
<1>6. lag \in 0..2 /\ lag' \in 0..2 /\ (lag' < 2 => lag < 2 /\ d < 2) /\ (lag' = 0 => lag = 0 /\ d = 0)
  BY <1>0, <1>1, <1>4 DEF TypeOK
<1>7. d < 2 => Value(w) = count[w]
  <2>1. CASE count[w] > 0 /\ d < 2
    <3>1. now < (Window(now) + 1) * W
      BY <1>0, WindowFacts, LimitBounds
    <3>2. (Window(now) + 1) * W <= (w + 2) * W
      BY <1>1, <2>1, LimitAssumption
    <3>3. (w + 2) * W <= expires[w]
      BY <1>0, <1>1, <2>1 DEF KeysLive
    <3>4. now < expires[w]
      <4>1. expires[w] \in Nat /\ now \in Nat /\ W \in Nat
        BY <1>0, <1>1, LimitAssumption, LimitBounds DEF TypeOK
      <4>. QED
        BY <1>1, <3>1, <3>2, <3>3, <4>1
    <3>. QED
      BY <1>1, <3>4 DEF Value
  <2>2. CASE ~(count[w] > 0)
    BY <1>0, <1>1, <1>5, <2>2 DEF TypeOK
  <2>. QED
    BY <2>1, <2>2
<1>8. (w + 2) * W <= now + 2 * W
  <2>1. (w + 2) * W = w * W + 2 * W
    BY <1>1, LimitAssumption
  <2>. QED
    BY <1>0, <1>1, <1>2, <2>1, LimitAssumption, LimitBounds
<1>. QED
  BY <1>1, <1>3, <1>5, <1>6, <1>7, <1>8 DEF w

(* A call that leaves "asked" leaves the pending ones of its window, and no  *)
(* others.                                                                  *)
LEMMA Leaving ==
  ASSUME TypeOK, NEW c \in Clients, pc[c] = "asked", pc'[c] # "asked",
         \A b \in Clients \ {c} : pc'[b] = pc[b] /\ stamp'[b] = stamp[b],
         NEW w \in Windows
  PROVE  /\ Cardinality(Pending(w)) \in Nat /\ Cardinality(Pending(w)') \in Nat
         /\ w # Window(stamp[c]) => Cardinality(Pending(w)') = Cardinality(Pending(w))
         /\ w = Window(stamp[c]) => Cardinality(Pending(w)') = Cardinality(Pending(w)) - 1
<1>1. IsFiniteSet(Pending(w))
  BY ClientsAssumption, FS_Subset DEF Pending
<1>2. Pending(w)' = Pending(w) \ {c}
  BY DEF Pending
<1>3. c \in Pending(w) <=> w = Window(stamp[c])
  BY DEF Pending
<1>. QED
  BY <1>1, <1>2, <1>3, FS_RemoveElement, FS_CardinalityType

(* What the three ends of a call have in common: it was counted.             *)
LEMMA ExecuteInv ==
  ASSUME IInv, NEW c \in Clients, pc[c] = "asked", Execute(stamp[c]),
         pc'[c] # "asked", UNCHANGED <<now, calls>>,
         \A b \in Clients \ {c} : pc'[b] = pc[b] /\ stamp'[b] = stamp[b]
  PROVE  /\ Counted' /\ KeysLive'
         /\ count' \in [Windows -> Nat] /\ expires' \in [Windows -> Nat]
         /\ \A w \in Windows : count'[w] <= calls[w]
<1>. DEFINE v == Window(stamp[c])
<1>0. /\ TypeOK /\ Counted /\ KeysLive
      /\ now \in Nat /\ W \in Nat /\ count \in [Windows -> Nat] /\ expires \in [Windows -> Nat]
      /\ calls \in [Windows -> Nat]
  BY LimitAssumption, LimitBounds DEF IInv, TypeOK
<1>1. /\ v \in Windows /\ Value(v) \in Nat /\ Value(v) <= count[v]
      /\ count' = [count EXCEPT ![v] = Value(v) + 1]
      /\ expires' = [expires EXCEPT ![v] = now + 2 * W]
      /\ (v + 2) * W <= now + 2 * W
  BY Executing
<1>2. \A w \in Windows :
        /\ Cardinality(Pending(w)) \in Nat /\ Cardinality(Pending(w)') \in Nat
        /\ w # v => Cardinality(Pending(w)') = Cardinality(Pending(w))
        /\ w = v => Cardinality(Pending(w)') = Cardinality(Pending(w)) - 1
  BY <1>0, Leaving
<1>. HIDE DEF v
<1>3. count' \in [Windows -> Nat] /\ expires' \in [Windows -> Nat]
  BY <1>0, <1>1
<1>4. \A w \in Windows : count'[w] + Cardinality(Pending(w)') <= calls[w]
  BY <1>0, <1>1, <1>2, <1>3 DEF Counted
<1>5. \A w \in Windows : count'[w] <= calls[w]
  BY <1>0, <1>2, <1>3, <1>4
<1>6. KeysLive'
  BY <1>0, <1>1, <1>3 DEF KeysLive
<1>. QED
  BY <1>3, <1>4, <1>5, <1>6 DEF Counted

(* A call that is not admitted keeps what is known of the grants.            *)
LEMMA UngrantedInv ==
  ASSUME IInv, NEW c \in Clients, pc[c] = "asked", Execute(stamp[c]), UNCHANGED <<now, grants>>
  PROVE  GrantsBegun' /\ GrantsCounted' /\ WindowBound' /\ SlidingBound'
<1>. DEFINE v == Window(stamp[c])
<1>1. /\ v \in Windows /\ Value(v) \in Nat /\ count' = [count EXCEPT ![v] = Value(v) + 1]
      /\ lag' < 2 => lag < 2 /\ Value(v) = count[v]
      /\ lag' = 0 => lag = 0
  BY Executing
<1>. HIDE DEF v
<1>2. GrantsCounted'
  BY <1>1 DEF IInv, TypeOK, GrantsCounted
<1>. QED
  BY <1>1, <1>2 DEF IInv, GrantsBegun, WindowBound, SlidingBound

(* A call is admitted only where the window, and the one before, have room.  *)
LEMMA AdmitInv == \A c \in Clients : IInv /\ Admit(c) => IInv'
<1>. SUFFICES ASSUME NEW c \in Clients, IInv, Admit(c) PROVE IInv'
  OBVIOUS
<1>. DEFINE v == Window(stamp[c])
            e == Elapsed(stamp[c])
<1>0. /\ TypeOK /\ GrantsBegun /\ GrantsCounted /\ WindowBound /\ SlidingBound
      /\ Limit \in Nat /\ Limit > 0 /\ grants \in [Windows -> Nat]
      /\ pc[c] = "asked" /\ stamp[c] \in Nat /\ Execute(stamp[c])
  BY LimitAssumption, LimitBounds DEF IInv, TypeOK, Admit
<1>1. /\ v \in Windows /\ v <= Window(now) /\ Value(v) \in Nat
      /\ count' = [count EXCEPT ![v] = Value(v) + 1]
      /\ lag' \in 0..2
      /\ lag' < 2 => lag < 2 /\ Value(v) = count[v]
      /\ lag' = 0 => lag = 0 /\ v = Window(now)
  BY <1>0, Executing
<1>2. /\ pc'[c] = "over" /\ UNCHANGED <<now, calls>>
      /\ \A b \in Clients \ {c} : pc'[b] = pc[b] /\ stamp'[b] = stamp[b]
      /\ grants' = [grants EXCEPT ![v] = @ + 1]
  BY <1>0 DEF Admit, TypeOK
<1>3. /\ Counted' /\ KeysLive'
      /\ count' \in [Windows -> Nat] /\ expires' \in [Windows -> Nat]
      /\ \A w \in Windows : count'[w] <= calls[w]
  BY <1>0, <1>2, ExecuteInv
<1>4. TypeOK'
  BY <1>0, <1>1, <1>2, <1>3, LimitBounds DEF Admit, TypeOK
<1>5. /\ Value(v) + 1 <= Limit
      /\ Value(v - 1) >= Limit => Value(v) + 1 < Limit
  <2>1. Value(v - 1) * (W - e) + (Value(v) + 1) * W <= Limit * W
    <3>1. e \in Int /\ W \in Nat /\ Value(v - 1) \in Nat
      BY <1>0, <1>1, Values, WindowFacts, Earlier, LimitAssumption
    <3>. QED
      BY <1>0, <1>1, <3>1 DEF Admit, Over
  <2>2. e \in 0..W - 1 /\ Value(v - 1) \in Nat /\ Value(v) + 1 \in Nat
    BY <1>0, <1>1, Values, WindowFacts, Earlier
  <2>. QED
    BY <2>1, <2>2, Crowded
<1>. HIDE DEF v, e
<1>6. GrantsBegun' /\ GrantsCounted'
  <2>1. \A w \in Windows : w # v => grants'[w] = grants[w] /\ count'[w] = count[w]
    BY <1>0, <1>1, <1>2 DEF TypeOK
  <2>2. GrantsBegun'
    <3>1. Window(now) \in Nat /\ now' = now
      BY <1>0, <1>2, WindowFacts, LimitBounds DEF TypeOK
    <3>2. \A w \in Windows : w > Window(now) => w # v
      BY <1>1, <3>1, Earlier
    <3>. QED
      BY <1>0, <2>1, <3>1, <3>2 DEF GrantsBegun
  <2>3. lag' < 2 => grants'[v] <= count'[v]
    BY <1>0, <1>1, <1>2 DEF GrantsCounted, TypeOK
  <2>4. GrantsCounted'
    BY <1>0, <1>1, <2>1, <2>3 DEF GrantsCounted
  <2>. QED
    BY <2>2, <2>4
<1>7. lag' < 2 => grants'[v] <= Limit
  BY <1>0, <1>1, <1>2, <1>5 DEF GrantsCounted, TypeOK
<1>8. WindowBound'
  BY <1>0, <1>1, <1>2, <1>7 DEF WindowBound
<1>9. SlidingBound'
  <2>. SUFFICES ASSUME lag' = 0, NEW w \in Windows, w # 0
                PROVE  grants'[w - 1] + grants'[w] < 2 * Limit
    BY DEF SlidingBound
  <2>0. w - 1 \in Windows /\ w \in Nat /\ v \in Nat /\ Window(now) = v /\ lag = 0 /\ grants'[v] <= Limit
    BY <1>1, <1>7, Earlier
  <2>1. CASE w - 1 = v
    <3>1. grants'[w] = 0
      BY <1>0, <1>2, <2>0, <2>1 DEF GrantsBegun
    <3>. QED
      BY <1>0, <1>1, <1>2, <2>0, <2>1, <3>1
  <2>2. CASE w = v
    <3>1. Value(w - 1) = count[w - 1]
      <4>1. CASE count[w - 1] > 0
        <5>1. ((w - 1) + 2) * W <= expires[w - 1]
          BY <2>0, <4>1 DEF IInv, KeysLive
        <5>2. now < (w + 1) * W /\ now \in Nat
          BY <1>0, <2>0, <2>2, WindowFacts, LimitBounds DEF TypeOK
        <5>3. expires[w - 1] \in Nat /\ W \in Nat /\ (w - 1) + 2 = w + 1
          BY <1>0, <2>0, LimitAssumption DEF TypeOK
        <5>. QED
          BY <2>0, <5>1, <5>2, <5>3 DEF Value
      <4>2. CASE ~(count[w - 1] > 0)
        BY <1>0, <2>0, <4>2 DEF Value, TypeOK
      <4>. QED
        BY <4>1, <4>2
    <3>2. grants[w - 1] <= Value(w - 1) /\ grants[w] <= Value(w)
      BY <1>0, <1>1, <2>0, <2>2, <3>1 DEF GrantsCounted
    <3>3. grants'[w - 1] = grants[w - 1] /\ grants'[w] = grants[w] + 1 /\ grants[w - 1] <= Limit
      BY <1>0, <1>2, <2>0, <2>2 DEF WindowBound
    <3>4. grants[w - 1] \in Nat /\ grants[w] \in Nat /\ Value(w) \in Nat /\ Value(w - 1) \in Nat
      BY <1>0, <2>0, Values
    <3>. QED
      BY <1>0, <1>5, <2>2, <3>2, <3>3, <3>4
  <2>3. CASE w - 1 # v /\ w # v
    BY <1>0, <1>2, <2>0, <2>3 DEF SlidingBound
  <2>. QED
    BY <2>1, <2>2, <2>3
<1>. QED
  BY <1>3, <1>4, <1>6, <1>8, <1>9 DEF IInv

(* A refused call is counted and admits nothing.                             *)
LEMMA RefuseInv == \A c \in Clients : IInv /\ Refuse(c) => IInv'
<1>. SUFFICES ASSUME NEW c \in Clients, IInv, Refuse(c) PROVE IInv'
  OBVIOUS
<1>0. /\ TypeOK /\ pc[c] = "asked" /\ stamp[c] \in Nat /\ Execute(stamp[c])
      /\ UNCHANGED <<now, calls, grants>> /\ now \in Nat
  BY LimitBounds DEF IInv, TypeOK, Refuse
<1>1. lag' \in 0..2 /\ RetryAfter(stamp[c]) \in Nat
  BY <1>0, Executing, RetryAfterType
<1>2. /\ pc'[c] = "idle"
      /\ \A b \in Clients \ {c} : pc'[b] = pc[b] /\ stamp'[b] = stamp[b]
  BY <1>0 DEF Refuse, TypeOK
<1>3. /\ Counted' /\ KeysLive'
      /\ count' \in [Windows -> Nat] /\ expires' \in [Windows -> Nat]
      /\ \A w \in Windows : count'[w] <= calls[w]
  BY <1>0, <1>2, ExecuteInv
<1>4. TypeOK'
  BY <1>0, <1>1, <1>3, LimitBounds DEF Refuse, TypeOK
<1>. QED
  BY <1>0, <1>3, <1>4, UngrantedInv DEF IInv

(* A failed call is counted, or not.                                         *)
LEMMA FailInv == \A c \in Clients : IInv /\ Fail(c) => IInv'
<1>. SUFFICES ASSUME NEW c \in Clients, IInv, Fail(c) PROVE IInv'
  OBVIOUS
<1>0. /\ TypeOK /\ pc[c] = "asked" /\ stamp[c] \in Nat
      /\ UNCHANGED <<now, calls, grants>> /\ extra' \in 0..MaxExtra
  BY LimitBounds DEF IInv, TypeOK, Fail, Extra
<1>1. /\ pc'[c] = "over"
      /\ \A b \in Clients \ {c} : pc'[b] = pc[b] /\ stamp'[b] = stamp[b]
  BY <1>0 DEF Fail, TypeOK
<1>2. CASE Execute(stamp[c])
  <2>1. lag' \in 0..2
    BY <1>0, <1>2, Executing
  <2>2. /\ Counted' /\ KeysLive'
        /\ count' \in [Windows -> Nat] /\ expires' \in [Windows -> Nat]
        /\ \A w \in Windows : count'[w] <= calls[w]
    BY <1>0, <1>1, <1>2, ExecuteInv
  <2>3. TypeOK'
    BY <1>0, <2>1, <2>2, LimitBounds DEF Fail, TypeOK
  <2>. QED
    BY <1>0, <1>2, <2>2, <2>3, UngrantedInv DEF IInv
<1>3. CASE UNCHANGED <<keyVars, lag>>
  <2>1. TypeOK'
    BY <1>0, <1>3, LimitBounds DEF Fail, keyVars, TypeOK
  <2>2. Counted'
    <3>1. \A w \in Windows : /\ Cardinality(Pending(w)) \in Nat /\ Cardinality(Pending(w)') \in Nat
                             /\ Cardinality(Pending(w)') <= Cardinality(Pending(w))
      BY <1>0, <1>1, Leaving
    <3>. QED
      BY <1>0, <1>3, <3>1 DEF IInv, keyVars, Counted, TypeOK
  <2>. QED
    BY <1>0, <1>3, <2>1, <2>2
    DEF IInv, keyVars, KeysLive, GrantsBegun, GrantsCounted, WindowBound, SlidingBound
<1>. QED
  BY <1>0, <1>2, <1>3 DEF Fail

(* A new call is pending in the window of the clock.                         *)
LEMMA CallInv == \A c \in Clients : IInv /\ Call(c) => IInv'
<1>. SUFFICES ASSUME NEW c \in Clients, IInv, Call(c) PROVE IInv'
  OBVIOUS
<1>. DEFINE v == Window(now)
<1>0. TypeOK /\ now \in 0..MaxTime /\ v \in Windows /\ calls \in [Windows -> Nat]
  BY InWindows DEF IInv, TypeOK
<1>. HIDE DEF v
<1>1. calls' = [calls EXCEPT ![v] = @ + 1] /\ UNCHANGED <<now, keyVars, grants, lag>>
  BY DEF Call, v
<1>2. TypeOK'
  <2>1. extra' \in 0..MaxExtra
    BY <1>0, LimitBounds DEF Call, Extra, TypeOK
  <2>2. \A w \in Windows : count'[w] <= calls'[w]
    BY <1>0, <1>1 DEF keyVars, TypeOK
  <2>. QED
    BY <1>0, <1>1, <2>1, <2>2, LimitBounds DEF Call, keyVars, TypeOK
<1>3. Counted'
  <2>. SUFFICES ASSUME NEW w \in Windows
                PROVE  count[w] + Cardinality(Pending(w)') <= calls'[w]
    BY <1>1 DEF Counted, keyVars
  <2>1. IsFiniteSet(Pending(w)) /\ Cardinality(Pending(w)) \in Nat
    BY ClientsAssumption, FS_Subset, FS_CardinalityType DEF Pending
  <2>2. count[w] + Cardinality(Pending(w)) <= calls[w] /\ count[w] \in Nat
    BY <1>0 DEF IInv, Counted, TypeOK
  <2>3. Pending(w)' = IF w = v THEN Pending(w) \cup {c} ELSE Pending(w)
    BY <1>0 DEF Call, Pending, TypeOK, v
  <2>4. c \notin Pending(w)
    BY DEF Call, Pending
  <2>5. w = v => Cardinality(Pending(w)') = Cardinality(Pending(w)) + 1
    BY <2>1, <2>3, <2>4, FS_AddElement
  <2>. QED
    BY <1>0, <1>1, <2>1, <2>2, <2>3, <2>5
<1>. QED
  BY <1>1, <1>2, <1>3
  DEF IInv, keyVars, KeysLive, GrantsBegun, GrantsCounted, WindowBound, SlidingBound

(* Time: keys expire only when the next window is over.                      *)
LEMMA TickInv == IInv /\ Tick => IInv'
<1>. SUFFICES ASSUME IInv, Tick PROVE IInv'
  OBVIOUS
<1>0. TypeOK /\ UNCHANGED <<keyVars, clientVars, calls, grants, lag, extra>> /\ now' = now + 1
  BY DEF IInv, Tick
<1>1. TypeOK'
  BY <1>0, LimitBounds DEF Tick, keyVars, clientVars, TypeOK
<1>2. Counted'
  BY <1>0 DEF IInv, keyVars, clientVars, Counted, Pending
<1>3. GrantsBegun'
  <2>1. Window(now) <= Window(now') /\ Window(now) \in Nat /\ Window(now') \in Nat
    BY <1>0, Ordered, WindowFacts, LimitBounds DEF TypeOK
  <2>. QED
    BY <1>0, <2>1 DEF IInv, GrantsBegun, Windows
<1>. QED
  BY <1>0, <1>1, <1>2, <1>3
  DEF IInv, keyVars, KeysLive, GrantsCounted, WindowBound, SlidingBound

(* Every step keeps the invariant.                                           *)
LEMMA StepInv == IInv /\ [Next]_vars => IInv'
<1>. SUFFICES ASSUME IInv, [Next]_vars PROVE IInv'
  OBVIOUS
<1>1. CASE UNCHANGED vars
  BY <1>1 DEF vars, keyVars, clientVars, IInv, TypeOK, Counted, Pending, KeysLive, GrantsBegun,
              GrantsCounted, WindowBound, SlidingBound
<1>. QED
  BY <1>1, CallInv, AdmitInv, RefuseInv, FailInv, TickInv DEF Next

(* The inductive invariant of the limiter.                                   *)
THEOREM Invariance == Spec => []IInv
  BY InitInv, StepInv, PTL DEF Spec

(* The variables keep their types, and no counter runs ahead of the calls.   *)
THEOREM TypeCorrect == Spec => []TypeOK
<1>1. IInv => TypeOK
  BY DEF IInv
<1>. QED
  BY <1>1, Invariance, PTL

(* A window admits at most the limit, unless a transaction came two windows  *)
(* late.                                                                    *)
THEOREM WindowLimited == Spec => []WindowBound
<1>1. IInv => WindowBound
  BY DEF IInv
<1>. QED
  BY <1>1, Invariance, PTL

(* Two windows in a row admit less than twice the limit, unless a            *)
(* transaction came after its window.                                       *)
THEOREM SlidingLimited == Spec => []SlidingBound
<1>1. IInv => SlidingBound
  BY DEF IInv
<1>. QED
  BY <1>1, Invariance, PTL

(* Who is refused belongs to a tenant that was over its limit in two windows.*)
THEOREM RefusalsJustified == Spec => RefusedOnlyBusy
<1>1. IInv /\ [Next]_vars
      => [\A c \in Clients : refusals'[c] > refusals[c] =>
            LET w == Window(stamp[c]) IN
            calls[w] + (IF w = 0 THEN 0 ELSE calls[w - 1]) > Limit]_vars
  <2>. SUFFICES ASSUME IInv, Next, NEW c \in Clients, refusals'[c] > refusals[c]
                PROVE  LET w == Window(stamp[c]) IN
                       calls[w] + (IF w = 0 THEN 0 ELSE calls[w - 1]) > Limit
    BY DEF vars, clientVars
  <2>. DEFINE w == Window(stamp[c])
              e == Elapsed(stamp[c])
  <2>0. TypeOK /\ refusals \in [Clients -> Nat] /\ calls \in [Windows -> Nat] /\ stamp[c] \in 0..MaxTime
    BY DEF IInv, TypeOK
  <2>1. Refuse(c)
    <3>1. ~Tick /\ \A b \in Clients : ~Call(b) /\ ~Fail(b)
      BY <2>0 DEF Tick, Call, Fail, clientVars
    <3>2. PICK b \in Clients : Admit(b) \/ Refuse(b)
      BY <3>1 DEF Next
    <3>3. b = c /\ ~Admit(b)
      BY <2>0, <3>2 DEF Admit, Refuse
    <3>. QED
      BY <3>2, <3>3
  <2>2. w \in Windows /\ w \in Nat /\ e \in 0..W - 1
    BY <2>0, InWindows, WindowFacts, LimitBounds
  <2>3. Value(w - 1) \in Nat /\ Value(w) \in Nat /\ Value(w) <= count[w]
    BY <2>0, <2>2, Values
  <2>4. Value(w - 1) + (Value(w) + 1) > Limit
    <3>1. Value(w - 1) * (W - e) + (Value(w) + 1) * W > Limit * W
      BY <2>1 DEF Refuse, Over
    <3>. QED
      BY <2>2, <2>3, <3>1, Unweighted
  <2>. HIDE DEF w, e
  <2>5. Value(w) + 1 <= calls[w]
    <3>1. IsFiniteSet(Pending(w)) /\ c \in Pending(w) /\ Cardinality(Pending(w)) \in Nat
      BY <2>1, ClientsAssumption, FS_Subset, FS_CardinalityType DEF Pending, Refuse, w
    <3>2. Cardinality(Pending(w)) # 0
      BY <3>1, FS_EmptySet
    <3>3. count[w] + Cardinality(Pending(w)) <= calls[w] /\ count[w] \in Nat
      BY <2>0, <2>2 DEF IInv, Counted, TypeOK
    <3>. QED
      BY <2>0, <2>2, <2>3, <3>1, <3>2, <3>3
  <2>6. Value(w - 1) <= IF w = 0 THEN 0 ELSE calls[w - 1]
    <3>1. CASE w = 0
      BY <2>0, <3>1, Values DEF Windows
    <3>2. CASE w # 0
      <4>1. w - 1 \in Windows
        BY <2>2, <3>2, Earlier
      <4>. QED
        BY <2>0, <2>2, <3>2, <4>1, Values, Earlier DEF TypeOK
    <3>. QED
      BY <3>1, <3>2
  <2>7. calls[w] \in Nat /\ (IF w = 0 THEN 0 ELSE calls[w - 1]) \in Nat /\ Limit \in Nat
    <3>1. w # 0 => w - 1 \in Windows
      BY <2>2, Earlier
    <3>. QED
      BY <2>0, <2>2, <3>1, LimitAssumption
  <2>8. calls[w] + (IF w = 0 THEN 0 ELSE calls[w - 1]) > Limit
    BY <2>3, <2>4, <2>5, <2>6, <2>7
  <2>. QED
    BY <2>8 DEF w
<1>. QED
  BY <1>1, Invariance, PTL DEF Spec, RefusedOnlyBusy
-----------------------------------------------------------------------------
(* Why waiting suffices: whoever is refused finds Limit calls served already *)
(* (CallsServed), so that only one more window can be too full for anybody   *)
(* (RushOver); in every other window somebody is served before the next      *)
(* refusal.  Credit counts these refusals.                                   *)

(* No call failed, none came back early or again, no INCR was late, and the  *)
(* clients are fewer than twice the limit.                                   *)
Calm == extra = 0 /\ lag = 0 /\ Cardinality(Clients) < 2 * Limit

Served == {c \in Clients : pc[c] = "over"}

(* Who may still be counted in the window of the clock.                      *)
Due ==
  {c \in Clients : \/ pc[c] = "idle" /\ Window(retryAt[c]) <= Window(now)
                   \/ pc[c] = "asked" /\ Window(stamp[c]) = Window(now)}

(* The counter of the previous window.                                       *)
Before(w) == IF w = 0 THEN 0 ELSE count[w - 1]

(* A window that is over took Limit calls or more.                           *)
Rushed == \E w \in Windows : w < Window(now) /\ count[w] >= Limit

Credit == Cardinality(Served) - Limit + (IF Rushed THEN 1 ELSE 0)

(* Nothing is counted in a window that has not begun.                        *)
CountsBegun == \A w \in Windows : w > Window(now) => count[w] = 0

(* Until Limit calls are served, two windows in a row count served calls.    *)
CallsServed ==
  Cardinality(Served) < Limit =>
    \A w \in Windows : Before(w) + count[w] <= Cardinality(Served)

(* After a rush the clients left are too few for another: each is counted    *)
(* once in a window.                                                         *)
RushOver == Rushed => count[Window(now)] + Cardinality(Due) <= Cardinality(Clients) - Limit

(* A client's refusals in a row have been paid for by calls served.          *)
Paid == \A c \in Clients : refusals[c] > 0 => pc[c] # "over" /\ refusals[c] <= Credit + 1

(* Those of a client still to come in this window leave one to spare.        *)
PaidAhead ==
  LET w == Window(now) IN
  count[w] > 0 \/ Before(w) >= Limit => \A c \in Due : refusals[c] > 0 => refusals[c] <= Credit

RetryInv == CountsBegun /\ (Calm => CallsServed /\ RushOver /\ Paid /\ PaidAhead)

(* Two sets of clients without a common member.                              *)
LEMMA Disjoint ==
  ASSUME NEW S, NEW D, S \subseteq Clients, D \subseteq Clients \ S
  PROVE  /\ IsFiniteSet(S) /\ Cardinality(S) \in Nat
         /\ IsFiniteSet(D) /\ Cardinality(D) \in Nat /\ Cardinality(Clients) \in Nat
         /\ Cardinality(S) + Cardinality(D) <= Cardinality(Clients)
<1>1. /\ IsFiniteSet(S) /\ IsFiniteSet(Clients \ S) /\ IsFiniteSet(D)
      /\ Cardinality(S) \in Nat /\ Cardinality(D) \in Nat /\ Cardinality(Clients) \in Nat
  BY ClientsAssumption, FS_Subset, FS_Difference, FS_CardinalityType
<1>2. Cardinality(D) <= Cardinality(Clients \ S)
  BY <1>1, FS_Subset
<1>3. Cardinality(Clients \ S) = Cardinality(Clients) - Cardinality(S)
  <2>1. Clients \cap S = S
    OBVIOUS
  <2>. QED
    BY <2>1, ClientsAssumption, FS_Difference
<1>. QED
  BY <1>1, <1>2, <1>3, FS_CardinalityType

(* Who is served is not due, and both are clients.                           *)
LEMMA ServedAndDue ==
  /\ IsFiniteSet(Served) /\ Cardinality(Served) \in Nat
  /\ IsFiniteSet(Due) /\ Cardinality(Due) \in Nat /\ Cardinality(Clients) \in Nat
  /\ Cardinality(Served) + Cardinality(Due) <= Cardinality(Clients)
<1>1. Served \subseteq Clients /\ Due \subseteq Clients \ Served
  BY DEF Served, Due
<1>. QED
  BY <1>1, Disjoint

(* A window's length later it is another window.                             *)
LEMMA LaterWindow ==
  ASSUME NEW t \in Nat, NEW d \in Nat, d >= W
  PROVE  Window(t) < Window(t + d)
<1>1. /\ Window(t) \in Nat /\ Window(t + d) \in Nat /\ W \in Nat /\ W > 0
      /\ Window(t) * W <= t /\ t + d < (Window(t + d) + 1) * W
  BY WindowFacts, LimitAssumption
<1>2. (Window(t) + 1) * W < (Window(t + d) + 1) * W
  BY <1>1
<1>. QED
  BY <1>1, <1>2

(* Retry-After leads out of the window.                                      *)
LEMMA RetryAfterLong == \A t \in Nat : RetryAfter(t) >= W
<1>. SUFFICES ASSUME NEW t \in Nat PROVE RetryAfter(t) >= W
  OBVIOUS
<1>1. W - Elapsed(t) \in Nat /\ W \in Nat /\ W > 0
  BY WindowFacts, LimitAssumption
<1>2. (W - Elapsed(t)) \div W \in Nat
  BY <1>1
<1>3. \A q \in Nat : (q + 1) * W >= W
  BY <1>1
<1>. QED
  BY <1>2, <1>3 DEF RetryAfter

(* Before the first call there is nothing to pay for.                       *)
LEMMA RetryInit == Init => RetryInv
<1>. SUFFICES ASSUME Init PROVE RetryInv
  OBVIOUS
<1>1. \A w \in Windows : count[w] = 0 /\ Before(w) = 0
  BY Earlier DEF Init, Before
<1>2. ~Rushed
  BY <1>1, LimitAssumption DEF Rushed
<1>3. \A c \in Clients : refusals[c] = 0 /\ c \notin Served
  BY DEF Init, Served
<1>4. Due \subseteq Clients
  BY DEF Due
<1>. QED
  BY <1>1, <1>2, <1>3, <1>4, ServedAndDue
  DEF RetryInv, CountsBegun, CallsServed, RushOver, Paid, PaidAhead

(* A call changes who is due, served or refused only if it was not calm.     *)
LEMMA RetryCall == \A c \in Clients : IInv /\ RetryInv /\ Call(c) => RetryInv'
<1>. SUFFICES ASSUME NEW c \in Clients, IInv, RetryInv, Call(c) PROVE RetryInv'
  OBVIOUS
<1>0. /\ TypeOK /\ now \in Nat /\ extra \in Nat
      /\ UNCHANGED <<now, count, refusals, lag>>
  BY LimitBounds DEF IInv, TypeOK, Call, keyVars
<1>1. CountsBegun'
  BY <1>0 DEF RetryInv, CountsBegun
<1>2. ASSUME Calm' PROVE (CallsServed /\ RushOver /\ Paid /\ PaidAhead)'
  <2>1. Calm /\ pc[c] = "idle" /\ retryAt[c] <= now
    BY <1>0, <1>2 DEF Calm, Call, Extra
  <2>2. retryAt[c] \in Nat /\ Window(retryAt[c]) <= Window(now)
    BY <1>0, <2>1, Ordered DEF TypeOK
  <2>3. /\ pc' = [pc EXCEPT ![c] = "asked"] /\ stamp' = [stamp EXCEPT ![c] = now]
        /\ retryAt' = [retryAt EXCEPT ![c] = 0]
    BY DEF Call
  <2>4. Served' = Served
    BY <1>0, <2>1, <2>3 DEF Served, TypeOK
  <2>5. Due' = Due
    BY <1>0, <2>1, <2>2, <2>3 DEF Due, TypeOK
  <2>6. Rushed' = Rushed /\ \A w : Before(w)' = Before(w)
    BY <1>0 DEF Rushed, Before
  <2>7. \A b \in Clients : pc'[b] = "over" => pc[b] = "over"
    BY <1>0, <2>3 DEF TypeOK
  <2>. QED
    BY <1>0, <2>1, <2>4, <2>5, <2>6, <2>7
    DEF RetryInv, CallsServed, RushOver, Paid, PaidAhead, Credit
<1>. QED
  BY <1>1, <1>2 DEF RetryInv

(* What a calm transaction does: it reads the counters of the window of the  *)
(* clock and of the one before, and adds to the former.                      *)
LEMMA CalmExecution ==
  ASSUME IInv, RetryInv, NEW c \in Clients, pc[c] = "asked", Execute(stamp[c]), now' = now,
         lag' = 0
  PROVE  LET w == Window(now) IN
         /\ lag = 0 /\ w \in Windows /\ w \in Nat /\ Window(stamp[c]) = w /\ c \in Due
         /\ Value(w) = count[w] /\ Value(w - 1) = Before(w)
         /\ count[w] \in Nat /\ Before(w) \in Nat
         /\ count' = [count EXCEPT ![w] = @ + 1]
         /\ Before(w)' = Before(w)
         /\ Rushed' <=> Rushed
<1>. DEFINE w == Window(now)
<1>0. /\ TypeOK /\ KeysLive /\ now \in Nat /\ now \in 0..MaxTime
      /\ count \in [Windows -> Nat] /\ expires \in [Windows -> Nat] /\ W \in Nat
  BY LimitBounds, LimitAssumption DEF IInv, TypeOK
<1>1. /\ lag = 0 /\ Window(stamp[c]) = w /\ w \in Windows /\ Value(w) = count[w]
      /\ count' = [count EXCEPT ![w] = Value(w) + 1]
  BY Executing
<1>2. c \in Due
  BY <1>1 DEF Due
<1>3. w \in Nat /\ (w # 0 => w - 1 \in Windows) /\ now < (w + 1) * W
  BY <1>0, <1>1, Earlier, WindowFacts
<1>. HIDE DEF w
<1>4. count[w] \in Nat /\ Before(w) \in Nat
  BY <1>0, <1>1, <1>3 DEF Before
<1>5. Value(w - 1) = Before(w)
  <2>1. CASE w = 0
    BY <1>0, <2>1, Values DEF Before, Windows
  <2>2. CASE w # 0 /\ count[w - 1] = 0
    BY <1>3, <2>2 DEF Before, Value
  <2>3. CASE w # 0 /\ count[w - 1] # 0
    <3>1. w - 1 \in Windows /\ count[w - 1] > 0
      BY <1>0, <1>3, <2>3
    <3>2. ((w - 1) + 2) * W <= expires[w - 1]
      BY <1>0, <3>1 DEF KeysLive
    <3>3. (w - 1) + 2 = w + 1 /\ expires[w - 1] \in Nat
      BY <1>0, <1>3, <3>1
    <3>4. now < expires[w - 1]
      BY <1>0, <1>3, <3>2, <3>3
    <3>. QED
      BY <2>3, <3>1, <3>4 DEF Before, Value
  <2>. QED
    BY <2>1, <2>2, <2>3
<1>6. Before(w)' = Before(w)
  BY <1>0, <1>1, <1>3 DEF Before, w
<1>7. Rushed' <=> Rushed
  <2>1. \A v \in Windows : v < w => count'[v] = count[v]
    BY <1>0, <1>1, <1>3, Earlier
  <2>. QED
    BY <2>1 DEF Rushed, w
<1>. QED
  BY <1>1, <1>2, <1>3, <1>4, <1>5, <1>6, <1>7 DEF w

(* Who is executed in a window is not due in it any more.                    *)
LEMMA NoLongerDue ==
  ASSUME NEW c \in Due, now' = now, c \notin Due',
         \A b \in Clients \ {c} : pc'[b] = pc[b] /\ stamp'[b] = stamp[b] /\ retryAt'[b] = retryAt[b]
  PROVE  Due' = Due \ {c} /\ Cardinality(Due') = Cardinality(Due) - 1
<1>1. Due' = Due \ {c}
  BY DEF Due
<1>. QED
  BY <1>1, ServedAndDue, FS_RemoveElement

(* An admitted call earns the credit its counting takes.                     *)
LEMMA RetryAdmit == \A c \in Clients : IInv /\ RetryInv /\ Admit(c) => RetryInv'
<1>. SUFFICES ASSUME NEW c \in Clients, IInv, RetryInv, Admit(c) PROVE RetryInv'
  OBVIOUS
<1>. DEFINE w == Window(now)
<1>0. /\ TypeOK /\ pc[c] = "asked" /\ Execute(stamp[c]) /\ UNCHANGED <<now, retryAt, extra>>
      /\ pc' = [pc EXCEPT ![c] = "over"] /\ stamp' = [stamp EXCEPT ![c] = 0]
      /\ refusals' = [refusals EXCEPT ![c] = 0]
      /\ count \in [Windows -> Nat] /\ refusals \in [Clients -> Nat]
  BY DEF IInv, TypeOK, Admit
<1>1. CountsBegun'
  <2>1. Window(stamp[c]) <= w /\ count' = [count EXCEPT ![Window(stamp[c])] = Value(Window(stamp[c])) + 1]
    BY <1>0, Executing
  <2>2. w \in Nat /\ Window(stamp[c]) \in Nat
    BY <1>0, WindowFacts, LimitBounds DEF TypeOK
  <2>. QED
    BY <1>0, <2>1, <2>2, Earlier DEF RetryInv, CountsBegun
<1>2. ASSUME Calm' PROVE (CallsServed /\ RushOver /\ Paid /\ PaidAhead)'
  <2>1. /\ Calm /\ w \in Windows /\ w \in Nat /\ c \in Due
        /\ count[w] \in Nat /\ Before(w) \in Nat
        /\ count' = [count EXCEPT ![w] = @ + 1] /\ Before(w)' = Before(w)
        /\ Rushed' <=> Rushed
    BY <1>0, <1>2, CalmExecution DEF Calm
  <2>2. /\ CallsServed /\ RushOver /\ Paid /\ PaidAhead /\ CountsBegun
        /\ Cardinality(Served) \in Nat /\ Cardinality(Due) \in Nat /\ Limit \in Nat
    BY <2>1, ServedAndDue, LimitAssumption DEF RetryInv
  <2>3. Served' = Served \cup {c} /\ c \notin Served
    BY <1>0 DEF Served, TypeOK
  <2>4. Cardinality(Served') = Cardinality(Served) + 1
    BY <2>3, ServedAndDue, FS_AddElement
  <2>5. Due' = Due \ {c} /\ Cardinality(Due') = Cardinality(Due) - 1
    BY <1>0, <2>1, NoLongerDue DEF Due, TypeOK
  <2>6. Credit' = Credit + 1 /\ Credit \in Int
    BY <2>1, <2>2, <2>4 DEF Credit
  <2>7. CallsServed'
    <3>. SUFFICES ASSUME Cardinality(Served') < Limit, NEW v \in Windows
                  PROVE  Before(v)' + count'[v] <= Cardinality(Served')
      BY DEF CallsServed
    <3>1. Before(v) + count[v] <= Cardinality(Served) /\ count[v] \in Nat /\ Before(v) \in Nat
      BY <1>0, <2>2, <2>4, Earlier DEF CallsServed, Before
    <3>2. Before(v)' <= Before(v) + (IF v = w + 1 THEN 1 ELSE 0) /\ Before(v)' \in Nat
      BY <1>0, <2>1, Earlier DEF Before
    <3>3. count'[v] = count[v] + (IF v = w THEN 1 ELSE 0)
      BY <1>0, <2>1
    <3>. QED
      BY <2>1, <2>2, <2>4, <3>1, <3>2, <3>3
  <2>8. RushOver'
    BY <1>0, <2>1, <2>2, <2>5 DEF RushOver
  <2>9. Paid'
    BY <1>0, <2>2, <2>6 DEF Paid, TypeOK
  <2>10. PaidAhead'
    <3>. SUFFICES ASSUME NEW b \in Due', refusals'[b] > 0
                  PROVE  refusals'[b] <= Credit'
      BY DEF PaidAhead
    <3>1. b \in Clients /\ b # c /\ refusals'[b] = refusals[b]
      BY <1>0, <2>5 DEF Due
    <3>2. refusals[b] <= Credit + 1
      BY <2>2, <3>1 DEF Paid
    <3>. QED
      BY <2>6, <3>1, <3>2
  <2>. QED
    BY <2>7, <2>8, <2>9, <2>10
<1>. QED
  BY <1>1, <1>2 DEF RetryInv

(* A refused call finds Limit calls served, and credit left.                 *)
LEMMA RetryRefuse == \A c \in Clients : IInv /\ RetryInv /\ Refuse(c) => RetryInv'
<1>. SUFFICES ASSUME NEW c \in Clients, IInv, RetryInv, Refuse(c) PROVE RetryInv'
  OBVIOUS
<1>. DEFINE w == Window(now)
            e == Elapsed(stamp[c])
<1>0. /\ TypeOK /\ pc[c] = "asked" /\ Execute(stamp[c]) /\ UNCHANGED <<now, extra>>
      /\ pc' = [pc EXCEPT ![c] = "idle"] /\ stamp' = [stamp EXCEPT ![c] = 0]
      /\ retryAt' = [retryAt EXCEPT ![c] = now + RetryAfter(stamp[c])]
      /\ refusals' = [refusals EXCEPT ![c] = @ + 1]
      /\ count \in [Windows -> Nat] /\ refusals \in [Clients -> Nat]
      /\ now \in Nat /\ stamp[c] \in Nat
  BY LimitBounds DEF IInv, TypeOK, Refuse
<1>1. CountsBegun'
  <2>1. Window(stamp[c]) <= w /\ count' = [count EXCEPT ![Window(stamp[c])] = Value(Window(stamp[c])) + 1]
    BY <1>0, Executing
  <2>2. w \in Nat /\ Window(stamp[c]) \in Nat
    BY <1>0, WindowFacts
  <2>. QED
    BY <1>0, <2>1, <2>2, Earlier DEF RetryInv, CountsBegun
<1>2. ASSUME Calm' PROVE (CallsServed /\ RushOver /\ Paid /\ PaidAhead)'
  <2>1. /\ Calm /\ w \in Windows /\ w \in Nat /\ c \in Due /\ Window(stamp[c]) = w
        /\ Value(w) = count[w] /\ Value(w - 1) = Before(w)
        /\ count[w] \in Nat /\ Before(w) \in Nat
        /\ count' = [count EXCEPT ![w] = @ + 1] /\ Before(w)' = Before(w)
        /\ Rushed' <=> Rushed
    BY <1>0, <1>2, CalmExecution DEF Calm
  <2>2. /\ CallsServed /\ RushOver /\ Paid /\ PaidAhead /\ CountsBegun
        /\ Cardinality(Served) \in Nat /\ Cardinality(Due) \in Nat /\ Limit \in Nat
    BY <2>1, ServedAndDue, LimitAssumption DEF RetryInv
  <2>3. Served' = Served
    BY <1>0 DEF Served, TypeOK
  <2>4. c \notin Due'
    <3>1. RetryAfter(stamp[c]) \in Nat /\ RetryAfter(stamp[c]) >= W
      BY <1>0, RetryAfterType, RetryAfterLong
    <3>2. w < Window(now + RetryAfter(stamp[c]))
      BY <1>0, <3>1, LaterWindow
    <3>3. Window(now + RetryAfter(stamp[c])) \in Nat
      BY <1>0, <3>1, WindowFacts
    <3>4. pc'[c] = "idle" /\ retryAt'[c] = now + RetryAfter(stamp[c]) /\ now' = now
      BY <1>0 DEF TypeOK
    <3>. QED
      BY <2>1, <3>2, <3>3, <3>4 DEF Due
  <2>5. Due' = Due \ {c} /\ Cardinality(Due') = Cardinality(Due) - 1
    BY <1>0, <2>1, <2>4, NoLongerDue DEF TypeOK
  <2>6. Credit' = Credit /\ Credit \in Int
    BY <2>1, <2>2, <2>3 DEF Credit
  <2>7. Before(w) + (count[w] + 1) > Limit
    <3>1. e \in 0..W - 1
      BY <1>0, WindowFacts
    <3>2. Before(w) * (W - e) + (count[w] + 1) * W > Limit * W
      BY <2>1 DEF Refuse, Over
    <3>3. count[w] + 1 \in Nat
      BY <2>1
    <3>. QED
      BY <2>1, <3>1, <3>2, <3>3, Unweighted
  <2>8. Cardinality(Served) >= Limit
    BY <2>1, <2>2, <2>7 DEF CallsServed
  <2>9. CallsServed'
    BY <2>2, <2>3, <2>8 DEF CallsServed
  <2>10. RushOver'
    BY <1>0, <2>1, <2>2, <2>5 DEF RushOver
  <2>11. count[w] > 0 \/ Before(w) >= Limit
    BY <2>1, <2>2, <2>7
  <2>12. Paid'
    <3>. SUFFICES ASSUME NEW b \in Clients, refusals'[b] > 0
                  PROVE  pc'[b] # "over" /\ refusals'[b] <= Credit + 1
      BY <2>6 DEF Paid
    <3>1. CASE b # c
      BY <1>0, <2>2, <3>1 DEF Paid, TypeOK
    <3>2. CASE b = c /\ refusals[c] > 0
      <4>1. refusals[c] <= Credit
        BY <2>1, <2>2, <2>11, <3>2 DEF PaidAhead
      <4>. QED
        BY <1>0, <2>6, <3>2, <4>1 DEF TypeOK
    <3>3. CASE b = c /\ refusals[c] = 0
      <4>1. Credit >= 0
        BY <2>2, <2>8 DEF Credit
      <4>. QED
        BY <1>0, <2>6, <3>3, <4>1 DEF TypeOK
    <3>. QED
      BY <1>0, <3>1, <3>2, <3>3
  <2>13. PaidAhead'
    <3>. SUFFICES ASSUME NEW b \in Due', refusals'[b] > 0
                  PROVE  refusals'[b] <= Credit
      BY <2>6 DEF PaidAhead
    <3>1. b \in Due /\ b \in Clients /\ b # c /\ refusals'[b] = refusals[b]
      BY <1>0, <2>5 DEF Due
    <3>. QED
      BY <2>2, <2>11, <3>1 DEF PaidAhead
  <2>. QED
    BY <2>9, <2>10, <2>12, <2>13
<1>. QED
  BY <1>1, <1>2 DEF RetryInv

(* After a failed call it is calm no more.                                   *)
LEMMA RetryFail == \A c \in Clients : IInv /\ RetryInv /\ Fail(c) => RetryInv'
<1>. SUFFICES ASSUME NEW c \in Clients, IInv, RetryInv, Fail(c) PROVE RetryInv'
  OBVIOUS
<1>0. TypeOK /\ pc[c] = "asked" /\ now' = now /\ extra \in Nat /\ extra' = extra + 1
  BY LimitBounds DEF IInv, TypeOK, Fail, Extra
<1>1. ~Calm'
  BY <1>0 DEF Calm
<1>2. CASE Execute(stamp[c])
  <2>1. /\ Window(stamp[c]) <= Window(now)
        /\ count' = [count EXCEPT ![Window(stamp[c])] = Value(Window(stamp[c])) + 1]
    BY <1>0, <1>2, Executing
  <2>2. Window(now) \in Nat /\ Window(stamp[c]) \in Nat
    BY <1>0, WindowFacts, LimitBounds DEF TypeOK
  <2>. QED
    BY <1>0, <1>1, <2>1, <2>2, Earlier DEF RetryInv, CountsBegun, TypeOK
<1>3. CASE UNCHANGED <<keyVars, lag>>
  BY <1>0, <1>1, <1>3 DEF RetryInv, CountsBegun, keyVars
<1>. QED
  BY <1>2, <1>3 DEF Fail

(* A tick stays in its window or begins the next.                            *)
LEMMA NextTick == \A t \in Nat : Window(t + 1) = Window(t) \/ Window(t + 1) = Window(t) + 1
<1>. SUFFICES ASSUME NEW t \in Nat
              PROVE  Window(t + 1) = Window(t) \/ Window(t + 1) = Window(t) + 1
  OBVIOUS
<1>1. /\ Window(t) \in Nat /\ Window(t + 1) \in Nat /\ W \in Nat /\ W > 0
      /\ t < (Window(t) + 1) * W /\ Window(t + 1) * W <= t + 1
      /\ Window(t) <= Window(t + 1)
  BY WindowFacts, Ordered, LimitAssumption
<1>2. Window(t + 1) * W <= (Window(t) + 1) * W
  BY <1>1
<1>. QED
  BY <1>1, <1>2

(* Only the window after the first rush begins without room.                 *)
LEMMA RetryTick == IInv /\ RetryInv /\ Tick => RetryInv'
<1>. SUFFICES ASSUME IInv, RetryInv, Tick PROVE RetryInv'
  OBVIOUS
<1>. DEFINE w == Window(now)
<1>0. /\ TypeOK /\ now' = now + 1 /\ now \in Nat /\ now' \in 0..MaxTime
      /\ count \in [Windows -> Nat] /\ refusals \in [Clients -> Nat]
      /\ UNCHANGED <<keyVars, clientVars, extra, lag>>
  BY LimitBounds DEF IInv, TypeOK, Tick
<1>1. w \in Nat /\ w \in Windows /\ (Window(now') = w \/ Window(now') = w + 1)
  BY <1>0, WindowFacts, InWindows, NextTick DEF IInv, TypeOK
<1>2. /\ UNCHANGED <<count, pc, stamp, retryAt, refusals>>
      /\ \A v : Before(v)' = Before(v)
      /\ \A v \in Windows : Before(v) \in Nat /\ count[v] \in Nat
  BY <1>0, Earlier DEF keyVars, clientVars, Before
<1>3. Served' = Served
  BY <1>2 DEF Served
<1>. HIDE DEF w
<1>4. CountsBegun'
  BY <1>1, <1>2, Earlier DEF RetryInv, CountsBegun, w
<1>5. CASE Window(now') = w
  <2>1. Due' = Due
    BY <1>2, <1>5 DEF Due, w
  <2>2. (Rushed' <=> Rushed) /\ Calm' = Calm
    BY <1>0, <1>2, <1>5 DEF Rushed, Calm, w
  <2>. QED
    BY <1>2, <1>3, <1>4, <1>5, <2>1, <2>2
    DEF RetryInv, CallsServed, RushOver, Paid, PaidAhead, Credit, w
<1>6. CASE Window(now') = w + 1
  <2>. SUFFICES ASSUME Calm PROVE (CallsServed /\ RushOver /\ Paid /\ PaidAhead)'
    BY <1>0, <1>4 DEF RetryInv, Calm
  <2>1. /\ CallsServed /\ RushOver /\ Paid /\ CountsBegun
        /\ Cardinality(Served) \in Nat /\ Cardinality(Due) \in Nat /\ Cardinality(Clients) \in Nat
        /\ Limit \in Nat /\ Limit > 0
    BY ServedAndDue, LimitAssumption DEF RetryInv
  <2>2. w + 1 \in Windows /\ w + 1 > w /\ count[w + 1] = 0 /\ Before(w + 1) = count[w]
    BY <1>0, <1>1, <1>6, <2>1, InWindows DEF CountsBegun, Before, w
  <2>3. Rushed' <=> Rushed \/ count[w] >= Limit
    <3>1. \A v \in Windows : v < w + 1 <=> v < w \/ v = w
      BY <1>1, Earlier
    <3>. QED
      BY <1>1, <1>2, <1>6, <3>1 DEF Rushed, w
  <2>4. CallsServed'
    BY <1>2, <1>3, <2>1 DEF CallsServed
  <2>5. RushOver'
    <3>1. Rushed' => Cardinality(Served) >= Limit
      BY <1>1, <1>2, <2>1, <2>3 DEF CallsServed, Rushed
    <3>2. Served \subseteq Clients /\ Due' \subseteq Clients \ Served
      BY <1>2 DEF Served, Due
    <3>3. /\ Cardinality(Due') \in Nat
          /\ Cardinality(Served) + Cardinality(Due') <= Cardinality(Clients)
      BY <3>2, Disjoint
    <3>4. count'[Window(now')] = 0
      BY <1>2, <1>6, <2>2
    <3>. QED
      BY <2>1, <3>1, <3>3, <3>4 DEF RushOver
  <2>6. Credit \in Int /\ Credit' \in Int /\ Credit <= Credit'
    BY <1>3, <2>1, <2>3 DEF Credit
  <2>7. Paid'
    BY <1>0, <1>2, <2>1, <2>6 DEF Paid
  <2>8. PaidAhead'
    <3>. SUFFICES ASSUME NEW b \in Due', count[w] >= Limit, refusals[b] > 0
                  PROVE  refusals[b] <= Credit'
      BY <1>2, <1>6, <2>1, <2>2 DEF PaidAhead
    <3>1. ~Rushed
      BY <1>1, <1>2, <2>1 DEF RushOver, Calm, w
    <3>2. Credit' = Credit + 1
      BY <1>3, <2>1, <2>3, <3>1 DEF Credit
    <3>3. b \in Clients
      BY DEF Due
    <3>. QED
      BY <2>1, <3>2, <3>3 DEF Paid
  <2>. QED
    BY <2>4, <2>5, <2>7, <2>8
<1>. QED
  BY <1>1, <1>5, <1>6

(* Every step keeps what is known of retries.                                *)
LEMMA RetryStep == IInv /\ RetryInv /\ [Next]_vars => RetryInv'
<1>. SUFFICES ASSUME IInv, RetryInv, [Next]_vars PROVE RetryInv'
  OBVIOUS
<1>1. CASE UNCHANGED vars
  BY <1>1 DEF vars, keyVars, clientVars, RetryInv, CountsBegun, Calm, CallsServed, RushOver, Paid,
              PaidAhead, Credit, Served, Due, Before, Rushed
<1>. QED
  BY <1>1, RetryCall, RetryAdmit, RetryRefuse, RetryFail, RetryTick DEF Next

(* Clients that wait as long as they are told are served: fewer of them than *)
(* twice the limit are refused no oftener in a row than they exceed it, and  *)
(* once more.                                                               *)
THEOREM WaitersServed == Spec => []RetriesSuffice
<1>1. IInv /\ RetryInv => RetriesSuffice
  <2>. SUFFICES ASSUME IInv, RetryInv, extra = 0, lag = 0,
                       Cardinality(Clients) \in Limit..2 * Limit - 1, NEW c \in Clients
                PROVE  refusals[c] <= Cardinality(Clients) - Limit + 1
    BY DEF RetriesSuffice
  <2>1. /\ Cardinality(Clients) \in Nat /\ Cardinality(Served) \in Nat /\ Limit \in Nat
        /\ Cardinality(Clients) >= Limit /\ refusals[c] \in Nat
    BY ServedAndDue, LimitAssumption DEF IInv, TypeOK
  <2>2. Paid
    BY <2>1, LimitAssumption DEF RetryInv, Calm
  <2>3. CASE refusals[c] = 0
    BY <2>1, <2>3
  <2>4. CASE refusals[c] > 0
    <3>1. c \notin Served /\ refusals[c] <= Credit + 1
      BY <2>2, <2>4 DEF Paid, Served
    <3>2. Cardinality(Served) + 1 <= Cardinality(Clients)
      <4>1. Served \subseteq Clients /\ {c} \subseteq Clients \ Served
        BY <3>1 DEF Served
      <4>2. Cardinality({c}) = 1
        BY FS_Singleton
      <4>. QED
        BY <4>1, <4>2, Disjoint
    <3>3. Credit <= Cardinality(Served) - Limit + 1 /\ Credit \in Int
      BY <2>1 DEF Credit
    <3>. QED
      BY <2>1, <3>1, <3>2, <3>3
  <2>. QED
    BY <2>1, <2>3, <2>4
<1>. QED
  BY <1>1, Invariance, RetryInit, RetryStep, PTL DEF Spec
=============================================================================
