------------------------- MODULE TokenStreamProofs -------------------------
(***************************************************************************)
(* Theorems about TokenStream for every set of requests, every length of   *)
(* the answers and every bound.                                            *)
(***************************************************************************)
EXTENDS TokenStream, TLAPS, FiniteSetTheorems

(* The sets of streams PoolAccounted and GaugeExact count are finite.       *)
LEMMA CountedFinite ==
  /\ IsFiniteSet(Live) /\ IsFiniteSet(Holding) /\ IsFiniteSet(Lost)
  /\ Cardinality(Live) \in Nat /\ Cardinality(Holding) \in Nat
  /\ Cardinality(Lost) \in Nat
<1>1. Live \subseteq Requests /\ Holding \subseteq Requests /\ Lost \subseteq Requests
  BY DEF Live, Holding, Lost
<1>2. IsFiniteSet(Live) /\ IsFiniteSet(Holding) /\ IsFiniteSet(Lost)
  BY <1>1, RequestsAssumption, FS_Subset
<1>. QED
  BY <1>2, FS_CardinalityType

(* A set that does not grow, or grows by at most one element, has a         *)
(* cardinality that does not grow, or grows by at most one.                 *)
LEMMA CardinalityGrows ==
  ASSUME NEW S, NEW T, NEW x, IsFiniteSet(S)
  PROVE  /\ Cardinality(S) \in Nat
         /\ T \subseteq S => Cardinality(T) \in Nat /\ Cardinality(T) <= Cardinality(S)
         /\ T \subseteq S \cup {x} => Cardinality(T) \in Nat /\ Cardinality(T) <= Cardinality(S) + 1
<1>1. Cardinality(S) \in Nat
  BY FS_CardinalityType
<1>2. T \subseteq S => Cardinality(T) \in Nat /\ Cardinality(T) <= Cardinality(S)
  BY FS_Subset, FS_CardinalityType
<1>3. IsFiniteSet(S \cup {x})
  BY FS_AddElement
<1>4. Cardinality(S \cup {x}) <= Cardinality(S) + 1
  <2>1. Cardinality(S \cup {x}) = IF x \in S THEN Cardinality(S) ELSE Cardinality(S) + 1
    BY FS_AddElement
  <2>. QED
    BY <1>1, <2>1
<1>5. Cardinality(S \cup {x}) \in Nat
  BY <1>3, FS_CardinalityType
<1>6. T \subseteq S \cup {x} => Cardinality(T) \in Nat /\ Cardinality(T) <= Cardinality(S \cup {x})
  BY <1>3, FS_Subset, FS_CardinalityType
<1>. QED
  BY <1>1, <1>2, <1>4, <1>5, <1>6

(* What a stream in state s contributes to the gauge and takes of the pool. *)
OpenBit(s) == IF s \in {"open", "ending"} THEN 1 ELSE 0
HoldBit(s) == IF s \in {"open", "ending", "cleaning", "leaked"} THEN 1 ELSE 0

(* How moving one stream to state s changes the number of open streams ...  *)
LEMMA LiveMoves ==
  ASSUME TypeOK, NEW r \in Requests, NEW s \in StreamStates, sse' = [sse EXCEPT ![r] = s]
  PROVE  Cardinality(Live') = Cardinality(Live) + OpenBit(s) - OpenBit(sse[r])
<1>1. CASE s \in {"open", "ending"}
  <2>1. Live' = Live \cup {r}
    BY <1>1 DEF Live, TypeOK
  <2>2. Cardinality(Live') = IF r \in Live THEN Cardinality(Live) ELSE Cardinality(Live) + 1
    BY <2>1, CountedFinite, FS_AddElement
  <2>3. r \in Live <=> sse[r] \in {"open", "ending"}
    BY DEF Live
  <2>. QED
    BY <1>1, <2>2, <2>3, CountedFinite DEF OpenBit
<1>2. CASE s \notin {"open", "ending"}
  <2>1. Live' = Live \ {r}
    BY <1>2 DEF Live, TypeOK
  <2>2. Cardinality(Live') = IF r \in Live THEN Cardinality(Live) - 1 ELSE Cardinality(Live)
    BY <2>1, CountedFinite, FS_RemoveElement
  <2>3. r \in Live <=> sse[r] \in {"open", "ending"}
    BY DEF Live
  <2>. QED
    BY <1>2, <2>2, <2>3, CountedFinite DEF OpenBit
<1>. QED
  BY <1>1, <1>2

(* ... and of streams that hold a connection.                               *)
LEMMA HoldingMoves ==
  ASSUME TypeOK, NEW r \in Requests, NEW s \in StreamStates, sse' = [sse EXCEPT ![r] = s]
  PROVE  Cardinality(Holding') = Cardinality(Holding) + HoldBit(s) - HoldBit(sse[r])
<1>. DEFINE H == {"open", "ending", "cleaning", "leaked"}
<1>1. CASE s \in H
  <2>1. Holding' = Holding \cup {r}
    BY <1>1 DEF Holding, TypeOK
  <2>2. Cardinality(Holding') =
          IF r \in Holding THEN Cardinality(Holding) ELSE Cardinality(Holding) + 1
    BY <2>1, CountedFinite, FS_AddElement
  <2>3. r \in Holding <=> sse[r] \in H
    BY DEF Holding
  <2>. QED
    BY <1>1, <2>2, <2>3, CountedFinite DEF HoldBit
<1>2. CASE s \notin H
  <2>1. Holding' = Holding \ {r}
    BY <1>2 DEF Holding, TypeOK
  <2>2. Cardinality(Holding') =
          IF r \in Holding THEN Cardinality(Holding) - 1 ELSE Cardinality(Holding)
    BY <2>1, CountedFinite, FS_RemoveElement
  <2>3. r \in Holding <=> sse[r] \in H
    BY DEF Holding
  <2>. QED
    BY <1>2, <2>2, <2>3, CountedFinite DEF HoldBit
<1>. QED
  BY <1>1, <1>2

(* A step that moves stream r to state s, changes the gauge and the pool as  *)
(* s asks, and loses the connection only by a fault or of a cancelled stream.*)
Moves(r, s) ==
  /\ sse' = [sse EXCEPT ![r] = s]
  /\ gauge' = gauge + OpenBit(s) - OpenBit(sse[r])
  /\ inUse' = inUse + HoldBit(s) - HoldBit(sse[r])
  /\ inUse' > inUse => ~PoolExhausted
  /\ UNCHANGED commands
  /\ cancelled \subseteq cancelled'
  /\ faults' = faults \/ faults' = faults + 1
  /\ s = "leaked" => r \in cancelled' \/ faults' = faults + 1

(* Such a step keeps the accounts.                                          *)
LEMMA MoveCounts ==
  ASSUME TypeOK, GaugeExact, PoolAccounted, NEW r \in Requests, NEW s \in StreamStates, Moves(r, s)
  PROVE  GaugeExact' /\ PoolAccounted'
<1>. USE DEF Moves
<1>1. GaugeExact'
  BY LiveMoves DEF GaugeExact
<1>2. inUse' = Cardinality(Holding')
  BY HoldingMoves DEF PoolAccounted
<1>3. (inUse + commands <= PoolSize)'
  <2>1. inUse \in Int /\ commands \in Int /\ PoolSize \in Int
    BY BoundsAssumption DEF TypeOK
  <2>2. inUse' \in Int /\ inUse' <= inUse + 1
    BY <2>1 DEF HoldBit
  <2>3. inUse' > inUse => inUse + commands < PoolSize
    <3>1. inUse + commands <= PoolSize
      BY DEF PoolAccounted
    <3>. QED
      BY <2>1, <2>2, <3>1 DEF PoolExhausted
  <2>. QED
    BY <2>1, <2>2, <2>3 DEF PoolAccounted
<1>4. Cardinality(Lost') <= faults'
  <2>1. Lost' \subseteq Lost \cup {r}
    BY DEF Lost, TypeOK
  <2>2. faults' = faults => Lost' \subseteq Lost
    BY DEF Lost, TypeOK
  <2>3. faults \in Nat /\ Cardinality(Lost) <= faults
    BY BoundsAssumption DEF TypeOK, PoolAccounted
  <2>. QED
    <3>1. /\ Cardinality(Lost) \in Nat
          /\ Cardinality(Lost') \in Nat
          /\ Cardinality(Lost') <= Cardinality(Lost) + 1
          /\ faults' = faults => Cardinality(Lost') <= Cardinality(Lost)
      BY <2>1, <2>2, CountedFinite, CardinalityGrows
    <3>. QED
      BY <2>3, <3>1
<1>. QED
  BY <1>1, <1>2, <1>3, <1>4 DEF PoolAccounted

(* A step that moves no stream and takes no connection keeps the accounts.  *)
LEMMA CountsSame ==
  ASSUME TypeOK, GaugeExact, PoolAccounted, UNCHANGED <<sse, cancelled, gauge, inUse, commands>>,
         faults' \in Nat, faults' >= faults
  PROVE  GaugeExact' /\ PoolAccounted'
<1>1. Live' = Live /\ Holding' = Holding /\ Lost' = Lost
  BY DEF Live, Holding, Lost
<1>. QED
  BY <1>1, CountedFinite DEF GaugeExact, PoolAccounted, TypeOK

(* The worker keeps them ...                                                *)
LEMMA WorkerCounts ==
  ASSUME TypeOK, GaugeExact, PoolAccounted, NEW r \in Requests, WorkerNext(r)
  PROVE  GaugeExact' /\ PoolAccounted'
<1>1. UNCHANGED <<sse, cancelled, gauge, inUse, commands>>
  BY DEF WorkerNext, TakeJob, PublishToken, PublishDone, PublishFails, EngineFails, PublishError,
         WorkerStops, streamVars
<1>2. faults' \in Nat /\ faults' >= faults
  BY BoundsAssumption
  DEF WorkerNext, TakeJob, PublishToken, PublishDone, PublishFails, EngineFails, PublishError,
      WorkerStops, Fault, TypeOK
<1>. QED
  BY <1>1, <1>2, CountsSame

(* ... and so does every step of a stream.                                  *)
LEMMA StreamCounts ==
  ASSUME TypeOK, GaugeExact, PoolAccounted, NEW r \in Requests, StreamNext(r)
  PROVE  GaugeExact' /\ PoolAccounted'
<1>. USE DEF StreamStates, OpenBit, HoldBit
<1>a. gauge \in Int /\ inUse \in Int /\ faults \in Int
  BY BoundsAssumption DEF TypeOK
<1>1. CASE Enqueue(r)
  <2>1. Moves(r, "enqueued") \/ Moves(r, "refused")
    BY <1>1, <1>a DEF Moves, Enqueue
  <2>. QED
    BY <2>1, MoveCounts
<1>2. CASE Subscribe(r)
  <2>1. Moves(r, "open")
    BY <1>2, <1>a DEF Moves, Subscribe
  <2>. QED
    BY <2>1, MoveCounts
<1>3. CASE SubscribeExhausted(r)
  <2>1. Moves(r, "aborted")
    BY <1>3, <1>a DEF Moves, SubscribeExhausted
  <2>. QED
    BY <2>1, MoveCounts
<1>4. CASE Receive(r)
  <2>1. sse' = [sse EXCEPT ![r] = "ending"] \/ UNCHANGED sse
    BY <1>4 DEF Receive
  <2>2. CASE UNCHANGED sse
    BY <1>4, <1>a, <2>2, CountsSame, BoundsAssumption DEF Receive, TypeOK
  <2>3. CASE sse' = [sse EXCEPT ![r] = "ending"]
    <3>1. sse[r] = "open" /\ UNCHANGED <<cancelled, gauge, inUse, commands, faults>>
      BY <1>4 DEF Receive
    <3>2. Moves(r, "ending")
      BY <3>1, <1>a, <2>3 DEF Moves
    <3>. QED
      BY <3>2, MoveCounts
  <2>. QED
    BY <2>1, <2>2, <2>3
<1>5. CASE DeadlinePasses(r)
  BY <1>5, <1>a, CountsSame, BoundsAssumption DEF DeadlinePasses, TypeOK
<1>6. CASE TimeOut(r)
  <2>1. Moves(r, "ending")
    BY <1>6, <1>a DEF Moves, TimeOut
  <2>. QED
    BY <2>1, MoveCounts
<1>7. CASE ReadFails(r)
  <2>1. Moves(r, "ending")
    BY <1>7, <1>a DEF Moves, ReadFails
  <2>. QED
    BY <2>1, MoveCounts
<1>8. CASE BeginCleanup(r)
  <2>1. Moves(r, "cleaning")
    BY <1>8, <1>a DEF Moves, BeginCleanup
  <2>. QED
    BY <2>1, MoveCounts
<1>9. CASE EndCleanup(r)
  <2>1. Moves(r, "closed")
    BY <1>9, <1>a DEF Moves, EndCleanup
  <2>. QED
    BY <2>1, MoveCounts
<1>10. CASE SubscribeFails(r)
  <2>1. Moves(r, "aborted") \/ Moves(r, "leaked")
    BY <1>10, <1>a DEF Moves, SubscribeFails, Fault
  <2>. QED
    BY <2>1, MoveCounts
<1>11. CASE SubscribeTakesEffect(r)
  BY <1>11, <1>a, CountsSame, BoundsAssumption DEF SubscribeTakesEffect, streamVars, TypeOK
<1>12. CASE ConnectionLost(r)
  BY <1>12, <1>a, CountsSame, BoundsAssumption DEF ConnectionLost, streamVars, Fault, TypeOK
<1>13. CASE Disconnect(r)
  <2>1. Moves(r, "aborted") \/ Moves(r, "ending") \/ Moves(r, "cleaning") \/ Moves(r, "leaked")
    BY <1>13, <1>a DEF Moves, Disconnect, Interrupted
  <2>. QED
    BY <2>1, MoveCounts
<1>14. CASE CleanupFails(r)
  <2>1. Moves(r, "leaked")
    BY <1>14, <1>a DEF Moves, CleanupFails, Fault
  <2>. QED
    BY <2>1, MoveCounts
<1>. QED
  BY <1>1, <1>2, <1>3, <1>4, <1>5, <1>6, <1>7, <1>8, <1>9, <1>10, <1>11, <1>12, <1>13, <1>14
  DEF StreamNext, StreamStep

-----------------------------------------------------------------------------
(* Publishing an event keeps the types of the channel.                      *)
LEMMA PublishType ==
  ASSUME TypeOK, NEW r \in Requests, NEW e \in Events, Publish(r, e)
  PROVE  inbox' \in [Requests -> Seq(Events)] /\ missed' \in [Requests -> Nat]
BY DEF Publish, TypeOK

(* What the events are.                                                     *)
LEMMA EventTypes ==
  /\ \A i \in Nat : Token(i) \in Events
  /\ \A k \in {"done", "error", "blank"} : Terminal(k) \in Events
  /\ \A e \in Events : ChunkOf(e) \in Chunks
  /\ Terminal("timeout") \in Chunks
BY DEF Events, Chunks, Token, Terminal, ChunkOf

(* Initially the variables have their types and nothing is counted.         *)
LEMMA InitCounts == Init => TypeOK /\ GaugeExact /\ PoolAccounted
<1>. SUFFICES ASSUME Init PROVE TypeOK /\ GaugeExact /\ PoolAccounted
  OBVIOUS
<1>1. TypeOK
  BY BoundsAssumption, TokensAssumption DEF Init, TypeOK, JobStates, StreamStates
<1>2. Live = {} /\ Holding = {} /\ Lost = {}
  BY DEF Init, Live, Holding, Lost
<1>. QED
  BY <1>1, <1>2, FS_EmptySet, BoundsAssumption DEF Init, GaugeExact, PoolAccounted

(* The worker keeps the types ...                                           *)
LEMMA WorkerType ==
  ASSUME TypeOK, NEW r \in Requests, WorkerNext(r)
  PROVE  TypeOK'
<1>. USE TokensAssumption DEF JobStates
<1>1. CASE TakeJob(r)
  BY <1>1 DEF TakeJob, TypeOK, channelVars, streamVars
<1>2. CASE PublishToken(r)
  <2>1. Token(produced[r] + 1) \in Events /\ MaxTokens[r] \in Nat
    BY EventTypes DEF TypeOK
  <2>. QED
    BY <1>2, <2>1, PublishType DEF PublishToken, TypeOK, streamVars
<1>3. CASE PublishDone(r)
  BY <1>3, EventTypes, PublishType DEF PublishDone, TypeOK, streamVars
<1>4. CASE PublishFails(r)
  <2>1. Token(produced[r] + 1) \in Events /\ MaxTokens[r] \in Nat /\ Terminal("done") \in Events
    BY EventTypes DEF TypeOK
  <2>2. inbox' \in [Requests -> Seq(Events)] /\ missed' \in [Requests -> Nat]
    BY <1>4, <2>1, PublishType DEF PublishFails, TypeOK
  <2>3. produced' = produced \/ (produced[r] < MaxTokens[r] /\ produced' = [produced EXCEPT ![r] = @ + 1])
    BY <1>4 DEF PublishFails
  <2>4. produced' \in [Requests -> Nat] /\ \A s \in Requests : produced'[s] <= MaxTokens[s]
    <3>1. produced \in [Requests -> Nat] /\ \A s \in Requests : produced[s] <= MaxTokens[s]
      BY DEF TypeOK
    <3>. QED
      BY <2>1, <2>3, <3>1
  <2>5. job' = [job EXCEPT ![r] = "failing"] /\ faults' \in 0..MaxFaults
        /\ UNCHANGED <<conn, streamVars, commands>>
    BY <1>4, BoundsAssumption DEF PublishFails, Fault, TypeOK
  <2>. QED
    BY <2>2, <2>4, <2>5 DEF Failing, TypeOK, streamVars
<1>5. CASE EngineFails(r)
  BY <1>5, BoundsAssumption DEF EngineFails, Fault, Failing, TypeOK, channelVars, streamVars
<1>6. CASE PublishError(r)
  <2>1. Terminal(IF job[r] = "raisedBlank" THEN "blank" ELSE "error") \in Events
    BY EventTypes
  <2>2. inbox' \in [Requests -> Seq(Events)] /\ missed' \in [Requests -> Nat]
    BY <1>6, <2>1, PublishType DEF PublishError
  <2>. QED
    BY <1>6, <2>2 DEF PublishError, TypeOK, streamVars
<1>7. CASE WorkerStops(r)
  BY <1>7, BoundsAssumption DEF WorkerStops, Fault, TypeOK, channelVars, streamVars
<1>. QED
  BY <1>1, <1>2, <1>3, <1>4, <1>5, <1>6, <1>7 DEF WorkerNext

(* ... and so do the streams, whose use of the pool the accounts bound.     *)
LEMMA StreamType ==
  ASSUME TypeOK, GaugeExact, PoolAccounted, NEW r \in Requests, StreamNext(r)
  PROVE  TypeOK'
<1>. USE BoundsAssumption DEF StreamStates
<1>1. inUse' \in 0..PoolSize
  <2>1. commands' \in Nat /\ inUse' \in Int /\ inUse' >= 0 /\ inUse' + commands' <= PoolSize
    <3>1. commands' = commands
      BY DEF StreamNext, StreamStep, Enqueue, Subscribe, SubscribeExhausted, Receive, DeadlinePasses,
             TimeOut, ReadFails, BeginCleanup, EndCleanup, SubscribeFails, SubscribeTakesEffect,
             ConnectionLost, Disconnect, CleanupFails
    <3>2. Holding' \subseteq Requests
      BY DEF Holding
    <3>3. Cardinality(Holding') \in Nat
      BY <3>2, RequestsAssumption, FS_Subset, FS_CardinalityType
    <3>. QED
      BY <3>1, <3>3, StreamCounts DEF PoolAccounted, TypeOK
  <2>2. PoolSize \in Int
    BY BoundsAssumption
  <2>3. ASSUME NEW u \in Int, NEW c \in Nat, u + c <= PoolSize PROVE u <= PoolSize
    BY <2>2, <2>3
  <2>4. inUse' <= PoolSize
    BY <2>1, <2>3
  <2>. QED
    BY <2>1, <2>2, <2>4
<1>2. CASE Enqueue(r)
  BY <1>1, <1>2 DEF Enqueue, TypeOK, JobStates, channelVars
<1>3. CASE Subscribe(r)
  BY <1>1, <1>3 DEF Subscribe, TypeOK, workerVars
<1>4. CASE SubscribeExhausted(r)
  BY <1>1, <1>4 DEF SubscribeExhausted, TypeOK, workerVars, channelVars
<1>5. CASE Receive(r)
  <2>1. inbox[r] \in Seq(Events) /\ inbox[r] # <<>> /\ sent[r] \in Seq(Chunks)
    BY <1>5 DEF Receive, TypeOK
  <2>2. Head(inbox[r]) \in Events /\ Tail(inbox[r]) \in Seq(Events)
    BY <2>1
  <2>3. Append(sent[r], ChunkOf(Head(inbox[r]))) \in Seq(Chunks)
    BY <2>1, <2>2, EventTypes
  <2>4. /\ inbox' = [inbox EXCEPT ![r] = Tail(inbox[r])]
        /\ sent' = [sent EXCEPT ![r] = Append(sent[r], ChunkOf(Head(inbox[r])))]
        /\ sse' = sse \/ sse' = [sse EXCEPT ![r] = "ending"]
        /\ UNCHANGED <<job, produced, missed, conn, late, cancelled, gauge, inUse, commands, faults>>
    BY <1>5 DEF Receive, workerVars
  <2>. QED
    BY <1>1, <2>2, <2>3, <2>4 DEF TypeOK
<1>6. CASE DeadlinePasses(r)
  BY <1>1, <1>6 DEF DeadlinePasses, TypeOK, workerVars, channelVars
<1>7. CASE TimeOut(r)
  BY <1>1, <1>7, EventTypes DEF TimeOut, TypeOK, workerVars, channelVars
<1>8. CASE ReadFails(r)
  BY <1>1, <1>8 DEF ReadFails, TypeOK, workerVars, channelVars
<1>9. CASE BeginCleanup(r)
  BY <1>1, <1>9 DEF BeginCleanup, TypeOK, workerVars, channelVars
<1>10. CASE EndCleanup(r)
  BY <1>1, <1>10 DEF EndCleanup, TypeOK, workerVars
<1>11. CASE SubscribeFails(r)
  <2>1. /\ sse' \in [Requests -> StreamStates]
        /\ faults' \in 0..MaxFaults
        /\ UNCHANGED <<workerVars, channelVars, sent, late, cancelled, gauge, commands>>
    <3>1. sse \in [Requests -> StreamStates] /\ faults \in 0..MaxFaults
      BY DEF TypeOK
    <3>. QED
      BY <1>11, <3>1 DEF SubscribeFails, Fault
  <2>. QED
    BY <1>1, <2>1 DEF TypeOK, workerVars, channelVars
<1>12. CASE SubscribeTakesEffect(r)
  BY <1>1, <1>12 DEF SubscribeTakesEffect, TypeOK, workerVars, streamVars
<1>13. CASE ConnectionLost(r)
  BY <1>1, <1>13 DEF ConnectionLost, Fault, TypeOK, workerVars, streamVars
<1>14. CASE Disconnect(r)
  <2>1. /\ sse' \in [Requests -> StreamStates]
        /\ cancelled' \subseteq Requests
        /\ UNCHANGED <<workerVars, channelVars, sent, late, gauge, commands, faults>>
    <3>1. sse \in [Requests -> StreamStates] /\ cancelled \subseteq Requests
      BY DEF TypeOK
    <3>. QED
      BY <1>14, <3>1 DEF Disconnect, Interrupted
  <2>. QED
    BY <1>1, <2>1 DEF TypeOK, workerVars, channelVars
<1>15. CASE CleanupFails(r)
  BY <1>1, <1>15 DEF CleanupFails, Fault, TypeOK, workerVars, channelVars
<1>. QED
  BY <1>2, <1>3, <1>4, <1>5, <1>6, <1>7, <1>8, <1>9, <1>10, <1>11, <1>12, <1>13, <1>14, <1>15
  DEF StreamNext, StreamStep

(* The other commands of the gateway respect the pool.                      *)
LEMMA CommandCounts ==
  ASSUME TypeOK, GaugeExact, PoolAccounted, TakeConnection \/ ReturnConnection
  PROVE  TypeOK' /\ GaugeExact' /\ PoolAccounted'
<1>1. Live' = Live /\ Holding' = Holding /\ Lost' = Lost
  BY DEF TakeConnection, ReturnConnection, streamVars, Live, Holding, Lost
<1>2. TypeOK'
  <2>1. commands \in 0..MaxCommands /\ MaxCommands \in Nat
    BY BoundsAssumption DEF TypeOK
  <2>2. commands' \in 0..MaxCommands
    BY <2>1 DEF TakeConnection, ReturnConnection
  <2>3. UNCHANGED <<workerVars, channelVars, streamVars, faults>>
    BY DEF TakeConnection, ReturnConnection
  <2>. QED
    BY <2>2, <2>3 DEF TypeOK, workerVars, channelVars, streamVars
<1>3. (inUse + commands <= PoolSize)'
  <2>1. inUse \in Int /\ commands \in Int /\ PoolSize \in Int /\ inUse + commands <= PoolSize
    BY BoundsAssumption DEF TypeOK, PoolAccounted
  <2>. QED
    BY <2>1 DEF TakeConnection, ReturnConnection, PoolExhausted, streamVars
<1>. QED
  BY <1>1, <1>2, <1>3
  DEF TakeConnection, ReturnConnection, GaugeExact, PoolAccounted, streamVars

(* Every step keeps the types and the accounts.                             *)
LEMMA CountsStep ==
  TypeOK /\ GaugeExact /\ PoolAccounted /\ [Next]_vars => TypeOK' /\ GaugeExact' /\ PoolAccounted'
<1>. SUFFICES ASSUME TypeOK, GaugeExact, PoolAccounted, [Next]_vars
              PROVE  TypeOK' /\ GaugeExact' /\ PoolAccounted'
  OBVIOUS
<1>1. CASE UNCHANGED vars
  <2>1. Live' = Live /\ Holding' = Holding /\ Lost' = Lost
    BY <1>1 DEF vars, streamVars, Live, Holding, Lost
  <2>. QED
    BY <1>1, <2>1 DEF vars, workerVars, channelVars, streamVars, TypeOK, GaugeExact, PoolAccounted
<1>2. ASSUME NEW r \in Requests, WorkerNext(r)
      PROVE  TypeOK' /\ GaugeExact' /\ PoolAccounted'
  BY <1>2, WorkerType, WorkerCounts
<1>3. ASSUME NEW r \in Requests, StreamNext(r)
      PROVE  TypeOK' /\ GaugeExact' /\ PoolAccounted'
  BY <1>3, StreamType, StreamCounts
<1>4. CASE TakeConnection \/ ReturnConnection
  BY <1>4, CommandCounts
<1>. QED
  BY <1>1, <1>2, <1>3, <1>4 DEF Next

(* The variables keep their types; in particular the pool never gives out   *)
(* more connections than it has.                                            *)
THEOREM TypeCorrect == Spec => []TypeOK
BY InitCounts, CountsStep, PTL DEF Spec

(* active_sse_streams is the number of open streams in every state, however *)
(* clean-ups fail or are interrupted (sse_manager.py: inc and dec).         *)
THEOREM GaugeCounts == Spec => []GaugeExact
BY InitCounts, CountsStep, PTL DEF Spec

(* The pool accounts for every connection: it belongs to a live stream or   *)
(* was lost with the clean-up of a stream.                                  *)
THEOREM PoolCounts == Spec => []PoolAccounted
BY InitCounts, CountsStep, PTL DEF Spec

-----------------------------------------------------------------------------
(* What a stream knows of its answer survives a step that touches neither    *)
(* its events nor its chunks, moves it towards its end, breaks or closes its *)
(* connection and advances the job.                                         *)
LEMMA ContentKept ==
  ASSUME NEW r \in Requests, ContentAt(r),
         produced'[r] = produced[r], missed'[r] = missed[r],
         inbox'[r] = inbox[r], sent'[r] = sent[r],
         NoMoreTokens(r) => NoMoreTokens(r)',
         sse'[r] = "new" => sse[r] = "new" /\ job'[r] = job[r],
         conn'[r] \in {conn[r], "broken", "closed"},
         sse'[r] \in {"new", "enqueued"} =>
           sse[r] \in {"new", "enqueued"} /\ conn'[r] = conn[r],
         sse'[r] \in {"refused", "aborted"} => sse[r] \in {"new", "enqueued", "refused", "aborted"},
         sse'[r] = "open" => sse[r] = "open"
  PROVE  ContentAt(r)'
<1>1. SentInOrder(r)'
  BY DEF ContentAt, SentInOrder, AllTokens, IsToken, Token
<1>2. UnsubscribedIsEmpty(r)'
  BY DEF ContentAt, UnsubscribedIsEmpty
<1>3. InboxInOrder(r)'
  BY DEF ContentAt, InboxInOrder, AllTokens, IsToken, Token
<1>4. CompletionIsLast(r)'
  BY DEF ContentAt, CompletionIsLast, IsToken, LastChunk
<1>. QED
  BY <1>1, <1>2, <1>3, <1>4 DEF ContentAt

(* The arithmetic of m chunks sent, n events to read, p tokens produced and  *)
(* q missed.                                                                *)
LEMMA Lengths ==
  /\ \A m, n \in Int : (m + 1) + (n - 1) = m + n
  /\ \A m, q, i \in Int : q + m + (i + 1) = q + (m + 1) + i
  /\ \A m, q \in Int : q + m + 1 = q + (m + 1)
OBVIOUS

(* Taking the first of some events away shifts the others by one.           *)
LEMMA TailShift ==
  ASSUME NEW s, NEW t, NEW n \in Nat, NEW i \in 0..n,
         \A k \in 1..n : t[k] = s[k + 1]
  PROVE  \A j \in 1..i + 1 : j = 1 \/ (j - 1 \in 1..i /\ t[j - 1] = s[j])
<1>. TAKE j \in 1..i + 1
<1>1. CASE j = 1
  BY <1>1
<1>2. CASE j # 1
  <2>1. j - 1 \in 1..i /\ j - 1 \in 1..n /\ (j - 1) + 1 = j
    BY <1>2
  <2>. QED
    BY <2>1
<1>. QED
  BY <1>1, <1>2

(* The last element of a sequence is the one appended to it.                *)
LEMMA LastAppended ==
  ASSUME NEW S, NEW s \in Seq(S), NEW c \in S
  PROVE  Append(s, c) # <<>> /\ Append(s, c)[Len(Append(s, c))] = c
OBVIOUS

(* A sequence of tokens has only tokens before its last one.                *)
LEMMA TokensBefore ==
  ASSUME NEW s \in Seq(Events), NEW e \in Events, AllTokens(Append(s, e))
  PROVE  AllTokens(s)
<1>1. \A i \in 1..Len(s) : i \in 1..Len(Append(s, e)) /\ Append(s, e)[i] = s[i]
  OBVIOUS
<1>. QED
  BY <1>1 DEF AllTokens

(* A published token goes on where the events of the stream end.            *)
LEMMA TokenPublished ==
  ASSUME TypeOK, NEW r \in Requests, ContentAt(r), job[r] = "running",
         Publish(r, Token(produced[r] + 1)), produced' = [produced EXCEPT ![r] = @ + 1],
         UNCHANGED <<conn, sse, sent>>
  PROVE  ContentAt(r)'
<1>. DEFINE e == Token(produced[r] + 1)
<1>1. /\ inbox[r] \in Seq(Events) /\ sent[r] \in Seq(Chunks)
      /\ produced[r] \in Nat /\ missed[r] \in Nat
      /\ produced'[r] = produced[r] + 1
      /\ missed'[r] = IF conn[r] \in {"none", "asked"} THEN missed[r] + 1 ELSE missed[r]
      /\ inbox'[r] = IF conn[r] = "subscribed" THEN Append(inbox[r], e) ELSE inbox[r]
  BY DEF TypeOK, Publish, Token
<1>int. Len(inbox[r]) \in Int /\ Len(sent[r]) \in Int /\ produced[r] \in Int /\ missed[r] \in Int
  BY <1>1
<1>len. /\ Len(inbox[r]) \in Nat /\ Len(sent[r]) \in Nat
        /\ inbox[r] \in Seq(Events) /\ sent[r] \in Seq(Chunks)
        /\ inbox'[r] \in Seq(Events) /\ sent'[r] \in Seq(Chunks)
  BY <1>1, EventTypes
<1>2. ~NoMoreTokens(r)
  BY DEF NoMoreTokens
<1>3. conn[r] \in {"none", "asked"} =>
        inbox[r] = <<>> /\ produced[r] = missed[r] /\ \A i \in 1..Len(sent[r]) : ~IsToken(sent[r][i])
  BY DEF ContentAt, UnsubscribedIsEmpty, IsToken
<1>4. SentInOrder(r)'
  BY <1>1, <1>3 DEF ContentAt, SentInOrder, AllTokens, IsToken, Token
<1>5. UnsubscribedIsEmpty(r)'
  BY <1>1, <1>3 DEF ContentAt, UnsubscribedIsEmpty
<1>6. InboxInOrder(r)'
  <2>. SUFFICES ASSUME sse[r] = "open", conn[r] \notin {"none", "asked"}
                PROVE  InboxInOrder(r)'
    <3>1. CASE sse[r] # "open"
      BY <3>1 DEF InboxInOrder
    <3>2. CASE conn[r] \in {"none", "asked"}
      <4>1. inbox'[r] = <<>> /\ Len(<<>>) = 0 /\ conn'[r] # "subscribed"
        BY <1>1, <1>3, <3>2
      <4>2. \A i \in 1..Len(inbox'[r]) : FALSE
        BY <4>1
      <4>. QED
        BY <4>1, <4>2 DEF InboxInOrder
    <3>. QED
      BY <3>1, <3>2
  <2>1. CASE conn[r] # "subscribed"
    BY <1>1, <2>1 DEF ContentAt, InboxInOrder
  <2>2. CASE conn[r] = "subscribed"
    <3>1. inbox'[r] = Append(inbox[r], e) /\ missed'[r] = missed[r]
      BY <1>1, <2>2
    <3>2. ASSUME NEW i \in 1..Len(inbox[r]) + 1, \A j \in 1..i : IsToken(Append(inbox[r], e)[j])
          PROVE  Append(inbox[r], e)[i] = Token(missed[r] + Len(sent[r]) + i)
      <4>1. CASE i \in 1..Len(inbox[r])
        <5>1. \A j \in 1..i : IsToken(inbox[r][j])
          BY <1>1, <3>2, <4>1
        <5>. QED
          BY <1>1, <4>1, <5>1 DEF ContentAt, InboxInOrder
      <4>2. CASE i = Len(inbox[r]) + 1
        <5>1. AllTokens(inbox[r])
          BY <1>1, <3>2, <4>2 DEF AllTokens
        <5>2. Len(sent[r]) + Len(inbox[r]) = produced[r] - missed[r]
          BY <2>2, <5>1 DEF ContentAt, InboxInOrder
        <5>3. missed[r] + Len(sent[r]) + i = produced[r] + 1
          <6>1. missed[r] + Len(sent[r]) + (Len(inbox[r]) + 1) = produced[r] + 1
            <7>. DEFINE m == Len(sent[r])
                       n == Len(inbox[r])
                       p == produced[r]
                       q == missed[r]
            <7>a. m \in Int /\ n \in Int /\ p \in Int /\ q \in Int /\ m + n = p - q
              BY <1>int, <5>2
            <7>b. q + m + (n + 1) = p + 1
              <8>. HIDE DEF m, n, p, q
              <8>. QED
                BY <7>a
            <7>. QED
              BY <7>b
          <6>. QED
            BY <4>2, <6>1, Zenon
        <5>. QED
          BY <1>1, <4>2, <5>3
      <4>. QED
        BY <1>1, <4>1, <4>2
    <3>3. AllTokens(Append(inbox[r], e)) => AllTokens(inbox[r])
      <4>1. inbox[r] \in Seq(Events) /\ e \in Events
        BY <1>1, EventTypes
      <4>. QED
        BY <4>1, TokensBefore
    <3>4. AllTokens(inbox[r]) => Len(sent[r]) + Len(inbox[r]) = produced[r] - missed[r]
      BY <2>2 DEF ContentAt, InboxInOrder
    <3>5. Len(Append(inbox[r], e)) = Len(inbox[r]) + 1
      BY <1>1
    <3>6. AllTokens(Append(inbox[r], e)) =>
            Len(sent[r]) + Len(Append(inbox[r], e)) = produced'[r] - missed[r]
      <4>. SUFFICES ASSUME AllTokens(Append(inbox[r], e))
                    PROVE  Len(sent[r]) + Len(Append(inbox[r], e)) = produced'[r] - missed[r]
        OBVIOUS
      <4>1. Len(sent[r]) + Len(inbox[r]) = produced[r] - missed[r]
        BY <3>3, <3>4
      <4>2. Len(sent[r]) + (Len(inbox[r]) + 1) = (produced[r] + 1) - missed[r]
        <5>. DEFINE m == Len(sent[r])
                   n == Len(inbox[r])
                   p == produced[r]
                   q == missed[r]
        <5>a. m \in Int /\ n \in Int /\ p \in Int /\ q \in Int /\ m + n = p - q
          BY <1>int, <4>1
        <5>b. m + (n + 1) = (p + 1) - q
          <6>. HIDE DEF m, n, p, q
          <6>. QED
            BY <5>a
        <5>. QED
          BY <5>b
      <4>3. produced'[r] = produced[r] + 1
        BY <1>1
      <4>. QED
        BY <3>5, <4>2, <4>3, Zenon
    <3>. QED
      BY <3>1, <3>2, <3>5, <3>6 DEF InboxInOrder
  <2>. QED
    BY <2>1, <2>2
<1>7. CompletionIsLast(r)'
  <2>1. sent[r] = <<>> \/ LastChunk(r).kind # "done"
    BY <1>2 DEF ContentAt, CompletionIsLast
  <2>2. ASSUME sse[r] = "open", NEW i \in 1..Len(inbox'[r]),
               ~IsToken(inbox'[r][i]), \A j \in 1..i - 1 : IsToken(inbox'[r][j])
        PROVE  FALSE
    <3>1. IsToken(e)
      BY DEF IsToken, Token
    <3>2. i \in 1..Len(inbox[r]) /\ \A j \in 1..i : inbox'[r][j] = inbox[r][j]
      BY <1>1, <2>2, <3>1
    <3>a. \A j \in 1..i - 1 : j \in 1..i
      BY <3>2
    <3>b. i \in 1..i
      BY <3>2
    <3>3. ~IsToken(inbox[r][i]) /\ \A j \in 1..i - 1 : IsToken(inbox[r][j])
      BY <2>2, <3>2, <3>a, <3>b, Zenon
    <3>. QED
      BY <1>2, <2>2, <3>2, <3>3 DEF ContentAt, CompletionIsLast
  <2>. QED
    BY <2>1, <2>2 DEF CompletionIsLast, LastChunk
<1>. QED
  BY <1>4, <1>5, <1>6, <1>7 DEF ContentAt

(* A completion or an error is published after the last token.              *)
LEMMA EndPublished ==
  ASSUME TypeOK, NEW r \in Requests, NEW e \in Events, ContentAt(r), ~IsToken(e),
         job[r] \in Failing \cup {"running"}, NoMoreTokens(r)',
         Publish(r, e), UNCHANGED <<produced, conn, sse, sent>>
  PROVE  ContentAt(r)'
<1>1. /\ inbox[r] \in Seq(Events) /\ sent[r] \in Seq(Chunks)
      /\ produced[r] \in Nat /\ missed[r] \in Nat
      /\ missed'[r] = missed[r]
      /\ inbox'[r] = IF conn[r] = "subscribed" THEN Append(inbox[r], e) ELSE inbox[r]
  BY DEF TypeOK, Publish, IsToken
<1>int. Len(inbox[r]) \in Int /\ Len(sent[r]) \in Int /\ produced[r] \in Int /\ missed[r] \in Int
  BY <1>1
<1>len. /\ Len(inbox[r]) \in Nat /\ Len(sent[r]) \in Nat
        /\ inbox[r] \in Seq(Events) /\ sent[r] \in Seq(Chunks)
        /\ inbox'[r] \in Seq(Events) /\ sent'[r] \in Seq(Chunks)
  BY <1>1
<1>2. SentInOrder(r)'
  BY <1>1 DEF ContentAt, SentInOrder, AllTokens, IsToken, Token
<1>3. UnsubscribedIsEmpty(r)'
  BY <1>1 DEF ContentAt, UnsubscribedIsEmpty, Failing
<1>4. InboxInOrder(r)'
  <2>1. CASE conn[r] # "subscribed"
    BY <1>1, <2>1 DEF ContentAt, InboxInOrder
  <2>2. CASE conn[r] = "subscribed"
    <3>1. inbox'[r] = Append(inbox[r], e) /\ Len(Append(inbox[r], e)) = Len(inbox[r]) + 1
      BY <1>1, <2>2
    <3>2. ASSUME sse[r] = "open", NEW i \in 1..Len(inbox[r]) + 1,
                 \A j \in 1..i : IsToken(Append(inbox[r], e)[j])
          PROVE  Append(inbox[r], e)[i] = Token(missed[r] + Len(sent[r]) + i)
      <4>1. i \in 1..Len(inbox[r])
        BY <1>1, <3>2
      <4>2. \A j \in 1..i : IsToken(inbox[r][j])
        BY <1>1, <3>2, <4>1
      <4>. QED
        BY <1>1, <3>2, <4>1, <4>2 DEF ContentAt, InboxInOrder
    <3>3. ~AllTokens(Append(inbox[r], e))
      BY <1>1, <3>1 DEF AllTokens
    <3>. QED
      BY <1>1, <3>1, <3>2, <3>3 DEF InboxInOrder
  <2>. QED
    BY <2>1, <2>2
<1>5. CompletionIsLast(r)'
  <2>1. sent[r] # <<>> /\ LastChunk(r).kind = "done" => Len(sent[r]) - 1 = produced[r] - missed[r]
    BY DEF ContentAt, CompletionIsLast
  <2>2. ASSUME sse[r] = "open", NEW i \in 1..Len(inbox'[r]),
               ~IsToken(inbox'[r][i]), \A j \in 1..i - 1 : IsToken(inbox'[r][j])
        PROVE  Len(sent[r]) + i - 1 = produced[r] - missed[r]
    <3>1. CASE i \in 1..Len(inbox[r])
      <4>1. ~IsToken(inbox[r][i]) /\ \A j \in 1..i - 1 : IsToken(inbox[r][j])
        BY <1>1, <2>2, <3>1
      <4>. QED
        BY <2>2, <3>1, <4>1 DEF ContentAt, CompletionIsLast
    <3>2. CASE i \notin 1..Len(inbox[r])
      <4>1. conn[r] = "subscribed" /\ i = Len(inbox[r]) + 1
        BY <1>1, <2>2, <3>2
      <4>2. AllTokens(inbox[r])
        BY <1>1, <2>2, <4>1 DEF AllTokens
      <4>3. Len(sent[r]) + Len(inbox[r]) = produced[r] - missed[r]
        BY <2>2, <4>1, <4>2 DEF ContentAt, InboxInOrder
      <4>. QED
        <5>1. Len(sent[r]) + (Len(inbox[r]) + 1) - 1 = produced[r] - missed[r]
          <6>. DEFINE m == Len(sent[r])
                     n == Len(inbox[r])
                     p == produced[r]
                     q == missed[r]
          <6>a. m \in Int /\ n \in Int /\ p \in Int /\ q \in Int /\ m + n = p - q
            BY <1>int, <4>3
          <6>b. m + (n + 1) - 1 = p - q
            <7>. HIDE DEF m, n, p, q
            <7>. QED
              BY <6>a
          <6>. QED
            BY <6>b
        <5>. QED
          BY <4>1, <5>1, Zenon
    <3>. QED
      BY <3>1, <3>2
  <2>. QED
    BY <1>1, <2>1, <2>2 DEF CompletionIsLast, LastChunk
<1>. QED
  BY <1>2, <1>3, <1>4, <1>5 DEF ContentAt

(* Opening a stream: nothing was read or sent before.                       *)
LEMMA SubscribeContent ==
  ASSUME TypeOK, NEW r \in Requests, ContentAt(r), Subscribe(r) \/ SubscribeTakesEffect(r)
  PROVE  ContentAt(r)'
<1>1. conn[r] \in {"none", "asked"}
  BY DEF Subscribe, SubscribeTakesEffect, ContentAt, UnsubscribedIsEmpty
<1>2. /\ inbox[r] = <<>> /\ produced[r] = missed[r] /\ sent[r] \in Seq(Chunks)
      /\ \A i \in 1..Len(sent[r]) : sent[r][i].kind = "timeout"
      /\ produced[r] \in Nat
  BY <1>1 DEF TypeOK, ContentAt, UnsubscribedIsEmpty
<1>3. UNCHANGED <<job, produced, missed, inbox, sent>>
  BY DEF Subscribe, SubscribeTakesEffect, workerVars, streamVars
<1>4. /\ sse'[r] = IF sse[r] = "enqueued" THEN "open" ELSE sse[r]
      /\ sse[r] \notin {"new"}
      /\ conn'[r] \in {"asked", "subscribed"}
  BY DEF Subscribe, SubscribeTakesEffect, streamVars, TypeOK, ContentAt, UnsubscribedIsEmpty
<1>5. sse'[r] = "open" => sent[r] = <<>>
  <2>1. sse'[r] = "open" => \A i \in 1..Len(sent[r]) : sent[r][i].kind = "token"
    BY <1>4 DEF ContentAt, SentInOrder, AllTokens, IsToken
  <2>2. sse'[r] = "open" => Len(sent[r]) = 0
    BY <2>1, <1>2
  <2>. QED
    BY <2>2, <1>2
<1>6. SentInOrder(r)'
  BY <1>3, <1>4 DEF ContentAt, SentInOrder, AllTokens, IsToken, Token
<1>7. UnsubscribedIsEmpty(r)'
  BY <1>2, <1>3, <1>4 DEF UnsubscribedIsEmpty
<1>8. InboxInOrder(r)'
  <2>. SUFFICES ASSUME sse'[r] = "open" PROVE InboxInOrder(r)'
    BY DEF InboxInOrder
  <2>1. inbox'[r] = <<>> /\ sent'[r] = <<>> /\ produced'[r] - missed'[r] = 0
    BY <1>2, <1>3, <1>5
  <2>2. Len(inbox'[r]) = 0 /\ Len(sent'[r]) = 0
    BY <2>1
  <2>. QED
    BY <2>1, <2>2 DEF InboxInOrder
<1>9. CompletionIsLast(r)'
  BY <1>2, <1>3, <1>4 DEF ContentAt, CompletionIsLast, LastChunk, NoMoreTokens
<1>. QED
  BY <1>6, <1>7, <1>8, <1>9 DEF ContentAt

(* A chunk that tells of a timeout ends the stream.                         *)
LEMMA TimeOutContent ==
  ASSUME TypeOK, NEW r \in Requests, ContentAt(r), TimeOut(r)
  PROVE  ContentAt(r)'
<1>1. /\ sent[r] \in Seq(Chunks)
      /\ sent'[r] = Append(sent[r], Terminal("timeout"))
      /\ sse[r] = "open" /\ sse'[r] = "ending"
      /\ UNCHANGED <<job, produced, missed, conn, inbox>>
  BY DEF TimeOut, TypeOK, workerVars, channelVars
<1>2. SentInOrder(r)'
  BY <1>1 DEF ContentAt, SentInOrder, AllTokens, IsToken, Token, Terminal
<1>3. UnsubscribedIsEmpty(r)'
  BY <1>1 DEF ContentAt, UnsubscribedIsEmpty, Terminal
<1>4. InboxInOrder(r)'
  BY <1>1 DEF InboxInOrder
<1>5. CompletionIsLast(r)'
  BY <1>1 DEF CompletionIsLast, LastChunk, Terminal
<1>. QED
  BY <1>2, <1>3, <1>4, <1>5 DEF ContentAt

(* The chunk of the event read next goes on where the chunks end.           *)
LEMMA ReceiveContent ==
  ASSUME TypeOK, NEW r \in Requests, ContentAt(r), Receive(r)
  PROVE  ContentAt(r)'
<1>. DEFINE e == Head(inbox[r])
<1>1. /\ inbox[r] \in Seq(Events) /\ inbox[r] # <<>> /\ sent[r] \in Seq(Chunks)
      /\ produced[r] \in Nat /\ missed[r] \in Nat
      /\ sse[r] = "open"
      /\ inbox'[r] = Tail(inbox[r])
      /\ sent'[r] = Append(sent[r], ChunkOf(e))
      /\ sse'[r] = IF IsToken(e) THEN "open" ELSE "ending"
      /\ UNCHANGED <<job, produced, missed, conn>>
  BY DEF Receive, TypeOK, workerVars, IsToken
<1>int. Len(inbox[r]) \in Int /\ Len(sent[r]) \in Int /\ produced[r] \in Int /\ missed[r] \in Int
  BY <1>1
<1>len. /\ Len(inbox[r]) \in Nat /\ Len(sent[r]) \in Nat
        /\ inbox[r] \in Seq(Events) /\ sent[r] \in Seq(Chunks)
        /\ inbox'[r] \in Seq(Events) /\ sent'[r] \in Seq(Chunks)
  <2>1. Tail(inbox[r]) \in Seq(Events) /\ Head(inbox[r]) \in Events
    BY <1>1
  <2>2. ChunkOf(e) \in Chunks
    BY <2>1, EventTypes
  <2>. QED
    BY <1>1, <2>1, <2>2
<1>2. e = inbox[r][1] /\ Len(inbox[r]) \in Nat \ {0} /\ e \in Events
  BY <1>1
<1>3. IsToken(e) => e = Token(missed[r] + Len(sent[r]) + 1) /\ ChunkOf(e) = e
  BY <1>1, <1>2 DEF ContentAt, InboxInOrder, ChunkOf, IsToken
<1>4. IsToken(ChunkOf(e)) <=> IsToken(e)
  BY DEF ChunkOf, IsToken, Terminal
<1>5. ~IsToken(e) => NoMoreTokens(r) /\ Len(sent[r]) = produced[r] - missed[r]
  <2>. SUFFICES ASSUME ~IsToken(inbox[r][1])
                PROVE  NoMoreTokens(r) /\ Len(sent[r]) = produced[r] - missed[r]
    BY <1>2
  <2>1. 1 \in 1..Len(inbox[r]) /\ \A j \in 1..1 - 1 : IsToken(inbox[r][j])
    BY <1>2
  <2>2. NoMoreTokens(r) /\ Len(sent[r]) + 1 - 1 = produced[r] - missed[r]
    BY <1>1, <2>1 DEF ContentAt, CompletionIsLast
  <2>. QED
    BY <1>1, <2>2
<1>a. /\ Len(sent'[r]) = Len(sent[r]) + 1
      /\ \A i \in 1..Len(sent[r]) : sent'[r][i] = sent[r][i]
      /\ sent'[r][Len(sent[r]) + 1] = ChunkOf(e)
  BY <1>1
<1>b. /\ Len(inbox'[r]) = Len(inbox[r]) - 1
      /\ \A i \in 1..Len(inbox'[r]) : inbox'[r][i] = inbox[r][i + 1]
  BY <1>1, <1>2
<1>c. \A i \in 1..Len(sent[r]) : sent[r][i] = Token(missed[r] + i) /\ IsToken(sent[r][i])
  BY <1>1 DEF ContentAt, SentInOrder, AllTokens
<1>6. SentInOrder(r)'
  <2>1. \A i \in 1..Len(sent'[r]) : IsToken(sent'[r][i]) => sent'[r][i] = Token(missed[r] + i)
    <3>1. IsToken(ChunkOf(e)) => ChunkOf(e) = Token(missed[r] + (Len(sent[r]) + 1))
      <4>1. missed[r] + Len(sent[r]) + 1 = missed[r] + (Len(sent[r]) + 1)
        BY <1>int, Lengths
      <4>. QED
        BY <1>3, <1>4, <4>1, Zenon
    <3>2. \A i \in 1..Len(sent'[r]) : i \in 1..Len(sent[r]) \/ i = Len(sent[r]) + 1
      BY <1>len, <1>a
    <3>. QED
      BY <1>a, <1>c, <3>1, <3>2
  <2>2. \A i \in 1..Len(sent'[r]) - 1 : IsToken(sent'[r][i])
    <3>1. \A i \in 1..Len(sent'[r]) - 1 : i \in 1..Len(sent[r])
      BY <1>len, <1>a
    <3>. QED
      BY <1>a, <1>c, <3>1
  <2>3. sse'[r] = "open" => AllTokens(sent'[r])
    BY <1>1, <1>4, <1>a, <1>c DEF AllTokens
  <2>. QED
    BY <1>1, <2>1, <2>2, <2>3 DEF SentInOrder
<1>7. UnsubscribedIsEmpty(r)'
  BY <1>1 DEF ContentAt, UnsubscribedIsEmpty
<1>8. InboxInOrder(r)'
  <2>. SUFFICES ASSUME IsToken(e) PROVE InboxInOrder(r)'
    BY <1>1 DEF InboxInOrder
  <2>1. ASSUME NEW i \in 1..Len(inbox'[r]), \A j \in 1..i : IsToken(inbox'[r][j])
        PROVE  inbox'[r][i] = Token(missed[r] + Len(sent'[r]) + i)
    <3>1. \A j \in 1..i + 1 : IsToken(inbox[r][j])
      <4>0. Len(inbox'[r]) \in Nat /\ i \in 0..Len(inbox'[r])
        BY <1>len
      <4>1. \A j \in 1..i + 1 : j = 1 \/ (j - 1 \in 1..i /\ inbox'[r][j - 1] = inbox[r][j])
        BY <4>0, <1>b, TailShift
      <4>. QED
        BY <1>2, <2>1, <4>1
    <3>2. i + 1 \in 1..Len(inbox[r])
      BY <1>2, <1>b
    <3>3. inbox[r][i + 1] = Token(missed[r] + Len(sent[r]) + (i + 1))
      BY <1>1, <3>1, <3>2 DEF ContentAt, InboxInOrder
    <3>i. i \in Int
      OBVIOUS
    <3>4. missed[r] + Len(sent[r]) + (i + 1) = missed[r] + Len(sent'[r]) + i
      <4>1. missed[r] + Len(sent[r]) + (i + 1) = missed[r] + (Len(sent[r]) + 1) + i
        BY <1>int, <3>i, Lengths, SMTT(20)
      <4>2. Len(sent'[r]) = Len(sent[r]) + 1
        BY <1>a
      <4>. QED
        BY <4>1, <4>2, Zenon
    <3>. QED
      BY <1>b, <3>3, <3>4
  <2>2. AllTokens(inbox'[r]) => AllTokens(inbox[r])
    <3>0. Len(inbox'[r]) \in Nat /\ Len(inbox'[r]) \in 0..Len(inbox'[r])
      BY <1>len
    <3>a. \A j \in 1..Len(inbox'[r]) + 1 :
            j = 1 \/ (j - 1 \in 1..Len(inbox'[r]) /\ inbox'[r][j - 1] = inbox[r][j])
      BY <3>0, <1>b, TailShift
    <3>1. \A j \in 1..Len(inbox[r]) :
            j = 1 \/ (j - 1 \in 1..Len(inbox'[r]) /\ inbox'[r][j - 1] = inbox[r][j])
      BY <1>len, <1>b, <3>a
    <3>. QED
      BY <1>2, <3>1 DEF AllTokens
  <2>3. conn[r] = "subscribed" /\ AllTokens(inbox[r]) =>
          Len(sent[r]) + Len(inbox[r]) = produced[r] - missed[r]
    BY <1>1 DEF ContentAt, InboxInOrder
  <2>4. Len(sent'[r]) + Len(inbox'[r]) = Len(sent[r]) + Len(inbox[r])
    <3>1. (Len(sent[r]) + 1) + (Len(inbox[r]) - 1) = Len(sent[r]) + Len(inbox[r])
      BY <1>int, Lengths
    <3>2. Len(sent'[r]) = Len(sent[r]) + 1 /\ Len(inbox'[r]) = Len(inbox[r]) - 1
      BY <1>a, <1>b
    <3>. QED
      BY <3>1, <3>2, Zenon
  <2>. QED
    BY <1>1, <2>1, <2>2, <2>3, <2>4 DEF InboxInOrder
<1>9. CompletionIsLast(r)'
  <2>1. sent'[r][Len(sent'[r])].kind = "done" =>
          NoMoreTokens(r) /\ Len(sent'[r]) - 1 = produced[r] - missed[r]
    <3>1. ChunkOf(e).kind = "done" => ~IsToken(e)
      BY <1>4 DEF IsToken
    <3>. QED
      BY <1>1, <1>5, <1>a, <3>1
  <2>2. ASSUME IsToken(e), NEW i \in 1..Len(inbox'[r]),
               ~IsToken(inbox'[r][i]), \A j \in 1..i - 1 : IsToken(inbox'[r][j])
        PROVE  NoMoreTokens(r) /\ Len(sent'[r]) + i - 1 = produced[r] - missed[r]
    <3>1. i + 1 \in 1..Len(inbox[r]) /\ ~IsToken(inbox[r][i + 1])
      BY <1>2, <1>b, <2>2
    <3>2. \A j \in 1..(i + 1) - 1 : IsToken(inbox[r][j])
      <4>0. Len(inbox'[r]) \in Nat /\ i - 1 \in 0..Len(inbox'[r]) /\ (i - 1) + 1 = (i + 1) - 1
        BY <1>len
      <4>a. \A j \in 1..(i - 1) + 1 :
              j = 1 \/ (j - 1 \in 1..i - 1 /\ inbox'[r][j - 1] = inbox[r][j])
        BY <4>0, <1>b, TailShift
      <4>1. \A j \in 1..(i + 1) - 1 :
              j = 1 \/ (j - 1 \in 1..i - 1 /\ inbox'[r][j - 1] = inbox[r][j])
        BY <4>0, <4>a, Zenon
      <4>. QED
        BY <1>2, <2>2, <4>1
    <3>3. NoMoreTokens(r) /\ Len(sent[r]) + (i + 1) - 1 = produced[r] - missed[r]
      BY <1>1, <3>1, <3>2 DEF ContentAt, CompletionIsLast
    <3>. QED
      BY <1>1, <1>a, <3>3
  <2>3. NoMoreTokens(r)' = NoMoreTokens(r)
    BY <1>1 DEF NoMoreTokens
  <2>. QED
    BY <1>1, <2>1, <2>2, <2>3 DEF CompletionIsLast, LastChunk
<1>. QED
  BY <1>6, <1>7, <1>8, <1>9 DEF ContentAt

(* A step of the worker on r leaves what is known of every stream intact ... *)
LEMMA WorkerContent ==
  ASSUME TypeOK, NEW r \in Requests, WorkerNext(r), NEW s \in Requests, ContentAt(s)
  PROVE  ContentAt(s)'
<1>1. CASE s # r
  <2>1. /\ produced'[s] = produced[s] /\ missed'[s] = missed[s] /\ inbox'[s] = inbox[s]
        /\ job'[s] = job[s] /\ UNCHANGED <<conn, sse, sent>>
    BY <1>1
    DEF WorkerNext, TakeJob, PublishToken, PublishDone, PublishFails, EngineFails, PublishError,
        WorkerStops, Publish, TypeOK, channelVars, streamVars
  <2>. QED
    BY <2>1, ContentKept DEF NoMoreTokens
<1>2. CASE s = r
  <2>1. CASE TakeJob(r) \/ EngineFails(r) \/ WorkerStops(r)
    <3>1. NoMoreTokens(r) => NoMoreTokens(r)'
      BY <2>1 DEF TakeJob, EngineFails, WorkerStops, NoMoreTokens, TypeOK
    <3>2. UNCHANGED <<produced, missed, inbox, conn, sse, sent>>
      BY <2>1 DEF TakeJob, EngineFails, WorkerStops, channelVars, streamVars
    <3>3. sse[r] # "new"
      BY <1>2, <2>1 DEF TakeJob, EngineFails, WorkerStops, Failing, ContentAt, UnsubscribedIsEmpty
    <3>. QED
      BY <1>2, <3>1, <3>2, <3>3, ContentKept
  <2>2. CASE PublishToken(r)
    BY <1>2, <2>2, TokenPublished DEF PublishToken, streamVars
  <2>3. CASE PublishDone(r)
    <3>1. Terminal("done") \in Events /\ ~IsToken(Terminal("done"))
      BY EventTypes DEF Terminal, IsToken
    <3>2. NoMoreTokens(r)'
      BY <2>3 DEF PublishDone, NoMoreTokens, TypeOK
    <3>. QED
      BY <1>2, <2>3, <3>1, <3>2, EndPublished DEF PublishDone, streamVars
  <2>4. CASE PublishFails(r)
    <3>1. job[r] = "running" /\ NoMoreTokens(r)' /\ UNCHANGED <<conn, sse, sent>>
      BY <2>4 DEF PublishFails, NoMoreTokens, TypeOK, streamVars
    <3>2. CASE UNCHANGED <<produced, missed, inbox>>
      <4>1. sse[r] # "new"
        BY <1>2, <3>1 DEF ContentAt, UnsubscribedIsEmpty
      <4>. QED
        BY <1>2, <3>1, <3>2, <4>1, ContentKept
    <3>3. CASE produced' = [produced EXCEPT ![r] = @ + 1] /\ Publish(r, Token(produced[r] + 1))
      BY <1>2, <3>1, <3>3, TokenPublished
    <3>4. CASE UNCHANGED produced /\ Publish(r, Terminal("done"))
      <4>1. Terminal("done") \in Events /\ ~IsToken(Terminal("done"))
        BY EventTypes DEF Terminal, IsToken
      <4>. QED
        BY <1>2, <3>1, <3>4, <4>1, EndPublished
    <3>. QED
      BY <2>4, <3>2, <3>3, <3>4 DEF PublishFails
  <2>5. CASE PublishError(r)
    <3>. DEFINE e == Terminal(IF job[r] = "raisedBlank" THEN "blank" ELSE "error")
    <3>1. e \in Events /\ ~IsToken(e)
      BY EventTypes DEF Terminal, IsToken
    <3>2. NoMoreTokens(r)'
      BY <2>5 DEF PublishError, Failing, NoMoreTokens, TypeOK
    <3>. QED
      BY <1>2, <2>5, <3>1, <3>2, EndPublished DEF PublishError, streamVars
  <2>. QED
    BY <2>1, <2>2, <2>3, <2>4, <2>5 DEF WorkerNext
<1>. QED
  BY <1>1, <1>2

(* ... and so does a step of stream r.                                      *)
LEMMA StreamContent ==
  ASSUME TypeOK, NEW r \in Requests, StreamNext(r), NEW s \in Requests, ContentAt(s)
  PROVE  ContentAt(s)'
<1>1. CASE s # r
  <2>1. /\ inbox'[s] = inbox[s] /\ job'[s] = job[s] /\ conn'[s] = conn[s] /\ sse'[s] = sse[s]
        /\ sent'[s] = sent[s] /\ UNCHANGED <<produced, missed>>
    BY <1>1
    DEF StreamNext, StreamStep, Enqueue, Subscribe, SubscribeExhausted, Receive, DeadlinePasses,
        TimeOut, ReadFails, BeginCleanup, EndCleanup, SubscribeFails, SubscribeTakesEffect,
        ConnectionLost, Disconnect, CleanupFails, TypeOK, workerVars, channelVars, streamVars
  <2>. QED
    BY <2>1, ContentKept DEF NoMoreTokens
<1>2. CASE s = r
  <2>1. CASE Subscribe(r) \/ SubscribeTakesEffect(r)
    BY <1>2, <2>1, SubscribeContent
  <2>2. CASE Receive(r)
    BY <1>2, <2>2, ReceiveContent
  <2>3. CASE TimeOut(r)
    BY <1>2, <2>3, TimeOutContent
  <2>4. CASE Enqueue(r)
    <3>1. /\ NoMoreTokens(r) => NoMoreTokens(r)'
          /\ sse[r] = "new" /\ sse'[r] \in {"enqueued", "refused"}
          /\ UNCHANGED <<produced, missed, inbox, conn, sent>>
      BY <1>2, <2>4
      DEF Enqueue, NoMoreTokens, TypeOK, channelVars, ContentAt, UnsubscribedIsEmpty
    <3>. QED
      BY <1>2, <3>1, ContentKept
  <2>5. CASE SubscribeExhausted(r) \/ SubscribeFails(r)
    <3>1. /\ sse[r] = "enqueued" /\ sse'[r] \in {"aborted", "leaked"}
          /\ UNCHANGED <<job, produced, missed, inbox, conn, sent>>
      BY <2>5 DEF SubscribeExhausted, SubscribeFails, TypeOK, workerVars, channelVars
    <3>. QED
      BY <1>2, <3>1, ContentKept DEF NoMoreTokens
  <2>6. CASE DeadlinePasses(r) \/ ConnectionLost(r)
    <3>1. /\ conn'[r] \in {conn[r], "broken"}
          /\ UNCHANGED <<job, produced, missed, inbox, sent, sse>>
      BY <2>6 DEF DeadlinePasses, ConnectionLost, TypeOK, workerVars, channelVars, streamVars
    <3>2. sse[r] \in {"new", "enqueued"} => conn'[r] = conn[r]
      BY <1>2, <2>6 DEF DeadlinePasses, ConnectionLost, ContentAt, UnsubscribedIsEmpty, channelVars
    <3>. QED
      BY <1>2, <3>1, <3>2, ContentKept DEF NoMoreTokens
  <2>7. CASE ReadFails(r) \/ BeginCleanup(r) \/ EndCleanup(r) \/ CleanupFails(r)
    <3>1. /\ sse'[r] \in {"ending", "cleaning", "closed", "leaked"}
          /\ conn'[r] \in {conn[r], "closed"}
          /\ UNCHANGED <<job, produced, missed, inbox, sent>>
      BY <2>7 DEF ReadFails, BeginCleanup, EndCleanup, CleanupFails, TypeOK, workerVars, channelVars
    <3>. QED
      BY <1>2, <3>1, ContentKept DEF NoMoreTokens
  <2>8. CASE Disconnect(r)
    <3>1. /\ sse'[r] \in {"aborted", "ending", "cleaning", "leaked"}
          /\ sse'[r] = "aborted" => sse[r] = "enqueued"
          /\ UNCHANGED <<job, produced, missed, inbox, conn, sent>>
      BY <2>8 DEF Disconnect, Interrupted, TypeOK, workerVars, channelVars
    <3>. QED
      BY <1>2, <3>1, ContentKept DEF NoMoreTokens
  <2>. QED
    BY <2>1, <2>2, <2>3, <2>4, <2>5, <2>6, <2>7, <2>8 DEF StreamNext, StreamStep
<1>. QED
  BY <1>1, <1>2

(* Initially nothing was published or sent.                                 *)
LEMMA InitContent == Init => ContentInv
BY DEF Init, ContentInv, ContentAt, SentInOrder, UnsubscribedIsEmpty, InboxInOrder,
       CompletionIsLast, AllTokens, IsToken, LastChunk

(* The inductive invariant is kept by every step.                           *)
LEMMA InvStep == IInv /\ [Next]_vars => IInv'
<1>. SUFFICES ASSUME IInv, [Next]_vars PROVE IInv'
  OBVIOUS
<1>1. TypeOK' /\ GaugeExact' /\ PoolAccounted'
  BY CountsStep DEF IInv
<1>2. ASSUME NEW s \in Requests PROVE ContentAt(s)'
  <2>0. TypeOK /\ ContentAt(s)
    BY DEF IInv, ContentInv
  <2>1. CASE UNCHANGED vars \/ TakeConnection \/ ReturnConnection
    <3>1. UNCHANGED <<job, produced, missed, inbox, conn, sent, sse>>
      BY <2>1 DEF vars, TakeConnection, ReturnConnection, workerVars, channelVars, streamVars
    <3>. QED
      BY <2>0, <3>1, ContentKept DEF NoMoreTokens
  <2>2. ASSUME NEW r \in Requests, WorkerNext(r) PROVE ContentAt(s)'
    BY <2>0, <2>2, WorkerContent
  <2>3. ASSUME NEW r \in Requests, StreamNext(r) PROVE ContentAt(s)'
    BY <2>0, <2>3, StreamContent
  <2>. QED
    BY <2>1, <2>2, <2>3 DEF Next
<1>. QED
  BY <1>1, <1>2 DEF IInv, ContentInv

(* The inductive invariant of the streams.                                  *)
THEOREM Invariance == Spec => []IInv
<1>1. Init => IInv
  BY InitCounts, InitContent DEF IInv
<1>. QED
  BY <1>1, InvStep, PTL DEF Spec

(* The chunks of a stream are consecutive tokens, and nothing follows the    *)
(* first chunk that is not a token (sse_manager.py: every other chunk is     *)
(* followed by a return).                                                   *)
THEOREM NoHoles == Spec => []StreamWellFormed
<1>1. IInv => StreamWellFormed
  <2>. SUFFICES ASSUME IInv, NEW r \in Requests, NEW i \in 2..Len(sent[r])
                PROVE  /\ sent[r][i - 1].kind = "token"
                       /\ sent[r][i].kind = "token" => sent[r][i].token = sent[r][i - 1].token + 1
    BY DEF StreamWellFormed
  <2>1. sent[r] \in Seq(Chunks) /\ missed[r] \in Nat /\ SentInOrder(r)
    BY DEF IInv, TypeOK, ContentInv, ContentAt
  <2>2. IsToken(sent[r][i - 1]) /\ i - 1 \in 1..Len(sent[r])
    BY <2>1 DEF SentInOrder
  <2>3. sent[r][i - 1] = Token(missed[r] + (i - 1))
    BY <2>1, <2>2 DEF SentInOrder
  <2>4. IsToken(sent[r][i]) => sent[r][i] = Token(missed[r] + i)
    BY <2>1 DEF SentInOrder
  <2>5. \A m, k \in Int : m + k = (m + (k - 1)) + 1
    OBVIOUS
  <2>i. missed[r] \in Int /\ i \in Int
    BY <2>1
  <2>6. missed[r] + i = (missed[r] + (i - 1)) + 1
    BY <2>i, <2>5, Zenon
  <2>. QED
    BY <2>2, <2>3, <2>4, <2>6 DEF IsToken, Token
<1>. QED
  BY <1>1, Invariance, PTL

(* A client that read [DONE] got all the tokens published since its          *)
(* subscription took effect, whatever failed on the way.                    *)
THEOREM DoneIsComplete == Spec => []DoneMeansSuffix
<1>1. IInv => DoneMeansSuffix
  <2>. SUFFICES ASSUME IInv, NEW r \in Requests, sent[r] # <<>>, LastChunk(r).kind = "done"
                PROVE  /\ Len(sent[r]) - 1 = produced[r] - missed[r]
                       /\ \A i \in 1..Len(sent[r]) - 1 : sent[r][i] = Token(missed[r] + i)
    BY DEF DoneMeansSuffix
  <2>1. sent[r] \in Seq(Chunks) /\ SentInOrder(r) /\ CompletionIsLast(r)
    BY DEF IInv, TypeOK, ContentInv, ContentAt
  <2>. QED
    BY <2>1 DEF SentInOrder, CompletionIsLast
<1>. QED
  BY <1>1, Invariance, PTL

-----------------------------------------------------------------------------
(* Steps that are no fault: nothing but tokens and completions is published, *)
(* whoever takes the step ...                                               *)
LEMMA WorkerAnswer ==
  ASSUME TypeOK, NEW r \in Requests, WorkerNext(r), faults' = faults,
         NEW s \in Requests, AnswerAt(s)
  PROVE  AnswerAt(s)'
<1>1. UNCHANGED <<conn, sse, sent, cancelled>>
  BY DEF WorkerNext, TakeJob, PublishToken, PublishDone, PublishFails, EngineFails, PublishError,
         WorkerStops, channelVars, streamVars
<1>2. \/ UNCHANGED inbox
      \/ \E e \in Events : e.kind \in {"token", "done"} /\ inbox' = [inbox EXCEPT ![r] = Append(@, e)]
      \/ PublishError(r)
  <2>1. faults' # faults + 1
    BY BoundsAssumption DEF TypeOK
  <2>2. CASE PublishToken(r)
    <3>1. Token(produced[r] + 1) \in Events /\ Token(produced[r] + 1).kind = "token"
      BY EventTypes DEF TypeOK, Token
    <3>. QED
      BY <2>2, <3>1 DEF PublishToken, Publish
  <2>3. CASE PublishDone(r)
    <3>1. Terminal("done") \in Events /\ Terminal("done").kind = "done"
      BY EventTypes DEF Terminal
    <3>. QED
      BY <2>3, <3>1 DEF PublishDone, Publish
  <2>. QED
    BY <2>1, <2>2, <2>3
    DEF WorkerNext, TakeJob, PublishFails, EngineFails, WorkerStops, Fault, channelVars
<1>3. job'[s] \notin Failing
  <2>1. faults' # faults + 1
    BY BoundsAssumption DEF TypeOK
  <2>2. CASE TakeJob(r) \/ PublishToken(r) \/ PublishDone(r) \/ PublishError(r)
    BY <2>2 DEF TakeJob, PublishToken, PublishDone, PublishError, AnswerAt, Failing, TypeOK
  <2>. QED
    BY <2>1, <2>2 DEF WorkerNext, PublishFails, EngineFails, WorkerStops, Fault
<1>4. ~PublishError(r) \/ (s # r /\ inbox'[s] = inbox[s])
  BY DEF PublishError, Publish, AnswerAt, TypeOK
<1>5. \A i \in 1..Len(inbox'[s]) : inbox'[s][i].kind \in {"token", "done"}
  <2>1. CASE inbox'[s] = inbox[s]
    BY <2>1 DEF AnswerAt
  <2>2. CASE inbox'[s] # inbox[s]
    <3>1. PICK e \in Events : e.kind \in {"token", "done"} /\ inbox'[s] = Append(inbox[s], e)
      BY <1>2, <1>4, <2>2 DEF TypeOK
    <3>2. inbox[s] \in Seq(Events)
      BY DEF TypeOK
    <3>. QED
      BY <3>1, <3>2 DEF AnswerAt
  <2>. QED
    BY <2>1, <2>2
<1>. QED
  BY <1>1, <1>3, <1>5 DEF AnswerAt, LastChunk

(* ... and a stream that is ended has sent its terminal chunk.              *)
LEMMA StreamAnswer ==
  ASSUME TypeOK, NEW r \in Requests, StreamNext(r), faults' = faults,
         NEW s \in Requests, AnswerAt(s)
  PROVE  AnswerAt(s)'
<1>0. faults' # faults + 1
  BY BoundsAssumption DEF TypeOK
<1>1. CASE s # r
  <2>1. /\ inbox'[s] = inbox[s] /\ job'[s] = job[s] /\ conn'[s] = conn[s] /\ sse'[s] = sse[s]
        /\ sent'[s] = sent[s] /\ (s \in cancelled' <=> s \in cancelled)
    BY <1>1
    DEF StreamNext, StreamStep, Enqueue, Subscribe, SubscribeExhausted, Receive, DeadlinePasses,
        TimeOut, ReadFails, BeginCleanup, EndCleanup, SubscribeFails, SubscribeTakesEffect,
        ConnectionLost, Disconnect, CleanupFails, TypeOK, workerVars, channelVars, streamVars
  <2>. QED
    BY <2>1 DEF AnswerAt, LastChunk
<1>2. CASE s = r
  <2>1. CASE Receive(r)
    <3>. DEFINE e == Head(inbox[r])
    <3>1. /\ inbox[r] \in Seq(Events) /\ inbox[r] # <<>> /\ sent[r] \in Seq(Chunks)
          /\ inbox'[r] = Tail(inbox[r])
          /\ sent'[r] = Append(sent[r], ChunkOf(e))
          /\ sse'[r] = IF e.kind = "token" THEN sse[r] ELSE "ending"
          /\ sse[r] = "open"
          /\ UNCHANGED <<job, conn, cancelled>>
      BY <2>1 DEF Receive, TypeOK, workerVars
    <3>2. e = inbox[r][1] /\ 1 \in 1..Len(inbox[r])
      BY <3>1
    <3>3. e.kind \in {"token", "done"}
      BY <1>2, <3>2 DEF AnswerAt
    <3>4. e.kind # "token" => ChunkOf(e).kind = "done"
      BY <3>3 DEF ChunkOf
    <3>5. \A i \in 1..Len(inbox'[r]) : inbox'[r][i] = inbox[r][i + 1] /\ i + 1 \in 1..Len(inbox[r])
      BY <3>1
    <3>6. \A i \in 1..Len(inbox'[r]) : inbox'[r][i].kind \in {"token", "done"}
      BY <1>2, <3>5 DEF AnswerAt
    <3>b. ChunkOf(e) \in Chunks
      BY <3>1, EventTypes
    <3>7. sent'[r] # <<>> /\ sent'[r][Len(sent'[r])] = ChunkOf(e)
      BY <3>1, <3>b, LastAppended
    <3>. QED
      BY <1>2, <3>1, <3>4, <3>6, <3>7 DEF AnswerAt, LastChunk
  <2>2. CASE TimeOut(r)
    <3>0. sent[r] \in Seq(Chunks) /\ sent'[r] = Append(sent[r], Terminal("timeout"))
      BY <2>2 DEF TimeOut, TypeOK
    <3>a. sent'[r] # <<>> /\ sent'[r][Len(sent'[r])] = Terminal("timeout")
      BY <3>0, EventTypes, LastAppended
    <3>1. sent'[r] # <<>> /\ sent'[r][Len(sent'[r])].kind = "timeout"
      BY <3>a DEF Terminal
    <3>2. UNCHANGED <<job, conn, inbox>>
      BY <2>2 DEF TimeOut, workerVars, channelVars
    <3>. QED
      BY <1>2, <3>1, <3>2 DEF AnswerAt, LastChunk
  <2>3. CASE ReadFails(r)
    BY <1>2, <2>3 DEF ReadFails, AnswerAt
  <2>4. CASE SubscribeFails(r) \/ ConnectionLost(r)
    BY <1>0, <2>4 DEF SubscribeFails, ConnectionLost, Fault
  <2>5. CASE Disconnect(r)
    <3>1. r \in cancelled' /\ UNCHANGED <<job, conn, inbox>>
      BY <2>5 DEF Disconnect, workerVars, channelVars
    <3>. QED
      BY <1>2, <3>1 DEF AnswerAt
  <2>6. CASE \/ Enqueue(r) \/ Subscribe(r) \/ SubscribeExhausted(r) \/ DeadlinePasses(r)
             \/ BeginCleanup(r) \/ EndCleanup(r) \/ CleanupFails(r) \/ SubscribeTakesEffect(r)
    <3>1. /\ job'[r] \in {job[r], "queued"} /\ conn'[r] \in {conn[r], "asked", "subscribed", "closed"}
          /\ UNCHANGED <<inbox, sent, cancelled>>
      BY <2>6
      DEF Enqueue, Subscribe, SubscribeExhausted, DeadlinePasses, BeginCleanup, EndCleanup,
          CleanupFails, SubscribeTakesEffect, TypeOK, workerVars, channelVars, streamVars
    <3>2. sse'[r] \in {"ending", "cleaning", "closed"} => sse[r] \in {"ending", "cleaning", "closed"}
      BY <2>6
      DEF Enqueue, Subscribe, SubscribeExhausted, DeadlinePasses, BeginCleanup, EndCleanup,
          CleanupFails, SubscribeTakesEffect, TypeOK, streamVars
    <3>. QED
      BY <1>2, <3>1, <3>2 DEF AnswerAt, LastChunk, Failing
  <2>. QED
    BY <2>1, <2>2, <2>3, <2>4, <2>5, <2>6 DEF StreamNext, StreamStep
<1>. QED
  BY <1>1, <1>2

(* A step without a fault keeps every answer on its way.                    *)
LEMMA AnswerStep ==
  TypeOK /\ TypeOK' /\ NoFaultAnswer /\ [Next]_vars => NoFaultAnswer'
<1>. SUFFICES ASSUME TypeOK, TypeOK', NoFaultAnswer, [Next]_vars, faults' = 0, NEW s \in Requests
              PROVE  AnswerAt(s)'
  BY DEF NoFaultAnswer
<1>1. faults = 0 /\ faults' = faults
  <2>1. faults' = faults \/ faults' = faults + 1
    BY DEF Next, WorkerNext, TakeJob, PublishToken, PublishDone, PublishFails, EngineFails,
           PublishError, WorkerStops, StreamNext, StreamStep, Enqueue, Subscribe,
           SubscribeExhausted, Receive, DeadlinePasses, TimeOut, ReadFails, BeginCleanup,
           EndCleanup, SubscribeFails, SubscribeTakesEffect, ConnectionLost, Disconnect,
           CleanupFails, Fault, TakeConnection, ReturnConnection, vars
  <2>. QED
    BY <2>1, BoundsAssumption DEF TypeOK
<1>2. AnswerAt(s)
  BY <1>1 DEF NoFaultAnswer
<1>3. CASE UNCHANGED vars \/ TakeConnection \/ ReturnConnection
  <2>1. UNCHANGED <<job, conn, inbox, sse, sent, cancelled>>
    BY <1>3 DEF vars, TakeConnection, ReturnConnection, workerVars, channelVars, streamVars
  <2>. QED
    BY <1>2, <2>1 DEF AnswerAt, LastChunk
<1>4. ASSUME NEW r \in Requests, WorkerNext(r) PROVE AnswerAt(s)'
  BY <1>1, <1>2, <1>4, WorkerAnswer
<1>5. ASSUME NEW r \in Requests, StreamNext(r) PROVE AnswerAt(s)'
  BY <1>1, <1>2, <1>5, StreamAnswer
<1>. QED
  BY <1>3, <1>4, <1>5 DEF Next

(* Without a fault every stream whose client stayed ends with [DONE] or with *)
(* the timeout chunk (sse_manager.py: the returns of _listen_with_timeout).  *)
THEOREM AlwaysAnswered == Spec => []ClosedMeansAnswered
<1>1. Init => NoFaultAnswer
  BY DEF Init, NoFaultAnswer, AnswerAt, Failing
<1>2. NoFaultAnswer => ClosedMeansAnswered
  BY DEF NoFaultAnswer, AnswerAt, ClosedMeansAnswered
<1>. QED
  BY <1>1, <1>2, TypeCorrect, AnswerStep, PTL DEF Spec
=============================================================================
