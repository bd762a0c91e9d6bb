--------------------------- MODULE JobQueueProofs ---------------------------
(***************************************************************************)
(* Theorems about JobQueue for every set of requests and workers and every *)
(* bound.                                                                  *)
(***************************************************************************)
EXTENDS JobQueue, TLAPS, FiniteSetTheorems

(* Creating a group keeps the types of the group state and can only cost a  *)
(* fault within the budget.                                                 *)
LEMMA XGroupCreateType ==
  ASSUME TypeOK, NEW q \in Queues, XGroupCreate(q)
  PROVE  /\ groups' \subseteq Queues
         /\ lastDelivered' \in [Queues -> Nat]
         /\ faults' \in 0..MaxFaults
BY BoundsAssumption DEF TypeOK, XGroupCreate, Fault, groupVars

(* Appending an entry keeps the types of the stream state.                  *)
LEMMA XAddType ==
  ASSUME TypeOK, NEW r \in Requests, XAdd(r)
  PROVE  /\ entries' \in [Queues -> SUBSET Requests]
         /\ entryId' \in [Requests -> Nat]
         /\ lastId' \in [Queues -> Nat]
<1>1. QueueOf(r) \in Queues
  BY DEF QueueOf, Queues
<1>2. entryId' = [entryId EXCEPT ![r] = lastId[QueueOf(r)] + 1]
      /\ lastId' = [lastId EXCEPT ![QueueOf(r)] = @ + 1]
  BY DEF XAdd
<1>3. PICK gone : entries' = [entries EXCEPT ![QueueOf(r)] = (@ \cup {r}) \ gone]
  BY <1>1 DEF XAdd, TypeOK
<1>. QED
  BY <1>1, <1>2, <1>3 DEF TypeOK

(* Delivering an entry keeps the types of what it changes.                  *)
LEMMA DeliverType ==
  ASSUME TypeOK, NEW w \in Workers, NEW r \in Requests, Deliver(w, r)
  PROVE  /\ lastDelivered' \in [Queues -> Nat]
         /\ pel' \in [Requests -> Workers \cup {None}]
         /\ passed' \in [Requests -> Nat]
BY DEF TypeOK, Deliver

(* The polling loops keep the types of the loop state.                      *)
LEMMA NextQueueType ==
  ASSUME TypeOK, NEW w \in Workers, NEW f \in LoopStates, NextQueue(w, f)
  PROVE  /\ wqueue' \in [Workers -> Queues]
         /\ wpc' \in [Workers -> LoopStates]
         /\ \A v \in Workers : v # w => wpc'[v] = wpc[v]
         /\ wpc'[w] \in {wpc[w], f}
BY DEF TypeOK, NextQueue, Queues

(* The initial state is typed.                                              *)
LEMMA InitType == Init => TypeOK
BY BoundsAssumption DEF Init, TypeOK, Queues, Phases, LoopStates

(* Every step of the gateway keeps the types.                               *)
LEMMA GatewayType == TypeOK /\ GatewayNext => TypeOK'
<1>. SUFFICES ASSUME TypeOK, GatewayNext PROVE TypeOK'
  OBVIOUS
<1>1. CASE GatewayBoot
  BY <1>1 DEF GatewayBoot, TypeOK, Queues, queueVars, groupVars, workerVars
<1>2. CASE GatewayEnsureGroup
  BY <1>2, XGroupCreateType DEF GatewayEnsureGroup, TypeOK, Queues, queueVars, workerVars
<1>3. CASE GatewayCrash
  BY <1>3, BoundsAssumption
  DEF GatewayCrash, Fault, TypeOK, Phases, queueVars, groupVars, workerVars
<1>4. ASSUME NEW r \in Requests, CheckLength(r) PROVE TypeOK'
  BY <1>4 DEF CheckLength, TypeOK, Phases, queueVars, groupVars, workerVars
<1>5. ASSUME NEW r \in Requests, Enqueue(r) PROVE TypeOK'
  BY <1>5, XAddType DEF Enqueue, TypeOK, Phases, groupVars, workerVars
<1>6. ASSUME NEW r \in Requests, EnqueueFails(r) PROVE TypeOK'
  BY <1>6, XAddType, BoundsAssumption
  DEF EnqueueFails, Fault, TypeOK, Phases, groupVars, workerVars, queueVars
<1>. QED
  BY <1>1, <1>2, <1>3, <1>4, <1>5, <1>6 DEF GatewayNext

(* So does every step of a worker loop whose Redis calls succeed ...        *)
LEMMA WorkerStepType ==
  ASSUME TypeOK, NEW w \in Workers, WorkerStep(w)
  PROVE  TypeOK'
<1>. USE NoneAssumption
<1>1. CASE EnsureGroup(w)
  BY <1>1, XGroupCreateType, NextQueueType
  DEF EnsureGroup, TypeOK, LoopStates, queueVars, gatewayVars
<1>2. CASE Reclaim(w)
  BY <1>2, NextQueueType DEF Reclaim, TypeOK, LoopStates, queueVars, groupVars, gatewayVars
<1>3. CASE Poll(w)
  BY <1>3, DeliverType DEF Poll, TypeOK, LoopStates, queueVars, gatewayVars
<1>4. CASE PollEmpty(w)
  BY <1>4, NextQueueType DEF PollEmpty, TypeOK, LoopStates, queueVars, groupVars, gatewayVars
<1>5. CASE Accept(w)
  BY <1>5 DEF Accept, TypeOK, Queues, LoopStates, queueVars, groupVars, gatewayVars
<1>6. CASE Discard(w)
  BY <1>6 DEF Discard, XAck, TypeOK, Queues, LoopStates, queueVars, groupVars, gatewayVars
<1>7. CASE Finish(w)
  BY <1>7 DEF Finish, TypeOK, LoopStates, queueVars, groupVars, gatewayVars
<1>8. CASE Ack(w)
  BY <1>8 DEF Ack, XAck, TypeOK, LoopStates, queueVars, groupVars, gatewayVars
<1>. QED
  BY <1>1, <1>2, <1>3, <1>4, <1>5, <1>6, <1>7, <1>8 DEF WorkerStep

(* ... and every failure of a worker.                                       *)
LEMMA WorkerFaultType ==
  ASSUME TypeOK, NEW w \in Workers, WorkerFault(w)
  PROVE  TypeOK'
<1>. USE NoneAssumption, BoundsAssumption DEF Fault
<1>1. CASE PollFails(w)
  BY <1>1, DeliverType, NextQueueType
  DEF PollFails, TypeOK, LoopStates, queueVars, gatewayVars
<1>2. CASE DiscardFails(w)
  BY <1>2 DEF DiscardFails, XAck, TypeOK, Queues, LoopStates, queueVars, groupVars, gatewayVars
<1>3. CASE AckFails(w)
  BY <1>3 DEF AckFails, XAck, TypeOK, LoopStates, queueVars, groupVars, gatewayVars
<1>4. CASE Crash(w)
  BY <1>4 DEF Crash, TypeOK, Queues, LoopStates, queueVars, groupVars, gatewayVars
<1>5. ASSUME NEW end \in {"dead", "down"}, Abort(w, end) PROVE TypeOK'
  BY <1>5 DEF Abort, TypeOK, LoopStates, queueVars, groupVars, gatewayVars
<1>. QED
  BY <1>1, <1>2, <1>3, <1>4, <1>5 DEF WorkerFault

(* Every step of the queue keeps the types.                                 *)
LEMMA TypeStep == TypeOK /\ [Next]_vars => TypeOK'
<1>1. ASSUME TypeOK, NEW w \in Workers, Boot(w) PROVE TypeOK'
  BY <1>1 DEF Boot, TypeOK, LoopStates, queueVars, groupVars, gatewayVars
<1>2. ASSUME TypeOK, NEW r \in Requests, Expire(r) PROVE TypeOK'
  BY <1>2 DEF Expire, TypeOK, queueVars, groupVars, gatewayVars, workerVars
<1>3. TypeOK /\ UNCHANGED vars => TypeOK'
  BY DEF TypeOK, vars, queueVars, groupVars, gatewayVars, workerVars
<1>. QED
  BY <1>1, <1>2, <1>3, GatewayType, WorkerStepType, WorkerFaultType DEF Next, WorkerNext

(* The variables keep their types, and a worker has a job in hand exactly   *)
(* between the XREADGROUP that returned it and the end of ack_job.          *)
THEOREM TypeCorrect == Spec => []TypeOK
  BY InitType, TypeStep, PTL DEF Spec

-----------------------------------------------------------------------------
(* The streams: how each kind of step moves ids and cursors.                *)

(* Creating a group moves a cursor forward at most, to the last id.         *)
LEMMA XGroupCreateIds ==
  ASSUME TypeOK, IdsInOrder, NEW q \in Queues, XGroupCreate(q)
  PROVE  \A p \in Queues : lastDelivered[p] <= lastDelivered'[p]
                            /\ lastDelivered'[p] <= lastId[p]
BY DEF TypeOK, IdsInOrder, XGroupCreate, groupVars

(* An XADD gives the request the next id of its stream and changes no other.*)
LEMMA XAddIds ==
  ASSUME TypeOK, IdsInOrder, NEW r \in Requests, XAdd(r), phase[r] = "checked"
  PROVE  /\ entryId[r] = 0
         /\ entryId' = [entryId EXCEPT ![r] = lastId[QueueOf(r)] + 1]
         /\ lastId' = [lastId EXCEPT ![QueueOf(r)] = @ + 1]
         /\ \A q \in Queues : entries'[q] \subseteq
              entries[q] \cup (IF q = QueueOf(r) THEN {r} ELSE {})
<1>1. QueueOf(r) \in Queues
  BY DEF QueueOf, Queues
<1>2. PICK gone : entries' = [entries EXCEPT ![QueueOf(r)] = (@ \cup {r}) \ gone]
  BY <1>1 DEF XAdd, TypeOK
<1>. QED
  BY <1>1, <1>2 DEF XAdd, TypeOK, IdsInOrder

(* Every request belongs to one of the two queues.                          *)
LEMMA QueueOfType == \A r \in Requests : QueueOf(r) \in Queues
BY DEF QueueOf, Queues

(* An XADD, with or without its reply, keeps the ids in order.              *)
LEMMA AddKeepsIds ==
  ASSUME TypeOK, IdsInOrder, NEW r \in Requests, XAdd(r), phase[r] = "checked",
         UNCHANGED lastDelivered,
         phase' = [phase EXCEPT ![r] = "queued"] \/ phase' = [phase EXCEPT ![r] = "failed"]
  PROVE  IdsInOrder'
<1>. USE XAddIds, QueueOfType DEF TypeOK, IdsInOrder
<1>1. \A s \in Requests :
        /\ s # r => entryId'[s] = entryId[s] /\ phase'[s] = phase[s]
        /\ entryId'[r] = lastId[QueueOf(r)] + 1
        /\ phase'[r] \in {"queued", "failed"}
  OBVIOUS
<1>2. \A q \in Queues : lastId'[q] = IF q = QueueOf(r) THEN lastId[q] + 1 ELSE lastId[q]
  OBVIOUS
<1>3. \A s \in Requests :
        /\ entryId'[s] <= lastId'[QueueOf(s)]
        /\ phase'[s] \in {"new", "checked", "rejected"} => entryId'[s] = 0
        /\ phase'[s] = "queued" => entryId'[s] > 0
  <2>. TAKE s \in Requests
  <2>1. lastId[QueueOf(s)] \in Nat /\ entryId[s] \in Nat
    OBVIOUS
  <2>2. CASE s = r
    BY <1>1, <1>2, <2>1, <2>2
  <2>3. CASE s # r
    <3>1. entryId'[s] = entryId[s] /\ phase'[s] = phase[s]
      BY <1>1, <2>3
    <3>2. lastId[QueueOf(s)] <= lastId'[QueueOf(s)]
      <4>1. QueueOf(s) \in Queues
        BY QueueOfType
      <4>. QED
        BY <1>2, <2>1, <4>1
    <3>3. /\ entryId[s] <= lastId[QueueOf(s)]
          /\ phase[s] \in {"new", "checked", "rejected"} => entryId[s] = 0
          /\ phase[s] = "queued" => entryId[s] > 0
      OBVIOUS
    <3>. QED
      BY <2>1, <3>1, <3>2, <3>3
  <2>. QED
    BY <2>2, <2>3
<1>4. \A s, t \in Requests :
        QueueOf(s) = QueueOf(t) /\ entryId'[s] = entryId'[t] /\ entryId'[s] > 0 => s = t
  BY <1>1
<1>5. \A q \in Queues : lastDelivered'[q] <= lastId'[q]
  BY <1>2
<1>6. \A q \in Queues : \A s \in entries'[q] : QueueOf(s) = q /\ entryId'[s] > 0
  BY <1>1
<1>. QED
  BY <1>3, <1>4, <1>5, <1>6

(* Every step keeps the entry ids in order.                                 *)
LEMMA IdsStep == TypeOK /\ IdsInOrder /\ [Next]_vars => IdsInOrder'
<1>. SUFFICES ASSUME TypeOK, IdsInOrder, [Next]_vars PROVE IdsInOrder'
  OBVIOUS
<1>. USE QueueOfType
<1>1. CASE GatewayEnsureGroup
  BY <1>1, XGroupCreateIds DEF GatewayEnsureGroup, IdsInOrder, queueVars
<1>2. CASE GatewayBoot \/ GatewayCrash \/ \E r \in Requests : CheckLength(r) \/ Expire(r)
  BY <1>2 DEF GatewayBoot, GatewayCrash, CheckLength, Expire, TypeOK, IdsInOrder,
              queueVars, groupVars, gatewayVars
<1>3. ASSUME NEW r \in Requests, Enqueue(r) PROVE IdsInOrder'
  BY <1>3, AddKeepsIds DEF Enqueue, groupVars
<1>4. ASSUME NEW r \in Requests, EnqueueFails(r) PROVE IdsInOrder'
  <2>1. CASE UNCHANGED queueVars
    BY <1>4, <2>1 DEF EnqueueFails, TypeOK, IdsInOrder, queueVars, groupVars
  <2>2. CASE phase[r] = "checked" /\ XAdd(r)
    BY <1>4, <2>2, AddKeepsIds DEF EnqueueFails, groupVars
  <2>. QED
    BY <1>4, <2>1, <2>2 DEF EnqueueFails
<1>5. ASSUME NEW w \in Workers, EnsureGroup(w) PROVE IdsInOrder'
  BY <1>5, XGroupCreateIds DEF EnsureGroup, TypeOK, IdsInOrder, queueVars, gatewayVars
<1>6. ASSUME NEW w \in Workers, NEW r \in Requests, Deliver(w, r),
             UNCHANGED <<queueVars, phase>>
      PROVE  IdsInOrder'
  BY <1>6 DEF Deliver, Visible, TypeOK, IdsInOrder, queueVars
<1>7. CASE UNCHANGED <<queueVars, lastDelivered, phase>>
  BY <1>7 DEF IdsInOrder, queueVars
<1>8. ASSUME NEW w \in Workers, WorkerStep(w) PROVE IdsInOrder'
  BY <1>5, <1>6, <1>7, <1>8
  DEF WorkerStep, Reclaim, Poll, PollEmpty, Accept, Discard, Finish, Ack, groupVars,
      gatewayVars
<1>9. ASSUME NEW w \in Workers, WorkerFault(w) \/ Boot(w) PROVE IdsInOrder'
  BY <1>6, <1>7, <1>9
  DEF WorkerFault, Boot, PollFails, DiscardFails, AckFails, Crash, Abort, groupVars,
      gatewayVars
<1>. QED
  BY <1>1, <1>2, <1>3, <1>4, <1>7, <1>8, <1>9
  DEF Next, GatewayNext, WorkerNext, vars, groupVars, gatewayVars
-----------------------------------------------------------------------------
(* The jobs in hand.  By the types a worker holds r exactly when wjob says  *)
(* so, and the steps fall into five classes by what they do to wjob.        *)
Hands == BehindCursor /\ InspectedIsFresh /\ OneHolder /\ AtMostOnce /\ HeldIsPending

(* A worker holds exactly the job in its hands.                             *)
LEMMA HoldsJob ==
  ASSUME TypeOK
  PROVE  \A w \in Workers, r \in Requests : Holds(w, r) <=> wjob[w] = r
BY NoneAssumption DEF TypeOK, Holds

(* Nothing happens to the jobs in hand: ids and cursors may have moved on.  *)
LEMMA HandsKept ==
  ASSUME TypeOK, TypeOK', IdsInOrder, Hands,
         UNCHANGED <<wjob, starts>>,
         \A w \in Workers : wpc'[w] = "inspecting" => wpc[w] = "inspecting",
         \A r \in Requests : entryId[r] > 0 => entryId'[r] = entryId[r],
         \A q \in Queues : lastDelivered[q] <= lastDelivered'[q],
         \A r \in Requests : entryId[r] > 0 /\ r \in entries'[QueueOf(r)]
                               => r \in entries[QueueOf(r)],
         \A r \in Requests : pel[r] # None => pel'[r] # None \/ r \notin entries'[QueueOf(r)]
  PROVE  Hands'
<1>. USE QueueOfType, HoldsJob
<1>1. \A w \in Workers, r \in Requests : Holds(w, r)' <=> Holds(w, r)
  BY DEF Holds, TypeOK
<1>2. BehindCursor'
  BY <1>1 DEF Hands, BehindCursor, Held, TypeOK
<1>3. HeldIsPending'
  <2>. SUFFICES ASSUME NEW w \in Workers, wjob[w] # None
                PROVE  pel'[wjob[w]] # None \/ wjob[w] \notin entries'[QueueOf(wjob[w])]
    BY DEF HeldIsPending
  <2>1. wjob[w] \in Requests /\ Held(wjob[w])
    BY DEF TypeOK, Held
  <2>. QED
    BY <2>1 DEF Hands, HeldIsPending, BehindCursor
<1>. QED
  BY <1>1, <1>2, <1>3 DEF Hands, InspectedIsFresh, OneHolder, AtMostOnce

(* A worker is handed an entry beyond the cursor.                           *)
LEMMA HandsPoll ==
  ASSUME TypeOK, TypeOK', IdsInOrder, Hands, NEW w \in Workers, Poll(w)
  PROVE  Hands'
<1>1. PICK r \in Requests : Deliver(w, r) /\ wjob' = [wjob EXCEPT ![w] = r]
  BY DEF Poll
<1>2. /\ QueueOf(r) = wqueue[w] /\ wqueue[w] \in Queues
      /\ entryId[r] > lastDelivered[QueueOf(r)]
      /\ lastDelivered' = [lastDelivered EXCEPT ![QueueOf(r)] = entryId[r]]
      /\ pel' = [pel EXCEPT ![r] = w]
  BY <1>1 DEF Deliver, Visible, IdsInOrder, TypeOK
<1>3. starts[r] = 0 /\ \A v \in Workers : wjob[v] # r
  <2>1. ~(entryId[r] <= lastDelivered[QueueOf(r)])
    BY <1>2 DEF TypeOK
  <2>2. ~(starts[r] > 0) /\ ~Held(r)
    BY <2>1 DEF Hands, BehindCursor
  <2>. QED
    BY <2>2, HoldsJob DEF Held, TypeOK
<1>4. UNCHANGED <<entryId, entries, starts>> /\ wjob' = [wjob EXCEPT ![w] = r]
      /\ wpc' = [wpc EXCEPT ![w] = "inspecting"]
  BY <1>1 DEF Poll, queueVars
<1>5. \A v \in Workers, s \in Requests : Holds(v, s)' <=> IF v = w THEN s = r ELSE Holds(v, s)
  BY <1>4, HoldsJob DEF Holds, TypeOK
<1>6. BehindCursor'
  BY <1>2, <1>4, <1>5, QueueOfType DEF Hands, BehindCursor, Held, TypeOK
<1>7. InspectedIsFresh'
  BY <1>3, <1>4 DEF Hands, InspectedIsFresh, TypeOK
<1>8. OneHolder'
  BY <1>3, <1>5, HoldsJob DEF Hands, OneHolder
<1>9. HeldIsPending'
  BY <1>2, <1>4, NoneAssumption DEF Hands, HeldIsPending, TypeOK
<1>. QED
  BY <1>4, <1>6, <1>7, <1>8, <1>9 DEF Hands, AtMostOnce

(* The engine is started on a job in hand.                                  *)
LEMMA HandsAccept ==
  ASSUME TypeOK, TypeOK', IdsInOrder, Hands, NEW w \in Workers, Accept(w)
  PROVE  Hands'
<1>1. wjob[w] \in Requests /\ Holds(w, wjob[w]) /\ starts[wjob[w]] = 0
  BY DEF Accept, TypeOK, Hands, InspectedIsFresh, Holds
<1>2. UNCHANGED <<entryId, entries, lastDelivered, pel, wjob>>
      /\ starts' = [starts EXCEPT ![wjob[w]] = @ + 1]
      /\ wpc' = [wpc EXCEPT ![w] = "running"]
  BY DEF Accept, queueVars, groupVars
<1>3. \A v \in Workers, s \in Requests : Holds(v, s)' <=> Holds(v, s)
  BY <1>2, HoldsJob DEF Holds, TypeOK
<1>4. BehindCursor'
  BY <1>1, <1>2, <1>3 DEF Hands, BehindCursor, Held, TypeOK
<1>5. InspectedIsFresh'
  BY <1>1, <1>2 DEF Hands, InspectedIsFresh, OneHolder, Holds, TypeOK
<1>6. AtMostOnce'
  BY <1>1, <1>2 DEF Hands, AtMostOnce, TypeOK
<1>. QED
  BY <1>2, <1>3, <1>4, <1>5, <1>6 DEF Hands, OneHolder, HeldIsPending

(* A worker lets go of its job, acknowledged or not.                        *)
LEMMA HandsRelease ==
  ASSUME TypeOK, TypeOK', IdsInOrder, Hands, NEW w \in Workers,
         wjob' = [wjob EXCEPT ![w] = None],
         \A v \in Workers : wpc'[v] = "inspecting" => wpc[v] = "inspecting",
         UNCHANGED <<entryId, entries, lastDelivered, starts>>,
         \A r \in Requests : r # wjob[w] => pel'[r] = pel[r]
  PROVE  Hands'
<1>1. \A v \in Workers, s \in Requests : Holds(v, s)' <=> v # w /\ Holds(v, s)
  BY HoldsJob, NoneAssumption DEF Holds, TypeOK
<1>2. BehindCursor'
  BY <1>1 DEF Hands, BehindCursor, Held
<1>3. HeldIsPending'
  <2>. SUFFICES ASSUME NEW v \in Workers, wjob'[v] # None
                PROVE  /\ wjob'[v] = wjob[v]
                       /\ pel'[wjob[v]] # None \/ wjob[v] \notin entries[QueueOf(wjob[v])]
    BY DEF HeldIsPending, TypeOK
  <2>1. v # w /\ wjob'[v] = wjob[v] /\ wjob[v] \in Requests
    BY DEF TypeOK
  <2>2. wjob[v] # wjob[w]
    BY <2>1, HoldsJob DEF Hands, OneHolder
  <2>. QED
    BY <2>1, <2>2 DEF Hands, HeldIsPending
<1>4. InspectedIsFresh'
  BY DEF Hands, InspectedIsFresh, TypeOK
<1>. QED
  BY <1>1, <1>2, <1>3, <1>4 DEF Hands, OneHolder, AtMostOnce

(* Every step keeps what the hands of the workers promise.                  *)
LEMMA HandsStep ==
  ASSUME TypeOK, TypeOK', IdsInOrder, Hands, [Next]_vars
  PROVE  Hands'
<1>. USE QueueOfType
<1>1. \A w \in Workers : Poll(w) => Hands'
  BY HandsPoll
<1>2. \A w \in Workers : Accept(w) => Hands'
  BY HandsAccept
<1>3. ASSUME NEW w \in Workers, Discard(w) \/ DiscardFails(w) \/ Ack(w) \/ AckFails(w) \/ Crash(w)
      PROVE  Hands'
  <2>1. /\ wjob' = [wjob EXCEPT ![w] = None]
        /\ UNCHANGED <<entryId, entries, lastDelivered, starts>>
        /\ \A r \in Requests : r # wjob[w] => pel'[r] = pel[r]
    BY <1>3 DEF Discard, DiscardFails, Ack, AckFails, Crash, XAck, queueVars, groupVars, TypeOK
  <2>2. \A v \in Workers : wpc'[v] = "inspecting" => wpc[v] = "inspecting"
    BY <1>3 DEF Discard, DiscardFails, Ack, AckFails, Crash, TypeOK
  <2>. QED
    BY <2>1, <2>2, HandsRelease
<1>4. ASSUME NEW r \in Requests, XAdd(r), phase[r] = "checked",
             UNCHANGED <<lastDelivered, pel, workerVars, starts>>
      PROVE  Hands'
  <2>1. \A s \in Requests : entryId[s] > 0 => entryId'[s] = entryId[s] /\ s # r
    BY <1>4, XAddIds DEF TypeOK
  <2>2. \A s \in Requests : entryId[s] > 0 /\ s \in entries'[QueueOf(s)]
                              => s \in entries[QueueOf(s)]
    BY <1>4, <2>1, XAddIds
  <2>3. \A q \in Queues : lastDelivered[q] <= lastDelivered'[q]
    BY <1>4 DEF TypeOK
  <2>4. \A s \in Requests : pel[s] # None => pel'[s] # None
    BY <1>4
  <2>. QED
    BY <1>4, <2>1, <2>2, <2>3, <2>4, HandsKept DEF workerVars
<1>5. ASSUME UNCHANGED <<queueVars, wjob, starts>>,
             \A w \in Workers : wpc'[w] = "inspecting" => wpc[w] = "inspecting",
             \A q \in Queues : lastDelivered[q] <= lastDelivered'[q],
             \A r \in Requests : pel[r] # None => pel'[r] # None \/ r \notin entries'[QueueOf(r)]
      PROVE  Hands'
  BY <1>5, HandsKept DEF queueVars
<1>6. ASSUME UNCHANGED <<queueVars, groupVars, pel, wjob, starts>>,
             \A w \in Workers : wpc'[w] = "inspecting" => wpc[w] = "inspecting"
      PROVE  Hands'
  BY <1>5, <1>6 DEF groupVars, TypeOK
<1>7. CASE GatewayNext
  <2>1. CASE GatewayEnsureGroup
    <3>1. \A q \in Queues : lastDelivered[q] <= lastDelivered'[q]
      BY <2>1, XGroupCreateIds DEF GatewayEnsureGroup
    <3>. QED
      BY <1>5, <2>1, <3>1 DEF GatewayEnsureGroup, workerVars
  <2>2. CASE GatewayBoot \/ GatewayCrash \/ \E r \in Requests : CheckLength(r)
    BY <1>6, <2>2 DEF GatewayBoot, GatewayCrash, CheckLength, workerVars
  <2>3. ASSUME NEW r \in Requests, Enqueue(r) PROVE Hands'
    BY <1>4, <2>3 DEF Enqueue, groupVars
  <2>4. ASSUME NEW r \in Requests, EnqueueFails(r) PROVE Hands'
    BY <1>4, <1>6, <2>4 DEF EnqueueFails, groupVars, workerVars
  <2>. QED
    BY <1>7, <2>1, <2>2, <2>3, <2>4 DEF GatewayNext
<1>8. ASSUME NEW w \in Workers, EnsureGroup(w) PROVE Hands'
  <2>1. \A q \in Queues : lastDelivered[q] <= lastDelivered'[q]
    BY <1>8, XGroupCreateIds DEF EnsureGroup, TypeOK
  <2>2. \A v \in Workers : wpc'[v] = "inspecting" => wpc[v] = "inspecting"
    BY <1>8, NextQueueType DEF EnsureGroup, TypeOK, LoopStates
  <2>. QED
    BY <1>5, <1>8, <2>1, <2>2 DEF EnsureGroup
<1>9. ASSUME NEW w \in Workers, Reclaim(w) PROVE Hands'
  <2>1. \A r \in Requests : pel[r] # None => pel'[r] # None \/ r \notin entries[QueueOf(r)]
    BY <1>9, NoneAssumption DEF Reclaim
  <2>2. \A v \in Workers : wpc'[v] = "inspecting" => wpc[v] = "inspecting"
    BY <1>9, NextQueueType DEF Reclaim, TypeOK, LoopStates
  <2>3. \A q \in Queues : lastDelivered[q] <= lastDelivered'[q]
    BY <1>9 DEF Reclaim, groupVars, TypeOK
  <2>. QED
    BY <1>5, <1>9, <2>1, <2>2, <2>3 DEF Reclaim, queueVars
<1>10. ASSUME NEW w \in Workers, PollFails(w) PROVE Hands'
  <2>1. \A v \in Workers : wpc'[v] = "inspecting" => wpc[v] = "inspecting"
    BY <1>10, NextQueueType DEF PollFails, TypeOK, LoopStates
  <2>2. CASE UNCHANGED <<lastDelivered, pel, passed>>
    BY <1>6, <1>10, <2>1, <2>2 DEF PollFails, groupVars
  <2>3. ASSUME NEW r \in Requests, Deliver(w, r) PROVE Hands'
    <3>1. \A q \in Queues : lastDelivered[q] <= lastDelivered'[q]
      BY <2>3 DEF Deliver, Visible, TypeOK
    <3>2. \A s \in Requests : pel[s] # None => pel'[s] # None
      BY <2>3, NoneAssumption DEF Deliver, TypeOK
    <3>. QED
      BY <1>5, <1>10, <2>1, <3>1, <3>2 DEF PollFails
  <2>. QED
    BY <1>10, <2>2, <2>3 DEF PollFails
<1>11. ASSUME NEW w \in Workers,
              \/ Boot(w) \/ PollEmpty(w) \/ Finish(w)
              \/ \E end \in {"dead", "down"} : Abort(w, end)
       PROVE  Hands'
  <2>1. \A v \in Workers : wpc'[v] = "inspecting" => wpc[v] = "inspecting"
    BY <1>11, NextQueueType DEF Boot, PollEmpty, Finish, Abort, TypeOK, LoopStates
  <2>. QED
    BY <1>6, <1>11, <2>1 DEF Boot, PollEmpty, Finish, Abort
<1>12. CASE (\E r \in Requests : Expire(r)) \/ UNCHANGED vars
  BY <1>6, <1>12 DEF Expire, vars, workerVars
<1>. QED
  BY <1>1, <1>2, <1>3, <1>7, <1>8, <1>9, <1>10, <1>11, <1>12
  DEF Next, WorkerNext, WorkerStep, WorkerFault

(* The inductive invariant of the queue.                                    *)
LEMMA InitInv == Init => IInv
<1>. SUFFICES ASSUME Init PROVE IInv
  OBVIOUS
<1>1. TypeOK
  BY InitType
<1>2. IdsInOrder
  BY QueueOfType DEF Init, IdsInOrder
<1>3. \A w \in Workers, r \in Requests : ~Holds(w, r)
  BY DEF Init, Holds
<1>. QED
  BY <1>1, <1>2, <1>3
  DEF Init, IInv, BehindCursor, Held, InspectedIsFresh, OneHolder, AtMostOnce, HeldIsPending

(* IInv is inductive.                                                       *)
LEMMA InvStep == IInv /\ [Next]_vars => IInv'
BY TypeStep, IdsStep, HandsStep DEF IInv, Hands

(* The inductive invariant of the queue holds in every reachable state.     *)
THEOREM Invariance == Spec => []IInv
BY InitInv, InvStep, PTL DEF Spec

(* No two workers ever have the same job in hand.                           *)
THEOREM NeverShared == Spec => []OneHolder
<1>1. IInv => OneHolder
  BY DEF IInv
<1>. QED
  BY <1>1, Invariance, PTL

(* No job is started twice, whatever crashes, is retried or is reclaimed.   *)
THEOREM NeverTwice == Spec => []AtMostOnce
<1>1. IInv => AtMostOnce
  BY DEF IInv
<1>. QED
  BY <1>1, Invariance, PTL

(* A job in hand stays pending in the group, so that its loss is visible.   *)
THEOREM HeldStaysPending == Spec => []HeldIsPending
<1>1. IInv => HeldIsPending
  BY DEF IInv
<1>. QED
  BY <1>1, Invariance, PTL
-----------------------------------------------------------------------------
(* Priority.  Overtaking of a waiting premium request is paid for by a      *)
(* worker leaving the standard poll, or by a fault.                         *)
Order == BoundedOvertaking /\ WaitingIsPassedLess /\ NotAddedNotPassed

(* A set of workers is finite, and its subsets are not larger.              *)
LEMMA OnStandardFinite ==
  \A S \in SUBSET Workers :
    /\ IsFiniteSet(S) /\ Cardinality(S) \in Nat /\ Cardinality(S) <= Cardinality(Workers)
    /\ \A T \in SUBSET S : Cardinality(T) <= Cardinality(S)
BY FS_Subset, FS_CardinalityType, WorkersAssumption

(* Premium requests are the ones of the premium queue.                      *)
LEMMA PremiumQueue == \A r \in Premium : r \in Requests /\ QueueOf(r) = "premium"
BY PremiumAssumption DEF QueueOf

(* Nobody starts to read the standard stream and no old entry comes back.   *)
LEMMA OrderKept ==
  ASSUME TypeOK, TypeOK', Order,
         UNCHANGED passed, faults <= faults',
         OnStandard' \subseteq OnStandard,
         \A r \in Premium : Waiting(r)' => Waiting(r) \/ entryId[r] = 0,
         \A r \in Requests : entryId'[r] = 0 => entryId[r] = 0
  PROVE  Order'
<1>1. OnStandard \in SUBSET Workers /\ OnStandard' \in SUBSET OnStandard
  BY DEF OnStandard
<1>2. /\ Cardinality(OnStandard) \in Nat /\ Cardinality(OnStandard') \in Nat
      /\ Cardinality(OnStandard') <= Cardinality(OnStandard)
      /\ Cardinality(OnStandard) <= Cardinality(Workers)
      /\ Cardinality(Workers) \in Nat
  BY <1>1, OnStandardFinite
<1>3. faults \in Nat /\ faults' \in Nat
  BY BoundsAssumption DEF TypeOK
<1>4. BoundedOvertaking'
  BY <1>2, <1>3, PremiumQueue DEF Order, BoundedOvertaking, TypeOK
<1>5. WaitingIsPassedLess'
  <2>. SUFFICES ASSUME NEW r \in Premium, Waiting(r)'
                PROVE  passed[r] + Cardinality(OnStandard') <= Cardinality(Workers) + faults'
    BY DEF WaitingIsPassedLess
  <2>1. passed[r] \in Nat
    BY PremiumQueue DEF TypeOK
  <2>2. CASE Waiting(r)
    BY <1>2, <1>3, <2>1, <2>2 DEF Order, WaitingIsPassedLess
  <2>3. CASE entryId[r] = 0
    BY <1>2, <1>3, <2>1, <2>3, PremiumQueue DEF Order, NotAddedNotPassed
  <2>. QED
    BY <2>2, <2>3
<1>. QED
  BY <1>4, <1>5 DEF Order, NotAddedNotPassed

(* A worker goes on to the standard stream because of a fault.              *)
LEMMA OrderFault ==
  ASSUME TypeOK, TypeOK', Order, NEW w \in Workers,
         UNCHANGED <<passed, entryId>>, faults' = faults + 1,
         OnStandard' \subseteq OnStandard \cup {w},
         \A r \in Premium : Waiting(r)' => Waiting(r)
  PROVE  Order'
<1>1. OnStandard \in SUBSET Workers /\ OnStandard' \in SUBSET (OnStandard \cup {w})
      /\ OnStandard \cup {w} \in SUBSET Workers
  BY DEF OnStandard
<1>2. Cardinality(OnStandard \cup {w}) <= Cardinality(OnStandard) + 1
  BY <1>1, OnStandardFinite, FS_AddElement
<1>3. /\ Cardinality(OnStandard) \in Nat /\ Cardinality(OnStandard') \in Nat
      /\ Cardinality(OnStandard') <= Cardinality(OnStandard) + 1
      /\ Cardinality(Workers) \in Nat
  BY <1>1, <1>2, OnStandardFinite
<1>4. faults \in Nat
  BY BoundsAssumption DEF TypeOK
<1>. QED
  BY <1>3, <1>4, PremiumQueue
  DEF Order, BoundedOvertaking, WaitingIsPassedLess, NotAddedNotPassed, TypeOK

(* A worker leaves the standard poll with an entry: it passes whoever waits.*)
LEMMA OrderPass ==
  ASSUME TypeOK, TypeOK', IdsInOrder, Order, NEW w \in Workers, NEW r \in Requests,
         wpc[w] = "polling", wqueue[w] = "standard", Deliver(w, r),
         UNCHANGED <<entries, entryId, groups>>, faults <= faults',
         OnStandard' \subseteq OnStandard \ {w}
  PROVE  Order'
<1>1. w \in OnStandard /\ OnStandard \in SUBSET Workers
      /\ OnStandard' \in SUBSET (OnStandard \ {w}) /\ OnStandard \ {w} \in SUBSET Workers
  BY DEF OnStandard
<1>2. Cardinality(OnStandard \ {w}) = Cardinality(OnStandard) - 1
  BY <1>1, OnStandardFinite, FS_RemoveElement
<1>3. /\ Cardinality(OnStandard) \in Nat /\ Cardinality(OnStandard') \in Nat
      /\ Cardinality(OnStandard') + 1 <= Cardinality(OnStandard)
      /\ Cardinality(Workers) \in Nat
  BY <1>1, <1>2, OnStandardFinite
<1>4. faults \in Nat /\ faults' \in Nat
  BY BoundsAssumption DEF TypeOK
<1>5. \A p \in Premium : Waiting(p)' <=> Waiting(p)
  BY PremiumQueue DEF Waiting, Visible, Deliver, TypeOK, Queues
<1>6. \A p \in Requests : passed'[p] = IF p \in Visible("premium")
                                       THEN passed[p] + 1 ELSE passed[p]
  BY DEF Deliver
<1>7. \A p \in Premium : /\ passed[p] \in Nat
                         /\ passed'[p] = IF Waiting(p) THEN passed[p] + 1 ELSE passed[p]
  BY <1>6, PremiumQueue DEF Waiting, TypeOK
<1>8. BoundedOvertaking' /\ WaitingIsPassedLess'
  BY <1>3, <1>4, <1>5, <1>7 DEF Order, BoundedOvertaking, WaitingIsPassedLess
<1>9. NotAddedNotPassed'
  BY <1>6 DEF Order, NotAddedNotPassed, Visible, IdsInOrder, Queues
<1>. QED
  BY <1>8, <1>9 DEF Order

(* An entry that waits after a step waited before, or was just added.       *)
LEMMA NoneComesBack ==
  ASSUME TypeOK, IdsInOrder,
         \/ UNCHANGED <<queueVars, groupVars>>
         \/ UNCHANGED queueVars /\ \E q \in Queues : XGroupCreate(q)
         \/ UNCHANGED <<queueVars, groups>>
            /\ \E w \in Workers, r \in Requests : Deliver(w, r)
  PROVE  /\ \A r \in Requests : Waiting(r)' => Waiting(r)
         /\ UNCHANGED entryId
<1>. USE QueueOfType DEF queueVars, groupVars
<1>1. CASE UNCHANGED <<queueVars, groupVars>>
  BY <1>1 DEF Waiting, Visible
<1>2. ASSUME UNCHANGED queueVars, NEW q \in Queues, XGroupCreate(q)
      PROVE  \A r \in Requests : Waiting(r)' => Waiting(r)
  BY <1>2 DEF XGroupCreate, Waiting, Visible, TypeOK, IdsInOrder
<1>3. ASSUME UNCHANGED <<queueVars, groups>>, NEW w \in Workers, NEW r \in Requests, Deliver(w, r)
      PROVE  \A s \in Requests : Waiting(s)' => Waiting(s)
  BY <1>3 DEF Deliver, Waiting, Visible, TypeOK
<1>. QED
  BY <1>1, <1>2, <1>3

(* An XADD makes nothing wait but the request it adds.                      *)
LEMMA AddWaits ==
  ASSUME TypeOK, IdsInOrder, NEW r \in Requests, XAdd(r), phase[r] = "checked",
         UNCHANGED groupVars
  PROVE  /\ \A s \in Requests : Waiting(s)' => Waiting(s) \/ entryId[s] = 0
         /\ \A s \in Requests : entryId'[s] = 0 => entryId[s] = 0
BY XAddIds, QueueOfType DEF Waiting, Visible, TypeOK, groupVars

(* Every step keeps LoopStartsOver: a job ends at the head of the queue loop.*)
LEMMA LoopStep ==
  ASSUME TypeOK, LoopStartsOver, [Next]_vars
  PROVE  LoopStartsOver'
<1>1. ASSUME NEW w \in Workers, WorkerStep(w) PROVE LoopStartsOver'
  BY <1>1 DEF WorkerStep, EnsureGroup, Reclaim, Poll, PollEmpty, Accept, Discard, Finish, Ack,
              NextQueue, LoopStartsOver, TypeOK
<1>2. ASSUME NEW w \in Workers, WorkerFault(w) \/ Boot(w) PROVE LoopStartsOver'
  BY <1>2 DEF WorkerFault, Boot, PollFails, DiscardFails, AckFails, Crash, Abort,
              NextQueue, LoopStartsOver, TypeOK
<1>3. CASE UNCHANGED workerVars
  BY <1>3 DEF LoopStartsOver, workerVars
<1>. QED
  BY <1>1, <1>2, <1>3
  DEF Next, WorkerNext, GatewayNext, GatewayBoot, GatewayEnsureGroup, GatewayCrash,
      CheckLength, Enqueue, EnqueueFails, Expire, vars

(* Every step keeps the count of the standard deliveries that overtake.     *)
LEMMA OrderStep ==
  ASSUME TypeOK, TypeOK', IdsInOrder, LoopStartsOver, Order, [Next]_vars
  PROVE  Order'
<1>. USE PremiumQueue
<1>1. faults <= faults'
  <2>. faults \in Nat
    BY BoundsAssumption DEF TypeOK
  <2>. QED
    BY DEF Next, GatewayNext, WorkerNext, WorkerStep, WorkerFault, vars, Fault, XGroupCreate,
       GatewayBoot, GatewayEnsureGroup, GatewayCrash, CheckLength, Enqueue, EnqueueFails,
       Boot, EnsureGroup, Reclaim, Poll, PollEmpty, Accept, Discard, Finish, Ack,
       PollFails, DiscardFails, AckFails, Crash, Abort, Expire
<1>2. ASSUME NEW r \in Requests, XAdd(r), phase[r] = "checked",
             UNCHANGED <<groupVars, workerVars, passed>>
      PROVE  Order'
  BY <1>1, <1>2, AddWaits, OrderKept DEF OnStandard, workerVars
<1>3. ASSUME UNCHANGED <<queueVars, groupVars, passed>>, OnStandard' \subseteq OnStandard
      PROVE  Order'
  BY <1>1, <1>3, NoneComesBack, OrderKept
<1>4. CASE GatewayNext
  <2>1. CASE GatewayEnsureGroup
    BY <1>1, <2>1, NoneComesBack, OrderKept DEF GatewayEnsureGroup, OnStandard, workerVars
  <2>2. CASE GatewayBoot \/ GatewayCrash \/ \E r \in Requests : CheckLength(r)
    BY <1>3, <2>2 DEF GatewayBoot, GatewayCrash, CheckLength, OnStandard, workerVars
  <2>3. ASSUME NEW r \in Requests, Enqueue(r) \/ EnqueueFails(r) PROVE Order'
    BY <1>2, <1>3, <2>3 DEF Enqueue, EnqueueFails, OnStandard, workerVars
  <2>. QED
    BY <1>4, <2>1, <2>2, <2>3 DEF GatewayNext
<1>5. ASSUME NEW w \in Workers, WorkerStep(w) PROVE Order'
  <2>1. CASE EnsureGroup(w)
    <3>1. OnStandard' \subseteq OnStandard
      BY <2>1 DEF EnsureGroup, NextQueue, OnStandard, TypeOK
    <3>. QED
      BY <1>1, <2>1, <3>1, NoneComesBack, OrderKept DEF EnsureGroup, TypeOK
  <2>2. CASE Reclaim(w)
    <3>1. OnStandard' \subseteq OnStandard
      BY <2>2 DEF Reclaim, NextQueue, OnStandard, TypeOK
    <3>. QED
      BY <1>3, <2>2, <3>1 DEF Reclaim
  <2>3. CASE Poll(w)
    <3>1. PICK r \in Requests : Deliver(w, r)
      BY <2>3 DEF Poll
    <3>2. OnStandard' \subseteq OnStandard \ {w}
      BY <2>3 DEF Poll, OnStandard, TypeOK
    <3>3. CASE wqueue[w] = "standard"
      BY <1>1, <2>3, <3>1, <3>2, <3>3, OrderPass DEF Poll, queueVars
    <3>4. CASE wqueue[w] = "premium"
      <4>1. UNCHANGED passed
        BY <3>1, <3>4 DEF Deliver, TypeOK
      <4>. QED
        BY <1>1, <2>3, <3>1, <3>2, <4>1, NoneComesBack, OrderKept DEF Poll
    <3>. QED
      BY <3>3, <3>4 DEF TypeOK, Queues
  <2>4. CASE PollEmpty(w)
    <3>1. CASE wqueue[w] = "standard"
      <4>1. OnStandard' \subseteq OnStandard
        BY <2>4, <3>1 DEF PollEmpty, NextQueue, OnStandard, TypeOK
      <4>. QED
        BY <1>3, <2>4, <4>1 DEF PollEmpty
    <3>2. CASE wqueue[w] = "premium"
      <4>1. \A r \in Premium : ~Waiting(r)'
        BY <2>4, <3>2 DEF PollEmpty, Waiting, Visible, queueVars, groupVars
      <4>. QED
        BY <2>4, <4>1
        DEF PollEmpty, Order, BoundedOvertaking, WaitingIsPassedLess, NotAddedNotPassed,
            queueVars
    <3>. QED
      BY <3>1, <3>2 DEF TypeOK, Queues
  <2>5. CASE Accept(w) \/ Discard(w) \/ Finish(w) \/ Ack(w)
    <3>1. OnStandard' \subseteq OnStandard
      BY <2>5 DEF Accept, Discard, Finish, Ack, OnStandard, LoopStartsOver, TypeOK
    <3>. QED
      BY <1>3, <2>5, <3>1 DEF Accept, Discard, Finish, Ack
  <2>. QED
    BY <1>5, <2>1, <2>2, <2>3, <2>4, <2>5 DEF WorkerStep
<1>6. ASSUME NEW w \in Workers, WorkerFault(w) PROVE Order'
  <2>1. CASE PollFails(w)
    <3>1. UNCHANGED queueVars /\ UNCHANGED groups /\ faults' = faults + 1
      BY <2>1 DEF PollFails, Fault
    <3>2. CASE UNCHANGED <<lastDelivered, pel, passed>>
      <4>1. OnStandard' \subseteq OnStandard \cup {w}
        BY <2>1 DEF PollFails, NextQueue, OnStandard, TypeOK
      <4>. QED
        BY <3>1, <3>2, <4>1, NoneComesBack, OrderFault DEF groupVars
    <3>3. ASSUME NEW r \in Requests, Deliver(w, r), wqueue[w] = "premium" PROVE Order'
      <4>1. OnStandard' \subseteq OnStandard \cup {w}
        BY <2>1 DEF PollFails, NextQueue, OnStandard, TypeOK
      <4>2. UNCHANGED passed
        BY <3>3 DEF Deliver, TypeOK
      <4>. QED
        BY <3>1, <3>3, <4>1, <4>2, NoneComesBack, OrderFault
    <3>4. ASSUME NEW r \in Requests, Deliver(w, r), wqueue[w] = "standard" PROVE Order'
      <4>1. OnStandard' \subseteq OnStandard \ {w} /\ wpc[w] = "polling"
        BY <2>1, <3>4 DEF PollFails, NextQueue, OnStandard, TypeOK
      <4>. QED
        BY <1>1, <3>1, <3>4, <4>1, OrderPass DEF queueVars
    <3>. QED
      BY <2>1, <3>2, <3>3, <3>4 DEF PollFails, TypeOK, Queues
  <2>2. CASE DiscardFails(w)
    <3>1. OnStandard' \subseteq OnStandard \cup {w}
      BY <2>2 DEF DiscardFails, OnStandard, TypeOK
    <3>. QED
      BY <2>2, <3>1, NoneComesBack, OrderFault DEF DiscardFails, Fault
  <2>3. CASE AckFails(w) \/ Crash(w) \/ \E end \in {"dead", "down"} : Abort(w, end)
    <3>1. OnStandard' \subseteq OnStandard
      BY <2>3 DEF AckFails, Crash, Abort, OnStandard, TypeOK
    <3>. QED
      BY <1>3, <2>3, <3>1 DEF AckFails, Crash, Abort
  <2>. QED
    BY <1>6, <2>1, <2>2, <2>3 DEF WorkerFault
<1>7. ASSUME NEW w \in Workers, Boot(w) PROVE Order'
  BY <1>3, <1>7 DEF Boot, OnStandard, TypeOK
<1>8. CASE (\E r \in Requests : Expire(r)) \/ UNCHANGED vars
  BY <1>3, <1>8 DEF Expire, OnStandard, vars, workerVars
<1>. QED
  BY <1>4, <1>5, <1>6, <1>7, <1>8 DEF Next, WorkerNext

(* While a premium request waits, at most one standard job per worker and   *)
(* one per fault is delivered before it.                                    *)
THEOREM PremiumFirst == Spec => []BoundedOvertaking
<1>1. ASSUME Init PROVE IInvOrder
  <2>1. IInv
    BY <1>1, InitInv
  <2>2. \A r \in Requests : ~Waiting(r)
    BY <1>1 DEF Init, Waiting, Visible
  <2>3. Cardinality(Workers) \in Nat
    BY WorkersAssumption, FS_CardinalityType
  <2>. QED
    BY <1>1, <2>1, <2>2, <2>3, PremiumQueue
    DEF Init, IInvOrder, LoopStartsOver, BoundedOvertaking, WaitingIsPassedLess,
        NotAddedNotPassed
<1>2. IInvOrder /\ [Next]_vars => IInvOrder'
  BY InvStep, LoopStep, OrderStep DEF IInvOrder, Order, IInv
<1>3. IInvOrder => BoundedOvertaking
  BY DEF IInvOrder
<1>. QED
  BY <1>1, <1>2, <1>3, PTL DEF Spec
-----------------------------------------------------------------------------
(* Without a fault no job is lost.                                          *)

(* Every step keeps RunningIsStarted.                                       *)
LEMMA StartedStep ==
  ASSUME TypeOK, TypeOK', RunningIsStarted, [Next]_vars
  PROVE  RunningIsStarted'
<1>1. ASSUME NEW w \in Workers, WorkerStep(w) PROVE RunningIsStarted'
  <2>1. CASE Accept(w)
    BY <2>1 DEF Accept, RunningIsStarted, TypeOK
  <2>2. CASE EnsureGroup(w) \/ Reclaim(w) \/ Poll(w) \/ PollEmpty(w) \/ Discard(w)
             \/ Finish(w) \/ Ack(w)
    BY <2>2 DEF EnsureGroup, Reclaim, Poll, PollEmpty, Discard, Finish, Ack, NextQueue,
                RunningIsStarted, TypeOK
  <2>. QED
    BY <1>1, <2>1, <2>2 DEF WorkerStep
<1>2. ASSUME NEW w \in Workers, WorkerFault(w) \/ Boot(w) PROVE RunningIsStarted'
  BY <1>2 DEF WorkerFault, Boot, PollFails, DiscardFails, AckFails, Crash, Abort,
              NextQueue, RunningIsStarted, TypeOK
<1>3. CASE UNCHANGED <<workerVars, starts>>
  BY <1>3 DEF RunningIsStarted, workerVars
<1>. QED
  BY <1>1, <1>2, <1>3
  DEF Next, WorkerNext, GatewayNext, GatewayBoot, GatewayEnsureGroup, GatewayCrash,
      CheckLength, Enqueue, EnqueueFails, Expire, vars

(* A step after which there was still no fault.                             *)
LEMMA FaultlessStep ==
  ASSUME TypeOK, [Next]_vars, faults' = 0
  PROVE  /\ faults = 0
         /\ \/ GatewayBoot \/ GatewayEnsureGroup
            \/ \E r \in Requests : CheckLength(r) \/ Enqueue(r) \/ Expire(r)
            \/ \E w \in Workers : Boot(w) \/ WorkerStep(w)
            \/ UNCHANGED vars
<1>1. faults \in Nat
  BY BoundsAssumption DEF TypeOK
<1>. QED
  BY <1>1
  DEF Next, GatewayNext, WorkerNext, WorkerStep, WorkerFault, vars, Fault, XGroupCreate,
      GatewayBoot, GatewayEnsureGroup, GatewayCrash, CheckLength, Enqueue, EnqueueFails,
      Boot, EnsureGroup, Reclaim, Poll, PollEmpty, Accept, Discard, Finish, Ack,
      PollFails, DiscardFails, AckFails, Crash, Abort, Expire

(* Without a fault the gateway serves only once both groups exist.          *)
LEMMA ServesStep ==
  ASSUME TypeOK, ServesWithGroups, [Next]_vars
  PROVE  ServesWithGroups'
<1>. SUFFICES ASSUME faults' = 0 PROVE ServesWithGroups'
  BY DEF ServesWithGroups
<1>1. faults = 0
  BY FaultlessStep
<1>2. CASE GatewayBoot
  BY <1>1, <1>2 DEF GatewayBoot, ServesWithGroups, Queues, groupVars
<1>3. CASE GatewayEnsureGroup
  <2>1. groups' = groups \cup {gateway}
    BY <1>1, <1>3 DEF GatewayEnsureGroup, XGroupCreate, Fault
  <2>2. /\ gateway \in Queues /\ phase' = phase
        /\ gateway' = IF gateway = "premium" THEN "standard" ELSE "up"
    BY <1>3 DEF GatewayEnsureGroup
  <2>3. gateway = "standard" => "premium" \in groups
    BY <1>1 DEF ServesWithGroups
  <2>4. groups \subseteq Queues
    BY DEF TypeOK
  <2>5. \A r \in Requests : phase[r] \in {"checked", "queued", "rejected", "failed"}
                             => groups = Queues
    BY <1>1 DEF ServesWithGroups
  <2>6. groups' \subseteq Queues /\ groups \subseteq groups'
    BY <2>1, <2>2, <2>4
  <2>7. gateway' = "up" => groups' = Queues
    BY <2>1, <2>2, <2>3, <2>6 DEF Queues
  <2>8. gateway' = "standard" => "premium" \in groups'
    BY <2>1, <2>2 DEF Queues
  <2>9. \A r \in Requests : phase'[r] \in {"checked", "queued", "rejected", "failed"}
                             => groups' = Queues
    BY <2>2, <2>5, <2>6
  <2>. QED
    BY <2>7, <2>8, <2>9 DEF ServesWithGroups
<1>4. ASSUME NEW r \in Requests, CheckLength(r) \/ Enqueue(r) \/ Expire(r)
      PROVE  ServesWithGroups'
  BY <1>1, <1>4 DEF CheckLength, Enqueue, Expire, ServesWithGroups, TypeOK, groupVars, gatewayVars
<1>5. ASSUME NEW w \in Workers, Boot(w) \/ WorkerStep(w) PROVE ServesWithGroups'
  <2>1. groups \subseteq groups' /\ groups' \subseteq Queues
    BY <1>5, XGroupCreateType DEF Boot, WorkerStep, EnsureGroup, Reclaim, Poll, PollEmpty, Accept, Discard,
       Finish, Ack, XGroupCreate, groupVars, TypeOK
  <2>2. UNCHANGED gatewayVars
    BY <1>5 DEF Boot, WorkerStep, EnsureGroup, Reclaim, Poll, PollEmpty, Accept, Discard,
       Finish, Ack
  <2>. QED
    BY <1>1, <2>1, <2>2 DEF ServesWithGroups, gatewayVars
<1>. QED
  BY <1>1, <1>2, <1>3, <1>4, <1>5, FaultlessStep DEF ServesWithGroups, vars, gatewayVars, groupVars

(* Without a fault every step that lets go of a job acknowledges it.        *)
LEMMA OrphanStep ==
  ASSUME TypeOK, TypeOK', IdsInOrder, Hands, NoOrphanWithoutFault, [Next]_vars
  PROVE  NoOrphanWithoutFault'
<1>. SUFFICES ASSUME faults' = 0 PROVE NoOrphanWithoutFault'
  BY DEF NoOrphanWithoutFault
<1>1. faults = 0
  BY FaultlessStep
<1>2. ASSUME NEW w \in Workers, Poll(w) PROVE NoOrphanWithoutFault'
  <2>1. PICK r \in Requests : Deliver(w, r) /\ wjob' = [wjob EXCEPT ![w] = r]
    BY <1>2 DEF Poll
  <2>2. pel' = [pel EXCEPT ![r] = w] /\ wpc' = [wpc EXCEPT ![w] = "inspecting"]
        /\ wpc[w] = "polling"
    BY <1>2, <2>1 DEF Poll, Deliver
  <2>3. \A s \in Requests : Held(s) \/ s = r => Held(s)'
    BY <2>1, <2>2 DEF Held, Holds, TypeOK
  <2>. QED
    BY <1>1, <2>2, <2>3 DEF NoOrphanWithoutFault, TypeOK
<1>3. ASSUME NEW w \in Workers, Discard(w) \/ Ack(w) PROVE NoOrphanWithoutFault'
  <2>1. pel' = [pel EXCEPT ![wjob[w]] = None] /\ wjob' = [wjob EXCEPT ![w] = None]
        /\ \A v \in Workers : v # w => wpc'[v] = wpc[v]
    BY <1>3 DEF Discard, Ack, XAck, TypeOK
  <2>2. \A s \in Requests : Held(s) => Held(s)' \/ s = wjob[w]
    BY <2>1 DEF Held, Holds, TypeOK
  <2>. QED
    BY <1>1, <2>1, <2>2 DEF NoOrphanWithoutFault, TypeOK
<1>4. ASSUME \A r \in Requests : Held(r) => Held(r)',
             \A r \in Requests : pel'[r] # None => pel[r] # None
      PROVE  NoOrphanWithoutFault'
  BY <1>1, <1>4 DEF NoOrphanWithoutFault
<1>5. ASSUME NEW w \in Workers, Boot(w) \/ EnsureGroup(w) \/ Reclaim(w) \/ PollEmpty(w)
                                \/ Accept(w) \/ Finish(w)
      PROVE  NoOrphanWithoutFault'
  <2>1. \A r \in Requests : Held(r) => Held(r)'
    BY <1>5 DEF Boot, EnsureGroup, Reclaim, PollEmpty, Accept, Finish, NextQueue,
                Held, Holds, TypeOK
  <2>2. \A r \in Requests : pel'[r] # None => pel[r] # None
    BY <1>5 DEF Boot, EnsureGroup, Reclaim, PollEmpty, Accept, Finish
  <2>. QED
    BY <1>4, <2>1, <2>2
<1>6. CASE UNCHANGED <<workerVars, pel>>
  BY <1>4, <1>6 DEF Held, Holds, workerVars
<1>. QED
  BY <1>2, <1>3, <1>5, <1>6, FaultlessStep
  DEF WorkerStep, GatewayBoot, GatewayEnsureGroup, CheckLength, Enqueue, Expire, vars

(* Without a fault no step skips an entry.                                  *)
LEMMA LossStep ==
  ASSUME TypeOK, TypeOK', IdsInOrder, Hands, RunningIsStarted, ServesWithGroups,
         NoLossWithoutFault, [Next]_vars
  PROVE  NoLossWithoutFault'
<1>. DEFINE Kept(r) == r \in Visible(QueueOf(r)) \/ Held(r) \/ starts[r] > 0 \/ r \in expired
<1>. SUFFICES ASSUME faults' = 0, NEW q \in Queues, NEW r \in entries'[q]
              PROVE  Kept(r)'
  BY IdsStep DEF NoLossWithoutFault, IdsInOrder
<1>1. faults = 0
  BY FaultlessStep
<1>2. r \in entries[q] => r \in Requests /\ QueueOf(r) = q /\ entryId[r] > 0 /\ Kept(r)
                          /\ groups = Queues
  <2>1. r \in entries[q] => r \in Requests /\ QueueOf(r) = q /\ entryId[r] > 0
    BY DEF TypeOK, IdsInOrder
  <2>2. r \in entries[q] => phase[r] \in {"queued", "failed"}
    <3>1. r \in Requests => phase[r] \in Phases
      BY DEF TypeOK
    <3>2. r \in Requests /\ entryId[r] > 0 => phase[r] \notin {"new", "checked", "rejected"}
      BY DEF IdsInOrder
    <3>. QED
      BY <2>1, <3>1, <3>2 DEF Phases
  <2>. QED
    BY <1>1, <2>1, <2>2 DEF NoLossWithoutFault, ServesWithGroups
<1>3. ASSUME NEW s \in Requests, Enqueue(s) PROVE Kept(r)'
  <2>1. XAdd(s) /\ phase[s] = "checked" /\ UNCHANGED <<groupVars, workerVars, expired, starts>>
        /\ groups = Queues
    BY <1>1, <1>3 DEF Enqueue, ServesWithGroups
  <2>2. entryId'[s] > lastDelivered[QueueOf(s)] /\ QueueOf(s) \in Queues
        /\ \A t \in Requests : t # s => entryId'[t] = entryId[t]
    BY <2>1, XAddIds, QueueOfType DEF IdsInOrder, TypeOK
  <2>3. CASE r = s
    <3>1. s \in entries'[QueueOf(s)]
      BY <2>3, IdsStep DEF IdsInOrder
    <3>. QED
      BY <2>1, <2>2, <2>3, <3>1 DEF Visible, groupVars
  <2>4. CASE r # s
    <3>1. r \in entries[q]
      BY <2>1, <2>4, XAddIds
    <3>2. r \in Visible(q) => r \in Visible(q)'
      BY <1>2, <2>1, <2>2, <2>4, <3>1 DEF Visible, groupVars
    <3>. QED
      BY <1>2, <2>1, <3>1, <3>2 DEF Held, Holds, workerVars
  <2>. QED
    BY <2>3, <2>4
<1>4. ASSUME NEW w \in Workers, Poll(w) PROVE Kept(r)'
  <2>1. PICK s \in Requests : Deliver(w, s) /\ wjob' = [wjob EXCEPT ![w] = s]
    BY <1>4 DEF Poll
  <2>2. UNCHANGED <<entries, entryId, groups, expired, starts>>
        /\ wpc' = [wpc EXCEPT ![w] = "inspecting"] /\ wpc[w] = "polling"
    BY <1>4 DEF Poll, queueVars
  <2>3. \A t \in Requests : Held(t) \/ t = s => Held(t)'
    BY <2>1, <2>2 DEF Held, Holds, TypeOK
  <2>4. r \in Visible(q) /\ r # s => r \in Visible(q)'
    <3>1. CASE q = wqueue[w]
      <4>1. s \in Visible(q) /\ lastDelivered'[q] = entryId[s]
            /\ (r \in Visible(q) => entryId[s] <= entryId[r])
        BY <2>1, <3>1 DEF Deliver, TypeOK
      <4>2. QueueOf(s) = q /\ s \in Requests
        BY <4>1 DEF Visible, IdsInOrder
      <4>3. r # s => entryId[r] # entryId[s]
        BY <1>2, <2>2, <4>2 DEF IdsInOrder
      <4>4. entryId[r] \in Nat /\ entryId[s] \in Nat
        BY <1>2, <2>2 DEF TypeOK
      <4>. QED
        BY <2>2, <4>1, <4>3, <4>4 DEF Visible
    <3>2. CASE q # wqueue[w]
      BY <2>1, <2>2, <3>2 DEF Deliver, Visible, TypeOK
    <3>. QED
      BY <3>1, <3>2
  <2>. QED
    BY <1>2, <2>2, <2>3, <2>4
<1>5. ASSUME NEW w \in Workers, Discard(w) \/ Ack(w) PROVE Kept(r)'
  <2>1. wjob' = [wjob EXCEPT ![w] = None] /\ \A v \in Workers : v # w => wpc'[v] = wpc[v]
    BY <1>5 DEF Discard, Ack, TypeOK
  <2>2. UNCHANGED <<entries, entryId, groups, lastDelivered, expired, starts>>
    BY <1>5 DEF Discard, Ack, queueVars, groupVars
  <2>3. \A s \in Requests : Held(s) => Held(s)' \/ s = wjob[w]
    BY <2>1 DEF Held, Holds, TypeOK
  <2>4. wjob[w] \in expired \/ starts[wjob[w]] > 0
    BY <1>5 DEF Discard, Ack, RunningIsStarted
  <2>. QED
    BY <1>2, <2>2, <2>3, <2>4 DEF Visible
<1>6. ASSUME UNCHANGED <<queueVars, groupVars>>, expired \subseteq expired',
             \A s \in Requests : (Held(s) => Held(s)') /\ starts'[s] >= starts[s]
      PROVE  Kept(r)'
  BY <1>2, <1>6 DEF Visible, queueVars, groupVars, TypeOK
<1>7. ASSUME NEW w \in Workers, Boot(w) \/ EnsureGroup(w) \/ Reclaim(w) \/ PollEmpty(w)
                                \/ Accept(w) \/ Finish(w)
      PROVE  Kept(r)'
  <2>1. \A s \in Requests : (Held(s) => Held(s)') /\ starts'[s] >= starts[s]
    <3>1. \A s \in Requests : Held(s) => Held(s)'
      BY <1>7 DEF Boot, EnsureGroup, Reclaim, PollEmpty, Accept, Finish, NextQueue,
                  Held, Holds, TypeOK
    <3>2. CASE Accept(w)
      BY <3>1, <3>2 DEF Accept, TypeOK
    <3>3. CASE UNCHANGED starts
      BY <3>1, <3>3 DEF TypeOK
    <3>. QED
      BY <1>7, <3>2, <3>3 DEF Boot, EnsureGroup, Reclaim, PollEmpty, Finish
  <2>2. UNCHANGED <<queueVars, expired>>
    BY <1>7 DEF Boot, EnsureGroup, Reclaim, PollEmpty, Accept, Finish
  <2>3. r \in entries[q]
    BY <2>2 DEF queueVars
  <2>4. UNCHANGED groupVars
    BY <1>2, <1>7, <2>3
    DEF Boot, EnsureGroup, Reclaim, PollEmpty, Accept, Finish, XGroupCreate, groupVars, TypeOK
  <2>. QED
    BY <1>6, <2>1, <2>2, <2>4
<1>8. CASE GatewayEnsureGroup
  <2>1. UNCHANGED <<queueVars, workerVars, expired, starts>>
    BY <1>8 DEF GatewayEnsureGroup
  <2>2. r \in entries[q]
    BY <2>1 DEF queueVars
  <2>3. UNCHANGED groupVars
    BY <1>2, <1>8, <2>2 DEF GatewayEnsureGroup, XGroupCreate, groupVars, TypeOK
  <2>. QED
    BY <1>6, <2>1, <2>3 DEF Held, Holds, workerVars, TypeOK
<1>9. CASE UNCHANGED <<queueVars, groupVars, workerVars, starts>> /\ expired \subseteq expired'
  BY <1>6, <1>9 DEF Held, Holds, workerVars, TypeOK
<1>. HIDE DEF Kept
<1>. QED
  BY <1>3, <1>4, <1>5, <1>7, <1>8, <1>9, FaultlessStep
  DEF WorkerStep, GatewayBoot, CheckLength, Expire, vars

(* The strengthening for the runs without a fault holds initially ...       *)
LEMMA NoFaultInit == Init => IInvNoFault
BY InitInv, NoneAssumption
DEF Init, IInvNoFault, RunningIsStarted, ServesWithGroups, NoOrphanWithoutFault,
    NoLossWithoutFault

(* ... and is inductive.                                                    *)
LEMMA NoFaultStep == IInvNoFault /\ [Next]_vars => IInvNoFault'
BY InvStep, StartedStep, ServesStep, OrphanStep, LossStep DEF IInvNoFault, IInv, Hands

(* Without a fault whatever is pending is in the hands of a worker.         *)
THEOREM NothingOrphaned == Spec => []NoOrphanWithoutFault
<1>1. IInvNoFault => NoOrphanWithoutFault
  BY DEF IInvNoFault
<1>. QED
  BY <1>1, NoFaultInit, NoFaultStep, PTL DEF Spec

(* Without a fault no entry of a stream is skipped.                         *)
THEOREM NothingLost == Spec => []NoLossWithoutFault
<1>1. IInvNoFault => NoLossWithoutFault
  BY DEF IInvNoFault
<1>. QED
  BY <1>1, NoFaultInit, NoFaultStep, PTL DEF Spec
-----------------------------------------------------------------------------
(* Refinement of RequestLifecycle: every step moves at most the stages that *)
(* an action of the life cycle moves.                                       *)
stage == [r \in Requests |-> Stage(r)]

(* A step that changes no stage stutters in RequestLifecycle.               *)
LEMMA StageStutters ==
  ASSUME \A r \in Requests : Stage(r)' = Stage(r)
  PROVE  stage' = stage
BY DEF stage

(* Nothing the stage depends on changes but the cursor, for jobs that are   *)
(* started or held.                                                         *)
LEMMA SameStage ==
  ASSUME UNCHANGED <<entryId, starts>>,
         \A r \in Requests : entryId[r] = 0 =>
           (phase'[r] \in {"rejected", "failed"} <=> phase[r] \in {"rejected", "failed"}),
         \A r \in Requests : Held(r)' <=> Held(r),
         \A r \in Requests : Waiting(r)' <=> Waiting(r)
  PROVE  stage' = stage
BY StageStutters DEF Stage

(* Giving up a job is a Settle when it was started and a Drop when not.     *)
LEMMA StageRelease ==
  ASSUME TypeOK, TypeOK', IdsInOrder, Hands, NEW w \in Workers,
         wjob[w] # None, wjob' = [wjob EXCEPT ![w] = None],
         UNCHANGED <<queueVars, groupVars, phase, starts>>
  PROVE  Lifecycle!Next
<1>. USE QueueOfType
<1>1. PICK r \in Requests : r = wjob[w] /\ Held(r)
  BY HoldsJob DEF TypeOK, Held
<1>2. \A v \in Workers, s \in Requests : Holds(v, s)' <=> v # w /\ Holds(v, s)
  BY HoldsJob, NoneAssumption DEF Holds, TypeOK
<1>3. /\ ~Held(r)'
      /\ \A s \in Requests : s # r => (Held(s)' <=> Held(s))
  BY <1>1, <1>2, HoldsJob DEF Held, Hands, OneHolder
<1>4. \A s \in Requests : Waiting(s)' <=> Waiting(s)
  BY DEF Waiting, Visible, queueVars, groupVars
<1>5. entryId[r] # 0 /\ ~Waiting(r)
  BY <1>1 DEF Hands, BehindCursor, Waiting, Visible, TypeOK
<1>6. \A s \in Requests : s # r => Stage(s)' = Stage(s)
  BY <1>3, <1>4 DEF Stage, queueVars
<1>7. CASE starts[r] > 0
  <2>1. Stage(r) = "running" /\ Stage(r)' = "settled"
    BY <1>1, <1>3, <1>5, <1>7 DEF Stage, queueVars
  <2>. QED
    BY <1>1, <1>6, <2>1 DEF Lifecycle!Next, Lifecycle!Settle, Lifecycle!In, Lifecycle!Move
<1>8. CASE ~(starts[r] > 0)
  <2>1. Stage(r) = "queued" /\ Stage(r)' = "dropped"
    BY <1>1, <1>3, <1>4, <1>5, <1>8 DEF Stage, queueVars
  <2>. QED
    BY <1>1, <1>6, <2>1 DEF Lifecycle!Next, Lifecycle!Drop, Lifecycle!In, Lifecycle!Move
<1>. QED
  BY <1>7, <1>8

(* An XADD is an Admit, at the expense of what MAXLEN trims.                *)
LEMMA StageAdd ==
  ASSUME TypeOK, IdsInOrder, Hands, NEW r \in Requests, XAdd(r), phase[r] = "checked",
         UNCHANGED <<groupVars, workerVars, starts>>,
         phase' = [phase EXCEPT ![r] = "queued"] \/ phase' = [phase EXCEPT ![r] = "failed"]
  PROVE  Lifecycle!Next
<1>. USE QueueOfType
<1>1. entryId[r] = 0 /\ entryId'[r] # 0 /\ \A s \in Requests : s # r => entryId'[s] = entryId[s]
  BY XAddIds DEF TypeOK
<1>2. \A s \in Requests : Held(s)' <=> Held(s)
  BY DEF Held, Holds, workerVars
<1>3. ~Held(r) /\ ~(starts[r] > 0)
  BY <1>1 DEF Hands, BehindCursor
<1>4. Stage(r) = "new"
  BY <1>1 DEF Stage
<1>5. Stage(r)' \in {"queued", "dropped"}
  BY <1>1, <1>2, <1>3 DEF Stage
<1>6. ASSUME NEW s \in Requests, s # r
      PROVE  Stage(s)' = Stage(s) \/ (Stage(s) = "queued" /\ Stage(s)' = "dropped")
  <2>1. Waiting(s)' => Waiting(s) \/ entryId[s] = 0
    BY AddWaits
  <2>2. phase'[s] = phase[s]
    BY <1>6 DEF TypeOK
  <2>. QED
    BY <1>1, <1>2, <1>6, <2>1, <2>2 DEF Stage
<1>7. DEFINE lost == {s \in Requests : Stage(s)' = "dropped" /\ Stage(s) # "dropped"}
<1>8. lost \in SUBSET (Lifecycle!In("queued") \cup Lifecycle!In("new"))
      /\ lost \cap Lifecycle!In("new") \subseteq {r}
  BY <1>4, <1>6 DEF Lifecycle!In
<1>9. r \in Lifecycle!In("new")
  BY <1>4 DEF Lifecycle!In
<1>10. stage' = [s \in Requests |-> IF s \in lost THEN "dropped"
                                    ELSE IF s = r THEN "queued" ELSE stage[s]]
  <2>1. \A s \in Requests : Stage(s)' = IF s \in lost THEN "dropped"
                                    ELSE IF s = r THEN "queued" ELSE Stage(s)
    BY <1>4, <1>5, <1>6
  <2>. QED
    BY <2>1 DEF stage
<1>. HIDE DEF lost
<1>. QED
  BY <1>8, <1>9, <1>10 DEF stage, Lifecycle!Next, Lifecycle!Admit, Lifecycle!In

(* Delivering r makes it leave the waiting entries, and no other one.       *)
LEMMA DeliverWaiting ==
  ASSUME TypeOK, IdsInOrder, NEW w \in Workers, NEW r \in Requests, Deliver(w, r),
         UNCHANGED <<entries, entryId, groups>>
  PROVE  /\ Waiting(r) /\ ~Waiting(r)'
         /\ \A s \in Requests : s # r => (Waiting(s)' <=> Waiting(s))
<1>. USE QueueOfType
<1>1. QueueOf(r) = wqueue[w] /\ wqueue[w] \in Queues
  BY DEF Deliver, Visible, IdsInOrder, TypeOK
<1>2. Waiting(r) /\ ~Waiting(r)'
  BY <1>1 DEF Deliver, Waiting, Visible, TypeOK
<1>3. ASSUME NEW s \in Requests, s # r PROVE Waiting(s)' <=> Waiting(s)
  <2>1. CASE QueueOf(s) = QueueOf(r)
    <3>1. Waiting(s) => entryId[r] < entryId[s]
      <4>1. Waiting(s) => entryId[r] <= entryId[s] /\ entryId[s] > 0
        BY <1>1, <2>1 DEF Deliver, Waiting, Visible, IdsInOrder, TypeOK
      <4>2. entryId[r] = entryId[s] /\ entryId[s] > 0 => r = s
        BY <2>1 DEF IdsInOrder
      <4>. QED
        BY <1>3, <4>1, <4>2 DEF TypeOK
    <3>. QED
      BY <1>1, <2>1, <1>2, <3>1 DEF Deliver, Waiting, Visible, TypeOK
  <2>2. CASE QueueOf(s) # QueueOf(r)
    BY <1>1, <2>2 DEF Deliver, Waiting, Visible, TypeOK
  <2>. QED
    BY <2>1, <2>2
<1>. QED
  BY <1>2, <1>3

(* Creating a group changes nobody who waits: a new one starts at the end.  *)
LEMMA GroupWaiting ==
  ASSUME TypeOK, IdsInOrder, NEW q \in Queues, XGroupCreate(q), UNCHANGED queueVars
  PROVE  \A r \in Requests : Waiting(r)' <=> Waiting(r)
BY QueueOfType DEF XGroupCreate, Waiting, Visible, TypeOK, IdsInOrder, queueVars, groupVars

(* A 503, a 500 or a crash of the gateway is a Refuse.                      *)
LEMMA RefusedStep ==
  ASSUME NEW R \in SUBSET Requests,
         UNCHANGED <<queueVars, groupVars, workerVars, starts>>,
         \A r \in R : entryId[r] = 0 /\ phase[r] \in {"new", "checked"}
                      /\ phase'[r] \in {"rejected", "failed"},
         \A r \in Requests \ R :
           phase'[r] \in {"rejected", "failed"} <=> phase[r] \in {"rejected", "failed"}
  PROVE  Lifecycle!Next
<1>1. \A r \in Requests : (Waiting(r)' <=> Waiting(r)) /\ (Held(r)' <=> Held(r))
  BY DEF Waiting, Visible, Held, Holds, queueVars, groupVars, workerVars
<1>2. \A r \in R : Stage(r) = "new" /\ Stage(r)' = "refused"
  BY DEF Stage, queueVars
<1>3. \A r \in Requests \ R : Stage(r)' = Stage(r)
  BY <1>1 DEF Stage, queueVars
<1>. QED
  BY <1>2, <1>3 DEF Lifecycle!Next, Lifecycle!Refuse, Lifecycle!In, Lifecycle!Move

(* Every step of the queue is a step of RequestLifecycle or a stutter.      *)
LEMMA RefinementStep ==
  ASSUME TypeOK, TypeOK', IdsInOrder, Hands, [Next]_vars
  PROVE  Lifecycle!Next \/ stage' = stage
<1>. USE QueueOfType
<1>1. \A r \in Requests : entryId[r] = 0 <=> ~(entryId[r] > 0)
  BY DEF TypeOK
<1>2. ASSUME UNCHANGED <<queueVars, phase, starts>>,
             \A r \in Requests : Held(r)' <=> Held(r),
             \A r \in Requests : Waiting(r)' <=> Waiting(r)
      PROVE  stage' = stage
  BY <1>2, SameStage DEF queueVars
<1>3. ASSUME UNCHANGED <<queueVars, groupVars, phase, starts>>,
             \A r \in Requests : Held(r)' <=> Held(r)
      PROVE  stage' = stage
  <2>1. \A r \in Requests : Waiting(r)' <=> Waiting(r)
    BY <1>3 DEF Waiting, Visible, queueVars, groupVars
  <2>. QED
    BY <1>2, <1>3, <2>1
<1>4. CASE GatewayNext
  <2>1. CASE GatewayBoot
    BY <1>3, <2>1 DEF GatewayBoot, Held, Holds, workerVars
  <2>2. CASE GatewayEnsureGroup
    <3>1. \A r \in Requests : (Waiting(r)' <=> Waiting(r)) /\ (Held(r)' <=> Held(r))
      BY <2>2, GroupWaiting DEF GatewayEnsureGroup, Held, Holds, workerVars
    <3>. QED
      BY <1>2, <2>2, <3>1 DEF GatewayEnsureGroup
  <2>3. CASE GatewayCrash
    <3>. DEFINE R == {r \in Requests : phase[r] = "checked"}
    <3>1. \A r \in R : entryId[r] = 0 /\ phase[r] \in {"new", "checked"}
                       /\ phase'[r] \in {"rejected", "failed"}
      BY <2>3 DEF GatewayCrash, IdsInOrder
    <3>2. \A r \in Requests \ R :
            phase'[r] \in {"rejected", "failed"} <=> phase[r] \in {"rejected", "failed"}
      BY <2>3 DEF GatewayCrash
    <3>. QED
      BY <2>3, <3>1, <3>2, RefusedStep DEF GatewayCrash
  <2>4. ASSUME NEW r \in Requests, CheckLength(r) PROVE Lifecycle!Next \/ stage' = stage
    <3>1. CASE phase' = [phase EXCEPT ![r] = "rejected"]
      <4>. DEFINE R == {r}
      <4>1. \A s \in R : entryId[s] = 0 /\ phase[s] \in {"new", "checked"}
                           /\ phase'[s] \in {"rejected", "failed"}
        BY <2>4, <3>1 DEF CheckLength, IdsInOrder, TypeOK
      <4>2. \A s \in Requests \ R : phase'[s] = phase[s]
        BY <3>1 DEF TypeOK
      <4>. QED
        <5>1. UNCHANGED <<queueVars, groupVars, workerVars, starts>> /\ R \in SUBSET Requests
          BY <2>4 DEF CheckLength
        <5>. HIDE DEF R
        <5>. QED
          BY <4>1, <4>2, <5>1, RefusedStep
    <3>2. CASE phase' = [phase EXCEPT ![r] = "checked"]
      <4>1. \A s \in Requests : phase'[s] \in {"rejected", "failed"}
                                  <=> phase[s] \in {"rejected", "failed"}
        BY <2>4, <3>2 DEF CheckLength, TypeOK
      <4>2. \A s \in Requests : (Waiting(s)' <=> Waiting(s)) /\ (Held(s)' <=> Held(s))
        BY <2>4 DEF CheckLength, Waiting, Visible, Held, Holds, queueVars, groupVars, workerVars
      <4>. QED
        BY <2>4, <4>1, <4>2, SameStage DEF CheckLength, queueVars
    <3>. QED
      BY <2>4, <3>1, <3>2 DEF CheckLength
  <2>5. ASSUME NEW r \in Requests, Enqueue(r) PROVE Lifecycle!Next
    BY <2>5, StageAdd DEF Enqueue
  <2>6. ASSUME NEW r \in Requests, EnqueueFails(r) PROVE Lifecycle!Next
    <3>1. CASE phase[r] = "checked" /\ XAdd(r)
      BY <2>6, <3>1, StageAdd DEF EnqueueFails
    <3>2. CASE UNCHANGED queueVars
      <4>. DEFINE R == {r}
      <4>1. \A s \in R : entryId[s] = 0 /\ phase[s] \in {"new", "checked"}
                           /\ phase'[s] \in {"rejected", "failed"}
        BY <2>6 DEF EnqueueFails, IdsInOrder, TypeOK
      <4>2. \A s \in Requests \ R : phase'[s] = phase[s]
        BY <2>6 DEF EnqueueFails, TypeOK
      <4>. QED
        <5>1. UNCHANGED <<queueVars, groupVars, workerVars, starts>> /\ R \in SUBSET Requests
          BY <2>6, <3>2 DEF EnqueueFails
        <5>. HIDE DEF R
        <5>. QED
          BY <4>1, <4>2, <5>1, RefusedStep
    <3>. QED
      BY <2>6, <3>1, <3>2 DEF EnqueueFails
  <2>. QED
    BY <1>4, <2>1, <2>2, <2>3, <2>4, <2>5, <2>6 DEF GatewayNext
<1>5. ASSUME NEW w \in Workers, Discard(w) \/ DiscardFails(w) \/ Ack(w) \/ AckFails(w)
      PROVE  Lifecycle!Next
  <2>1. wjob[w] # None /\ wjob' = [wjob EXCEPT ![w] = None]
        /\ UNCHANGED <<queueVars, groupVars, phase, starts>>
    BY <1>5 DEF Discard, DiscardFails, Ack, AckFails, gatewayVars, TypeOK
  <2>. QED
    BY <2>1, StageRelease
<1>6. ASSUME NEW w \in Workers, Crash(w) PROVE Lifecycle!Next \/ stage' = stage
  <2>1. wjob' = [wjob EXCEPT ![w] = None] /\ UNCHANGED <<queueVars, groupVars, phase, starts>>
    BY <1>6 DEF Crash, gatewayVars
  <2>2. CASE wjob[w] # None
    BY <2>1, <2>2, StageRelease
  <2>3. CASE wjob[w] = None
    <3>1. \A v \in Workers, r \in Requests : Holds(v, r)' <=> Holds(v, r)
      BY <1>6, <2>1, <2>3, NoneAssumption DEF Crash, Holds, TypeOK
    <3>. QED
      BY <1>3, <2>1, <3>1 DEF Held
  <2>. QED
    BY <2>2, <2>3
<1>7. ASSUME NEW w \in Workers, Poll(w) PROVE stage' = stage
  <2>1. PICK r \in Requests : Deliver(w, r) /\ wjob' = [wjob EXCEPT ![w] = r]
    BY <1>7 DEF Poll
  <2>2. /\ UNCHANGED <<queueVars, groups, phase, starts>>
        /\ wpc' = [wpc EXCEPT ![w] = "inspecting"] /\ wpc[w] = "polling"
    BY <1>7 DEF Poll, gatewayVars
  <2>3. Waiting(r) /\ ~Waiting(r)' /\ \A s \in Requests : s # r => (Waiting(s)' <=> Waiting(s))
    BY <2>1, <2>2, DeliverWaiting DEF queueVars
  <2>4. \A s \in Requests : Held(s)' <=> Held(s) \/ s = r
    BY <2>1, <2>2 DEF Held, Holds, TypeOK
  <2>5. ~Held(r) /\ ~(starts[r] > 0)
    BY <2>3 DEF Hands, BehindCursor, Waiting, Visible, TypeOK
  <2>. QED
    BY <2>2, <2>3, <2>4, <2>5, StageStutters DEF Stage, queueVars
<1>8. ASSUME NEW w \in Workers, PollFails(w) PROVE Lifecycle!Next \/ stage' = stage
  <2>1. UNCHANGED <<queueVars, groups, phase, starts>>
    BY <1>8 DEF PollFails, gatewayVars
  <2>2. \A s \in Requests : Held(s)' <=> Held(s)
    BY <1>8 DEF PollFails, NextQueue, Held, Holds, TypeOK
  <2>3. CASE UNCHANGED lastDelivered
    BY <1>3, <2>1, <2>2, <2>3 DEF groupVars
  <2>4. ASSUME NEW r \in Requests, Deliver(w, r) PROVE Lifecycle!Next
    <3>1. Waiting(r) /\ ~Waiting(r)' /\ \A s \in Requests : s # r => (Waiting(s)' <=> Waiting(s))
      BY <2>1, <2>4, DeliverWaiting DEF queueVars
    <3>2. ~Held(r) /\ ~(starts[r] > 0) /\ entryId[r] # 0
      BY <3>1 DEF Hands, BehindCursor, Waiting, Visible, TypeOK
    <3>3. Stage(r) = "queued" /\ Stage(r)' = "dropped"
      BY <2>1, <2>2, <3>1, <3>2 DEF Stage, queueVars
    <3>4. \A s \in Requests : s # r => Stage(s)' = Stage(s)
      BY <2>1, <2>2, <3>1 DEF Stage, queueVars
    <3>. QED
      BY <3>3, <3>4 DEF Lifecycle!Next, Lifecycle!Drop, Lifecycle!In, Lifecycle!Move
  <2>. QED
    BY <1>8, <2>3, <2>4 DEF PollFails
<1>9. ASSUME NEW w \in Workers, Accept(w) PROVE Lifecycle!Next
  <2>1. PICK r \in Requests : r = wjob[w] /\ Holds(w, r) /\ starts[r] = 0
    BY <1>9 DEF Accept, Holds, Hands, InspectedIsFresh, TypeOK
  <2>2. \A s \in Requests : (Held(s)' <=> Held(s)) /\ (Waiting(s)' <=> Waiting(s))
    BY <1>9 DEF Accept, Held, Holds, Waiting, Visible, TypeOK, queueVars, groupVars
  <2>3. starts' = [starts EXCEPT ![r] = 1] /\ UNCHANGED <<queueVars, phase>>
    BY <1>9, <2>1 DEF Accept, TypeOK, gatewayVars
  <2>4. entryId[r] # 0
    BY <2>1 DEF Hands, BehindCursor, Held
  <2>5. Stage(r) = "queued" /\ Stage(r)' = "running"
    <3>1. Held(r) /\ Held(r)' /\ starts'[r] = 1 /\ entryId'[r] # 0
      BY <2>1, <2>2, <2>3, <2>4 DEF Held, queueVars, TypeOK
    <3>. QED
      BY <2>1, <2>4, <3>1 DEF Stage
  <2>6. \A s \in Requests : s # r => Stage(s)' = Stage(s)
    BY <2>2, <2>3 DEF Stage, queueVars, TypeOK
  <2>. QED
    BY <2>5, <2>6 DEF Lifecycle!Next, Lifecycle!Start, Lifecycle!In, Lifecycle!Move
<1>10. ASSUME NEW w \in Workers, EnsureGroup(w) PROVE stage' = stage
  <2>1. \A r \in Requests : Waiting(r)' <=> Waiting(r)
    BY <1>10, GroupWaiting DEF EnsureGroup, TypeOK
  <2>2. \A r \in Requests : Held(r)' <=> Held(r)
    BY <1>10 DEF EnsureGroup, NextQueue, Held, Holds, TypeOK
  <2>. QED
    BY <1>2, <1>10, <2>1, <2>2 DEF EnsureGroup, gatewayVars
<1>11. ASSUME NEW w \in Workers,
              \/ Boot(w) \/ Reclaim(w) \/ PollEmpty(w) \/ Finish(w)
              \/ \E end \in {"dead", "down"} : Abort(w, end)
       PROVE  stage' = stage
  <2>1. \A r \in Requests : Held(r)' <=> Held(r)
    BY <1>11 DEF Boot, Reclaim, PollEmpty, Finish, Abort, NextQueue, Held, Holds, TypeOK
  <2>. QED
    BY <1>3, <1>11, <2>1 DEF Boot, Reclaim, PollEmpty, Finish, Abort, gatewayVars
<1>12. CASE (\E r \in Requests : Expire(r)) \/ UNCHANGED vars
  BY <1>3, <1>12 DEF Expire, vars, workerVars, gatewayVars, Held, Holds
<1>. QED
  BY <1>4, <1>5, <1>6, <1>7, <1>8, <1>9, <1>10, <1>11, <1>12
  DEF Next, WorkerNext, WorkerStep, WorkerFault

(* The queue implements the life cycle: a refusal is final, an admitted     *)
(* request is started at most once or dropped, and never comes back.        *)
THEOREM Refinement == Spec => RefinesLifecycle
<1>1. Init => Lifecycle!Init
  BY DEF Init, Lifecycle!Init, Stage
<1>2. IInv /\ IInv' /\ [Next]_vars => [Lifecycle!Next]_stage
  BY RefinementStep DEF IInv, Hands
<1>. QED
  BY <1>1, <1>2, Invariance, PTL DEF Spec, RefinesLifecycle, Lifecycle!Spec, stage
=============================================================================
