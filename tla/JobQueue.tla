------------------------------ MODULE JobQueue ------------------------------
(***************************************************************************)
(* The request queue of the platform: two Redis streams with one consumer  *)
(* group each, the Inference Gateway that appends to them                  *)
(* (inference_gateway/router.py) and the workers that consume them         *)
(* (worker/queue_consumer.py, the loop of worker/main.py).                 *)
(*                                                                         *)
(* An entry is identified with its request.  An entry id is the position   *)
(* of the entry in the order of the XADDs to its stream, which is all the  *)
(* code relies on.  A step that awaits Redis is one action for the command *)
(* taking effect; when the command can fail and the code reacts to it, the *)
(* failure is an action too, with the command applied or not.              *)
(***************************************************************************)
EXTENDS Integers, FiniteSets

CONSTANTS
  Requests,         \* the requests that reach /v1/infer
  Premium,          \* those of premium tenants
  Workers,          \* worker processes, each with its own WORKER_ID
  None,             \* no request, no worker
  MaxQueueLength,   \* MAX_QUEUE_LENGTH of router.py
  MaxFaults         \* bound on crashes, shutdowns and failed Redis calls

ASSUME PremiumAssumption == Premium \subseteq Requests
ASSUME NoneAssumption == None \notin Requests /\ None \notin Workers
ASSUME WorkersAssumption == IsFiniteSet(Workers)
ASSUME BoundsAssumption == MaxQueueLength \in Nat \ {0} /\ MaxFaults \in Nat

VARIABLES
  entries,        \* entries[q]: the entries the stream still holds (XLEN)
  entryId,        \* entryId[r]: id given to r by XADD, 0 before
  lastId,         \* lastId[q]: last id generated by the stream
  groups,         \* the queues whose consumer group exists
  lastDelivered,  \* lastDelivered[q]: last-delivered-id of the group
  pel,            \* pel[r]: consumer owning r in the pending entries list
  gateway,        \* "down", the queue whose group start-up creates, or "up"
  phase,          \* phase[r]: where enqueue_request is with r
  wpc,            \* wpc[w]: where the inference loop of w is
  wqueue,         \* wqueue[w]: loop variable of the "for queue in" loops
  wjob,           \* wjob[w]: the request poll_next_job returned
  after,          \* after[w]: where w goes once ack_job is done
  expired,        \* the requests older than their ttl_seconds
  faults,         \* faults so far (bounded by MaxFaults)
  starts,         \* history: times the engine was started on r
  passed          \* history: standard deliveries while premium r waited

queueVars == <<entries, entryId, lastId>>
groupVars == <<groups, lastDelivered>>
gatewayVars == <<gateway, phase>>
workerVars == <<wpc, wqueue, wjob, after>>
vars == <<queueVars, groupVars, pel, gatewayVars, workerVars, expired, faults,
          starts, passed>>

Queues == {"premium", "standard"}

QueueOf(r) == IF r \in Premium THEN "premium" ELSE "standard"

(* Mutant: the stream is read from its start instead of from ">".           *)
MutVisible(q) == IF q \in groups THEN entries[q] ELSE {}

(* The entries XREADGROUP ">" can still hand out.                           *)
Visible(q) == IF q \in groups
              THEN {r \in entries[q] : entryId[r] > lastDelivered[q]}
              ELSE {}

Holds(w, r) == wpc[w] \in {"inspecting", "running", "acking"} /\ wjob[w] = r

Held(r) == \E w \in Workers : Holds(w, r)

(* One more crash, shutdown or failed Redis call.                           *)
Fault == faults < MaxFaults /\ faults' = faults + 1

Init ==
  /\ entries = [q \in Queues |-> {}]
  /\ entryId = [r \in Requests |-> 0]
  /\ lastId = [q \in Queues |-> 0]
  /\ groups = {}
  /\ lastDelivered = [q \in Queues |-> 0]
  /\ pel = [r \in Requests |-> None]
  /\ gateway = "down"
  /\ phase = [r \in Requests |-> "new"]
  /\ wpc = [w \in Workers |-> "down"]
  /\ wqueue = [w \in Workers |-> "premium"]
  /\ wjob = [w \in Workers |-> None]
  /\ after = [w \in Workers |-> "polling"]
  /\ expired = {}
  /\ faults = 0
  /\ starts = [r \in Requests |-> 0]
  /\ passed = [r \in Requests |-> 0]

-----------------------------------------------------------------------------
(* Mutant: creating the group rewinds an existing one to the start.         *)
MutXGroupCreate(q) ==
  /\ groups' = groups \cup {q}
  /\ lastDelivered' = [lastDelivered EXCEPT ![q] = 0]
  /\ UNCHANGED faults

(* XGROUP CREATE q workers $ MKSTREAM: a new group starts after the last    *)
(* entry; an existing one is left alone (BUSYGROUP, swallowed).  So is any  *)
(* other exception: a failed call looks the same to its caller.             *)
XGroupCreate(q) ==
  \/ /\ groups' = groups \cup {q}
     /\ lastDelivered' = IF q \in groups THEN lastDelivered
                         ELSE [lastDelivered EXCEPT ![q] = lastId[q]]
     /\ UNCHANGED faults
  \/ q \notin groups /\ Fault /\ UNCHANGED groupVars

GatewayBoot ==
  /\ gateway = "down"
  /\ gateway' = "premium"
  /\ UNCHANGED <<queueVars, groupVars, pel, phase, workerVars, expired, faults,
                 starts, passed>>

(* Mutant: requests are served before the second group exists.              *)
MutGatewayEnsureGroup ==
  /\ gateway \in Queues
  /\ XGroupCreate(gateway)
  /\ gateway' = "up"
  /\ UNCHANGED <<queueVars, pel, phase, workerVars, expired, starts, passed>>

GatewayEnsureGroup ==
  /\ gateway \in Queues
  /\ XGroupCreate(gateway)
  /\ gateway' = IF gateway = "premium" THEN "standard" ELSE "up"
  /\ UNCHANGED <<queueVars, pel, phase, workerVars, expired, starts, passed>>

(* The gateway process goes down, and with it the requests it was handling. *)
GatewayCrash ==
  /\ gateway # "down"
  /\ Fault
  /\ gateway' = "down"
  /\ phase' = [r \in Requests |-> IF phase[r] = "checked" THEN "failed" ELSE phase[r]]
  /\ UNCHANGED <<queueVars, groupVars, pel, workerVars, expired, starts, passed>>

(* XLEN, and the 503 when the stream is at MAX_QUEUE_LENGTH.                 *)
CheckLength(r) ==
  /\ gateway = "up"
  /\ phase[r] = "new"
  /\ phase' = [phase EXCEPT ![r] =
       IF Cardinality(entries[QueueOf(r)]) >= MaxQueueLength THEN "rejected" ELSE "checked"]
  /\ UNCHANGED <<queueVars, groupVars, pel, gateway, workerVars, expired, faults,
                 starts, passed>>

(* MAXLEN ~: Redis may drop the oldest entries down to the limit, and may    *)
(* keep any number of them.                                                 *)
MayTrim(q, all, ids, gone) ==
  /\ Cardinality(all \ gone) >= MaxQueueLength \/ gone = {}
  /\ \A g \in gone, e \in all \ gone : ids[g] < ids[e]

XAdd(r) ==
  LET q == QueueOf(r)
      all == entries[q] \cup {r}
      ids == [entryId EXCEPT ![r] = lastId[q] + 1]
  IN /\ entryId' = ids
     /\ lastId' = [lastId EXCEPT ![q] = @ + 1]
     /\ \E gone \in SUBSET all :
          /\ MayTrim(q, all, ids, gone)
          /\ entries' = [entries EXCEPT ![q] = all \ gone]

(* Mutant: the 503 is prepared but not raised.                              *)
MutEnqueue(r) ==
  /\ phase[r] \in {"checked", "rejected"}
  /\ XAdd(r)
  /\ phase' = [phase EXCEPT ![r] = "queued"]
  /\ UNCHANGED <<groupVars, pel, gateway, workerVars, expired, faults, starts, passed>>

Enqueue(r) ==
  /\ phase[r] = "checked"
  /\ XAdd(r)
  /\ phase' = [phase EXCEPT ![r] = "queued"]
  /\ UNCHANGED <<groupVars, pel, gateway, workerVars, expired, faults, starts, passed>>

(* A failed XLEN or XADD is a 500 to the caller; the XADD may have been      *)
(* applied all the same.                                                    *)
EnqueueFails(r) ==
  /\ gateway = "up"
  /\ phase[r] \in {"new", "checked"}
  /\ Fault
  /\ phase' = [phase EXCEPT ![r] = "failed"]
  /\ \/ phase[r] = "checked" /\ XAdd(r)
     \/ UNCHANGED queueVars
  /\ UNCHANGED <<groupVars, pel, gateway, workerVars, expired, starts, passed>>

(* Time passes: is_expired() becomes true of r.                             *)
Expire(r) ==
  /\ phase[r] # "new"
  /\ r \notin expired
  /\ expired' = expired \cup {r}
  /\ UNCHANGED <<queueVars, groupVars, pel, gatewayVars, workerVars, faults,
                 starts, passed>>

-----------------------------------------------------------------------------
(* The loops "for queue in [QUEUE_PREMIUM, QUEUE_STANDARD]" of a worker:     *)
(* the next queue, or what follows the loop.                                *)
NextQueue(w, following) ==
  IF wqueue[w] = "premium"
  THEN wqueue' = [wqueue EXCEPT ![w] = "standard"] /\ UNCHANGED wpc
  ELSE /\ wqueue' = [wqueue EXCEPT ![w] = "premium"]
       /\ wpc' = [wpc EXCEPT ![w] = following]

Boot(w) ==
  /\ wpc[w] = "down"
  /\ wpc' = [wpc EXCEPT ![w] = "ensuring"]
  /\ UNCHANGED <<queueVars, groupVars, pel, gatewayVars, wqueue, wjob, after,
                 expired, faults, starts, passed>>

EnsureGroup(w) ==
  /\ wpc[w] = "ensuring"
  /\ XGroupCreate(wqueue[w])
  /\ NextQueue(w, "reclaiming")
  /\ UNCHANGED <<queueVars, pel, gatewayVars, wjob, after, expired, starts, passed>>

(* Mutant: reclaimed entries are acknowledged on the spot.                  *)
MutReclaim(w) ==
  /\ wpc[w] = "reclaiming"
  /\ \E claimed \in SUBSET {r \in Requests : pel[r] # None /\ QueueOf(r) = wqueue[w]} :
       pel' = [r \in Requests |-> IF r \in claimed THEN None ELSE pel[r]]
  /\ NextQueue(w, "polling")
  /\ UNCHANGED <<queueVars, groupVars, gatewayVars, wjob, after, expired, faults,
                 starts, passed>>

(* XAUTOCLAIM: w becomes the owner of the entries idle for long enough (any *)
(* set of pending ones); a pending entry no longer in the stream is erased  *)
(* from the list.  The entries returned are counted for the log, no more;   *)
(* a failing call (no group, no connection) claims nothing and is logged.   *)
Reclaim(w) ==
  /\ wpc[w] = "reclaiming"
  /\ \E claimed \in SUBSET {r \in Requests : pel[r] # None /\ QueueOf(r) = wqueue[w]} :
       pel' = [r \in Requests |->
                 IF r \notin claimed THEN pel[r]
                 ELSE IF r \in entries[QueueOf(r)] THEN w ELSE None]
  /\ NextQueue(w, "polling")
  /\ UNCHANGED <<queueVars, groupVars, gatewayVars, wjob, after, expired, faults,
                 starts, passed>>

(* XREADGROUP ">" COUNT 1 hands the oldest visible entry to w.              *)
Deliver(w, r) ==
  LET q == wqueue[w]
  IN /\ r \in Visible(q)
     /\ \A s \in Visible(q) : entryId[r] <= entryId[s]
     /\ lastDelivered' = [lastDelivered EXCEPT ![q] = entryId[r]]
     /\ pel' = [pel EXCEPT ![r] = w]
     /\ passed' = [p \in Requests |->
                     IF q = "standard" /\ p \in Visible("premium")
                     THEN passed[p] + 1 ELSE passed[p]]

Poll(w) ==
  /\ wpc[w] = "polling"
  /\ \E r \in Requests : Deliver(w, r) /\ wjob' = [wjob EXCEPT ![w] = r]
  /\ wpc' = [wpc EXCEPT ![w] = "inspecting"]
  /\ UNCHANGED <<queueVars, groups, gatewayVars, wqueue, after, expired, faults, starts>>

(* Mutant: an empty premium stream is polled again, not the standard one.   *)
MutPollEmpty(w) ==
  /\ wpc[w] = "polling"
  /\ Visible(wqueue[w]) = {}
  /\ UNCHANGED vars

(* The block time passes with nothing to deliver; without a group the call  *)
(* raises NOGROUP, which moves on to the next queue as well.                *)
PollEmpty(w) ==
  /\ wpc[w] = "polling"
  /\ Visible(wqueue[w]) = {}
  /\ NextQueue(w, "polling")
  /\ UNCHANGED <<queueVars, groupVars, pel, gatewayVars, wjob, after, expired,
                 faults, starts, passed>>

(* The call fails, or its reply is lost after Redis delivered the entry:    *)
(* the exception is logged and the next queue is polled.                    *)
PollFails(w) ==
  /\ wpc[w] = "polling"
  /\ Fault
  /\ \/ UNCHANGED <<lastDelivered, pel, passed>>
     \/ \E r \in Requests : Deliver(w, r)
  /\ NextQueue(w, "polling")
  /\ UNCHANGED <<queueVars, groups, gatewayVars, wjob, after, expired, starts>>

(* Mutant: the next poll goes on with the queue the job came from.          *)
MutAccept(w) ==
  /\ wpc[w] = "inspecting"
  /\ wjob[w] \notin expired
  /\ wpc' = [wpc EXCEPT ![w] = "running"]
  /\ starts' = [starts EXCEPT ![wjob[w]] = @ + 1]
  /\ UNCHANGED <<queueVars, groupVars, pel, gatewayVars, wqueue, wjob, after,
                 expired, faults, passed>>

Accept(w) ==
  /\ wpc[w] = "inspecting"
  /\ wjob[w] \notin expired
  /\ wpc' = [wpc EXCEPT ![w] = "running"]
  /\ wqueue' = [wqueue EXCEPT ![w] = "premium"]
  /\ starts' = [starts EXCEPT ![wjob[w]] = @ + 1]
  /\ UNCHANGED <<queueVars, groupVars, pel, gatewayVars, wjob, after, expired,
                 faults, passed>>

(* XACK: r leaves the pending list, whoever owns it.                        *)
XAck(r) == pel' = [pel EXCEPT ![r] = None]

(* Mutant: an expired job is dropped without XACK.                          *)
MutDiscard(w) ==
  /\ wpc[w] = "inspecting"
  /\ wjob[w] \in expired
  /\ wjob' = [wjob EXCEPT ![w] = None]
  /\ wpc' = [wpc EXCEPT ![w] = "polling"]
  /\ wqueue' = [wqueue EXCEPT ![w] = "premium"]
  /\ UNCHANGED <<queueVars, groupVars, pel, gatewayVars, after, expired, faults,
                 starts, passed>>

(* An expired job is acknowledged and dropped, and poll_next_job returns    *)
(* None: the loop starts over with the premium queue.                       *)
Discard(w) ==
  /\ wpc[w] = "inspecting"
  /\ wjob[w] \in expired
  /\ XAck(wjob[w])
  /\ wjob' = [wjob EXCEPT ![w] = None]
  /\ wpc' = [wpc EXCEPT ![w] = "polling"]
  /\ wqueue' = [wqueue EXCEPT ![w] = "premium"]
  /\ UNCHANGED <<queueVars, groupVars, gatewayVars, after, expired, faults,
                 starts, passed>>

(* ... unless the XACK raises, which is a polling error: on to the next      *)
(* queue, with the job given up.                                            *)
DiscardFails(w) ==
  /\ wpc[w] = "inspecting"
  /\ wjob[w] \in expired
  /\ Fault
  /\ XAck(wjob[w]) \/ UNCHANGED pel
  /\ wjob' = [wjob EXCEPT ![w] = None]
  /\ wqueue' = [wqueue EXCEPT ![w] = IF @ = "premium" THEN "standard" ELSE "premium"]
  /\ wpc' = [wpc EXCEPT ![w] = "polling"]
  /\ UNCHANGED <<queueVars, groupVars, gatewayVars, after, expired, starts, passed>>

-----------------------------------------------------------------------------
(* The try block is over and the finally clause is about to acknowledge the *)
(* job: generation finished, or failed and the error was published ...      *)
Finish(w) ==
  /\ wpc[w] = "running"
  /\ wpc' = [wpc EXCEPT ![w] = "acking"]
  /\ UNCHANGED <<queueVars, groupVars, pel, gatewayVars, wqueue, wjob, after,
                 expired, faults, starts, passed>>

(* ... or publishing the error failed too, and that exception ends the loop *)
(* after the clause; or the lifespan cancelled the task.                    *)
Abort(w, end) ==
  /\ wpc[w] = "running"
  /\ Fault
  /\ wpc' = [wpc EXCEPT ![w] = "acking"]
  /\ after' = [after EXCEPT ![w] = end]
  /\ UNCHANGED <<queueVars, groupVars, pel, gatewayVars, wqueue, wjob, expired,
                 starts, passed>>

(* Mutant: the loop goes back to polling with the last job still in hand.   *)
MutAck(w) ==
  /\ wpc[w] = "acking"
  /\ XAck(wjob[w])
  /\ wpc' = [wpc EXCEPT ![w] = after[w]]
  /\ after' = [after EXCEPT ![w] = "polling"]
  /\ UNCHANGED <<queueVars, groupVars, gatewayVars, wqueue, wjob, expired, faults,
                 starts, passed>>

Ack(w) ==
  /\ wpc[w] = "acking"
  /\ XAck(wjob[w])
  /\ wpc' = [wpc EXCEPT ![w] = after[w]]
  /\ wjob' = [wjob EXCEPT ![w] = None]
  /\ after' = [after EXCEPT ![w] = "polling"]
  /\ UNCHANGED <<queueVars, groupVars, gatewayVars, wqueue, expired, faults,
                 starts, passed>>

(* ack_job raises out of the finally clause: the task ends.  The process    *)
(* and its /health live on, unless they were going down.                    *)
AckFails(w) ==
  /\ wpc[w] = "acking"
  /\ Fault
  /\ XAck(wjob[w]) \/ UNCHANGED pel
  /\ wpc' = [wpc EXCEPT ![w] = IF after[w] = "down" THEN "down" ELSE "dead"]
  /\ wjob' = [wjob EXCEPT ![w] = None]
  /\ after' = [after EXCEPT ![w] = "polling"]
  /\ UNCHANGED <<queueVars, groupVars, gatewayVars, wqueue, expired, starts, passed>>

(* The worker process dies, or is shut down outside the try block.          *)
Crash(w) ==
  /\ wpc[w] # "down"
  /\ Fault
  /\ wpc' = [wpc EXCEPT ![w] = "down"]
  /\ wqueue' = [wqueue EXCEPT ![w] = "premium"]
  /\ wjob' = [wjob EXCEPT ![w] = None]
  /\ after' = [after EXCEPT ![w] = "polling"]
  /\ UNCHANGED <<queueVars, groupVars, pel, gatewayVars, expired, starts, passed>>

-----------------------------------------------------------------------------
GatewayNext ==
  \/ GatewayBoot \/ GatewayEnsureGroup \/ GatewayCrash
  \/ \E r \in Requests : CheckLength(r) \/ Enqueue(r) \/ EnqueueFails(r)

(* What the loop of w does by itself while its Redis calls succeed.         *)
WorkerStep(w) ==
  \/ EnsureGroup(w) \/ Reclaim(w) \/ Poll(w) \/ PollEmpty(w) \/ Accept(w)
  \/ Discard(w) \/ Finish(w) \/ Ack(w)

WorkerFault(w) ==
  \/ PollFails(w) \/ DiscardFails(w) \/ AckFails(w) \/ Crash(w)
  \/ \E end \in {"dead", "down"} : Abort(w, end)

WorkerNext == \E w \in Workers : Boot(w) \/ WorkerStep(w) \/ WorkerFault(w)

Next == GatewayNext \/ WorkerNext \/ \E r \in Requests : Expire(r)

Spec == Init /\ [][Next]_vars

(* A running worker keeps taking the steps of its loop: the event loop      *)
(* schedules it, Redis answers or raises, and engine.generate is bounded by *)
(* max_tokens.  Nothing restarts a process, so Boot is not fair.            *)
FairSpec == Spec /\ \A w \in Workers : WF_vars(WorkerStep(w))

-----------------------------------------------------------------------------
Phases == {"new", "checked", "queued", "rejected", "failed"}

LoopStates == {"down", "ensuring", "reclaiming", "polling", "inspecting",
               "running", "acking", "dead"}

(* Types; a worker has a job in hand exactly between the XREADGROUP that    *)
(* returned it and the end of ack_job (or of the discard).                  *)
TypeOK ==
  /\ entries \in [Queues -> SUBSET Requests]
  /\ entryId \in [Requests -> Nat]
  /\ lastId \in [Queues -> Nat]
  /\ groups \subseteq Queues
  /\ lastDelivered \in [Queues -> Nat]
  /\ pel \in [Requests -> Workers \cup {None}]
  /\ gateway \in Queues \cup {"down", "up"}
  /\ phase \in [Requests -> Phases]
  /\ wpc \in [Workers -> LoopStates]
  /\ wqueue \in [Workers -> Queues]
  /\ wjob \in [Workers -> Requests \cup {None}]
  /\ after \in [Workers -> {"polling", "dead", "down"}]
  /\ expired \subseteq Requests
  /\ faults \in 0..MaxFaults
  /\ starts \in [Requests -> Nat]
  /\ passed \in [Requests -> Nat]
  /\ \A w \in Workers :
       wjob[w] # None <=> wpc[w] \in {"inspecting", "running", "acking"}

(* No two workers ever have the same job in hand, whatever is reclaimed,     *)
(* retried or restarted (queue_consumer.py "multiple worker instances share *)
(* the load").                                                              *)
OneHolder ==
  \A r \in Requests, v, w \in Workers : Holds(v, r) /\ Holds(w, r) => v = w

(* The engine is started at most once on a request: crashes, lost replies    *)
(* and XAUTOCLAIM never make a job run twice.                               *)
AtMostOnce == \A r \in Requests : starts[r] <= 1

(* A job in hand is still pending in the group, so a crash leaves a trace of *)
(* it there, as long as its entry was not trimmed (XAUTOCLAIM then erases it)*)
(* and its XACK has not been sent.                                          *)
HeldIsPending ==
  \A w \in Workers : wjob[w] # None =>
    pel[wjob[w]] # None \/ wjob[w] \notin entries[QueueOf(wjob[w])]

(* Without a fault nothing stays pending that no worker has in hand: every   *)
(* path of the loop that lets go of a job acknowledges it first.            *)
NoOrphanWithoutFault ==
  faults = 0 => \A r \in Requests : pel[r] # None => Held(r)

(* Without a fault an entry of the stream is never skipped: it is visible to *)
(* the workers, in the hands of one, started, or discarded because expired. *)
(* It takes the trimming of MAXLEN to lose it (the gateway creates both      *)
(* groups before it serves a request).                                      *)
NoLossWithoutFault ==
  faults = 0 => \A q \in Queues : \A r \in entries[q] :
    r \in Visible(q) \/ Held(r) \/ starts[r] > 0 \/ r \in expired

(* "Always drain queue:premium before queue:standard" as the code has it:   *)
(* while a premium request waits, at most one standard delivery per worker   *)
(* (the one already blocked on the standard stream) and one per failed call *)
(* goes first.                                                              *)
BoundedOvertaking ==
  \A r \in Premium : passed[r] <= Cardinality(Workers) + faults

Waiting(r) == r \in Visible(QueueOf(r))

(* A waiting entry is eventually delivered, or trimmed, unless every worker  *)
(* is down or its loop has ended.  A standard one waits for the premium ones *)
(* to stop arriving, which the finite set of requests makes happen.         *)
QueuedIsDelivered ==
  \A r \in Requests :
    Waiting(r) ~> (~Waiting(r) \/ \A w \in Workers : wpc[w] \in {"down", "dead"})

(* The stage of a request, as its caller and the engine see it.             *)
Stage(r) ==
  IF entryId[r] = 0
    THEN IF phase[r] \in {"rejected", "failed"} THEN "refused" ELSE "new"
  ELSE IF starts[r] > 0 THEN IF Held(r) THEN "running" ELSE "settled"
  ELSE IF Waiting(r) \/ Held(r) THEN "queued" ELSE "dropped"

Lifecycle == INSTANCE RequestLifecycle WITH stage <- [r \in Requests |-> Stage(r)]

(* The queue implements the life cycle of RequestLifecycle: a 503 is final,  *)
(* an admitted request is started at most once or dropped for good.         *)
RefinesLifecycle == Lifecycle!Spec

(* router.py: "If the queue is full, the request is rejected": a request is *)
(* rejected only when MAX_QUEUE_LENGTH others wait or are being processed.  *)
RejectsOnlyWhenBusy ==
  [][\A r \in Requests : phase[r] # "rejected" /\ phase'[r] = "rejected" =>
       Cardinality({s \in Requests : QueueOf(s) = QueueOf(r)
                                      /\ (Waiting(s) \/ Held(s))}) >= MaxQueueLength]_vars

(* queue_consumer.py: "On crash/restart, uses XAUTOCLAIM to reclaim stale    *)
(* pending messages": what a restarting worker owns in the pending list it  *)
(* eventually deals with.                                                   *)
RestartRecovers ==
  \A w \in Workers, r \in Requests :
    wpc[w] = "reclaiming" /\ pel[r] = w ~>
      (pel[r] = None \/ wpc[w] \in {"down", "dead"})

-----------------------------------------------------------------------------
(* Why the safety properties hold: the parts of the inductive invariant.    *)

(* Entry ids are given once, in order, and only to requests that were added.*)
IdsInOrder ==
  /\ \A r \in Requests :
       /\ entryId[r] <= lastId[QueueOf(r)]
       /\ phase[r] \in {"new", "checked", "rejected"} => entryId[r] = 0
       /\ phase[r] = "queued" => entryId[r] > 0
  /\ \A r, s \in Requests :
       QueueOf(r) = QueueOf(s) /\ entryId[r] = entryId[s] /\ entryId[r] > 0 => r = s
  /\ \A q \in Queues :
       /\ lastDelivered[q] <= lastId[q]
       /\ \A r \in entries[q] : QueueOf(r) = q /\ entryId[r] > 0

(* What a worker has in hand, and what was started, is behind the group's   *)
(* cursor: XREADGROUP ">" cannot return it again.                           *)
BehindCursor ==
  \A r \in Requests : Held(r) \/ starts[r] > 0 =>
    entryId[r] > 0 /\ entryId[r] <= lastDelivered[QueueOf(r)]

(* A job that poll_next_job is still looking at was not started.            *)
InspectedIsFresh ==
  \A w \in Workers : wpc[w] = "inspecting" => starts[wjob[w]] = 0

(* A request that waits now has been passed by a standard delivery for each *)
(* worker at most, counting the workers about to read the standard stream.  *)
OnStandard == {w \in Workers : wpc[w] = "polling" /\ wqueue[w] = "standard"}

WaitingIsPassedLess ==
  \A r \in Premium : Waiting(r) =>
    passed[r] + Cardinality(OnStandard) <= Cardinality(Workers) + faults

(* Every way out of a job leads to the head of the "for queue in" loop.     *)
LoopStartsOver ==
  \A w \in Workers : wpc[w] \in {"down", "running", "acking", "dead"} => wqueue[w] = "premium"

NotAddedNotPassed == \A r \in Requests : entryId[r] = 0 => passed[r] = 0

RunningIsStarted ==
  \A w \in Workers : wpc[w] \in {"running", "acking"} => starts[wjob[w]] > 0

(* Without a fault the gateway serves no request before both groups exist.  *)
ServesWithGroups ==
  faults = 0 =>
    /\ gateway = "standard" => "premium" \in groups
    /\ gateway = "up" => groups = Queues
    /\ \A r \in Requests : phase[r] \in {"checked", "queued", "rejected", "failed"}
         => groups = Queues

IInv ==
  /\ TypeOK /\ IdsInOrder /\ BehindCursor /\ InspectedIsFresh
  /\ OneHolder /\ AtMostOnce /\ HeldIsPending

IInvOrder == /\ IInv /\ LoopStartsOver
             /\ BoundedOvertaking /\ WaitingIsPassedLess /\ NotAddedNotPassed

IInvNoFault == /\ IInv /\ RunningIsStarted
               /\ ServesWithGroups /\ NoOrphanWithoutFault /\ NoLossWithoutFault
=============================================================================
