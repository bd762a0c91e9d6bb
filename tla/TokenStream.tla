---------------------------- MODULE TokenStream ----------------------------
(***************************************************************************)
(* How the tokens of a job reach its client: the worker publishes events   *)
(* on the channel of the request (worker/publisher.py and the try block of *)
(* worker/main.py), Redis pub/sub forwards an event to whoever is          *)
(* subscribed at that instant, and a generator in the Inference Gateway    *)
(* turns events into SSE chunks (inference_gateway/sse_manager.py).  The    *)
(* generators share the connection pool of shared/redis_client.py.         *)
(*                                                                         *)
(* How a job gets from the queue to a worker is the business of JobQueue:   *)
(* here a queued job is started at most once, or never.                    *)
(***************************************************************************)
EXTENDS Integers, Sequences, FiniteSets

CONSTANTS
  Requests,     \* the requests for which /v1/infer is called
  MaxTokens,    \* MaxTokens[r]: the max_tokens of the request
  PoolSize,     \* max_connections of the gateway's Redis client
  MaxCommands,  \* bound on the other Redis commands of the gateway in flight
  MaxFaults     \* bound on failed Redis calls, engine failures, crashes

ASSUME RequestsAssumption == IsFiniteSet(Requests)
ASSUME TokensAssumption == MaxTokens \in [Requests -> Nat]
ASSUME BoundsAssumption == PoolSize \in Nat \ {0} /\ MaxCommands \in Nat /\ MaxFaults \in Nat

VARIABLES
  job,        \* job[r]: what the worker side does with r
  produced,   \* produced[r]: tokens of r that reached Redis
  missed,     \* history: of those, the ones published before the subscription
  conn,       \* conn[r]: pub/sub connection of the generator of r
  inbox,      \* inbox[r]: events on that connection, not read yet
  sse,        \* sse[r]: where infer() and stream_response() are with r
  sent,       \* sent[r]: the chunks given to the client
  late,       \* the streams whose deadline has passed
  cancelled,  \* the streams whose client disconnected
  gauge,      \* active_sse_streams
  inUse,      \* connections taken from the pool by streams, not given back
  commands,   \* connections held for one command (XLEN, XADD, ...)
  faults      \* faults so far (bounded by MaxFaults)

workerVars == <<job, produced>>
channelVars == <<missed, conn, inbox>>
streamVars == <<sse, sent, late, cancelled, gauge, inUse>>
vars == <<workerVars, channelVars, streamVars, commands, faults>>

Token(i) == [kind |-> "token", token |-> i]
Terminal(k) == [kind |-> k, token |-> 0]

(* "blank" is an error event whose message is the empty string.             *)
Events == [kind : {"token", "done", "error", "blank"}, token : Nat]
Chunks == [kind : {"token", "done", "error", "timeout"}, token : Nat]

PoolExhausted == inUse + commands = PoolSize

Fault == faults < MaxFaults /\ faults' = faults + 1

Init ==
  /\ job = [r \in Requests |-> "none"]
  /\ produced = [r \in Requests |-> 0]
  /\ missed = [r \in Requests |-> 0]
  /\ conn = [r \in Requests |-> "none"]
  /\ inbox = [r \in Requests |-> <<>>]
  /\ sse = [r \in Requests |-> "new"]
  /\ sent = [r \in Requests |-> <<>>]
  /\ late = {}
  /\ cancelled = {}
  /\ gauge = 0
  /\ inUse = 0
  /\ commands = 0
  /\ faults = 0

-----------------------------------------------------------------------------
(* The worker.                                                              *)

(* PUBLISH: the event goes to the subscriber, if there is one by now.       *)
Publish(r, e) ==
  /\ inbox' = IF conn[r] = "subscribed" THEN [inbox EXCEPT ![r] = Append(@, e)] ELSE inbox
  /\ missed' = IF conn[r] \in {"none", "asked"} /\ e.kind = "token"
               THEN [missed EXCEPT ![r] = @ + 1] ELSE missed

(* poll_next_job returns the job to a worker.  That may never happen (the   *)
(* job expires, or is lost): nothing is assumed of this step.               *)
TakeJob(r) ==
  /\ job[r] = "queued"
  /\ job' = [job EXCEPT ![r] = "running"]
  /\ UNCHANGED <<produced, channelVars, streamVars, commands, faults>>

PublishToken(r) ==
  /\ job[r] = "running"
  /\ produced[r] < MaxTokens[r]
  /\ produced' = [produced EXCEPT ![r] = @ + 1]
  /\ Publish(r, Token(produced[r] + 1))
  /\ UNCHANGED <<job, conn, streamVars, commands, faults>>

PublishDone(r) ==
  /\ job[r] = "running"
  /\ job' = [job EXCEPT ![r] = "complete"]
  /\ Publish(r, Terminal("done"))
  /\ UNCHANGED <<produced, conn, streamVars, commands, faults>>

(* In the except clause: publish_token raised, or the engine did.           *)
Failing == {"failing", "raised", "raisedBlank"}

(* publish_token raises, the event published or not: on to publish_error,   *)
(* with a message.                                                          *)
PublishFails(r) ==
  /\ job[r] = "running"
  /\ Fault
  /\ job' = [job EXCEPT ![r] = "failing"]
  /\ \/ UNCHANGED <<produced, missed, inbox>>
     \/ /\ produced[r] < MaxTokens[r]
        /\ produced' = [produced EXCEPT ![r] = @ + 1]
        /\ Publish(r, Token(produced[r] + 1))
     \/ UNCHANGED produced /\ Publish(r, Terminal("done"))
  /\ UNCHANGED <<conn, streamVars, commands>>

(* The engine raises; str(e) is empty for an exception without arguments.   *)
EngineFails(r) ==
  /\ job[r] = "running"
  /\ Fault
  /\ \E raised \in {"raised", "raisedBlank"} : job' = [job EXCEPT ![r] = raised]
  /\ UNCHANGED <<produced, channelVars, streamVars, commands>>

PublishError(r) ==
  /\ job[r] \in Failing
  /\ job' = [job EXCEPT ![r] = IF @ = "failing" THEN "failed" ELSE "errored"]
  /\ Publish(r, Terminal(IF job[r] = "raisedBlank" THEN "blank" ELSE "error"))
  /\ UNCHANGED <<produced, conn, streamVars, commands, faults>>

(* The worker crashes or is shut down, or publish_error raises (and with it *)
(* the loop ends): no further event.                                        *)
WorkerStops(r) ==
  /\ job[r] \in Failing \cup {"running"}
  /\ Fault
  /\ job' = [job EXCEPT ![r] = IF @ \in {"running", "failing"} THEN "failed" ELSE "errored"]
  /\ UNCHANGED <<produced, channelVars, streamVars, commands>>

-----------------------------------------------------------------------------
(* The gateway.                                                             *)

(* Another coroutine (enqueue_request, /health, /queues) awaits a command.   *)
TakeConnection ==
  /\ commands < MaxCommands
  /\ ~PoolExhausted
  /\ commands' = commands + 1
  /\ UNCHANGED <<workerVars, channelVars, streamVars, faults>>

ReturnConnection ==
  /\ commands > 0
  /\ commands' = commands - 1
  /\ UNCHANGED <<workerVars, channelVars, streamVars, faults>>

(* enqueue_request: its commands need a connection for a moment; without    *)
(* one, or when a command fails, the caller gets a 500, and a 503 when the  *)
(* queue is full.                                                           *)
Enqueue(r) ==
  /\ sse[r] = "new"
  /\ \/ /\ ~PoolExhausted
        /\ sse' = [sse EXCEPT ![r] = "enqueued"]
        /\ job' = [job EXCEPT ![r] = "queued"]
     \/ /\ sse' = [sse EXCEPT ![r] = "refused"]
        /\ UNCHANGED job
  /\ UNCHANGED <<produced, channelVars, sent, late, cancelled, gauge, inUse, commands, faults>>

(* pubsub.subscribe takes a connection for the life of the stream and sends *)
(* the command; it does not wait for Redis to act on it.                    *)
Subscribe(r) ==
  /\ sse[r] = "enqueued"
  /\ ~PoolExhausted
  /\ sse' = [sse EXCEPT ![r] = "open"]
  /\ conn' = [conn EXCEPT ![r] = "asked"]
  /\ inUse' = inUse + 1
  /\ gauge' = gauge + 1
  /\ UNCHANGED <<workerVars, missed, inbox, sent, late, cancelled, commands, faults>>

(* Mutant: subscribe is inside the try block, whose finally clause runs.    *)
MutSubscribeExhausted(r) ==
  /\ sse[r] = "enqueued"
  /\ PoolExhausted
  /\ sse' = [sse EXCEPT ![r] = "ending"]
  /\ UNCHANGED <<workerVars, channelVars, sent, late, cancelled, gauge, inUse, commands, faults>>

(* The pool is exhausted: the response, already begun, is cut off.          *)
SubscribeExhausted(r) ==
  /\ sse[r] = "enqueued"
  /\ PoolExhausted
  /\ sse' = [sse EXCEPT ![r] = "aborted"]
  /\ UNCHANGED <<workerVars, channelVars, sent, late, cancelled, gauge, inUse, commands, faults>>

(* Connecting fails; or sending does, outside the try block whose finally   *)
(* clause would give the connection back.                                   *)
SubscribeFails(r) ==
  /\ sse[r] = "enqueued"
  /\ ~PoolExhausted
  /\ Fault
  /\ \/ sse' = [sse EXCEPT ![r] = "aborted"] /\ UNCHANGED inUse
     \/ sse' = [sse EXCEPT ![r] = "leaked"] /\ inUse' = inUse + 1
  /\ UNCHANGED <<workerVars, channelVars, sent, late, cancelled, gauge, commands>>

(* Redis acts on the SUBSCRIBE: events published from now on are forwarded. *)
SubscribeTakesEffect(r) ==
  /\ conn[r] = "asked"
  /\ conn' = [conn EXCEPT ![r] = "subscribed"]
  /\ UNCHANGED <<workerVars, missed, inbox, streamVars, commands, faults>>

(* The chunk an event becomes: a blank error counts as no error, and the    *)
(* event has done set.                                                      *)
ChunkOf(e) == IF e.kind = "blank" THEN Terminal("done") ELSE e

(* Mutant: no return after an error chunk.                                  *)
MutReceive(r) ==
  /\ sse[r] = "open"
  /\ r \notin late
  /\ inbox[r] # <<>>
  /\ inbox' = [inbox EXCEPT ![r] = Tail(@)]
  /\ sent' = [sent EXCEPT ![r] = Append(@, ChunkOf(Head(inbox[r])))]
  /\ sse' = IF Head(inbox[r]).kind \in {"token", "error"} THEN sse
            ELSE [sse EXCEPT ![r] = "ending"]
  /\ UNCHANGED <<workerVars, missed, conn, late, cancelled, gauge, inUse, commands, faults>>

Receive(r) ==
  /\ sse[r] = "open"
  /\ r \notin late
  /\ inbox[r] # <<>>
  /\ inbox' = [inbox EXCEPT ![r] = Tail(@)]
  /\ sent' = [sent EXCEPT ![r] = Append(@, ChunkOf(Head(inbox[r])))]
  /\ sse' = IF Head(inbox[r]).kind = "token" THEN sse ELSE [sse EXCEPT ![r] = "ending"]
  /\ UNCHANGED <<workerVars, missed, conn, late, cancelled, gauge, inUse, commands, faults>>

(* Mutant: the deadline is looked at only when a message arrives.           *)
MutDeadlinePasses(r) ==
  /\ sse[r] = "open"
  /\ r \notin late
  /\ inbox[r] # <<>>
  /\ late' = late \cup {r}
  /\ UNCHANGED <<workerVars, channelVars, sse, sent, cancelled, gauge, inUse, commands, faults>>

(* STREAM_TIMEOUT_SECONDS after the stream was opened.                      *)
DeadlinePasses(r) ==
  /\ sse[r] = "open"
  /\ r \notin late
  /\ late' = late \cup {r}
  /\ UNCHANGED <<workerVars, channelVars, sse, sent, cancelled, gauge, inUse, commands, faults>>

(* Mutant: a timeout ends the generator without telling the client.         *)
MutTimeOut(r) ==
  /\ sse[r] = "open"
  /\ r \in late
  /\ sse' = [sse EXCEPT ![r] = "ending"]
  /\ UNCHANGED <<workerVars, channelVars, sent, late, cancelled, gauge, inUse, commands, faults>>

TimeOut(r) ==
  /\ sse[r] = "open"
  /\ r \in late
  /\ sent' = [sent EXCEPT ![r] = Append(@, Terminal("timeout"))]
  /\ sse' = [sse EXCEPT ![r] = "ending"]
  /\ UNCHANGED <<workerVars, channelVars, late, cancelled, gauge, inUse, commands, faults>>

(* The connection of the stream breaks: what it already carried can be read.*)
ConnectionLost(r) ==
  /\ conn[r] \in {"asked", "subscribed"}
  /\ Fault
  /\ conn' = [conn EXCEPT ![r] = "broken"]
  /\ UNCHANGED <<workerVars, missed, inbox, streamVars, commands>>

(* Mutant: a broken connection is replaced and subscribed again.            *)
MutReadFails(r) ==
  /\ sse[r] = "open"
  /\ r \notin late
  /\ conn[r] = "broken"
  /\ inbox[r] = <<>>
  /\ conn' = [conn EXCEPT ![r] = "subscribed"]
  /\ UNCHANGED <<workerVars, missed, inbox, sse, sent, late, cancelled, gauge, inUse,
                 commands, faults>>

(* get_message raises: no handler, the generator ends without a chunk.      *)
ReadFails(r) ==
  /\ sse[r] = "open"
  /\ r \notin late
  /\ conn[r] = "broken"
  /\ inbox[r] = <<>>
  /\ sse' = [sse EXCEPT ![r] = "ending"]
  /\ UNCHANGED <<workerVars, channelVars, sent, late, cancelled, gauge, inUse, commands, faults>>

(* Where a cancelled task goes on: a generator that was not started yet has  *)
(* nothing to clean up.                                                     *)
Interrupted == [enqueued |-> "aborted", open |-> "ending", ending |-> "ending",
                cleaning |-> "cleaning"]

(* Mutant: the clean-up does not run for a cancelled task.                  *)
MutDisconnect(r) ==
  /\ sse[r] \in DOMAIN Interrupted
  /\ cancelled' = cancelled \cup {r}
  /\ sse' = [sse EXCEPT ![r] = "aborted"]
  /\ UNCHANGED <<workerVars, channelVars, sent, late, gauge, inUse, commands, faults>>

(* The client goes away, possibly while the stream is being cleaned up, or   *)
(* while subscribe, outside the try block, has just taken its connection.   *)
Disconnect(r) ==
  /\ sse[r] \in DOMAIN Interrupted
  /\ cancelled' = cancelled \cup {r}
  /\ \/ sse' = [sse EXCEPT ![r] = Interrupted[@]] /\ UNCHANGED inUse
     \/ /\ sse[r] = "enqueued" /\ ~PoolExhausted
        /\ sse' = [sse EXCEPT ![r] = "leaked"]
        /\ inUse' = inUse + 1
  /\ UNCHANGED <<workerVars, channelVars, sent, late, gauge, commands, faults>>

(* Mutant: the gauge is not decremented.                                    *)
MutBeginCleanup(r) ==
  /\ sse[r] = "ending"
  /\ sse' = [sse EXCEPT ![r] = "cleaning"]
  /\ UNCHANGED <<workerVars, channelVars, sent, late, cancelled, gauge, inUse, commands, faults>>

(* The finally clause: active_sse_streams.dec() ...                         *)
BeginCleanup(r) ==
  /\ sse[r] = "ending"
  /\ sse' = [sse EXCEPT ![r] = "cleaning"]
  /\ gauge' = gauge - 1
  /\ UNCHANGED <<workerVars, channelVars, sent, late, cancelled, inUse, commands, faults>>

(* ... then unsubscribe and aclose, which returns the connection ...        *)
EndCleanup(r) ==
  /\ sse[r] = "cleaning"
  /\ sse' = [sse EXCEPT ![r] = "closed"]
  /\ conn' = [conn EXCEPT ![r] = "closed"]
  /\ inUse' = inUse - 1
  /\ UNCHANGED <<workerVars, missed, inbox, sent, late, cancelled, gauge, commands, faults>>

(* ... unless one of these awaits raises, because Redis cannot be reached   *)
(* or because the task is being cancelled: then aclose does not complete.   *)
CleanupFails(r) ==
  /\ sse[r] = "cleaning"
  /\ Fault \/ (r \in cancelled /\ UNCHANGED faults)
  /\ sse' = [sse EXCEPT ![r] = "leaked"]
  /\ UNCHANGED <<workerVars, channelVars, sent, late, cancelled, gauge, inUse, commands>>

-----------------------------------------------------------------------------
WorkerNext(r) ==
  \/ TakeJob(r) \/ PublishToken(r) \/ PublishDone(r) \/ PublishFails(r)
  \/ EngineFails(r) \/ PublishError(r) \/ WorkerStops(r)

(* The steps a stream takes by itself.                                      *)
StreamStep(r) ==
  \/ Subscribe(r) \/ SubscribeExhausted(r) \/ Receive(r) \/ DeadlinePasses(r) \/ TimeOut(r)
  \/ ReadFails(r) \/ BeginCleanup(r) \/ EndCleanup(r)

StreamNext(r) ==
  \/ Enqueue(r) \/ StreamStep(r)
  \/ SubscribeFails(r) \/ SubscribeTakesEffect(r) \/ ConnectionLost(r)
  \/ Disconnect(r) \/ CleanupFails(r)

Next ==
  \/ \E r \in Requests : WorkerNext(r) \/ StreamNext(r)
  \/ TakeConnection \/ ReturnConnection

Spec == Init /\ [][Next]_vars

(* The event loop keeps running a generator, its clock advances, and Redis  *)
(* answers or raises.  The worker and the client promise nothing.           *)
FairSpec == Spec /\ \A r \in Requests : WF_vars(StreamStep(r))

-----------------------------------------------------------------------------
JobStates == {"none", "queued", "running", "complete", "failed", "errored"} \cup Failing

StreamStates == {"new", "enqueued", "refused", "aborted", "open", "ending",
                 "cleaning", "closed", "leaked"}

TypeOK ==
  /\ job \in [Requests -> JobStates]
  /\ produced \in [Requests -> Nat]
  /\ \A r \in Requests : produced[r] <= MaxTokens[r]
  /\ missed \in [Requests -> Nat]
  /\ conn \in [Requests -> {"none", "asked", "subscribed", "broken", "closed"}]
  /\ inbox \in [Requests -> Seq(Events)]
  /\ sse \in [Requests -> StreamStates]
  /\ sent \in [Requests -> Seq(Chunks)]
  /\ late \subseteq Requests
  /\ cancelled \subseteq Requests
  /\ gauge \in Int
  /\ inUse \in 0..PoolSize
  /\ commands \in 0..MaxCommands
  /\ faults \in 0..MaxFaults

(* The tokens a client gets are consecutive tokens of the answer, in order,  *)
(* and nothing follows [DONE], an error or the timeout: whatever fails, the *)
(* stream has no hole and no second ending.                                 *)
StreamWellFormed ==
  \A r \in Requests : \A i \in 2..Len(sent[r]) :
    /\ sent[r][i - 1].kind = "token"
    /\ sent[r][i].kind = "token" => sent[r][i].token = sent[r][i - 1].token + 1

LastChunk(r) == sent[r][Len(sent[r])]

(* A client that reads [DONE] got every token published since the           *)
(* subscription took effect.                                                *)
DoneMeansSuffix ==
  \A r \in Requests : sent[r] # <<>> /\ LastChunk(r).kind = "done" =>
    /\ Len(sent[r]) - 1 = produced[r] - missed[r]
    /\ \A i \in 1..Len(sent[r]) - 1 : sent[r][i] = Token(missed[r] + i)

(* Without a fault, a stream whose client stayed ended with an explicit     *)
(* terminal chunk.                                                          *)
ClosedMeansAnswered ==
  \A r \in Requests : faults = 0 /\ sse[r] = "closed" /\ r \notin cancelled =>
    sent[r] # <<>> /\ LastChunk(r).kind \in {"done", "timeout"}

Live == {r \in Requests : sse[r] \in {"open", "ending"}}
Holding == {r \in Requests : sse[r] \in {"open", "ending", "cleaning", "leaked"}}
Lost == {r \in Requests : sse[r] = "leaked" /\ r \notin cancelled}

(* active_sse_streams counts the open streams, whatever goes wrong when they *)
(* are cleaned up.                                                          *)
GaugeExact == gauge = Cardinality(Live)

(* Every connection missing from the pool belongs to a stream that still     *)
(* holds it, or was lost with a stream; and unless its client disconnected,  *)
(* a stream loses its connection only by a failed call, one each.           *)
PoolAccounted ==
  /\ inUse + commands <= PoolSize
  /\ inUse = Cardinality(Holding)
  /\ Cardinality(Lost) <= faults

(* No stream hangs: whatever the worker does, the response of an accepted   *)
(* request comes to an end.                                                 *)
StreamEnds ==
  \A r \in Requests :
    sse[r] = "enqueued" ~> sse[r] \in {"closed", "leaked", "aborted"}

(* sse_manager.py: "Forwards each token to the client", and the assertion   *)
(* collected_tokens == tokens of tests/test_sse_stream.py.                  *)
DoneMeansAll ==
  \A r \in Requests : sent[r] # <<>> /\ LastChunk(r).kind = "done" =>
    Len(sent[r]) - 1 = produced[r]

-----------------------------------------------------------------------------
(* Why the streams are right: the parts of the inductive invariant.         *)

IsToken(e) == e.kind = "token"

AllTokens(s) == \A i \in 1..Len(s) : IsToken(s[i])

(* The i-th chunk of a stream, when it is a token, is the i-th token after   *)
(* the missed ones, and only the last chunk can be something else.          *)
SentInOrder(r) ==
  /\ \A i \in 1..Len(sent[r]) : IsToken(sent[r][i]) => sent[r][i] = Token(missed[r] + i)
  /\ \A i \in 1..Len(sent[r]) - 1 : IsToken(sent[r][i])
  /\ sse[r] \in {"new", "enqueued", "refused", "aborted", "open"} => AllTokens(sent[r])

(* Before the subscription takes effect there is nothing to read.           *)
UnsubscribedIsEmpty(r) ==
  /\ sse[r] = "new" => job[r] = "none"
  /\ sse[r] \in {"new", "enqueued"} => conn[r] = "none"
  /\ conn[r] \in {"none", "asked"} =>
       /\ inbox[r] = <<>>
       /\ produced[r] = missed[r]
       /\ \A i \in 1..Len(sent[r]) : sent[r][i].kind = "timeout"

(* The events on the connection of an open stream go on where the chunks end.*)
InboxInOrder(r) ==
  sse[r] = "open" =>
    /\ \A i \in 1..Len(inbox[r]) :
         (\A j \in 1..i : IsToken(inbox[r][j])) =>
           inbox[r][i] = Token(missed[r] + Len(sent[r]) + i)
    /\ conn[r] = "subscribed" /\ AllTokens(inbox[r]) =>
         Len(sent[r]) + Len(inbox[r]) = produced[r] - missed[r]

(* The worker is done with the tokens of r.                                 *)
NoMoreTokens(r) == job[r] \notin {"none", "queued", "running"}

(* A completion on its way to the client is preceded by all the tokens.     *)
CompletionIsLast(r) ==
  /\ sse[r] = "open" =>
       \A i \in 1..Len(inbox[r]) :
         ~IsToken(inbox[r][i]) /\ (\A j \in 1..i - 1 : IsToken(inbox[r][j])) =>
           NoMoreTokens(r) /\ Len(sent[r]) + i - 1 = produced[r] - missed[r]
  /\ sent[r] # <<>> /\ LastChunk(r).kind = "done" =>
       NoMoreTokens(r) /\ Len(sent[r]) - 1 = produced[r] - missed[r]

ContentAt(r) ==
  SentInOrder(r) /\ UnsubscribedIsEmpty(r) /\ InboxInOrder(r) /\ CompletionIsLast(r)

ContentInv == \A r \in Requests : ContentAt(r)

(* Without a fault only tokens and completions are published, and a stream   *)
(* on its way out has its terminal chunk.                                   *)
AnswerAt(r) ==
  /\ job[r] \notin Failing /\ conn[r] # "broken"
  /\ \A i \in 1..Len(inbox[r]) : inbox[r][i].kind \in {"token", "done"}
  /\ sse[r] \in {"ending", "cleaning", "closed"} /\ r \notin cancelled =>
       sent[r] # <<>> /\ LastChunk(r).kind \in {"done", "timeout"}

NoFaultAnswer == faults = 0 => \A r \in Requests : AnswerAt(r)

IInv == TypeOK /\ GaugeExact /\ PoolAccounted /\ ContentInv
=============================================================================
