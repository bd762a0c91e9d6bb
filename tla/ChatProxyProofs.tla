--------------------------- MODULE ChatProxyProofs ---------------------------
(***************************************************************************)
(* Theorems about ChatProxy and ChatAnswer for every set of requests, every *)
(* length of the answers and every bound.                                   *)
(*   - The proxy is one more client of TokenStream (Implementation), so what *)
(*     is proved there holds behind it; the two invariants of the response  *)
(*     rest on parts that are proved together (ProxyInv).                   *)
(*   - The composition implements ChatResponse (ResponseRefinement).        *)
(*   - The text of an answer arrives (TextIsDelivered): its tokens do       *)
(*     (AllTokensReceived), and what an engine's tokens join to is an       *)
(*     induction over its outputs (EngineText).                             *)
(***************************************************************************)
EXTENDS ChatAnswer, TokenStreamProofs, SequenceTheorems, WellFoundedInduction

Endings == {"done", "error", "timeout"}

(* A stream on its way out has its terminal chunk, unless it raised.         *)
MarkedAt(r) ==
  sse[r] \in {"ending", "cleaning", "closed"} /\ r \notin raised =>
    sent[r] # <<>> /\ LastChunk(r).kind \in Endings

(* A complete response has all of a complete body.                           *)
CompleteAt(r) ==
  relay[r] = "complete" => sse[r] = "closed" /\ r \notin raised /\ forwarded[r] = Len(sent[r])

(* Nothing is forwarded before there is a body, and a new request, or one    *)
(* whose client was told so, has not been posted.                            *)
UnsentAt(r) ==
  /\ relay[r] \in {"new", "posting", "unavailable"} => forwarded[r] = 0
  /\ relay[r] \in {"new", "unavailable"} => sse[r] = "new"

ProxyAt(r) == MarkedAt(r) /\ CompleteAt(r) /\ UnsentAt(r)

ProxyInv == ProxyTypeOK /\ IInv /\ \A r \in Requests : ProxyAt(r)

-----------------------------------------------------------------------------
(* Every step of the composition is a step of TokenStream, or leaves it be.  *)
LEMMA StepMaps == [ProxyNext]_allVars => [Next]_vars
<1>. SUFFICES ASSUME ProxyNext PROVE [Next]_vars
  BY DEF allVars
<1>1. ASSUME NEW r \in Requests,
             Chat(r) \/ ProxyStep(r) \/ ConnectFails(r) \/ Break(r) \/ Stall(r) \/ Leave(r)
      PROVE  UNCHANGED vars
  BY <1>1 DEF Chat, ProxyStep, Respond, Forward, EndOfBody, CutOff, ConnectFails, Break, Stall,
              Leave
<1>2. ASSUME NEW r \in Requests, Post(r) \/ GatewayStep(r) \/ BackendStep(r) \/ HangUp(r)
      PROVE  WorkerNext(r) \/ StreamNext(r)
  BY <1>2 DEF Post, GatewayStep, BackendStep, HangUp, StreamNext
<1>. QED
  BY <1>1, <1>2 DEF ProxyNext, Next

(* Behind the proxy, the streams are TokenStream's: its theorems hold there. *)
THEOREM Implementation == ProxySpec => Spec
<1>1. ProxyInit => Init
  BY DEF ProxyInit
<1>. QED
  BY <1>1, StepMaps, PTL DEF ProxySpec, Spec

-----------------------------------------------------------------------------
(* Before any request there is nothing to relay.                             *)
LEMMA ProxyInitInv == ProxyInit => ProxyInv
<1>. SUFFICES ASSUME ProxyInit PROVE ProxyInv
  OBVIOUS
<1>1. IInv
  BY InitCounts, InitContent DEF ProxyInit, IInv
<1>2. ProxyTypeOK
  BY BreaksAssumption DEF ProxyInit, Init, ProxyTypeOK
<1>. QED
  BY <1>1, <1>2 DEF ProxyInit, Init, ProxyInv, ProxyAt, MarkedAt, CompleteAt, UnsentAt

(* What is said of a stream is kept by a step that leaves it alone.          *)
LEMMA ProxyKept ==
  ASSUME NEW q \in Requests, ProxyAt(q),
         sse'[q] = sse[q], sent'[q] = sent[q], relay'[q] = relay[q],
         forwarded'[q] = forwarded[q], q \in raised' <=> q \in raised
  PROVE  ProxyAt(q)'
  BY DEF ProxyAt, MarkedAt, CompleteAt, UnsentAt, LastChunk

(* The steps of the proxy alone.                                             *)
LEMMA RelayInv ==
  ASSUME ProxyInv, NEW r \in Requests,
         Chat(r) \/ ProxyStep(r) \/ ConnectFails(r) \/ Break(r) \/ Stall(r) \/ Leave(r)
  PROVE  ProxyTypeOK' /\ \A q \in Requests : ProxyAt(q)'
<1>0. /\ ProxyTypeOK /\ TypeOK /\ UNCHANGED <<vars, raised>>
      /\ \A q \in Requests : ProxyAt(q) /\ Len(sent[q]) \in Nat
  BY DEF ProxyInv, IInv, TypeOK, Chat, ProxyStep, Respond, Forward, EndOfBody, CutOff,
         ConnectFails, Break, Stall, Leave
<1>1. UNCHANGED <<sse, sent>>
  BY <1>0 DEF vars, streamVars
<1>2. \A q \in Requests \ {r} : relay'[q] = relay[q] /\ forwarded'[q] = forwarded[q]
  BY <1>0 DEF ProxyTypeOK, Chat, ProxyStep, Respond, Forward, EndOfBody, CutOff, ConnectFails,
              Break, Stall, Leave
<1>3. \A q \in Requests \ {r} : ProxyAt(q)'
  BY <1>0, <1>1, <1>2, ProxyKept
<1>4. ProxyTypeOK' /\ ProxyAt(r)'
  <2>1. CASE Chat(r)
    BY <1>0, <1>1, <2>1 DEF Chat, ProxyTypeOK, ProxyAt, MarkedAt, CompleteAt, UnsentAt, LastChunk
  <2>2. CASE ConnectFails(r)
    BY <1>0, <1>1, <2>2, BreaksAssumption
    DEF ConnectFails, Broken, ProxyTypeOK, ProxyAt, MarkedAt, CompleteAt, UnsentAt, LastChunk
  <2>3. CASE Respond(r)
    BY <1>0, <1>1, <2>3 DEF Respond, ProxyTypeOK, ProxyAt, MarkedAt, CompleteAt, UnsentAt, LastChunk
  <2>4. CASE Forward(r)
    BY <1>0, <1>1, <2>4 DEF Forward, ProxyTypeOK, ProxyAt, MarkedAt, CompleteAt, UnsentAt, LastChunk
  <2>5. CASE EndOfBody(r)
    BY <1>0, <1>1, <2>5
    DEF EndOfBody, BodyComplete, ProxyTypeOK, ProxyAt, MarkedAt, CompleteAt, UnsentAt, LastChunk
  <2>6. CASE CutOff(r)
    BY <1>0, <1>1, <2>6 DEF CutOff, ProxyTypeOK, ProxyAt, MarkedAt, CompleteAt, UnsentAt, LastChunk
  <2>7. CASE Break(r)
    BY <1>0, <1>1, <2>7, BreaksAssumption
    DEF Break, Relaying, Broken, ProxyTypeOK, ProxyAt, MarkedAt, CompleteAt, UnsentAt, LastChunk
  <2>8. CASE Leave(r)
    BY <1>0, <1>1, <2>8
    DEF Leave, Relaying, ProxyTypeOK, ProxyAt, MarkedAt, CompleteAt, UnsentAt, LastChunk
  <2>9. CASE Stall(r)
    BY <1>0, <1>1, <2>9, BreaksAssumption
    DEF Stall, Broken, ProxyTypeOK, ProxyAt, MarkedAt, CompleteAt, UnsentAt, LastChunk
  <2>. QED
    BY <2>1, <2>2, <2>3, <2>4, <2>5, <2>6, <2>7, <2>8, <2>9 DEF ProxyStep
<1>. QED
  BY <1>3, <1>4

(* A stream's own step leaves the terminal chunk behind when it ends, or     *)
(* raises; only an open stream gains chunks.                                 *)
LEMMA StreamMarks ==
  ASSUME TypeOK, NEW r \in Requests, MarkedAt(r), StreamStep(r), ~ReadFails(r),
         sse'[r] \in {"ending", "cleaning", "closed"}, r \notin raised
  PROVE  sent'[r] # <<>> /\ sent'[r][Len(sent'[r])].kind \in Endings
<1>1. CASE Receive(r)
  <2>1. Head(inbox[r]) \in Events /\ Head(inbox[r]).kind # "token" /\ sent[r] \in Seq(Chunks)
    BY <1>1 DEF Receive, TypeOK
  <2>2. ChunkOf(Head(inbox[r])).kind \in Endings /\ ChunkOf(Head(inbox[r])) \in Chunks
    BY <2>1 DEF ChunkOf, Terminal, Events, Chunks, Endings
  <2>3. sent'[r] = Append(sent[r], ChunkOf(Head(inbox[r])))
    BY <1>1 DEF Receive, TypeOK
  <2>. QED
    BY <2>1, <2>2, <2>3
<1>2. CASE TimeOut(r)
  <2>1. sent'[r] = Append(sent[r], Terminal("timeout")) /\ sent[r] \in Seq(Chunks)
    BY <1>2 DEF TimeOut, TypeOK
  <2>2. Terminal("timeout") \in Chunks /\ Terminal("timeout").kind = "timeout"
    BY DEF Terminal, Chunks
  <2>. QED
    BY <2>1, <2>2 DEF Endings
<1>3. CASE BeginCleanup(r) \/ EndCleanup(r)
  BY <1>3 DEF BeginCleanup, EndCleanup, MarkedAt, LastChunk
<1>4. ~Subscribe(r) /\ ~SubscribeExhausted(r) /\ ~DeadlinePasses(r)
  BY DEF Subscribe, SubscribeExhausted, DeadlinePasses, TypeOK
<1>. QED
  BY <1>1, <1>2, <1>3, <1>4 DEF StreamStep

(* What a step of stream r may change: only an open stream gains chunks, and *)
(* a closed one, or one that was not enqueued, stays as it is.               *)
LEMMA StreamFrame ==
  ASSUME TypeOK, NEW r \in Requests,
         \/ StreamStep(r) \/ SubscribeFails(r) \/ SubscribeTakesEffect(r)
         \/ ConnectionLost(r) \/ CleanupFails(r) \/ Disconnect(r)
  PROVE  /\ \A q \in Requests \ {r} : sse'[q] = sse[q] /\ sent'[q] = sent[q]
         /\ Len(sent[r]) \in Nat /\ Len(sent'[r]) \in Nat /\ Len(sent[r]) <= Len(sent'[r])
         /\ sse[r] # "open" => sent'[r] = sent[r]
         /\ sse[r] \in {"new", "closed"} => sse'[r] = sse[r]
<1>0. sse \in [Requests -> StreamStates] /\ sent[r] \in Seq(Chunks) /\ Len(sent[r]) \in Nat
  BY DEF TypeOK
<1>1. CASE Receive(r) \/ TimeOut(r)
  <2>1. PICK c \in Chunks : sent' = [sent EXCEPT ![r] = Append(@, c)]
    <3>1. CASE Receive(r)
      <4>1. Head(inbox[r]) \in Events
        BY <3>1 DEF Receive, TypeOK
      <4>2. Receive(r) => sent' = [sent EXCEPT ![r] = Append(@, ChunkOf(Head(inbox[r])))]
        BY DEF Receive
      <4>. QED
        BY <3>1, <4>1, <4>2 DEF ChunkOf, Terminal, Events, Chunks
    <3>2. CASE TimeOut(r)
      BY <3>2 DEF TimeOut, Terminal, Chunks
    <3>. QED
      BY <1>1, <3>1, <3>2
  <2>2. sent'[r] = Append(sent[r], c) /\ \A q \in Requests \ {r} : sent'[q] = sent[q]
    BY <2>1 DEF TypeOK
  <2>3. Len(sent'[r]) = Len(sent[r]) + 1
    BY <1>0, <2>2
  <2>4. sse[r] = "open" /\ \A q \in Requests \ {r} : sse'[q] = sse[q]
    BY <1>0, <1>1 DEF Receive, TimeOut
  <2>. QED
    BY <1>0, <2>2, <2>3, <2>4
<1>2. CASE ~(Receive(r) \/ TimeOut(r))
  <2>1. UNCHANGED sent
    BY <1>2 DEF StreamStep, Subscribe, SubscribeExhausted, DeadlinePasses, ReadFails, BeginCleanup,
                EndCleanup, SubscribeFails, SubscribeTakesEffect, ConnectionLost, CleanupFails,
                Disconnect, streamVars
  <2>2. /\ \A q \in Requests \ {r} : sse'[q] = sse[q]
        /\ sse[r] \in {"new", "closed"} => sse'[r] = sse[r]
    BY <1>0, <1>2 DEF StreamStep, Subscribe, SubscribeExhausted, DeadlinePasses, ReadFails,
                BeginCleanup, EndCleanup, SubscribeFails, SubscribeTakesEffect, ConnectionLost,
                CleanupFails, Disconnect, Interrupted, streamVars
  <2>. QED
    BY <1>0, <2>1, <2>2
<1>. QED
  BY <1>1, <1>2

(* A step of stream r that keeps its mark keeps the rest.                    *)
LEMMA StreamKept ==
  ASSUME TypeOK, ProxyTypeOK, \A q \in Requests : ProxyAt(q), NEW r \in Requests,
         UNCHANGED <<relay, forwarded, stalled, breaks>>,
         \/ StreamStep(r) \/ SubscribeFails(r) \/ SubscribeTakesEffect(r)
         \/ ConnectionLost(r) \/ CleanupFails(r) \/ Disconnect(r),
         raised' = raised \/ (raised' = raised \cup {r} /\ relay[r] # "complete"),
         MarkedAt(r)'
  PROVE  ProxyTypeOK' /\ \A q \in Requests : ProxyAt(q)'
<1>1. /\ \A q \in Requests \ {r} : sse'[q] = sse[q] /\ sent'[q] = sent[q]
      /\ Len(sent[r]) \in Nat /\ Len(sent'[r]) \in Nat /\ Len(sent[r]) <= Len(sent'[r])
      /\ sse[r] # "open" => sent'[r] = sent[r]
      /\ sse[r] \in {"new", "closed"} => sse'[r] = sse[r]
  BY StreamFrame
<1>2. \A q \in Requests \ {r} : ProxyAt(q)'
  <2>. SUFFICES ASSUME NEW q \in Requests \ {r} PROVE ProxyAt(q)'
    OBVIOUS
  <2>. QED
    BY <1>1, ProxyKept
<1>3. ProxyAt(r)'
  BY <1>1 DEF ProxyAt, CompleteAt, UnsentAt
<1>4. \A q \in Requests : forwarded'[q] <= Len(sent'[q])
  BY <1>1 DEF ProxyTypeOK
<1>. QED
  BY <1>2, <1>3, <1>4 DEF ProxyTypeOK

(* The steps behind the proxy.                                               *)
LEMMA GatewayInv ==
  ASSUME ProxyInv, NEW r \in Requests, Post(r) \/ GatewayStep(r) \/ BackendStep(r) \/ HangUp(r)
  PROVE  ProxyTypeOK' /\ \A q \in Requests : ProxyAt(q)'
<1>0. ProxyTypeOK /\ TypeOK /\ \A q \in Requests : ProxyAt(q)
  BY DEF ProxyInv, IInv
<1>1. CASE Post(r)
  <2>1. /\ sse[r] = "new" /\ relay[r] \in {"posting", "cut", "left"} /\ UNCHANGED <<proxyVars, sent>>
        /\ \A q \in Requests \ {r} : sse'[q] = sse[q]
        /\ sse'[r] \in {"enqueued", "refused"}
    BY <1>0, <1>1 DEF Post, Enqueue, TypeOK
  <2>2. \A q \in Requests \ {r} : ProxyAt(q)'
    BY <1>0, <2>1, ProxyKept DEF proxyVars
  <2>3. ProxyAt(r)'
    BY <1>0, <2>1 DEF proxyVars, ProxyAt, MarkedAt, CompleteAt, UnsentAt
  <2>. QED
    BY <1>0, <2>1, <2>2, <2>3 DEF proxyVars, ProxyTypeOK
<1>2. CASE GatewayStep(r)
  <2>1. StreamStep(r) /\ UNCHANGED <<relay, forwarded, stalled, breaks>>
        /\ raised' = IF ReadFails(r) THEN raised \cup {r} ELSE raised
    BY <1>2 DEF GatewayStep
  <2>2. ReadFails(r) => relay[r] # "complete"
    BY <1>0 DEF ReadFails, ProxyAt, CompleteAt
  <2>3. MarkedAt(r)'
    <3>1. CASE ReadFails(r)
      BY <2>1, <3>1 DEF MarkedAt
    <3>2. CASE ~ReadFails(r)
      BY <1>0, <2>1, <3>2, StreamMarks DEF MarkedAt, ProxyAt, LastChunk
    <3>. QED
      BY <3>1, <3>2
  <2>. QED
    BY <1>0, <2>1, <2>2, <2>3, StreamKept
<1>3. CASE HangUp(r)
  <2>1. /\ Disconnect(r) /\ raised' = raised \cup {r} /\ UNCHANGED <<relay, forwarded, stalled, breaks>>
        /\ relay[r] # "complete"
    BY <1>3 DEF HangUp, HungUp
  <2>2. MarkedAt(r)'
    BY <2>1 DEF MarkedAt
  <2>. QED
    BY <1>0, <2>1, <2>2, StreamKept
<1>4. CASE BackendStep(r)
  <2>1. UNCHANGED proxyVars
    BY <1>4 DEF BackendStep
  <2>2. CASE WorkerNext(r)
    <3>1. UNCHANGED <<sse, sent>>
      BY <2>2 DEF WorkerNext, TakeJob, PublishToken, PublishDone, PublishFails, EngineFails,
                  PublishError, WorkerStops, streamVars
    <3>2. \A q \in Requests : ProxyAt(q)'
      BY <1>0, <2>1, <3>1, ProxyKept DEF proxyVars
    <3>. QED
      BY <1>0, <2>1, <3>1, <3>2 DEF proxyVars, ProxyTypeOK
  <2>3. CASE SubscribeFails(r) \/ SubscribeTakesEffect(r) \/ ConnectionLost(r) \/ CleanupFails(r)
    <3>1. MarkedAt(r)'
      BY <1>0, <2>1, <2>3
      DEF ProxyAt, MarkedAt, LastChunk, proxyVars, streamVars, SubscribeFails,
          SubscribeTakesEffect, ConnectionLost, CleanupFails, TypeOK
    <3>. QED
      BY <1>0, <2>1, <2>3, <3>1, StreamKept DEF proxyVars
  <2>. QED
    BY <1>4, <2>2, <2>3 DEF BackendStep
<1>. QED
  BY <1>1, <1>2, <1>3, <1>4

(* Every step keeps the invariant.                                           *)
LEMMA ProxyStepInv == ProxyInv /\ [ProxyNext]_allVars => ProxyInv'
<1>. SUFFICES ASSUME ProxyInv, [ProxyNext]_allVars PROVE ProxyInv'
  OBVIOUS
<1>1. IInv'
  BY StepMaps, InvStep DEF ProxyInv
<1>2. CASE UNCHANGED <<sse, sent, proxyVars>>
  <2>1. \A q \in Requests : ProxyAt(q)'
    BY <1>2, ProxyKept DEF ProxyInv, proxyVars
  <2>. QED
    BY <1>1, <1>2, <2>1 DEF ProxyInv, proxyVars, ProxyTypeOK
<1>3. UNCHANGED allVars => UNCHANGED <<sse, sent, proxyVars>>
  BY DEF allVars, vars, streamVars
<1>4. (TakeConnection \/ ReturnConnection) /\ UNCHANGED proxyVars
      => UNCHANGED <<sse, sent, proxyVars>>
  BY DEF TakeConnection, ReturnConnection, streamVars
<1>. QED
  BY <1>1, <1>2, <1>3, <1>4, RelayInv, GatewayInv DEF ProxyNext, ProxyInv

(* The inductive invariant of a response.                                    *)
THEOREM ProxyInvariance == ProxySpec => []ProxyInv
  BY ProxyInitInv, ProxyStepInv, PTL DEF ProxySpec

(* The proxy's variables keep their types, and no more is forwarded than the *)
(* stream has sent.                                                         *)
THEOREM ProxyTypeCorrect == ProxySpec => []ProxyTypeOK
<1>1. ProxyInv => ProxyTypeOK
  BY DEF ProxyInv
<1>. QED
  BY <1>1, ProxyInvariance, PTL

(* A response that ends by itself ends with a terminal chunk.                *)
THEOREM CompleteIsMarked == ProxySpec => []EndIsMarked
<1>1. ProxyInv => EndIsMarked
  BY DEF ProxyInv, ProxyAt, MarkedAt, CompleteAt, EndIsMarked, Endings
<1>. QED
  BY <1>1, ProxyInvariance, PTL

(* A client told that the service is unavailable may repeat its request.     *)
THEOREM UnavailableIsUnsent == ProxySpec => []UnavailableMeansUnsent
<1>1. ProxyInv => UnavailableMeansUnsent
  BY DEF ProxyInv, IInv, ContentInv, ContentAt, UnsubscribedIsEmpty, ProxyAt, UnsentAt,
         UnavailableMeansUnsent
<1>. QED
  BY <1>1, ProxyInvariance, PTL

(* A client that reads [DONE] at the end of a complete response was given    *)
(* every token published since the subscription took effect, across both    *)
(* gateways.                                                                *)
THEOREM DoneIsForwarded ==
  ProxySpec => [](\A r \in Requests : relay[r] = "complete" /\ LastChunk(r).kind = "done" =>
                   forwarded[r] - 1 = produced[r] - missed[r])
<1>1. EndIsMarked /\ DoneMeansSuffix
      => \A r \in Requests : relay[r] = "complete" /\ LastChunk(r).kind = "done" =>
           forwarded[r] - 1 = produced[r] - missed[r]
  BY DEF EndIsMarked, DoneMeansSuffix
<1>. QED
  BY <1>1, CompleteIsMarked, Implementation, DoneIsComplete, PTL

-----------------------------------------------------------------------------
(* What a client hears of an answer: the refinement of ChatResponse.         *)

(* An event or a chunk is a token that was produced, or bare.                *)
Written(e, n) == IF IsToken(e) THEN e.token <= n ELSE e.token = 0

WrittenAt(r) ==
  /\ job[r] \in {"none", "queued"} => produced[r] = 0
  /\ \A i \in 1..Len(inbox[r]) : Written(inbox[r][i], produced[r])
  /\ \A i \in 1..Len(sent[r]) : Written(sent[r][i], produced[r])

WrittenInv == \A r \in Requests : WrittenAt(r)

(* An event appended, to events that were produced.                          *)
LEMMA WrittenAppend ==
  ASSUME NEW S, NEW s \in Seq(S), NEW e \in S, NEW n,
         \A i \in 1..Len(s) : Written(s[i], n), Written(e, n)
  PROVE  \A i \in 1..Len(Append(s, e)) : Written(Append(s, e)[i], n)
<1>1. Len(Append(s, e)) = Len(s) + 1 /\ Len(s) \in Nat /\ Append(s, e)[Len(s) + 1] = e
  OBVIOUS
<1>2. \A i \in 1..Len(s) : Append(s, e)[i] = s[i]
  OBVIOUS
<1>. SUFFICES ASSUME NEW i \in 1..Len(s) + 1 PROVE Written(Append(s, e)[i], n)
  BY <1>1
<1>3. i \in 1..Len(s) \/ i = Len(s) + 1
  BY <1>1
<1>. QED
  BY <1>1, <1>2, <1>3

(* PUBLISH of an event whose token, if it is one, has been produced.         *)
LEMMA PublishWritten ==
  ASSUME TypeOK, WrittenInv, NEW r \in Requests, NEW n \in Nat, produced[r] <= n,
         produced' = [produced EXCEPT ![r] = n],
         NEW e \in Events, Written(e, n), Publish(r, e), UNCHANGED sent,
         job'[r] \notin {"none", "queued"}, \A q \in Requests \ {r} : job'[q] = job[q]
  PROVE  WrittenInv'
<1>1. /\ inbox' \in [Requests -> Seq(Events)]
      /\ \A q \in Requests \ {r} : inbox'[q] = inbox[q] /\ produced'[q] = produced[q]
      /\ inbox'[r] \in {inbox[r], Append(inbox[r], e)} /\ produced'[r] = n
      /\ inbox[r] \in Seq(Events) /\ sent[r] \in Seq(Chunks)
  BY DEF TypeOK, Publish
<1>2. ASSUME NEW q \in Requests \ {r} PROVE WrittenAt(q)'
  <2>1. WrittenAt(q) /\ job'[q] = job[q] /\ sent'[q] = sent[q]
    BY DEF WrittenInv
  <2>. QED
    BY <1>1, <2>1 DEF WrittenAt, Written, IsToken
<1>3. WrittenAt(r)'
  <2>1. /\ \A i \in 1..Len(inbox[r]) : Written(inbox[r][i], n)
        /\ \A i \in 1..Len(sent[r]) : Written(sent[r][i], n)
    <3>1. \A c \in Events \cup Chunks : Written(c, produced[r]) => Written(c, n)
      BY DEF Written, Events, Chunks, TypeOK
    <3>2. /\ \A i \in 1..Len(inbox[r]) : inbox[r][i] \in Events
          /\ \A i \in 1..Len(sent[r]) : sent[r][i] \in Chunks
      BY <1>1
    <3>. QED
      BY <3>1, <3>2 DEF WrittenInv, WrittenAt
  <2>2. \A i \in 1..Len(Append(inbox[r], e)) : Written(Append(inbox[r], e)[i], n)
    BY <1>1, <2>1, WrittenAppend
  <2>3. \A i \in 1..Len(inbox'[r]) : Written(inbox'[r][i], n)
    BY <1>1, <2>1, <2>2
  <2>. QED
    BY <1>1, <2>1, <2>3 DEF WrittenAt, Written, IsToken
<1>. QED
  BY <1>2, <1>3 DEF WrittenInv

(* What the client hears was produced.                                       *)
LEMMA WrittenStep == IInv /\ WrittenInv /\ [Next]_vars => WrittenInv'
<1>. SUFFICES ASSUME TypeOK, ContentInv, WrittenInv, [Next]_vars PROVE WrittenInv'
  BY DEF IInv
<1>1. ASSUME UNCHANGED <<produced, inbox, sent>>,
             \A q \in Requests : job'[q] \in {"none", "queued"} => job[q] \in {"none", "queued"}
      PROVE  WrittenInv'
  BY <1>1 DEF WrittenInv, WrittenAt, Written, IsToken
<1>2. ASSUME NEW r \in Requests, PublishToken(r) \/ PublishDone(r) \/ PublishError(r) \/ PublishFails(r)
      PROVE  WrittenInv'
  <2>. DEFINE token == Token(produced[r] + 1)
  <2>1. /\ produced[r] \in Nat /\ produced = [produced EXCEPT ![r] = produced[r]]
        /\ token \in Events /\ Written(token, produced[r] + 1)
        /\ \A k \in {"done", "error", "blank"} :
             Terminal(k) \in Events /\ Written(Terminal(k), produced[r])
    BY DEF TypeOK, Token, Terminal, Events, Written, IsToken
  <2>2. UNCHANGED sent /\ job'[r] \notin {"none", "queued"}
        /\ \A q \in Requests \ {r} : job'[q] = job[q]
    BY <1>2 DEF PublishToken, PublishDone, PublishError, PublishFails, streamVars, Failing, TypeOK
  <2>3. CASE produced' = [produced EXCEPT ![r] = @ + 1] /\ Publish(r, token)
    <3>1. produced[r] + 1 \in Nat /\ produced[r] <= produced[r] + 1
          /\ produced' = [produced EXCEPT ![r] = produced[r] + 1]
      BY <2>1, <2>3
    <3>. HIDE DEF token
    <3>. QED
      BY <2>1, <2>2, <2>3, <3>1, PublishWritten
  <2>4. ASSUME NEW k \in {"done", "error", "blank"}, UNCHANGED produced, Publish(r, Terminal(k))
        PROVE  WrittenInv'
    <3>1. produced' = [produced EXCEPT ![r] = produced[r]] /\ produced[r] <= produced[r]
      BY <2>1, <2>4
    <3>. QED
      BY <2>1, <2>2, <2>4, <3>1, PublishWritten
  <2>5. CASE UNCHANGED <<produced, inbox>>
    BY <1>1, <2>2, <2>5
  <2>6. \/ produced' = [produced EXCEPT ![r] = @ + 1] /\ Publish(r, token)
        \/ \E k \in {"done", "error", "blank"} : UNCHANGED produced /\ Publish(r, Terminal(k))
        \/ UNCHANGED <<produced, inbox>>
    BY <1>2 DEF PublishToken, PublishDone, PublishError, PublishFails
  <2>. QED
    BY <2>3, <2>4, <2>5, <2>6
<1>3. ASSUME NEW r \in Requests, Receive(r) \/ TimeOut(r) PROVE WrittenInv'
  <2>1. PICK c \in Chunks : /\ sent' = [sent EXCEPT ![r] = Append(@, c)]
                            /\ Written(c, produced[r])
    <3>1. CASE Receive(r)
      <4>1. /\ inbox[r] # <<>> /\ inbox[r] \in Seq(Events)
            /\ sent' = [sent EXCEPT ![r] = Append(@, ChunkOf(Head(inbox[r])))]
        BY <3>1 DEF Receive, TypeOK
      <4>2. Head(inbox[r]) = inbox[r][1] /\ 1 \in 1..Len(inbox[r]) /\ Head(inbox[r]) \in Events
        BY <4>1
      <4>3. Written(Head(inbox[r]), produced[r])
        BY <4>2 DEF WrittenInv, WrittenAt
      <4>4. ChunkOf(Head(inbox[r])) \in Chunks /\ Written(ChunkOf(Head(inbox[r])), produced[r])
        BY <4>2, <4>3 DEF ChunkOf, Terminal, Events, Chunks, Written, IsToken
      <4>. QED
        BY <4>1, <4>4
    <3>2. CASE TimeOut(r)
      <4>1. Terminal("timeout") \in Chunks /\ Written(Terminal("timeout"), produced[r])
        BY DEF Terminal, Chunks, Written, IsToken
      <4>. QED
        BY <3>2, <4>1 DEF TimeOut
    <3>. QED
      BY <1>3, <3>1, <3>2
  <2>2. UNCHANGED <<job, produced>>
        /\ (UNCHANGED inbox \/ (inbox[r] # <<>> /\ inbox' = [inbox EXCEPT ![r] = Tail(@)]))
    BY <1>3 DEF Receive, TimeOut, workerVars, channelVars
  <2>3. ASSUME NEW q \in Requests \ {r} PROVE WrittenAt(q)'
    <3>1. WrittenAt(q) /\ inbox'[q] = inbox[q] /\ sent'[q] = sent[q]
      BY <2>1, <2>2 DEF WrittenInv, TypeOK
    <3>. QED
      BY <2>2, <3>1 DEF WrittenAt, Written, IsToken
  <2>4. WrittenAt(r)'
    <3>1. /\ \A i \in 1..Len(inbox[r]) : Written(inbox[r][i], produced[r])
          /\ \A i \in 1..Len(sent[r]) : Written(sent[r][i], produced[r])
          /\ inbox[r] \in Seq(Events) /\ sent[r] \in Seq(Chunks)
      BY DEF WrittenInv, WrittenAt, TypeOK
    <3>2. /\ sent'[r] = Append(sent[r], c)
          /\ inbox'[r] = inbox[r] \/ (inbox[r] # <<>> /\ inbox'[r] = Tail(inbox[r]))
      BY <2>1, <2>2 DEF TypeOK
    <3>3. \A i \in 1..Len(sent'[r]) : Written(sent'[r][i], produced[r])
      BY <2>1, <3>1, <3>2, WrittenAppend
    <3>4. \A i \in 1..Len(inbox'[r]) : Written(inbox'[r][i], produced[r])
      <4>1. CASE inbox[r] # <<>> /\ inbox'[r] = Tail(inbox[r])
        <5>1. Len(inbox'[r]) = Len(inbox[r]) - 1 /\ Len(inbox[r]) \in Nat
              /\ \A i \in 1..Len(inbox'[r]) : inbox'[r][i] = inbox[r][i + 1]
          BY <3>1, <4>1, HeadTailProperties
        <5>2. \A i \in 1..Len(inbox'[r]) : i + 1 \in 1..Len(inbox[r])
          BY <5>1
        <5>. QED
          BY <3>1, <5>1, <5>2
      <4>. QED
        BY <3>1, <3>2, <4>1
    <3>5. job'[r] = job[r] /\ produced'[r] = produced[r] /\ WrittenAt(r)
      BY <2>2 DEF WrittenInv
    <3>. QED
      BY <3>3, <3>4, <3>5 DEF WrittenAt, Written, IsToken
  <2>. QED
    BY <2>3, <2>4 DEF WrittenInv
<1>4. ASSUME NEW r \in Requests, TakeJob(r) \/ EngineFails(r) \/ WorkerStops(r) \/ Enqueue(r)
      PROVE  WrittenInv'
  <2>1. sse[r] = "new" => job[r] = "none"
    BY DEF ContentInv, ContentAt, UnsubscribedIsEmpty
  <2>. QED
    BY <1>1, <1>4, <2>1
    DEF TakeJob, EngineFails, WorkerStops, Enqueue, workerVars, channelVars, streamVars,
        Failing, TypeOK
<1>5. ASSUME NEW r \in Requests,
             \/ Subscribe(r) \/ SubscribeExhausted(r) \/ DeadlinePasses(r) \/ ReadFails(r)
             \/ BeginCleanup(r) \/ EndCleanup(r) \/ SubscribeFails(r) \/ SubscribeTakesEffect(r)
             \/ ConnectionLost(r) \/ Disconnect(r) \/ CleanupFails(r)
      PROVE  WrittenInv'
  <2>1. UNCHANGED <<job, produced, inbox, sent>>
    BY <1>5 DEF Subscribe, SubscribeExhausted, DeadlinePasses, ReadFails, BeginCleanup, EndCleanup,
                SubscribeFails, SubscribeTakesEffect, ConnectionLost, Disconnect, CleanupFails,
                workerVars, channelVars, streamVars
  <2>. QED
    BY <1>1, <2>1
<1>6. CASE TakeConnection \/ ReturnConnection \/ UNCHANGED vars
  BY <1>1, <1>6 DEF TakeConnection, ReturnConnection, vars, workerVars, channelVars, streamVars
<1>. QED
  BY <1>2, <1>3, <1>4, <1>5, <1>6 DEF Next, WorkerNext, StreamNext, StreamStep

(* What was produced behind the proxy, before any client hears of it.        *)
LEMMA WrittenInvariance == Spec => []WrittenInv
<1>1. Init => WrittenInv
  BY DEF Init, WrittenInv, WrittenAt
<1>. QED
  BY <1>1, WrittenStep, Invariance, PTL DEF Spec

(* The first n of a sequence, and one more.                                  *)
LEMMA PrefixFacts ==
  ASSUME NEW S, NEW s \in Seq(S), NEW n \in 0..Len(s)
  PROVE  /\ SubSeq(s, 1, n) \in Seq(S) /\ Len(SubSeq(s, 1, n)) = n
         /\ \A i \in 1..n : SubSeq(s, 1, n)[i] = s[i]
         /\ SubSeq(s, 1, n) = <<>> <=> n = 0
         /\ n < Len(s) => SubSeq(s, 1, n + 1) = Append(SubSeq(s, 1, n), s[n + 1])
<1>1. n \in Nat /\ Len(s) \in Nat /\ n <= Len(s) /\ \A i \in 1..n : s[i] \in S
  OBVIOUS
<1>2. /\ SubSeq(s, 1, n) \in Seq(S) /\ Len(SubSeq(s, 1, n)) = n
      /\ \A i \in 1..n : SubSeq(s, 1, n)[i] = s[i]
  BY <1>1, SMT
<1>3. SubSeq(s, 1, n) = <<>> <=> n = 0
  BY <1>1, <1>2, EmptySeq
<1>4. ASSUME n < Len(s) PROVE SubSeq(s, 1, n + 1) = Append(SubSeq(s, 1, n), s[n + 1])
  <2>1. n + 1 \in Nat /\ \A i \in 1..n + 1 : s[i] \in S
    BY <1>1, <1>4
  <2>2. /\ SubSeq(s, 1, n + 1) \in Seq(S) /\ Len(SubSeq(s, 1, n + 1)) = n + 1
        /\ \A i \in 1..n + 1 : SubSeq(s, 1, n + 1)[i] = s[i]
    BY <2>1, SMT
  <2>3. s[n + 1] \in S
    BY <1>1, <1>4
  <2>. DEFINE t == SubSeq(s, 1, n)
              u == SubSeq(s, 1, n + 1)
  <2>. HIDE DEF t, u
  <2>4. t \in Seq(S) /\ Len(t) = n /\ \A i \in 1..n : t[i] = s[i]
    BY <1>2 DEF t
  <2>5. /\ Append(t, s[n + 1]) \in Seq(S) /\ Len(Append(t, s[n + 1])) = n + 1
        /\ \A i \in 1..n : Append(t, s[n + 1])[i] = s[i]
        /\ Append(t, s[n + 1])[n + 1] = s[n + 1]
    BY <2>3, <2>4, AppendProperties
  <2>6. u \in Seq(S) /\ Len(u) = n + 1 /\ \A i \in 1..n + 1 : u[i] = s[i]
    BY <2>2 DEF u
  <2>7. \A i \in 1..n + 1 : u[i] = Append(t, s[n + 1])[i]
    <3>. SUFFICES ASSUME NEW i \in 1..n + 1 PROVE u[i] = Append(t, s[n + 1])[i]
      OBVIOUS
    <3>1. i \in 1..n \/ i = n + 1
      BY <1>1
    <3>. QED
      BY <2>5, <2>6, <3>1
  <2>8. u = Append(t, s[n + 1])
    BY <2>5, <2>6, <2>7, SeqEqual
  <2>. QED
    BY <2>8 DEF t, u
<1>. QED
  BY <1>2, <1>3, <1>4

(* Sequences that begin alike have the same beginnings.                     *)
LEMMA PrefixKept ==
  ASSUME NEW S, NEW s \in Seq(S), NEW t \in Seq(S), NEW n \in 0..Len(s), Len(s) <= Len(t),
         \A i \in 1..Len(s) : t[i] = s[i]
  PROVE  SubSeq(t, 1, n) = SubSeq(s, 1, n)
<1>1. n \in 0..Len(t) /\ \A i \in 1..n : t[i] = s[i]
  <2>1. Len(s) \in Nat /\ Len(t) \in Nat
    OBVIOUS
  <2>. QED
    BY <2>1
<1>. DEFINE a == SubSeq(s, 1, n)
            b == SubSeq(t, 1, n)
<1>2. a \in Seq(S) /\ Len(a) = n /\ \A i \in 1..n : a[i] = s[i]
  BY PrefixFacts
<1>3. b \in Seq(S) /\ Len(b) = n /\ \A i \in 1..n : b[i] = t[i]
  BY <1>1, PrefixFacts
<1>. HIDE DEF a, b
<1>4. a = b
  BY <1>1, <1>2, <1>3, SeqEqual
<1>. QED
  BY <1>4 DEF a, b

(* A stream takes no chunk back.                                             *)
LEMMA SentGrows ==
  ASSUME TypeOK, [Next]_vars, NEW r \in Requests
  PROVE  Len(sent[r]) <= Len(sent'[r]) /\ \A i \in 1..Len(sent[r]) : sent'[r][i] = sent[r][i]
<1>0. sent[r] \in Seq(Chunks) /\ Len(sent[r]) \in Nat
  BY DEF TypeOK
<1>1. ASSUME NEW q \in Requests, Receive(q) \/ TimeOut(q)
      PROVE  sent'[r] = sent[r] \/ \E c \in Chunks : sent'[r] = Append(sent[r], c)
  <2>1. \E c \in Chunks : sent' = [sent EXCEPT ![q] = Append(@, c)]
    <3>1. CASE Receive(q)
      <4>1. Head(inbox[q]) \in Events
        BY <3>1 DEF Receive, TypeOK
      <4>2. ChunkOf(Head(inbox[q])) \in Chunks
        BY <4>1, EventTypes
      <4>. QED
        BY <3>1, <4>2 DEF Receive
    <3>2. CASE TimeOut(q)
      BY <3>2, EventTypes DEF TimeOut
    <3>. QED
      BY <1>1, <3>1, <3>2
  <2>. QED
    BY <2>1 DEF TypeOK
<1>2. \/ UNCHANGED sent
      \/ \E q \in Requests : Receive(q) \/ TimeOut(q)
  BY DEF Next, WorkerNext, StreamNext, StreamStep, TakeJob, PublishToken, PublishDone, PublishFails,
         EngineFails, PublishError, WorkerStops, Enqueue, Subscribe, SubscribeExhausted,
         DeadlinePasses, ReadFails, BeginCleanup, EndCleanup, SubscribeFails, SubscribeTakesEffect,
         ConnectionLost, Disconnect, CleanupFails, TakeConnection, ReturnConnection, streamVars, vars
<1>3. sent'[r] = sent[r] \/ \E c \in Chunks : sent'[r] = Append(sent[r], c)
  BY <1>1, <1>2
<1>4. ASSUME NEW c \in Chunks, sent'[r] = Append(sent[r], c)
      PROVE  Len(sent'[r]) = Len(sent[r]) + 1 /\ \A i \in 1..Len(sent[r]) : sent'[r][i] = sent[r][i]
  BY <1>0, <1>4, AppendProperties
<1>. QED
  BY <1>0, <1>3, <1>4

(* Behind the proxy, nothing changes what the client was given.              *)
LEMMA GivenKept ==
  ASSUME TypeOK, TypeOK', ProxyTypeOK, [Next]_vars, UNCHANGED forwarded
  PROVE  \A r \in Requests : Given(r)' = Given(r)
<1>. SUFFICES ASSUME NEW r \in Requests PROVE Given(r)' = Given(r)
  OBVIOUS
<1>1. sent[r] \in Seq(Chunks) /\ sent'[r] \in Seq(Chunks) /\ forwarded[r] \in 0..Len(sent[r])
  BY DEF TypeOK, ProxyTypeOK
<1>2. Len(sent[r]) <= Len(sent'[r]) /\ \A i \in 1..Len(sent[r]) : sent'[r][i] = sent[r][i]
  BY SentGrows
<1>3. SubSeq(sent'[r], 1, forwarded[r]) = SubSeq(sent[r], 1, forwarded[r])
  BY <1>1, <1>2, PrefixKept
<1>. QED
  BY <1>3 DEF Given

(* What the client was given, chunk by chunk.                                *)
LEMMA GivenFacts ==
  ASSUME TypeOK, ProxyTypeOK, NEW r \in Requests
  PROVE  /\ forwarded[r] \in Nat /\ Len(Given(r)) = forwarded[r]
         /\ Given(r) = <<>> <=> forwarded[r] = 0
         /\ forwarded[r] # 0 => Given(r)[forwarded[r]] = sent[r][forwarded[r]]
         /\ forwarded[r] < Len(sent[r]) =>
              SubSeq(sent[r], 1, forwarded[r] + 1) = Append(Given(r), sent[r][forwarded[r] + 1])
<1>1. sent[r] \in Seq(Chunks) /\ forwarded[r] \in 0..Len(sent[r]) /\ forwarded[r] \in Nat
  BY DEF TypeOK, ProxyTypeOK
<1>2. forwarded[r] # 0 => forwarded[r] \in 1..forwarded[r]
  BY <1>1
<1>. QED
  BY <1>1, <1>2, PrefixFacts DEF Given

(* The variables of ChatResponse.                                            *)
heard == [r \in Requests |-> Given(r)]
state == [r \in Requests |-> IF Relaying(r) THEN "open" ELSE relay[r]]
responseVars == <<produced, missed, heard, state>>

(* A chunk other than the last one sent is a token, the one after what was   *)
(* heard; if it is no token, it is a bare mark, and after [DONE] no token is *)
(* written any more.                                                         *)
LEMMA NextChunk ==
  ASSUME ProxyInv, WrittenInv, NEW r \in Requests, NEW n \in 1..Len(sent[r])
  PROVE  /\ n < Len(sent[r]) => IsToken(sent[r][n])
         /\ IsToken(sent[r][n]) =>
              sent[r][n] = Token(missed[r] + n) /\ missed[r] + n <= produced[r]
         /\ ~IsToken(sent[r][n]) =>
              \E k \in Endings : sent[r][n] = [kind |-> k, token |-> 0]
         /\ sent[r][n].kind = "done" =>
              n = Len(sent[r]) /\ NoMoreTokens(r) /\ missed[r] + (n - 1) = produced[r]
<1>1. /\ TypeOK /\ ContentAt(r) /\ Written(sent[r][n], produced[r])
      /\ sent[r] \in Seq(Chunks) /\ Len(sent[r]) \in Nat /\ sent[r][n] \in Chunks
      /\ produced[r] \in Nat /\ missed[r] \in Nat
  BY DEF ProxyInv, IInv, ContentInv, TypeOK, WrittenInv, WrittenAt
<1>2. n < Len(sent[r]) => IsToken(sent[r][n])
  <2>1. n < Len(sent[r]) => n \in 1..Len(sent[r]) - 1
    BY <1>1
  <2>. QED
    BY <1>1, <2>1 DEF ContentAt, SentInOrder
<1>3. IsToken(sent[r][n]) => sent[r][n] = Token(missed[r] + n)
  BY <1>1 DEF ContentAt, SentInOrder
<1>4. IsToken(sent[r][n]) => missed[r] + n <= produced[r]
  <2>1. IsToken(sent[r][n]) => sent[r][n].token <= produced[r]
    BY <1>1 DEF Written
  <2>2. Token(missed[r] + n).token = missed[r] + n
    BY DEF Token
  <2>. QED
    BY <1>3, <2>1, <2>2
<1>5. ASSUME ~IsToken(sent[r][n])
      PROVE  \E k \in Endings : sent[r][n] = [kind |-> k, token |-> 0]
  <2>1. sent[r][n].token = 0 /\ sent[r][n].kind \in Endings
    BY <1>1, <1>5 DEF Written, Chunks, IsToken, Endings
  <2>2. sent[r][n] = [kind |-> sent[r][n].kind, token |-> sent[r][n].token]
    BY <1>1 DEF Chunks
  <2>. QED
    BY <2>1, <2>2
<1>6. ASSUME sent[r][n].kind = "done"
      PROVE  n = Len(sent[r]) /\ NoMoreTokens(r) /\ missed[r] + (n - 1) = produced[r]
  <2>1. ~IsToken(sent[r][n])
    BY <1>6 DEF IsToken
  <2>2. n = Len(sent[r]) /\ sent[r] # <<>>
    BY <1>1, <1>2, <2>1
  <2>3. LastChunk(r).kind = "done"
    BY <1>6, <2>2 DEF LastChunk
  <2>4. NoMoreTokens(r) /\ Len(sent[r]) - 1 = produced[r] - missed[r]
    BY <1>1, <2>2, <2>3 DEF ContentAt, CompletionIsLast
  <2>. QED
    BY <1>1, <2>2, <2>4
<1>. QED
  BY <1>2, <1>3, <1>4, <1>5, <1>6

(* One more token is written.                                                *)
LEMMA WriteStep ==
  ASSUME ProxyInv, ProxyInv', WrittenInv, [ProxyNext]_allVars, UNCHANGED proxyVars,
         NEW r \in Requests, job[r] = "running",
         produced' = [produced EXCEPT ![r] = @ + 1], Publish(r, Token(produced[r] + 1))
  PROVE  Response!Next
<1>1. TypeOK /\ TypeOK' /\ ProxyTypeOK /\ ContentAt(r) /\ UnsentAt(r)
  BY DEF ProxyInv, IInv, ContentInv, ProxyAt
<1>2. UNCHANGED <<heard, state>>
  <2>1. \A q \in Requests : Given(q)' = Given(q)
    BY <1>1, StepMaps, GivenKept DEF proxyVars
  <2>. QED
    BY <2>1 DEF heard, state, Relaying, proxyVars
<1>3. state[r] \notin {"new", "unavailable"}
  BY <1>1 DEF ContentAt, UnsubscribedIsEmpty, UnsentAt, state, Relaying, ProxyTypeOK
<1>4. ~Response!Done(r)
  <2>. SUFFICES ASSUME Given(r) # <<>>, Given(r)[Len(Given(r))].kind = "done" PROVE FALSE
    BY DEF Response!Done
  <2>1. forwarded[r] \in 1..Len(sent[r]) /\ sent[r][forwarded[r]].kind = "done"
    BY <1>1, GivenFacts DEF ProxyTypeOK
  <2>2. NoMoreTokens(r)
    BY <2>1, NextChunk
  <2>. QED
    BY <2>2 DEF NoMoreTokens
<1>5. \/ UNCHANGED missed
      \/ missed[r] = produced[r] /\ missed' = [missed EXCEPT ![r] = @ + 1]
  BY <1>1 DEF Publish, Token, ContentAt, UnsubscribedIsEmpty
<1>6. Response!Write(r)
  BY <1>2, <1>3, <1>4, <1>5 DEF Response!Write, heard, state
<1>. QED
  BY <1>6 DEF Response!Next

(* Behind the proxy, only a token written is more than a stutter.            *)
LEMMA BackendMaps ==
  ASSUME ProxyInv, ProxyInv', WrittenInv, [ProxyNext]_allVars, [Next]_vars,
         UNCHANGED <<relay, forwarded>>,
         \A r \in Requests :
           (PublishToken(r) \/ PublishFails(r)) => UNCHANGED proxyVars
  PROVE  Response!Next \/ UNCHANGED responseVars
<1>1. TypeOK /\ TypeOK' /\ ProxyTypeOK
  BY DEF ProxyInv, IInv
<1>2. UNCHANGED <<heard, state>>
  <2>1. \A q \in Requests : Given(q)' = Given(q)
    BY <1>1, GivenKept
  <2>. QED
    BY <2>1 DEF heard, state, Relaying
<1>3. ASSUME NEW r \in Requests, PublishToken(r) \/ PublishFails(r)
      PROVE  Response!Next \/ UNCHANGED <<produced, missed>>
  <2>1. \/ produced' = [produced EXCEPT ![r] = @ + 1] /\ Publish(r, Token(produced[r] + 1))
        \/ UNCHANGED <<produced, missed>>
    BY <1>3 DEF PublishToken, PublishFails, Publish, Terminal
  <2>2. job[r] = "running" /\ UNCHANGED proxyVars
    BY <1>3 DEF PublishToken, PublishFails
  <2>. QED
    BY <2>1, <2>2, WriteStep
<1>4. ASSUME NEW r \in Requests, PublishDone(r) \/ PublishError(r)
      PROVE  UNCHANGED <<produced, missed>>
  BY <1>4 DEF PublishDone, PublishError, Publish, Terminal
<1>5. \/ UNCHANGED <<produced, missed>>
      \/ \E r \in Requests :
           PublishToken(r) \/ PublishFails(r) \/ PublishDone(r) \/ PublishError(r)
  BY DEF Next, WorkerNext, StreamNext, StreamStep, TakeJob, EngineFails, WorkerStops, Enqueue,
         Subscribe, SubscribeExhausted, Receive, DeadlinePasses, TimeOut, ReadFails, BeginCleanup,
         EndCleanup, SubscribeFails, SubscribeTakesEffect, ConnectionLost, Disconnect, CleanupFails,
         TakeConnection, ReturnConnection, workerVars, channelVars, vars
<1>. QED
  BY <1>2, <1>3, <1>4, <1>5 DEF responseVars

(* The proxy moves a response on, and its client is given nothing.           *)
LEMMA MoveMaps ==
  ASSUME ProxyTypeOK, NEW r \in Requests, NEW s, UNCHANGED <<vars, forwarded>>,
         relay' = [relay EXCEPT ![r] = s]
  PROVE  Response!Move(r, IF s \in {"posting", "reading"} THEN "open" ELSE s)
<1>1. UNCHANGED <<produced, missed, sent>>
  BY DEF vars, workerVars, channelVars, streamVars
<1>2. heard' = heard
  BY <1>1 DEF heard, Given
<1>3. state' = [state EXCEPT ![r] = IF s \in {"posting", "reading"} THEN "open" ELSE s]
  BY DEF state, Relaying, ProxyTypeOK
<1>. QED
  BY <1>1, <1>2, <1>3 DEF Response!Move, heard, state

(* A chunk forwarded is the next token of the answer, or its mark.           *)
LEMMA ForwardMaps ==
  ASSUME ProxyInv, WrittenInv, NEW r \in Requests, Forward(r)
  PROVE  Response!Next
<1>. DEFINE n == forwarded[r]
            chunk == sent[r][n + 1]
<1>1. /\ TypeOK /\ ProxyTypeOK /\ relay[r] = "reading" /\ n < Len(sent[r]) /\ n \in Nat
      /\ forwarded' = [forwarded EXCEPT ![r] = n + 1] /\ UNCHANGED <<vars, relay>>
      /\ missed[r] \in Nat /\ produced[r] \in Nat /\ Len(sent[r]) \in Nat
  BY DEF ProxyInv, IInv, Forward, ProxyTypeOK, TypeOK
<1>2. UNCHANGED <<produced, missed, sent>>
  BY <1>1 DEF vars, workerVars, channelVars, streamVars
<1>3. /\ Len(Given(r)) = n /\ (Given(r) = <<>> <=> n = 0)
      /\ n # 0 => Given(r)[n] = sent[r][n]
      /\ SubSeq(sent[r], 1, n + 1) = Append(Given(r), chunk)
  BY <1>1, GivenFacts
<1>4. Given(r)' = Append(Given(r), chunk) /\ \A q \in Requests \ {r} : Given(q)' = Given(q)
  BY <1>1, <1>2, <1>3 DEF Given, ProxyTypeOK
<1>5. heard' = [heard EXCEPT ![r] = Append(@, chunk)]
  BY <1>4 DEF heard
<1>6. state[r] = "open" /\ state' = state
  BY <1>1 DEF state, Relaying
<1>7. ~Response!Marked(r)
  <2>1. n # 0 => sent[r][n].kind = "token"
    <3>1. n # 0 => n \in 1..Len(sent[r])
      BY <1>1
    <3>. QED
      BY <1>1, <3>1, NextChunk DEF IsToken
  <2>. QED
    BY <1>3, <2>1 DEF Response!Marked
<1>8. Response!Hear(r, chunk)
  <2>. HIDE DEF chunk
  <2>. QED
    BY <1>2, <1>5, <1>6, <1>7 DEF Response!Hear, heard, state
<1>9. n + 1 \in 1..Len(sent[r]) /\ Response!Position(r) = missed[r] + n
  BY <1>1, <1>3 DEF Response!Position
<1>10. CASE IsToken(chunk)
  <2>1. chunk = Token(missed[r] + (n + 1)) /\ missed[r] + (n + 1) <= produced[r]
    BY <1>9, <1>10, NextChunk
  <2>2. /\ Response!Position(r) < produced[r]
        /\ chunk = Response!Token(Response!Position(r) + 1)
    <3>1. missed[r] + (n + 1) = (missed[r] + n) + 1
      BY <1>1
    <3>. HIDE DEF n, chunk
    <3>. QED
      BY <1>1, <1>9, <2>1, <3>1 DEF Token, Response!Token
  <2>. HIDE DEF chunk
  <2>. QED
    BY <1>8, <2>2 DEF Response!HearToken, Response!Next
<1>11. CASE ~IsToken(chunk)
  <2>1. PICK k \in Endings : chunk = [kind |-> k, token |-> 0]
    BY <1>9, <1>11, NextChunk
  <2>2. chunk = Response!Mark(k)
    BY <2>1 DEF Response!Mark
  <2>3. CASE k \in {"error", "timeout"}
    <3>. HIDE DEF chunk
    <3>. QED
      BY <1>8, <2>2, <2>3 DEF Response!HearFailure, Response!Next
  <2>4. CASE k = "done"
    <3>1. chunk.kind = "done"
      BY <2>1, <2>4
    <3>2. missed[r] + ((n + 1) - 1) = produced[r]
      BY <1>9, <3>1, NextChunk
    <3>3. Response!Position(r) = produced[r]
      BY <1>1, <1>9, <3>2
    <3>. HIDE DEF chunk
    <3>. QED
      BY <1>8, <2>2, <2>4, <3>3 DEF Response!HearDone, Response!Next
  <2>. QED
    BY <2>3, <2>4 DEF Endings
<1>. QED
  BY <1>10, <1>11

(* The steps of the proxy.                                                   *)
LEMMA RelayMaps ==
  ASSUME ProxyInv, WrittenInv, NEW r \in Requests,
         Chat(r) \/ ProxyStep(r) \/ ConnectFails(r) \/ Break(r) \/ Stall(r) \/ Leave(r)
  PROVE  Response!Next \/ UNCHANGED responseVars
<1>0. /\ TypeOK /\ ProxyTypeOK /\ ProxyAt(r) /\ ContentAt(r) /\ WrittenAt(r)
      /\ Given(r) = <<>> <=> forwarded[r] = 0
  BY GivenFacts DEF ProxyInv, IInv, ContentInv, WrittenInv
<1>1. CASE Chat(r)
  <2>1. Response!Move(r, "open") /\ state[r] = "new"
    BY <1>0, <1>1, MoveMaps DEF Chat, state, Relaying
  <2>. QED
    BY <2>1 DEF Response!Begin, Response!Next, state
<1>2. CASE ConnectFails(r)
  <2>1. Response!Move(r, "unavailable") /\ state[r] = "open"
    BY <1>0, <1>2, MoveMaps DEF ConnectFails, state, Relaying
  <2>2. Given(r) = <<>> /\ produced[r] = 0
    BY <1>0, <1>2 DEF ConnectFails, ProxyAt, UnsentAt, ContentAt, UnsubscribedIsEmpty, WrittenAt
  <2>. QED
    BY <2>1, <2>2 DEF Response!Reject, Response!Next, state
<1>3. CASE Respond(r)
  <2>1. state[r] = "open" /\ Given(r) = <<>> /\ UNCHANGED <<vars, forwarded>>
        /\ relay' = [relay EXCEPT ![r] = IF sse[r] = "refused" THEN "upstreamError" ELSE "reading"]
    BY <1>0, <1>3 DEF Respond, state, Relaying, ProxyAt, UnsentAt
  <2>2. CASE sse[r] = "refused"
    <3>1. Response!Move(r, "upstreamError")
      BY <1>0, <2>1, <2>2, MoveMaps
    <3>. QED
      BY <2>1, <3>1 DEF Response!Refuse, Response!Next, state
  <2>3. CASE sse[r] # "refused"
    <3>1. Response!Move(r, "open")
      BY <1>0, <2>1, <2>3, MoveMaps
    <3>2. state' = [state EXCEPT ![r] = "open"] /\ UNCHANGED <<produced, missed, heard>>
      BY <3>1 DEF Response!Move, state, heard
    <3>3. state' = state
      BY <2>1, <3>2 DEF state
    <3>. QED
      BY <3>2, <3>3 DEF responseVars
  <2>. QED
    BY <2>2, <2>3
<1>4. CASE Forward(r)
  BY <1>4, ForwardMaps
<1>5. CASE EndOfBody(r)
  <2>1. Response!Move(r, "complete") /\ state[r] = "open"
    BY <1>0, <1>5, MoveMaps DEF EndOfBody, state, Relaying
  <2>2. sent[r] # <<>> /\ LastChunk(r).kind \in Endings /\ forwarded[r] = Len(sent[r])
    BY <1>0, <1>5 DEF EndOfBody, BodyComplete, ProxyAt, MarkedAt
  <2>3. forwarded[r] # 0 /\ Len(Given(r)) = forwarded[r]
        /\ Given(r)[forwarded[r]] = sent[r][forwarded[r]]
    BY <1>0, <2>2, GivenFacts DEF TypeOK
  <2>4. Response!Marked(r)
    BY <1>0, <2>2, <2>3 DEF Response!Marked, LastChunk, Endings
  <2>. QED
    BY <2>1, <2>4 DEF Response!Complete, Response!Next, state
<1>6. CASE CutOff(r) \/ Break(r) \/ Leave(r)
  <2>1. state[r] = "open" /\ \E s \in {"cut", "left"} : Response!Move(r, s)
    BY <1>0, <1>6, MoveMaps DEF CutOff, Break, Leave, state, Relaying
  <2>. QED
    BY <2>1 DEF Response!CutShort, Response!Next, state
<1>7. CASE Stall(r)
  BY <1>7 DEF Stall, vars, workerVars, channelVars, streamVars, responseVars, heard, state, Given,
              Relaying
<1>. QED
  BY <1>1, <1>2, <1>3, <1>4, <1>5, <1>6, <1>7 DEF ProxyStep

(* Every step of the composition is one of ChatResponse, or a stutter.       *)
LEMMA ResponseStep ==
  ProxyInv /\ ProxyInv' /\ WrittenInv /\ [ProxyNext]_allVars
    => [Response!Next]_responseVars
<1>. SUFFICES ASSUME ProxyInv, ProxyInv', WrittenInv, [ProxyNext]_allVars
              PROVE  Response!Next \/ UNCHANGED responseVars
  OBVIOUS
<1>1. [Next]_vars
  BY StepMaps
<1>2. CASE UNCHANGED allVars
  BY <1>2 DEF allVars, vars, proxyVars, workerVars, channelVars, streamVars, responseVars, heard,
              state, Given, Relaying
<1>3. ASSUME NEW r \in Requests,
             Chat(r) \/ ProxyStep(r) \/ ConnectFails(r) \/ Break(r) \/ Stall(r) \/ Leave(r)
      PROVE  Response!Next \/ UNCHANGED responseVars
  BY <1>3, RelayMaps
<1>4. ASSUME NEW r \in Requests, Post(r) \/ BackendStep(r)
      PROVE  Response!Next \/ UNCHANGED responseVars
  <2>1. UNCHANGED proxyVars
    BY <1>4 DEF Post, BackendStep
  <2>. QED
    BY <1>1, <2>1, BackendMaps DEF proxyVars
<1>5. ASSUME NEW r \in Requests, GatewayStep(r) \/ HangUp(r)
      PROVE  Response!Next \/ UNCHANGED responseVars
  <2>1. UNCHANGED <<relay, forwarded, produced, missed>>
    BY <1>5 DEF GatewayStep, HangUp, StreamStep, Subscribe, SubscribeExhausted, Receive,
                DeadlinePasses, TimeOut, ReadFails, BeginCleanup, EndCleanup, Disconnect,
                workerVars, channelVars
  <2>2. \A q \in Requests : Given(q)' = Given(q)
    BY <1>1, <2>1, GivenKept DEF ProxyInv, IInv
  <2>. QED
    BY <2>1, <2>2 DEF responseVars, heard, state, Relaying
<1>6. CASE (TakeConnection \/ ReturnConnection) /\ UNCHANGED proxyVars
  BY <1>1, <1>6, BackendMaps DEF proxyVars
<1>. QED
  BY <1>2, <1>3, <1>4, <1>5, <1>6 DEF ProxyNext

(* The two gateways, the channel and the worker implement ChatResponse.      *)
THEOREM ResponseRefinement == ProxySpec => RefinesResponse
<1>1. ProxyInit => Response!Init
  BY DEF ProxyInit, Init, Response!Init, Given, Relaying
<1>. QED
  BY <1>1, ResponseStep, ProxyInvariance, Implementation, WrittenInvariance, PTL
  DEF ProxySpec, RefinesResponse, Response!Spec, Response!vars, responseVars, heard, state

-----------------------------------------------------------------------------
(* Folds over a sequence.  The induction is over sets of numbers: a set that *)
(* is not empty has a least element, since < is well founded.                *)

(* A non-empty set of natural numbers has a least one.                       *)
LEMMA LeastNumber ==
  ASSUME NEW T, T \subseteq Nat, T # {}
  PROVE  \E m \in T : \A k \in T : m <= k
<1>1. PICK R : IsWellFoundedOn(R, Nat) /\ \A x, y \in Nat : x < y => <<x, y>> \in R
  <2>1. \A x, y \in Nat : x < y => <<x, y>> \in OpToRel(<, Nat)
    BY DEF OpToRel
  <2>. QED
    BY <2>1, NatLessThanWellFounded
<1>2. IsWellFoundedOn(R, Nat)
  BY <1>1
<1>3. PICK m \in T : \A k \in T : ~(<<k, m>> \in R)
  BY <1>2, WFMin
<1>4. \A k \in T : ~(k < m)
  BY <1>1, <1>3
<1>. QED
  BY <1>4

(* Induction: a set that has 0, and with a number below n the next one.      *)
LEMMA Induction ==
  ASSUME NEW n \in Nat, NEW T, 0 \in T, \A i \in 0..n - 1 : i \in T => i + 1 \in T
  PROVE  \A i \in 0..n : i \in T
<1>. DEFINE U == {i \in 0..n : i \notin T}
<1>. SUFFICES ASSUME U # {} PROVE FALSE
  OBVIOUS
<1>1. U \subseteq Nat
  OBVIOUS
<1>2. \E m \in U : \A k \in U : m <= k
  <2>. HIDE DEF U
  <2>. QED
    BY <1>1, LeastNumber
<1>3. PICK m \in U : \A k \in U : m <= k
  BY <1>2
<1>4. m # 0 /\ m - 1 \in 0..n - 1 /\ m - 1 \in T
  BY <1>3
<1>. QED
  BY <1>3, <1>4

(* The greatest of a non-empty set of indices is one of them.                *)
LEMMA GreatestIndex ==
  ASSUME NEW n \in Nat, NEW s \in SUBSET (1..n), s # {}
  PROVE  Max(s) \in s
<1>. DEFINE U == {m \in 0..n : n - m \in s}
<1>1. U \subseteq Nat
  OBVIOUS
<1>2. U # {}
  <2>1. PICK x \in s : TRUE
    OBVIOUS
  <2>2. x \in 1..n /\ n - x \in 0..n /\ n - (n - x) = x
    OBVIOUS
  <2>. QED
    BY <2>2
<1>3. \E m \in U : \A k \in U : m <= k
  <2>. HIDE DEF U
  <2>. QED
    BY <1>1, <1>2, LeastNumber
<1>4. PICK m \in U : \A k \in U : m <= k
  BY <1>3
<1>5. \A y \in s : n - m >= y
  <2>. SUFFICES ASSUME NEW y \in s PROVE n - m >= y
    OBVIOUS
  <2>1. y \in 1..n /\ n - y \in 0..n /\ n - (n - y) = y
    OBVIOUS
  <2>2. m <= n - y /\ m \in 0..n
    BY <1>4, <2>1
  <2>. QED
    BY <2>1, <2>2
<1>. QED
  BY <1>4, <1>5 DEF Max

(* The greatest index of an initial segment is its last.                     *)
LEMMA LastIndex ==
  ASSUME NEW k \in Nat, NEW s \in SUBSET (1..k + 1), k + 1 \in s
  PROVE  Max(s) = k + 1
<1>1. \A y \in s : k + 1 >= y
  OBVIOUS
<1>2. \A x \in s : (\A y \in s : x >= y) => x = k + 1
  OBVIOUS
<1>. QED
  BY <1>1, <1>2 DEF Max

(* Steps g of values in S, from b on: folded over every set of their indices, *)
(* the greatest last; and taken one after the other.                        *)
IsFold(it, n, S, b, g) ==
  /\ it \in [SUBSET (1..n) -> S]
  /\ \A s \in SUBSET (1..n) : it[s] = IF s = {} THEN b ELSE g[Max(s)][it[s \ {Max(s)}]]

IsChain(f, n, S, b, g) ==
  f \in [0..n -> S] /\ f[0] = b /\ \A i \in 1..n : f[i] = g[i][f[i - 1]]

(* Steps within S have a fold.                                               *)
LEMMA FoldExists ==
  ASSUME NEW n \in Nat, NEW S, NEW b \in S, NEW g \in [1..n -> [S -> S]]
  PROVE  \E it : IsFold(it, n, S, b, g)
<1>. DEFINE Folds(it, k) == \A s \in SUBSET (1..k) :
              it[s] = IF s = {} THEN b ELSE g[Max(s)][it[s \ {Max(s)}]]
            T == {k \in 0..n : \E it \in [SUBSET (1..k) -> S] : Folds(it, k)}
<1>1. 0 \in T
  <2>1. SUBSET (1..0) = {{}}
    OBVIOUS
  <2>2. [s \in SUBSET (1..0) |-> b] \in [SUBSET (1..0) -> S]
    OBVIOUS
  <2>3. Folds([s \in SUBSET (1..0) |-> b], 0)
    BY <2>1
  <2>. HIDE DEF Folds
  <2>. QED
    BY <2>2, <2>3
<1>2. ASSUME NEW k \in 0..n - 1, k \in T PROVE k + 1 \in T
  <2>1. PICK it \in [SUBSET (1..k) -> S] : Folds(it, k)
    BY <1>2
  <2>. DEFINE next == [s \in SUBSET (1..k + 1) |->
                         IF k + 1 \in s THEN g[k + 1][it[s \ {k + 1}]] ELSE it[s]]
  <2>2. \A s \in SUBSET (1..k + 1) :
          /\ s \ {k + 1} \in SUBSET (1..k)
          /\ k + 1 \notin s => s \in SUBSET (1..k)
    OBVIOUS
  <2>3. k + 1 \in 1..n
    OBVIOUS
  <2>4. next \in [SUBSET (1..k + 1) -> S]
    BY <2>2, <2>3
  <2>5. Folds(next, k + 1)
    <3>. SUFFICES ASSUME NEW s \in SUBSET (1..k + 1)
                  PROVE  next[s] = IF s = {} THEN b ELSE g[Max(s)][next[s \ {Max(s)}]]
      OBVIOUS
    <3>1. CASE k + 1 \in s
      <4>1. Max(s) = k + 1 /\ k \in Nat
        BY <3>1, LastIndex
      <4>2. s \ {k + 1} \in SUBSET (1..k + 1) /\ k + 1 \notin s \ {k + 1}
        OBVIOUS
      <4>3. next[s \ {k + 1}] = it[s \ {k + 1}]
        BY <4>2
      <4>. QED
        BY <3>1, <4>1, <4>3
    <3>2. CASE k + 1 \notin s
      <4>1. s \in SUBSET (1..k) /\ s \ {Max(s)} \in SUBSET (1..k + 1) /\ k + 1 \notin s \ {Max(s)}
        BY <2>2, <3>2
      <4>2. next[s] = it[s] /\ next[s \ {Max(s)}] = it[s \ {Max(s)}]
        BY <3>2, <4>1
      <4>3. it[s] = IF s = {} THEN b ELSE g[Max(s)][it[s \ {Max(s)}]]
        BY <2>1, <4>1
      <4>. QED
        BY <4>2, <4>3
    <3>. QED
      BY <3>1, <3>2
  <2>. HIDE DEF next, Folds
  <2>. QED
    BY <2>3, <2>4, <2>5
<1>3. n \in T
  <2>. HIDE DEF T
  <2>1. \A i \in 0..n : i \in T
    BY <1>1, <1>2, Induction
  <2>. QED
    BY <2>1
<1>. QED
  BY <1>3 DEF IsFold

(* Initial segments of the indices.                                          *)
LEMMA Segments ==
  ASSUME NEW n \in Nat, NEW k \in 1..n
  PROVE  /\ 1..k \in SUBSET (1..n) /\ 1..k # {}
         /\ Max(1..k) = k /\ (1..k) \ {k} = 1..k - 1
<1>1. k - 1 \in Nat /\ (k - 1) + 1 = k /\ k \in 1..k
  OBVIOUS
<1>2. Max(1..k) = k
  BY <1>1, LastIndex
<1>. QED
  BY <1>1, <1>2

(* The values of a fold over the initial segments are a chain of steps.      *)
LEMMA FoldIsChain ==
  ASSUME NEW n \in Nat, NEW S, NEW b \in S, NEW g \in [1..n -> [S -> S]],
         NEW it, IsFold(it, n, S, b, g)
  PROVE  IsChain([i \in 0..n |-> it[1..i]], n, S, b, g)
<1>. DEFINE f == [i \in 0..n |-> it[1..i]]
<1>1. \A i \in 0..n : 1..i \in SUBSET (1..n)
  OBVIOUS
<1>2. f \in [0..n -> S]
  BY <1>1 DEF IsFold
<1>3. f[0] = b
  <2>1. 1..0 = {} /\ {} \in SUBSET (1..n) /\ f[0] = it[1..0]
    OBVIOUS
  <2>2. it[{}] = b
    BY <2>1 DEF IsFold
  <2>. QED
    BY <2>1, <2>2
<1>4. ASSUME NEW i \in 1..n PROVE f[i] = g[i][f[i - 1]]
  <2>1. i \in 0..n /\ i - 1 \in 0..n
    OBVIOUS
  <2>2. 1..i \in SUBSET (1..n) /\ 1..i # {} /\ Max(1..i) = i /\ (1..i) \ {i} = 1..i - 1
    BY Segments
  <2>3. it[1..i] = g[i][it[1..i - 1]]
    BY <2>2 DEF IsFold
  <2>. QED
    BY <2>1, <2>3
<1>. HIDE DEF f
<1>5. IsChain(f, n, S, b, g)
  BY <1>2, <1>3, <1>4 DEF IsChain
<1>. QED
  BY <1>5 DEF f

(* So a chain of steps has a value after each of them.                       *)
LEMMA ChainExists ==
  ASSUME NEW n \in Nat, NEW S, NEW b \in S, NEW g \in [1..n -> [S -> S]]
  PROVE  \E f : IsChain(f, n, S, b, g)
<1>1. PICK it : IsFold(it, n, S, b, g)
  BY FoldExists
<1>. QED
  BY <1>1, FoldIsChain

-----------------------------------------------------------------------------
(* Texts joined one by one: the last of the joins is FlattenSeq.             *)
Joins(f, texts) ==
  /\ f[0] = <<>>
  /\ \A i \in 1..Len(texts) : f[i] = f[i - 1] \o texts[i]

(* FlattenSeq's own recursion.                                               *)
Flatten(texts) ==
  CHOOSE f : f = [i \in 1..Len(texts) |-> IF i = 1 THEN texts[i] ELSE f[i - 1] \o texts[i]]

(* There are joins of any texts ...                                          *)
LEMMA JoinsExist ==
  ASSUME NEW C, NEW texts \in Seq(Seq(C))
  PROVE  \E f \in [0..Len(texts) -> Seq(C)] : Joins(f, texts)
<1>. DEFINE n == Len(texts)
            S == Seq(C)
            g == [i \in 1..n |-> [t \in S |-> t \o texts[i]]]
<1>1. n \in Nat
  OBVIOUS
<1>2. <<>> \in S
  OBVIOUS
<1>3. g \in [1..n -> [S -> S]]
  OBVIOUS
<1>4. \E f : IsChain(f, n, S, <<>>, g)
  <2>. HIDE DEF n, S, g
  <2>. QED
    BY <1>1, <1>2, <1>3, ChainExists
<1>5. PICK f \in [0..n -> S] : f[0] = <<>> /\ \A i \in 1..n : f[i] = g[i][f[i - 1]]
  BY <1>4 DEF IsChain
<1>6. \A i \in 1..n : i - 1 \in 0..n
  BY <1>1
<1>7. \A i \in 1..n : f[i] = f[i - 1] \o texts[i]
  BY <1>5, <1>6
<1>. QED
  BY <1>5, <1>7 DEF Joins

(* ... and they agree with FlattenSeq.                                       *)
LEMMA FlattenJoins ==
  ASSUME NEW C, NEW texts \in Seq(Seq(C)), NEW f \in [0..Len(texts) -> Seq(C)], Joins(f, texts)
  PROVE  FlattenSeq(texts) = f[Len(texts)]
<1>. DEFINE n == Len(texts)
            h == [i \in 1..n |-> f[i]]
            F == Flatten(texts)
<1>1. n \in Nat /\ \A i \in 1..n : texts[i] \in Seq(C) /\ f[i] \in Seq(C)
  <2>1. n \in Nat /\ \A i \in 1..n : texts[i] \in Seq(C) /\ i \in 0..n
    OBVIOUS
  <2>. QED
    BY <2>1
<1>2. CASE n = 0
  <2>1. texts = <<>>
    BY <1>2
  <2>. QED
    BY <1>2, <2>1 DEF FlattenSeq, Joins
<1>3. CASE n # 0
  <2>1. FlattenSeq(texts) = F[n]
    BY <1>3 DEF FlattenSeq, Flatten
  <2>2. h = [i \in 1..n |-> IF i = 1 THEN texts[i] ELSE h[i - 1] \o texts[i]]
    <3>. SUFFICES ASSUME NEW i \in 1..n
                  PROVE  f[i] = IF i = 1 THEN texts[i] ELSE h[i - 1] \o texts[i]
      BY Zenon
    <3>1. CASE i = 1
      <4>1. 1 \in 1..Len(texts) /\ texts[1] \in Seq(C)
        BY <3>1
      <4>2. f[1] = f[1 - 1] \o texts[1] /\ f[0] = <<>>
        BY <4>1 DEF Joins
      <4>3. 1 - 1 = 0
        OBVIOUS
      <4>4. <<>> \o texts[1] = texts[1]
        BY <4>1
      <4>5. f[1] = texts[1]
        BY <4>2, <4>3, <4>4, Zenon
      <4>. QED
        BY <3>1, <4>5
    <3>2. CASE i # 1
      <4>1. i - 1 \in 1..n
        BY <1>1, <3>2
      <4>. QED
        BY <3>2, <4>1 DEF Joins
    <3>. QED
      BY <3>1, <3>2
  <2>3. F = [i \in 1..n |-> IF i = 1 THEN texts[i] ELSE F[i - 1] \o texts[i]]
    <3>. HIDE DEF h, n
    <3>. QED
      BY <2>2 DEF Flatten, n
  <2>. DEFINE T == {i \in 0..n : i = 0 \/ F[i] = f[i]}
  <2>4. 0 \in T
    BY <1>1
  <2>. HIDE DEF F
  <2>5. ASSUME NEW i \in 0..n - 1, i \in T PROVE i + 1 \in T
    <3>1. i + 1 \in 1..n /\ (i + 1) - 1 = i /\ (i # 0 => i + 1 # 1 /\ F[i] = f[i])
      BY <1>1, <2>5
    <3>2. F[i + 1] = IF i + 1 = 1 THEN texts[i + 1] ELSE F[(i + 1) - 1] \o texts[i + 1]
      <4>. HIDE DEF n
      <4>. QED
        BY <2>3, <3>1
    <3>3. f[i + 1] = f[i] \o texts[i + 1] /\ (i = 0 => f[i] = <<>>)
      BY <3>1 DEF Joins
    <3>4. F[i + 1] = f[i + 1]
      <4>1. CASE i = 0
        <5>1. texts[i + 1] \in Seq(C)
          BY <1>1, <3>1
        <5>2. <<>> \o texts[i + 1] = texts[i + 1]
          BY <5>1
        <5>3. f[i + 1] = texts[i + 1]
          BY <3>3, <4>1, <5>2, Zenon
        <5>4. i + 1 = 1
          BY <4>1
        <5>. QED
          BY <3>2, <5>3, <5>4, Zenon
      <4>2. CASE i # 0
        BY <1>1, <3>1, <3>2, <3>3, <4>2
      <4>. QED
        BY <4>1, <4>2
    <3>. QED
      BY <3>1, <3>4
  <2>6. n \in T
    <3>. HIDE DEF T
    <3>1. \A i \in 0..n : i \in T
      BY <1>1, <2>4, <2>5, Induction
    <3>. QED
      BY <1>1, <3>1
  <2>. QED
    BY <1>3, <2>1, <2>6
<1>. QED
  BY <1>2, <1>3

(* One more text is joined at the end.                                       *)
LEMMA FlattenAppend ==
  ASSUME NEW C, NEW texts \in Seq(Seq(C)), NEW text \in Seq(C)
  PROVE  FlattenSeq(Append(texts, text)) = FlattenSeq(texts) \o text
<1>. DEFINE more == Append(texts, text)
<1>1. more \in Seq(Seq(C)) /\ Len(more) = Len(texts) + 1
  OBVIOUS
<1>2. \A i \in 1..Len(texts) : more[i] = texts[i]
  OBVIOUS
<1>3. Len(texts) \in Nat /\ more[Len(texts) + 1] = text
  OBVIOUS
<1>4. PICK f \in [0..Len(more) -> Seq(C)] : Joins(f, more)
  <2>. HIDE DEF more
  <2>. QED
    BY <1>1, JoinsExist
<1>. DEFINE h == [i \in 0..Len(texts) |-> f[i]]
<1>. HIDE DEF more
<1>5. FlattenSeq(more) = f[Len(more)]
  BY <1>1, <1>4, FlattenJoins
<1>6. h \in [0..Len(texts) -> Seq(C)]
  BY <1>1, <1>3, <1>4
<1>7. Joins(h, texts)
  <2>1. h[0] = <<>>
    BY <1>3, <1>4 DEF Joins
  <2>2. ASSUME NEW i \in 1..Len(texts) PROVE h[i] = h[i - 1] \o texts[i]
    <3>1. i \in 1..Len(more) /\ i \in 0..Len(texts) /\ i - 1 \in 0..Len(texts)
      BY <1>1, <1>3
    <3>2. f[i] = f[i - 1] \o more[i] /\ more[i] = texts[i]
      BY <1>2, <1>4, <3>1 DEF Joins
    <3>. QED
      BY <3>1, <3>2
  <2>. HIDE DEF h
  <2>. QED
    BY <2>1, <2>2 DEF Joins
<1>8. FlattenSeq(texts) = h[Len(texts)]
  <2>. HIDE DEF h
  <2>. QED
    BY <1>6, <1>7, FlattenJoins
<1>9. f[Len(more)] = f[Len(texts)] \o text
  <2>1. Len(texts) + 1 \in 1..Len(more) /\ (Len(texts) + 1) - 1 = Len(texts)
    BY <1>1, <1>3
  <2>. QED
    BY <1>1, <1>3, <1>4, <2>1 DEF Joins
<1>10. h[Len(texts)] = f[Len(texts)]
  BY <1>3
<1>. QED
  BY <1>5, <1>8, <1>9, <1>10 DEF more

(* The texts of no answer at all join to nothing.                            *)
LEMMA FlattenEmpty == FlattenSeq(<<>>) = <<>>
  BY DEF FlattenSeq

(* What an output adds to a prefix of it.                                    *)
LEMMA DeltaJoins ==
  ASSUME NEW C, NEW prev \in Seq(C), NEW text \in Seq(C), IsPrefix(prev, text)
  PROVE  /\ SubSeq(text, Len(prev) + 1, Len(text)) \in Seq(C)
         /\ prev \o SubSeq(text, Len(prev) + 1, Len(text)) = text
<1>1. Len(prev) \in Nat /\ Len(text) \in Nat /\ Len(prev) <= Len(text)
      /\ SubSeq(prev, 1, Len(prev)) = SubSeq(text, 1, Len(prev))
  BY DEF IsPrefix
<1>2. SubSeq(prev, 1, Len(prev)) = prev /\ SubSeq(text, 1, Len(text)) = text
  BY SubSeqFull
<1>3. 1 \in 1..Len(text) + 1 /\ Len(prev) \in 1 - 1..Len(text) /\ Len(text) \in Len(prev)..Len(text)
  BY <1>1
<1>4. SubSeq(text, 1, Len(prev)) \o SubSeq(text, Len(prev) + 1, Len(text)) = SubSeq(text, 1, Len(text))
  BY <1>3, ConcatAdjacentSubSeq
<1>5. SubSeq(text, Len(prev) + 1, Len(text)) \in Seq(C)
  <2>1. \A i \in Len(prev) + 1..Len(text) : text[i] \in C
    BY <1>1
  <2>2. Len(prev) + 1 \in Int /\ Len(text) \in Int
    BY <1>1
  <2>. QED
    BY <2>1, <2>2, SubSeqProperties
<1>. QED
  BY <1>1, <1>2, <1>4, <1>5

-----------------------------------------------------------------------------
(* VLLMEngine.                                                               *)
Start == [previousText |-> <<>>, yielded |-> <<>>]

(* The fold of VLLMYields: the state after the outputs at a set of indices.  *)
After(texts) ==
  CHOOSE it : it = [s \in SUBSET DOMAIN texts |->
    IF s = {} THEN Start ELSE ReceiveOutput(it[s \ {Max(s)}], texts[Max(s)])]

(* VLLMYields is that fold, over all outputs.                                *)
LEMMA YieldsAfter ==
  ASSUME NEW texts
  PROVE  VLLMYields(texts) = After(texts)[DOMAIN texts].yielded
  BY DEF VLLMYields, FoldLeft, MapThenFoldSet, After, Max, Start

(* The state after k outputs is what the k-th makes of the one before.       *)
LEMMA AfterOutputs ==
  ASSUME NEW C, NEW texts \in Seq(Seq(C))
  PROVE  /\ After(texts)[1..0] = Start
         /\ \A k \in 1..Len(texts) :
              After(texts)[1..k] = ReceiveOutput(After(texts)[1..k - 1], texts[k])
<1>. DEFINE n == Len(texts)
            S == [previousText : Seq(C), yielded : Seq(Seq(C))]
            g == [i \in 1..n |-> [v \in S |-> ReceiveOutput(v, texts[i])]]
            A == After(texts)
<1>1. n \in Nat /\ DOMAIN texts = 1..n /\ Start \in S
  BY DEF Start
<1>2. ASSUME NEW v \in S, NEW i \in 1..n PROVE ReceiveOutput(v, texts[i]) \in S
  <2>1. texts[i] \in Seq(C) /\ v.previousText \in Seq(C) /\ v.yielded \in Seq(Seq(C))
    OBVIOUS
  <2>. DEFINE delta == SubSeq(texts[i], Len(v.previousText) + 1, Len(texts[i]))
  <2>2. delta \in Seq(C)
    <3>1. Len(v.previousText) \in Nat /\ Len(texts[i]) \in Nat
      BY <2>1
    <3>2. \A j \in Len(v.previousText) + 1..Len(texts[i]) : texts[i][j] \in C
      BY <2>1, <3>1
    <3>3. Len(v.previousText) + 1 \in Int /\ Len(texts[i]) \in Int
      BY <3>1
    <3>. QED
      BY <3>2, <3>3, SubSeqProperties
  <2>3. Append(v.yielded, delta) \in Seq(Seq(C))
    BY <2>1, <2>2
  <2>4. ReceiveOutput(v, texts[i]) =
          [previousText |-> texts[i],
           yielded |-> IF delta = <<>> THEN v.yielded ELSE Append(v.yielded, delta)]
    BY DEF ReceiveOutput
  <2>. HIDE DEF delta
  <2>. QED
    BY <2>1, <2>3, <2>4
<1>3. g \in [1..n -> [S -> S]]
  BY <1>2
<1>4. PICK it : IsFold(it, n, S, Start, g)
  <2>. HIDE DEF n, S, g
  <2>. QED
    BY <1>1, <1>3, FoldExists
<1>5. it = [s \in SUBSET DOMAIN texts |->
              IF s = {} THEN Start ELSE ReceiveOutput(it[s \ {Max(s)}], texts[Max(s)])]
  <2>1. it \in [SUBSET (1..n) -> S]
    BY <1>4 DEF IsFold
  <2>2. ASSUME NEW s \in SUBSET (1..n)
        PROVE  it[s] = IF s = {} THEN Start ELSE ReceiveOutput(it[s \ {Max(s)}], texts[Max(s)])
    <3>1. it[s] = IF s = {} THEN Start ELSE g[Max(s)][it[s \ {Max(s)}]]
      BY <1>4 DEF IsFold
    <3>2. CASE s # {}
      <4>1. Max(s) \in 1..n
        BY <1>1, <3>2, GreatestIndex
      <4>2. it[s \ {Max(s)}] \in S
        BY <2>1
      <4>3. g[Max(s)][it[s \ {Max(s)}]] = ReceiveOutput(it[s \ {Max(s)}], texts[Max(s)])
        BY <4>1, <4>2
      <4>. QED
        BY <3>1, <3>2, <4>3
    <3>. QED
      BY <3>1, <3>2
  <2>. HIDE DEF n, S, g
  <2>. QED
    BY <1>1, <2>1, <2>2
<1>6. A = [s \in SUBSET (1..n) |->
             IF s = {} THEN Start ELSE ReceiveOutput(A[s \ {Max(s)}], texts[Max(s)])]
  <2>. HIDE DEF n
  <2>. QED
    BY <1>1, <1>5 DEF After
<1>. HIDE DEF A
<1>7. A[1..0] = Start
  <2>1. 1..0 = {} /\ {} \in SUBSET (1..n)
    OBVIOUS
  <2>. HIDE DEF n
  <2>. QED
    BY <1>6, <2>1
<1>8. ASSUME NEW k \in 1..n PROVE A[1..k] = ReceiveOutput(A[1..k - 1], texts[k])
  <2>1. 1..k \in SUBSET (1..n) /\ 1..k # {} /\ Max(1..k) = k /\ (1..k) \ {k} = 1..k - 1
    <3>. HIDE DEF n
    <3>. QED
      BY <1>1, Segments
  <2>. HIDE DEF n
  <2>2. A[1..k] = ReceiveOutput(A[(1..k) \ {Max(1..k)}], texts[Max(1..k)])
    BY <1>6, <2>1
  <2>. QED
    BY <2>1, <2>2
<1>. QED
  BY <1>7, <1>8 DEF A

(* After each output, what was yielded joins to the text of that output.     *)
Caught(acc, text) ==
  /\ acc.previousText = text
  /\ acc.yielded \in Seq(Seq(Characters))
  /\ FlattenSeq(acc.yielded) = text

(* The next output is caught up with: its delta is what was missing.         *)
LEMMA OutputCaught ==
  ASSUME NEW acc, NEW prev \in Seq(Characters), NEW text \in Seq(Characters),
         Caught(acc, prev), IsPrefix(prev, text)
  PROVE  Caught(ReceiveOutput(acc, text), text)
<1>. DEFINE delta == SubSeq(text, Len(prev) + 1, Len(text))
<1>1. delta \in Seq(Characters) /\ prev \o delta = text
  BY DeltaJoins
<1>2. /\ acc.previousText = prev /\ acc.yielded \in Seq(Seq(Characters))
      /\ FlattenSeq(acc.yielded) = prev
  BY DEF Caught
<1>3. ReceiveOutput(acc, text) =
        [previousText |-> text,
         yielded |-> IF delta = <<>> THEN acc.yielded ELSE Append(acc.yielded, delta)]
  BY <1>2 DEF ReceiveOutput
<1>. HIDE DEF delta
<1>4. CASE delta = <<>>
  <2>1. prev = text
    <3>1. prev \o <<>> = prev
      BY ConcatEmptySeq
    <3>. QED
      BY <1>1, <1>4, <3>1
  <2>. QED
    BY <1>2, <1>3, <1>4, <2>1 DEF Caught
<1>5. CASE delta # <<>>
  <2>1. Append(acc.yielded, delta) \in Seq(Seq(Characters))
    BY <1>1, <1>2
  <2>2. FlattenSeq(Append(acc.yielded, delta)) = FlattenSeq(acc.yielded) \o delta
    BY <1>1, <1>2, FlattenAppend
  <2>. QED
    BY <1>1, <1>2, <1>3, <1>5, <2>1, <2>2 DEF Caught
<1>. QED
  BY <1>4, <1>5

(* A bounded sequence is a sequence.                                         *)
LEMMA BoundedIsSeq ==
  ASSUME NEW S, NEW n \in Nat, NEW s \in BoundedSeq(S, n)
  PROVE  s \in Seq(S)
<1>1. PICK m \in 0..n : s \in [1..m -> S]
  BY DEF BoundedSeq, SeqOf
<1>2. m \in Nat
  BY <1>1
<1>. QED
  BY <1>1, <1>2, SeqDef

(* What vLLM's deltas join to is its last output.                            *)
LEMMA DeltasJoin ==
  ASSUME NEW texts \in Outputs
  PROVE  /\ VLLMYields(texts) \in Seq(Seq(Characters))
         /\ FlattenSeq(VLLMYields(texts)) = Last(texts)
<1>. DEFINE n == Len(texts)
            State(k) == After(texts)[1..k]
<1>1. texts \in Seq(Seq(Characters)) /\ n \in Nat /\ n # 0 /\ DOMAIN texts = 1..n
  <2>1. texts \in BoundedSeq(Texts, MaxLength) /\ texts # <<>>
    BY DEF Outputs
  <2>2. texts \in Seq(Texts)
    BY <2>1, LengthAssumption, BoundedIsSeq
  <2>3. Texts \subseteq Seq(Characters)
    BY LengthAssumption, BoundedIsSeq DEF Texts
  <2>4. texts \in Seq(Seq(Characters))
    BY <2>2, <2>3, SeqMonotonic
  <2>. QED
    BY <2>1, <2>4
<1>2. \A k \in 1..n : texts[k] \in Seq(Characters)
  BY <1>1
<1>3. \A k \in 2..n : IsPrefix(texts[k - 1], texts[k])
  BY DEF Outputs
<1>4. State(0) = Start /\ \A k \in 1..n : State(k) = ReceiveOutput(State(k - 1), texts[k])
  BY <1>1, AfterOutputs
<1>. DEFINE T == {k \in 0..n : Caught(State(k), IF k = 0 THEN <<>> ELSE texts[k])}
<1>. HIDE DEF State, n
<1>5. 0 \in T
  <2>1. Caught(Start, <<>>)
    BY FlattenEmpty DEF Caught, Start
  <2>. QED
    BY <1>1, <1>4, <2>1
<1>6. ASSUME NEW k \in 0..n - 1, k \in T PROVE k + 1 \in T
  <2>1. k + 1 \in 1..n /\ k + 1 # 0 /\ (k + 1) - 1 = k /\ k + 1 \in 0..n
    BY <1>1
  <2>. DEFINE prev == IF k = 0 THEN <<>> ELSE texts[k]
  <2>2. prev \in Seq(Characters) /\ IsPrefix(prev, texts[k + 1])
    <3>1. texts[k + 1] \in Seq(Characters)
      BY <1>2, <2>1
    <3>2. CASE k = 0
      <4>1. IsPrefix(<<>>, texts[k + 1])
        BY <3>1 DEF IsPrefix
      <4>. QED
        BY <3>2, <4>1
    <3>3. CASE k # 0
      <4>1. k \in 1..n /\ k + 1 \in 2..n
        BY <1>1, <3>3
      <4>. QED
        BY <1>2, <1>3, <2>1, <3>3, <4>1
    <3>. QED
      BY <3>2, <3>3
  <2>3. Caught(State(k), prev)
    BY <1>6
  <2>. HIDE DEF prev
  <2>4. Caught(ReceiveOutput(State(k), texts[k + 1]), texts[k + 1])
    BY <1>2, <2>1, <2>2, <2>3, OutputCaught
  <2>5. State(k + 1) = ReceiveOutput(State(k), texts[k + 1])
    BY <1>4, <2>1
  <2>. QED
    BY <2>1, <2>4, <2>5
<1>7. n \in T
  <2>. HIDE DEF T
  <2>1. \A k \in 0..n : k \in T
    BY <1>1, <1>5, <1>6, Induction
  <2>. QED
    BY <1>1, <2>1
<1>8. Caught(State(n), Last(texts))
  BY <1>1, <1>7 DEF Last, n
<1>9. VLLMYields(texts) = State(n).yielded
  BY <1>1, YieldsAfter DEF State
<1>. QED
  BY <1>8, <1>9 DEF Caught

-----------------------------------------------------------------------------
(* MockEngine.                                                               *)

(* The fold of Spaced: the words at a set of indices put after the first.    *)
Spacing(first, rest) ==
  CHOOSE it : it = [s \in SUBSET DOMAIN rest |->
    IF s = {} THEN first ELSE it[s \ {Max(s)}] \o <<Space>> \o rest[Max(s)]]

(* Spaced is that fold, over all words but the first.                        *)
LEMMA SpacedIsSpacing ==
  ASSUME NEW words
  PROVE  Spaced(words) = Spacing(Head(words), Tail(words))[DOMAIN Tail(words)]
  BY DEF Spaced, FoldLeft, MapThenFoldSet, Spacing, Max

(* Word by word.                                                             *)
LEMMA SpacingSteps ==
  ASSUME NEW first \in Seq(Characters), NEW rest \in Seq(Seq(Characters))
  PROVE  /\ Spacing(first, rest)[1..0] = first
         /\ \A k \in 1..Len(rest) :
              Spacing(first, rest)[1..k] = Spacing(first, rest)[1..k - 1] \o <<Space>> \o rest[k]
<1>. DEFINE n == Len(rest)
            S == Seq(Characters)
            g == [i \in 1..n |-> [v \in S |-> v \o <<Space>> \o rest[i]]]
            A == Spacing(first, rest)
<1>1. n \in Nat /\ DOMAIN rest = 1..n
  OBVIOUS
<1>2. ASSUME NEW v \in S, NEW i \in 1..n PROVE v \o <<Space>> \o rest[i] \in S
  <2>1. rest[i] \in S /\ <<Space>> \in S
    BY CharactersAssumption
  <2>2. v \o <<Space>> \in S
    BY <2>1, ConcatProperties
  <2>. QED
    BY <2>1, <2>2, ConcatProperties
<1>3. g \in [1..n -> [S -> S]]
  BY <1>2
<1>4. PICK it : IsFold(it, n, S, first, g)
  <2>. HIDE DEF n, g
  <2>. QED
    BY <1>1, <1>3, FoldExists
<1>5. it = [s \in SUBSET DOMAIN rest |->
              IF s = {} THEN first ELSE it[s \ {Max(s)}] \o <<Space>> \o rest[Max(s)]]
  <2>1. it \in [SUBSET (1..n) -> S]
    BY <1>4 DEF IsFold
  <2>2. ASSUME NEW s \in SUBSET (1..n)
        PROVE  it[s] = IF s = {} THEN first ELSE it[s \ {Max(s)}] \o <<Space>> \o rest[Max(s)]
    <3>1. it[s] = IF s = {} THEN first ELSE g[Max(s)][it[s \ {Max(s)}]]
      BY <1>4 DEF IsFold
    <3>2. CASE s # {}
      <4>1. Max(s) \in 1..n
        BY <1>1, <3>2, GreatestIndex
      <4>2. it[s \ {Max(s)}] \in S
        BY <2>1
      <4>3. g[Max(s)][it[s \ {Max(s)}]] = it[s \ {Max(s)}] \o <<Space>> \o rest[Max(s)]
        BY <4>1, <4>2
      <4>. QED
        BY <3>1, <3>2, <4>3
    <3>. QED
      BY <3>1, <3>2
  <2>. HIDE DEF n, S, g
  <2>. QED
    BY <1>1, <2>1, <2>2
<1>6. A = [s \in SUBSET (1..n) |->
             IF s = {} THEN first ELSE A[s \ {Max(s)}] \o <<Space>> \o rest[Max(s)]]
  <2>. HIDE DEF n
  <2>. QED
    BY <1>1, <1>5 DEF Spacing
<1>. HIDE DEF A
<1>7. A[1..0] = first
  <2>1. 1..0 = {} /\ {} \in SUBSET (1..n)
    OBVIOUS
  <2>. HIDE DEF n
  <2>. QED
    BY <1>6, <2>1
<1>8. ASSUME NEW k \in 1..n PROVE A[1..k] = A[1..k - 1] \o <<Space>> \o rest[k]
  <2>1. 1..k \in SUBSET (1..n) /\ 1..k # {} /\ Max(1..k) = k /\ (1..k) \ {k} = 1..k - 1
    <3>. HIDE DEF n
    <3>. QED
      BY <1>1, Segments
  <2>. HIDE DEF n
  <2>2. A[1..k] = A[(1..k) \ {Max(1..k)}] \o <<Space>> \o rest[Max(1..k)]
    BY <1>6, <2>1
  <2>. QED
    BY <2>1, <2>2
<1>. QED
  BY <1>7, <1>8 DEF A

(* Concatenation is associative.                                             *)
LEMMA Associative ==
  \A s, t, u \in Seq(Characters) : s \o (t \o u) = (s \o t) \o u
<1>. SUFFICES ASSUME NEW s \in Seq(Characters), NEW t \in Seq(Characters), NEW u \in Seq(Characters)
              PROVE  s \o (t \o u) = (s \o t) \o u
  OBVIOUS
<1>. QED
  BY SMT

(* What the first words with spaces in front of all but one join to.         *)
LEMMA WordsJoin ==
  ASSUME NEW words \in Seq(Seq(Characters)), words # <<>>,
         NEW yields, yields = [i \in DOMAIN words |-> IF i = 1 THEN words[i] ELSE <<Space>> \o words[i]]
  PROVE  yields \in Seq(Seq(Characters)) /\ FlattenSeq(yields) = Spaced(words)
<1>. DEFINE n == Len(words)
            rest == Tail(words)
            Rest(k) == Spacing(Head(words), rest)[1..k]
<1>1. n \in Nat /\ n # 0 /\ DOMAIN words = 1..n
      /\ \A i \in 1..n : words[i] \in Seq(Characters)
  OBVIOUS
<1>2. /\ Head(words) = words[1] /\ rest \in Seq(Seq(Characters)) /\ Len(rest) = n - 1
      /\ \A k \in 1..n - 1 : rest[k] = words[k + 1]
  OBVIOUS
<1>3. \A i \in 1..n : <<Space>> \o words[i] \in Seq(Characters)
  <2>1. <<Space>> \in Seq(Characters)
    BY CharactersAssumption
  <2>. QED
    BY <1>1, <2>1, ConcatProperties
<1>4. yields \in Seq(Seq(Characters)) /\ Len(yields) = n
  <2>1. yields \in [1..n -> Seq(Characters)]
    BY <1>1, <1>3
  <2>. HIDE DEF n
  <2>. QED
    BY <1>1, <2>1, SeqDef, LenProperties
<1>5. PICK f \in [0..n -> Seq(Characters)] : Joins(f, yields)
  <2>. HIDE DEF n
  <2>. QED
    BY <1>4, JoinsExist
<1>6. Rest(0) = words[1] /\ \A k \in 1..n - 1 : Rest(k) = Rest(k - 1) \o <<Space>> \o words[k + 1]
  <2>1. Head(words) \in Seq(Characters)
    BY <1>1, <1>2
  <2>. HIDE DEF n, rest
  <2>2. /\ Spacing(Head(words), rest)[1..0] = Head(words)
        /\ \A k \in 1..Len(rest) : Rest(k) = Rest(k - 1) \o <<Space>> \o rest[k]
    BY <1>2, <2>1, SpacingSteps
  <2>. QED
    BY <1>2, <2>2
<1>7. Spaced(words) = Rest(n - 1)
  <2>1. DOMAIN rest = 1..n - 1
    BY <1>2
  <2>. HIDE DEF n
  <2>. QED
    BY <2>1, SpacedIsSpacing
<1>. HIDE DEF Rest, n, rest
<1>. DEFINE T == {k \in 0..n - 1 : f[k + 1] = Rest(k)}
<1>8. \A i \in 1..n : f[i] = f[i - 1] \o yields[i] /\ f[i] \in Seq(Characters)
  <2>1. \A i \in 1..n : i \in 0..n
    OBVIOUS
  <2>. QED
    BY <1>4, <1>5, <2>1 DEF Joins
<1>9. 0 \in T
  <2>1. 1 \in 1..n /\ 1 - 1 = 0 /\ 0 + 1 = 1 /\ 0 \in 0..n - 1
    BY <1>1
  <2>2. f[1] = f[0] \o yields[1] /\ f[0] = <<>> /\ yields[1] = words[1]
    BY <1>1, <1>5, <1>8, <2>1 DEF Joins
  <2>3. <<>> \o words[1] = words[1]
    BY <1>1, <2>1, ConcatEmptySeq
  <2>. QED
    BY <1>6, <2>1, <2>2, <2>3
<1>10. ASSUME NEW k \in 0..n - 1 - 1, k \in T PROVE k + 1 \in T
  <2>1. k + 1 \in 1..n - 1 /\ (k + 1) + 1 \in 1..n /\ (k + 1) + 1 # 1 /\ k + 1 \in 1..n
        /\ ((k + 1) + 1) - 1 = k + 1 /\ (k + 1) - 1 = k
    BY <1>1
  <2>. DEFINE space == <<Space>>
              next == words[(k + 1) + 1]
  <2>2. f[(k + 1) + 1] = f[k + 1] \o (space \o next)
    BY <1>1, <1>8, <2>1
  <2>3. f[k + 1] \in Seq(Characters) /\ space \in Seq(Characters) /\ next \in Seq(Characters)
    BY <1>1, <1>8, <2>1, CharactersAssumption
  <2>4. Rest(k + 1) = (Rest(k) \o space) \o next /\ f[k + 1] = Rest(k)
    BY <1>6, <1>10, <2>1
  <2>. HIDE DEF space, next
  <2>5. f[k + 1] \o (space \o next) = (f[k + 1] \o space) \o next
    BY <2>3, Associative
  <2>6. f[(k + 1) + 1] = Rest(k + 1)
    BY <2>2, <2>4, <2>5, Zenon
  <2>. QED
    BY <1>1, <2>1, <2>6
<1>11. n - 1 \in T
  <2>. HIDE DEF T
  <2>1. n - 1 \in Nat
    BY <1>1
  <2>2. \A k \in 0..n - 1 : k \in T
    BY <1>9, <1>10, <2>1, Induction
  <2>. QED
    BY <2>1, <2>2
<1>12. FlattenSeq(yields) = f[n]
  BY <1>4, <1>5, FlattenJoins
<1>. QED
  BY <1>1, <1>4, <1>7, <1>11, <1>12

(* What MockEngine yields joins to the words it was to yield.                *)
LEMMA MockJoins ==
  ASSUME NEW words \in BoundedSeq(Words, 2) \ {<<>>}, NEW m \in 1..MaxLength
  PROVE  /\ MockYields(words, m) \in Seq(Seq(Characters))
         /\ FlattenSeq(MockYields(words, m)) = Spaced(UpTo(m, words))
<1>1. words \in Seq(Seq(Characters)) /\ words # <<>>
  <2>1. words \in Seq(Words)
    BY BoundedIsSeq
  <2>2. Words \subseteq Seq(Characters \ {Space})
    BY LengthAssumption, BoundedIsSeq DEF Words
  <2>3. Seq(Characters \ {Space}) \subseteq Seq(Characters)
    BY SeqMonotonic
  <2>4. words \in Seq(Seq(Characters))
    BY <2>1, <2>2, <2>3, SeqMonotonic
  <2>. QED
    BY <2>4
<1>. DEFINE last == IF m < Len(words) THEN m ELSE Len(words)
<1>2. last \in 1..Len(words) /\ Len(words) \in Nat
  BY <1>1, LengthAssumption
<1>3. UpTo(m, words) = SubSeq(words, 1, last)
  BY DEF UpTo
<1>. HIDE DEF last
<1>4. UpTo(m, words) \in Seq(Seq(Characters)) /\ UpTo(m, words) # <<>>
  <2>1. \A i \in 1..last : words[i] \in Seq(Characters)
    BY <1>1, <1>2
  <2>2. 1 \in Int /\ last \in Int /\ 1 <= last
    BY <1>2
  <2>3. /\ SubSeq(words, 1, last) \in Seq(Seq(Characters))
        /\ Len(SubSeq(words, 1, last)) = last - 1 + 1
    BY <2>1, <2>2, SubSeqProperties
  <2>4. last - 1 + 1 # 0
    BY <2>2
  <2>5. SubSeq(words, 1, last) # <<>>
    BY <2>3, <2>4
  <2>. QED
    BY <1>3, <2>3, <2>5
<1>. QED
  BY <1>4, WordsJoin DEF MockYields

(* Either engine's tokens join to the text it means.                         *)
LEMMA EngineText ==
  ASSUME NEW answer \in Answers
  PROVE  answer.tokens \in Seq(Seq(Characters)) /\ FlattenSeq(answer.tokens) = answer.text
<1>1. CASE \E texts \in Outputs : answer = [tokens |-> VLLMYields(texts), text |-> Last(texts)]
  <2>1. PICK texts \in Outputs : answer = [tokens |-> VLLMYields(texts), text |-> Last(texts)]
    BY <1>1
  <2>2. answer.tokens = VLLMYields(texts) /\ answer.text = Last(texts)
    BY <2>1
  <2>. QED
    BY <2>2, DeltasJoin
<1>2. CASE \E words \in BoundedSeq(Words, 2) \ {<<>>}, n \in 1..MaxLength :
             answer = [tokens |-> MockYields(words, n), text |-> Spaced(UpTo(n, words))]
  <2>1. PICK words \in BoundedSeq(Words, 2) \ {<<>>}, n \in 1..MaxLength :
               answer = [tokens |-> MockYields(words, n), text |-> Spaced(UpTo(n, words))]
    BY <1>2
  <2>2. answer.tokens = MockYields(words, n) /\ answer.text = Spaced(UpTo(n, words))
    BY <2>1
  <2>. QED
    BY <2>2, MockJoins
<1>. QED
  BY <1>1, <1>2 DEF Answers

-----------------------------------------------------------------------------
(* The text of an answer, across both gateways.                              *)

(* A sequence is what comes up to m, and what comes after.                   *)
LEMMA SuffixJoins ==
  ASSUME NEW S, NEW s \in Seq(S), NEW m \in 0..Len(s)
  PROVE  SubSeq(s, 1, m) \o [i \in 1..Len(s) - m |-> s[m + i]] = s
<1>. DEFINE n == Len(s)
            suffix == [i \in 1..n - m |-> s[m + i]]
<1>1. n \in Nat /\ m \in Nat /\ m <= n /\ \A i \in 1..n : s[i] \in S
  OBVIOUS
<1>2. SubSeq(s, 1, m) \o SubSeq(s, m + 1, n) = SubSeq(s, 1, n)
  <2>1. 1 \in 1..n + 1 /\ m \in 1 - 1..n /\ n \in m..n
    BY <1>1
  <2>. QED
    BY <2>1, ConcatAdjacentSubSeq
<1>3. SubSeq(s, 1, n) = s
  BY SubSeqFull
<1>4. SubSeq(s, m + 1, n) = suffix
  <2>1. /\ SubSeq(s, m + 1, n) \in Seq(S)
        /\ Len(SubSeq(s, m + 1, n)) = n - m
        /\ \A i \in 1..n - m : SubSeq(s, m + 1, n)[i] = s[m + i]
    <3>1. m + 1 \in Int /\ n \in Int /\ \A i \in m + 1..n : s[i] \in S
      BY <1>1
    <3>. HIDE DEF n
    <3>2. /\ SubSeq(s, m + 1, n) \in Seq(S)
          /\ Len(SubSeq(s, m + 1, n)) = IF m + 1 <= n THEN n - (m + 1) + 1 ELSE 0
          /\ \A i \in 1..n - (m + 1) + 1 : SubSeq(s, m + 1, n)[i] = s[(m + 1) + i - 1]
      BY <3>1, SubSeqProperties
    <3>3. n - (m + 1) + 1 = n - m /\ (~(m + 1 <= n) => n - m = 0)
      BY <1>1
    <3>4. \A i \in 1..n - m : (m + 1) + i - 1 = m + i
      BY <1>1
    <3>. QED
      BY <3>2, <3>3, <3>4
  <2>2. DOMAIN SubSeq(s, m + 1, n) = 1..n - m
    BY <2>1, LenProperties
  <2>3. SubSeq(s, m + 1, n) = [i \in 1..n - m |-> SubSeq(s, m + 1, n)[i]]
    BY <2>1, <2>2, LenProperties
  <2>. HIDE DEF n
  <2>. QED
    BY <2>1, <2>3
<1>. QED
  BY <1>2, <1>3, <1>4

(* A complete response that ends with [DONE] has carried every token that    *)
(* was not published too early to reach the stream.                          *)
LEMMA AllTokensReceived ==
  ASSUME TypeOK, ProxyTypeOK, EndIsMarked, DoneMeansSuffix, NEW r \in Requests,
         relay[r] = "complete", LastChunk(r).kind = "done",
         NEW S, NEW tokens \in Seq(S), Len(tokens) = produced[r]
  PROVE  Received(r, tokens) = tokens
<1>1. /\ forwarded[r] = Len(sent[r])
      /\ Len(sent[r]) - 1 = produced[r] - missed[r]
      /\ \A i \in 1..Len(sent[r]) - 1 : sent[r][i] = Token(missed[r] + i)
  BY DEF EndIsMarked, DoneMeansSuffix
<1>2. /\ sent[r] # <<>> /\ sent[r] \in Seq(Chunks) /\ Len(sent[r]) \in Nat \ {0}
      /\ produced[r] \in Nat /\ missed[r] \in Nat
  BY DEF EndIsMarked, TypeOK
<1>3. missed[r] \in 0..Len(tokens) /\ forwarded[r] - 1 = Len(tokens) - missed[r]
  BY <1>1, <1>2
<1>4. \A i \in 1..forwarded[r] - 1 : sent[r][i].token = missed[r] + i
  <2>1. \A i : Token(i).token = i
    BY DEF Token
  <2>. SUFFICES ASSUME NEW i \in 1..Len(sent[r]) - 1 PROVE sent[r][i].token = missed[r] + i
    BY <1>1
  <2>2. sent[r][i] = Token(missed[r] + i)
    BY <1>1
  <2>. QED
    BY <2>1, <2>2, Zenon
<1>5. [i \in 1..forwarded[r] - 1 |-> tokens[sent[r][i].token]]
        = [i \in 1..Len(tokens) - missed[r] |-> tokens[missed[r] + i]]
  BY <1>3, <1>4
<1>6. SubSeq(tokens, 1, missed[r]) \o [i \in 1..Len(tokens) - missed[r] |-> tokens[missed[r] + i]]
        = tokens
  BY <1>3, SuffixJoins
<1>. QED
  BY <1>5, <1>6 DEF Received

(* A client that reads [DONE] has the text the engine meant, but for the     *)
(* tokens lost before the subscription: whichever engine it was, whatever    *)
(* the length of the answer, and however the deltas were cut.                *)
THEOREM TextIsDelivered == ProxySpec => []TextArrives
<1>1. TypeOK /\ ProxyTypeOK /\ EndIsMarked /\ DoneMeansSuffix => TextArrives
  <2>. SUFFICES ASSUME TypeOK, ProxyTypeOK, EndIsMarked, DoneMeansSuffix,
                       NEW r \in Requests, relay[r] = "complete", LastChunk(r).kind = "done",
                       NEW answer \in Answers, Len(answer.tokens) = produced[r]
                PROVE  FlattenSeq(Received(r, answer.tokens)) = answer.text
    BY DEF TextArrives
  <2>1. answer.tokens \in Seq(Seq(Characters)) /\ FlattenSeq(answer.tokens) = answer.text
    BY EngineText
  <2>2. Received(r, answer.tokens) = answer.tokens
    BY <2>1, AllTokensReceived
  <2>. QED
    BY <2>1, <2>2
<1>. QED
  BY <1>1, ProxyTypeCorrect, CompleteIsMarked, Implementation, TypeCorrect, DoneIsComplete, PTL
=============================================================================
