------------------------------ MODULE ChatProxy ------------------------------
(***************************************************************************)
(* The API Gateway's half of a response: _proxy_sse_stream                  *)
(* (api_gateway/main.py) posts an admitted chat request to the Inference    *)
(* Gateway and forwards the bytes of the answer.  The Inference Gateway and *)
(* the worker are TokenStream's; its client is the proxy here.  A chunk is  *)
(* forwarded whole: how aiter_text cuts the text does not show in it.       *)
(*                                                                         *)
(* The proxy's own response has begun before the request is posted, so the  *)
(* chat client learns of a failure only by what the stream says, or by      *)
(* being cut off.                                                           *)
(***************************************************************************)
EXTENDS TokenStream

CONSTANT MaxBreaks  \* bound on failures of the connections between the gateways

ASSUME BreaksAssumption == MaxBreaks \in Nat

VARIABLES
  relay,      \* relay[r]: where the generator of r is, or how the response ended
  forwarded,  \* forwarded[r]: how many of the chunks sent[r] the client was given
  raised,     \* the streams of the Inference Gateway that end with an exception
  stalled,    \* the connections that were lost without either end being told
  breaks      \* failures of connections so far (bounded by MaxBreaks)

proxyVars == <<relay, forwarded, raised, stalled, breaks>>
allVars == <<vars, proxyVars>>

Relaying(r) == relay[r] \in {"posting", "reading"}

Broken == breaks < MaxBreaks /\ breaks' = breaks + 1

(* The connection between the gateways is no more.                           *)
HungUp(r) == relay[r] \in {"cut", "left"}

(* The generator of the Inference Gateway ran to its end, and with it the    *)
(* body of its response; or it raised, and the body stops short of its end.  *)
BodyComplete(r) == sse[r] = "closed" /\ r \notin raised
BodyCut(r) == sse[r] \in {"aborted", "leaked"} \/ (sse[r] = "closed" /\ r \in raised)

Chat(r) ==
  /\ relay[r] = "new"
  /\ relay' = [relay EXCEPT ![r] = "posting"]
  /\ UNCHANGED <<vars, forwarded, raised, stalled, breaks>>

(* The request reaches the Inference Gateway, even one whose sender has left *)
(* meanwhile.                                                               *)
Post(r) == relay[r] \in {"posting", "cut", "left"} /\ Enqueue(r) /\ UNCHANGED proxyVars

(* ConnectError: nothing was posted.                                         *)
ConnectFails(r) ==
  /\ relay[r] = "posting"
  /\ sse[r] = "new"
  /\ Broken
  /\ relay' = [relay EXCEPT ![r] = "unavailable"]
  /\ UNCHANGED <<vars, forwarded, raised, stalled>>

(* A status other than 200 is an error chunk; 200 is a body to read.         *)
Respond(r) ==
  /\ relay[r] = "posting"
  /\ sse[r] # "new"
  /\ relay' = [relay EXCEPT ![r] = IF sse[r] = "refused" THEN "upstreamError" ELSE "reading"]
  /\ UNCHANGED <<vars, forwarded, raised, stalled, breaks>>

(* Mutant: reading goes on when there is nothing to read.                    *)
MutForward(r) ==
  /\ relay[r] = "reading"
  /\ forwarded' = [forwarded EXCEPT ![r] = @ + 1]
  /\ UNCHANGED <<vars, relay, raised, stalled, breaks>>

Forward(r) ==
  /\ relay[r] = "reading"
  /\ forwarded[r] < Len(sent[r])
  /\ forwarded' = [forwarded EXCEPT ![r] = @ + 1]
  /\ UNCHANGED <<vars, relay, raised, stalled, breaks>>

EndOfBody(r) ==
  /\ relay[r] = "reading"
  /\ BodyComplete(r) /\ forwarded[r] = Len(sent[r])
  /\ relay' = [relay EXCEPT ![r] = "complete"]
  /\ UNCHANGED <<vars, forwarded, raised, stalled, breaks>>

(* Mutant: a body cut short is taken for one that ended.                     *)
MutCutOff(r) ==
  /\ relay[r] = "reading"
  /\ BodyCut(r) /\ forwarded[r] = Len(sent[r])
  /\ relay' = [relay EXCEPT ![r] = "complete"]
  /\ UNCHANGED <<vars, forwarded, raised, stalled, breaks>>

(* Mutant: the end of a body that is not complete is waited for.             *)
MutCutOffLate(r) ==
  /\ relay[r] = "reading"
  /\ BodyCut(r) /\ sse[r] = "closed" /\ forwarded[r] = Len(sent[r])
  /\ relay' = [relay EXCEPT ![r] = "cut"]
  /\ UNCHANGED <<vars, forwarded, raised, stalled, breaks>>

(* The body is cut short: an httpx error other than ConnectError leaves the  *)
(* generator, and the client is cut off.                                    *)
CutOff(r) ==
  /\ relay[r] = "reading"
  /\ BodyCut(r) /\ forwarded[r] = Len(sent[r])
  /\ relay' = [relay EXCEPT ![r] = "cut"]
  /\ UNCHANGED <<vars, forwarded, raised, stalled, breaks>>

(* Mutant: every httpx error is answered like a ConnectError.                *)
MutBreak(r) ==
  /\ Relaying(r)
  /\ Broken
  /\ relay' = [relay EXCEPT ![r] = "unavailable"]
  /\ UNCHANGED <<vars, forwarded, raised, stalled>>

(* The connection between the gateways breaks: likewise.                     *)
Break(r) ==
  /\ Relaying(r)
  /\ Broken
  /\ relay' = [relay EXCEPT ![r] = "cut"]
  /\ UNCHANGED <<vars, forwarded, raised, stalled>>

(* The connection is lost and nobody is told: without a timeout              *)
(* (AsyncClient(timeout=None)) the generator waits on.                       *)
Stall(r) ==
  /\ Relaying(r)
  /\ Broken
  /\ stalled' = stalled \cup {r}
  /\ UNCHANGED <<vars, relay, forwarded, raised>>

(* CancelledError: the connection to the Inference Gateway is closed.        *)
Leave(r) ==
  /\ Relaying(r)
  /\ relay' = [relay EXCEPT ![r] = "left"]
  /\ UNCHANGED <<vars, forwarded, raised, stalled, breaks>>

(* The Inference Gateway notices, and cancels its generator.                 *)
HangUp(r) ==
  /\ HungUp(r) /\ Disconnect(r)
  /\ raised' = raised \cup {r}
  /\ UNCHANGED <<relay, forwarded, stalled, breaks>>

-----------------------------------------------------------------------------
(* What the two gateways do by themselves; the proxy, as long as anything    *)
(* reaches it.                                                              *)
ProxyStep(r) ==
  r \notin stalled /\ (Respond(r) \/ Forward(r) \/ EndOfBody(r) \/ CutOff(r))

GatewayStep(r) ==
  /\ StreamStep(r)
  /\ raised' = IF ReadFails(r) THEN raised \cup {r} ELSE raised
  /\ UNCHANGED <<relay, forwarded, stalled, breaks>>

(* TokenStream's other steps, but for the two the proxy has a part in.       *)
BackendStep(r) ==
  /\ \/ WorkerNext(r) \/ SubscribeFails(r) \/ SubscribeTakesEffect(r)
     \/ ConnectionLost(r) \/ CleanupFails(r)
  /\ UNCHANGED proxyVars

ProxyInit ==
  /\ Init
  /\ relay = [r \in Requests |-> "new"]
  /\ forwarded = [r \in Requests |-> 0]
  /\ raised = {}
  /\ stalled = {}
  /\ breaks = 0

ProxyNext ==
  \/ \E r \in Requests :
       \/ Chat(r) \/ Post(r) \/ ProxyStep(r) \/ GatewayStep(r) \/ BackendStep(r)
       \/ ConnectFails(r) \/ Break(r) \/ Stall(r) \/ Leave(r) \/ HangUp(r)
  \/ (TakeConnection \/ ReturnConnection) /\ UNCHANGED proxyVars

ProxySpec == ProxyInit /\ [][ProxyNext]_allVars

(* Both event loops go on, Redis answers a stream or raises, and a           *)
(* connection that is not lost delivers.  Of infer nothing is assumed before *)
(* it has answered: it awaits other services without a timeout of its own.   *)
FairProxySpec ==
  /\ ProxySpec
  /\ \A r \in Requests : WF_allVars(GatewayStep(r)) /\ WF_allVars(ProxyStep(r))

-----------------------------------------------------------------------------
ProxyTypeOK ==
  /\ relay \in [Requests -> {"new", "posting", "reading", "complete", "unavailable",
                             "upstreamError", "cut", "left"}]
  /\ forwarded \in [Requests -> Nat]
  /\ \A r \in Requests : forwarded[r] <= Len(sent[r])
  /\ raised \subseteq Requests /\ stalled \subseteq Requests
  /\ breaks \in 0..MaxBreaks

(* A response that was not cut off, and whose client did not leave, has all  *)
(* of its stream and, last, an ending: two streams in a row go wrong in any  *)
(* way, and none is taken for over before its ending (_proxy_sse_stream).    *)
(* What the ending is worth is another matter: [DONE] also follows lost      *)
(* tokens (DoneMeansAll), and an engine's failure that has no message.       *)
EndIsMarked ==
  \A r \in Requests : relay[r] = "complete" =>
    /\ forwarded[r] = Len(sent[r]) /\ sent[r] # <<>>
    /\ LastChunk(r).kind \in {"done", "error", "timeout"}

(* A client told "Inference service unavailable" was told nothing else, and  *)
(* its request was not queued and never will be: it may be sent again        *)
(* without being run twice (the ConnectError clause).                        *)
UnavailableMeansUnsent ==
  \A r \in Requests : relay[r] = "unavailable" =>
    forwarded[r] = 0 /\ sse[r] = "new" /\ job[r] = "none"

(* What the client of a request has been given so far.                       *)
Given(r) == SubSeq(sent[r], 1, forwarded[r])

Response ==
  INSTANCE ChatResponse WITH
    written <- produced, lost <- missed,
    heard <- [r \in Requests |-> Given(r)],
    state <- [r \in Requests |-> IF Relaying(r) THEN "open" ELSE relay[r]]

(* Seen by its client, a response is one of ChatResponse: the two gateways,  *)
(* the channel and the worker together lose a first part of the answer at   *)
(* most, in no step say anything twice, out of order or after an end, and    *)
(* never say [DONE] of an answer that goes on.                              *)
RefinesResponse == Response!Spec

(* Once the Inference Gateway has answered, a response comes to an end,      *)
(* however the worker, the stream and the connections fail, provided that    *)
(* Redis answers or raises, and unless the connection between the gateways   *)
(* is lost without a sign: no timeout is set on it                          *)
(* (AsyncClient(timeout=None)), and the deadline behind it is of no use then.*)
ResponseEnds ==
  \A r \in Requests : Relaying(r) /\ sse[r] # "new" ~> ~Relaying(r) \/ r \in stalled
=============================================================================
