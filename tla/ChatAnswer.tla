------------------------------ MODULE ChatAnswer ------------------------------
(***************************************************************************)
(* The answer of a chat request from the engine to the client: ChatProxy    *)
(* with the tokens an engine yields (Engine).                               *)
(***************************************************************************)
EXTENDS ChatProxy, Engine

(* What the client was given of an answer, after what was published before   *)
(* the subscription and lost.                                               *)
Received(r, tokens) ==
  SubSeq(tokens, 1, missed[r])
    \o [i \in 1..forwarded[r] - 1 |-> tokens[sent[r][i].token]]

(* A client that reads [DONE] has the text of what was published, but for the *)
(* tokens lost before the subscription: the deltas cut at                   *)
(* len(previous_text), published one by one and forwarded through both      *)
(* gateways, join to the engine's text without a character lost or repeated *)
(* (VLLMEngine.generate, MockEngine.generate).  vLLM's outputs are taken to  *)
(* extend each other; if the engine failed without a message, this is the   *)
(* text it had got to.                                                      *)
TextArrives ==
  \A r \in Requests : relay[r] = "complete" /\ LastChunk(r).kind = "done" =>
    \A answer \in Answers : Len(answer.tokens) = produced[r] =>
      FlattenSeq(Received(r, answer.tokens)) = answer.text
=============================================================================
