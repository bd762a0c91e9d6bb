----------------------------- MODULE ChatResponse -----------------------------
(***************************************************************************)
(* What the platform promises the client of a chat request, whatever the    *)
(* worker, Redis pub/sub and the two gateways do underneath: the answer is  *)
(* written token by token; a first part of it may be lost; of the rest the  *)
(* client hears one token after the other, up to a mark; [DONE] is heard    *)
(* after the last token only, and no more is written after it, though the   *)
(* engine may have meant to; a response that ends by itself ends with a     *)
(* mark, and nothing follows an end.                                       *)
(***************************************************************************)
EXTENDS Naturals, Sequences

CONSTANT Requests

VARIABLES
  written,  \* written[r]: tokens of the answer there are
  lost,     \* lost[r]: the first of them, which nobody will hear
  heard,    \* heard[r]: the tokens and the mark the client was given
  state     \* state[r]: of the response

vars == <<written, lost, heard, state>>

Token(i) == [kind |-> "token", token |-> i]
Mark(k) == [kind |-> k, token |-> 0]

Position(r) == lost[r] + Len(heard[r])

Marked(r) == heard[r] # <<>> /\ heard[r][Len(heard[r])].kind # "token"
Done(r) == heard[r] # <<>> /\ heard[r][Len(heard[r])].kind = "done"

Init ==
  /\ written = [r \in Requests |-> 0]
  /\ lost = [r \in Requests |-> 0]
  /\ heard = [r \in Requests |-> <<>>]
  /\ state = [r \in Requests |-> "new"]

Move(r, s) == state' = [state EXCEPT ![r] = s] /\ UNCHANGED <<written, lost, heard>>

Begin(r) == state[r] = "new" /\ Move(r, "open")

(* One more token; lost, if all before it were.                              *)
Write(r) ==
  /\ state[r] \notin {"new", "unavailable"} /\ ~Done(r)
  /\ written' = [written EXCEPT ![r] = @ + 1]
  /\ \/ UNCHANGED lost
     \/ lost[r] = written[r] /\ lost' = [lost EXCEPT ![r] = @ + 1]
  /\ UNCHANGED <<heard, state>>

Hear(r, chunk) ==
  /\ state[r] = "open" /\ ~Marked(r)
  /\ heard' = [heard EXCEPT ![r] = Append(@, chunk)]
  /\ UNCHANGED <<written, lost, state>>

HearToken(r) == Position(r) < written[r] /\ Hear(r, Token(Position(r) + 1))
HearDone(r) == Position(r) = written[r] /\ Hear(r, Mark("done"))
HearFailure(r) == \E k \in {"error", "timeout"} : Hear(r, Mark(k))

(* The response ends with a mark, ...                                        *)
Complete(r) == state[r] = "open" /\ Marked(r) /\ Move(r, "complete")

(* ... or nothing was heard and the request was not accepted, ...            *)
Refuse(r) == state[r] = "open" /\ heard[r] = <<>> /\ Move(r, "upstreamError")

(* ... or it did not even arrive, and never will, ...                        *)
Reject(r) ==
  state[r] = "open" /\ heard[r] = <<>> /\ written[r] = 0 /\ Move(r, "unavailable")

(* ... or it is cut off, or its client leaves.                               *)
CutShort(r) == state[r] = "open" /\ \E s \in {"cut", "left"} : Move(r, s)

Next ==
  \E r \in Requests :
    \/ Begin(r) \/ Write(r) \/ HearToken(r) \/ HearDone(r) \/ HearFailure(r)
    \/ Complete(r) \/ Refuse(r) \/ Reject(r) \/ CutShort(r)

Spec == Init /\ [][Next]_vars
=============================================================================
