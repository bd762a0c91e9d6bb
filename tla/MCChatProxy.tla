----------------------------- MODULE MCChatProxy -----------------------------
(* ChatProxy on the small instance the configuration gives: the answer has   *)
(* up to as many tokens as an engine yields for it.                         *)
EXTENDS ChatAnswer

CONSTANTS r1, a, sp

MCTokens == [r \in Requests |-> Len(VLLMYields(<< <<a>>, <<a>>, <<a, sp, a>> >>))]
=============================================================================
