---------------------------- MODULE MCTokenStream ----------------------------
(* TokenStream on the small instances the configurations give.               *)
EXTENDS TokenStream, TLC

CONSTANTS r1, r2

(* One answer of up to two tokens, the others without any.                   *)
MCMaxTokens == [r \in Requests |-> IF r = r1 THEN 2 ELSE 0]
=============================================================================
