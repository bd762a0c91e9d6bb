---------------------------- MODULE MCPromptCache ----------------------------
(* PromptCache on the small instance the configuration gives.                *)
EXTENDS PromptCache, TLC

CONSTANTS t1, k1, p1, p2, r1, r2, r3, x

Line(saying) == [tags |-> <<>>, says |-> saying]

(* A prompt of one line, one of two, and none.                              *)
MCNoPrompt == <<Line(Nothing)>>
MCOneLine == <<Line(p1)>>
MCConfigs == {MCOneLine, <<Line(p2), Line(x)>>, MCNoPrompt}

(* A default tenant with a prompt.                                          *)
MCSeeds == << [tenant |-> t1, key |-> k1, config |-> MCOneLine] >>

(* Up to two messages, by anyone in any order, of a line, of two, or of two   *)
(* of which the second begins like a turn.                                  *)
MCSayings == {p1, p2, x, Nothing}
MCContents ==
  {<<Line(x)>>, <<Line(x), Line(x)>>, <<Line(x), [tags |-> <<"user">>, says |-> x]>>}
MCTurns == [role : Roles, content : MCContents]
MCConversations == UNION {[1..n -> MCTurns] : n \in 0..2}

Symmetry == Permutations({r1, r2, r3})
=============================================================================
