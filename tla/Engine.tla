-------------------------------- MODULE Engine --------------------------------
(***************************************************************************)
(* What the two engines of a worker yield (worker/engine.py).  A text is a  *)
(* sequence of characters; what a generator yields is a sequence of texts,  *)
(* the tokens of TokenStream.                                               *)
(***************************************************************************)
EXTENDS Integers, Sequences, SequencesExt

CONSTANTS
  Characters,  \* of which Space is one
  Space,
  MaxLength    \* bound on the texts and lists that are considered

ASSUME CharactersAssumption == Space \in Characters
ASSUME LengthAssumption == MaxLength \in Nat

UpTo(n, words) == SubSeq(words, 1, IF n < Len(words) THEN n ELSE Len(words))

(* MockEngine: the first maxTokens words of a response that was split at     *)
(* its spaces, which go in front of all but the first.                      *)
MockYields(words, maxTokens) ==
  LET tokens == UpTo(maxTokens, words) IN
  [i \in DOMAIN tokens |-> IF i = 1 THEN tokens[i] ELSE <<Space>> \o tokens[i]]

(* Mutant: the length of the last delta is taken for that of the text.       *)
MutReceiveOutput(state, newText) ==
  LET delta == SubSeq(newText, Len(state.previousText) + 1, Len(newText)) IN
  [previousText |-> delta,
   yielded |-> IF delta = <<>> THEN state.yielded ELSE Append(state.yielded, delta)]

(* VLLMEngine, one output: its text is the whole answer so far.              *)
ReceiveOutput(state, newText) ==
  LET delta == SubSeq(newText, Len(state.previousText) + 1, Len(newText)) IN
  [previousText |-> newText,
   yielded |-> IF delta = <<>> THEN state.yielded ELSE Append(state.yielded, delta)]

VLLMYields(texts) ==
  FoldLeft(ReceiveOutput, [previousText |-> <<>>, yielded |-> <<>>], texts).yielded

-----------------------------------------------------------------------------
Texts == BoundedSeq(Characters, MaxLength)
Words == BoundedSeq(Characters \ {Space}, MaxLength) \ {<<>>}

(* What vLLM promises: each output extends the one before.                   *)
Outputs ==
  {texts \in BoundedSeq(Texts, MaxLength) \ {<<>>} :
     \A i \in 2..Len(texts) : IsPrefix(texts[i - 1], texts[i])}

(* The words of a response, put together again.                              *)
Spaced(words) == FoldLeft(LAMBDA text, word : text \o <<Space>> \o word, Head(words), Tail(words))

(* What an engine may answer: what it yields, and the text that is meant.    *)
Answers ==
  {[tokens |-> VLLMYields(texts), text |-> Last(texts)] : texts \in Outputs}
    \cup {[tokens |-> MockYields(words, n), text |-> Spaced(UpTo(n, words))] :
            words \in BoundedSeq(Words, 2) \ {<<>>}, n \in 1..MaxLength}
=============================================================================
