-------------------------- MODULE MCKeywordDecoder --------------------------
(***************************************************************************)
(* Small instances of KeywordDecoder: the blank, two tokens the keywords   *)
(* are made of and one that no keyword uses; probabilities in tenths.      *)
(***************************************************************************)
EXTENDS KeywordDecoder

MCTokens == 0 .. 3
MCSearchable == 0 .. 2

Row(blank, one, two, other) ==
  [t \in MCTokens |-> CASE t = 0 -> blank [] t = 1 -> one [] t = 2 -> two [] OTHER -> other]

(* A pause, a frame between two tokens, each token clearly, and a frame of *)
(* other speech, whose candidates are all dropped.                         *)
MCRows ==
  {Row(6, 3, 1, 0), Row(1, 4, 4, 1), Row(2, 8, 0, 0), Row(3, 0, 6, 1), Row(1, 0, 0, 9)}

(* Words of two tokens, one of them a repeated token.                      *)
MCKeywords == <<<<1, 1>>, <<1, 2>>>>

(* Other speech, in which the blank and the first token are barely heard:  *)
(* parts of 50, so 2 % each, above kMinTokenProb.                          *)
MCFaintRows == {Row(1, 1, 0, 48)}

ShippedTolerance == 1000000
=============================================================================
