----------------------- MODULE MCKeywordConfiguration -----------------------
(* Words asked for with and without aliases, twice, blank and unspeakable; *)
(* a vocabulary that lacks characters of them; every lexicon of up to      *)
(* three lines out of seven.                                               *)
EXTENDS KeywordConfiguration

Dasheng == <<"big", "saint">>

MCTokens == <<<<"blank">>, <<"big">>, <<"sky">>, <<"thing">>, <<"five">>>>

MCTokenFiles ==
  {Missing, MCTokens, Tail(MCTokens), [MCTokens EXCEPT ![5] = <<"sky">>]}

Entry(word, pieces) == [word |-> word, pieces |-> pieces]

MCEntries ==
  {Entry(Wukong, <<<<"thing">>, <<"sky">>>>), Entry(<<"saint">>, <<<<"thing">>>>),
   Entry(<<"saint">>, <<<<"big">>, <<"ghost">>>>), Entry(<<"dance">>, <<<<"five">>>>),
   Entry(<<"dance", "sky">>, <<>>), Entry(<<"sky">>, <<<<"ghost">>>>),
   Entry(<<"martial">>, <<<<"five">>, <<"five">>>>)}

MCLexicons == {Missing} \union BoundedSeq(MCEntries, 3)

MCCsvs ==
  {<<Dasheng, Wukong>>, <<Wukong, <<" ">>, <<" ", "five", "sky", " ">>, Wukong>>,
   <<<<"dance", "sky">>, Dasheng>>, <<<<>>>>, <<<<"sky">>>>}
=============================================================================
