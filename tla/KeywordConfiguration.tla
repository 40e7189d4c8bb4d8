------------------------ MODULE KeywordConfiguration ------------------------
(***************************************************************************)
(* From the words of --keyword to the token ids the decoder looks for:     *)
(* the string helpers of common.cc and KeywordDecoder::Load, with the two  *)
(* files it reads, missing, damaged or with any lines in any order.        *)
(*                                                                         *)
(* A string is a sequence of characters; a character stands for its UTF-8  *)
(* bytes and is named in English. One step is one line of the lexicon, or  *)
(* one keyword.                                                            *)
(***************************************************************************)
EXTENDS Integers, Sequences, SequencesExt

CONSTANTS
  Missing,    \* a file that cannot be opened
  TokenFiles, \* bound: contents of tokens_2599.txt, a word a line, or Missing
  Lexicons,   \* bound: contents of lexicon.txt, or Missing
  Csvs,       \* bound: values of --keyword, cut at the commas
  VocabSize   \* kVocabSize

Space == " "
Blank == 0

ASSUME FileAssumption ==
  /\ VocabSize \in Nat \ {0}
  /\ \A file \in TokenFiles \ {Missing} : file \in Seq(Seq(STRING))
  /\ \A file \in Lexicons \ {Missing} :
       file \in Seq([word : Seq(STRING), pieces : Seq(Seq(STRING))])
  /\ \A csv \in Csvs : csv \in Seq(Seq(STRING))

VARIABLES
  pc,                  \* "tokens", "lexicon", "build", "ready" or "refused"
  csv, token_file, lexicon_file, \* the inputs
  line,                \* lines of the lexicon read so far
  token_to_id, lexicon, \* the maps
  todo,                \* keywords BuildKeywordTokenIds has not seen yet
  keyword_token_ids, searchable_token_ids

inputs == <<csv, token_file, lexicon_file>>
vars == <<pc, inputs, line, token_to_id, lexicon, todo, keyword_token_ids, searchable_token_ids>>

Init ==
  /\ csv \in Csvs /\ token_file \in TokenFiles /\ lexicon_file \in Lexicons
  /\ pc = "tokens" /\ line = 0 /\ todo = <<>>
  /\ token_to_id = <<>> /\ lexicon = <<>> /\ keyword_token_ids = <<>>
  /\ searchable_token_ids = {}

Put(map, key, value) == [k \in DOMAIN map \union {key} |-> IF k = key THEN value ELSE map[k]]

-----------------------------------------------------------------------------
(* common.cc *)

(* find_first_not_of and find_last_not_of; nothing is left of blanks.      *)
Trim(item) ==
  LET letters == {i \in DOMAIN item : item[i] # Space}
  IN  IF letters = {} THEN <<>> ELSE SubSeq(item, Min(letters), Max(letters))

SplitCsv(items) ==
  LET Kept(word) == IF word = <<>> THEN <<>> ELSE <<word>>
  IN  FlattenSeq([i \in DOMAIN items |-> Kept(Trim(items[i]))])

Utf8Chars(word) == [i \in DOMAIN word |-> <<word[i]>>]

Wukong == <<"awake", "sky">>

kAlias ==
  [word \in {Wukong} |->
     <<<<"martial", "sky">>, <<"five", "sky">>, <<"noon", "sky">>, <<"dance", "sky">>>>]

(* A word, and what it may be heard as. *)
WithAliases(word) == <<word>> \o IF word \in DOMAIN kAlias THEN kAlias[word] ELSE <<>>

(* Each word is added when it is seen for the first time. *)
ExpandKeywords(items) ==
  LET words == SplitCsv(items)
      added == FlattenSeq([i \in DOMAIN words |-> WithAliases(words[i])])
      out[n \in 0 .. Len(added)] ==
        IF n = 0 THEN <<>>
        ELSE IF Contains(out[n - 1], added[n]) THEN out[n - 1] ELSE Append(out[n - 1], added[n])
  IN  out[Len(added)]

(* Mutation: one alias is left out of the second table.                    *)
kWukongAliases_OneLess == {<<"martial", "sky">>, <<"five", "sky">>, <<"noon", "sky">>}

kWukongAliases ==
  {<<"martial", "sky">>, <<"five", "sky">>, <<"noon", "sky">>, <<"dance", "sky">>}

DisplayName(keyword) == IF keyword \in kWukongAliases THEN Wukong ELSE keyword

-----------------------------------------------------------------------------
(* kws_engine.cc *)

LoadTokens ==
  /\ pc = "tokens"
  /\ IF token_file = Missing \/ Len(token_file) # VocabSize
     THEN pc' = "refused" /\ UNCHANGED token_to_id
     ELSE /\ token_to_id' = [token \in ToSet(token_file) |->
                               Max({i \in DOMAIN token_file : token_file[i] = token}) - 1]
          /\ pc' = "lexicon"
  /\ UNCHANGED <<inputs, line, lexicon, todo, keyword_token_ids, searchable_token_ids>>

(* Mutation: the characters of the keywords are not wanted themselves.     *)
Wanted_WordsOnly == ToSet(ExpandKeywords(csv))

Wanted ==
  LET expanded == ToSet(ExpandKeywords(csv))
  IN  expanded \union UNION {ToSet(Utf8Chars(keyword)) : keyword \in expanded}

OpenLexicon ==
  /\ pc = "lexicon" /\ lexicon_file = Missing
  /\ pc' = "refused"
  /\ UNCHANGED <<inputs, line, token_to_id, lexicon, todo, keyword_token_ids, searchable_token_ids>>

(* A later line for the same word takes the place of an earlier one.       *)
ReadLexiconLine ==
  /\ pc = "lexicon" /\ lexicon_file # Missing /\ line < Len(lexicon_file)
  /\ line' = line + 1
  /\ LET entry == lexicon_file[line'] IN
     lexicon' = IF entry.word \in Wanted THEN Put(lexicon, entry.word, entry.pieces) ELSE lexicon
  /\ UNCHANGED <<pc, inputs, token_to_id, todo, keyword_token_ids, searchable_token_ids>>

LexiconEnd ==
  /\ pc = "lexicon" /\ lexicon_file # Missing /\ line = Len(lexicon_file)
  /\ todo' = ExpandKeywords(csv)
  /\ keyword_token_ids' = <<>> /\ searchable_token_ids' = {Blank}
  /\ pc' = "build"
  /\ UNCHANGED <<inputs, line, token_to_id, lexicon>>

(* The entry of the whole word, or else, character by character, the token *)
(* itself, the character's entry, or the character nobody knows.           *)
ResolveAcousticPieces(entries, keyword) ==
  LET PiecesOf(ch) ==
        IF ch \in DOMAIN token_to_id \/ ch \notin DOMAIN entries THEN <<ch>> ELSE entries[ch]
  IN  IF keyword \in DOMAIN entries
      THEN entries[keyword]
      ELSE FlattenSeq([i \in DOMAIN keyword |-> PiecesOf(Utf8Chars(keyword)[i])])

Known(pieces) == \A i \in DOMAIN pieces : pieces[i] \in DOMAIN token_to_id

Ids(pieces) == [i \in DOMAIN pieces |-> token_to_id[pieces[i]]]

(* Mutation: the set of searchable tokens is begun anew for each keyword.  *)
BuildKeyword_SearchableAnew ==
  LET keyword == Head(todo)
      pieces == ResolveAcousticPieces(lexicon, keyword)
      found == Max({n \in 0 .. Len(pieces) : Known(SubSeq(pieces, 1, n))})
  IN
  /\ pc = "build" /\ todo # <<>>
  /\ searchable_token_ids' = {Blank} \union ToSet(Ids(SubSeq(pieces, 1, found)))
  /\ keyword_token_ids' = IF found = Len(pieces) /\ pieces # <<>>
                          THEN Put(keyword_token_ids, keyword, Ids(pieces))
                          ELSE keyword_token_ids
  /\ todo' = Tail(todo)
  /\ UNCHANGED <<pc, inputs, line, token_to_id, lexicon>>

(* One keyword of BuildKeywordTokenIds. An unknown piece drops the keyword *)
(* but leaves the tokens before it searchable.                             *)
BuildKeyword ==
  LET keyword == Head(todo)
      pieces == ResolveAcousticPieces(lexicon, keyword)
      found == Max({n \in 0 .. Len(pieces) : Known(SubSeq(pieces, 1, n))})
  IN
  /\ pc = "build" /\ todo # <<>>
  /\ searchable_token_ids' = searchable_token_ids \union ToSet(Ids(SubSeq(pieces, 1, found)))
  /\ keyword_token_ids' = IF found = Len(pieces) /\ pieces # <<>>
                          THEN Put(keyword_token_ids, keyword, Ids(pieces))
                          ELSE keyword_token_ids
  /\ todo' = Tail(todo)
  /\ UNCHANGED <<pc, inputs, line, token_to_id, lexicon>>

(* Mutation: an engine without a keyword starts all the same.              *)
BuildEnd_Always ==
  /\ pc = "build" /\ todo = <<>>
  /\ pc' = "ready"
  /\ UNCHANGED <<inputs, line, token_to_id, lexicon, todo, keyword_token_ids, searchable_token_ids>>

BuildEnd ==
  /\ pc = "build" /\ todo = <<>>
  /\ pc' = IF keyword_token_ids = <<>> THEN "refused" ELSE "ready"
  /\ UNCHANGED <<inputs, line, token_to_id, lexicon, todo, keyword_token_ids, searchable_token_ids>>

Done == pc \in {"ready", "refused"} /\ UNCHANGED vars

Next ==
  LoadTokens \/ OpenLexicon \/ ReadLexiconLine \/ LexiconEnd \/ BuildKeyword \/ BuildEnd \/ Done

Spec == Init /\ [][Next]_vars
-----------------------------------------------------------------------------
(* The lexicon as the file has it, without LoadLexicon's filter. *)
FullLexicon ==
  [word \in {lexicon_file[i].word : i \in DOMAIN lexicon_file} |->
     lexicon_file[Max({i \in DOMAIN lexicon_file : lexicon_file[i].word = word})].pieces]

FullPieces(keyword) == ResolveAcousticPieces(FullLexicon, keyword)

Detectable ==
  {keyword \in ToSet(ExpandKeywords(csv)) :
     FullPieces(keyword) # <<>> /\ Known(FullPieces(keyword))}

(* Loading only the lines that are wanted changes nothing: the keywords    *)
(* and their tokens are those the whole lexicon gives, and a keyword that  *)
(* cannot be spelled costs no other keyword (kws_engine.cc:194).           *)
FilterHarmless ==
  pc = "ready" =>
    /\ DOMAIN keyword_token_ids = Detectable
    /\ \A keyword \in Detectable : keyword_token_ids[keyword] = Ids(FullPieces(keyword))

(* What the decoder takes for granted (TokenAssumption of KeywordDecoder): *)
(* there is a keyword, none is empty, and the search lets every token of   *)
(* every keyword, and the blank, through.                                  *)
DecoderUsable ==
  pc = "ready" =>
    /\ keyword_token_ids # <<>> /\ Blank \in searchable_token_ids
    /\ \A keyword \in DOMAIN keyword_token_ids :
         /\ keyword_token_ids[keyword] # <<>>
         /\ ToSet(keyword_token_ids[keyword]) \subseteq searchable_token_ids

(* The words a keyword is a spoken variant of. *)
Meanings(keyword) == {word \in DOMAIN kAlias : keyword \in ToSet(kAlias[word])}

(* What can be detected is shown as what it means (common.h:48): a spoken  *)
(* variant as the word it is a variant of, also where the variant was      *)
(* asked for and that word was not, and any other keyword as itself. And   *)
(* nothing can be detected but what was asked for and its variants.        *)
ShownAsMeant ==
  LET asked == ToSet(SplitCsv(csv)) IN
  pc = "ready" =>
    \A keyword \in DOMAIN keyword_token_ids :
      /\ IF Meanings(keyword) = {}
         THEN DisplayName(keyword) = keyword
         ELSE DisplayName(keyword) \in Meanings(keyword)
      /\ keyword \in asked \/ DisplayName(keyword) \in asked

(* The engine starts unless a file is missing or damaged or no keyword at  *)
(* all can be spelled.                                                     *)
RefusedForCause ==
  (pc \in {"ready", "refused"} /\ token_file # Missing /\ lexicon_file # Missing) =>
    (pc = "ready" <=> Len(token_file) = VocabSize /\ Detectable # {})
=============================================================================
