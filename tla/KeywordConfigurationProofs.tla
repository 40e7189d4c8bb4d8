---------------------- MODULE KeywordConfigurationProofs ----------------------
(***************************************************************************)
(* Theorems about KeywordConfiguration for every lexicon, every vocabulary *)
(* and all keywords. LexiconInv says what the lines read so far have left  *)
(* in the lexicon, BuildInv what has become of the keywords seen so far.   *)
(***************************************************************************)
EXTENDS KeywordConfiguration, NumberLemmas, SequenceTheorems, TLAPS

(* The prover does not know that a literal is a string. *)
Character == STRING \union {"martial", "five", "noon", "dance", "sky"}

Word == Seq(Character)

LEMMA WordsOfStrings == Seq(STRING) \subseteq Word /\ Seq(Seq(STRING)) \subseteq Seq(Word)
<1>1. ASSUME NEW S, NEW T, S \subseteq T
      PROVE  Seq(S) \subseteq Seq(T)
  BY <1>1, SeqMonotonic
<1>2. Seq(STRING) \subseteq Word
  BY <1>1 DEF Word, Character
<1>3. QED
  BY <1>1, <1>2

LEMMA MaxIsGreatest ==
  ASSUME NEW n \in Nat, NEW S, S \subseteq 0 .. n, S # {}
  PROVE  Max(S) \in S /\ \A k \in S : k <= Max(S)
<1> DEFINE T == {n - k : k \in S}
<1>1. \A k \in S : k \in 0 .. n /\ n - k \in Nat
  OBVIOUS
<1>2. T \subseteq Nat /\ T # {}
  BY <1>1
<1>3. PICK t \in T : \A k \in T : t <= k
  BY <1>2, LeastNumber
<1>4. PICK top \in S : t = n - top
  BY <1>3
<1>5. ASSUME NEW k \in S
      PROVE  k <= top
  <2>1. n - top <= n - k
    BY <1>3, <1>4
  <2>2. k \in 0 .. n /\ top \in 0 .. n
    OBVIOUS
  <2>3. QED
    BY <2>1, <2>2
<1>6. QED
  BY <1>5 DEF Max

-----------------------------------------------------------------------------
(* Joining sequences gives a sequence: the recursive function of           *)
(* FlattenSeq exists, and no least place of it is anything else.           *)
Joins(seqs, f, n) ==
  \A i \in 1 .. n : f[i] = IF i = 1 THEN seqs[i] ELSE f[i - 1] \o seqs[i]

LEMMA JoinExists ==
  ASSUME NEW S, NEW seqs \in Seq(Seq(S)), NEW n \in 0 .. Len(seqs)
  PROVE  \E f \in [1 .. n -> Seq(S)] : Joins(seqs, f, n)
<1> DEFINE Fails == {m \in 0 .. Len(seqs) : ~ \E f \in [1 .. m -> Seq(S)] : Joins(seqs, f, m)}
<1>1. Len(seqs) \in Nat /\ \A i \in 1 .. Len(seqs) : seqs[i] \in Seq(S)
  BY LenProperties, ElementOfSeq
<1>2. Fails \subseteq Nat
  BY <1>1
<1>3. ASSUME Fails # {}
      PROVE  FALSE
  <2>1. PICK m \in Fails : \A k \in Fails : m <= k
    BY <1>2, <1>3, LeastNumber
  <2>2. m \in Nat /\ m <= Len(seqs)
    BY <1>1
  <2>3. CASE m = 0
    <3>1. [i \in 1 .. 0 |-> <<>>] \in [1 .. m -> Seq(S)]
      BY <2>3
    <3>2. \A f : Joins(seqs, f, m)
      BY <2>3 DEF Joins
    <3>3. QED
      BY <3>1, <3>2
  <2>4. CASE m > 0
    <3>1. m - 1 \in 0 .. Len(seqs) /\ ~(m <= m - 1)
      BY <2>2, <2>4, <1>1
    <3>2. m - 1 \notin Fails
      BY <3>1, <2>1
    <3>3. PICK f \in [1 .. m - 1 -> Seq(S)] : Joins(seqs, f, m - 1)
      BY <3>1, <3>2
    <3> DEFINE last == IF m = 1 THEN seqs[m] ELSE f[m - 1] \o seqs[m]
               g == [i \in 1 .. m |-> IF i < m THEN f[i] ELSE last]
    <3>4. last \in Seq(S)
      <4>1. m \in 1 .. Len(seqs) /\ seqs[m] \in Seq(S)
        BY <1>1, <2>2, <2>4
      <4>2. CASE m = 1
        BY <4>1, <4>2
      <4>3. CASE m # 1
        <5>1. m - 1 \in 1 .. m - 1
          BY <2>2, <2>4, <4>3
        <5>2. f[m - 1] \in Seq(S)
          BY <5>1
        <5>3. QED
          BY <5>2, <4>1, <4>3, ConcatProperties
      <4>4. QED
        BY <4>2, <4>3
    <3> HIDE DEF last
    <3>5. ASSUME NEW i \in 1 .. m
          PROVE  g[i] \in Seq(S)
      <4>1. CASE i < m
        <5>1. i \in 1 .. m - 1
          BY <4>1, <2>2
        <5>2. QED
          BY <5>1, <4>1
      <4>2. CASE ~(i < m)
        BY <4>2, <3>4
      <4>3. QED
        BY <4>1, <4>2
    <3>6. g \in [1 .. m -> Seq(S)]
      BY <3>5
    <3>7. ASSUME NEW i \in 1 .. m
          PROVE  g[i] = IF i = 1 THEN seqs[i] ELSE g[i - 1] \o seqs[i]
      <4>1. CASE i < m
        <5>1. i \in 1 .. m - 1 /\ g[i] = f[i]
          BY <4>1, <2>2
        <5>2. i # 1 => g[i - 1] = f[i - 1]
          BY <5>1, <2>2
        <5>3. QED
          BY <5>1, <5>2, <3>3 DEF Joins
      <4>2. CASE ~(i < m)
        <5>1. i = m /\ g[i] = last
          BY <4>2, <2>2
        <5>2. i # 1 => g[i - 1] = f[i - 1]
          BY <5>1, <2>2
        <5>3. QED
          BY <5>1, <5>2 DEF last
      <4>3. QED
        BY <4>1, <4>2
    <3>8. Joins(seqs, g, m)
      BY <3>7 DEF Joins
    <3>9. QED
      BY <3>6, <3>8
  <2>5. QED
    BY <2>2, <2>3, <2>4
<1>4. QED
  BY <1>3

LEMMA FlattenTyped ==
  ASSUME NEW S, NEW seqs \in Seq(Seq(S))
  PROVE  FlattenSeq(seqs) \in Seq(S)
<1>1. Len(seqs) \in Nat /\ \A i \in 1 .. Len(seqs) : seqs[i] \in Seq(S)
  BY LenProperties, ElementOfSeq
<1>2. CASE Len(seqs) = 0
  <2>1. seqs = <<>>
    BY <1>2, EmptySeq
  <2>2. QED
    BY <1>2, <2>1 DEF FlattenSeq
<1>3. CASE Len(seqs) # 0
  <2> DEFINE Step(f, i) == IF i = 1 THEN seqs[i] ELSE f[i - 1] \o seqs[i]
             flatten == CHOOSE f : f = [i \in 1 .. Len(seqs) |-> Step(f, i)]
  <2>1. Len(seqs) \in 0 .. Len(seqs)
    BY <1>1
  <2>2. PICK f \in [1 .. Len(seqs) -> Seq(S)] : Joins(seqs, f, Len(seqs))
    BY <2>1, JoinExists
  <2>3. \A i \in 1 .. Len(seqs) : f[i] = Step(f, i)
    BY <2>2 DEF Joins
  <2>4. f = [i \in 1 .. Len(seqs) |-> Step(f, i)]
    BY <2>3
  <2>5. flatten = [i \in 1 .. Len(seqs) |-> Step(flatten, i)]
    BY <2>4
  <2>6. FlattenSeq(seqs) = flatten[Len(seqs)]
    BY <1>3 DEF FlattenSeq
  <2> HIDE DEF flatten
  <2>7. \A i \in 1 .. Len(seqs) : flatten[i] = Step(flatten, i)
    BY <2>5
  <2> DEFINE Fails == {i \in 1 .. Len(seqs) : flatten[i] \notin Seq(S)}
  <2>8. Fails \subseteq Nat
    OBVIOUS
  <2>9. ASSUME Fails # {}
        PROVE  FALSE
    <3>1. PICK i \in Fails : \A k \in Fails : i <= k
      BY <2>8, <2>9, LeastNumber
    <3>2. i \in 1 .. Len(seqs) /\ flatten[i] = Step(flatten, i) /\ seqs[i] \in Seq(S)
      BY <2>7, <1>1
    <3>3. CASE i = 1
      BY <3>2, <3>3
    <3>4. CASE i # 1
      <4>1. i - 1 \in 1 .. Len(seqs) /\ ~(i <= i - 1)
        BY <3>2, <3>4, <1>1
      <4>2. flatten[i - 1] \in Seq(S)
        BY <4>1, <3>1
      <4>3. flatten[i] = flatten[i - 1] \o seqs[i]
        BY <3>2, <3>4
      <4>4. flatten[i - 1] \o seqs[i] \in Seq(S)
        BY <4>2, <3>2, ConcatProperties
      <4>5. QED
        BY <4>3, <4>4
    <3>5. QED
      BY <3>3, <3>4
  <2>10. Len(seqs) \in 1 .. Len(seqs)
    BY <1>1, <1>3
  <2>11. QED
    BY <2>6, <2>9, <2>10
<1>4. QED
  BY <1>2, <1>3

-----------------------------------------------------------------------------
(* What common.cc makes of the words of --keyword. *)
LEMMA TrimTyped ==
  ASSUME NEW item \in Word
  PROVE  Trim(item) \in Word
<1> DEFINE letters == {i \in DOMAIN item : item[i] # Space}
<1>1. Len(item) \in Nat /\ DOMAIN item = 1 .. Len(item)
      /\ \A i \in 1 .. Len(item) : item[i] \in Character
  BY LenProperties, ElementOfSeq DEF Word
<1>2. CASE letters = {}
  BY <1>2 DEF Trim, Word
<1>3. CASE letters # {}
  <2>1. letters \subseteq 0 .. Len(item) /\ letters \subseteq Nat /\ letters \subseteq 1 .. Len(item)
    BY <1>1
  <2>2. Min(letters) \in letters /\ Max(letters) \in letters
    BY <1>1, <1>3, <2>1, MinIsLeast, MaxIsGreatest
  <2> DEFINE first == Min(letters)
             last == Max(letters)
  <2>3. Trim(item) = SubSeq(item, first, last)
    BY <1>3 DEF Trim
  <2> HIDE DEF first, last, letters
  <2>4. first \in 1 .. Len(item) /\ last \in 1 .. Len(item)
    BY <2>1, <2>2 DEF first, last
  <2>5. \A i \in first .. last : item[i] \in Character
    BY <1>1, <2>4
  <2>6. SubSeq(item, first, last) \in Seq(Character)
    BY <1>1, <2>4, <2>5, SubSeqProperties
  <2>7. QED
    BY <2>3, <2>6 DEF Word
<1>4. QED
  BY <1>2, <1>3

LEMMA SplitCsvTyped ==
  ASSUME NEW items \in Seq(Word)
  PROVE  SplitCsv(items) \in Seq(Word)
<1> DEFINE Kept(word) == IF word = <<>> THEN <<>> ELSE <<word>>
           kept == [i \in DOMAIN items |-> Kept(Trim(items[i]))]
<1>1. Len(items) \in Nat /\ DOMAIN items = 1 .. Len(items)
      /\ \A i \in 1 .. Len(items) : items[i] \in Word
  BY LenProperties, ElementOfSeq
<1>2. \A word \in Word : Kept(word) \in Seq(Word)
  OBVIOUS
<1>3. SplitCsv(items) = FlattenSeq(kept)
  BY DEF SplitCsv
<1> HIDE DEF Kept
<1>4. \A i \in 1 .. Len(items) : Kept(Trim(items[i])) \in Seq(Word)
  BY <1>1, <1>2, TrimTyped
<1>5. kept \in [1 .. Len(items) -> Seq(Word)]
  BY <1>1, <1>4
<1> HIDE DEF kept
<1>6. kept \in Seq(Seq(Word))
  BY <1>1, <1>5, SeqDef
<1>7. QED
  BY <1>3, <1>6, FlattenTyped

(* What is asked for, and what that may be heard as. *)
Variants(asked) ==
  asked \union {kAlias[Wukong][i] : i \in IF Wukong \in asked THEN 1 .. 4 ELSE {}}

LEMMA AliasWords == \A i \in 1 .. 4 : kAlias[Wukong][i] \in Word
<1>1. \A first, second \in Character : <<first, second>> \in Word
  BY DEF Word
<1>2. "martial" \in Character /\ "five" \in Character /\ "noon" \in Character
      /\ "dance" \in Character /\ "sky" \in Character
  BY DEF Character
<1>3. /\ kAlias[Wukong][1] = <<"martial", "sky">> /\ kAlias[Wukong][2] = <<"five", "sky">>
      /\ kAlias[Wukong][3] = <<"noon", "sky">> /\ kAlias[Wukong][4] = <<"dance", "sky">>
  BY DEF kAlias
<1>4. QED
  BY <1>1, <1>2, <1>3

LEMMA AliasesTyped ==
  ASSUME NEW asked, NEW word \in asked
  PROVE  WithAliases(word) \in Seq(Variants(asked))
<1>1. <<word>> \in Seq(Variants(asked))
  BY DEF Variants
<1>2. CASE word = Wukong
  <2>1. kAlias[Wukong] \in Seq(Variants(asked))
    <3> DEFINE aliases == kAlias[Wukong]
    <3>1. DOMAIN aliases = 1 .. 4 /\ aliases = [i \in 1 .. 4 |-> aliases[i]]
      BY DEF kAlias
    <3>2. \A i \in 1 .. 4 : aliases[i] \in Variants(asked)
      BY <1>2 DEF Variants
    <3> HIDE DEF aliases
    <3>3. aliases \in [1 .. 4 -> Variants(asked)]
      BY <3>1, <3>2
    <3>4. aliases \in Seq(Variants(asked))
      BY <3>3, SeqDef
    <3>5. QED
      BY <3>4 DEF aliases
  <2>2. WithAliases(word) = <<word>> \o kAlias[Wukong]
    BY <1>2 DEF WithAliases, kAlias
  <2>3. QED
    BY <1>1, <2>1, <2>2, ConcatProperties
<1>3. CASE word # Wukong
  <2>1. WithAliases(word) = <<word>> \o <<>>
    BY <1>3 DEF WithAliases, kAlias
  <2>2. QED
    BY <1>1, <2>1, ConcatEmptySeq
<1>4. QED
  BY <1>2, <1>3

(* The loop of ExpandKeywords, as that of FlattenSeq above. *)
Added(out, word) == IF Contains(out, word) THEN out ELSE Append(out, word)

Adds(added, f, n) ==
  \A i \in 0 .. n : f[i] = IF i = 0 THEN <<>> ELSE Added(f[i - 1], added[i])

LEMMA AddExists ==
  ASSUME NEW S, NEW added \in Seq(S), NEW n \in 0 .. Len(added)
  PROVE  \E f \in [0 .. n -> Seq(S)] : Adds(added, f, n)
<1> DEFINE Fails == {m \in 0 .. Len(added) : ~ \E f \in [0 .. m -> Seq(S)] : Adds(added, f, m)}
<1>1. Len(added) \in Nat /\ \A i \in 1 .. Len(added) : added[i] \in S
  BY LenProperties, ElementOfSeq
<1>2. Fails \subseteq Nat
  BY <1>1
<1>3. ASSUME Fails # {}
      PROVE  FALSE
  <2>1. PICK m \in Fails : \A k \in Fails : m <= k
    BY <1>2, <1>3, LeastNumber
  <2>2. m \in Nat /\ m <= Len(added)
    BY <1>1
  <2>3. CASE m = 0
    <3>1. [i \in 0 .. 0 |-> <<>>] \in [0 .. m -> Seq(S)]
      BY <2>3, EmptySeq
    <3>2. Adds(added, [i \in 0 .. 0 |-> <<>>], m)
      BY <2>3 DEF Adds
    <3>3. QED
      BY <3>1, <3>2
  <2>4. CASE m > 0
    <3>1. m - 1 \in 0 .. Len(added) /\ ~(m <= m - 1)
      BY <2>2, <2>4, <1>1
    <3>2. m - 1 \notin Fails
      BY <3>1, <2>1
    <3>3. PICK f \in [0 .. m - 1 -> Seq(S)] : Adds(added, f, m - 1)
      BY <3>1, <3>2
    <3> DEFINE last == Added(f[m - 1], added[m])
               g == [i \in 0 .. m |-> IF i < m THEN f[i] ELSE last]
    <3>4. last \in Seq(S)
      <4>1. added[m] \in S
        BY <1>1, <2>2, <2>4
      <4>2. f[m - 1] \in Seq(S)
        BY <2>2, <2>4
      <4>3. Append(f[m - 1], added[m]) \in Seq(S)
        BY <4>1, <4>2, AppendProperties
      <4>4. QED
        BY <4>2, <4>3 DEF Added
    <3> HIDE DEF last
    <3>5. ASSUME NEW i \in 0 .. m
          PROVE  g[i] \in Seq(S)
      <4>1. CASE i < m
        <5>1. i \in 0 .. m - 1
          BY <4>1, <2>2
        <5>2. QED
          BY <5>1, <4>1
      <4>2. CASE ~(i < m)
        BY <4>2, <3>4
      <4>3. QED
        BY <4>1, <4>2
    <3>6. g \in [0 .. m -> Seq(S)]
      BY <3>5
    <3>7. ASSUME NEW i \in 0 .. m
          PROVE  g[i] = IF i = 0 THEN <<>> ELSE Added(g[i - 1], added[i])
      <4>1. CASE i < m
        <5>1. i \in 0 .. m - 1 /\ g[i] = f[i]
          BY <4>1, <2>2
        <5>2. i # 0 => g[i - 1] = f[i - 1]
          BY <5>1, <2>2
        <5>3. QED
          BY <5>1, <5>2, <3>3 DEF Adds
      <4>2. CASE ~(i < m)
        <5>1. i = m /\ g[i] = last /\ i # 0
          BY <4>2, <2>2, <2>4
        <5>2. g[i - 1] = f[i - 1]
          BY <5>1, <2>2
        <5>3. QED
          BY <5>1, <5>2 DEF last
      <4>3. QED
        BY <4>1, <4>2
    <3>8. Adds(added, g, m)
      BY <3>7 DEF Adds
    <3>9. QED
      BY <3>6, <3>8
  <2>5. QED
    BY <2>2, <2>3, <2>4
<1>4. QED
  BY <1>3

(* Whatever is asked for, ExpandKeywords makes a list of words of it, and  *)
(* all of them are asked for or are an alias of one that is.               *)
LEMMA ExpandTyped ==
  ASSUME NEW items \in Seq(Word)
  PROVE  /\ ExpandKeywords(items) \in Seq(Variants(ToSet(SplitCsv(items))))
         /\ Variants(ToSet(SplitCsv(items))) \subseteq Word
<1> DEFINE words == SplitCsv(items)
           S == Variants(ToSet(words))
           parts == [i \in DOMAIN words |-> WithAliases(words[i])]
           added == FlattenSeq(parts)
           Step(f, n) == IF n = 0 THEN <<>>
                         ELSE IF Contains(f[n - 1], added[n]) THEN f[n - 1]
                         ELSE Append(f[n - 1], added[n])
           out == CHOOSE f : f = [n \in 0 .. Len(added) |-> Step(f, n)]
<1>1. words \in Seq(Word) /\ Len(words) \in Nat /\ DOMAIN words = 1 .. Len(words)
      /\ \A i \in 1 .. Len(words) : words[i] \in Word
  BY SplitCsvTyped, LenProperties, ElementOfSeq
<1>2. ExpandKeywords(items) = out[Len(added)]
  BY DEF ExpandKeywords
<1>3. S \subseteq Word
  <2>1. ToSet(words) \subseteq Word
    BY <1>1 DEF ToSet
  <2>2. \A i \in 1 .. 4 : kAlias[Wukong][i] \in Word
    BY AliasWords
  <2>3. QED
    BY <2>1, <2>2 DEF Variants
<1>4. added \in Seq(S)
  <2>1. \A i \in 1 .. Len(words) : words[i] \in ToSet(words)
    BY <1>1 DEF ToSet
  <2> HIDE DEF words
  <2>2. \A i \in 1 .. Len(words) : WithAliases(words[i]) \in Seq(S)
    BY <2>1, AliasesTyped
  <2>3. parts \in [1 .. Len(words) -> Seq(S)]
    BY <1>1, <2>2
  <2> HIDE DEF parts, S
  <2>4. parts \in Seq(Seq(S))
    BY <1>1, <2>3, SeqDef
  <2>5. QED
    BY <2>4, FlattenTyped
<1> HIDE DEF words, parts, added, S
<1>5. Len(added) \in Nat /\ Len(added) \in 0 .. Len(added)
  BY <1>4, LenProperties
<1>6. PICK f \in [0 .. Len(added) -> Seq(S)] : Adds(added, f, Len(added))
  BY <1>4, <1>5, AddExists
<1>7. f = [n \in 0 .. Len(added) |-> Step(f, n)]
  BY <1>6 DEF Adds, Added
<1>8. out = [n \in 0 .. Len(added) |-> Step(out, n)]
  BY <1>7
<1> HIDE DEF out
<1>9. \A n \in 0 .. Len(added) : out[n] = Step(out, n)
  BY <1>8
<1> DEFINE Fails == {n \in 0 .. Len(added) : out[n] \notin Seq(S)}
<1>10. Fails \subseteq Nat
  OBVIOUS
<1>11. ASSUME Fails # {}
       PROVE  FALSE
  <2>1. PICK n \in Fails : \A k \in Fails : n <= k
    BY <1>10, <1>11, LeastNumber
  <2>2. n \in 0 .. Len(added) /\ out[n] = Step(out, n)
    BY <1>9
  <2>3. CASE n = 0
    BY <2>1, <2>2, <2>3, EmptySeq
  <2>4. CASE n # 0
    <3>1. n - 1 \in 0 .. Len(added) /\ ~(n <= n - 1) /\ n \in 1 .. Len(added)
      BY <2>2, <2>4, <1>5
    <3>2. out[n - 1] \in Seq(S)
      BY <3>1, <2>1
    <3>3. added[n] \in S
      BY <3>1, <1>4, ElementOfSeq
    <3>4. Append(out[n - 1], added[n]) \in Seq(S)
      BY <3>2, <3>3, AppendProperties
    <3>5. QED
      BY <2>1, <2>2, <2>4, <3>2, <3>4
  <2>5. QED
    BY <2>3, <2>4
<1>12. out[Len(added)] \in Seq(S)
  BY <1>5, <1>11
<1>13. QED
  BY <1>2, <1>3, <1>12 DEF S, words

-----------------------------------------------------------------------------
Keywords == ToSet(ExpandKeywords(csv))

FileInv ==
  /\ pc \in {"tokens", "lexicon", "build", "ready", "refused"}
  /\ csv \in Csvs /\ token_file \in TokenFiles /\ lexicon_file \in Lexicons
  /\ pc \in {"lexicon", "build", "ready"} => token_file # Missing /\ Len(token_file) = VocabSize
  /\ pc \in {"build", "ready"} => lexicon_file # Missing

(* Of the first n lines, line i is the last for word. *)
LastFor(word, n, i) ==
  /\ i \in 1 .. n /\ lexicon_file[i].word = word
  /\ \A j \in i + 1 .. n : lexicon_file[j].word # word

(* The lexicon holds the last line read for each word that is wanted. *)
EntriesInv ==
  /\ DOMAIN lexicon = {word \in Wanted : \E i \in 1 .. line : lexicon_file[i].word = word}
  /\ \A word \in DOMAIN lexicon :
       \E i \in 1 .. line : LastFor(word, line, i) /\ lexicon[word] = lexicon_file[i].pieces

LexiconInv ==
  /\ line \in Nat
  /\ pc = "tokens" \/ lexicon_file = Missing => line = 0
  /\ lexicon_file # Missing => line <= Len(lexicon_file)
  /\ pc \in {"build", "ready"} => line = Len(lexicon_file)
  /\ EntriesInv

LEMMA FileTyped ==
  ASSUME FileInv, lexicon_file # Missing
  PROVE  /\ Len(lexicon_file) \in Nat /\ DOMAIN lexicon_file = 1 .. Len(lexicon_file)
         /\ \A i \in 1 .. Len(lexicon_file) :
              lexicon_file[i].word \in Word /\ lexicon_file[i].pieces \in Seq(Word)
<1> DEFINE Entries == [word : Seq(STRING), pieces : Seq(Seq(STRING))]
<1>1. lexicon_file \in Seq(Entries)
  BY FileAssumption DEF FileInv
<1>2. \A e \in Entries : e.word \in Word /\ e.pieces \in Seq(Word)
  BY WordsOfStrings
<1> HIDE DEF Entries
<1>3. \A i \in 1 .. Len(lexicon_file) : lexicon_file[i] \in Entries
  BY <1>1, ElementOfSeq
<1>4. QED
  BY <1>1, <1>2, <1>3, LenProperties

LEMMA KeywordsTyped ==
  ASSUME FileInv
  PROVE  /\ ExpandKeywords(csv) \in Seq(Word)
         /\ \A keyword \in Keywords :
              /\ keyword \in Word /\ keyword \in Wanted
              /\ \A i \in DOMAIN keyword :
                   /\ Utf8Chars(keyword)[i] \in Word
                   /\ Utf8Chars(keyword)[i] \in Wanted
<1>1. ExpandKeywords(csv) \in Seq(Word)
  <2>1. csv \in Seq(Word)
    BY FileAssumption, WordsOfStrings DEF FileInv
  <2> DEFINE S == Variants(ToSet(SplitCsv(csv)))
  <2>2. ExpandKeywords(csv) \in Seq(S) /\ S \subseteq Word
    BY <2>1, ExpandTyped
  <2> HIDE DEF S
  <2>3. QED
    BY <2>2, SeqMonotonic
<1>2. ASSUME NEW keyword \in Keywords
      PROVE  /\ keyword \in Word /\ keyword \in Wanted
             /\ \A i \in DOMAIN keyword :
                  /\ Utf8Chars(keyword)[i] \in Word
                  /\ Utf8Chars(keyword)[i] \in Wanted
  <2>1. keyword \in Word
    BY <1>1, <1>2, ElementOfSeq, LenProperties DEF Keywords, ToSet
  <2>2. keyword \in Wanted
    BY <1>2 DEF Wanted, Keywords
  <2>3. ASSUME NEW i \in DOMAIN keyword
        PROVE  /\ Utf8Chars(keyword)[i] \in Word
               /\ Utf8Chars(keyword)[i] \in Wanted
    <3>1. keyword[i] \in Character
      BY <2>1, <2>3, ElementOfSeq, LenProperties DEF Word
    <3>2. Utf8Chars(keyword)[i] = <<keyword[i]>>
      BY DEF Utf8Chars
    <3>3. <<keyword[i]>> \in Seq(Character)
      BY <3>1
    <3>4. Utf8Chars(keyword)[i] \in ToSet(Utf8Chars(keyword))
      BY DEF Utf8Chars, ToSet
    <3>5. QED
      BY <3>2, <3>3, <3>4, <1>2 DEF Wanted, Keywords, Word
  <2>4. QED
    BY <2>1, <2>2, <2>3
<1>3. QED
  BY <1>1, <1>2

(* What is wanted of the lexicon is as in the file. *)
LEMMA WantedEntries ==
  ASSUME FileInv, LexiconInv, pc \in {"build", "ready"}, NEW word \in Wanted
  PROVE  /\ word \in DOMAIN lexicon <=> word \in DOMAIN FullLexicon
         /\ word \in DOMAIN lexicon =>
              lexicon[word] = FullLexicon[word] /\ lexicon[word] \in Seq(Word)
<1> DEFINE Lines == {i \in DOMAIN lexicon_file : lexicon_file[i].word = word}
<1>1. /\ lexicon_file # Missing /\ line = Len(lexicon_file) /\ Len(lexicon_file) \in Nat
      /\ DOMAIN lexicon_file = 1 .. Len(lexicon_file)
      /\ \A i \in 1 .. Len(lexicon_file) :
           lexicon_file[i].word \in Word /\ lexicon_file[i].pieces \in Seq(Word)
  BY FileTyped DEF FileInv, LexiconInv
<1>2. word \in DOMAIN lexicon <=> Lines # {}
  BY <1>1 DEF LexiconInv, EntriesInv
<1>3. word \in DOMAIN FullLexicon <=> Lines # {}
  BY DEF FullLexicon
<1>4. ASSUME word \in DOMAIN lexicon
      PROVE  lexicon[word] = FullLexicon[word] /\ lexicon[word] \in Seq(Word)
  <2>1. PICK i \in 1 .. line :
          LastFor(word, line, i) /\ lexicon[word] = lexicon_file[i].pieces
    BY <1>4 DEF LexiconInv, EntriesInv
  <2>2. i \in Lines /\ \A j \in Lines : ~(j > i)
    BY <2>1, <1>1 DEF LastFor
  <2>3. Lines \subseteq 0 .. Len(lexicon_file)
    BY <1>1
  <2>4. Max(Lines) \in Lines /\ \A j \in Lines : j <= Max(Lines)
    BY <1>1, <2>2, <2>3, MaxIsGreatest
  <2>5. i \in Nat /\ Max(Lines) \in Nat
    BY <2>2, <2>3, <2>4
  <2>6. Max(Lines) = i
    BY <2>2, <2>4, <2>5
  <2>7. FullLexicon[word] = lexicon_file[Max(Lines)].pieces
    BY <1>2, <1>3, <1>4 DEF FullLexicon
  <2>8. QED
    BY <2>1, <2>6, <2>7, <1>1
<1>5. QED
  BY <1>2, <1>3, <1>4

(* Loading only the wanted lines makes no difference to any keyword. *)
LEMMA FilteredPieces ==
  ASSUME FileInv, LexiconInv, pc \in {"build", "ready"}, NEW keyword \in Keywords
  PROVE  /\ ResolveAcousticPieces(lexicon, keyword) = FullPieces(keyword)
         /\ FullPieces(keyword) \in Seq(Word)
<1> DEFINE PiecesOf(entries, ch) ==
             IF ch \in DOMAIN token_to_id \/ ch \notin DOMAIN entries THEN <<ch>> ELSE entries[ch]
           Pieces(entries) == [i \in DOMAIN keyword |-> PiecesOf(entries, Utf8Chars(keyword)[i])]
<1>1. /\ keyword \in Word /\ keyword \in Wanted
      /\ \A i \in DOMAIN keyword :
           Utf8Chars(keyword)[i] \in Word /\ Utf8Chars(keyword)[i] \in Wanted
  BY KeywordsTyped
<1>2. CASE keyword \in DOMAIN lexicon
  BY <1>1, <1>2, WantedEntries DEF ResolveAcousticPieces, FullPieces
<1>3. CASE keyword \notin DOMAIN lexicon
  <2>1. keyword \notin DOMAIN FullLexicon
    BY <1>1, <1>3, WantedEntries
  <2>2. ASSUME NEW i \in DOMAIN keyword
        PROVE  /\ PiecesOf(lexicon, Utf8Chars(keyword)[i])
                    = PiecesOf(FullLexicon, Utf8Chars(keyword)[i])
               /\ PiecesOf(lexicon, Utf8Chars(keyword)[i]) \in Seq(Word)
    <3> DEFINE ch == Utf8Chars(keyword)[i]
    <3>1. ch \in Word /\ ch \in Wanted
      BY <1>1, <2>2
    <3> HIDE DEF ch
    <3>2. <<ch>> \in Seq(Word)
      BY <3>1
    <3>3. /\ ch \in DOMAIN lexicon <=> ch \in DOMAIN FullLexicon
          /\ ch \in DOMAIN lexicon =>
               lexicon[ch] = FullLexicon[ch] /\ lexicon[ch] \in Seq(Word)
      BY <3>1, WantedEntries
    <3>4. PiecesOf(lexicon, ch) = PiecesOf(FullLexicon, ch) /\ PiecesOf(lexicon, ch) \in Seq(Word)
      BY <3>2, <3>3
    <3>5. QED
      BY <3>4 DEF ch
  <2>3. DOMAIN keyword = 1 .. Len(keyword) /\ Len(keyword) \in Nat
    BY <1>1, LenProperties DEF Word
  <2>4. ResolveAcousticPieces(lexicon, keyword) = FlattenSeq(Pieces(lexicon))
    BY <1>3 DEF ResolveAcousticPieces
  <2>5. FullPieces(keyword) = FlattenSeq(Pieces(FullLexicon))
    BY <2>1 DEF FullPieces, ResolveAcousticPieces
  <2> HIDE DEF PiecesOf
  <2>6. Pieces(lexicon) = Pieces(FullLexicon)
    BY <2>2
  <2>7. Pieces(lexicon) \in [1 .. Len(keyword) -> Seq(Word)]
    BY <2>2, <2>3
  <2> HIDE DEF Pieces
  <2>8. Pieces(lexicon) \in Seq(Seq(Word))
    BY <2>3, <2>7, SeqDef
  <2>9. QED
    BY <2>4, <2>5, <2>6, <2>8, FlattenTyped
<1>4. QED
  BY <1>2, <1>3

(* The search for an unknown piece finds one if there is one. *)
LEMMA FoundAll ==
  ASSUME NEW pieces \in Seq(Word), NEW found,
         found = Max({n \in 0 .. Len(pieces) : Known(SubSeq(pieces, 1, n))})
  PROVE  /\ found = Len(pieces) <=> Known(pieces)
         /\ SubSeq(pieces, 1, Len(pieces)) = pieces
<1> DEFINE Places == {n \in 0 .. Len(pieces) : Known(SubSeq(pieces, 1, n))}
<1>1. Len(pieces) \in Nat /\ DOMAIN pieces = 1 .. Len(pieces)
  BY LenProperties
<1>2. SubSeq(pieces, 1, Len(pieces)) = pieces
  BY SubSeqFull
<1>3. 0 \in Places
  <2>1. SubSeq(pieces, 1, 0) = <<>>
    BY <1>1
  <2>2. QED
    BY <1>1, <2>1 DEF Known
<1>4. Places \subseteq 0 .. Len(pieces)
  OBVIOUS
<1>5. found \in Places /\ \A n \in Places : n <= found
  BY <1>1, <1>3, <1>4, MaxIsGreatest
<1>6. ASSUME Known(pieces)
      PROVE  found = Len(pieces)
  <2>1. Len(pieces) \in Places
    <3>1. Len(pieces) \in 0 .. Len(pieces)
      BY <1>1
    <3>2. Known(SubSeq(pieces, 1, Len(pieces)))
      BY <1>2, <1>6
    <3>3. QED
      BY <3>1, <3>2
  <2>2. found \in 0 .. Len(pieces) /\ Len(pieces) <= found
    BY <1>4, <1>5, <2>1
  <2>3. QED
    BY <1>1, <2>2
<1>7. ASSUME found = Len(pieces)
      PROVE  Known(pieces)
  BY <1>2, <1>5, <1>7
<1>8. QED
  BY <1>2, <1>6, <1>7

-----------------------------------------------------------------------------
(* While keywords are built: the ones that can be detected are done or     *)
(* still to come, and what has been done is right and searched for.        *)
BuildInv ==
  pc \in {"build", "ready"} =>
    /\ keyword_token_ids = [k \in DOMAIN keyword_token_ids |-> keyword_token_ids[k]]
    /\ DOMAIN keyword_token_ids \subseteq Detectable
    /\ \A keyword \in DOMAIN keyword_token_ids :
         /\ keyword_token_ids[keyword] = Ids(FullPieces(keyword))
         /\ ToSet(keyword_token_ids[keyword]) \subseteq searchable_token_ids
    /\ todo \in Seq(Word) /\ ToSet(todo) \subseteq Keywords
    /\ Detectable \subseteq DOMAIN keyword_token_ids \union ToSet(todo)
    /\ Blank \in searchable_token_ids

EndInv ==
  /\ pc = "ready" => Detectable = DOMAIN keyword_token_ids /\ Detectable # {}
  /\ pc = "refused" => \/ token_file = Missing \/ Len(token_file) # VocabSize
                       \/ lexicon_file = Missing \/ Detectable = {}

IInv == FileInv /\ LexiconInv /\ BuildInv /\ EndInv

LEMMA EmptyMap ==
  ASSUME NEW map, map = [k \in DOMAIN map |-> map[k]]
  PROVE  map = <<>> <=> DOMAIN map = {}
<1>1. DOMAIN <<>> = {} /\ <<>> = [k \in {} |-> map[k]]
  OBVIOUS
<1>2. QED
  BY <1>1

(* What the whole lexicon says does not change after the tokens are read. *)
LEMMA ReferenceStays ==
  ASSUME csv' = csv, lexicon_file' = lexicon_file, token_to_id' = token_to_id
  PROVE  /\ Keywords' = Keywords /\ Wanted' = Wanted /\ Detectable' = Detectable
         /\ \A keyword : Ids(FullPieces(keyword))' = Ids(FullPieces(keyword))
<1>1. Keywords' = Keywords /\ Wanted' = Wanted
  BY DEF Keywords, Wanted
<1>2. FullLexicon' = FullLexicon
  BY DEF FullLexicon
<1>3. \A keyword : FullPieces(keyword)' = FullPieces(keyword)
  BY <1>2 DEF FullPieces, ResolveAcousticPieces
<1>4. \A pieces : Ids(pieces)' = Ids(pieces) /\ (Known(pieces)' <=> Known(pieces))
  BY DEF Ids, Known
<1>5. Detectable' = Detectable
  BY <1>1, <1>3, <1>4 DEF Detectable, Keywords
<1>6. \A keyword : Ids(FullPieces(keyword))' = Ids(FullPieces(keyword))
  BY <1>3 DEF Ids
<1>7. QED
  BY <1>1, <1>5, <1>6

LEMMA InitKeeps ==
  ASSUME Init
  PROVE  IInv
<1>1. FileInv /\ BuildInv /\ EndInv
  BY DEF Init, FileInv, BuildInv, EndInv
<1>2. line = 0 /\ lexicon = <<>> /\ pc = "tokens"
  BY DEF Init
<1>3. lexicon_file # Missing => Len(lexicon_file) \in Nat
  BY <1>1, FileTyped
<1>4. LexiconInv
  BY <1>2, <1>3 DEF LexiconInv, EntriesInv
<1>5. QED
  BY <1>1, <1>4 DEF IInv

LEMMA FileStep ==
  ASSUME IInv, [Next]_vars
  PROVE  FileInv'
<1>1. inputs' = inputs
  BY DEF Next, vars, LoadTokens, OpenLexicon, ReadLexiconLine, LexiconEnd, BuildKeyword, BuildEnd,
         Done
<1>2. csv' = csv /\ token_file' = token_file /\ lexicon_file' = lexicon_file
  BY <1>1 DEF inputs
<1>3. CASE LoadTokens
  BY <1>2, <1>3 DEF LoadTokens, IInv, FileInv
<1>4. CASE OpenLexicon \/ BuildEnd
  BY <1>2, <1>4 DEF OpenLexicon, BuildEnd, IInv, FileInv
<1>5. CASE LexiconEnd
  BY <1>2, <1>5 DEF LexiconEnd, IInv, FileInv
<1>6. CASE ReadLexiconLine \/ BuildKeyword \/ UNCHANGED vars
  BY <1>2, <1>6 DEF ReadLexiconLine, BuildKeyword, vars, IInv, FileInv
<1>7. QED
  BY <1>3, <1>4, <1>5, <1>6 DEF Next, Done

LEMMA LexiconStep ==
  ASSUME IInv, [Next]_vars
  PROVE  LexiconInv'
<1>1. CASE ReadLexiconLine
  <2> DEFINE entry == lexicon_file[line + 1]
  <2>1. /\ pc = "lexicon" /\ pc' = pc /\ inputs' = inputs
        /\ line' = line + 1 /\ line \in Nat /\ line < Len(lexicon_file)
        /\ lexicon_file # Missing
        /\ lexicon' = IF entry.word \in Wanted
                      THEN Put(lexicon, entry.word, entry.pieces) ELSE lexicon
    BY <1>1 DEF ReadLexiconLine, IInv, LexiconInv
  <2>2. csv' = csv /\ lexicon_file' = lexicon_file
    BY <2>1 DEF inputs
  <2>3. Wanted' = Wanted
    BY <2>2 DEF Wanted
  <2>4. Len(lexicon_file) \in Nat
    BY <2>1, FileTyped DEF IInv
  <2>5. /\ DOMAIN lexicon = {word \in Wanted : \E i \in 1 .. line : lexicon_file[i].word = word}
        /\ \A word \in DOMAIN lexicon :
             \E i \in 1 .. line :
               LastFor(word, line, i) /\ lexicon[word] = lexicon_file[i].pieces
    BY DEF IInv, LexiconInv, EntriesInv
  <2>6. 1 .. line + 1 = (1 .. line) \union {line + 1}
    BY <2>1
  <2>7. \A word : LastFor(word, line + 1, line + 1) <=> entry.word = word
    BY <2>1 DEF LastFor
  <2>8. \A word : \A i \in 1 .. line :
          LastFor(word, line, i) /\ entry.word # word => LastFor(word, line + 1, i)
    BY <2>1 DEF LastFor
  <2> HIDE DEF entry
  <2>9. DOMAIN lexicon' = {word \in Wanted : \E i \in 1 .. line + 1 : lexicon_file[i].word = word}
    BY <2>1, <2>5, <2>6 DEF Put, entry
  <2>10. ASSUME NEW word \in DOMAIN lexicon'
         PROVE  \E i \in 1 .. line + 1 :
                  LastFor(word, line + 1, i) /\ lexicon'[word] = lexicon_file[i].pieces
    <3>1. CASE word = entry.word
      <4>1. word \in Wanted
        BY <2>9, <2>10
      <4>2. lexicon'[word] = entry.pieces
        BY <4>1, <3>1, <2>1 DEF Put
      <4>3. QED
        BY <4>2, <3>1, <2>6, <2>7 DEF entry
    <3>2. CASE word # entry.word
      <4>1. word \in DOMAIN lexicon /\ lexicon'[word] = lexicon[word]
        BY <3>2, <2>1, <2>10 DEF Put
      <4>2. PICK i \in 1 .. line :
              LastFor(word, line, i) /\ lexicon[word] = lexicon_file[i].pieces
        BY <4>1, <2>5
      <4>3. LastFor(word, line + 1, i) /\ i \in 1 .. line + 1
        BY <4>2, <3>2, <2>6, <2>8
      <4>4. QED
        BY <4>1, <4>2, <4>3
    <3>3. QED
      BY <3>1, <3>2
  <2>11. line' \in Nat /\ line' <= Len(lexicon_file)
    BY <2>1, <2>4
  <2>12. \A word, n, i : LastFor(word, n, i)' <=> LastFor(word, n, i)
    BY <2>2 DEF LastFor
  <2>13. EntriesInv'
    BY <2>1, <2>2, <2>3, <2>9, <2>10, <2>12 DEF EntriesInv
  <2>14. QED
    BY <2>1, <2>2, <2>11, <2>13 DEF LexiconInv
<1>2. ASSUME line' = line, lexicon' = lexicon, inputs' = inputs
      PROVE  EntriesInv'
  <2>1. csv' = csv /\ lexicon_file' = lexicon_file
    BY <1>2 DEF inputs
  <2>2. Wanted' = Wanted
    BY <2>1 DEF Wanted
  <2>3. \A word, n, i : LastFor(word, n, i)' <=> LastFor(word, n, i)
    BY <2>1 DEF LastFor
  <2>4. EntriesInv
    BY DEF IInv, LexiconInv
  <2>5. QED
    BY <1>2, <2>1, <2>2, <2>3, <2>4 DEF EntriesInv
<1>3. CASE LoadTokens \/ OpenLexicon \/ LexiconEnd \/ BuildKeyword \/ BuildEnd \/ UNCHANGED vars
  <2>1. /\ line' = line /\ lexicon' = lexicon /\ inputs' = inputs
        /\ pc' = "tokens" => pc = "tokens"
        /\ pc' \in {"build", "ready"} =>
             pc \in {"build", "ready"} \/ line = Len(lexicon_file)
    BY <1>3 DEF LoadTokens, OpenLexicon, LexiconEnd, BuildKeyword, BuildEnd, vars, inputs
  <2>2. EntriesInv' /\ lexicon_file' = lexicon_file
    BY <2>1, <1>2 DEF inputs
  <2>3. QED
    BY <2>1, <2>2 DEF LexiconInv, IInv
<1>4. QED
  BY <1>1, <1>3 DEF Next, Done

LEMMA BuildStep ==
  ASSUME IInv, [Next]_vars
  PROVE  BuildInv'
<1>1. CASE LexiconEnd
  <2>1. /\ pc' = "build" /\ inputs' = inputs /\ token_to_id' = token_to_id
        /\ todo' = ExpandKeywords(csv)
        /\ keyword_token_ids' = <<>> /\ searchable_token_ids' = {Blank}
    BY <1>1 DEF LexiconEnd
  <2>2. Keywords' = Keywords /\ Detectable' = Detectable
    BY <2>1, ReferenceStays DEF inputs
  <2>3. todo' \in Seq(Word) /\ ToSet(todo') = Keywords
    BY <2>1, KeywordsTyped DEF IInv, Keywords
  <2>4. Detectable \subseteq Keywords
    BY DEF Detectable, Keywords
  <2>5. DOMAIN keyword_token_ids' = {}
        /\ keyword_token_ids' = [k \in DOMAIN keyword_token_ids' |-> keyword_token_ids'[k]]
    BY <2>1
  <2>6. QED
    BY <2>1, <2>2, <2>3, <2>4, <2>5 DEF BuildInv
<1>2. CASE BuildKeyword
  <2> DEFINE keyword == Head(todo)
             pieces == ResolveAcousticPieces(lexicon, keyword)
             found == Max({n \in 0 .. Len(pieces) : Known(SubSeq(pieces, 1, n))})
             before == SubSeq(pieces, 1, found)
             done == found = Len(pieces) /\ pieces # <<>>
  <2>1. /\ pc = "build" /\ todo # <<>> /\ pc' = pc /\ inputs' = inputs
        /\ token_to_id' = token_to_id
        /\ searchable_token_ids' = searchable_token_ids \union ToSet(Ids(before))
        /\ keyword_token_ids' = IF done THEN Put(keyword_token_ids, keyword, Ids(pieces))
                                ELSE keyword_token_ids
        /\ todo' = Tail(todo)
    BY <1>2 DEF BuildKeyword
  <2>2. /\ keyword_token_ids = [k \in DOMAIN keyword_token_ids |-> keyword_token_ids[k]]
        /\ DOMAIN keyword_token_ids \subseteq Detectable
        /\ \A k \in DOMAIN keyword_token_ids :
             /\ keyword_token_ids[k] = Ids(FullPieces(k))
             /\ ToSet(keyword_token_ids[k]) \subseteq searchable_token_ids
        /\ todo \in Seq(Word) /\ ToSet(todo) \subseteq Keywords
        /\ Detectable \subseteq DOMAIN keyword_token_ids \union ToSet(todo)
        /\ Blank \in searchable_token_ids
    BY <2>1 DEF IInv, BuildInv
  <2>3. /\ Keywords' = Keywords /\ Detectable' = Detectable
        /\ \A k : Ids(FullPieces(k))' = Ids(FullPieces(k))
    BY <2>1, ReferenceStays DEF inputs
  <2>4. /\ todo' \in Seq(Word) /\ ToSet(todo') \subseteq ToSet(todo)
        /\ ToSet(todo) = {keyword} \union ToSet(todo')
    <3>1. /\ todo' \in Seq(Word) /\ Len(todo') = Len(todo) - 1 /\ Len(todo) \in Nat \ {0}
          /\ \A i \in 1 .. Len(todo') : todo'[i] = todo[i + 1]
          /\ DOMAIN todo = 1 .. Len(todo) /\ DOMAIN todo' = 1 .. Len(todo')
      BY <2>1, <2>2, HeadTailProperties, LenProperties, EmptySeq
    <3>2. keyword = todo[1]
      BY <2>1, <2>2
    <3>3. ASSUME NEW i \in 1 .. Len(todo')
          PROVE  todo'[i] \in ToSet(todo)
      <4>1. i + 1 \in 1 .. Len(todo)
        BY <3>1
      <4>2. QED
        BY <3>1, <4>1 DEF ToSet
    <3>4. keyword \in ToSet(todo)
      BY <3>1, <3>2 DEF ToSet
    <3>5. ASSUME NEW i \in 1 .. Len(todo), i # 1
          PROVE  todo[i] \in ToSet(todo')
      <4>1. i - 1 \in 1 .. Len(todo') /\ i = (i - 1) + 1
        BY <3>1, <3>5
      <4>2. todo[i] = todo'[i - 1]
        BY <3>1, <4>1
      <4>3. QED
        BY <3>1, <4>1, <4>2 DEF ToSet
    <3>6. \A x \in ToSet(todo) : x = keyword \/ x \in ToSet(todo')
      BY <3>1, <3>2, <3>5 DEF ToSet
    <3>7. \A x \in ToSet(todo') : x \in ToSet(todo)
      BY <3>1, <3>3 DEF ToSet
    <3>8. QED
      BY <3>1, <3>4, <3>6, <3>7
  <2>5. keyword \in Keywords
    BY <2>2, <2>4
  <2>6. pieces = FullPieces(keyword) /\ pieces \in Seq(Word)
    BY <2>1, <2>5, FilteredPieces DEF IInv
  <2> HIDE DEF keyword, pieces
  <2>7. found = Len(pieces) <=> Known(pieces)
    BY <2>6, FoundAll
  <2>8. SubSeq(pieces, 1, Len(pieces)) = pieces
    BY <2>6, FoundAll
  <2> HIDE DEF found
  <2>9. keyword \in Detectable <=> done
    BY <2>5, <2>6, <2>7 DEF Detectable, Keywords
  <2>10. done => before = pieces
    BY <2>8
  <2> HIDE DEF before, done
  <2>11. CASE done
    <3>1. /\ keyword_token_ids' = Put(keyword_token_ids, keyword, Ids(pieces))
          /\ before = pieces /\ keyword \in Detectable
      BY <2>1, <2>9, <2>10, <2>11
    <3>2. /\ DOMAIN keyword_token_ids' = DOMAIN keyword_token_ids \union {keyword}
          /\ keyword_token_ids' = [k \in DOMAIN keyword_token_ids' |-> keyword_token_ids'[k]]
          /\ \A k \in DOMAIN keyword_token_ids' :
               keyword_token_ids'[k] = IF k = keyword THEN Ids(pieces) ELSE keyword_token_ids[k]
      BY <3>1 DEF Put
    <3>3. ASSUME NEW k \in DOMAIN keyword_token_ids'
          PROVE  /\ keyword_token_ids'[k] = Ids(FullPieces(k))
                 /\ ToSet(keyword_token_ids'[k]) \subseteq searchable_token_ids'
      <4>1. CASE k = keyword
        BY <4>1, <2>1, <2>6, <3>1, <3>2
      <4>2. CASE k # keyword
        BY <4>2, <2>1, <2>2, <3>2
      <4>3. QED
        BY <4>1, <4>2
    <3>4. ASSUME NEW k \in DOMAIN keyword_token_ids'
          PROVE  keyword_token_ids'[k] = Ids(FullPieces(k))'
      BY <3>3, <2>3
    <3>5. QED
      BY <2>1, <2>2, <2>3, <2>4, <3>1, <3>2, <3>3, <3>4 DEF BuildInv
  <2>12. CASE ~done
    <3>1. keyword_token_ids' = keyword_token_ids /\ keyword \notin Detectable
      BY <2>1, <2>9, <2>12
    <3>2. ASSUME NEW k \in DOMAIN keyword_token_ids'
          PROVE  keyword_token_ids'[k] = Ids(FullPieces(k))'
      BY <3>1, <2>2, <2>3
    <3>3. QED
      BY <2>1, <2>2, <2>3, <2>4, <3>1, <3>2 DEF BuildInv
  <2>13. QED
    BY <2>11, <2>12
<1>3. CASE BuildEnd \/ UNCHANGED vars
  <2>1. /\ csv' = csv /\ lexicon_file' = lexicon_file /\ token_to_id' = token_to_id
        /\ todo' = todo /\ keyword_token_ids' = keyword_token_ids
        /\ searchable_token_ids' = searchable_token_ids
        /\ pc' \in {"build", "ready"} => pc \in {"build", "ready"}
    BY <1>3 DEF BuildEnd, vars, inputs
  <2>2. /\ Keywords' = Keywords /\ Detectable' = Detectable
        /\ \A k : Ids(FullPieces(k))' = Ids(FullPieces(k))
    BY <2>1, ReferenceStays
  <2>3. QED
    BY <2>1, <2>2 DEF IInv, BuildInv
<1>4. CASE LoadTokens \/ OpenLexicon \/ ReadLexiconLine
  BY <1>4 DEF LoadTokens, OpenLexicon, ReadLexiconLine, BuildInv
<1>5. QED
  BY <1>1, <1>2, <1>3, <1>4 DEF Next, Done

LEMMA EndStep ==
  ASSUME IInv, [Next]_vars
  PROVE  EndInv'
<1>1. CASE LoadTokens
  <2>1. pc' # "ready" /\ token_file' = token_file
        /\ (pc' = "refused" => token_file = Missing \/ Len(token_file) # VocabSize)
    BY <1>1 DEF LoadTokens, inputs
  <2>2. QED
    BY <2>1 DEF EndInv
<1>2. CASE OpenLexicon
  BY <1>2 DEF OpenLexicon, inputs, EndInv
<1>3. CASE ReadLexiconLine \/ LexiconEnd \/ BuildKeyword
  BY <1>3 DEF ReadLexiconLine, LexiconEnd, BuildKeyword, EndInv
<1>4. CASE BuildEnd
  <2>1. /\ pc = "build" /\ todo = <<>> /\ inputs' = inputs /\ token_to_id' = token_to_id
        /\ keyword_token_ids' = keyword_token_ids
        /\ pc' = IF keyword_token_ids = <<>> THEN "refused" ELSE "ready"
    BY <1>4 DEF BuildEnd
  <2>2. Detectable' = Detectable
    BY <2>1, ReferenceStays DEF inputs
  <2>3. ToSet(todo) = {}
    BY <2>1 DEF ToSet
  <2>4. Detectable = DOMAIN keyword_token_ids
    BY <2>1, <2>3 DEF IInv, BuildInv
  <2>5. keyword_token_ids = <<>> <=> DOMAIN keyword_token_ids = {}
    BY <2>1, EmptyMap DEF IInv, BuildInv
  <2>6. QED
    BY <2>1, <2>2, <2>4, <2>5 DEF EndInv
<1>5. CASE UNCHANGED vars
  <2>1. Detectable' = Detectable
    BY <1>5, ReferenceStays DEF vars, inputs
  <2>2. QED
    BY <1>5, <2>1 DEF vars, inputs, IInv, EndInv
<1>6. QED
  BY <1>1, <1>2, <1>3, <1>4, <1>5 DEF Next, Done

LEMMA Inductive == Spec => []IInv
<1>1. Init => IInv
  BY InitKeeps
<1>2. IInv /\ [Next]_vars => IInv'
  BY FileStep, LexiconStep, BuildStep, EndStep DEF IInv
<1>3. QED
  BY <1>1, <1>2, PTL DEF Spec

-----------------------------------------------------------------------------
(* KeywordDecoder::Load reads only the lines of the lexicon that the       *)
(* keywords want: whatever the file holds and in whatever order, the       *)
(* keywords and their tokens are those the whole of it gives.              *)
THEOREM LoadedAsWritten == Spec => []FilterHarmless
<1>1. IInv => FilterHarmless
  <2>1. SUFFICES ASSUME IInv, pc = "ready"
                 PROVE  /\ DOMAIN keyword_token_ids = Detectable
                        /\ \A keyword \in Detectable :
                             keyword_token_ids[keyword] = Ids(FullPieces(keyword))
    BY DEF FilterHarmless
  <2>2. DOMAIN keyword_token_ids = Detectable
    BY <2>1 DEF IInv, EndInv
  <2>3. QED
    BY <2>1, <2>2 DEF IInv, BuildInv
<1>2. QED
  BY <1>1, Inductive, PTL

(* An engine that is ready keeps the decoder's assumptions: a keyword, no  *)
(* empty one, and all their tokens and the blank let through.              *)
THEOREM ReadyForDecoder == Spec => []DecoderUsable
<1>1. IInv => DecoderUsable
  <2>1. SUFFICES ASSUME IInv, pc = "ready"
                 PROVE  /\ keyword_token_ids # <<>> /\ Blank \in searchable_token_ids
                        /\ \A keyword \in DOMAIN keyword_token_ids :
                             /\ keyword_token_ids[keyword] # <<>>
                             /\ ToSet(keyword_token_ids[keyword]) \subseteq searchable_token_ids
    BY DEF DecoderUsable
  <2>2. /\ Detectable = DOMAIN keyword_token_ids /\ Detectable # {}
        /\ Blank \in searchable_token_ids
        /\ \A keyword \in DOMAIN keyword_token_ids :
             /\ keyword_token_ids[keyword] = Ids(FullPieces(keyword))
             /\ ToSet(keyword_token_ids[keyword]) \subseteq searchable_token_ids
    BY <2>1 DEF IInv, EndInv, BuildInv
  <2>3. keyword_token_ids # <<>>
    BY <2>2
  <2>4. ASSUME NEW keyword \in Detectable
        PROVE  keyword_token_ids[keyword] # <<>>
    <3>1. FullPieces(keyword) # <<>> /\ keyword \in Keywords
      BY <2>4 DEF Detectable, Keywords
    <3>2. FullPieces(keyword) \in Seq(Word)
      BY <3>1, <2>1, FilteredPieces DEF IInv
    <3>3. 1 \in DOMAIN FullPieces(keyword)
      <4> DEFINE pieces == FullPieces(keyword)
      <4>1. pieces # <<>> /\ pieces \in Seq(Word)
        BY <3>1, <3>2
      <4> HIDE DEF pieces
      <4>2. Len(pieces) \in Nat \ {0} /\ DOMAIN pieces = 1 .. Len(pieces)
        BY <4>1, EmptySeq, LenProperties
      <4>3. 1 \in DOMAIN pieces
        BY <4>2
      <4>4. QED
        BY <4>3 DEF pieces
    <3>4. DOMAIN Ids(FullPieces(keyword)) # {}
      BY <3>3 DEF Ids
    <3>5. QED
      BY <2>2, <2>4, <3>4
  <2>5. QED
    BY <2>2, <2>3, <2>4
<1>2. QED
  BY <1>1, Inductive, PTL

(* The engine is refused only for a file that is missing or damaged, or    *)
(* when no keyword at all can be spelled.                                  *)
THEOREM RefusalHasCause == Spec => []RefusedForCause
<1>1. IInv => RefusedForCause
  BY DEF IInv, FileInv, EndInv, RefusedForCause
<1>2. QED
  BY <1>1, Inductive, PTL

(* ExpandKeywords and DisplayName have the same variants of the same word. *)
LEMMA TablesAgree ==
  ASSUME NEW keyword
  PROVE  Meanings(keyword) = IF keyword \in kWukongAliases THEN {Wukong} ELSE {}
<1>1. DOMAIN kAlias = {Wukong}
  BY DEF kAlias
<1>2. kAlias[Wukong] = <<<<"martial", "sky">>, <<"five", "sky">>, <<"noon", "sky">>,
                         <<"dance", "sky">>>>
  BY DEF kAlias
<1>3. keyword \in ToSet(kAlias[Wukong]) <=> \E i \in 1 .. 4 : kAlias[Wukong][i] = keyword
  <2>1. DOMAIN kAlias[Wukong] = 1 .. 4
    BY <1>2
  <2>2. QED
    BY <2>1, Zenon DEF ToSet
<1>4. (\E i \in 1 .. 4 : kAlias[Wukong][i] = keyword) <=> keyword \in kWukongAliases
  BY <1>2 DEF kWukongAliases
<1>5. QED
  BY <1>1, <1>3, <1>4, Zenon DEF Meanings

(* What is found is shown as what it means: the two tables of common.cc    *)
(* agree, and ExpandKeywords adds nothing but variants of a word that was  *)
(* asked for.                                                              *)
THEOREM VariantsShownAsMeant == Spec => []ShownAsMeant
<1>1. IInv => ShownAsMeant
  <2> DEFINE asked == ToSet(SplitCsv(csv))
  <2>1. SUFFICES ASSUME IInv, pc = "ready", NEW keyword \in DOMAIN keyword_token_ids
                 PROVE  /\ IF Meanings(keyword) = {}
                           THEN DisplayName(keyword) = keyword
                           ELSE DisplayName(keyword) \in Meanings(keyword)
                        /\ keyword \in asked \/ DisplayName(keyword) \in asked
    BY DEF ShownAsMeant
  <2>2. keyword \in ToSet(ExpandKeywords(csv))
    BY <2>1 DEF IInv, EndInv, Detectable
  <2>3. csv \in Seq(Word)
    BY <2>1, FileAssumption, WordsOfStrings DEF IInv, FileInv
  <2>4. ExpandKeywords(csv) \in Seq(Variants(asked))
    BY <2>3, ExpandTyped
  <2> HIDE DEF asked
  <2>5. keyword \in Variants(asked)
    BY <2>2, <2>4, ElementOfSeq, LenProperties DEF ToSet
  <2>6. keyword \in asked \/ DisplayName(keyword) \in asked
    <3>1. CASE keyword \in asked
      BY <3>1
    <3>2. CASE keyword \notin asked
      <4>1. Wukong \in asked /\ \E i \in 1 .. 4 : keyword = kAlias[Wukong][i]
        BY <2>5, <3>2 DEF Variants
      <4>2. keyword \in kWukongAliases
        BY <4>1 DEF kAlias, kWukongAliases
      <4>3. QED
        BY <4>1, <4>2 DEF DisplayName
    <3>3. QED
      BY <3>1, <3>2
  <2>7. IF Meanings(keyword) = {}
        THEN DisplayName(keyword) = keyword
        ELSE DisplayName(keyword) \in Meanings(keyword)
    <3>1. CASE keyword \in kWukongAliases
      <4>1. Meanings(keyword) = {Wukong} /\ DisplayName(keyword) = Wukong
        BY <3>1, TablesAgree DEF DisplayName
      <4>2. QED
        BY <4>1
    <3>2. CASE keyword \notin kWukongAliases
      BY <3>2, TablesAgree DEF DisplayName
    <3>3. QED
      BY <3>1, <3>2
  <2>8. QED
    BY <2>6, <2>7
<1>2. QED
  BY <1>1, Inductive, PTL
===============================================================================
