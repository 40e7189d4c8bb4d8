------------------------- MODULE KeywordDecoderProofs -------------------------
(***************************************************************************)
(* Theorems about KeywordDecoder for every vocabulary, every network, any  *)
(* keywords, beams and number of frames. UsedInv follows the frames that   *)
(* were listened to, PathInv the emissions of the paths of both beams.     *)
(* The masses need three more: HeardInv, the candidates of a frame are     *)
(* distinct and possible; BuildInv, the beam being built holds what the    *)
(* turns taken so far gave it; BeamInv, the last beam holds the masses of  *)
(* the alignments of the frames before.                                    *)
(***************************************************************************)
EXTENDS KeywordDecoder, NumberLemmas, SequenceTheorems, FiniteSetTheorems, TLAPS

CandidateLists == UNION {[places -> Tokens] : places \in SUBSET (1 .. ScoreBeamSize)}

UsedFrames == [frame : Nat, row : Distributions, candidates : CandidateLists]

(* The frames that were not skipped, in time order. *)
UsedInv ==
  /\ pc \in {"frame", "expand", "done"} /\ frame \in Nat
  /\ used \in Seq(UsedFrames)
  /\ \A i, j \in 1 .. Len(used) : i < j => used[i].frame < used[j].frame
  /\ \A i \in 1 .. Len(used) : used[i].frame <= frame
  /\ pc = "expand" => Len(used) > 0 /\ used[Len(used)].frame = frame

LEMMA CandidatesTyped ==
  ASSUME NEW row \in Distributions, NEW c \in CollectFrameCandidates(row)
  PROVE  c \in CandidateLists
<1>1. PICK top \in TopTokens(row) :
        c = [i \in {j \in DOMAIN top : row[top[j]] > MinTokenProb /\ top[j] \in SearchableTokens}
               |-> top[i]]
  BY DEF CollectFrameCandidates, RestrictValues, Restrict
<1>2. top \in [1 .. ScoreBeamSize -> Tokens]
  BY DEF TopTokens
<1> DEFINE places == {j \in DOMAIN top :
                        row[top[j]] > MinTokenProb /\ top[j] \in SearchableTokens}
<1>3. places \in SUBSET (1 .. ScoreBeamSize)
  BY <1>2
<1>4. c \in [places -> Tokens]
  BY <1>1, <1>2, <1>3
<1>5. QED
  BY <1>3, <1>4 DEF CandidateLists

LEMMA UsedTyped ==
  ASSUME UsedInv, NEW i \in 1 .. Len(used)
  PROVE  /\ used[i].frame \in Nat /\ used[i].row \in Distributions
         /\ used[i].candidates \in CandidateLists
<1>1. used \in Seq(UsedFrames)
  BY DEF UsedInv
<1>2. used[i] \in UsedFrames
  BY <1>1, ElementOfSeq
<1>3. QED
  BY <1>2 DEF UsedFrames

LEMMA UsedGrows ==
  ASSUME UsedInv, NEW listened \in UsedFrames, listened.frame = frame + 1,
         used' = Append(used, listened), frame' = frame + 1, pc' = "expand"
  PROVE  /\ UsedInv'
         /\ Len(used') = Len(used) + 1
         /\ \A i \in 1 .. Len(used) : used'[i] = used[i]
         /\ used'[Len(used')] = listened
<1>1. /\ used \in Seq(UsedFrames) /\ Len(used) \in Nat /\ frame \in Nat
  BY LenProperties DEF UsedInv
<1>2. /\ used' \in Seq(UsedFrames) /\ Len(used') = Len(used) + 1
      /\ \A i \in 1 .. Len(used) : used'[i] = used[i]
      /\ used'[Len(used) + 1] = listened
  BY <1>1, AppendProperties
<1>3. \A i \in 1 .. Len(used) : used[i].frame \in Nat
  BY UsedTyped
<1>4. \A i \in 1 .. Len(used') : used'[i].frame <= frame'
  <2> SUFFICES ASSUME NEW i \in 1 .. Len(used')
               PROVE  used'[i].frame <= frame'
    OBVIOUS
  <2>1. CASE i = Len(used) + 1
    BY <1>1, <1>2, <2>1
  <2>2. CASE i \in 1 .. Len(used)
    BY <1>1, <1>2, <1>3, <2>2 DEF UsedInv
  <2>3. QED
    BY <1>1, <1>2, <2>1, <2>2
<1>5. \A i, j \in 1 .. Len(used') : i < j => used'[i].frame < used'[j].frame
  <2> SUFFICES ASSUME NEW i \in 1 .. Len(used'), NEW j \in 1 .. Len(used'), i < j
               PROVE  used'[i].frame < used'[j].frame
    OBVIOUS
  <2>1. i \in 1 .. Len(used)
    BY <1>1, <1>2
  <2>2. CASE j = Len(used) + 1
    <3>1. used[i].frame <= frame /\ used[i].frame \in Nat
      BY <1>3, <2>1 DEF UsedInv
    <3>2. used'[i].frame = used[i].frame /\ used'[j].frame = frame + 1
      BY <1>2, <2>1, <2>2
    <3>3. QED
      BY <1>1, <3>1, <3>2
  <2>3. CASE j \in 1 .. Len(used)
    BY <1>2, <2>1, <2>3 DEF UsedInv
  <2>4. QED
    BY <1>1, <1>2, <2>2, <2>3
<1>6. QED
  BY <1>1, <1>2, <1>4, <1>5 DEF UsedInv

LEMMA UsedHolds == Spec => []UsedInv
<1>1. Init => UsedInv
  <2> SUFFICES ASSUME Init PROVE UsedInv
    OBVIOUS
  <2>1. used = <<>> /\ frame = 0 /\ pc = "frame"
    BY DEF Init
  <2>2. used \in Seq(UsedFrames) /\ Len(used) = 0
    BY <2>1
  <2>3. QED
    BY <2>1, <2>2 DEF UsedInv
<1>2. UsedInv /\ [Next]_vars => UsedInv'
  <2> SUFFICES ASSUME UsedInv, [Next]_vars
               PROVE  UsedInv'
    OBVIOUS
  <2>1. ASSUME NEW row \in Distributions, NEW c \in CollectFrameCandidates(row), BeginFrame(row, c)
        PROVE  UsedInv'
    <3>1. frame \in Nat /\ frame' = frame + 1 /\ pc = "frame"
      BY <2>1 DEF BeginFrame, UsedInv
    <3>2. CASE DOMAIN c = {}
      <4>1. used' = used /\ pc' = "frame"
        BY <2>1, <3>1, <3>2 DEF BeginFrame
      <4>2. \A i \in 1 .. Len(used) : used[i].frame \in Nat
        BY UsedTyped
      <4>3. \A i \in 1 .. Len(used) : used[i].frame <= frame + 1
        BY <3>1, <4>2 DEF UsedInv
      <4>4. QED
        BY <3>1, <4>1, <4>3 DEF UsedInv
    <3>3. CASE DOMAIN c # {}
      <4>1. used' = Append(used, [frame |-> frame + 1, row |-> row, candidates |-> c])
            /\ pc' = "expand"
        BY <2>1, <3>1, <3>3 DEF BeginFrame
      <4>2. [frame |-> frame + 1, row |-> row, candidates |-> c] \in UsedFrames
        BY <3>1, CandidatesTyped DEF UsedFrames
      <4>3. QED
        BY <3>1, <4>1, <4>2, UsedGrows
    <3>4. QED
      BY <3>2, <3>3
  <2>2. ASSUME UNCHANGED <<used, frame>>, pc' \in {pc, "frame", "done"}
        PROVE  UsedInv'
    BY <2>2 DEF UsedInv
  <2>3. CASE Expand \/ KeepTopPaths \/ Finish
    BY <2>2, <2>3 DEF Expand, KeepTopPaths, Finish
  <2>4. CASE Done \/ UNCHANGED vars
    BY <2>2, <2>4 DEF Done, vars
  <2>5. QED
    BY <2>1, <2>3, <2>4 DEF Next
<1>3. QED
  BY <1>1, <1>2, PTL DEF Spec
-----------------------------------------------------------------------------
PathStates == [blank_ending : Nat, non_blank_ending : Nat, emitted : Seq(Emissions)]

(* An emission of a token is the token as a frame was heard to have it.    *)
HeardAs(emission, token) ==
  /\ emission.token_id = token
  /\ \E j \in 1 .. Len(used) :
       emission.best_frame = used[j].frame /\ emission.best_prob = used[j].row[token]

(* The emissions of a path spell its prefix, in time order. *)
Spelled(emitted, prefix) ==
  /\ prefix \in Seq(Tokens) /\ emitted \in Seq(Emissions) /\ Len(emitted) = Len(prefix)
  /\ \A i \in 1 .. Len(prefix) : HeardAs(emitted[i], prefix[i])
  /\ \A i, j \in 1 .. Len(prefix) : i < j => emitted[i].best_frame < emitted[j].best_frame

(* None, or none but the last, is from the frame being worked on. *)
Earlier(emitted) == \A i \in 1 .. Len(emitted) : emitted[i].best_frame < frame

EarlierButLast(emitted) ==
  \A i \in 1 .. Len(emitted) : i < Len(emitted) => emitted[i].best_frame < frame

LEMMA EmissionTyped ==
  ASSUME NEW prefix, NEW emitted, Spelled(emitted, prefix), NEW i \in 1 .. Len(prefix)
  PROVE  /\ emitted[i] \in Emissions
         /\ emitted[i].token_id \in Nat /\ emitted[i].best_frame \in Nat
         /\ emitted[i].best_prob \in Nat
         /\ prefix[i] \in Tokens
<1>1. /\ prefix \in Seq(Tokens) /\ emitted \in Seq(Emissions) /\ Len(emitted) = Len(prefix)
  BY DEF Spelled
<1>2. emitted[i] \in Emissions /\ prefix[i] \in Tokens
  BY <1>1, ElementOfSeq
<1>3. QED
  BY <1>2 DEF Emissions

(* The token the candidate stands for was heard in the last frame used.    *)
LEMMA Candidate ==
  ASSUME UsedInv, pc = "expand", NEW c \in DOMAIN Back(used).candidates
  PROVE  LET token == Back(used).candidates[c]
         IN  /\ token \in Tokens /\ Back(used).row[token] \in Nat
             /\ Emission(token, Back(used).row[token]) \in Emissions
             /\ HeardAs(Emission(token, Back(used).row[token]), token)
<1> DEFINE last == Len(used)
           token == used[last].candidates[c]
<1>1. last \in 1 .. Len(used) /\ used[last].frame = frame /\ frame \in Nat /\ Back(used) = used[last]
  <2>1. Len(used) \in Nat
    BY LenProperties DEF UsedInv
  <2>2. QED
    BY <2>1 DEF UsedInv, Back
<1> HIDE DEF last
<1>2. used[last].row \in Distributions /\ used[last].candidates \in CandidateLists
  BY <1>1, UsedTyped
<1>3. token \in Tokens
  BY <1>1, <1>2 DEF CandidateLists
<1>4. used[last].row[token] \in 0 .. Unit /\ token \in Nat
  BY <1>2, <1>3, NumberAssumption, TokenAssumption
<1>5. used[last].row[token] \in Nat
  BY <1>4, NumberAssumption
<1> HIDE DEF token
<1>6. Emission(token, used[last].row[token]) \in Emissions
  BY <1>1, <1>4, <1>5 DEF Emission, Emissions
<1>7. HeardAs(Emission(token, used[last].row[token]), token)
  BY <1>1 DEF HeardAs, Emission
<1>8. QED
  BY <1>1, <1>3, <1>5, <1>6, <1>7 DEF token

(* A path that is one token longer.                                        *)
LEMMA Appended ==
  ASSUME NEW prefix, NEW emitted, NEW token \in Tokens, NEW emission \in Emissions,
         Spelled(emitted, prefix), Earlier(emitted),
         HeardAs(emission, token), emission.best_frame = frame
  PROVE  /\ Spelled(Append(emitted, emission), Append(prefix, token))
         /\ EarlierButLast(Append(emitted, emission))
<1> DEFINE longer == Append(emitted, emission)
           extended == Append(prefix, token)
           n == Len(prefix)
<1>1. /\ prefix \in Seq(Tokens) /\ emitted \in Seq(Emissions) /\ Len(emitted) = n
      /\ \A i \in 1 .. n : HeardAs(emitted[i], prefix[i])
      /\ \A i, j \in 1 .. n : i < j => emitted[i].best_frame < emitted[j].best_frame
  BY DEF Spelled
<1>2. n \in Nat
  BY <1>1, LenProperties
<1>3. /\ longer \in Seq(Emissions) /\ Len(longer) = n + 1
      /\ \A i \in 1 .. n : longer[i] = emitted[i]
      /\ longer[n + 1] = emission
  BY <1>1, AppendProperties
<1>4. /\ extended \in Seq(Tokens) /\ Len(extended) = n + 1
      /\ \A i \in 1 .. n : extended[i] = prefix[i]
      /\ extended[n + 1] = token
  BY <1>1, AppendProperties
<1>5. \A i \in 1 .. n : emitted[i].best_frame < frame
  BY <1>1 DEF Earlier
<1> HIDE DEF longer, extended, n
<1>6. \A i \in 1 .. n + 1 : i = n + 1 \/ i \in 1 .. n
  BY <1>2
<1>7. \A i \in 1 .. n + 1 : HeardAs(longer[i], extended[i])
  BY <1>1, <1>3, <1>4, <1>6
<1>8. ASSUME NEW i \in 1 .. n + 1, NEW j \in 1 .. n + 1, i < j
      PROVE  longer[i].best_frame < longer[j].best_frame
  <2>1. i \in 1 .. n
    BY <1>2, <1>8
  <2>2. CASE j = n + 1
    BY <1>3, <1>5, <2>1, <2>2
  <2>3. CASE j \in 1 .. n
    BY <1>1, <1>3, <1>8, <2>1, <2>3
  <2>4. QED
    BY <1>6, <2>2, <2>3
<1>9. Spelled(longer, extended)
  BY <1>3, <1>4, <1>7, <1>8 DEF Spelled
<1>10. EarlierButLast(longer)
  <2> SUFFICES ASSUME NEW i \in 1 .. Len(longer), i < Len(longer)
               PROVE  longer[i].best_frame < frame
    BY DEF EarlierButLast
  <2>1. i \in 1 .. n
    BY <1>2, <1>3
  <2>2. QED
    BY <1>3, <1>5, <2>1
<1>11. QED
  BY <1>9, <1>10 DEF longer, extended

(* A last emission replaced by one that is heard better.                   *)
LEMMA Updated ==
  ASSUME NEW prefix, NEW emitted, NEW token \in Tokens, NEW prob,
         Spelled(emitted, prefix), EarlierButLast(emitted), frame \in Nat,
         prefix # <<>> => prefix[Len(prefix)] = token,
         Emission(token, prob) \in Emissions, HeardAs(Emission(token, prob), token)
  PROVE  /\ Spelled(MaybeUpdateLastEmission(emitted, token, prob), prefix)
         /\ EarlierButLast(MaybeUpdateLastEmission(emitted, token, prob))
<1> DEFINE updated == [emitted EXCEPT ![Len(emitted)] = Emission(token, prob)]
           n == Len(prefix)
<1>1. CASE MaybeUpdateLastEmission(emitted, token, prob) = emitted
  BY <1>1
<1>2. CASE /\ MaybeUpdateLastEmission(emitted, token, prob) = updated
           /\ emitted # <<>>
  <2>1. /\ prefix \in Seq(Tokens) /\ emitted \in Seq(Emissions) /\ Len(emitted) = n
        /\ \A i \in 1 .. n : HeardAs(emitted[i], prefix[i])
        /\ \A i, j \in 1 .. n : i < j => emitted[i].best_frame < emitted[j].best_frame
    BY DEF Spelled
  <2>2. n \in Nat \ {0}
    BY <1>2, <2>1, EmptySeq
  <2>3. prefix # <<>>
    BY <2>2
  <2>4. prefix[n] = token
    BY <2>3
  <2>5. /\ updated \in Seq(Emissions) /\ Len(updated) = n
        /\ updated[n] = Emission(token, prob)
        /\ \A i \in 1 .. n : i # n => updated[i] = emitted[i]
    BY <2>1, <2>2, ExceptSeq
  <2>6. \A i \in 1 .. n : i < n => emitted[i].best_frame < frame
    BY <2>1 DEF EarlierButLast
  <2>7. Emission(token, prob).best_frame = frame
    BY DEF Emission
  <2> HIDE DEF updated, n
  <2>8. \A i \in 1 .. n : HeardAs(updated[i], prefix[i])
    BY <2>1, <2>4, <2>5
  <2>9. ASSUME NEW i \in 1 .. n, NEW j \in 1 .. n, i < j
        PROVE  updated[i].best_frame < updated[j].best_frame
    <3>1. i # n /\ i < n
      BY <2>2, <2>9
    <3>2. CASE j = n
      BY <2>5, <2>6, <2>7, <3>1, <3>2
    <3>3. CASE j # n
      BY <2>1, <2>5, <2>9, <3>1, <3>3
    <3>4. QED
      BY <3>2, <3>3
  <2>10. Spelled(updated, prefix)
    BY <2>1, <2>5, <2>8, <2>9 DEF Spelled, n
  <2>11. EarlierButLast(updated)
    BY <2>2, <2>5, <2>6 DEF EarlierButLast
  <2>12. QED
    BY <1>2, <2>10, <2>11
<1>3. QED
  BY <1>1, <1>2 DEF MaybeUpdateLastEmission
-----------------------------------------------------------------------------
SoundPaths(paths) ==
  \A p \in DOMAIN paths :
    /\ paths[p] \in PathStates
    /\ Spelled(paths[p].emitted, p) /\ EarlierButLast(paths[p].emitted)

(* A path of the last frame's beam, and a candidate of the frame at hand.  *)
IsSource(src, prefix) ==
  src \in PathStates /\ Spelled(src.emitted, prefix) /\ Earlier(src.emitted)

IsHeard(token, prob) ==
  /\ token \in Tokens /\ prob \in Nat /\ frame \in Nat
  /\ Emission(token, prob) \in Emissions /\ HeardAs(Emission(token, prob), token)

LEMMA PutSound ==
  ASSUME NEW paths, SoundPaths(paths), NEW prefix, NEW path \in PathStates,
         Spelled(path.emitted, prefix), EarlierButLast(path.emitted)
  PROVE  SoundPaths(Put(paths, prefix, path))
<1> SUFFICES ASSUME NEW p \in DOMAIN Put(paths, prefix, path)
             PROVE  /\ Put(paths, prefix, path)[p] \in PathStates
                    /\ Spelled(Put(paths, prefix, path)[p].emitted, p)
                    /\ EarlierButLast(Put(paths, prefix, path)[p].emitted)
  BY DEF SoundPaths
<1>1. p \in DOMAIN paths \union {prefix}
      /\ Put(paths, prefix, path)[p] = IF p = prefix THEN path ELSE paths[p]
  BY DEF Put
<1>2. CASE p = prefix
  BY <1>1, <1>2
<1>3. CASE p # prefix
  BY <1>1, <1>3 DEF SoundPaths
<1>4. QED
  BY <1>2, <1>3

LEMMA AtTyped ==
  ASSUME NEW paths, SoundPaths(paths), NEW prefix
  PROVE  /\ At(paths, prefix) \in PathStates
         /\ At(paths, prefix).emitted # <<>> =>
              /\ Spelled(At(paths, prefix).emitted, prefix)
              /\ EarlierButLast(At(paths, prefix).emitted)
<1>1. CASE prefix \in DOMAIN paths
  BY <1>1 DEF At, SoundPaths
<1>2. CASE prefix \notin DOMAIN paths
  <2>1. At(paths, prefix) = [blank_ending |-> 0, non_blank_ending |-> 0, emitted |-> <<>>]
    BY <1>2 DEF At, NoPath
  <2>2. <<>> \in Seq(Emissions)
    OBVIOUS
  <2>3. QED
    BY <2>1, <2>2 DEF PathStates
<1>3. QED
  BY <1>1, <1>2

(* A path that is given mass and emissions.                                *)
GivenBlank(path, mass, emitted) == [path EXCEPT !.blank_ending = @ + mass, !.emitted = emitted]

GivenToken(path, mass, emitted) ==
  [path EXCEPT !.non_blank_ending = @ + mass, !.emitted = emitted]

LEMMA GivenTyped ==
  ASSUME NEW path \in PathStates, NEW mass \in Nat, NEW emitted \in Seq(Emissions)
  PROVE  /\ GivenBlank(path, mass, emitted) \in PathStates
         /\ GivenBlank(path, mass, emitted).emitted = emitted
         /\ GivenToken(path, mass, emitted) \in PathStates
         /\ GivenToken(path, mass, emitted).emitted = emitted
<1> DEFINE Texts == Seq(Emissions)
<1>1. path \in [blank_ending : Nat, non_blank_ending : Nat, emitted : Texts] /\ emitted \in Texts
  BY DEF PathStates
<1> HIDE DEF Texts
<1>2. path.blank_ending + mass \in Nat /\ path.non_blank_ending + mass \in Nat
  BY <1>1
<1>3. /\ GivenBlank(path, mass, emitted) \in
           [blank_ending : Nat, non_blank_ending : Nat, emitted : Texts]
      /\ GivenBlank(path, mass, emitted).emitted = emitted
  BY <1>1, <1>2 DEF GivenBlank
<1>4. /\ GivenToken(path, mass, emitted) \in
           [blank_ending : Nat, non_blank_ending : Nat, emitted : Texts]
      /\ GivenToken(path, mass, emitted).emitted = emitted
  BY <1>1, <1>2 DEF GivenToken
<1>5. QED
  BY <1>3, <1>4 DEF PathStates, Texts

LEMMA MassTyped ==
  ASSUME NEW src \in PathStates, NEW prob \in Nat
  PROVE  /\ Total(src) * prob \in Nat
         /\ src.non_blank_ending * prob \in Nat /\ src.blank_ending * prob \in Nat
<1>1. \A mass \in Nat : mass * prob \in Nat
  OBVIOUS
<1>2. Total(src) \in Nat /\ src.blank_ending \in Nat /\ src.non_blank_ending \in Nat
  BY DEF PathStates, Total
<1>3. QED
  BY <1>1, <1>2

LEMMA BlankSound ==
  ASSUME NEW paths, SoundPaths(paths), NEW prefix, NEW src, IsSource(src, prefix),
         NEW prob \in Nat
  PROVE  SoundPaths(ExpandBlank(paths, prefix, src, prob))
<1> DEFINE dst == At(paths, prefix)
           mass == Total(src) * prob
           path == GivenBlank(dst, mass, src.emitted)
<1>1. /\ src \in PathStates /\ Spelled(src.emitted, prefix) /\ src.emitted \in Seq(Emissions)
      /\ EarlierButLast(src.emitted)
  BY DEF IsSource, Earlier, EarlierButLast, Spelled
<1>2. mass \in Nat /\ dst \in PathStates
  BY <1>1, MassTyped, AtTyped
<1>3. ExpandBlank(paths, prefix, src, prob) = Put(paths, prefix, path)
  BY DEF ExpandBlank, GivenBlank
<1> HIDE DEF mass, dst
<1>4. path \in PathStates /\ path.emitted = src.emitted
  BY <1>1, <1>2, GivenTyped
<1> HIDE DEF path
<1>5. QED
  BY <1>1, <1>3, <1>4, PutSound

LEMMA RepeatLastSound ==
  ASSUME NEW paths, SoundPaths(paths), NEW prefix, NEW src, IsSource(src, prefix),
         NEW token, NEW prob, IsHeard(token, prob), Repeats(prefix, token)
  PROVE  SoundPaths(RepeatLast(paths, prefix, src, token, prob))
<1> DEFINE mass == src.non_blank_ending * prob
           emitted == MaybeUpdateLastEmission(src.emitted, token, prob)
           dst == At(paths, prefix)
           path == GivenToken(dst, mass, emitted)
           last == RepeatLast(paths, prefix, src, token, prob)
<1>1. /\ src \in PathStates /\ Spelled(src.emitted, prefix) /\ EarlierButLast(src.emitted)
      /\ token \in Tokens /\ prob \in Nat /\ frame \in Nat
      /\ Emission(token, prob) \in Emissions /\ HeardAs(Emission(token, prob), token)
  BY DEF IsSource, Earlier, EarlierButLast, IsHeard
<1>2. prefix # <<>> => prefix[Len(prefix)] = token
  BY DEF Repeats, Back
<1>3. Spelled(emitted, prefix) /\ EarlierButLast(emitted)
  BY <1>1, <1>2, Updated
<1>4. mass \in Nat /\ dst \in PathStates
  BY <1>1, MassTyped, AtTyped
<1>5. last = paths \/ last = Put(paths, prefix, path)
  BY DEF RepeatLast, GivenToken
<1> HIDE DEF dst, mass, emitted, last
<1>6. emitted \in Seq(Emissions)
  BY <1>3 DEF Spelled
<1>7. path \in PathStates /\ path.emitted = emitted
  BY <1>4, <1>6, GivenTyped
<1> HIDE DEF path
<1>8. SoundPaths(last)
  BY <1>3, <1>5, <1>7, PutSound
<1>9. QED
  BY <1>8 DEF last

LEMMA RepeatSound ==
  ASSUME NEW paths, SoundPaths(paths), NEW prefix, NEW src, IsSource(src, prefix),
         NEW token, NEW prob, IsHeard(token, prob), Repeats(prefix, token)
  PROVE  SoundPaths(ExpandRepeat(paths, prefix, src, token, prob))
<1> DEFINE last == RepeatLast(paths, prefix, src, token, prob)
<1>1. /\ src \in PathStates /\ Spelled(src.emitted, prefix) /\ Earlier(src.emitted)
      /\ EarlierButLast(src.emitted)
      /\ token \in Tokens /\ prob \in Nat /\ frame \in Nat
      /\ Emission(token, prob) \in Emissions /\ HeardAs(Emission(token, prob), token)
  BY DEF IsSource, Earlier, EarlierButLast, IsHeard
<1>2. SoundPaths(last)
  BY RepeatLastSound
<1>3. SoundPaths(RepeatAfterBlank(last, prefix, src, token, prob))
  <2> HIDE DEF last
  <2> DEFINE extended == Append(prefix, token)
             mass == src.blank_ending * prob
             emitted == Append(src.emitted, Emission(token, prob))
             dst == At(last, extended)
             path == GivenToken(dst, mass, emitted)
  <2>1. Emission(token, prob).best_frame = frame
    BY DEF Emission
  <2>2. Spelled(emitted, extended) /\ EarlierButLast(emitted)
    BY <1>1, <2>1, Appended
  <2>3. mass \in Nat /\ dst \in PathStates
    BY <1>1, <1>2, MassTyped, AtTyped
  <2>4. \/ RepeatAfterBlank(last, prefix, src, token, prob) = last
        \/ RepeatAfterBlank(last, prefix, src, token, prob) = Put(last, extended, path)
    BY DEF RepeatAfterBlank, GivenToken
  <2> HIDE DEF dst, mass, emitted, extended
  <2>5. emitted \in Seq(Emissions)
    BY <2>2 DEF Spelled
  <2>6. path \in PathStates /\ path.emitted = emitted
    BY <2>3, <2>5, GivenTyped
  <2> HIDE DEF path
  <2>7. QED
    BY <1>2, <2>2, <2>4, <2>6, PutSound
<1>4. QED
  BY <1>3 DEF ExpandRepeat

LEMMA NewTokenSound ==
  ASSUME NEW paths, SoundPaths(paths), NEW prefix, NEW src, IsSource(src, prefix),
         NEW token, NEW prob, IsHeard(token, prob)
  PROVE  SoundPaths(ExpandNewToken(paths, prefix, src, token, prob))
<1> DEFINE extended == Append(prefix, token)
           dst == At(paths, extended)
           mass == Total(src) * prob
           emitted == IF dst.emitted = <<>>
                      THEN Append(src.emitted, Emission(token, prob))
                      ELSE MaybeUpdateLastEmission(dst.emitted, token, prob)
           path == GivenToken(dst, mass, emitted)
<1>1. /\ src \in PathStates /\ Spelled(src.emitted, prefix) /\ Earlier(src.emitted)
      /\ token \in Tokens /\ prob \in Nat /\ frame \in Nat
      /\ Emission(token, prob) \in Emissions /\ HeardAs(Emission(token, prob), token)
      /\ Emission(token, prob).best_frame = frame
  BY DEF IsSource, IsHeard, Emission
<1>2. extended[Len(extended)] = token
  <2>1. prefix \in Seq(Tokens)
    BY <1>1 DEF Spelled
  <2>2. Len(extended) = Len(prefix) + 1 /\ extended[Len(prefix) + 1] = token
    BY <1>1, <2>1, AppendProperties
  <2>3. QED
    BY <2>2
<1>3. /\ dst \in PathStates
      /\ dst.emitted # <<>> => Spelled(dst.emitted, extended) /\ EarlierButLast(dst.emitted)
  BY AtTyped
<1>4. mass \in Nat
  BY <1>1, MassTyped
<1>5. Spelled(emitted, extended) /\ EarlierButLast(emitted)
  <2>1. CASE dst.emitted = <<>>
    <3>1. emitted = Append(src.emitted, Emission(token, prob))
      BY <2>1
    <3>2. QED
      BY <1>1, <3>1, Appended
  <2>2. CASE dst.emitted # <<>>
    <3>1. emitted = MaybeUpdateLastEmission(dst.emitted, token, prob)
      BY <2>2
    <3> HIDE DEF emitted, dst, extended
    <3>2. QED
      BY <1>1, <1>2, <1>3, <2>2, <3>1, Updated
  <2>3. QED
    BY <2>1, <2>2
<1>6. ExpandNewToken(paths, prefix, src, token, prob) = Put(paths, extended, path)
  <2>1. path = [dst EXCEPT !.non_blank_ending = @ + Total(src) * prob,
                           !.emitted = IF @ = <<>>
                                       THEN Append(src.emitted, Emission(token, prob))
                                       ELSE MaybeUpdateLastEmission(@, token, prob)]
    <3> HIDE DEF dst
    <3>1. QED
      BY <1>3 DEF PathStates, GivenToken
  <2>2. QED
    BY <2>1 DEF ExpandNewToken, GivenToken
<1> HIDE DEF mass, emitted, extended, dst
<1>7. emitted \in Seq(Emissions)
  BY <1>5 DEF Spelled
<1>8. path \in PathStates /\ path.emitted = emitted
  BY <1>3, <1>4, <1>7, GivenTyped
<1> HIDE DEF path
<1>9. QED
  BY <1>5, <1>6, <1>8, PutSound
-----------------------------------------------------------------------------
(* Both beams are sound, and while a frame is worked on no path of the     *)
(* last one has an emission from it.                                       *)
PathInv ==
  /\ SoundPaths(beam)
  /\ pc = "expand" =>
       /\ SoundPaths(next)
       /\ \A p \in DOMAIN beam : Earlier(beam[p].emitted)
       /\ todo \subseteq (DOMAIN Back(used).candidates) \X (DOMAIN beam)

(* When the next frame begins all emissions are from earlier ones. *)
LEMMA SoundLater ==
  ASSUME UsedInv, SoundPaths(beam), beam' = beam, frame' = frame + 1,
         Len(used) \in Nat, Len(used') \in Nat, Len(used) <= Len(used'),
         \A i \in 1 .. Len(used) : used'[i] = used[i]
  PROVE  SoundPaths(beam)' /\ (\A p \in DOMAIN beam : Earlier(beam[p].emitted))'
<1> SUFFICES ASSUME NEW p \in DOMAIN beam
             PROVE  /\ beam[p] \in PathStates
                    /\ Spelled(beam[p].emitted, p)' /\ EarlierButLast(beam[p].emitted)'
                    /\ Earlier(beam[p].emitted)'
  BY DEF SoundPaths
<1> DEFINE emitted == beam[p].emitted
<1>1. beam[p] \in PathStates /\ Spelled(emitted, p)
  BY DEF SoundPaths
<1>2. emitted' = emitted
  OBVIOUS
<1> HIDE DEF emitted
<1>3. /\ p \in Seq(Tokens) /\ emitted \in Seq(Emissions) /\ Len(emitted) = Len(p)
      /\ \A i, j \in 1 .. Len(p) : i < j => emitted[i].best_frame < emitted[j].best_frame
  BY <1>1 DEF Spelled
<1>4. ASSUME NEW i \in 1 .. Len(p)
      PROVE  HeardAs(emitted[i], p[i])' /\ emitted[i].best_frame < frame + 1
  <2>1. PICK j \in 1 .. Len(used) :
          emitted[i].best_frame = used[j].frame /\ emitted[i].best_prob = used[j].row[p[i]]
    BY <1>1 DEF Spelled, HeardAs
  <2>2. emitted[i].token_id = p[i]
    BY <1>1 DEF Spelled, HeardAs
  <2>3. used[j].frame \in Nat /\ used[j].frame <= frame /\ frame \in Nat
    BY UsedTyped DEF UsedInv
  <2>4. j \in 1 .. Len(used') /\ used'[j] = used[j]
    BY <2>1
  <2>5. HeardAs(emitted[i], p[i])'
    BY <1>2, <2>1, <2>2, <2>4 DEF HeardAs
  <2>6. QED
    BY <2>1, <2>3, <2>5
<1>5. Spelled(emitted, p)'
  BY <1>2, <1>3, <1>4 DEF Spelled
<1>6. Earlier(emitted)'
  BY <1>2, <1>3, <1>4 DEF Earlier
<1>7. EarlierButLast(emitted)'
  BY <1>6 DEF Earlier, EarlierButLast
<1>8. QED
  BY <1>1, <1>5, <1>6, <1>7 DEF emitted

(* One turn of the two loops leaves the beam being built sound. *)
LEMMA TurnSound ==
  ASSUME UsedInv, PathInv, pc = "expand",
         NEW c \in DOMAIN Back(used).candidates, NEW prefix \in DOMAIN beam,
         NEW token, NEW prob, token = Back(used).candidates[c], prob = Back(used).row[token],
         ExpandOneStep(prefix, beam[prefix], token, prob)
  PROVE  \E paths : next' = paths /\ SoundPaths(paths)
<1>1. SoundPaths(next) /\ IsSource(beam[prefix], prefix)
  BY DEF PathInv, IsSource, SoundPaths
<1>2. IsHeard(token, prob)
  BY Candidate DEF IsHeard, UsedInv
<1>3. prob \in Nat
  BY <1>2 DEF IsHeard
<1>4. CASE token = Blank
  <2>1. next' = ExpandBlank(next, prefix, beam[prefix], prob)
    BY <1>4 DEF ExpandOneStep
  <2>2. QED
    BY <1>1, <1>3, <2>1, BlankSound
<1>5. CASE token # Blank /\ Repeats(prefix, token)
  <2>1. next' = ExpandRepeat(next, prefix, beam[prefix], token, prob)
    BY <1>5 DEF ExpandOneStep
  <2>2. QED
    BY <1>1, <1>2, <1>5, <2>1, RepeatSound
<1>6. CASE token # Blank /\ ~Repeats(prefix, token)
  <2>1. next' = ExpandNewToken(next, prefix, beam[prefix], token, prob)
    BY <1>6 DEF ExpandOneStep
  <2>2. QED
    BY <1>1, <1>2, <2>1, NewTokenSound
<1>7. QED
  BY <1>4, <1>5, <1>6

LEMMA SoundSame ==
  ASSUME NEW paths, SoundPaths(paths), UNCHANGED <<frame, used>>,
         beam' = paths \/ next' = paths
  PROVE  /\ beam' = paths => SoundPaths(beam)'
         /\ next' = paths => SoundPaths(next)'
<1>1. ASSUME NEW p \in DOMAIN paths
      PROVE  /\ paths[p] \in PathStates
             /\ Spelled(paths[p].emitted, p)' /\ EarlierButLast(paths[p].emitted)'
  <2> DEFINE emitted == paths[p].emitted
  <2>1. paths[p] \in PathStates /\ Spelled(emitted, p) /\ EarlierButLast(emitted)
    BY DEF SoundPaths
  <2> HIDE DEF emitted
  <2>2. Spelled(emitted, p)'
    BY <2>1 DEF Spelled, HeardAs
  <2>3. EarlierButLast(emitted)'
    BY <2>1 DEF EarlierButLast
  <2>4. QED
    BY <2>1, <2>2, <2>3 DEF emitted
<1>2. QED
  BY <1>1 DEF SoundPaths

LEMMA PathsHold == Spec => []PathInv
<1>1. Init => PathInv
  <2> SUFFICES ASSUME Init PROVE PathInv
    OBVIOUS
  <2>1. pc = "frame" /\ beam = [p \in {<<>>} |-> [NoPath EXCEPT !.blank_ending = 1]]
    BY DEF Init
  <2>2. [NoPath EXCEPT !.blank_ending = 1]
          = [blank_ending |-> 1, non_blank_ending |-> 0, emitted |-> <<>>]
    BY DEF NoPath
  <2>3. DOMAIN beam = {<<>>} /\ beam[<<>>].emitted = <<>> /\ beam[<<>>] \in PathStates
    <3> DEFINE first == [blank_ending |-> 1, non_blank_ending |-> 0, emitted |-> <<>>]
               Texts == Seq(Emissions)
    <3>1. <<>> \in Texts
      OBVIOUS
    <3> HIDE DEF Texts
    <3>2. first \in [blank_ending : Nat, non_blank_ending : Nat, emitted : Texts]
          /\ first.emitted = <<>>
      BY <3>1
    <3>3. DOMAIN beam = {<<>>} /\ beam[<<>>] = first
      <4> HIDE DEF first
      <4>1. beam = [p \in {<<>>} |-> first]
        BY <2>1, <2>2 DEF first
      <4>2. QED
        BY <4>1
    <3>4. QED
      BY <3>2, <3>3 DEF PathStates, Texts
  <2>4. Spelled(<<>>, <<>>) /\ EarlierButLast(<<>>)
    <3>1. <<>> \in Seq(Emissions) /\ <<>> \in Seq(Tokens) /\ Len(<<>>) = 0
      OBVIOUS
    <3>2. QED
      BY <3>1 DEF Spelled, EarlierButLast
  <2>5. QED
    BY <2>1, <2>3, <2>4 DEF PathInv, SoundPaths
<1>2. UsedInv /\ PathInv /\ [Next]_vars => PathInv'
  <2> SUFFICES ASSUME UsedInv, PathInv, [Next]_vars
               PROVE  PathInv'
    OBVIOUS
  <2>1. ASSUME NEW row \in Distributions, NEW c \in CollectFrameCandidates(row), BeginFrame(row, c)
        PROVE  PathInv'
    <3>1. SoundPaths(beam) /\ beam' = beam /\ frame' = frame + 1 /\ pc = "frame"
          /\ used \in Seq(UsedFrames) /\ Len(used) \in Nat /\ frame \in Nat
      BY <2>1, LenProperties DEF BeginFrame, UsedInv, PathInv
    <3>2. CASE DOMAIN c = {}
      <4>1. used' = used /\ pc' = "frame"
        BY <2>1, <3>1, <3>2 DEF BeginFrame
      <4>2. SoundPaths(beam)'
        BY <3>1, <4>1, SoundLater
      <4>3. QED
        BY <4>1, <4>2 DEF PathInv
    <3>3. CASE DOMAIN c # {}
      <4> DEFINE listened == [frame |-> frame + 1, row |-> row, candidates |-> c]
      <4>1. /\ used' = Append(used, listened) /\ pc' = "expand" /\ next' = <<>>
            /\ todo' = (DOMAIN c) \X (DOMAIN beam)
        BY <2>1, <3>1, <3>3 DEF BeginFrame
      <4>2. listened \in UsedFrames /\ listened.frame = frame + 1 /\ listened.candidates = c
        BY <3>1, CandidatesTyped DEF UsedFrames
      <4> HIDE DEF listened
      <4>3. /\ Len(used') = Len(used) + 1 /\ \A i \in 1 .. Len(used) : used'[i] = used[i]
            /\ used'[Len(used')] = listened
        BY <3>1, <4>1, <4>2, UsedGrows
      <4>4. SoundPaths(beam)' /\ (\A p \in DOMAIN beam : Earlier(beam[p].emitted))'
        BY <3>1, <4>3, SoundLater
      <4>5. SoundPaths(next)'
        BY <4>1 DEF SoundPaths
      <4>6. todo' = (DOMAIN Back(used)'.candidates) \X (DOMAIN beam')
        BY <3>1, <4>1, <4>2, <4>3 DEF Back
      <4>7. QED
        BY <4>4, <4>5, <4>6 DEF PathInv
    <3>4. QED
      BY <3>2, <3>3
  <2>2. ASSUME Expand
        PROVE  PathInv'
    <3>1. PICK turn \in todo :
            /\ pc = "expand"
            /\ ExpandOneStep(turn[2], beam[turn[2]], Back(used).candidates[turn[1]],
                             Back(used).row[Back(used).candidates[turn[1]]])
            /\ todo' = todo \ {turn}
            /\ UNCHANGED <<pc, frame, used, scale, beam, detection>>
      BY <2>2 DEF Expand
    <3>2. turn[1] \in DOMAIN Back(used).candidates /\ turn[2] \in DOMAIN beam
      BY <3>1 DEF PathInv
    <3>3. PICK paths : next' = paths /\ SoundPaths(paths)
      BY <3>1, <3>2, TurnSound
    <3>4. SoundPaths(next)' /\ SoundPaths(beam)'
      <4>1. SoundPaths(beam)
        BY DEF PathInv
      <4>2. QED
        BY <3>1, <3>3, <4>1, SoundSame
    <3>5. (\A p \in DOMAIN beam : Earlier(beam[p].emitted))'
      BY <3>1 DEF PathInv, Earlier
    <3>6. todo' \subseteq (DOMAIN Back(used)'.candidates) \X (DOMAIN beam')
      BY <3>1 DEF PathInv, Back
    <3>7. QED
      BY <3>4, <3>5, <3>6 DEF PathInv
  <2>3. ASSUME KeepTopPaths
        PROVE  PathInv'
    <3>1. pc = "expand" /\ pc' = "frame" /\ UNCHANGED <<frame, used>>
      BY <2>3 DEF KeepTopPaths
    <3>2. PICK kept \in Heaviest(next) : beam' = [p \in kept |-> next[p]]
      BY <2>3 DEF KeepTopPaths
    <3>3. kept \subseteq DOMAIN next
      BY DEF Heaviest
    <3>4. SoundPaths([p \in kept |-> next[p]])
      BY <3>1, <3>3 DEF PathInv, SoundPaths
    <3>5. SoundPaths(beam)'
      BY <3>1, <3>2, <3>4, SoundSame
    <3>6. QED
      BY <3>1, <3>5 DEF PathInv
  <2>4. ASSUME UNCHANGED <<frame, used, beam, next, todo>>, pc' = pc \/ pc' = "done"
        PROVE  PathInv'
    BY <2>4 DEF PathInv, SoundPaths, Spelled, HeardAs, Earlier, EarlierButLast, Back
  <2>5. CASE Finish \/ Done \/ UNCHANGED vars
    BY <2>4, <2>5 DEF Finish, Done, vars
  <2>6. QED
    BY <2>1, <2>2, <2>3, <2>5 DEF Next
<1>3. QED
  BY <1>1, <1>2, UsedHolds, PTL DEF Spec
-----------------------------------------------------------------------------
(* A frame number stands for one frame only. *)
LEMMA RowFound ==
  ASSUME UsedInv, NEW j \in 1 .. Len(used)
  PROVE  RowOf(used[j].frame) = used[j].row
<1> DEFINE i == CHOOSE k \in 1 .. Len(used) : used[k].frame = used[j].frame
<1>1. i \in 1 .. Len(used) /\ used[i].frame = used[j].frame
  OBVIOUS
<1> HIDE DEF i
<1>2. used[i].frame \in Nat /\ used[j].frame \in Nat
  BY <1>1, UsedTyped
<1>3. Len(used) \in Nat
  BY LenProperties DEF UsedInv
<1>4. i = j
  BY <1>1, <1>2, <1>3 DEF UsedInv
<1>5. QED
  BY <1>4 DEF RowOf, i

(* In every run and every path of both beams, for any network and any      *)
(* tokens that repeat, the emissions spell the path, each heard in a frame *)
(* of its own that was not skipped and with the probability it had there,  *)
(* in time order: what MatchKeywords makes its score and times from.       *)
THEOREM EmissionsHeard == Spec => []EmissionsFaithful
<1>1. UsedInv /\ PathInv => EmissionsFaithful
  <2> SUFFICES ASSUME UsedInv, PathInv, NEW paths \in Paths, NEW p \in DOMAIN paths
               PROVE  LET emitted == paths[p].emitted IN
                      /\ Len(emitted) = Len(p)
                      /\ \A i \in 1 .. Len(p) :
                           /\ emitted[i].token_id = p[i]
                           /\ \E j \in 1 .. Len(used) : used[j].frame = emitted[i].best_frame
                           /\ emitted[i].best_prob = RowOf(emitted[i].best_frame)[p[i]]
                           /\ i > 1 => emitted[i - 1].best_frame < emitted[i].best_frame
    BY DEF EmissionsFaithful
  <2> DEFINE emitted == paths[p].emitted
  <2>1. Spelled(emitted, p)
    <3>1. SoundPaths(paths)
      BY DEF Paths, PathInv
    <3>2. QED
      BY <3>1 DEF SoundPaths
  <2> HIDE DEF emitted
  <2>2. /\ Len(emitted) = Len(p) /\ Len(p) \in Nat
        /\ \A i \in 1 .. Len(p) : HeardAs(emitted[i], p[i])
        /\ \A i, j \in 1 .. Len(p) : i < j => emitted[i].best_frame < emitted[j].best_frame
    BY <2>1, LenProperties DEF Spelled
  <2>3. ASSUME NEW i \in 1 .. Len(p)
        PROVE  /\ emitted[i].token_id = p[i]
               /\ \E j \in 1 .. Len(used) : used[j].frame = emitted[i].best_frame
               /\ emitted[i].best_prob = RowOf(emitted[i].best_frame)[p[i]]
               /\ i > 1 => emitted[i - 1].best_frame < emitted[i].best_frame
    <3>1. PICK j \in 1 .. Len(used) :
            emitted[i].best_frame = used[j].frame /\ emitted[i].best_prob = used[j].row[p[i]]
      BY <2>2 DEF HeardAs
    <3>2. emitted[i].token_id = p[i]
      BY <2>2 DEF HeardAs
    <3>3. emitted[i].best_prob = RowOf(emitted[i].best_frame)[p[i]]
      BY <3>1, RowFound
    <3>4. i > 1 => emitted[i - 1].best_frame < emitted[i].best_frame
      <4>1. i > 1 => i - 1 \in 1 .. Len(p) /\ i - 1 < i
        BY <2>2
      <4>2. QED
        BY <2>2, <4>1
    <3>5. QED
      BY <3>1, <3>2, <3>3, <3>4
  <2>4. QED
    BY <2>2, <2>3 DEF emitted
<1>2. QED
  BY <1>1, UsedHolds, PathsHold, PTL
-----------------------------------------------------------------------------
(* The rows that were listened to, as KeywordSpotter knows them. *)
Rows == [i \in 1 .. Len(used) |-> used[i].row]

(* Nothing is answered before the end. *)
QuietInv == pc # "done" => detection = NotDetected

LEMMA QuietHolds == Spec => []QuietInv
<1>1. Init => QuietInv
  BY DEF Init, QuietInv
<1>2. QuietInv /\ [Next]_vars => QuietInv'
  BY DEF QuietInv, Next, vars, BeginFrame, Expand, KeepTopPaths, Finish, Done
<1>3. QED
  BY <1>1, <1>2, PTL DEF Spec

LEMMA RowsGrow ==
  ASSUME used \in Seq(UsedFrames), NEW listened \in UsedFrames, used' = Append(used, listened)
  PROVE  Rows' = Append(Rows, listened.row)
<1>1. /\ Len(used) \in Nat /\ Len(used') = Len(used) + 1
      /\ \A i \in 1 .. Len(used) : used'[i] = used[i]
      /\ used'[Len(used) + 1] = listened
  BY AppendProperties, LenProperties
<1>2. \A i \in 1 .. Len(used) : used[i].row \in Distributions
  <2>1. \A i \in 1 .. Len(used) : used[i] \in UsedFrames
    BY ElementOfSeq
  <2>2. QED
    BY <2>1 DEF UsedFrames
<1>3. Rows \in Seq(Distributions) /\ Len(Rows) = Len(used)
  BY <1>1, <1>2 DEF Rows
<1>4. listened.row \in Distributions
  BY DEF UsedFrames
<1> DEFINE longer == Append(Rows, listened.row)
<1>5. /\ longer \in Seq(Distributions) /\ Len(longer) = Len(used) + 1
      /\ \A i \in 1 .. Len(used) : longer[i] = Rows[i]
      /\ longer[Len(used) + 1] = listened.row
  BY <1>3, <1>4, AppendProperties
<1> HIDE DEF longer
<1>6. longer = [i \in 1 .. Len(used) + 1 |-> longer[i]]
  BY <1>5, LenProperties
<1>7. \A i \in 1 .. Len(used) + 1 : longer[i] = used'[i].row
  <2> SUFFICES ASSUME NEW i \in 1 .. Len(used) + 1
               PROVE  longer[i] = used'[i].row
    OBVIOUS
  <2>1. CASE i = Len(used) + 1
    BY <1>1, <1>5, <2>1
  <2>2. CASE i \in 1 .. Len(used)
    BY <1>1, <1>5, <2>2 DEF Rows
  <2>3. QED
    BY <1>1, <2>1, <2>2
<1>8. Rows' = [i \in 1 .. Len(used) + 1 |-> used'[i].row]
  BY <1>1 DEF Rows
<1>9. QED
  BY <1>6, <1>7, <1>8 DEF longer

(* A keyword at a place of a path was heard, in time order, in frames that *)
(* were listened to, and they give the product MatchKeywords computes.     *)
LEMMA MatchHeard ==
  ASSUME UsedInv, NEW prefix, NEW emitted, Spelled(emitted, prefix),
         NEW ids \in Seq(SearchableTokens), NEW offset \in Matches(prefix, ids)
  PROVE  \E at \in [1 .. Len(ids) -> 1 .. Len(used)] :
           /\ \A i, j \in 1 .. Len(ids) : i < j => at[i] < at[j]
           /\ \A i \in 1 .. Len(ids) : Rows[at[i]][ids[i]] = emitted[offset + i].best_prob
<1> DEFINE n == Len(ids)
           IsHeardAt(i, j) == /\ used[j].frame = emitted[offset + i].best_frame
                              /\ used[j].row[ids[i]] = emitted[offset + i].best_prob
           at == [i \in 1 .. n |-> CHOOSE j \in 1 .. Len(used) : IsHeardAt(i, j)]
<1>1. /\ prefix \in Seq(Tokens) /\ Len(prefix) \in Nat /\ n \in Nat /\ Len(used) \in Nat
      /\ \A i \in 1 .. Len(prefix) : HeardAs(emitted[i], prefix[i])
      /\ \A i, j \in 1 .. Len(prefix) : i < j => emitted[i].best_frame < emitted[j].best_frame
  BY LenProperties DEF Spelled, UsedInv
<1>2. /\ offset \in Nat /\ offset + n <= Len(prefix)
      /\ \A i \in 1 .. n : prefix[offset + i] = ids[i]
  BY <1>1 DEF Matches
<1> HIDE DEF n
<1>3. \A i \in 1 .. n : offset + i \in 1 .. Len(prefix)
  BY <1>1, <1>2
<1>4. ASSUME NEW i \in 1 .. n
      PROVE  at[i] \in 1 .. Len(used) /\ IsHeardAt(i, at[i])
  <2>1. HeardAs(emitted[offset + i], prefix[offset + i]) /\ prefix[offset + i] = ids[i]
    BY <1>1, <1>2, <1>3
  <2>2. \E j \in 1 .. Len(used) : IsHeardAt(i, j)
    BY <2>1 DEF HeardAs
  <2>3. at[i] = CHOOSE j \in 1 .. Len(used) : IsHeardAt(i, j)
    OBVIOUS
  <2> HIDE DEF IsHeardAt, at
  <2>4. QED
    BY <2>2, <2>3
<1>5. at \in [1 .. n -> 1 .. Len(used)]
  BY <1>4
<1> HIDE DEF at
<1>6. ASSUME NEW i \in 1 .. n, NEW j \in 1 .. n, i < j
      PROVE  at[i] < at[j]
  <2>1. used[at[i]].frame < used[at[j]].frame
    <3>1. offset + i < offset + j
      BY <1>1, <1>2, <1>6
    <3>2. emitted[offset + i].best_frame < emitted[offset + j].best_frame
      BY <1>1, <1>3, <3>1
    <3>3. QED
      BY <1>4, <3>2
  <2>2. at[i] \in 1 .. Len(used) /\ at[j] \in 1 .. Len(used)
    BY <1>5
  <2>3. used[at[i]].frame \in Nat /\ used[at[j]].frame \in Nat
    BY <2>2, UsedTyped
  <2>4. at[j] < at[i] => used[at[j]].frame < used[at[i]].frame
    BY <2>2 DEF UsedInv
  <2>5. at[i] # at[j]
    BY <2>1, <2>3
  <2>6. QED
    BY <1>1, <2>1, <2>2, <2>3, <2>4, <2>5
<1>7. \A i \in 1 .. n : Rows[at[i]][ids[i]] = emitted[offset + i].best_prob
  <2> SUFFICES ASSUME NEW i \in 1 .. n
               PROVE  Rows[at[i]][ids[i]] = emitted[offset + i].best_prob
    OBVIOUS
  <2>1. at[i] \in 1 .. Len(used) /\ used[at[i]].row[ids[i]] = emitted[offset + i].best_prob
    BY <1>4
  <2>2. Rows[at[i]] = used[at[i]].row
    BY <2>1 DEF Rows
  <2>3. QED
    BY <2>1, <2>2
<1>8. QED
  BY <1>5, <1>6, <1>7 DEF n

(* What Finish does with a path that holds a keyword is an answer. *)
LEMMA MatchAnswers ==
  ASSUME UsedInv, PathInv, QuietInv, pc # "done", NEW prefix \in DOMAIN beam,
         HasKeyword(prefix), MatchKeywords(prefix)
  PROVE  \/ detection' = detection
         \/ \E k \in 1 .. Len(Keywords) : \E at \in [1 .. Len(Keywords[k]) -> 1 .. Len(used)] :
              /\ \A i, j \in 1 .. Len(Keywords[k]) : i < j => at[i] < at[j]
              /\ LET product == Spotter!Product([i \in 1 .. Len(Keywords[k]) |->
                                                   Rows[at[i]][Keywords[k][i]]])
                 IN  /\ ~Spotter!BelowThreshold(product, Len(Keywords[k]))
                     /\ detection' = [detected |-> TRUE, keyword |-> k, product |-> product]
<1> DEFINE held == {j \in 1 .. Len(Keywords) : Matches(prefix, Keywords[j]) # {}}
           k == Min(held)
           ids == Keywords[k]
           offset == Min(Matches(prefix, ids))
           emitted == beam[prefix].emitted
           product == Score(emitted, offset, Len(ids))
<1>1. Spelled(emitted, prefix) /\ detection = NotDetected
  BY DEF PathInv, SoundPaths, QuietInv
<1>2. \/ detection' = NotDetected
      \/ /\ ~Spotter!BelowThreshold(product, Len(ids))
         /\ detection' = [detected |-> TRUE, keyword |-> k, product |-> product]
  BY DEF MatchKeywords
<1> HIDE DEF emitted
<1>3. k \in 1 .. Len(Keywords) /\ Matches(prefix, ids) # {}
  <2>1. held # {} /\ held \subseteq Nat
    <3>1. PICK j \in 1 .. Len(Keywords) : Matches(prefix, Keywords[j]) # {}
      BY DEF HasKeyword
    <3>2. j \in held
      BY <3>1
    <3>3. held \subseteq 1 .. Len(Keywords)
      OBVIOUS
    <3> HIDE DEF held
    <3>4. QED
      BY <3>2, <3>3
  <2> HIDE DEF held
  <2>2. k \in held
    BY <2>1, MinIsLeast
  <2> HIDE DEF k
  <2>3. QED
    BY <2>2 DEF held
<1> HIDE DEF k
<1>4. ids \in Seq(SearchableTokens)
  BY <1>3, TokenAssumption, ElementOfSeq
<1> HIDE DEF ids
<1>5. offset \in Matches(prefix, ids)
  <2>1. Matches(prefix, ids) \subseteq Nat
    BY DEF Matches
  <2>2. QED
    BY <1>3, <2>1, MinIsLeast
<1> HIDE DEF offset
<1>6. PICK at \in [1 .. Len(ids) -> 1 .. Len(used)] :
        /\ \A i, j \in 1 .. Len(ids) : i < j => at[i] < at[j]
        /\ \A i \in 1 .. Len(ids) : Rows[at[i]][ids[i]] = emitted[offset + i].best_prob
  BY <1>1, <1>4, <1>5, MatchHeard
<1>7. product = Spotter!Product([i \in 1 .. Len(ids) |-> Rows[at[i]][ids[i]]])
  <2>1. [i \in 1 .. Len(ids) |-> Rows[at[i]][ids[i]]]
          = [i \in 1 .. Len(ids) |-> emitted[offset + i].best_prob]
    BY <1>6
  <2>2. QED
    BY <2>1 DEF Score
<1> HIDE DEF product
<1>8. QED
  BY <1>1, <1>2, <1>3, <1>6, <1>7 DEF ids

(* In every run, for any network and any keywords, the search answers as   *)
(* KeywordSpotter promises: a keyword it names was heard token by token,   *)
(* in time order and in frames that were not skipped, and its score is     *)
(* that of those frames and no less than min_score.                        *)
THEOREM KeywordsHeard == Spec => SpotterKept
<1>1. Init => Spotter!Init
  <2> SUFFICES ASSUME Init PROVE Spotter!Init
    OBVIOUS
  <2>1. used = <<>> /\ pc = "frame" /\ detection = NotDetected
    BY DEF Init
  <2>2. [i \in 1 .. Len(used) |-> used[i].row] = <<>>
    BY <2>1
  <2>3. QED
    BY <2>1, <2>2 DEF Spotter!Init, NotDetected
<1>2. UsedInv /\ PathInv /\ QuietInv /\ [Next]_vars
      => [Spotter!Next]_<<Rows, pc = "done", detection>>
  <2> SUFFICES ASSUME UsedInv, PathInv, QuietInv, [Next]_vars
               PROVE  Spotter!Next \/ UNCHANGED <<Rows, pc = "done", detection>>
    OBVIOUS
  <2>1. ASSUME NEW row \in Distributions, NEW c \in CollectFrameCandidates(row), BeginFrame(row, c)
        PROVE  Spotter!Next \/ UNCHANGED <<Rows, pc = "done", detection>>
    <3>1. pc = "frame" /\ detection' = detection /\ frame \in Nat
      BY <2>1 DEF BeginFrame, UsedInv
    <3>2. CASE DOMAIN c = {}
      BY <2>1, <3>1, <3>2 DEF BeginFrame, Rows
    <3>3. CASE DOMAIN c # {}
      <4> DEFINE listened == [frame |-> frame + 1, row |-> row, candidates |-> c]
      <4>1. used' = Append(used, listened) /\ pc' = "expand"
        BY <2>1, <3>1, <3>3 DEF BeginFrame
      <4>2. listened \in UsedFrames /\ listened.row = row
        BY <3>1, CandidatesTyped DEF UsedFrames
      <4>3. Rows' = Append(Rows, row)
        BY <4>1, <4>2, RowsGrow DEF UsedInv
      <4>4. Spotter!Hear
        BY <3>1, <4>1, <4>3 DEF Spotter!Hear, Rows
      <4>5. QED
        BY <4>4 DEF Spotter!Next
    <3>4. QED
      BY <3>2, <3>3
  <2>2. CASE Expand \/ KeepTopPaths
    <3>1. pc = "expand" /\ pc' # "done" /\ UNCHANGED <<used, detection>>
      BY <2>2 DEF Expand, KeepTopPaths
    <3>2. QED
      BY <3>1 DEF Rows
  <2>3. ASSUME Finish
        PROVE  Spotter!Answer
    <3>1. pc = "frame" /\ pc' = "done" /\ used' = used
      BY <2>3 DEF Finish
    <3>2. Rows' = Rows
      BY <3>1 DEF Rows
    <3>3. CASE detection' = detection
      BY <3>1, <3>2, <3>3 DEF Spotter!Answer, Rows
    <3>4. CASE \E prefix \in DOMAIN beam : HasKeyword(prefix) /\ MatchKeywords(prefix)
      <4>1. PICK prefix \in DOMAIN beam : HasKeyword(prefix) /\ MatchKeywords(prefix)
        BY <3>4
      <4>2. CASE detection' # detection
        <5>1. PICK k \in 1 .. Len(Keywords) :
                \E at \in [1 .. Len(Keywords[k]) -> 1 .. Len(used)] :
                  /\ \A i, j \in 1 .. Len(Keywords[k]) : i < j => at[i] < at[j]
                  /\ LET product == Spotter!Product([i \in 1 .. Len(Keywords[k]) |->
                                                       Rows[at[i]][Keywords[k][i]]])
                     IN  /\ ~Spotter!BelowThreshold(product, Len(Keywords[k]))
                         /\ detection' = [detected |-> TRUE, keyword |-> k, product |-> product]
          BY <3>1, <4>1, <4>2, MatchAnswers
        <5>2. PICK at \in [1 .. Len(Keywords[k]) -> 1 .. Len(used)] :
                /\ \A i, j \in 1 .. Len(Keywords[k]) : i < j => at[i] < at[j]
                /\ LET product == Spotter!Product([i \in 1 .. Len(Keywords[k]) |->
                                                     Rows[at[i]][Keywords[k][i]]])
                   IN  /\ ~Spotter!BelowThreshold(product, Len(Keywords[k]))
                       /\ detection' = [detected |-> TRUE, keyword |-> k, product |-> product]
          BY <5>1
        <5>3. Len(Rows) = Len(used) /\ DOMAIN at = 1 .. Len(Keywords[k])
          BY LenProperties DEF Rows, UsedInv
        <5>4. Spotter!Likelihood(Keywords[k], at)
                = Spotter!Product([i \in 1 .. Len(Keywords[k]) |-> Rows[at[i]][Keywords[k][i]]])
          BY DEF Spotter!Likelihood, Rows
        <5>5. Spotter!InTimeOrder(at)
          BY <5>2, <5>3 DEF Spotter!InTimeOrder
        <5>6. QED
          BY <3>1, <3>2, <5>2, <5>3, <5>4, <5>5 DEF Spotter!Answer, Rows
      <4>3. QED
        BY <3>3, <4>2
    <3>5. QED
      BY <2>3, <3>3, <3>4 DEF Finish
  <2>4. CASE Done \/ UNCHANGED vars
    BY <2>4 DEF Done, vars, Rows
  <2>5. QED
    BY <2>1, <2>2, <2>3, <2>4 DEF Next, Spotter!Next
<1>3. QED
  BY <1>1, <1>2, UsedHolds, PathsHold, QuietHolds, PTL DEF Spec, SpotterKept, Spotter!Spec, Rows
-----------------------------------------------------------------------------
(* The number of candidates and of paths. *)
SizeInv ==
  /\ frame \in 0 .. NumFrames /\ scale \in Nat /\ lost \subseteq {"cut", "faint"}
  /\ IsFiniteSet(DOMAIN next)
  /\ pc # "expand" => next = <<>>
  /\ pc # "expand" => todo = {}
  /\ Cardinality(DOMAIN beam) <= PathBeamSize

LEMMA PutFinite ==
  ASSUME NEW paths, IsFiniteSet(DOMAIN paths), NEW prefix, NEW path
  PROVE  IsFiniteSet(DOMAIN Put(paths, prefix, path))
<1>1. DOMAIN Put(paths, prefix, path) = DOMAIN paths \union {prefix}
  BY DEF Put
<1>2. QED
  BY <1>1, FS_AddElement

LEMMA TurnFinite ==
  ASSUME IsFiniteSet(DOMAIN next), NEW prefix, NEW src, NEW token, NEW prob,
         ExpandOneStep(prefix, src, token, prob)
  PROVE  \E paths : next' = paths /\ IsFiniteSet(DOMAIN paths)
<1>1. IsFiniteSet(DOMAIN ExpandBlank(next, prefix, src, prob))
  BY PutFinite DEF ExpandBlank
<1>2. IsFiniteSet(DOMAIN ExpandNewToken(next, prefix, src, token, prob))
  BY PutFinite DEF ExpandNewToken
<1>3. IsFiniteSet(DOMAIN ExpandRepeat(next, prefix, src, token, prob))
  <2> DEFINE last == RepeatLast(next, prefix, src, token, prob)
  <2>1. IsFiniteSet(DOMAIN last)
    BY PutFinite DEF RepeatLast
  <2> HIDE DEF last
  <2>2. IsFiniteSet(DOMAIN RepeatAfterBlank(last, prefix, src, token, prob))
    BY <2>1, PutFinite DEF RepeatAfterBlank
  <2>3. QED
    BY <2>2 DEF ExpandRepeat, last
<1>4. QED
  BY <1>1, <1>2, <1>3 DEF ExpandOneStep

LEMMA SizesHold == Spec => []SizeInv
<1>1. Init => SizeInv
  <2> SUFFICES ASSUME Init PROVE SizeInv
    OBVIOUS
  <2>1. /\ pc = "frame" /\ frame = 0 /\ scale = 1 /\ todo = {} /\ next = <<>> /\ lost = {}
        /\ DOMAIN beam = {<<>>}
    BY DEF Init
  <2>2. DOMAIN next = {}
    BY <2>1
  <2>3. Cardinality(DOMAIN beam) = 1
    BY <2>1, FS_Singleton
  <2>4. QED
    BY <2>1, <2>2, <2>3, FS_EmptySet, NumberAssumption DEF SizeInv
<1>2. UsedInv /\ SizeInv /\ [Next]_vars => SizeInv'
  <2> SUFFICES ASSUME UsedInv, SizeInv, [Next]_vars
               PROVE  SizeInv'
    OBVIOUS
  <2> USE NumberAssumption
  <2>1. ASSUME NEW row \in Distributions, NEW c \in CollectFrameCandidates(row), BeginFrame(row, c)
        PROVE  SizeInv'
    <3>1. /\ pc = "frame" /\ frame' = frame + 1 /\ frame < NumFrames /\ frame \in Nat
          /\ UNCHANGED <<beam, lost>>
      BY <2>1 DEF BeginFrame, UsedInv
    <3>2. frame' \in 0 .. NumFrames
      BY <3>1
    <3>3. CASE UNCHANGED <<pc, used, scale, todo, next>>
      BY <3>1, <3>2, <3>3 DEF SizeInv
    <3>4. CASE scale' = scale * Unit /\ next' = <<>> /\ pc' = "expand"
      <4>1. scale' \in Nat
        BY <3>4 DEF SizeInv
      <4>2. IsFiniteSet(DOMAIN next')
        <5>1. DOMAIN next' = {}
          BY <3>4
        <5>2. QED
          BY <5>1, FS_EmptySet
      <4>3. QED
        BY <3>1, <3>2, <3>4, <4>1, <4>2 DEF SizeInv
    <3>5. QED
      BY <2>1, <3>3, <3>4 DEF BeginFrame
  <2>2. ASSUME Expand
        PROVE  SizeInv'
    <3>1. PICK turn \in todo :
            /\ pc = "expand"
            /\ ExpandOneStep(turn[2], beam[turn[2]], Back(used).candidates[turn[1]],
                             Back(used).row[Back(used).candidates[turn[1]]])
            /\ UNCHANGED <<pc, frame, used, scale, beam, detection>>
      BY <2>2 DEF Expand
    <3>2. PICK paths : next' = paths /\ IsFiniteSet(DOMAIN paths)
      BY <3>1, TurnFinite DEF SizeInv
    <3>3. lost' \subseteq {"cut", "faint"}
      BY <3>1 DEF ExpandOneStep, SizeInv
    <3>4. QED
      BY <3>1, <3>2, <3>3 DEF SizeInv
  <2>3. ASSUME KeepTopPaths
        PROVE  SizeInv'
    <3>1. /\ pc = "expand" /\ pc' = "frame" /\ todo = {} /\ todo' = {} /\ next' = <<>>
          /\ UNCHANGED <<frame, scale>>
      BY <2>3 DEF KeepTopPaths
    <3>2. lost' \subseteq {"cut", "faint"}
      BY <2>3 DEF KeepTopPaths, SizeInv
    <3>3. PICK kept \in Heaviest(next) : beam' = [p \in kept |-> next[p]]
      BY <2>3 DEF KeepTopPaths
    <3>4. Cardinality(DOMAIN next) \in Nat
      BY FS_CardinalityType DEF SizeInv
    <3>5. Cardinality(kept) <= PathBeamSize
      BY <3>4 DEF Heaviest
    <3>6. IsFiniteSet(DOMAIN next')
      <4>1. DOMAIN next' = {}
        BY <3>1
      <4>2. QED
        BY <4>1, FS_EmptySet
    <3>7. DOMAIN beam' = kept
      BY <3>3
    <3>8. QED
      BY <3>1, <3>2, <3>5, <3>6, <3>7 DEF SizeInv
  <2>4. ASSUME UNCHANGED <<frame, scale, beam, next, todo, lost>>,
               pc' = pc \/ (pc = "frame" /\ pc' = "done")
        PROVE  SizeInv'
    BY <2>4 DEF SizeInv
  <2>5. CASE Finish \/ Done \/ UNCHANGED vars
    BY <2>4, <2>5 DEF Finish, Done, vars
  <2>6. QED
    BY <2>1, <2>2, <2>3, <2>5 DEF Next
<1>3. QED
  BY <1>1, <1>2, UsedHolds, PTL DEF Spec

(* In every run, with any network and any beam sizes, the variables have   *)
(* their types and the search follows no more than ScoreBeamSize           *)
(* candidates of a frame and PathBeamSize paths.                           *)
THEOREM TypeCorrect == Spec => []TypeOK
<1>1. UsedInv /\ PathInv /\ SizeInv => TypeOK
  <2> SUFFICES ASSUME UsedInv, PathInv, SizeInv
               PROVE  TypeOK
    OBVIOUS
  <2>1. ASSUME NEW i \in 1 .. Len(used)
        PROVE  Cardinality(DOMAIN used[i].candidates) <= ScoreBeamSize
    <3>1. DOMAIN used[i].candidates \subseteq 1 .. ScoreBeamSize
      BY UsedTyped DEF CandidateLists
    <3>2. IsFiniteSet(1 .. ScoreBeamSize) /\ Cardinality(1 .. ScoreBeamSize) = ScoreBeamSize
      BY NumberAssumption, FS_Interval
    <3>3. QED
      BY <3>1, <3>2, FS_Subset
  <2>2. ASSUME NEW paths, SoundPaths(paths)
        PROVE  IsBeam(paths)
    <3> SUFFICES ASSUME NEW p \in DOMAIN paths
                 PROVE  p \in Seq(Nat) /\ paths[p] \in PathStates
      BY DEF IsBeam, PathStates
    <3>1. p \in Seq(Tokens) /\ paths[p] \in PathStates
      BY <2>2 DEF SoundPaths, Spelled
    <3>2. \A i \in 1 .. Len(p) : p[i] \in Nat
      BY <3>1, ElementOfSeq, TokenAssumption
    <3>3. p \in Seq(Nat)
      BY <3>1, <3>2
    <3>4. QED
      BY <3>1, <3>3
  <2>3. IsBeam(beam) /\ IsBeam(next)
    <3>1. SoundPaths(beam) /\ SoundPaths(next)
      <4>1. CASE pc = "expand"
        BY <4>1 DEF PathInv
      <4>2. CASE next = <<>>
        BY <4>2 DEF PathInv, SoundPaths
      <4>3. QED
        BY <4>1, <4>2 DEF SizeInv
    <3>2. QED
      BY <2>2, <3>1
  <2>4. \A turn \in todo : turn[2] \in DOMAIN beam
    BY DEF PathInv, SizeInv
  <2>5. QED
    BY <2>1, <2>3, <2>4 DEF TypeOK, UsedInv, SizeInv
<1>2. QED
  BY <1>1, UsedHolds, PathsHold, SizesHold, PTL
-----------------------------------------------------------------------------
(* The masses of an alignment's beginnings, as MassOf computes them. *)
Masses(frames, a) ==
  CHOOSE mass : mass = [i \in 0 .. Len(frames) |->
                          IF i = 0 THEN 1 ELSE mass[i - 1] * frames[i].row[a[i]]]

LEMMA FrameTyped ==
  ASSUME NEW frames \in Seq(UsedFrames), NEW a \in Alignments(frames),
         NEW i \in 1 .. Len(frames)
  PROVE  /\ frames[i] \in UsedFrames /\ frames[i].row \in [Tokens -> Nat]
         /\ a[i] \in Tokens /\ frames[i].row[a[i]] \in Nat
<1>1. frames[i] \in UsedFrames
  BY ElementOfSeq
<1>2. frames[i].row \in Distributions
  BY <1>1 DEF UsedFrames
<1>3. frames[i].row \in [Tokens -> 0 .. Unit]
  BY <1>2, NumberAssumption
<1>4. 0 .. Unit \subseteq Nat
  BY NumberAssumption
<1>5. frames[i].row \in [Tokens -> Nat]
  BY <1>3, <1>4
<1>6. a[i] \in Tokens
  BY DEF Alignments
<1>7. QED
  BY <1>1, <1>5, <1>6

LEMMA MassesUnfold ==
  ASSUME NEW frames \in Seq(UsedFrames), NEW a \in Alignments(frames)
  PROVE  /\ \A i \in 0 .. Len(frames) : Masses(frames, a)[i] \in Nat
         /\ Masses(frames, a)[0] = 1
         /\ \A i \in 1 .. Len(frames) :
              Masses(frames, a)[i] = Masses(frames, a)[i - 1] * frames[i].row[a[i]]
         /\ MassOf(frames, a) = Masses(frames, a)[Len(frames)]
<1> DEFINE n == Len(frames)
           step == [i \in 1 .. n |-> [v \in Nat |-> v * frames[i].row[a[i]]]]
           m == Masses(frames, a)
<1>1. n \in Nat
  BY LenProperties
<1>2. \A i \in 1 .. n : frames[i].row[a[i]] \in Nat
  BY FrameTyped
<1>3. step \in [1 .. n -> [Nat -> Nat]]
  <2>1. \A i \in 1 .. n : \A v \in Nat : v * frames[i].row[a[i]] \in Nat
    BY <1>2
  <2> HIDE DEF n
  <2>2. QED
    BY <2>1
<1>4. \A i \in 1 .. n : \A v \in Nat : step[i][v] = v * frames[i].row[a[i]]
  OBVIOUS
<1>5. MassOf(frames, a) = m[n]
  BY DEF MassOf, Masses
<1> HIDE DEF step, n
<1>6. PICK f \in [0 .. n -> Nat] : Steps(f, n, 1, step)
  BY <1>1, <1>3, StepsExist
<1>7. \A i \in 0 .. n : f[i] = IF i = 0 THEN 1 ELSE step[i][f[i - 1]]
  BY <1>6 DEF Steps
<1>8. ASSUME NEW i \in 0 .. n
      PROVE  f[i] = IF i = 0 THEN 1 ELSE f[i - 1] * frames[i].row[a[i]]
  <2>1. CASE i = 0
    BY <1>7, <2>1
  <2>2. CASE i # 0
    <3>1. i \in 1 .. n /\ i - 1 \in 0 .. n
      BY <1>1, <2>2
    <3>2. f[i - 1] \in Nat
      BY <1>6, <3>1
    <3>3. f[i] = step[i][f[i - 1]]
      BY <1>7, <2>2
    <3>4. step[i][f[i - 1]] = f[i - 1] * frames[i].row[a[i]]
      BY <1>4, <3>1, <3>2
    <3>5. QED
      BY <2>2, <3>3, <3>4
  <2>3. QED
    BY <2>1, <2>2
<1>9. f = [i \in 0 .. n |-> IF i = 0 THEN 1 ELSE f[i - 1] * frames[i].row[a[i]]]
  BY <1>6, <1>8
<1>10. m = [i \in 0 .. n |-> IF i = 0 THEN 1 ELSE m[i - 1] * frames[i].row[a[i]]]
  BY <1>9 DEF Masses, n
<1> HIDE DEF m
<1>11. m[0] = 1 /\ \A i \in 1 .. n : m[i] = m[i - 1] * frames[i].row[a[i]]
  <2>1. 0 \in 0 .. n
    BY <1>1
  <2>2. m[0] = 1
    BY <1>10, <2>1
  <2>3. ASSUME NEW i \in 1 .. n
        PROVE  m[i] = m[i - 1] * frames[i].row[a[i]]
    <3>1. i \in 0 .. n /\ i # 0
      BY <1>1
    <3>2. QED
      BY <1>10, <3>1
  <2>4. QED
    BY <2>2, <2>3
<1> DEFINE P == {i \in 0 .. n : m[i] \in Nat}
<1>12. 0 \in P
  BY <1>1, <1>11
<1>13. ASSUME NEW i \in 0 .. n - 1, i \in P
       PROVE  i + 1 \in P
  <2>1. i + 1 \in 1 .. n /\ i + 1 \in 0 .. n /\ (i + 1) - 1 = i
    BY <1>1
  <2>2. m[i + 1] = m[i] * frames[i + 1].row[a[i + 1]]
    BY <1>11, <2>1
  <2>3. m[i] \in Nat /\ frames[i + 1].row[a[i + 1]] \in Nat
    BY <1>2, <1>13, <2>1
  <2>4. \A v, w \in Nat : v * w \in Nat
    OBVIOUS
  <2>5. m[i] * frames[i + 1].row[a[i + 1]] \in Nat
    BY <2>3, <2>4
  <2>6. QED
    BY <2>1, <2>2, <2>5
<1> HIDE DEF P
<1>14. \A i \in 0 .. n : i \in P
  BY <1>1, <1>12, <1>13, RangeInduction
<1>15. QED
  BY <1>5, <1>11, <1>14 DEF P, n, m

(* The tokens a frame may be given. *)
Heard(listened) == {listened.candidates[c] : c \in DOMAIN listened.candidates}

LEMMA HeardTyped ==
  ASSUME NEW listened \in UsedFrames
  PROVE  Heard(listened) \subseteq Tokens /\ IsFiniteSet(Heard(listened))
<1>1. PICK places \in SUBSET (1 .. ScoreBeamSize) : listened.candidates \in [places -> Tokens]
  BY DEF UsedFrames, CandidateLists
<1>2. Heard(listened) \subseteq Tokens
  BY <1>1 DEF Heard
<1>3. IsFiniteSet(places)
  <2>1. IsFiniteSet(1 .. ScoreBeamSize)
    BY NumberAssumption, FS_Interval
  <2>2. QED
    BY <2>1, FS_Subset
<1>4. listened.candidates \in Surjection(places, Heard(listened))
  BY <1>1 DEF Surjection, Heard
<1>5. QED
  BY <1>2, <1>3, <1>4, FS_Surjection

(* The alignments of one frame more: those so far, each with one of the    *)
(* tokens of the frame.                                                    *)
LEMMA AlignmentsAppended ==
  ASSUME NEW frames \in Seq(UsedFrames), NEW listened \in UsedFrames
  PROVE  Alignments(Append(frames, listened))
           = {Append(p[1], p[2]) : p \in Alignments(frames) \X Heard(listened)}
<1> DEFINE n == Len(frames)
           more == Append(frames, listened)
<1>1. n \in Nat
  BY LenProperties
<1>2. /\ Len(more) = n + 1 /\ more[n + 1] = listened
      /\ \A i \in 1 .. n : more[i] = frames[i]
  BY AppendProperties
<1>3. \A i \in 1 .. n + 1 : i = n + 1 \/ i \in 1 .. n
  BY <1>1
<1>4. ASSUME NEW a \in Alignments(frames), NEW t \in Heard(listened)
      PROVE  Append(a, t) \in Alignments(more)
  <2>1. a \in [1 .. n -> Tokens] /\ t \in Tokens
    BY HeardTyped DEF Alignments
  <2>2. a \in Seq(Tokens) /\ Len(a) = n
    BY <1>1, <2>1
  <2>3. /\ Append(a, t) \in Seq(Tokens) /\ Len(Append(a, t)) = n + 1
        /\ \A i \in 1 .. n : Append(a, t)[i] = a[i]
        /\ Append(a, t)[n + 1] = t
    BY <2>1, <2>2, AppendProperties
  <2>4. Append(a, t) \in [1 .. n + 1 -> Tokens]
    BY <2>3, LenProperties
  <2> HIDE DEF n, more
  <2>5. ASSUME NEW i \in 1 .. n + 1
        PROVE  \E c \in DOMAIN more[i].candidates : Append(a, t)[i] = more[i].candidates[c]
    <3>1. CASE i = n + 1
      BY <1>2, <2>3, <3>1 DEF Heard
    <3>2. CASE i \in 1 .. n
      <4>1. PICK c \in DOMAIN frames[i].candidates : a[i] = frames[i].candidates[c]
        BY <3>2 DEF Alignments, n
      <4>2. QED
        BY <1>2, <2>3, <3>2, <4>1
    <3>3. QED
      BY <1>3, <3>1, <3>2
  <2>6. QED
    BY <1>2, <2>4, <2>5 DEF Alignments
<1>5. ASSUME NEW b \in Alignments(more)
      PROVE  \E a \in Alignments(frames), t \in Heard(listened) : b = Append(a, t)
  <2>1. /\ b \in [1 .. n + 1 -> Tokens]
        /\ \A i \in 1 .. n + 1 : \E c \in DOMAIN more[i].candidates : b[i] = more[i].candidates[c]
    BY <1>2 DEF Alignments
  <2> DEFINE a == [i \in 1 .. n |-> b[i]]
             t == b[n + 1]
  <2>2. n + 1 \in 1 .. n + 1 /\ \A i \in 1 .. n : i \in 1 .. n + 1
    BY <1>1
  <2>3. t \in Heard(listened) /\ t \in Tokens
    BY <1>2, <2>1, <2>2 DEF Heard
  <2>4. a \in [1 .. n -> Tokens]
    BY <2>1, <2>2
  <2>5. a \in Alignments(frames)
    <3>1. \A i \in 1 .. n : \E c \in DOMAIN frames[i].candidates : a[i] = frames[i].candidates[c]
      BY <1>2, <2>1, <2>2
    <3>2. QED
      BY <2>4, <3>1 DEF Alignments
  <2>6. a \in Seq(Tokens) /\ Len(a) = n
    BY <1>1, <2>4
  <2>7. \A i \in 1 .. n : a[i] = b[i]
    OBVIOUS
  <2> HIDE DEF a
  <2>8. /\ Append(a, t) \in Seq(Tokens) /\ Len(Append(a, t)) = n + 1
        /\ \A i \in 1 .. n : Append(a, t)[i] = a[i]
        /\ Append(a, t)[n + 1] = t
    BY <2>3, <2>6, AppendProperties
  <2>9. Append(a, t) \in [1 .. n + 1 -> Tokens]
    BY <2>8, LenProperties
  <2>10. \A i \in 1 .. n + 1 : Append(a, t)[i] = b[i]
    BY <1>3, <2>7, <2>8
  <2>11. b = Append(a, t)
    BY <2>1, <2>9, <2>10
  <2>12. QED
    BY <2>3, <2>5, <2>11
<1> DEFINE extended == {Append(p[1], p[2]) : p \in Alignments(frames) \X Heard(listened)}
<1>6. \A a \in Alignments(frames), t \in Heard(listened) : Append(a, t) \in extended
  <2> SUFFICES ASSUME NEW a \in Alignments(frames), NEW t \in Heard(listened)
               PROVE  Append(a, t) \in extended
    OBVIOUS
  <2>1. <<a, t>> \in Alignments(frames) \X Heard(listened)
    OBVIOUS
  <2>2. Append(a, t) = Append(<<a, t>>[1], <<a, t>>[2])
    OBVIOUS
  <2>3. QED
    BY <2>1, <2>2
<1>7. \A b \in extended : \E a \in Alignments(frames), t \in Heard(listened) : b = Append(a, t)
  OBVIOUS
<1> HIDE DEF extended, more
<1>8. \A b \in Alignments(more) : b \in extended
  BY <1>5, <1>6
<1>9. \A b \in extended : b \in Alignments(more)
  BY <1>4, <1>7
<1>10. QED
  BY <1>8, <1>9 DEF more, extended

LEMMA MassAppended ==
  ASSUME NEW frames \in Seq(UsedFrames), NEW listened \in UsedFrames,
         NEW a \in Alignments(frames), NEW t \in Heard(listened)
  PROVE  /\ MassOf(frames, a) \in Nat /\ listened.row[t] \in Nat
         /\ MassOf(Append(frames, listened), Append(a, t)) = MassOf(frames, a) * listened.row[t]
<1> DEFINE n == Len(frames)
           more == Append(frames, listened)
           b == Append(a, t)
           short == Masses(frames, a)
           long == Masses(more, b)
<1>1. n \in Nat
  BY LenProperties
<1>2. /\ more \in Seq(UsedFrames) /\ Len(more) = n + 1 /\ more[n + 1] = listened
      /\ \A i \in 1 .. n : more[i] = frames[i]
  BY AppendProperties
<1>3. a \in Seq(Tokens) /\ Len(a) = n /\ t \in Tokens
  BY <1>1, HeardTyped DEF Alignments
<1>4. b[n + 1] = t /\ \A i \in 1 .. n : b[i] = a[i]
  BY <1>3, AppendProperties
<1>5. b \in Alignments(more)
  <2> DEFINE p == <<a, t>>
  <2>1. p \in Alignments(frames) \X Heard(listened) /\ b = Append(p[1], p[2])
    OBVIOUS
  <2> HIDE DEF b, p
  <2>2. b \in {Append(q[1], q[2]) : q \in Alignments(frames) \X Heard(listened)}
    BY <2>1
  <2>3. QED
    BY <2>2, AlignmentsAppended
<1> HIDE DEF n, more, b
<1>6. /\ \A i \in 0 .. n : short[i] \in Nat
      /\ short[0] = 1
      /\ \A i \in 1 .. n : short[i] = short[i - 1] * frames[i].row[a[i]]
      /\ MassOf(frames, a) = short[n]
  BY MassesUnfold DEF n
<1>7. /\ long[0] = 1
      /\ \A i \in 1 .. n + 1 : long[i] = long[i - 1] * more[i].row[b[i]]
      /\ MassOf(more, b) = long[n + 1]
  BY <1>2, <1>5, MassesUnfold
<1> HIDE DEF short, long
<1> DEFINE P == {i \in 0 .. n : long[i] = short[i]}
<1>8. 0 \in P
  BY <1>1, <1>6, <1>7
<1>9. ASSUME NEW i \in 0 .. n - 1, i \in P
      PROVE  i + 1 \in P
  <2>1. i + 1 \in 1 .. n /\ i + 1 \in 1 .. n + 1 /\ i + 1 \in 0 .. n /\ (i + 1) - 1 = i
    BY <1>1
  <2>2. long[i + 1] = long[i] * more[i + 1].row[b[i + 1]]
    BY <1>7, <2>1
  <2>3. short[i + 1] = short[i] * frames[i + 1].row[a[i + 1]]
    BY <1>6, <2>1
  <2>4. more[i + 1] = frames[i + 1] /\ b[i + 1] = a[i + 1]
    BY <1>2, <1>4, <2>1
  <2>5. QED
    BY <1>9, <2>1, <2>2, <2>3, <2>4
<1> HIDE DEF P
<1>10. \A i \in 0 .. n : i \in P
  BY <1>1, <1>8, <1>9, RangeInduction
<1>11. long[n] = short[n] /\ short[n] \in Nat
  <2>1. n \in 0 .. n
    BY <1>1
  <2>2. QED
    BY <1>6, <1>10, <2>1 DEF P
<1>12. long[n + 1] = long[n] * listened.row[t]
  <2>1. n + 1 \in 1 .. n + 1 /\ (n + 1) - 1 = n
    BY <1>1
  <2>2. long[n + 1] = long[n] * more[n + 1].row[b[n + 1]]
    BY <1>7, <2>1
  <2>3. QED
    BY <1>2, <1>4, <2>2
<1>13. listened.row[t] \in Nat
  <2>1. n + 1 \in 1 .. Len(more)
    BY <1>1, <1>2
  <2>2. more[n + 1].row[b[n + 1]] \in Nat
    BY <1>2, <1>5, <2>1, FrameTyped
  <2>3. QED
    BY <1>2, <1>4, <2>2
<1>14. QED
  BY <1>6, <1>7, <1>11, <1>12, <1>13 DEF more, b

(* An alignment's prefixes, as Collapse finds them. *)
Lefts(a) ==
  CHOOSE left : left = [i \in 0 .. Len(a) |->
    IF i = 0 THEN <<>>
    ELSE IF a[i] = Blank \/ (i > 1 /\ a[i] = a[i - 1]) THEN left[i - 1]
    ELSE Append(left[i - 1], a[i])]

(* What a prefix can be: no token of it is the blank. *)
Words == Seq(Tokens \ {Blank})

(* The token at i of an alignment adds nothing to its prefix. *)
Silent(a, i) == a[i] = Blank \/ (i > 1 /\ a[i] = a[i - 1])

LEMMA LeftsUnfold ==
  ASSUME NEW a \in Seq(Tokens)
  PROVE  /\ \A i \in 0 .. Len(a) : Lefts(a)[i] \in Words
         /\ Lefts(a)[0] = <<>>
         /\ \A i \in 1 .. Len(a) :
              Lefts(a)[i] = IF Silent(a, i) THEN Lefts(a)[i - 1] ELSE Append(Lefts(a)[i - 1], a[i])
         /\ Collapse(a) = Lefts(a)[Len(a)]
<1> DEFINE n == Len(a)
           step == [i \in 1 .. n |-> [v \in Words |-> IF Silent(a, i) THEN v ELSE Append(v, a[i])]]
           left == Lefts(a)
<1>1. n \in Nat /\ \A i \in 1 .. n : a[i] \in Tokens
  BY LenProperties, ElementOfSeq
<1>2. \A i \in 1 .. n : \A v \in Words : (IF Silent(a, i) THEN v ELSE Append(v, a[i])) \in Words
  <2> SUFFICES ASSUME NEW i \in 1 .. n, NEW v \in Words, ~Silent(a, i)
               PROVE  Append(v, a[i]) \in Words
    OBVIOUS
  <2>1. a[i] \in Tokens \ {Blank}
    BY <1>1 DEF Silent
  <2>2. QED
    BY <2>1, AppendProperties DEF Words
<1>3. step \in [1 .. n -> [Words -> Words]]
  <2> HIDE DEF n
  <2>1. QED
    BY <1>2
<1>4. \A i \in 1 .. n : \A v \in Words : step[i][v] = IF Silent(a, i) THEN v ELSE Append(v, a[i])
  OBVIOUS
<1>5. Collapse(a) = left[n]
  BY DEF Collapse, Lefts
<1>6. <<>> \in Words
  BY DEF Words
<1> HIDE DEF step, n
<1>7. PICK f \in [0 .. n -> Words] : Steps(f, n, <<>>, step)
  BY <1>1, <1>3, <1>6, StepsExist
<1>8. \A i \in 0 .. n : f[i] = IF i = 0 THEN <<>> ELSE step[i][f[i - 1]]
  BY <1>7 DEF Steps
<1>9. ASSUME NEW i \in 0 .. n
      PROVE  f[i] = IF i = 0 THEN <<>>
                    ELSE IF Silent(a, i) THEN f[i - 1] ELSE Append(f[i - 1], a[i])
  <2>1. CASE i = 0
    BY <1>8, <2>1
  <2>2. CASE i # 0
    <3>1. i \in 1 .. n /\ i - 1 \in 0 .. n
      BY <1>1, <2>2
    <3>2. f[i - 1] \in Words
      BY <1>7, <3>1
    <3>3. f[i] = step[i][f[i - 1]]
      BY <1>8, <2>2
    <3>4. QED
      BY <1>4, <2>2, <3>1, <3>2, <3>3
  <2>3. QED
    BY <2>1, <2>2
<1>10. f = [i \in 0 .. n |-> IF i = 0 THEN <<>>
                             ELSE IF Silent(a, i) THEN f[i - 1] ELSE Append(f[i - 1], a[i])]
  BY <1>7, <1>9
<1>11. left = [i \in 0 .. n |-> IF i = 0 THEN <<>>
                                ELSE IF Silent(a, i) THEN left[i - 1] ELSE Append(left[i - 1], a[i])]
  BY <1>10 DEF Lefts, Silent, n
<1> HIDE DEF left
<1>12. left[0] = <<>>
  BY <1>1, <1>11
<1>13. ASSUME NEW i \in 1 .. n
       PROVE  left[i] = IF Silent(a, i) THEN left[i - 1] ELSE Append(left[i - 1], a[i])
  <2>1. i \in 0 .. n /\ i # 0
    BY <1>1
  <2>2. QED
    BY <1>11, <2>1
<1> DEFINE P == {i \in 0 .. n : left[i] \in Words}
<1>14. 0 \in P
  BY <1>1, <1>6, <1>12
<1>15. ASSUME NEW i \in 0 .. n - 1, i \in P
       PROVE  i + 1 \in P
  <2>1. i + 1 \in 1 .. n /\ i + 1 \in 0 .. n /\ (i + 1) - 1 = i
    BY <1>1
  <2>2. left[i + 1] = IF Silent(a, i + 1) THEN left[i] ELSE Append(left[i], a[i + 1])
    BY <1>13, <2>1
  <2>3. left[i + 1] \in Words
    BY <1>2, <1>15, <2>1, <2>2
  <2>4. QED
    BY <2>1, <2>3
<1> HIDE DEF P
<1>16. \A i \in 0 .. n : i \in P
  BY <1>1, <1>14, <1>15, RangeInduction
<1>17. QED
  BY <1>5, <1>12, <1>13, <1>16 DEF P, n, left

(* An alignment that ends in a token has a prefix that ends in it. *)
LEMMA CollapseEnds ==
  ASSUME NEW a \in Seq(Tokens)
  PROVE  /\ Collapse(a) \in Words
         /\ a # <<>> /\ a[Len(a)] # Blank =>
              Collapse(a) # <<>> /\ Collapse(a)[Len(Collapse(a))] = a[Len(a)]
<1> DEFINE n == Len(a)
           left == Lefts(a)
           Ends(i) == left[i] # <<>> /\ left[i][Len(left[i])] = a[i]
           P == {i \in 0 .. n : i # 0 /\ a[i] # Blank => Ends(i)}
<1>1. n \in Nat /\ \A i \in 1 .. n : a[i] \in Tokens
  BY LenProperties, ElementOfSeq
<1>2. /\ \A i \in 0 .. n : left[i] \in Words
      /\ \A i \in 1 .. n :
           left[i] = IF Silent(a, i) THEN left[i - 1] ELSE Append(left[i - 1], a[i])
      /\ Collapse(a) = left[n]
  BY LeftsUnfold
<1> HIDE DEF left, n
<1>3. 0 \in P
  BY <1>1
<1>4. ASSUME NEW i \in 0 .. n - 1, i \in P
      PROVE  i + 1 \in P
  <2>1. i + 1 \in 1 .. n /\ i + 1 \in 0 .. n /\ (i + 1) - 1 = i /\ i \in 0 .. n /\ i + 1 # 0
    BY <1>1
  <2> SUFFICES ASSUME a[i + 1] # Blank
               PROVE  Ends(i + 1)
    BY <2>1
  <2>2. left[i + 1] = IF Silent(a, i + 1) THEN left[i] ELSE Append(left[i], a[i + 1])
    BY <1>2, <2>1
  <2>3. CASE Silent(a, i + 1)
    <3>1. i # 0 /\ a[i + 1] = a[i]
      BY <2>1, <2>3 DEF Silent
    <3>2. Ends(i)
      BY <1>4, <3>1
    <3>3. left[i + 1] = left[i]
      BY <2>2, <2>3
    <3>4. QED
      BY <3>1, <3>2, <3>3
  <2>4. CASE ~Silent(a, i + 1)
    <3>1. left[i + 1] = Append(left[i], a[i + 1])
      BY <2>2, <2>4
    <3>2. left[i] \in Seq(Tokens \ {Blank}) /\ a[i + 1] \in Tokens \ {Blank}
      BY <1>1, <1>2, <2>1 DEF Words
    <3>3. /\ Append(left[i], a[i + 1]) # <<>>
          /\ Len(Append(left[i], a[i + 1])) = Len(left[i]) + 1
          /\ Append(left[i], a[i + 1])[Len(left[i]) + 1] = a[i + 1]
      BY <3>2, AppendProperties
    <3>4. QED
      BY <3>1, <3>3
  <2>5. QED
    BY <2>3, <2>4
<1> HIDE DEF P
<1>5. \A i \in 0 .. n : i \in P
  BY <1>1, <1>3, <1>4, RangeInduction
<1>6. n \in 0 .. n
  BY <1>1
<1>7. a # <<>> => n # 0
  BY EmptySeq DEF n
<1>8. n \in P
  BY <1>5, <1>6
<1>9. QED
  BY <1>2, <1>6, <1>7, <1>8 DEF P, n

LEMMA CollapseAppended ==
  ASSUME NEW a \in Seq(Tokens), NEW t \in Tokens
  PROVE  Collapse(Append(a, t)) =
           IF t = Blank \/ (a # <<>> /\ a[Len(a)] = t)
           THEN Collapse(a) ELSE Append(Collapse(a), t)
<1> DEFINE n == Len(a)
           b == Append(a, t)
           short == Lefts(a)
           long == Lefts(b)
           P == {i \in 0 .. n : long[i] = short[i]}
<1>1. n \in Nat /\ (a # <<>> <=> n > 0)
  BY LenProperties, EmptySeq
<1>2. /\ b \in Seq(Tokens) /\ Len(b) = n + 1 /\ b[n + 1] = t
      /\ \A i \in 1 .. n : b[i] = a[i]
  BY AppendProperties
<1>3. /\ short[0] = <<>>
      /\ \A i \in 1 .. n :
           short[i] = IF Silent(a, i) THEN short[i - 1] ELSE Append(short[i - 1], a[i])
      /\ Collapse(a) = short[n]
  BY LeftsUnfold
<1>4. /\ long[0] = <<>>
      /\ \A i \in 1 .. n + 1 :
           long[i] = IF Silent(b, i) THEN long[i - 1] ELSE Append(long[i - 1], b[i])
      /\ Collapse(b) = long[n + 1]
  <2> HIDE DEF b, n
  <2>1. QED
    BY <1>2, LeftsUnfold
<1> HIDE DEF short, long, b
<1>5. 0 \in P
  BY <1>1, <1>3, <1>4
<1>6. ASSUME NEW i \in 0 .. n - 1, i \in P
      PROVE  i + 1 \in P
  <2>1. i + 1 \in 1 .. n /\ i + 1 \in 1 .. n + 1 /\ i + 1 \in 0 .. n /\ (i + 1) - 1 = i
    BY <1>1
  <2>2. long[i + 1] = IF Silent(b, i + 1) THEN long[i] ELSE Append(long[i], b[i + 1])
    BY <1>4, <2>1
  <2>3. short[i + 1] = IF Silent(a, i + 1) THEN short[i] ELSE Append(short[i], a[i + 1])
    BY <1>3, <2>1
  <2>4. b[i + 1] = a[i + 1] /\ (i + 1 > 1 => b[i] = a[i])
    <3>1. i + 1 > 1 => i \in 1 .. n
      BY <2>1
    <3>2. QED
      BY <1>2, <2>1, <3>1
  <2>5. Silent(b, i + 1) <=> Silent(a, i + 1)
    BY <2>1, <2>4 DEF Silent
  <2>6. QED
    BY <1>6, <2>1, <2>2, <2>3, <2>4, <2>5
<1> HIDE DEF P
<1>7. \A i \in 0 .. n : i \in P
  BY <1>1, <1>5, <1>6, RangeInduction
<1>8. long[n] = short[n]
  <2>1. n \in 0 .. n
    BY <1>1
  <2>2. QED
    BY <1>7, <2>1 DEF P
<1>9. long[n + 1] = IF Silent(b, n + 1) THEN long[n] ELSE Append(long[n], t)
  <2>1. n + 1 \in 1 .. n + 1 /\ (n + 1) - 1 = n
    BY <1>1
  <2>2. QED
    BY <1>2, <1>4, <2>1
<1>10. Silent(b, n + 1) <=> t = Blank \/ (a # <<>> /\ a[n] = t)
  <2>1. (n + 1) - 1 = n /\ (n + 1 > 1 <=> n > 0)
    BY <1>1
  <2>2. n > 0 => b[n] = a[n]
    <3>1. n > 0 => n \in 1 .. n
      BY <1>1
    <3>2. QED
      BY <1>2, <3>1
  <2>3. QED
    BY <1>1, <1>2, <2>1, <2>2 DEF Silent
<1>11. QED
  BY <1>3, <1>4, <1>8, <1>9, <1>10 DEF b
-----------------------------------------------------------------------------
(* An alignment whose prefix could be given the same token again. *)
EndsBlank(a) == a = <<>> \/ a[Len(a)] = Blank

(* A token more: the prefix ends in it already, or is extended by it. *)
LEMMA CollapseToToken ==
  ASSUME NEW a \in Seq(Tokens), NEW s \in Tokens, s # Blank,
         NEW w \in Words, NEW t \in Tokens, t # Blank
  PROVE  Collapse(Append(a, s)) = Append(w, t) <=>
           /\ s = t
           /\ \/ Collapse(a) = Append(w, t) /\ ~EndsBlank(a)
              \/ Collapse(a) = w /\ (Repeats(w, t) => EndsBlank(a))
<1> DEFINE left == Collapse(a)
           q == Append(w, t)
           Again == a # <<>> /\ a[Len(a)] = s
<1>1. Collapse(Append(a, s)) = IF Again THEN left ELSE Append(left, s)
  BY CollapseAppended
<1>2. left \in Words /\ (~EndsBlank(a) => left # <<>> /\ Back(left) = a[Len(a)])
  BY CollapseEnds DEF EndsBlank, Back
<1>3. q # w /\ Back(q) = t
  <2>1. w \in Seq(Tokens \ {Blank}) /\ t \in Tokens \ {Blank}
    BY DEF Words
  <2>2. Len(q) = Len(w) + 1 /\ q[Len(w) + 1] = t /\ Len(w) \in Nat
    BY <2>1, AppendProperties, LenProperties
  <2> HIDE DEF q
  <2>3. Len(q) # Len(w)
    BY <2>2
  <2>4. QED
    BY <2>2, <2>3 DEF Back
<1>4. Append(left, s) = q <=> left = w /\ s = t
  BY <1>2, AppendInjective DEF Words
<1> HIDE DEF left, q
<1>5. Again => ~EndsBlank(a)
  BY DEF EndsBlank
<1>6. Repeats(w, t) <=> w # <<>> /\ t = Back(w)
  BY DEF Repeats
<1>7. CASE Again
  <2>1. ~EndsBlank(a) /\ left # <<>> /\ Back(left) = s
    BY <1>2, <1>5, <1>7
  <2>2. left = q => s = t
    BY <1>3, <2>1
  <2>3. left = w /\ s = t => Repeats(w, t)
    BY <1>6, <2>1
  <2>4. QED
    BY <1>1, <1>7, <2>1, <2>2, <2>3 DEF left, q
<1>8. CASE ~Again
  <2>1. s = t => ~(left = q /\ ~EndsBlank(a))
    <3>1. ASSUME s = t, left = q, ~EndsBlank(a)
          PROVE  FALSE
      <4>1. a # <<>> /\ a[Len(a)] = t
        BY <1>2, <1>3, <3>1 DEF EndsBlank
      <4>2. QED
        BY <1>8, <3>1, <4>1
    <3>2. QED
      BY <3>1
  <2>2. left = w /\ s = t /\ Repeats(w, t) => EndsBlank(a)
    <3>1. ASSUME left = w, s = t, Repeats(w, t), ~EndsBlank(a)
          PROVE  FALSE
      <4>1. a # <<>> /\ a[Len(a)] = t
        BY <1>2, <1>6, <3>1 DEF EndsBlank
      <4>2. QED
        BY <1>8, <3>1, <4>1
    <3>2. QED
      BY <3>1
  <2>3. QED
    BY <1>1, <1>4, <1>8, <2>1, <2>2 DEF left, q
<1>9. QED
  BY <1>7, <1>8

LEMMA AlignmentTyped ==
  ASSUME NEW frames \in Seq(UsedFrames), NEW a \in Alignments(frames)
  PROVE  a \in Seq(Tokens) /\ Len(a) = Len(frames)
<1>1. Len(frames) \in Nat
  BY LenProperties
<1>2. a \in [1 .. Len(frames) -> Tokens]
  BY DEF Alignments
<1>3. QED
  BY <1>1, <1>2

LEMMA AlignmentsFinite ==
  ASSUME NEW frames \in Seq(UsedFrames)
  PROVE  IsFiniteSet(Alignments(frames))
<1> DEFINE P == {n \in Nat : \A seq \in Seq(UsedFrames) :
                               Len(seq) = n => IsFiniteSet(Alignments(seq))}
<1>1. 0 \in P
  <2>1. ASSUME NEW seq \in Seq(UsedFrames), Len(seq) = 0
        PROVE  IsFiniteSet(Alignments(seq))
    <3>1. Alignments(seq) \subseteq {<<>>}
      <4>1. ASSUME NEW a \in Alignments(seq)
            PROVE  a = <<>>
        <5>1. a \in Seq(Tokens) /\ Len(a) = 0
          BY <2>1, AlignmentTyped
        <5>2. QED
          BY <5>1, EmptySeq
      <4>2. QED
        BY <4>1
    <3>2. IsFiniteSet({<<>>})
      BY FS_Singleton
    <3>3. QED
      BY <3>1, <3>2, FS_Subset
  <2>2. QED
    BY <2>1
<1>2. ASSUME NEW n \in 0 .. Len(frames) - 1, n \in P
      PROVE  n + 1 \in P
  <2>1. n + 1 \in Nat /\ n + 1 # 0 /\ n \in Nat
    BY <1>2
  <2>2. ASSUME NEW seq \in Seq(UsedFrames), Len(seq) = n + 1
        PROVE  IsFiniteSet(Alignments(seq))
    <3>1. seq # <<>>
      BY <2>1, <2>2
    <3>2. PICK shorter \in Seq(UsedFrames), listened \in UsedFrames :
            seq = Append(shorter, listened)
      BY <3>1, SequenceEmptyOrAppend
    <3>3. Len(seq) = Len(shorter) + 1 /\ Len(shorter) \in Nat
      BY <3>2, AppendProperties, LenProperties
    <3>4. Len(shorter) = n
      BY <2>1, <2>2, <3>3
    <3> DEFINE pairs == Alignments(shorter) \X Heard(listened)
               longer == {Append(p[1], p[2]) : p \in pairs}
    <3>5. IsFiniteSet(pairs)
      <4>1. IsFiniteSet(Alignments(shorter)) /\ IsFiniteSet(Heard(listened))
        BY <1>2, <3>4, HeardTyped
      <4>2. QED
        BY <4>1, FS_Product
    <3>6. IsFiniteSet(longer)
      <4> DEFINE extend == [p \in pairs |-> Append(p[1], p[2])]
      <4>1. extend \in Surjection(pairs, longer)
        <5> HIDE DEF pairs
        <5>1. QED
          BY DEF Surjection
      <4> HIDE DEF extend, pairs, longer
      <4>2. QED
        BY <3>5, <4>1, FS_Surjection
    <3>7. QED
      BY <3>2, <3>6, AlignmentsAppended
  <2>3. QED
    BY <2>1, <2>2
<1> HIDE DEF P
<1>3. Len(frames) \in Nat
  BY LenProperties
<1>4. \A n \in 0 .. Len(frames) : n \in P
  BY <1>1, <1>2, <1>3, RangeInduction
<1>5. Len(frames) \in P
  BY <1>3, <1>4
<1>6. QED
  BY <1>5 DEF P
-----------------------------------------------------------------------------
Weights(frames) == [a \in Alignments(frames) |-> MassOf(frames, a)]

BlankEnded(frames, q) == {a \in Alignments(frames) : Collapse(a) = q /\ EndsBlank(a)}

TokenEnded(frames, q) == {a \in Alignments(frames) : Collapse(a) = q /\ ~EndsBlank(a)}

(* The mass of the alignments of a prefix that end in the blank, and of    *)
(* those that end in its last token.                                       *)
BlankMass(frames, q) == SumFunctionOnSet(Weights(frames), BlankEnded(frames, q))

TokenMass(frames, q) == SumFunctionOnSet(Weights(frames), TokenEnded(frames, q))

LEMMA WeightsTyped ==
  ASSUME NEW frames \in Seq(UsedFrames)
  PROVE  /\ \A a \in Alignments(frames) : Weights(frames)[a] \in Nat
         /\ \A X \in SUBSET Alignments(frames) :
              IsFiniteSet(X) /\ SumFunctionOnSet(Weights(frames), X) \in Nat
<1>1. ASSUME NEW a \in Alignments(frames)
      PROVE  Weights(frames)[a] \in Nat
  <2>1. Len(frames) \in 0 .. Len(frames)
    BY LenProperties
  <2>2. MassOf(frames, a) \in Nat
    BY <2>1, MassesUnfold
  <2>3. QED
    BY <2>2 DEF Weights
<1>2. IsFiniteSet(Alignments(frames))
  BY AlignmentsFinite
<1>3. QED
  BY <1>1, <1>2, FS_Subset, SumProperties

LEMMA MassSplit ==
  ASSUME NEW frames \in Seq(UsedFrames), NEW q
  PROVE  /\ BlankMass(frames, q) \in Nat /\ TokenMass(frames, q) \in Nat
         /\ CtcMass(frames, q) = BlankMass(frames, q) + TokenMass(frames, q)
<1> DEFINE A == BlankEnded(frames, q)
           B == TokenEnded(frames, q)
<1>1. A \in SUBSET Alignments(frames) /\ B \in SUBSET Alignments(frames) /\ A \cap B = {}
  BY DEF BlankEnded, TokenEnded
<1>2. {a \in Alignments(frames) : Collapse(a) = q} = A \union B
  BY DEF BlankEnded, TokenEnded
<1>3. CtcMass(frames, q) = SumFunctionOnSet(Weights(frames), A \union B)
  BY <1>2 DEF CtcMass, Weights
<1> HIDE DEF A, B
<1>4. SumFunctionOnSet(Weights(frames), A \union B)
        = SumFunctionOnSet(Weights(frames), A) + SumFunctionOnSet(Weights(frames), B)
  <2> DEFINE f == Weights(frames)
             S == Alignments(frames)
  <2>1. IsFiniteSet(S) /\ \A a \in S : f[a] \in Nat
    BY AlignmentsFinite, WeightsTyped
  <2> HIDE DEF f, S
  <2>2. SumFunctionOnSet(f, A \union B) = SumFunctionOnSet(f, A) + SumFunctionOnSet(f, B)
    BY <1>1, <2>1, SumOfTwo DEF S
  <2>3. QED
    BY <2>2 DEF f
<1>5. QED
  BY <1>1, <1>3, <1>4, WeightsTyped DEF BlankMass, TokenMass, A, B

(* One token more for each of some alignments. *)
LEMMA MassScaled ==
  ASSUME NEW frames \in Seq(UsedFrames), NEW listened \in UsedFrames,
         NEW X \in SUBSET Alignments(frames), NEW t \in Heard(listened)
  PROVE  SumFunctionOnSet(Weights(Append(frames, listened)), {Append(a, t) : a \in X})
           = SumFunctionOnSet(Weights(frames), X) * listened.row[t]
<1> DEFINE more == Append(frames, listened)
           h == Weights(more)
           f == Weights(frames)
           m == [a \in X |-> Append(a, t)]
<1>1. \A a \in X : f[a] \in Nat
  BY WeightsTyped
<1>2. IsFiniteSet(X)
  BY WeightsTyped
<1>3. t \in Tokens
  BY HeardTyped
<1>4. ASSUME NEW a \in X, NEW b \in X, m[a] = m[b]
      PROVE  a = b
  <2>1. a \in Seq(Tokens) /\ b \in Seq(Tokens)
    BY AlignmentTyped
  <2>2. Append(a, t) = Append(b, t)
    BY <1>4
  <2>3. QED
    BY <1>3, <2>1, <2>2, AppendInjective
<1>5. ASSUME NEW a \in X
      PROVE  h[m[a]] = f[a] * listened.row[t]
  <2>1. Append(a, t) \in Alignments(more)
    <3> DEFINE p == <<a, t>>
    <3>1. p \in Alignments(frames) \X Heard(listened) /\ Append(a, t) = Append(p[1], p[2])
      OBVIOUS
    <3> HIDE DEF p
    <3>2. Append(a, t) \in {Append(q[1], q[2]) : q \in Alignments(frames) \X Heard(listened)}
      BY <3>1
    <3>3. QED
      BY <3>2, AlignmentsAppended
  <2>2. h[Append(a, t)] = MassOf(more, Append(a, t)) /\ f[a] = MassOf(frames, a)
    BY <2>1 DEF Weights
  <2>3. MassOf(more, Append(a, t)) = MassOf(frames, a) * listened.row[t]
    BY MassAppended
  <2>4. m[a] = Append(a, t)
    OBVIOUS
  <2> HIDE DEF h, f, m, more
  <2>5. QED
    BY <2>2, <2>3, <2>4 DEF more
<1>6. {m[a] : a \in X} = {Append(a, t) : a \in X}
  OBVIOUS
<1>7. listened.row[t] \in Nat
  <2>1. listened.row \in Distributions
    BY DEF UsedFrames
  <2>2. listened.row[t] \in 0 .. Unit
    BY <1>3, <2>1, NumberAssumption
  <2>3. QED
    BY <2>2, NumberAssumption
<1> DEFINE c == listened.row[t]
<1> HIDE DEF more, h, f, m, c
<1>8. /\ c \in Nat
      /\ \A a, b \in X : m[a] = m[b] => a = b
      /\ \A a \in X : h[m[a]] = f[a] * c
  BY <1>4, <1>5, <1>7 DEF c
<1>9. SumFunctionOnSet(h, {m[a] : a \in X}) = SumFunctionOnSet(f, X) * c
  BY <1>1, <1>2, <1>8, SumScaled
<1>10. QED
  BY <1>6, <1>9 DEF h, f, more, c
-----------------------------------------------------------------------------
(* The mass with which a prefix is extended by a token: after the token    *)
(* itself only what ends in the blank starts another one.                  *)
EntryMass(blank, token, w, t) == IF Repeats(w, t) THEN blank ELSE blank + token

LEMMA ExtendedBy ==
  ASSUME NEW frames \in Seq(UsedFrames), NEW listened \in UsedFrames, NEW b
  PROVE  b \in Alignments(Append(frames, listened)) <=>
           \E a \in Alignments(frames), s \in Heard(listened) : b = Append(a, s)
<1> DEFINE pairs == Alignments(frames) \X Heard(listened)
<1>1. b \in Alignments(Append(frames, listened)) <=> \E p \in pairs : b = Append(p[1], p[2])
  <2>1. Alignments(Append(frames, listened)) = {Append(p[1], p[2]) : p \in pairs}
    BY AlignmentsAppended
  <2> HIDE DEF pairs
  <2>2. QED
    BY <2>1
<1>2. \A p \in pairs : p[1] \in Alignments(frames) /\ p[2] \in Heard(listened)
  OBVIOUS
<1>3. \A a \in Alignments(frames), s \in Heard(listened) :
        \E p \in pairs : p[1] = a /\ p[2] = s
  <2> SUFFICES ASSUME NEW a \in Alignments(frames), NEW s \in Heard(listened)
               PROVE  \E p \in pairs : p[1] = a /\ p[2] = s
    OBVIOUS
  <2>1. <<a, s>> \in pairs
    OBVIOUS
  <2>2. QED
    BY <2>1
<1> HIDE DEF pairs
<1>4. QED
  BY <1>1, <1>2, <1>3

LEMMA EndOfAppended ==
  ASSUME NEW a \in Seq(Tokens), NEW s \in Tokens
  PROVE  EndsBlank(Append(a, s)) <=> s = Blank
<1>1. /\ Append(a, s) # <<>> /\ Len(Append(a, s)) = Len(a) + 1
      /\ Append(a, s)[Len(a) + 1] = s
  BY AppendProperties
<1>2. QED
  BY <1>1 DEF EndsBlank

(* A frame more: what ends in the blank. *)
LEMMA BlankRecurrence ==
  ASSUME NEW frames \in Seq(UsedFrames), NEW listened \in UsedFrames, NEW q
  PROVE  BlankMass(Append(frames, listened), q) =
           IF Blank \in Heard(listened)
           THEN (BlankMass(frames, q) + TokenMass(frames, q)) * listened.row[Blank]
           ELSE 0
<1> DEFINE more == Append(frames, listened)
           All == {a \in Alignments(frames) : Collapse(a) = q}
<1>1. ASSUME NEW a \in Alignments(frames), NEW s \in Heard(listened)
      PROVE  /\ EndsBlank(Append(a, s)) <=> s = Blank
             /\ s = Blank => Collapse(Append(a, s)) = Collapse(a)
  <2>1. a \in Seq(Tokens) /\ s \in Tokens
    BY AlignmentTyped, HeardTyped
  <2>2. QED
    BY <2>1, EndOfAppended, CollapseAppended
<1>2. CASE Blank \in Heard(listened)
  <2>1. \A b \in BlankEnded(more, q) : \E a \in All : b = Append(a, Blank)
    <3> SUFFICES ASSUME NEW b \in BlankEnded(more, q)
                 PROVE  \E a \in All : b = Append(a, Blank)
      OBVIOUS
    <3>1. b \in Alignments(more) /\ Collapse(b) = q /\ EndsBlank(b)
      BY DEF BlankEnded
    <3>2. PICK a \in Alignments(frames), s \in Heard(listened) : b = Append(a, s)
      BY <3>1, ExtendedBy
    <3>3. s = Blank /\ Collapse(a) = q
      BY <1>1, <3>1, <3>2
    <3>4. QED
      BY <3>2, <3>3
  <2>2. \A a \in All : Append(a, Blank) \in BlankEnded(more, q)
    <3> SUFFICES ASSUME NEW a \in Alignments(frames), Collapse(a) = q
                 PROVE  Append(a, Blank) \in BlankEnded(more, q)
      OBVIOUS
    <3>1. Append(a, Blank) \in Alignments(more)
      BY <1>2, ExtendedBy
    <3>2. QED
      BY <1>1, <1>2, <3>1 DEF BlankEnded
  <2> HIDE DEF All
  <2>3. BlankEnded(more, q) = {Append(a, Blank) : a \in All}
    BY <2>1, <2>2
  <2>4. All \in SUBSET Alignments(frames)
    BY DEF All
  <2>5. BlankMass(more, q) = SumFunctionOnSet(Weights(frames), All) * listened.row[Blank]
    BY <1>2, <2>3, <2>4, MassScaled DEF BlankMass
  <2>6. SumFunctionOnSet(Weights(frames), All) = CtcMass(frames, q)
    BY DEF CtcMass, Weights, All
  <2>7. QED
    BY <1>2, <2>5, <2>6, MassSplit
<1>3. CASE Blank \notin Heard(listened)
  <2>1. ASSUME NEW b \in BlankEnded(more, q)
        PROVE  FALSE
    <3>1. b \in Alignments(more) /\ EndsBlank(b)
      BY DEF BlankEnded
    <3>2. PICK a \in Alignments(frames), s \in Heard(listened) : b = Append(a, s)
      BY <3>1, ExtendedBy
    <3>3. QED
      BY <1>1, <1>3, <3>1, <3>2
  <2>2. BlankEnded(more, q) = {}
    BY <2>1
  <2>3. more \in Seq(UsedFrames)
    BY AppendProperties
  <2> HIDE DEF more
  <2>4. SumFunctionOnSet(Weights(more), {}) = 0
    BY <2>3, AlignmentsFinite, WeightsTyped, SumProperties
  <2>5. QED
    BY <1>3, <2>2, <2>4 DEF BlankMass, more
<1>4. QED
  BY <1>2, <1>3

(* A frame more: what ends in the last token of a prefix has had that      *)
(* token before, or is given it now.                                       *)
LEMMA TokenRecurrence ==
  ASSUME NEW frames \in Seq(UsedFrames), NEW listened \in UsedFrames,
         NEW w \in Words, NEW t \in Tokens, t # Blank
  PROVE  TokenMass(Append(frames, listened), Append(w, t)) =
           IF t \in Heard(listened)
           THEN TokenMass(frames, Append(w, t)) * listened.row[t]
                + EntryMass(BlankMass(frames, w), TokenMass(frames, w), w, t) * listened.row[t]
           ELSE 0
<1> DEFINE more == Append(frames, listened)
           q == Append(w, t)
           Stay == TokenEnded(frames, q)
           Enter == {a \in Alignments(frames) :
                       Collapse(a) = w /\ (Repeats(w, t) => EndsBlank(a))}
           f == Weights(frames)
<1>1. ASSUME NEW a \in Alignments(frames), NEW s \in Heard(listened)
      PROVE  Append(a, s) \in TokenEnded(more, q) <=> s = t /\ (a \in Stay \/ a \in Enter)
  <2>1. a \in Seq(Tokens) /\ s \in Tokens
    BY AlignmentTyped, HeardTyped
  <2>2. EndsBlank(Append(a, s)) <=> s = Blank
    BY <2>1, EndOfAppended
  <2>3. Append(a, s) \in Alignments(more)
    BY ExtendedBy
  <2>4. CASE s = Blank
    BY <2>2, <2>4 DEF TokenEnded
  <2>5. CASE s # Blank
    <3>1. Collapse(Append(a, s)) = q <=>
            s = t /\ (\/ Collapse(a) = q /\ ~EndsBlank(a)
                      \/ Collapse(a) = w /\ (Repeats(w, t) => EndsBlank(a)))
      BY <2>1, <2>5, CollapseToToken
    <3> HIDE DEF q
    <3>2. QED
      BY <2>2, <2>3, <2>5, <3>1 DEF TokenEnded
  <2>6. QED
    BY <2>4, <2>5
<1>2. \A b \in TokenEnded(more, q) :
        \E a \in Alignments(frames), s \in Heard(listened) : b = Append(a, s)
  BY ExtendedBy DEF TokenEnded
<1>3. CASE t \in Heard(listened)
  <2>1. Stay \in SUBSET Alignments(frames) /\ Enter \in SUBSET Alignments(frames)
    BY DEF TokenEnded
  <2>2. Stay \cap Enter = {}
    <3>1. q # w
      <4>1. w \in Seq(Tokens \ {Blank}) /\ t \in Tokens \ {Blank}
        BY DEF Words
      <4>2. Len(q) = Len(w) + 1 /\ Len(w) \in Nat
        BY <4>1, AppendProperties, LenProperties
      <4> HIDE DEF q
      <4>3. QED
        BY <4>2
    <3>2. QED
      BY <3>1 DEF TokenEnded
  <2>3. SumFunctionOnSet(f, Enter) = EntryMass(BlankMass(frames, w), TokenMass(frames, w), w, t)
    <3>1. CASE Repeats(w, t)
      <4>1. Enter = BlankEnded(frames, w)
        BY <3>1 DEF BlankEnded
      <4>2. QED
        BY <3>1, <4>1 DEF BlankMass, EntryMass
    <3>2. CASE ~Repeats(w, t)
      <4>1. Enter = {a \in Alignments(frames) : Collapse(a) = w}
        BY <3>2
      <4>2. SumFunctionOnSet(f, Enter) = CtcMass(frames, w)
        BY <4>1 DEF CtcMass, Weights
      <4>3. QED
        BY <3>2, <4>2, MassSplit DEF EntryMass
    <3>3. QED
      BY <3>1, <3>2
  <2> HIDE DEF Enter, Stay, q
  <2>4. TokenEnded(more, q) = {Append(a, t) : a \in Stay \union Enter}
    <3>1. ASSUME NEW b \in TokenEnded(more, q)
          PROVE  \E a \in Stay \union Enter : b = Append(a, t)
      <4>1. PICK a \in Alignments(frames), s \in Heard(listened) : b = Append(a, s)
        BY <1>2
      <4>2. s = t /\ (a \in Stay \/ a \in Enter)
        BY <1>1, <4>1
      <4>3. QED
        BY <4>1, <4>2
    <3>2. ASSUME NEW a \in Stay \union Enter
          PROVE  Append(a, t) \in TokenEnded(more, q)
      BY <1>1, <1>3, <2>1
    <3>3. QED
      BY <3>1, <3>2
  <2> DEFINE SumOf(X) == SumFunctionOnSet(f, X)
  <2>5. SumOf(Stay \union Enter) = SumOf(Stay) + SumOf(Enter)
    <3>1. IsFiniteSet(Alignments(frames)) /\ \A a \in Alignments(frames) : f[a] \in Nat
      BY AlignmentsFinite, WeightsTyped
    <3> HIDE DEF f
    <3>2. QED
      BY <2>1, <2>2, <3>1, SumOfTwo
  <2>6. SumOf(Stay) \in Nat /\ SumOf(Enter) \in Nat
    BY <2>1, WeightsTyped
  <2>7. listened.row[t] \in Nat
    <3>1. listened.row \in [Tokens -> 0 .. Unit]
      BY NumberAssumption DEF UsedFrames
    <3>2. listened.row[t] \in 0 .. Unit
      BY <3>1
    <3>3. QED
      BY <3>2, NumberAssumption
  <2>8. TokenMass(more, q) = SumOf(Stay \union Enter) * listened.row[t]
    <3> DEFINE X == Stay \union Enter
    <3>1. X \in SUBSET Alignments(frames) /\ TokenEnded(more, q) = {Append(a, t) : a \in X}
      BY <2>1, <2>4
    <3>2. TokenMass(more, q) = SumFunctionOnSet(Weights(more), TokenEnded(more, q))
      BY DEF TokenMass
    <3> HIDE DEF X
    <3>3. SumFunctionOnSet(Weights(more), {Append(a, t) : a \in X})
            = SumFunctionOnSet(f, X) * listened.row[t]
      BY <1>3, <3>1, MassScaled
    <3> HIDE DEF f, more
    <3>4. TokenMass(more, q) = SumFunctionOnSet(f, X) * listened.row[t]
      BY <3>1, <3>2, <3>3
    <3>5. QED
      BY <3>4 DEF X
  <2>9. SumOf(Stay) = TokenMass(frames, q)
    BY DEF TokenMass, Stay
  <2> DEFINE p == listened.row[t]
  <2> HIDE DEF SumOf, p, more
  <2>10. (SumOf(Stay) + SumOf(Enter)) * p = SumOf(Stay) * p + SumOf(Enter) * p
    <3>1. \A x, y, z \in Nat : (x + y) * z = x * z + y * z
      OBVIOUS
    <3>2. QED
      BY <2>6, <2>7, <3>1 DEF p
  <2>11. TokenMass(more, q)
           = TokenMass(frames, q) * p
             + EntryMass(BlankMass(frames, w), TokenMass(frames, w), w, t) * p
    BY <2>3, <2>5, <2>8, <2>9, <2>10 DEF SumOf, p
  <2>12. QED
    BY <1>3, <2>11 DEF p, more, q
<1>4. CASE t \notin Heard(listened)
  <2>1. TokenEnded(more, q) = {}
    <3>1. ASSUME NEW b \in TokenEnded(more, q)
          PROVE  FALSE
      <4>1. PICK a \in Alignments(frames), s \in Heard(listened) : b = Append(a, s)
        BY <1>2
      <4>2. QED
        BY <1>1, <1>4, <4>1
    <3>2. QED
      BY <3>1
  <2>2. more \in Seq(UsedFrames)
    BY AppendProperties
  <2> HIDE DEF more
  <2>3. SumFunctionOnSet(Weights(more), {}) = 0
    BY <2>2, AlignmentsFinite, WeightsTyped, SumProperties
  <2>4. QED
    BY <1>4, <2>1, <2>3 DEF TokenMass, more
<1>5. QED
  BY <1>3, <1>4

(* Nothing that ends in a token has no prefix. *)
LEMMA EmptyPrefix ==
  ASSUME NEW frames \in Seq(UsedFrames)
  PROVE  TokenMass(frames, <<>>) = 0
<1>1. ASSUME NEW a \in TokenEnded(frames, <<>>)
      PROVE  FALSE
  <2>1. a \in Alignments(frames) /\ Collapse(a) = <<>> /\ ~EndsBlank(a)
    BY DEF TokenEnded
  <2>2. a \in Seq(Tokens)
    BY <2>1, AlignmentTyped
  <2>3. QED
    BY <2>1, <2>2, CollapseEnds DEF EndsBlank
<1>2. TokenEnded(frames, <<>>) = {}
  BY <1>1
<1>3. SumFunctionOnSet(Weights(frames), {}) = 0
  BY AlignmentsFinite, WeightsTyped, SumProperties
<1>4. QED
  BY <1>2, <1>3 DEF TokenMass

(* Before the first frame there is one alignment, of the empty prefix. *)
LEMMA FirstMass ==
  /\ BlankMass(<<>>, <<>>) = 1
  /\ \A q : q # <<>> => BlankMass(<<>>, q) = 0
  /\ \A q : TokenMass(<<>>, q) = 0
<1>1. <<>> \in Seq(UsedFrames) /\ <<>> \in Seq(Tokens) /\ Len(<<>>) = 0
  OBVIOUS
<1>2. \A a \in Alignments(<<>>) : a = <<>>
  BY <1>1, AlignmentTyped, EmptySeq
<1>3. <<>> \in Alignments(<<>>)
  BY <1>1 DEF Alignments
<1>4. Collapse(<<>>) = <<>> /\ EndsBlank(<<>>)
  BY <1>1, LeftsUnfold DEF EndsBlank
<1>5. Weights(<<>>)[<<>>] = 1
  BY <1>1, <1>3, MassesUnfold DEF Weights
<1>6. SumFunctionOnSet(Weights(<<>>), {}) = 0
  BY <1>1, AlignmentsFinite, WeightsTyped, SumProperties
<1>7. SumFunctionOnSet(Weights(<<>>), {<<>>}) = 1
  <2>1. {<<>>} \in SUBSET Alignments(<<>>) /\ {<<>>} \ {<<>>} = {}
    BY <1>3
  <2>2. SumFunctionOnSet(Weights(<<>>), {<<>>})
          = Weights(<<>>)[<<>>] + SumFunctionOnSet(Weights(<<>>), {<<>>} \ {<<>>})
    <3> DEFINE f == Weights(<<>>)
               one == {<<>>}
    <3>1. IsFiniteSet(one) /\ \A a \in one : f[a] \in Nat
      <4>1. IsFiniteSet(one)
        BY FS_Singleton
      <4>2. f[<<>>] = 1
        BY <1>5
      <4> HIDE DEF f
      <4>3. \A a \in one : f[a] \in Nat
        BY <4>2
      <4>4. QED
        BY <4>1, <4>3
    <3>2. <<>> \in one /\ one \in SUBSET one
      OBVIOUS
    <3> HIDE DEF f, one
    <3>3. SumFunctionOnSet(f, one) = f[<<>>] + SumFunctionOnSet(f, one \ {<<>>})
      BY <3>1, <3>2, SumProperties
    <3>4. QED
      BY <3>3 DEF f, one
  <2>3. SumFunctionOnSet(Weights(<<>>), {<<>>} \ {<<>>}) = 0
    BY <1>6, <2>1
  <2>4. QED
    BY <1>5, <2>2, <2>3
<1>8. BlankEnded(<<>>, <<>>) = {<<>>}
  BY <1>2, <1>3, <1>4 DEF BlankEnded
<1>9. \A q : q # <<>> => BlankEnded(<<>>, q) = {}
  BY <1>2, <1>4 DEF BlankEnded
<1>10. \A q : TokenEnded(<<>>, q) = {}
  BY <1>2, <1>4 DEF TokenEnded
<1>11. QED
  BY <1>6, <1>7, <1>8, <1>9, <1>10 DEF BlankMass, TokenMass
-----------------------------------------------------------------------------
LEMMA AtPut ==
  ASSUME NEW paths, NEW prefix, NEW path, NEW q
  PROVE  At(Put(paths, prefix, path), q) = IF q = prefix THEN path ELSE At(paths, q)
BY DEF At, Put

(* What a turn adds to a prefix: to its own when the blank or its last     *)
(* token is heard again, to the one it becomes with another token.         *)
BlankGain(q, prefix, src, token, prob) ==
  IF token = Blank /\ q = prefix THEN Total(src) * prob ELSE 0

StayGain(q, prefix, src, token, prob) ==
  IF Repeats(prefix, token) /\ q = prefix /\ Significant(src.non_blank_ending)
  THEN src.non_blank_ending * prob ELSE 0

Entry(prefix, src, token) == EntryMass(src.blank_ending, src.non_blank_ending, prefix, token)

EntryGain(q, prefix, src, token, prob) ==
  IF /\ token # Blank /\ q = Append(prefix, token)
     /\ Repeats(prefix, token) => Significant(src.blank_ending)
  THEN Entry(prefix, src, token) * prob ELSE 0

LEMMA GainsTyped ==
  ASSUME NEW src \in PathStates, NEW prob \in Nat, NEW prefix, NEW token, NEW q
  PROVE  /\ src.blank_ending \in Nat /\ src.non_blank_ending \in Nat /\ Total(src) \in Nat
         /\ Entry(prefix, src, token) \in Nat
         /\ BlankGain(q, prefix, src, token, prob) \in Nat
         /\ StayGain(q, prefix, src, token, prob) \in Nat
         /\ EntryGain(q, prefix, src, token, prob) \in Nat
<1>1. \A mass \in Nat : mass * prob \in Nat
  OBVIOUS
<1>2. src.blank_ending \in Nat /\ src.non_blank_ending \in Nat
  BY DEF PathStates
<1>3. Total(src) \in Nat /\ Entry(prefix, src, token) \in Nat
  BY <1>2 DEF Total, Entry, EntryMass
<1>4. BlankGain(q, prefix, src, token, prob) \in Nat
  BY <1>1, <1>3 DEF BlankGain
<1>5. StayGain(q, prefix, src, token, prob) \in Nat
  BY <1>1, <1>2 DEF StayGain
<1>6. EntryGain(q, prefix, src, token, prob) \in Nat
  BY <1>1, <1>3 DEF EntryGain
<1>7. QED
  BY <1>2, <1>3, <1>4, <1>5, <1>6

(* A path's masses after it is given some. *)
LEMMA GivenMass ==
  ASSUME NEW path \in PathStates, NEW mass \in Nat, NEW emitted
  PROVE  /\ GivenBlank(path, mass, emitted).blank_ending = path.blank_ending + mass
         /\ GivenBlank(path, mass, emitted).non_blank_ending = path.non_blank_ending
         /\ GivenToken(path, mass, emitted).blank_ending = path.blank_ending
         /\ GivenToken(path, mass, emitted).non_blank_ending = path.non_blank_ending + mass
<1> DEFINE Texts == Seq(Emissions)
<1>1. path \in [blank_ending : Nat, non_blank_ending : Nat, emitted : Texts]
  BY DEF PathStates
<1> HIDE DEF Texts
<1>2. QED
  BY <1>1 DEF GivenBlank, GivenToken

(* What one turn does to the masses of the beam being built. *)
Gained(paths, more, prefix, src, token, prob) ==
  \A q :
    /\ At(more, q).blank_ending = At(paths, q).blank_ending
                                  + BlankGain(q, prefix, src, token, prob)
    /\ At(more, q).non_blank_ending = At(paths, q).non_blank_ending
                                      + (StayGain(q, prefix, src, token, prob)
                                         + EntryGain(q, prefix, src, token, prob))

LEMMA AppendedDiffers ==
  ASSUME NEW prefix \in Seq(Tokens), NEW token \in Tokens
  PROVE  Append(prefix, token) # prefix
<1>1. Len(Append(prefix, token)) = Len(prefix) + 1 /\ Len(prefix) \in Nat
  BY AppendProperties, LenProperties
<1>2. QED
  BY <1>1

LEMMA BlankGains ==
  ASSUME NEW paths, SoundPaths(paths), NEW prefix, NEW src \in PathStates,
         NEW token, token = Blank, NEW prob \in Nat
  PROVE  Gained(paths, ExpandBlank(paths, prefix, src, prob), prefix, src, token, prob)
<1> DEFINE mass == Total(src) * prob
           path == GivenBlank(At(paths, prefix), mass, src.emitted)
           more == ExpandBlank(paths, prefix, src, prob)
<1>1. more = Put(paths, prefix, path)
  BY DEF ExpandBlank, GivenBlank
<1>2. mass \in Nat
  BY MassTyped
<1> HIDE DEF more
<1> SUFFICES ASSUME NEW q
             PROVE  /\ At(more, q).blank_ending
                         = At(paths, q).blank_ending + BlankGain(q, prefix, src, token, prob)
                    /\ At(more, q).non_blank_ending
                         = At(paths, q).non_blank_ending
                           + (StayGain(q, prefix, src, token, prob)
                              + EntryGain(q, prefix, src, token, prob))
  BY DEF Gained, more
<1>3. /\ At(paths, q) \in PathStates /\ At(paths, prefix) \in PathStates
      /\ At(paths, q).blank_ending \in Nat /\ At(paths, q).non_blank_ending \in Nat
  BY AtTyped, GainsTyped
<1>4. StayGain(q, prefix, src, token, prob) = 0 /\ EntryGain(q, prefix, src, token, prob) = 0
  BY DEF StayGain, EntryGain, Repeats
<1>5. CASE q = prefix
  <2>1. At(more, q) = path /\ BlankGain(q, prefix, src, token, prob) = mass
    BY <1>1, <1>5, AtPut DEF BlankGain
  <2> HIDE DEF mass
  <2>2. /\ path.blank_ending = At(paths, prefix).blank_ending + mass
        /\ path.non_blank_ending = At(paths, prefix).non_blank_ending
    BY <1>2, <1>3, GivenMass
  <2> HIDE DEF path
  <2>3. QED
    BY <1>3, <1>4, <1>5, <2>1, <2>2
<1>6. CASE q # prefix
  <2>1. At(more, q) = At(paths, q) /\ BlankGain(q, prefix, src, token, prob) = 0
    BY <1>1, <1>6, AtPut DEF BlankGain
  <2>2. QED
    BY <1>3, <1>4, <2>1
<1>7. QED
  BY <1>5, <1>6

LEMMA NewTokenGains ==
  ASSUME NEW paths, SoundPaths(paths), NEW prefix \in Seq(Tokens), NEW src \in PathStates,
         NEW token \in Tokens, token # Blank, ~Repeats(prefix, token), NEW prob \in Nat
  PROVE  Gained(paths, ExpandNewToken(paths, prefix, src, token, prob), prefix, src, token, prob)
<1> DEFINE extended == Append(prefix, token)
           dst == At(paths, extended)
           mass == Total(src) * prob
           emitted == IF dst.emitted = <<>>
                      THEN Append(src.emitted, Emission(token, prob))
                      ELSE MaybeUpdateLastEmission(dst.emitted, token, prob)
           path == GivenToken(dst, mass, emitted)
           more == ExpandNewToken(paths, prefix, src, token, prob)
<1>1. more = Put(paths, extended, path)
  <2>1. dst \in PathStates
    BY AtTyped
  <2>2. path = [dst EXCEPT !.non_blank_ending = @ + Total(src) * prob,
                           !.emitted = IF @ = <<>>
                                       THEN Append(src.emitted, Emission(token, prob))
                                       ELSE MaybeUpdateLastEmission(@, token, prob)]
    <3> HIDE DEF dst
    <3>1. QED
      BY <2>1 DEF PathStates, GivenToken
  <2>3. QED
    BY <2>2 DEF ExpandNewToken, GivenToken
<1>2. mass \in Nat
  BY MassTyped
<1> HIDE DEF more, emitted, extended
<1> SUFFICES ASSUME NEW q
             PROVE  /\ At(more, q).blank_ending
                         = At(paths, q).blank_ending + BlankGain(q, prefix, src, token, prob)
                    /\ At(more, q).non_blank_ending
                         = At(paths, q).non_blank_ending
                           + (StayGain(q, prefix, src, token, prob)
                              + EntryGain(q, prefix, src, token, prob))
  BY DEF Gained, more
<1>3. /\ At(paths, q) \in PathStates /\ dst \in PathStates
      /\ At(paths, q).blank_ending \in Nat /\ At(paths, q).non_blank_ending \in Nat
  BY AtTyped, GainsTyped
<1>4. BlankGain(q, prefix, src, token, prob) = 0 /\ StayGain(q, prefix, src, token, prob) = 0
  BY DEF BlankGain, StayGain
<1>5. CASE q = extended
  <2>1. EntryGain(q, prefix, src, token, prob) = mass
    BY <1>5 DEF EntryGain, Entry, EntryMass, Total, extended
  <2>2. At(more, q) = path
    BY <1>1, <1>5, AtPut
  <2> HIDE DEF mass, dst
  <2>3. /\ path.blank_ending = dst.blank_ending
        /\ path.non_blank_ending = dst.non_blank_ending + mass
    BY <1>2, <1>3, GivenMass
  <2> HIDE DEF path
  <2>4. dst = At(paths, q)
    BY <1>5 DEF dst
  <2>5. QED
    BY <1>2, <1>3, <1>4, <2>1, <2>2, <2>3, <2>4
<1>6. CASE q # extended
  <2>1. EntryGain(q, prefix, src, token, prob) = 0
    BY <1>6 DEF EntryGain, extended
  <2>2. At(more, q) = At(paths, q)
    BY <1>1, <1>6, AtPut
  <2>3. QED
    BY <1>3, <1>4, <2>1, <2>2
<1>7. QED
  BY <1>5, <1>6

LEMMA RepeatGains ==
  ASSUME NEW paths, SoundPaths(paths), NEW prefix, NEW src, IsSource(src, prefix),
         NEW token, NEW prob, IsHeard(token, prob), Repeats(prefix, token)
  PROVE  Gained(paths, ExpandRepeat(paths, prefix, src, token, prob), prefix, src, token, prob)
<1> DEFINE last == RepeatLast(paths, prefix, src, token, prob)
           more == RepeatAfterBlank(last, prefix, src, token, prob)
           extended == Append(prefix, token)
<1>1. /\ src \in PathStates /\ prefix \in Seq(Tokens) /\ token \in Tokens /\ prob \in Nat
      /\ token # Blank
  BY DEF IsSource, IsHeard, Spelled, Repeats
<1>2. extended # prefix
  BY <1>1, AppendedDiffers
<1>3. SoundPaths(last)
  BY RepeatLastSound
<1>4. ASSUME NEW q
      PROVE  /\ At(last, q).blank_ending = At(paths, q).blank_ending
             /\ At(last, q).non_blank_ending
                  = At(paths, q).non_blank_ending + StayGain(q, prefix, src, token, prob)
  <2> DEFINE mass == src.non_blank_ending * prob
             emitted == MaybeUpdateLastEmission(src.emitted, token, prob)
             dst == At(paths, prefix)
             path == GivenToken(dst, mass, emitted)
  <2>1. /\ mass \in Nat /\ dst \in PathStates
        /\ At(paths, q).blank_ending \in Nat /\ At(paths, q).non_blank_ending \in Nat
    BY <1>1, MassTyped, AtTyped, GainsTyped
  <2>2. CASE q = prefix /\ Significant(src.non_blank_ending)
    <3>1. StayGain(q, prefix, src, token, prob) = mass
      BY <2>2 DEF StayGain
    <3>2. last = Put(paths, prefix, path)
      BY <2>2 DEF RepeatLast, GivenToken
    <3> HIDE DEF mass, emitted, dst, last
    <3>3. /\ path.blank_ending = dst.blank_ending
          /\ path.non_blank_ending = dst.non_blank_ending + mass
      BY <2>1, GivenMass
    <3>4. At(last, q) = path /\ dst = At(paths, q)
      BY <2>2, <3>2, AtPut DEF dst
    <3> HIDE DEF path
    <3>5. QED
      BY <3>1, <3>3, <3>4
  <2>3. CASE ~(q = prefix /\ Significant(src.non_blank_ending))
    <3>1. StayGain(q, prefix, src, token, prob) = 0
      BY <2>3 DEF StayGain
    <3>2. At(last, q) = At(paths, q)
      <4>1. last = paths \/ (last = Put(paths, prefix, path) /\ q # prefix)
        BY <2>3 DEF RepeatLast, GivenToken
      <4> HIDE DEF path, last
      <4>2. QED
        BY <4>1, AtPut
    <3>3. QED
      BY <2>1, <3>1, <3>2
  <2>4. QED
    BY <2>2, <2>3
<1>5. ASSUME NEW q
      PROVE  /\ At(more, q).blank_ending = At(last, q).blank_ending
             /\ At(more, q).non_blank_ending
                  = At(last, q).non_blank_ending + EntryGain(q, prefix, src, token, prob)
  <2> DEFINE mass == src.blank_ending * prob
             emitted == Append(src.emitted, Emission(token, prob))
             dst == At(last, extended)
             path == GivenToken(dst, mass, emitted)
  <2>1. /\ mass \in Nat /\ dst \in PathStates
        /\ At(last, q).blank_ending \in Nat /\ At(last, q).non_blank_ending \in Nat
    <3> HIDE DEF last
    <3>1. QED
      BY <1>1, <1>3, MassTyped, AtTyped, GainsTyped
  <2> HIDE DEF last
  <2>2. CASE q = extended /\ Significant(src.blank_ending)
    <3>1. EntryGain(q, prefix, src, token, prob) = mass
      BY <1>1, <2>2 DEF EntryGain, Entry, EntryMass
    <3>2. more = Put(last, extended, path)
      BY <2>2 DEF RepeatAfterBlank, GivenToken
    <3> HIDE DEF mass, emitted, dst, more, extended
    <3>3. /\ path.blank_ending = dst.blank_ending
          /\ path.non_blank_ending = dst.non_blank_ending + mass
      BY <2>1, GivenMass
    <3>4. At(more, q) = path /\ dst = At(last, q)
      BY <2>2, <3>2, AtPut DEF dst
    <3> HIDE DEF path
    <3>5. QED
      BY <3>1, <3>3, <3>4
  <2>3. CASE ~(q = extended /\ Significant(src.blank_ending))
    <3>1. EntryGain(q, prefix, src, token, prob) = 0
      BY <2>3 DEF EntryGain
    <3>2. At(more, q) = At(last, q)
      <4>1. more = last \/ (more = Put(last, extended, path) /\ q # extended)
        BY <2>3 DEF RepeatAfterBlank, GivenToken
      <4> HIDE DEF path, more, extended
      <4>2. QED
        BY <4>1, AtPut
    <3>3. QED
      BY <2>1, <3>1, <3>2
  <2>4. QED
    BY <2>2, <2>3
<1>6. \A q : BlankGain(q, prefix, src, token, prob) = 0
  BY <1>1 DEF BlankGain
<1>7. \A q : /\ At(paths, q).blank_ending \in Nat /\ At(paths, q).non_blank_ending \in Nat
             /\ StayGain(q, prefix, src, token, prob) \in Nat
             /\ EntryGain(q, prefix, src, token, prob) \in Nat
  BY <1>1, AtTyped, GainsTyped
<1>8. ExpandRepeat(paths, prefix, src, token, prob) = more
  BY DEF ExpandRepeat
<1> HIDE DEF last, more
<1>9. Gained(paths, more, prefix, src, token, prob)
  <2> SUFFICES ASSUME NEW q
               PROVE  /\ At(more, q).blank_ending
                           = At(paths, q).blank_ending + BlankGain(q, prefix, src, token, prob)
                      /\ At(more, q).non_blank_ending
                           = At(paths, q).non_blank_ending
                             + (StayGain(q, prefix, src, token, prob)
                                + EntryGain(q, prefix, src, token, prob))
    BY DEF Gained
  <2>1. /\ At(more, q).blank_ending = At(paths, q).blank_ending
        /\ At(more, q).non_blank_ending
             = At(paths, q).non_blank_ending + StayGain(q, prefix, src, token, prob)
               + EntryGain(q, prefix, src, token, prob)
    BY <1>4, <1>5
  <2>2. QED
    BY <1>6, <1>7, <2>1
<1>10. QED
  BY <1>8, <1>9
-----------------------------------------------------------------------------
(* A token is a candidate of a frame once, and is heard there.             *)
Distinct(candidates, row) ==
  \A c \in DOMAIN candidates :
    /\ row[candidates[c]] # 0
    /\ \A d \in DOMAIN candidates : candidates[c] = candidates[d] => c = d

HeardInv == \A i \in 1 .. Len(used) : Distinct(used[i].candidates, used[i].row)

LEMMA CandidatesDistinct ==
  ASSUME NEW row \in Distributions, NEW candidates \in CollectFrameCandidates(row)
  PROVE  Distinct(candidates, row)
<1>1. PICK top \in TopTokens(row) :
        candidates = [i \in {j \in DOMAIN top :
                               row[top[j]] > MinTokenProb /\ top[j] \in SearchableTokens} |-> top[i]]
  BY DEF CollectFrameCandidates, RestrictValues, Restrict
<1>2. /\ top \in [1 .. ScoreBeamSize -> Tokens]
      /\ \A i, j \in 1 .. ScoreBeamSize : i < j => top[i] # top[j]
  BY DEF TopTokens
<1>3. ASSUME NEW c \in DOMAIN candidates
      PROVE  /\ c \in 1 .. ScoreBeamSize /\ candidates[c] = top[c]
             /\ row[top[c]] > MinTokenProb
  BY <1>1, <1>2
<1>4. ASSUME NEW c \in DOMAIN candidates
      PROVE  row[candidates[c]] # 0
  <2>1. candidates[c] \in Tokens
    BY <1>2, <1>3
  <2>2. row[candidates[c]] \in 0 .. Unit
    BY <2>1, NumberAssumption
  <2>3. row[candidates[c]] > MinTokenProb
    BY <1>3
  <2>4. QED
    BY <2>2, <2>3, NumberAssumption
<1>5. ASSUME NEW c \in DOMAIN candidates, NEW d \in DOMAIN candidates,
             candidates[c] = candidates[d]
      PROVE  c = d
  <2>1. c \in Int /\ d \in Int /\ ~(c < d) /\ ~(d < c)
    BY <1>2, <1>3, <1>5
  <2>2. QED
    BY <2>1
<1>6. QED
  BY <1>4, <1>5 DEF Distinct

LEMMA HeardHolds == Spec => []HeardInv
<1>1. Init => HeardInv
  <2> SUFFICES ASSUME Init PROVE HeardInv
    OBVIOUS
  <2>1. Len(used) = 0
    BY DEF Init
  <2>2. QED
    BY <2>1 DEF HeardInv
<1>2. UsedInv /\ HeardInv /\ [Next]_vars => HeardInv'
  <2> SUFFICES ASSUME UsedInv, HeardInv, [Next]_vars
               PROVE  HeardInv'
    OBVIOUS
  <2>1. ASSUME NEW row \in Distributions, NEW c \in CollectFrameCandidates(row), BeginFrame(row, c)
        PROVE  HeardInv'
    <3>1. CASE DOMAIN c = {}
      BY <2>1, <3>1 DEF BeginFrame, HeardInv
    <3>2. CASE DOMAIN c # {}
      <4> DEFINE listened == [frame |-> frame + 1, row |-> row, candidates |-> c]
      <4>1. used' = Append(used, listened) /\ frame' = frame + 1 /\ pc' = "expand"
        BY <2>1, <3>2 DEF BeginFrame
      <4>2. /\ listened \in UsedFrames /\ listened.frame = frame + 1
            /\ listened.row = row /\ listened.candidates = c
        <5>1. frame + 1 \in Nat
          BY DEF UsedInv
        <5>2. QED
          BY <5>1, CandidatesTyped DEF UsedFrames
      <4> HIDE DEF listened
      <4>3. /\ Len(used') = Len(used) + 1 /\ Len(used) \in Nat
            /\ \A i \in 1 .. Len(used) : used'[i] = used[i]
            /\ used'[Len(used')] = listened
        BY <4>1, <4>2, UsedGrows, LenProperties DEF UsedInv
      <4>4. Distinct(listened.candidates, listened.row)
        BY <4>2, CandidatesDistinct
      <4>5. ASSUME NEW i \in 1 .. Len(used')
            PROVE  Distinct(used'[i].candidates, used'[i].row)
        <5>1. CASE i = Len(used')
          BY <4>3, <4>4, <5>1
        <5>2. CASE i # Len(used')
          <6>1. i \in 1 .. Len(used)
            BY <4>3, <5>2
          <6>2. QED
            BY <4>3, <6>1 DEF HeardInv
        <5>3. QED
          BY <5>1, <5>2
      <4>6. QED
        BY <4>5 DEF HeardInv, Distinct
    <3>3. QED
      BY <3>1, <3>2
  <2>2. CASE Expand \/ KeepTopPaths \/ Finish \/ Done \/ UNCHANGED vars
    BY <2>2 DEF Expand, KeepTopPaths, Finish, Done, vars, HeardInv
  <2>3. QED
    BY <2>1, <2>2 DEF Next
<1>3. QED
  BY <1>1, <1>2, UsedHolds, PTL DEF Spec

(* An alignment weighs something. *)
LEMMA MassPositive ==
  ASSUME NEW frames \in Seq(UsedFrames), NEW a \in Alignments(frames),
         \A i \in 1 .. Len(frames) : Distinct(frames[i].candidates, frames[i].row)
  PROVE  MassOf(frames, a) \in Nat \ {0}
<1> DEFINE n == Len(frames)
           m == Masses(frames, a)
           P == {i \in 0 .. n : m[i] \in Nat \ {0}}
<1>1. n \in Nat
  BY LenProperties
<1>2. /\ m[0] = 1
      /\ \A i \in 1 .. n : m[i] = m[i - 1] * frames[i].row[a[i]]
      /\ MassOf(frames, a) = m[n]
  BY MassesUnfold
<1>3. \A i \in 1 .. n : frames[i].row[a[i]] \in Nat \ {0}
  <2> SUFFICES ASSUME NEW i \in 1 .. n
               PROVE  frames[i].row[a[i]] \in Nat \ {0}
    OBVIOUS
  <2>1. PICK c \in DOMAIN frames[i].candidates : a[i] = frames[i].candidates[c]
    BY DEF Alignments
  <2>2. frames[i].row[a[i]] # 0
    BY <2>1 DEF Distinct
  <2>3. QED
    BY <2>2, FrameTyped
<1> HIDE DEF n, m
<1>4. 0 \in P
  BY <1>1, <1>2
<1>5. ASSUME NEW i \in 0 .. n - 1, i \in P
      PROVE  i + 1 \in P
  <2>1. i + 1 \in 1 .. n /\ i + 1 \in 0 .. n /\ (i + 1) - 1 = i
    BY <1>1
  <2>2. m[i + 1] = m[i] * frames[i + 1].row[a[i + 1]]
    BY <1>2, <2>1
  <2>3. \A v, w \in Nat \ {0} : v * w \in Nat \ {0}
    OBVIOUS
  <2>4. m[i] \in Nat \ {0} /\ frames[i + 1].row[a[i + 1]] \in Nat \ {0}
    BY <1>3, <1>5, <2>1
  <2>5. QED
    BY <2>1, <2>2, <2>3, <2>4
<1> HIDE DEF P
<1>6. \A i \in 0 .. n : i \in P
  BY <1>1, <1>4, <1>5, RangeInduction
<1>7. n \in 0 .. n
  BY <1>1
<1>8. QED
  BY <1>2, <1>6, <1>7 DEF P
-----------------------------------------------------------------------------
(* The turn of a token and a path of the last beam has been taken.         *)
Turned(prefix, token) ==
  /\ prefix \in DOMAIN beam
  /\ \E c \in DOMAIN Back(used).candidates :
       Back(used).candidates[c] = token /\ <<c, prefix>> \notin todo

Prob(token) == Back(used).row[token]

(* What the turns taken so far have given to a prefix. *)
BlankSoFar(q) == IF Turned(q, Blank) THEN Total(beam[q]) * Prob(Blank) ELSE 0

StaySoFar(q, t) ==
  IF Turned(q, t) THEN StayGain(q, q, beam[q], t, Prob(t)) ELSE 0

EntrySoFar(w, t) ==
  IF Turned(w, t) THEN EntryGain(Append(w, t), w, beam[w], t, Prob(t)) ELSE 0

SoFar(q) ==
  IF q = <<>> THEN 0
  ELSE StaySoFar(q, Back(q)) + EntrySoFar(SubSeq(q, 1, Len(q) - 1), Back(q))

(* The prefixes of a beam have no blanks. *)
InWords(paths) == \A p \in DOMAIN paths : p \in Words

(* While a frame is worked on the beam being built holds what the turns    *)
(* taken have given it, and nothing else; no mass has been lost as long as *)
(* no source of a repeat was faint.                                        *)
BuildInv ==
  /\ InWords(beam)
  /\ pc = "expand" =>
       /\ InWords(next)
       /\ \A q \in Words : /\ At(next, q).blank_ending = BlankSoFar(q)
                           /\ At(next, q).non_blank_ending = SoFar(q)
       /\ lost = {} => \A p \in DOMAIN beam, t \in Tokens :
                         Turned(p, t) /\ Repeats(p, t) => ~Faint(beam[p])

(* The last token of a word and what is before it. *)
LEMMA WordParts ==
  ASSUME NEW q \in Words, q # <<>>
  PROVE  /\ SubSeq(q, 1, Len(q) - 1) \in Words /\ Back(q) \in Tokens /\ Back(q) # Blank
         /\ q = Append(SubSeq(q, 1, Len(q) - 1), Back(q))
         /\ q # SubSeq(q, 1, Len(q) - 1)
<1> DEFINE T == Tokens \ {Blank}
           n == Len(q)
           w == SubSeq(q, 1, n - 1)
<1>1. q \in Seq(T) /\ n \in Nat /\ n # 0
  BY LenProperties, EmptySeq DEF Words
<1>2. n \in 1 .. n /\ q[n] \in T
  <2>1. n \in 1 .. n
    BY <1>1
  <2>2. QED
    BY <1>1, <2>1, ElementOfSeq
<1>3. w \in Seq(T) /\ Len(w) = n - 1 /\ \A i \in 1 .. n - 1 : w[i] = q[i]
  <2> DEFINE m == n - 1
  <2>1. m \in Int /\ 1 \in Int /\ \A i \in 1 .. m : q[i] \in T
    <3>1. \A i \in 1 .. n - 1 : i \in 1 .. n
      BY <1>1
    <3>2. \A i \in 1 .. n : q[i] \in T
      BY <1>1, ElementOfSeq
    <3>3. QED
      BY <1>1, <3>1, <3>2
  <2> HIDE DEF m
  <2>2. /\ SubSeq(q, 1, m) \in Seq(T)
        /\ Len(SubSeq(q, 1, m)) = IF 1 <= m THEN m - 1 + 1 ELSE 0
        /\ \A i \in 1 .. m - 1 + 1 : SubSeq(q, 1, m)[i] = q[1 + i - 1]
    BY <2>1, SubSeqProperties
  <2>3. m \in Nat /\ m - 1 + 1 = m
    BY <1>1 DEF m
  <2> DEFINE front == SubSeq(q, 1, m)
  <2>4. front \in Seq(T)
    BY <2>2
  <2>5. Len(front) = m
    BY <2>2, <2>3
  <2>6. \A i \in 1 .. m : front[i] = q[1 + i - 1]
    BY <2>2, <2>3
  <2>7. \A i \in 1 .. m : 1 + i - 1 = i
    BY <2>3
  <2> HIDE DEF front
  <2>8. \A i \in 1 .. m : front[i] = q[i]
    BY <2>6, <2>7
  <2>9. QED
    BY <2>4, <2>5, <2>8 DEF m, front
<1> HIDE DEF n, w
<1>4. q = Append(w, q[n])
  <2> DEFINE longer == Append(w, q[n])
  <2>1. /\ longer \in Seq(T) /\ Len(longer) = n
        /\ \A i \in 1 .. n - 1 : longer[i] = w[i]
        /\ longer[n] = q[n]
    BY <1>1, <1>2, <1>3, AppendProperties
  <2> HIDE DEF longer
  <2>2. ASSUME NEW i \in 1 .. n
        PROVE  longer[i] = q[i]
    <3>1. i = n \/ i \in 1 .. n - 1
      BY <1>1
    <3>2. QED
      BY <1>3, <2>1, <3>1
  <2>3. Len(longer) = Len(q)
    BY <2>1 DEF n
  <2>4. longer = q
    BY <1>1, <2>1, <2>2, <2>3, SeqEqual DEF n
  <2>5. QED
    BY <2>4 DEF longer
<1>5. q # w
  BY <1>1, <1>3 DEF n
<1>6. QED
  BY <1>2, <1>3, <1>4, <1>5 DEF w, n, Words, Back
-----------------------------------------------------------------------------
LEMMA ProbTyped ==
  ASSUME UsedInv, pc = "expand", NEW t \in Tokens
  PROVE  /\ Len(used) \in 1 .. Len(used) /\ Back(used) = used[Len(used)]
         /\ Back(used) \in UsedFrames
         /\ Prob(t) \in Nat
<1>1. Len(used) \in 1 .. Len(used) /\ Back(used) = used[Len(used)]
  <2>1. Len(used) \in Nat
    BY LenProperties DEF UsedInv
  <2>2. QED
    BY <2>1 DEF UsedInv, Back
<1>2. Back(used) \in UsedFrames
  <2>1. used \in Seq(UsedFrames)
    BY DEF UsedInv
  <2>2. QED
    BY <1>1, <2>1, ElementOfSeq
<1>3. Back(used).row \in [Tokens -> 0 .. Unit]
  BY <1>2, NumberAssumption DEF UsedFrames
<1>4. Prob(t) \in 0 .. Unit
  BY <1>3 DEF Prob
<1>5. QED
  BY <1>1, <1>2, <1>4, NumberAssumption

LEMMA SoFarTyped ==
  ASSUME UsedInv, PathInv, pc = "expand", NEW p, NEW t \in Tokens
  PROVE  StaySoFar(p, t) \in Nat /\ EntrySoFar(p, t) \in Nat /\ BlankSoFar(p) \in Nat
<1>1. Prob(t) \in Nat /\ Prob(Blank) \in Nat
  BY ProbTyped, TokenAssumption
<1>2. CASE p \in DOMAIN beam
  <2>1. beam[p] \in PathStates
    BY <1>2 DEF PathInv, SoundPaths
  <2>2. StayGain(p, p, beam[p], t, Prob(t)) \in Nat
        /\ EntryGain(Append(p, t), p, beam[p], t, Prob(t)) \in Nat
    BY <1>1, <2>1, GainsTyped
  <2>3. Total(beam[p]) * Prob(Blank) \in Nat
    BY <1>1, <2>1, MassTyped
  <2>4. QED
    BY <2>2, <2>3 DEF StaySoFar, EntrySoFar, BlankSoFar
<1>3. CASE p \notin DOMAIN beam
  BY <1>3 DEF StaySoFar, EntrySoFar, BlankSoFar, Turned
<1>4. QED
  BY <1>2, <1>3

(* One turn gives the beam being built what it should. *)
LEMMA TurnGains ==
  ASSUME UsedInv, PathInv, BuildInv, pc = "expand",
         NEW c \in DOMAIN Back(used).candidates, NEW prefix \in DOMAIN beam,
         NEW token, token = Back(used).candidates[c],
         ExpandOneStep(prefix, beam[prefix], token, Prob(token))
  PROVE  /\ token \in Tokens /\ Prob(token) \in Nat
         /\ \E paths : /\ next' = paths
                       /\ Gained(next, paths, prefix, beam[prefix], token, Prob(token))
                       /\ InWords(paths)
<1> DEFINE prob == Prob(token)
           src == beam[prefix]
           extended == Append(prefix, token)
<1>1. SoundPaths(next) /\ IsSource(src, prefix) /\ src \in PathStates
  BY DEF PathInv, IsSource, SoundPaths
<1>2. IsHeard(token, prob)
  BY Candidate DEF IsHeard, UsedInv, Prob
<1>3. token \in Tokens /\ prob \in Nat
  BY <1>2 DEF IsHeard
<1>4. prefix \in Words /\ prefix \in Seq(Tokens) /\ InWords(next)
  BY <1>1 DEF BuildInv, InWords, IsSource, Spelled
<1>5. token # Blank => extended \in Words
  BY <1>3, <1>4, AppendProperties DEF Words
<1>6. ASSUME NEW paths, InWords(paths), NEW q \in Words, NEW path
      PROVE  InWords(Put(paths, q, path))
  BY <1>6 DEF InWords, Put
<1> HIDE DEF prob, src
<1>7. CASE token = Blank
  <2> DEFINE more == ExpandBlank(next, prefix, src, prob)
  <2>1. next' = more
    BY <1>7 DEF ExpandOneStep, src, prob
  <2>2. Gained(next, more, prefix, src, token, prob)
    BY <1>1, <1>3, <1>7, BlankGains
  <2>3. InWords(more)
    BY <1>4, <1>6 DEF ExpandBlank
  <2> HIDE DEF more
  <2>4. QED
    BY <1>3, <2>1, <2>2, <2>3 DEF src, prob
<1>8. CASE token # Blank /\ Repeats(prefix, token)
  <2> DEFINE last == RepeatLast(next, prefix, src, token, prob)
             more == RepeatAfterBlank(last, prefix, src, token, prob)
  <2>1. next' = more
    BY <1>8 DEF ExpandOneStep, ExpandRepeat, src, prob
  <2>2. Gained(next, more, prefix, src, token, prob)
    BY <1>1, <1>2, <1>8, RepeatGains DEF ExpandRepeat
  <2>3. InWords(last)
    BY <1>4, <1>6 DEF RepeatLast
  <2> HIDE DEF last
  <2>4. InWords(more)
    BY <1>5, <1>6, <1>8, <2>3 DEF RepeatAfterBlank
  <2> HIDE DEF more
  <2>5. QED
    BY <1>3, <2>1, <2>2, <2>4 DEF src, prob
<1>9. CASE token # Blank /\ ~Repeats(prefix, token)
  <2> DEFINE more == ExpandNewToken(next, prefix, src, token, prob)
  <2>1. next' = more
    BY <1>9 DEF ExpandOneStep, src, prob
  <2>2. Gained(next, more, prefix, src, token, prob)
    BY <1>1, <1>3, <1>4, <1>9, NewTokenGains
  <2>3. InWords(more)
    BY <1>4, <1>5, <1>6, <1>9 DEF ExpandNewToken
  <2> HIDE DEF more
  <2>4. QED
    BY <1>3, <2>1, <2>2, <2>3 DEF src, prob
<1>10. QED
  BY <1>7, <1>8, <1>9

(* What has been given grows by what the turn gives. *)
LEMMA SoFarGrows ==
  ASSUME UsedInv, PathInv, HeardInv, pc = "expand", InWords(beam), NEW turn \in todo,
         todo' = todo \ {turn}, UNCHANGED <<pc, used, scale, beam>>
  PROVE  LET token == Back(used).candidates[turn[1]]
             prefix == turn[2]
         IN  /\ \A p, t : Turned(p, t)' <=> Turned(p, t) \/ (p = prefix /\ t = token)
             /\ \A q \in Words :
                  /\ BlankSoFar(q)' = BlankSoFar(q)
                                      + BlankGain(q, prefix, beam[prefix], token, Prob(token))
                  /\ SoFar(q)' = SoFar(q)
                                 + (StayGain(q, prefix, beam[prefix], token, Prob(token))
                                    + EntryGain(q, prefix, beam[prefix], token, Prob(token)))
<1> DEFINE heard == Back(used).candidates
           c == turn[1]
           token == heard[c]
           prefix == turn[2]
           src == beam[prefix]
           prob == Prob(token)
<1>1. c \in DOMAIN heard /\ prefix \in DOMAIN beam /\ turn = <<c, prefix>>
  <2>1. turn \in (DOMAIN heard) \X (DOMAIN beam)
    BY DEF PathInv
  <2>2. QED
    BY <2>1
<1>2. heard' = heard /\ beam' = beam
  BY DEF Back
<1>3. \A d \in DOMAIN heard : heard[d] = token => d = c
  <2>1. Distinct(heard, Back(used).row)
    BY ProbTyped, TokenAssumption DEF HeardInv
  <2>2. QED
    BY <1>1, <2>1 DEF Distinct
<1> HIDE DEF heard, c, prefix
<1>4. ~Turned(prefix, token)
  BY <1>1, <1>3 DEF Turned, heard
<1>5. ASSUME NEW p, NEW t
      PROVE  Turned(p, t)' <=> Turned(p, t) \/ (p = prefix /\ t = token)
  <2>1. Turned(p, t) <=> p \in DOMAIN beam /\ \E d \in DOMAIN heard : heard[d] = t /\ <<d, p>> \notin todo
    BY DEF Turned, heard
  <2>2. Turned(p, t)' <=>
          p \in DOMAIN beam /\ \E d \in DOMAIN heard : heard[d] = t /\ <<d, p>> \notin todo'
    BY <1>2 DEF Turned, heard
  <2>3. \A d : <<d, p>> \notin todo' <=> <<d, p>> \notin todo \/ (d = c /\ p = prefix)
    BY <1>1
  <2>4. QED
    BY <1>1, <2>1, <2>2, <2>3
<1>6. token \in Tokens /\ prob \in Nat /\ Prob(Blank) \in Nat /\ src \in PathStates
  <2>1. Back(used).candidates \in CandidateLists
    BY ProbTyped, TokenAssumption DEF UsedFrames
  <2>2. token \in Tokens
    BY <1>1, <2>1 DEF heard, CandidateLists
  <2>3. src \in PathStates
    BY <1>1 DEF PathInv, SoundPaths
  <2>4. QED
    BY <2>2, <2>3, ProbTyped, TokenAssumption
<1>7. prefix \in Words
  BY <1>1 DEF InWords
<1> HIDE DEF token
<1>8. /\ \A t : Prob(t)' = Prob(t)
      /\ \A q, p, path, t, m : StayGain(q, p, path, t, m)' = StayGain(q, p, path, t, m)
      /\ \A q, p, path, t, m : EntryGain(q, p, path, t, m)' = EntryGain(q, p, path, t, m)
  <2>1. \A t : Prob(t)' = Prob(t)
    BY DEF Prob, Back
  <2>2. \A m : Significant(m)' <=> Significant(m)
    BY DEF Significant
  <2>3. QED
    BY <2>1, <2>2 DEF StayGain, EntryGain
<1>9. ASSUME NEW q \in Words
      PROVE  BlankSoFar(q)' = BlankSoFar(q) + BlankGain(q, prefix, src, token, prob)
  <2>1. BlankSoFar(q)' = IF Turned(q, Blank)' THEN Total(beam[q]) * Prob(Blank) ELSE 0
    BY <1>2, <1>8 DEF BlankSoFar
  <2>2. CASE q = prefix /\ token = Blank
    <3>1. BlankSoFar(q) = 0
      BY <1>4, <2>2 DEF BlankSoFar
    <3>2. BlankSoFar(q)' = Total(src) * prob
      BY <1>5, <2>1, <2>2
    <3>3. BlankGain(q, prefix, src, token, prob) = Total(src) * prob
      BY <2>2 DEF BlankGain
    <3>4. Total(src) * prob \in Nat
      BY <1>6, MassTyped
    <3>5. QED
      BY <3>1, <3>2, <3>3, <3>4
  <2>3. CASE ~(q = prefix /\ token = Blank)
    <3>1. BlankSoFar(q)' = BlankSoFar(q)
      <4>1. Turned(q, Blank)' <=> Turned(q, Blank)
        BY <1>5, <2>3
      <4>2. QED
        BY <2>1, <4>1 DEF BlankSoFar
    <3>2. BlankGain(q, prefix, src, token, prob) = 0
      BY <2>3 DEF BlankGain
    <3>3. BlankSoFar(q) \in Nat
      BY TokenAssumption, SoFarTyped
    <3>4. QED
      BY <3>1, <3>2, <3>3
  <2>4. QED
    BY <2>2, <2>3
<1>10. ASSUME NEW q \in Words, q # <<>>, NEW w \in Words, NEW t \in Tokens,
              t = Back(q), q = Append(w, t), t # Blank
       PROVE  /\ StaySoFar(q, t)' = StaySoFar(q, t) + StayGain(q, prefix, src, token, prob)
              /\ EntrySoFar(w, t)' = EntrySoFar(w, t) + EntryGain(q, prefix, src, token, prob)
  <2>1. StaySoFar(q, t)' =
          IF Turned(q, t)' THEN StayGain(q, q, beam[q], t, Prob(t)) ELSE 0
    BY <1>2, <1>8 DEF StaySoFar
  <2>2. EntrySoFar(w, t)' =
          IF Turned(w, t)' THEN EntryGain(Append(w, t), w, beam[w], t, Prob(t)) ELSE 0
    BY <1>2, <1>8 DEF EntrySoFar
  <2>3. StaySoFar(q, t) \in Nat /\ EntrySoFar(w, t) \in Nat
    BY SoFarTyped
  <2>4. StayGain(q, prefix, src, token, prob) \in Nat
        /\ EntryGain(q, prefix, src, token, prob) \in Nat
    BY <1>6, GainsTyped
  <2>5. StaySoFar(q, t)' = StaySoFar(q, t) + StayGain(q, prefix, src, token, prob)
    <3>1. CASE q = prefix /\ t = token
      <4>1. StaySoFar(q, t) = 0
        BY <1>4, <3>1 DEF StaySoFar
      <4>2. StaySoFar(q, t)' = StayGain(q, prefix, src, token, prob)
        BY <1>5, <2>1, <3>1
      <4>3. QED
        BY <2>4, <4>1, <4>2
    <3>2. CASE ~(q = prefix /\ t = token)
      <4>1. StaySoFar(q, t)' = StaySoFar(q, t)
        <5>1. Turned(q, t)' <=> Turned(q, t)
          BY <1>5, <3>2
        <5>2. QED
          BY <2>1, <5>1 DEF StaySoFar
      <4>2. StayGain(q, prefix, src, token, prob) = 0
        BY <1>10, <3>2 DEF StayGain, Repeats
      <4>3. QED
        BY <2>3, <4>1, <4>2
    <3>3. QED
      BY <3>1, <3>2
  <2>6. EntrySoFar(w, t)' = EntrySoFar(w, t) + EntryGain(q, prefix, src, token, prob)
    <3>1. CASE w = prefix /\ t = token
      <4>1. EntrySoFar(w, t) = 0
        BY <1>4, <3>1 DEF EntrySoFar
      <4>2. EntrySoFar(w, t)' = EntryGain(q, prefix, src, token, prob)
        BY <1>5, <1>10, <2>2, <3>1
      <4>3. QED
        BY <2>4, <4>1, <4>2
    <3>2. CASE ~(w = prefix /\ t = token)
      <4>1. EntrySoFar(w, t)' = EntrySoFar(w, t)
        <5>1. Turned(w, t)' <=> Turned(w, t)
          BY <1>5, <3>2
        <5>2. QED
          BY <2>2, <5>1 DEF EntrySoFar
      <4>2. EntryGain(q, prefix, src, token, prob) = 0
        <5>1. w \in Seq(Tokens \ {Blank}) /\ prefix \in Seq(Tokens \ {Blank})
          BY <1>7 DEF Words
        <5>2. token # Blank => Append(prefix, token) # Append(w, t)
          <6>1. ASSUME token # Blank, Append(prefix, token) = Append(w, t)
                PROVE  FALSE
            <7>1. token \in Tokens \ {Blank} /\ t \in Tokens \ {Blank}
              BY <1>6, <1>10, <6>1
            <7>2. prefix = w /\ token = t
              BY <5>1, <6>1, <7>1, AppendInjective
            <7>3. QED
              BY <3>2, <7>2
          <6>2. QED
            BY <6>1
        <5>3. QED
          BY <1>10, <5>2 DEF EntryGain
      <4>3. QED
        BY <2>3, <4>1, <4>2
    <3>3. QED
      BY <3>1, <3>2
  <2>7. QED
    BY <2>5, <2>6
<1>11. ASSUME NEW q \in Words
       PROVE  SoFar(q)' = SoFar(q) + (StayGain(q, prefix, src, token, prob)
                                      + EntryGain(q, prefix, src, token, prob))
  <2>1. CASE q = <<>>
    <3>1. SoFar(q) = 0 /\ SoFar(q)' = 0
      BY <2>1 DEF SoFar
    <3>2. StayGain(q, prefix, src, token, prob) = 0
      BY <2>1 DEF StayGain, Repeats
    <3>3. Append(prefix, token) # <<>>
      <4>1. prefix \in Seq(Tokens)
        BY <1>1 DEF PathInv, SoundPaths, Spelled
      <4>2. QED
        BY <1>6, <4>1, AppendProperties
    <3>4. EntryGain(q, prefix, src, token, prob) = 0
      BY <2>1, <3>3 DEF EntryGain
    <3>5. QED
      BY <3>1, <3>2, <3>4
  <2>2. CASE q # <<>>
    <3> DEFINE t == Back(q)
               w == SubSeq(q, 1, Len(q) - 1)
    <3>1. w \in Words /\ t \in Tokens /\ t # Blank /\ q = Append(w, t)
      BY <2>2, WordParts
    <3>2. SoFar(q) = StaySoFar(q, t) + EntrySoFar(w, t)
          /\ SoFar(q)' = StaySoFar(q, t)' + EntrySoFar(w, t)'
      BY <2>2 DEF SoFar
    <3> HIDE DEF w
    <3>3. /\ StaySoFar(q, t)' = StaySoFar(q, t) + StayGain(q, prefix, src, token, prob)
          /\ EntrySoFar(w, t)' = EntrySoFar(w, t) + EntryGain(q, prefix, src, token, prob)
      BY <1>10, <2>2, <3>1
    <3>4. /\ StaySoFar(q, t) \in Nat /\ EntrySoFar(w, t) \in Nat
          /\ StayGain(q, prefix, src, token, prob) \in Nat
          /\ EntryGain(q, prefix, src, token, prob) \in Nat
      BY <1>6, <3>1, SoFarTyped, GainsTyped
    <3>5. QED
      BY <3>2, <3>3, <3>4
  <2>3. QED
    BY <2>1, <2>2
<1>12. QED
  BY <1>5, <1>9, <1>11 DEF token, prefix, heard, c, src, prob
-----------------------------------------------------------------------------
LEMMA BuildHolds == Spec => []BuildInv
<1>1. Init => BuildInv
  <2> SUFFICES ASSUME Init PROVE BuildInv
    OBVIOUS
  <2>1. pc = "frame" /\ DOMAIN beam = {<<>>}
    BY DEF Init
  <2>2. <<>> \in Words
    BY DEF Words
  <2>3. QED
    BY <2>1, <2>2 DEF BuildInv, InWords
<1>2. UsedInv /\ PathInv /\ HeardInv /\ SizeInv /\ BuildInv /\ [Next]_vars => BuildInv'
  <2> SUFFICES ASSUME UsedInv, PathInv, HeardInv, SizeInv, BuildInv, [Next]_vars
               PROVE  BuildInv'
    OBVIOUS
  <2>1. ASSUME NEW row \in Distributions, NEW c \in CollectFrameCandidates(row), BeginFrame(row, c)
        PROVE  BuildInv'
    <3>1. beam' = beam /\ pc = "frame"
      BY <2>1 DEF BeginFrame
    <3>2. InWords(beam)'
      BY <3>1 DEF BuildInv, InWords
    <3>3. CASE DOMAIN c = {}
      <4>1. pc' = "frame"
        BY <2>1, <3>1, <3>3 DEF BeginFrame
      <4>2. QED
        BY <3>2, <4>1 DEF BuildInv
    <3>4. CASE DOMAIN c # {}
      <4> DEFINE listened == [frame |-> frame', row |-> row, candidates |-> c]
      <4>1. /\ used' = Append(used, listened) /\ next' = <<>>
            /\ todo' = (DOMAIN c) \X (DOMAIN beam)
        BY <2>1, <3>4 DEF BeginFrame
      <4>2. Back(used') = listened /\ listened.candidates = c
        <5>1. frame' \in Nat
          BY <2>1 DEF BeginFrame, UsedInv
        <5>2. listened \in UsedFrames /\ used \in Seq(UsedFrames)
          BY <5>1, CandidatesTyped DEF UsedFrames, UsedInv
        <5> HIDE DEF listened
        <5>3. Len(used') = Len(used) + 1 /\ used'[Len(used) + 1] = listened
          BY <4>1, <5>2, AppendProperties
        <5>4. QED
          BY <5>3 DEF Back, listened
      <4> HIDE DEF listened
      <4>3. ASSUME NEW p, NEW t
            PROVE  ~Turned(p, t)'
        BY <3>1, <4>1, <4>2 DEF Turned, Back
      <4>4. DOMAIN next' = {}
        BY <4>1
      <4>5. \A q : At(next', q) = NoPath
        BY <4>4 DEF At
      <4>6. /\ \A q : BlankSoFar(q)' = 0
            /\ \A q, t : StaySoFar(q, t)' = 0
            /\ \A q, t : EntrySoFar(q, t)' = 0
        BY <4>3 DEF BlankSoFar, StaySoFar, EntrySoFar
      <4>7. \A q : SoFar(q)' = 0
        <5>1. \A q : SoFar(q)' = IF q = <<>> THEN 0
                                 ELSE StaySoFar(q, Back(q))'
                                      + EntrySoFar(SubSeq(q, 1, Len(q) - 1), Back(q))'
          BY DEF SoFar, Back
        <5>2. QED
          BY <4>6, <5>1
      <4>8. NoPath.blank_ending = 0 /\ NoPath.non_blank_ending = 0
        BY DEF NoPath
      <4>9. InWords(next)'
        BY <4>4 DEF InWords
      <4>10. \A q \in Words : /\ At(next', q).blank_ending = BlankSoFar(q)'
                              /\ At(next', q).non_blank_ending = SoFar(q)'
        BY <4>5, <4>6, <4>7, <4>8
      <4>11. \A q : At(next, q)' = At(next', q)
        BY DEF At
      <4>12. \A q \in Words : /\ (At(next, q).blank_ending = BlankSoFar(q))'
                              /\ (At(next, q).non_blank_ending = SoFar(q))'
        BY <4>10, <4>11
      <4>13. \A p \in DOMAIN beam', t \in Tokens :
               (Turned(p, t) /\ Repeats(p, t) => ~Faint(beam[p]))'
        BY <4>3
      <4>14. QED
        BY <3>2, <4>9, <4>12, <4>13 DEF BuildInv
    <3>5. QED
      BY <3>3, <3>4
  <2>2. ASSUME Expand
        PROVE  BuildInv'
    <3>1. PICK turn \in todo :
            /\ pc = "expand"
            /\ ExpandOneStep(turn[2], beam[turn[2]], Back(used).candidates[turn[1]],
                             Back(used).row[Back(used).candidates[turn[1]]])
            /\ todo' = todo \ {turn}
            /\ UNCHANGED <<pc, frame, used, scale, beam, detection>>
      BY <2>2 DEF Expand
    <3> DEFINE c == turn[1]
               prefix == turn[2]
               token == Back(used).candidates[c]
               src == beam[prefix]
               prob == Prob(token)
    <3>2. c \in DOMAIN Back(used).candidates /\ prefix \in DOMAIN beam
      BY <3>1 DEF PathInv
    <3>3. ExpandOneStep(prefix, src, token, prob)
      BY <3>1 DEF Prob
    <3>4. /\ token \in Tokens /\ prob \in Nat
          /\ \E paths : /\ next' = paths
                        /\ Gained(next, paths, prefix, src, token, prob)
                        /\ InWords(paths)
      BY <3>1, <3>2, <3>3, TurnGains
    <3>5. InWords(beam) /\ InWords(beam)'
      BY <3>1 DEF BuildInv, InWords
    <3>6. /\ \A p, t : Turned(p, t)' <=> Turned(p, t) \/ (p = prefix /\ t = token)
          /\ \A q \in Words :
               /\ BlankSoFar(q)' = BlankSoFar(q) + BlankGain(q, prefix, src, token, prob)
               /\ SoFar(q)' = SoFar(q) + (StayGain(q, prefix, src, token, prob)
                                          + EntryGain(q, prefix, src, token, prob))
      BY <3>1, <3>5, SoFarGrows
    <3>7. lost' = {} => lost = {} /\ ~(Repeats(prefix, token) /\ Faint(src))
      BY <3>3 DEF ExpandOneStep
    <3> HIDE DEF c, prefix, token, src, prob
    <3>8. \A q : At(next, q)' = At(next', q)
      BY DEF At
    <3>9. \A q \in Words : /\ (At(next, q).blank_ending = BlankSoFar(q))'
                           /\ (At(next, q).non_blank_ending = SoFar(q))'
      <4> SUFFICES ASSUME NEW q \in Words
                   PROVE  /\ At(next', q).blank_ending = BlankSoFar(q)'
                          /\ At(next', q).non_blank_ending = SoFar(q)'
        BY <3>8
      <4>1. /\ At(next', q).blank_ending
                 = At(next, q).blank_ending + BlankGain(q, prefix, src, token, prob)
            /\ At(next', q).non_blank_ending
                 = At(next, q).non_blank_ending + (StayGain(q, prefix, src, token, prob)
                                                   + EntryGain(q, prefix, src, token, prob))
        BY <3>4 DEF Gained
      <4>2. /\ At(next, q).blank_ending = BlankSoFar(q)
            /\ At(next, q).non_blank_ending = SoFar(q)
        BY <3>1 DEF BuildInv
      <4>3. QED
        BY <3>6, <4>1, <4>2
    <3>10. InWords(next)'
      BY <3>4 DEF InWords
    <3>11. ASSUME lost' = {}
           PROVE  \A p \in DOMAIN beam', t \in Tokens :
                    (Turned(p, t) /\ Repeats(p, t) => ~Faint(beam[p]))'
      <4>1. lost = {} /\ ~(Repeats(prefix, token) /\ Faint(src))
        BY <3>7, <3>11
      <4>2. \A path : Faint(path)' <=> Faint(path)
        BY <3>1 DEF Faint, Significant
      <4>3. ASSUME NEW p \in DOMAIN beam', NEW t \in Tokens, Turned(p, t)', Repeats(p, t)
            PROVE  ~Faint(beam[p])
        <5>1. CASE Turned(p, t)
          BY <3>1, <4>1, <4>3, <5>1 DEF BuildInv
        <5>2. CASE p = prefix /\ t = token
          BY <4>1, <4>3, <5>2 DEF src
        <5>3. QED
          BY <3>6, <4>3, <5>1, <5>2
      <4>4. \A p, t : Repeats(p, t)' <=> Repeats(p, t)
        BY DEF Repeats, Back
      <4>5. \A p : Faint(beam[p])' <=> Faint(beam[p])
        BY <3>1, <4>2
      <4>6. QED
        BY <4>3, <4>4, <4>5
    <3>12. QED
      BY <3>5, <3>9, <3>10, <3>11 DEF BuildInv
  <2>3. ASSUME KeepTopPaths
        PROVE  BuildInv'
    <3>1. pc = "expand" /\ pc' = "frame"
      BY <2>3 DEF KeepTopPaths
    <3>2. PICK kept \in Heaviest(next) : beam' = [p \in kept |-> next[p]]
      BY <2>3 DEF KeepTopPaths
    <3>3. kept \subseteq DOMAIN next /\ DOMAIN beam' = kept
      BY <3>2 DEF Heaviest
    <3>4. InWords(beam)'
      BY <3>1, <3>3 DEF BuildInv, InWords
    <3>5. QED
      BY <3>1, <3>4 DEF BuildInv
  <2>4. CASE Finish \/ Done
    <3>1. beam' = beam /\ pc' # "expand"
      BY <2>4 DEF Finish, Done, vars
    <3>2. QED
      BY <3>1 DEF BuildInv, InWords
  <2>5. CASE UNCHANGED vars
    <3>1. UNCHANGED <<pc, used, scale, todo, beam, next, lost>>
      BY <2>5 DEF vars
    <3>2. /\ \A p, t : Turned(p, t)' <=> Turned(p, t)
          /\ \A q : At(next, q)' = At(next, q)
          /\ \A path : Faint(path)' <=> Faint(path)
          /\ \A p, t : Repeats(p, t)' <=> Repeats(p, t)
      BY <3>1 DEF Turned, Back, At, Faint, Significant, Repeats
    <3>3. /\ \A t : Prob(t)' = Prob(t)
          /\ \A q, p, path, t, m : StayGain(q, p, path, t, m)' = StayGain(q, p, path, t, m)
          /\ \A q, p, path, t, m : EntryGain(q, p, path, t, m)' = EntryGain(q, p, path, t, m)
      BY <3>1 DEF Prob, Back, StayGain, EntryGain, Significant
    <3>4. \A q : BlankSoFar(q)' = BlankSoFar(q)
      BY <3>1, <3>2, <3>3 DEF BlankSoFar
    <3>5. /\ \A q, t : StaySoFar(q, t)' = StaySoFar(q, t)
          /\ \A q, t : EntrySoFar(q, t)' = EntrySoFar(q, t)
      BY <3>1, <3>2, <3>3 DEF StaySoFar, EntrySoFar
    <3>6. \A q : SoFar(q)' = SoFar(q)
      BY <3>5 DEF SoFar
    <3>7. InWords(beam)' <=> InWords(beam)
      BY <3>1 DEF InWords
    <3>8. InWords(next)' <=> InWords(next)
      BY <3>1 DEF InWords
    <3>9. \A p : Faint(beam[p])' <=> Faint(beam[p])
      BY <3>1, <3>2
    <3>10. QED
      BY <3>1, <3>2, <3>4, <3>6, <3>7, <3>8, <3>9 DEF BuildInv
  <2>6. QED
    BY <2>1, <2>2, <2>3, <2>4, <2>5 DEF Next
<1>3. QED
  BY <1>1, <1>2, UsedHolds, PathsHold, HeardHolds, SizesHold, PTL DEF Spec
-----------------------------------------------------------------------------
(* The beam's masses against the alignments'. *)
Within(paths, frames) ==
  \A q \in Words : /\ At(paths, q).blank_ending <= BlankMass(frames, q)
                   /\ At(paths, q).non_blank_ending <= TokenMass(frames, q)

Exact(paths, frames) ==
  \A q \in Words : /\ At(paths, q).blank_ending = BlankMass(frames, q)
                   /\ At(paths, q).non_blank_ending = TokenMass(frames, q)

LEMMA Monotone ==
  ASSUME NEW x \in Nat, NEW y \in Nat, NEW p \in Nat, x <= y
  PROVE  x * p <= y * p
<1>1. PICK d \in Nat : y = x + d
  <2>1. y - x \in Nat /\ y = x + (y - x)
    OBVIOUS
  <2>2. QED
    BY <2>1
<1>2. y * p = x * p + d * p
  <2>1. \A a, b, c \in Nat : (a + b) * c = a * c + b * c
    OBVIOUS
  <2>2. QED
    BY <1>1, <2>1
<1>3. x * p \in Nat /\ d * p \in Nat
  OBVIOUS
<1> DEFINE X == x * p
           D == d * p
<1> HIDE DEF X, D
<1>4. X <= X + D
  BY <1>3 DEF X, D
<1>5. QED
  BY <1>2, <1>4 DEF X, D

(* When all turns are taken every path has met every candidate: what the   *)
(* beam being built then holds, from what the last beam held.              *)
LEMMA AllTurned ==
  ASSUME UsedInv, PathInv, BuildInv, pc = "expand", todo = {}, NEW q \in Words
  PROVE  /\ At(beam, q).blank_ending \in Nat /\ At(beam, q).non_blank_ending \in Nat
         /\ BlankSoFar(q) =
              IF Blank \in Heard(Back(used))
              THEN (At(beam, q).blank_ending + At(beam, q).non_blank_ending) * Prob(Blank)
              ELSE 0
         /\ \A t \in Tokens : t \notin Heard(Back(used)) =>
              StaySoFar(q, t) = 0 /\ EntrySoFar(q, t) = 0
         /\ \A t \in Tokens : t # Blank /\ t \in Heard(Back(used)) =>
              /\ StaySoFar(q, t) <= At(beam, q).non_blank_ending * Prob(t)
              /\ EntrySoFar(q, t) <= Entry(q, At(beam, q), t) * Prob(t)
              /\ lost = {} /\ Repeats(q, t) =>
                   StaySoFar(q, t) = At(beam, q).non_blank_ending * Prob(t)
              /\ lost = {} => EntrySoFar(q, t) = Entry(q, At(beam, q), t) * Prob(t)
<1> DEFINE src == At(beam, q)
<1>1. \A t : Turned(q, t) <=> q \in DOMAIN beam /\ t \in Heard(Back(used))
  BY DEF Turned, Heard
<1>2. src \in PathStates /\ src.blank_ending \in Nat /\ src.non_blank_ending \in Nat
  <2>1. src \in PathStates
    BY AtTyped DEF PathInv
  <2>2. QED
    BY <2>1 DEF PathStates
<1>3. q \in DOMAIN beam => src = beam[q]
  BY DEF At
<1>4. q \notin DOMAIN beam => src.blank_ending = 0 /\ src.non_blank_ending = 0
  BY DEF At, NoPath
<1> HIDE DEF src
<1>5. Prob(Blank) \in Nat /\ \A t \in Tokens : Prob(t) \in Nat
  BY ProbTyped, TokenAssumption
<1>6. \A p \in Nat : 0 * p = 0
  OBVIOUS
<1>7. BlankSoFar(q) = IF Blank \in Heard(Back(used))
                      THEN (src.blank_ending + src.non_blank_ending) * Prob(Blank) ELSE 0
  <2>1. CASE q \in DOMAIN beam
    BY <1>1, <1>3, <2>1 DEF BlankSoFar, Total
  <2>2. CASE q \notin DOMAIN beam
    <3>1. BlankSoFar(q) = 0
      BY <1>1, <2>2 DEF BlankSoFar
    <3>2. (src.blank_ending + src.non_blank_ending) * Prob(Blank) = 0
      BY <1>4, <1>5, <1>6, <2>2
    <3>3. QED
      BY <3>1, <3>2
  <2>3. QED
    BY <2>1, <2>2
<1>8. ASSUME NEW t \in Tokens, t \notin Heard(Back(used))
      PROVE  StaySoFar(q, t) = 0 /\ EntrySoFar(q, t) = 0
  BY <1>1, <1>8 DEF StaySoFar, EntrySoFar
<1>9. ASSUME NEW t \in Tokens, t # Blank, t \in Heard(Back(used))
      PROVE  /\ StaySoFar(q, t) <= src.non_blank_ending * Prob(t)
             /\ EntrySoFar(q, t) <= Entry(q, src, t) * Prob(t)
             /\ lost = {} /\ Repeats(q, t) => StaySoFar(q, t) = src.non_blank_ending * Prob(t)
             /\ lost = {} => EntrySoFar(q, t) = Entry(q, src, t) * Prob(t)
  <2>1. src.non_blank_ending * Prob(t) \in Nat /\ Entry(q, src, t) * Prob(t) \in Nat
        /\ Entry(q, src, t) \in Nat
    <3>1. Entry(q, src, t) \in Nat /\ \A m, n \in Nat : m * n \in Nat
      BY <1>2 DEF Entry, EntryMass
    <3>2. QED
      BY <1>2, <1>5, <3>1
  <2>2. CASE q \in DOMAIN beam
    <3>1. Turned(q, t) /\ src = beam[q]
      BY <1>1, <1>3, <1>9, <2>2
    <3>2. StaySoFar(q, t) = IF Repeats(q, t) /\ Significant(src.non_blank_ending)
                            THEN src.non_blank_ending * Prob(t) ELSE 0
      BY <3>1 DEF StaySoFar, StayGain
    <3>3. EntrySoFar(q, t) = IF Repeats(q, t) => Significant(src.blank_ending)
                             THEN Entry(q, src, t) * Prob(t) ELSE 0
      BY <1>9, <3>1 DEF EntrySoFar, EntryGain
    <3>4. ASSUME lost = {}, Repeats(q, t)
          PROVE  /\ src.non_blank_ending = 0 \/ Significant(src.non_blank_ending)
                 /\ src.blank_ending = 0 \/ Significant(src.blank_ending)
      <4>1. ~Faint(src)
        BY <2>2, <3>1, <3>4 DEF BuildInv
      <4>2. QED
        BY <1>2, <4>1 DEF Faint
    <3>5. Repeats(q, t) => Entry(q, src, t) = src.blank_ending
      BY DEF Entry, EntryMass
    <3>6. lost = {} /\ Repeats(q, t) => StaySoFar(q, t) = src.non_blank_ending * Prob(t)
      BY <1>5, <1>6, <3>2, <3>4
    <3>7. lost = {} => EntrySoFar(q, t) = Entry(q, src, t) * Prob(t)
      BY <1>5, <1>6, <3>3, <3>4, <3>5
    <3>8. StaySoFar(q, t) <= src.non_blank_ending * Prob(t)
      <4> DEFINE m == src.non_blank_ending * Prob(t)
      <4>1. m \in Nat /\ (StaySoFar(q, t) = m \/ StaySoFar(q, t) = 0)
        BY <2>1, <3>2
      <4> HIDE DEF m
      <4>2. StaySoFar(q, t) <= m
        BY <4>1
      <4>3. QED
        BY <4>2 DEF m
    <3>9. EntrySoFar(q, t) <= Entry(q, src, t) * Prob(t)
      <4> DEFINE m == Entry(q, src, t) * Prob(t)
      <4>1. m \in Nat /\ (EntrySoFar(q, t) = m \/ EntrySoFar(q, t) = 0)
        BY <2>1, <3>3
      <4> HIDE DEF m
      <4>2. EntrySoFar(q, t) <= m
        BY <4>1
      <4>3. QED
        BY <4>2 DEF m
    <3>10. QED
      BY <3>6, <3>7, <3>8, <3>9
  <2>3. CASE q \notin DOMAIN beam
    <3>1. StaySoFar(q, t) = 0 /\ EntrySoFar(q, t) = 0
      BY <1>1, <2>3 DEF StaySoFar, EntrySoFar
    <3>2. src.non_blank_ending = 0 /\ Entry(q, src, t) = 0
      BY <1>4, <2>3 DEF Entry, EntryMass
    <3>3. src.non_blank_ending * Prob(t) = 0 /\ Entry(q, src, t) * Prob(t) = 0
      BY <1>5, <1>6, <3>2
    <3>4. QED
      BY <3>1, <3>3
  <2>4. QED
    BY <2>2, <2>3
<1>10. QED
  BY <1>2, <1>7, <1>8, <1>9 DEF src

(* A frame's turns carry the beam's masses over to one frame more.         *)
LEMMA FrameCarried ==
  ASSUME UsedInv, PathInv, BuildInv, pc = "expand", todo = {},
         NEW frames \in Seq(UsedFrames), used = Append(frames, Back(used))
  PROVE  /\ Within(beam, frames) => Within(next, used)
         /\ Exact(beam, frames) /\ lost = {} => Exact(next, used)
<1> DEFINE listened == Back(used)
<1>1. /\ listened \in UsedFrames
      /\ Prob(Blank) \in Nat /\ \A t \in Tokens : Prob(t) \in Nat
      /\ \A t : listened.row[t] = Prob(t)
  BY ProbTyped, TokenAssumption DEF Prob
<1>2. \A q \in Words : At(next, q).blank_ending = BlankSoFar(q)
                       /\ At(next, q).non_blank_ending = SoFar(q)
  BY DEF BuildInv
<1> DEFINE InBlank(q) == At(beam, q).blank_ending
           InToken(q) == At(beam, q).non_blank_ending
<1>3. \A q \in Words : /\ InBlank(q) \in Nat /\ InToken(q) \in Nat
                       /\ BlankMass(frames, q) \in Nat /\ TokenMass(frames, q) \in Nat
  BY AllTurned, MassSplit
<1>4. \A q \in Words :
        BlankMass(used, q) = IF Blank \in Heard(listened)
                             THEN (BlankMass(frames, q) + TokenMass(frames, q)) * Prob(Blank)
                             ELSE 0
  BY <1>1, BlankRecurrence
<1>5. \A q \in Words :
        BlankSoFar(q) = IF Blank \in Heard(listened)
                        THEN (InBlank(q) + InToken(q)) * Prob(Blank) ELSE 0
  BY AllTurned
<1>6. ASSUME NEW w \in Words, NEW t \in Tokens, t # Blank
      PROVE  TokenMass(used, Append(w, t)) =
               IF t \in Heard(listened)
               THEN TokenMass(frames, Append(w, t)) * Prob(t)
                    + EntryMass(BlankMass(frames, w), TokenMass(frames, w), w, t) * Prob(t)
               ELSE 0
  BY <1>1, <1>6, TokenRecurrence
<1>7. TokenMass(used, <<>>) = 0
  BY EmptyPrefix DEF UsedInv
<1>8. SoFar(<<>>) = 0
  BY DEF SoFar
<1>9. ASSUME NEW w \in Words, NEW t
      PROVE  Entry(w, At(beam, w), t) = EntryMass(InBlank(w), InToken(w), w, t)
  BY DEF Entry
<1> HIDE DEF listened
<1>10. ASSUME NEW q \in Words, q # <<>>
       PROVE  \E w \in Words, t \in Tokens :
                /\ t # Blank /\ q = Append(w, t) /\ Repeats(q, t)
                /\ SoFar(q) = StaySoFar(q, t) + EntrySoFar(w, t)
  <2> DEFINE w == SubSeq(q, 1, Len(q) - 1)
             t == Back(q)
  <2>1. w \in Words /\ t \in Tokens /\ t # Blank /\ q = Append(w, t)
    BY <1>10, WordParts
  <2>2. Repeats(q, t)
    BY <1>10, <2>1 DEF Repeats
  <2>3. SoFar(q) = StaySoFar(q, t) + EntrySoFar(w, t)
    BY <1>10 DEF SoFar
  <2> HIDE DEF w, t
  <2>4. QED
    BY <2>1, <2>2, <2>3
<1>11. \A q \in Words, t \in Tokens :
         /\ t \notin Heard(listened) => StaySoFar(q, t) = 0 /\ EntrySoFar(q, t) = 0
         /\ t # Blank /\ t \in Heard(listened) =>
              /\ StaySoFar(q, t) <= InToken(q) * Prob(t)
              /\ EntrySoFar(q, t) <= Entry(q, At(beam, q), t) * Prob(t)
              /\ lost = {} /\ Repeats(q, t) => StaySoFar(q, t) = InToken(q) * Prob(t)
              /\ lost = {} => EntrySoFar(q, t) = Entry(q, At(beam, q), t) * Prob(t)
  BY AllTurned DEF listened
<1>12. \A q \in Words, t \in Tokens : StaySoFar(q, t) \in Nat /\ EntrySoFar(q, t) \in Nat
  BY SoFarTyped
<1>13. \A m, n \in Nat : m * n \in Nat
  OBVIOUS
<1>14. \A w \in Words, t \in Tokens :
         /\ EntryMass(InBlank(w), InToken(w), w, t) \in Nat
         /\ EntryMass(BlankMass(frames, w), TokenMass(frames, w), w, t) \in Nat
  BY <1>3 DEF EntryMass
<1>15. ASSUME Within(beam, frames)
       PROVE  Within(next, used)
  <2>1. \A q \in Words : InBlank(q) <= BlankMass(frames, q) /\ InToken(q) <= TokenMass(frames, q)
    BY <1>15 DEF Within
  <2> HIDE DEF InBlank, InToken
  <2>2. ASSUME NEW q \in Words
        PROVE  At(next, q).blank_ending <= BlankMass(used, q)
    <3>1. CASE Blank \in Heard(listened)
      <4>1. InBlank(q) + InToken(q) \in Nat
            /\ BlankMass(frames, q) + TokenMass(frames, q) \in Nat
            /\ InBlank(q) + InToken(q) <= BlankMass(frames, q) + TokenMass(frames, q)
        BY <1>3, <2>1
      <4>2. (InBlank(q) + InToken(q)) * Prob(Blank)
              <= (BlankMass(frames, q) + TokenMass(frames, q)) * Prob(Blank)
        BY <1>1, <4>1, Monotone
      <4>3. QED
        BY <1>2, <1>4, <1>5, <3>1, <4>2
    <3>2. CASE Blank \notin Heard(listened)
      <4>1. At(next, q).blank_ending = 0 /\ BlankMass(used, q) = 0
        BY <1>2, <1>4, <1>5, <3>2
      <4>2. QED
        BY <4>1
    <3>3. QED
      BY <3>1, <3>2
  <2>3. ASSUME NEW q \in Words
        PROVE  At(next, q).non_blank_ending <= TokenMass(used, q)
    <3>1. CASE q = <<>>
      <4>1. At(next, q).non_blank_ending = 0 /\ TokenMass(used, q) = 0
        BY <1>2, <1>7, <1>8, <3>1
      <4>2. QED
        BY <4>1
    <3>2. CASE q # <<>>
      <4>1. PICK w \in Words, t \in Tokens :
              /\ t # Blank /\ q = Append(w, t) /\ Repeats(q, t)
              /\ SoFar(q) = StaySoFar(q, t) + EntrySoFar(w, t)
        BY <1>10, <3>2
      <4>2. CASE t \in Heard(listened)
        <5> DEFINE stay == TokenMass(frames, q) * Prob(t)
                   into == EntryMass(BlankMass(frames, w), TokenMass(frames, w), w, t) * Prob(t)
                   stayed == InToken(q) * Prob(t)
                   entered == EntryMass(InBlank(w), InToken(w), w, t) * Prob(t)
        <5>1. TokenMass(used, q) = stay + into
          BY <1>6, <4>1, <4>2
        <5>2. stayed <= stay
          BY <1>1, <1>3, <2>1, Monotone
        <5>3. entered <= into
          <6>1. EntryMass(InBlank(w), InToken(w), w, t)
                  <= EntryMass(BlankMass(frames, w), TokenMass(frames, w), w, t)
            BY <1>3, <2>1 DEF EntryMass
          <6>2. QED
            BY <1>1, <1>14, <6>1, Monotone
        <5>4. StaySoFar(q, t) <= stayed /\ EntrySoFar(w, t) <= entered
          BY <1>9, <1>11, <4>1, <4>2
        <5>5. stay \in Nat /\ into \in Nat /\ stayed \in Nat /\ entered \in Nat
              /\ StaySoFar(q, t) \in Nat /\ EntrySoFar(w, t) \in Nat
          BY <1>1, <1>3, <1>12, <1>13, <1>14
        <5> HIDE DEF stay, into, stayed, entered
        <5>6. StaySoFar(q, t) + EntrySoFar(w, t) <= stay + into
          BY <5>2, <5>3, <5>4, <5>5
        <5>7. QED
          BY <1>2, <4>1, <5>1, <5>6
      <4>3. CASE t \notin Heard(listened)
        <5>1. SoFar(q) = 0 /\ TokenMass(used, q) = 0
          BY <1>6, <1>11, <4>1, <4>3
        <5>2. QED
          BY <1>2, <5>1
      <4>4. QED
        BY <4>2, <4>3
    <3>3. QED
      BY <3>1, <3>2
  <2>4. QED
    BY <2>2, <2>3 DEF Within
<1>16. ASSUME Exact(beam, frames), lost = {}
       PROVE  Exact(next, used)
  <2>1. \A q \in Words : InBlank(q) = BlankMass(frames, q) /\ InToken(q) = TokenMass(frames, q)
    BY <1>16 DEF Exact
  <2> HIDE DEF InBlank, InToken
  <2>2. ASSUME NEW q \in Words
        PROVE  At(next, q).blank_ending = BlankMass(used, q)
    BY <1>2, <1>4, <1>5, <2>1
  <2>3. ASSUME NEW q \in Words
        PROVE  At(next, q).non_blank_ending = TokenMass(used, q)
    <3>1. CASE q = <<>>
      BY <1>2, <1>7, <1>8, <3>1
    <3>2. CASE q # <<>>
      <4>1. PICK w \in Words, t \in Tokens :
              /\ t # Blank /\ q = Append(w, t) /\ Repeats(q, t)
              /\ SoFar(q) = StaySoFar(q, t) + EntrySoFar(w, t)
        BY <1>10, <3>2
      <4>2. CASE t \in Heard(listened)
        <5>1. TokenMass(used, q) =
                TokenMass(frames, q) * Prob(t)
                + EntryMass(BlankMass(frames, w), TokenMass(frames, w), w, t) * Prob(t)
          BY <1>6, <4>1, <4>2
        <5>2. /\ StaySoFar(q, t) = InToken(q) * Prob(t)
              /\ EntrySoFar(w, t) = EntryMass(InBlank(w), InToken(w), w, t) * Prob(t)
          BY <1>9, <1>11, <1>16, <4>1, <4>2
        <5>3. QED
          BY <1>2, <2>1, <4>1, <5>1, <5>2
      <4>3. CASE t \notin Heard(listened)
        <5>1. SoFar(q) = 0 /\ TokenMass(used, q) = 0
          BY <1>6, <1>11, <4>1, <4>3
        <5>2. QED
          BY <1>2, <5>1
      <4>4. QED
        BY <4>2, <4>3
    <3>3. QED
      BY <3>1, <3>2
  <2>4. QED
    BY <2>2, <2>3 DEF Exact
<1>17. QED
  BY <1>15, <1>16
-----------------------------------------------------------------------------
(* The beam holds the masses of the frames before the one worked on: no    *)
(* more than those, and all of them until some are lost.                   *)
BeamInv ==
  \E paths : \E frames \in Seq(UsedFrames) :
    /\ paths = beam
    /\ used = IF pc = "expand" THEN Append(frames, Back(used)) ELSE frames
    /\ Within(paths, frames)
    /\ lost = {} => Exact(paths, frames)

(* What is kept has its masses, and everything is kept unless it is cut.   *)
LEMMA KeptMasses ==
  ASSUME SizeInv, NEW kept \in Heaviest(next), NEW paths, paths = [p \in kept |-> next[p]],
         NEW frames \in Seq(UsedFrames)
  PROVE  /\ Within(next, frames) => Within(paths, frames)
         /\ Cardinality(DOMAIN next) <= PathBeamSize =>
              (Exact(next, frames) => Exact(paths, frames))
<1>1. kept \in SUBSET DOMAIN next /\ DOMAIN paths = kept
  BY DEF Heaviest
<1>2. \A q : At(paths, q) = IF q \in kept THEN At(next, q) ELSE NoPath
  BY <1>1 DEF At
<1>3. NoPath.blank_ending = 0 /\ NoPath.non_blank_ending = 0
  BY DEF NoPath
<1>4. \A q : BlankMass(frames, q) \in Nat /\ TokenMass(frames, q) \in Nat
  BY MassSplit
<1>5. ASSUME Within(next, frames)
      PROVE  Within(paths, frames)
  <2> SUFFICES ASSUME NEW q \in Words
               PROVE  /\ At(paths, q).blank_ending <= BlankMass(frames, q)
                      /\ At(paths, q).non_blank_ending <= TokenMass(frames, q)
    BY DEF Within
  <2>1. CASE q \in kept
    BY <1>2, <1>5, <2>1 DEF Within
  <2>2. CASE q \notin kept
    BY <1>2, <1>3, <1>4, <2>2
  <2>3. QED
    BY <2>1, <2>2
<1>6. ASSUME Cardinality(DOMAIN next) <= PathBeamSize, Exact(next, frames)
      PROVE  Exact(paths, frames)
  <2>1. IsFiniteSet(DOMAIN next) /\ Cardinality(DOMAIN next) \in Nat
    BY FS_CardinalityType DEF SizeInv
  <2>2. Cardinality(kept) = Cardinality(DOMAIN next)
    BY <1>6, <2>1, NumberAssumption DEF Heaviest
  <2>3. kept = DOMAIN next
    BY <1>1, <2>1, <2>2, FS_Subset
  <2>4. \A q : At(paths, q) = At(next, q)
    BY <1>2, <2>3 DEF At
  <2>5. QED
    BY <1>6, <2>4 DEF Exact
<1>7. QED
  BY <1>5, <1>6

LEMMA BeamHolds == Spec => []BeamInv
<1>1. Init => BeamInv
  <2> SUFFICES ASSUME Init PROVE BeamInv
    OBVIOUS
  <2>1. pc = "frame" /\ used = <<>> /\ beam = [p \in {<<>>} |-> [NoPath EXCEPT !.blank_ending = 1]]
    BY DEF Init
  <2>2. <<>> \in Seq(UsedFrames)
    OBVIOUS
  <2>3. /\ At(beam, <<>>).blank_ending = 1 /\ At(beam, <<>>).non_blank_ending = 0
        /\ \A q : q # <<>> => /\ At(beam, q).blank_ending = 0
                              /\ At(beam, q).non_blank_ending = 0
    BY <2>1 DEF At, NoPath
  <2>4. Exact(beam, <<>>)
    BY <2>3, FirstMass DEF Exact
  <2>5. Within(beam, <<>>)
    <3>1. \A q \in Words : /\ BlankMass(<<>>, q) \in Nat /\ TokenMass(<<>>, q) \in Nat
      BY <2>2, MassSplit
    <3>2. QED
      BY <2>4, <3>1 DEF Exact, Within
  <2>6. QED
    BY <2>1, <2>2, <2>4, <2>5 DEF BeamInv
<1>2. UsedInv /\ PathInv /\ SizeInv /\ BuildInv /\ BeamInv /\ [Next]_vars => BeamInv'
  <2> SUFFICES ASSUME UsedInv, PathInv, SizeInv, BuildInv, BeamInv, [Next]_vars
               PROVE  BeamInv'
    OBVIOUS
  <2>1. PICK frames \in Seq(UsedFrames) :
          /\ used = IF pc = "expand" THEN Append(frames, Back(used)) ELSE frames
          /\ Within(beam, frames)
          /\ lost = {} => Exact(beam, frames)
    BY DEF BeamInv
  <2>2. ASSUME NEW row \in Distributions, NEW c \in CollectFrameCandidates(row), BeginFrame(row, c)
        PROVE  BeamInv'
    <3>1. pc = "frame" /\ beam' = beam /\ lost' = lost /\ used = frames
      BY <2>1, <2>2 DEF BeginFrame
    <3>2. CASE DOMAIN c = {}
      <4>1. pc' = "frame" /\ used' = used
        BY <2>2, <3>1, <3>2 DEF BeginFrame
      <4>2. QED
        BY <2>1, <3>1, <4>1 DEF BeamInv
    <3>3. CASE DOMAIN c # {}
      <4> DEFINE listened == [frame |-> frame', row |-> row, candidates |-> c]
      <4>1. used' = Append(used, listened) /\ pc' = "expand"
        BY <2>2, <3>3 DEF BeginFrame
      <4>2. listened \in UsedFrames
        <5>1. frame' \in Nat
          BY <2>2 DEF BeginFrame, UsedInv
        <5>2. QED
          BY <5>1, CandidatesTyped DEF UsedFrames
      <4> HIDE DEF listened
      <4>3. Back(used)' = listened
        <5>1. Len(used') = Len(used) + 1 /\ used'[Len(used) + 1] = listened
          BY <4>1, <4>2, AppendProperties DEF UsedInv
        <5>2. QED
          BY <5>1 DEF Back
      <4>4. QED
        BY <2>1, <3>1, <4>1, <4>3 DEF BeamInv
    <3>4. QED
      BY <3>2, <3>3
  <2>3. ASSUME Expand
        PROVE  BeamInv'
    <3>1. /\ pc = "expand" /\ UNCHANGED <<pc, used, beam>>
          /\ lost' = {} => lost = {}
      BY <2>3 DEF Expand, ExpandOneStep
    <3>2. Back(used)' = Back(used)
      BY <3>1 DEF Back
    <3>3. QED
      BY <2>1, <3>1, <3>2 DEF BeamInv
  <2>4. ASSUME KeepTopPaths
        PROVE  BeamInv'
    <3>1. /\ pc = "expand" /\ pc' = "frame" /\ todo = {} /\ used' = used
          /\ lost' = {} => lost = {} /\ ~(Cardinality(DOMAIN next) > PathBeamSize)
      BY <2>4 DEF KeepTopPaths
    <3>2. PICK kept \in Heaviest(next) : beam' = [p \in kept |-> next[p]]
      BY <2>4 DEF KeepTopPaths
    <3>3. /\ Within(beam, frames) => Within(next, used)
          /\ Exact(beam, frames) /\ lost = {} => Exact(next, used)
      BY <2>1, <3>1, FrameCarried
    <3> DEFINE left == [p \in kept |-> next[p]]
    <3>4. used \in Seq(UsedFrames)
      BY DEF UsedInv
    <3>5. /\ Within(next, used) => Within(left, used)
          /\ Cardinality(DOMAIN next) <= PathBeamSize => (Exact(next, used) => Exact(left, used))
      BY <3>4, KeptMasses
    <3>6. lost' = {} => lost = {} /\ Cardinality(DOMAIN next) <= PathBeamSize
      BY <3>1, FS_CardinalityType, NumberAssumption DEF SizeInv
    <3> HIDE DEF left
    <3>7. Within(left, used) /\ (lost' = {} => Exact(left, used)) /\ beam' = left
      BY <2>1, <3>2, <3>3, <3>5, <3>6 DEF left
    <3>8. \E p : \E f \in Seq(UsedFrames) :
            /\ p = beam' /\ used' = f /\ Within(p, f) /\ (lost' = {} => Exact(p, f))
      BY <3>1, <3>4, <3>7
    <3>9. QED
      BY <3>1, <3>8 DEF BeamInv
  <2>5. ASSUME UNCHANGED <<used, beam, lost>>, pc' = pc \/ (pc = "frame" /\ pc' = "done")
        PROVE  BeamInv'
    <3>1. Back(used)' = Back(used)
      BY <2>5 DEF Back
    <3>2. QED
      BY <2>1, <2>5, <3>1 DEF BeamInv
  <2>6. CASE Finish \/ Done \/ UNCHANGED vars
    BY <2>5, <2>6 DEF Finish, Done, vars
  <2>7. QED
    BY <2>2, <2>3, <2>4, <2>6 DEF Next
<1>3. QED
  BY <1>1, <1>2, UsedHolds, PathsHold, SizesHold, BuildHolds, PTL DEF Spec

(* Between frames the masses are those of the frames so far.               *)
LEMMA BetweenFrames ==
  ASSUME BeamInv, BuildInv, UsedInv, pc = "frame"
  PROVE  /\ Within(beam, used)
         /\ lost = {} => Exact(beam, used)
         /\ \A p \in DOMAIN beam :
              /\ p \in Words /\ Total(beam[p]) = At(beam, p).blank_ending + At(beam, p).non_blank_ending
              /\ BlankMass(used, p) \in Nat /\ TokenMass(used, p) \in Nat
              /\ CtcMass(used, p) = BlankMass(used, p) + TokenMass(used, p)
<1>1. Within(beam, used) /\ (lost = {} => Exact(beam, used))
  BY DEF BeamInv
<1>2. ASSUME NEW p \in DOMAIN beam
      PROVE  p \in Words /\ Total(beam[p]) = At(beam, p).blank_ending + At(beam, p).non_blank_ending
  BY DEF BuildInv, InWords, Total, At
<1>3. used \in Seq(UsedFrames)
  BY DEF UsedInv
<1>4. QED
  BY <1>1, <1>2, <1>3, MassSplit

(* As long as no path was cut and no source of a repeat was too faint, the *)
(* beam between two frames is the CTC distribution: every prefix that some *)
(* choice of candidates collapses to is a path of it, and weighs what all  *)
(* those choices weigh, after any number of frames and whatever the order  *)
(* in which ExpandOneStep met them.                                        *)
THEOREM BeamIsTheCtcDistribution == Spec => []BeamIsCtc
<1>1. UsedInv /\ PathInv /\ HeardInv /\ BuildInv /\ BeamInv => BeamIsCtc
  <2> SUFFICES ASSUME UsedInv, PathInv, HeardInv, BuildInv, BeamInv, pc = "frame", lost = {}
               PROVE  IsCtc
    BY DEF BeamIsCtc
  <2>1. Exact(beam, used)
    BY BetweenFrames
  <2>2. ASSUME NEW p \in DOMAIN beam
        PROVE  Total(beam[p]) = CtcMass(used, p)
    BY <2>1, BetweenFrames DEF Exact
  <2>3. ASSUME NEW a \in Alignments(used)
        PROVE  Collapse(a) \in DOMAIN beam
    <3> DEFINE word == Collapse(a)
               same == {b \in Alignments(used) : Collapse(b) = word}
    <3>1. used \in Seq(UsedFrames)
      BY DEF UsedInv
    <3>2. word \in Words
      BY <3>1, AlignmentTyped, CollapseEnds
    <3>3. Weights(used)[a] \in Nat \ {0}
      BY <3>1, MassPositive DEF Weights, HeardInv
    <3>4. CtcMass(used, word) = SumFunctionOnSet(Weights(used), same)
      BY DEF CtcMass, Weights
    <3>5. IsFiniteSet(same) /\ a \in same /\ \A b \in same : Weights(used)[b] \in Nat
      BY <3>1, WeightsTyped
    <3> HIDE DEF same
    <3>6. Weights(used)[a] <= SumFunctionOnSet(Weights(used), same)
      BY <3>5, SumAtLeast
    <3> HIDE DEF word
    <3>7. /\ BlankMass(used, word) \in Nat /\ TokenMass(used, word) \in Nat
          /\ CtcMass(used, word) = BlankMass(used, word) + TokenMass(used, word)
      BY <3>1, MassSplit
    <3>8. CtcMass(used, word) # 0
      BY <3>3, <3>4, <3>6, <3>7
    <3>9. word \notin DOMAIN beam => /\ At(beam, word).blank_ending = 0
                                     /\ At(beam, word).non_blank_ending = 0
      BY DEF At, NoPath
    <3>10. /\ At(beam, word).blank_ending = BlankMass(used, word)
           /\ At(beam, word).non_blank_ending = TokenMass(used, word)
      BY <2>1, <3>2 DEF Exact
    <3>11. word \in DOMAIN beam
      BY <3>7, <3>8, <3>9, <3>10
    <3>12. QED
      BY <3>11 DEF word
  <2>4. QED
    BY <2>2, <2>3 DEF IsCtc
<1>2. QED
  BY <1>1, UsedHolds, PathsHold, HeardHolds, BuildHolds, BeamHolds, PTL

(* Cutting the beam to its heaviest paths and passing over faint repeats   *)
(* lose mass and never make any: between two frames no path weighs more    *)
(* than all the alignments of its prefix.                                  *)
THEOREM NoMassInvented == Spec => []BeamWithinCtc
<1>1. UsedInv /\ PathInv /\ BuildInv /\ BeamInv => BeamWithinCtc
  <2> SUFFICES ASSUME UsedInv, PathInv, BuildInv, BeamInv, pc = "frame", NEW p \in DOMAIN beam
               PROVE  Total(beam[p]) <= CtcMass(used, p)
    BY DEF BeamWithinCtc
  <2>1. /\ p \in Words
        /\ At(beam, p).blank_ending <= BlankMass(used, p)
        /\ At(beam, p).non_blank_ending <= TokenMass(used, p)
    BY BetweenFrames DEF Within
  <2>2. At(beam, p).blank_ending \in Nat /\ At(beam, p).non_blank_ending \in Nat
    <3>1. At(beam, p) \in PathStates
      BY <2>1, AtTyped DEF PathInv
    <3>2. QED
      BY <3>1 DEF PathStates
  <2>3. QED
    BY <2>1, <2>2, BetweenFrames
<1>2. QED
  BY <1>1, UsedHolds, PathsHold, BuildHolds, BeamHolds, PTL
===============================================================================
