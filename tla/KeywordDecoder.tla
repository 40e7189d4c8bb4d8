--------------------------- MODULE KeywordDecoder ---------------------------
(***************************************************************************)
(* kws_engine.cc, KeywordDecoder: a CTC prefix beam search over the frames *)
(* of the acoustic model, then a search for the keywords in the paths that *)
(* are left. One step is one ExpandOneStep of RunCtcBeam's inner loop,     *)
(* because the emissions of a path depend on the order of those steps.     *)
(*                                                                         *)
(* A token is a number, 0 the blank; a probability is a number of parts of *)
(* Unit. The mass of a path after n frames is a number of parts of Unit^n, *)
(* so sums and products are exact: rounding is abstracted, the absolute    *)
(* tolerance of ExpandRepeat is not. The acoustic model may answer any of  *)
(* Distributions for any frame.                                            *)
(***************************************************************************)
EXTENDS Integers, Sequences, FiniteSets, FiniteSetsExt

CONSTANTS
  Tokens,           \* the vocabulary
  Unit,             \* probability one
  Distributions,    \* bound: softmax rows, token -> parts of Unit
  SearchableTokens, \* searchable_token_ids_
  Keywords,         \* keyword_token_ids_, in the order of the names
  ScoreBeamSize,    \* kScoreBeamSize
  MinTokenProb,     \* kMinTokenProb, in parts of Unit
  PathBeamSize,     \* kPathBeamSize
  ToleranceInverse, \* one over the 1e-6 of ExpandRepeat
  MinScore,         \* min_score, in parts of Unit
  NumFrames         \* num_frames

Blank == 0

ASSUME TokenAssumption ==
  /\ Tokens \subseteq Nat /\ Blank \in SearchableTokens
  /\ SearchableTokens \subseteq Tokens
  /\ Keywords \in Seq(Seq(SearchableTokens))
  /\ \A k \in 1 .. Len(Keywords) : Keywords[k] # <<>>

ASSUME NumberAssumption ==
  /\ Unit \in Nat \ {0} /\ Distributions \subseteq [Tokens -> 0 .. Unit]
  /\ ScoreBeamSize \in Nat /\ PathBeamSize \in Nat \ {0}
  /\ MinTokenProb \in Nat /\ ToleranceInverse \in Nat \ {0} /\ MinScore \in Nat
  /\ NumFrames \in Nat

VARIABLES
  pc,         \* "frame", "expand" or "done"
  frame,      \* frames begun so far
  used,       \* history: number, row and candidates of the frames not skipped
  scale,      \* history: Unit to the number of those frames
  todo,       \* <<candidate's place, prefix>> of the turns left in this frame
  beam,       \* the Beam: prefix -> PathState
  next,       \* the Beam being built
  lost,       \* history: how mass has been lost, "cut" or "faint"
  detection   \* the Detection Infer returns

vars == <<pc, frame, used, scale, todo, beam, next, lost, detection>>

Spotter == INSTANCE KeywordSpotter WITH
             heard <- [i \in 1 .. Len(used) |-> used[i].row], done <- pc = "done"

NotDetected == Spotter!NotDetected

NoPath == [blank_ending |-> 0, non_blank_ending |-> 0, emitted |-> <<>>]

Total(path) == path.blank_ending + path.non_blank_ending
Back(s) == s[Len(s)]
Emission(token, prob) == [token_id |-> token, best_frame |-> frame, best_prob |-> prob]

Init ==
  /\ pc = "frame" /\ frame = 0
  /\ used = <<>> /\ scale = 1 /\ todo = {}
  /\ beam = [p \in {<<>>} |-> [NoPath EXCEPT !.blank_ending = 1]]
  /\ next = <<>> /\ lost = {}
  /\ detection = NotDetected

-----------------------------------------------------------------------------
(* CollectFrameCandidates *)

(* What partial_sort may leave in front: equal tokens come in any order.   *)
TopTokens(row) ==
  {top \in [1 .. ScoreBeamSize -> Tokens] :
     /\ \A i, j \in 1 .. ScoreBeamSize : i < j => top[i] # top[j] /\ row[top[i]] >= row[top[j]]
     /\ \A t \in Tokens : (\A i \in 1 .. ScoreBeamSize : top[i] # t)
          => \A i \in 1 .. ScoreBeamSize : row[t] <= row[top[i]]}

(* Which of the places in front stay, with their tokens.                   *)
CollectFrameCandidates(row) ==
  LET Wanted(t) == row[t] > MinTokenProb /\ t \in SearchableTokens
  IN  {RestrictValues(top, Wanted) : top \in TopTokens(row)}

(* The next frame: without candidates it is skipped. *)
BeginFrame(row, candidates) ==
  /\ pc = "frame" /\ frame < NumFrames
  /\ frame' = frame + 1
  /\ IF DOMAIN candidates = {}
     THEN UNCHANGED <<pc, used, scale, todo, next>>
     ELSE /\ used' = Append(used, [frame |-> frame', row |-> row, candidates |-> candidates])
          /\ scale' = scale * Unit
          /\ todo' = (DOMAIN candidates) \X (DOMAIN beam)
          /\ next' = <<>>
          /\ pc' = "expand"
  /\ UNCHANGED <<beam, lost, detection>>

-----------------------------------------------------------------------------
(* ExpandOneStep *)

(* (star next)[prefix], which creates an empty path when there is none.    *)
At(paths, prefix) == IF prefix \in DOMAIN paths THEN paths[prefix] ELSE NoPath

Put(paths, prefix, path) ==
  [p \in DOMAIN paths \union {prefix} |-> IF p = prefix THEN path ELSE paths[p]]

MaybeUpdateLastEmission(emitted, token, prob) ==
  IF emitted # <<>> /\ prob > Back(emitted).best_prob
  THEN [emitted EXCEPT ![Len(emitted)] = Emission(token, prob)]
  ELSE emitted

ExpandBlank(paths, prefix, src, prob) ==
  Put(paths, prefix,
      [At(paths, prefix) EXCEPT
         !.blank_ending = @ + Total(src) * prob,
         !.emitted = src.emitted])

(* The same token again: more of the last emission, or, after a blank, a   *)
(* second emission. A source too light is not followed.                    *)
Significant(mass) ==
  mass >= (scale \div Unit + ToleranceInverse - 1) \div ToleranceInverse

RepeatLast(paths, prefix, src, token, prob) ==
  IF ~Significant(src.non_blank_ending)
  THEN paths
  ELSE Put(paths, prefix,
           [At(paths, prefix) EXCEPT
              !.non_blank_ending = @ + src.non_blank_ending * prob,
              !.emitted = MaybeUpdateLastEmission(src.emitted, token, prob)])

(* Mutation: the token is emitted again without a blank in between.        *)
RepeatAfterBlank_AnyEnding(paths, prefix, src, token, prob) ==
  LET extended == Append(prefix, token) IN
  IF ~Significant(src.blank_ending)
  THEN paths
  ELSE Put(paths, extended,
           [At(paths, extended) EXCEPT
              !.non_blank_ending = @ + Total(src) * prob,
              !.emitted = Append(src.emitted, Emission(token, prob))])

RepeatAfterBlank(paths, prefix, src, token, prob) ==
  LET extended == Append(prefix, token) IN
  IF ~Significant(src.blank_ending)
  THEN paths
  ELSE Put(paths, extended,
           [At(paths, extended) EXCEPT
              !.non_blank_ending = @ + src.blank_ending * prob,
              !.emitted = Append(src.emitted, Emission(token, prob))])

ExpandRepeat(paths, prefix, src, token, prob) ==
  RepeatAfterBlank(RepeatLast(paths, prefix, src, token, prob), prefix, src, token, prob)

(* Mutation: an existing path is given the emission a second time.         *)
ExpandNewToken_AppendsTwice(paths, prefix, src, token, prob) ==
  LET extended == Append(prefix, token)
      dst == At(paths, extended)
  IN  Put(paths, extended,
          [dst EXCEPT
             !.non_blank_ending = @ + Total(src) * prob,
             !.emitted = Append(IF @ = <<>> THEN src.emitted ELSE @, Emission(token, prob))])

ExpandNewToken(paths, prefix, src, token, prob) ==
  LET extended == Append(prefix, token)
      dst == At(paths, extended)
  IN  Put(paths, extended,
          [dst EXCEPT
             !.non_blank_ending = @ + Total(src) * prob,
             !.emitted = IF @ = <<>>
                         THEN Append(src.emitted, Emission(token, prob))
                         ELSE MaybeUpdateLastEmission(@, token, prob)])

Repeats(prefix, token) == token # Blank /\ prefix # <<>> /\ token = Back(prefix)

(* Some of the mass of a source is too faint to be followed. *)
Faint(src) ==
  \/ src.blank_ending > 0 /\ ~Significant(src.blank_ending)
  \/ src.non_blank_ending > 0 /\ ~Significant(src.non_blank_ending)

ExpandOneStep(prefix, src, token, prob) ==
  /\ next' = IF token = Blank
             THEN ExpandBlank(next, prefix, src, prob)
             ELSE IF Repeats(prefix, token)
             THEN ExpandRepeat(next, prefix, src, token, prob)
             ELSE ExpandNewToken(next, prefix, src, token, prob)
  /\ lost' = IF Repeats(prefix, token) /\ Faint(src) THEN lost \union {"faint"} ELSE lost

(* std::map's order of the prefixes. *)
Before(p, q) ==
  \E n \in 1 .. Len(q) :
    /\ \A i \in 1 .. n - 1 : i <= Len(p) /\ p[i] = q[i]
    /\ Len(p) = n - 1 \/ (n <= Len(p) /\ p[n] < q[n])

(* One turn of the two loops: candidates outside, prefixes inside.         *)
Expand ==
  \E turn \in todo :
    LET row == Back(used).row
        token == Back(used).candidates[turn[1]]
        prefix == turn[2]
    IN
    /\ pc = "expand"
    /\ \A other \in todo :
         other = turn \/ turn[1] < other[1] \/ (turn[1] = other[1] /\ Before(prefix, other[2]))
    /\ ExpandOneStep(prefix, beam[prefix], token, row[token])
    /\ todo' = todo \ {turn}
    /\ UNCHANGED <<pc, frame, used, scale, beam, detection>>

-----------------------------------------------------------------------------
(* Mutation: one path too many stays. *)
Heaviest_OneMore(paths) ==
  LET size == Cardinality(DOMAIN paths) IN
  {kept \in SUBSET DOMAIN paths :
     /\ Cardinality(kept) = IF size <= PathBeamSize THEN size ELSE PathBeamSize + 1
     /\ \A p \in kept, q \in DOMAIN paths \ kept : Total(paths[p]) >= Total(paths[q])}

(* The heaviest paths stay; std::sort leaves ties in any order. *)
Heaviest(paths) ==
  LET size == Cardinality(DOMAIN paths) IN
  {kept \in SUBSET DOMAIN paths :
     /\ Cardinality(kept) = IF size < PathBeamSize THEN size ELSE PathBeamSize
     /\ \A p \in kept, q \in DOMAIN paths \ kept : Total(paths[p]) >= Total(paths[q])}

KeepTopPaths ==
  /\ pc = "expand" /\ todo = {}
  /\ \E kept \in Heaviest(next) : beam' = [p \in kept |-> next[p]]
  /\ lost' = IF Cardinality(DOMAIN next) > PathBeamSize THEN lost \union {"cut"} ELSE lost
  /\ next' = <<>>
  /\ pc' = "frame"
  /\ UNCHANGED <<frame, used, scale, todo, detection>>

(* The places at which a keyword occurs in a prefix. *)
Matches(prefix, ids) ==
  {offset \in 0 .. Len(prefix) - Len(ids) : \A i \in 1 .. Len(ids) : prefix[offset + i] = ids[i]}

HasKeyword(prefix) == \E k \in 1 .. Len(Keywords) : Matches(prefix, Keywords[k]) # {}

(* Mutation: the place of the match in the path is forgotten.              *)
Score_FromStart(emitted, offset, length) ==
  Spotter!Product([i \in 1 .. length |-> emitted[i].best_prob])

(* The product of the emissions' best probabilities: MatchKeywords returns *)
(* its square root as the score.                                           *)
Score(emitted, offset, length) ==
  Spotter!Product([i \in 1 .. length |-> emitted[offset + i].best_prob])

(* MatchKeywords, then ApplyScoreThreshold: the heaviest path that holds a *)
(* keyword, its first keyword by name, its first occurrence.               *)
MatchKeywords(prefix) ==
  LET k == Min({j \in 1 .. Len(Keywords) : Matches(prefix, Keywords[j]) # {}})
      offset == Min(Matches(prefix, Keywords[k]))
      product == Score(beam[prefix].emitted, offset, Len(Keywords[k]))
  IN  detection' = IF Spotter!BelowThreshold(product, Len(Keywords[k]))
                   THEN NotDetected
                   ELSE [detected |-> TRUE, keyword |-> k, product |-> product]

Finish ==
  LET candidates == {p \in DOMAIN beam : HasKeyword(p) /\ Len(p) = Len(beam[p].emitted)} IN
  /\ pc = "frame" /\ frame = NumFrames
  /\ \/ /\ candidates = {}
        /\ UNCHANGED detection
     \/ \E p \in candidates :
          /\ \A q \in candidates : Total(beam[p]) >= Total(beam[q])
          /\ MatchKeywords(p)
  /\ pc' = "done"
  /\ UNCHANGED <<frame, used, scale, todo, beam, next, lost>>

Done == pc = "done" /\ UNCHANGED vars

Next ==
  \/ \E row \in Distributions : \E c \in CollectFrameCandidates(row) : BeginFrame(row, c)
  \/ Expand \/ KeepTopPaths \/ Finish \/ Done

Spec == Init /\ [][Next]_vars
-----------------------------------------------------------------------------
Emissions == [token_id : Nat, best_frame : Nat, best_prob : Nat]

IsBeam(paths) ==
  \A p \in DOMAIN paths :
    /\ p \in Seq(Nat)
    /\ paths[p] \in [blank_ending : Nat, non_blank_ending : Nat, emitted : Seq(Emissions)]

(* Every variable has its type, and no more than PathBeamSize paths and    *)
(* ScoreBeamSize candidates a frame are ever followed.                     *)
TypeOK ==
  /\ pc \in {"frame", "expand", "done"}
  /\ frame \in 0 .. NumFrames /\ scale \in Nat
  /\ \A i \in 1 .. Len(used) : Cardinality(DOMAIN used[i].candidates) <= ScoreBeamSize
  /\ IsBeam(beam) /\ IsBeam(next)
  /\ Cardinality(DOMAIN beam) <= PathBeamSize
  /\ lost \subseteq {"cut", "faint"}
  /\ \A turn \in todo : turn[2] \in DOMAIN beam

Paths == {beam} \union IF pc = "expand" THEN {next} ELSE {}

(* The row of frame f, among those that were not skipped. *)
RowOf(f) == LET i == CHOOSE j \in 1 .. Len(used) : used[j].frame = f IN used[i].row

(* A path's emissions spell its prefix, were heard at frames in time order *)
(* and carry the probability their frame gave their token.                 *)
EmissionsFaithful ==
  \A paths \in Paths : \A p \in DOMAIN paths :
    LET emitted == paths[p].emitted IN
    /\ Len(emitted) = Len(p)
    /\ \A i \in 1 .. Len(p) :
         /\ emitted[i].token_id = p[i]
         /\ \E j \in 1 .. Len(used) : used[j].frame = emitted[i].best_frame
         /\ emitted[i].best_prob = RowOf(emitted[i].best_frame)[p[i]]
         /\ i > 1 => emitted[i - 1].best_frame < emitted[i].best_frame

(* The reference: an alignment gives each frame one of its candidates.     *)
Alignments(frames) ==
  {a \in [1 .. Len(frames) -> Tokens] :
     \A i \in 1 .. Len(frames) :
       \E c \in DOMAIN frames[i].candidates : a[i] = frames[i].candidates[c]}

(* The prefix that is left of an alignment when repeats, then blanks, are  *)
(* removed.                                                                *)
Collapse(a) ==
  LET left[i \in 0 .. Len(a)] ==
        IF i = 0 THEN <<>>
        ELSE IF a[i] = Blank \/ (i > 1 /\ a[i] = a[i - 1]) THEN left[i - 1]
        ELSE Append(left[i - 1], a[i])
  IN  left[Len(a)]

MassOf(frames, a) ==
  LET mass[i \in 0 .. Len(frames)] ==
        IF i = 0 THEN 1 ELSE mass[i - 1] * frames[i].row[a[i]]
  IN  mass[Len(frames)]

CtcMass(frames, prefix) ==
  SumFunctionOnSet([a \in Alignments(frames) |-> MassOf(frames, a)],
                   {a \in Alignments(frames) : Collapse(a) = prefix})

IsCtc ==
  /\ \A p \in DOMAIN beam : Total(beam[p]) = CtcMass(used, p)
  /\ \A a \in Alignments(used) : Collapse(a) \in DOMAIN beam

(* Between frames the beam is exactly the CTC distribution over prefixes:  *)
(* every prefix some alignment collapses to, with the mass of them all     *)
(* (the comment at kws_engine.cc:138-139), until mass has been lost.       *)
BeamIsCtc == pc = "frame" /\ lost = {} => IsCtc

(* The same as long as the beam has not been cut: a token repeated, with   *)
(* or without a blank in between, is followed (kws_engine.cc:138-139).     *)
RepeatsFollowed == pc = "frame" /\ "cut" \notin lost => IsCtc

(* Dropping paths and the tolerance of ExpandRepeat lose mass, but never   *)
(* invent any.                                                             *)
BeamWithinCtc == pc = "frame" => \A p \in DOMAIN beam : Total(beam[p]) <= CtcMass(used, p)

(* The search answers as KeywordSpotter promises: a keyword it names was   *)
(* heard token by token, in frames in time order that were not skipped,    *)
(* and its score, no less than min_score, is that of those frames, however *)
(* often paths were merged, cut and given a newer emission.                *)
SpotterKept == Spotter!Spec
=============================================================================
