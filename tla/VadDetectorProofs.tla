-------------------------- MODULE VadDetectorProofs --------------------------
(***************************************************************************)
(* Theorems about VadDetector for every threshold, every size of chunk and *)
(* context, every network and every way the stream is cut into calls. What *)
(* is kept of the history is exactly what it should be: the state machine  *)
(* is its definition over the answers, the model has heard the stream.     *)
(***************************************************************************)
EXTENDS VadDetector, SequenceTheorems, FiniteSetTheorems, TLAPS

(* A run of equal or of consecutive samples is a sequence of samples. *)
LEMMA ZerosType ==
  ASSUME NEW n \in Int
  PROVE  /\ Zeros(n) \in Seq(Nat)
         /\ n \in Nat => Len(Zeros(n)) = n
<1>1. CASE n \in Nat
  BY <1>1 DEF Zeros
<1>2. CASE n \notin Nat
  <2>1. 1 .. n = 1 .. 0
    BY <1>2
  <2>2. QED
    BY <2>1, <1>2 DEF Zeros
<1>3. QED
  BY <1>1, <1>2

(* So are consecutive samples. *)
LEMMA SpanType ==
  ASSUME NEW from \in Nat, NEW to \in Nat, from <= to + 1
  PROVE  /\ Span(from, to) \in Seq(Nat)
         /\ Len(Span(from, to)) = to - from + 1
<1> DEFINE n == to - from + 1
<1>1. n \in Nat /\ \A i \in 1 .. n : from + i - 1 \in Nat
  OBVIOUS
<1>2. QED
  BY <1>1 DEF Span

(* The last n of at least n samples. *)
LEMMA LastType ==
  ASSUME NEW s \in Seq(Nat), NEW n \in Nat, n <= Len(s)
  PROVE  Last(s, n) \in Seq(Nat) /\ Len(Last(s, n)) = n
<1>1. \A i \in Len(s) - n + 1 .. Len(s) : s[i] \in Nat
  OBVIOUS
<1>2. QED
  BY <1>1, SubSeqProperties DEF Last

(* What is left without the first n samples. *)
LEMMA DropType ==
  ASSUME NEW s \in Seq(Nat), NEW n \in Nat
  PROVE  Drop(s, n) \in Seq(Nat)
<1>1. \A i \in n + 1 .. Len(s) : s[i] \in Nat
  OBVIOUS
<1>2. QED
  BY <1>1, SubSeqProperties DEF Drop

(* TypeOK is inductive once the context is known to have its fixed length. *)
TypeInv == TypeOK /\ Len(context) = ContextSamples

(* The context keeps its length from chunk to chunk. *)
LEMMA PredictChunkType ==
  ASSUME TypeInv,
         NEW chunk \in Seq(Nat),
         NEW probability \in Probabilities,
         PredictChunk(chunk, probability)
  PROVE  /\ state' \in Seq(Seq(Nat)) /\ answers' \in Seq(0 .. 100)
         /\ context' \in Seq(Nat) /\ Len(context') = ContextSamples
<1> DEFINE input == context \o chunk
<1>1. input \in Seq(Nat) /\ Len(input) = ContextSamples + Len(chunk)
  <2>1. context \in Seq(Nat) /\ Len(context) = ContextSamples
    BY DEF TypeInv, TypeOK
  <2>2. QED
    BY <2>1, ConcatProperties
<1>2. ContextSamples \in Nat /\ ContextSamples <= Len(input)
  BY <1>1, SizeAssumption
<1>3. context' \in Seq(Nat) /\ Len(context') = ContextSamples
  BY <1>1, <1>2, LastType DEF PredictChunk
<1>4. state' \in Seq(Seq(Nat))
  <2>1. state \in Seq(Seq(Nat)) /\ state' = Append(state, input)
    BY DEF PredictChunk, TypeInv, TypeOK
  <2>2. QED
    BY <1>1, <2>1, AppendProperties
<1>5. answers' \in Seq(0 .. 100)
  <2>1. probability \in 0 .. 100 /\ answers \in Seq(0 .. 100)
    BY ThresholdAssumption DEF TypeInv, TypeOK
  <2>2. QED
    BY <2>1, AppendProperties DEF PredictChunk
<1>6. QED
  BY <1>3, <1>4, <1>5

(* silence_samples stays below the limit and counts only in speech. *)
LEMMA UpdateSpeechStateType ==
  ASSUME TypeInv,
         NEW probability \in Probabilities,
         UpdateSpeechState(probability)
  PROVE  /\ speech_active' \in BOOLEAN
         /\ silence_samples' \in 0 .. MinSilenceSamples - 1
         /\ silence_samples' # 0 => speech_active'
<1>0. /\ probability \in Int /\ Threshold \in Int /\ EndOffset \in Int
      /\ ChunkSamples \in Nat /\ MinSilenceSamples \in Nat \ {0}
      /\ silence_samples \in 0 .. MinSilenceSamples - 1
      /\ speech_active \in BOOLEAN
  BY SizeAssumption, ThresholdAssumption DEF TypeInv, TypeOK
<1>1. CASE probability >= Threshold
  <2>1. speech_active' = TRUE /\ silence_samples' = 0
    BY <1>0, <1>1 DEF UpdateSpeechState
  <2>2. QED
    BY <2>1, <1>0
<1>2. CASE /\ probability < Threshold
           /\ speech_active /\ probability < Threshold - EndOffset
  <2>1. CASE silence_samples + ChunkSamples >= MinSilenceSamples
    <3>1. speech_active' = FALSE /\ silence_samples' = 0
      BY <1>0, <1>2, <2>1 DEF UpdateSpeechState
    <3>2. 0 \in 0 .. MinSilenceSamples - 1
      BY <1>0
    <3>3. QED
      BY <3>1, <3>2
  <2>2. CASE ~(silence_samples + ChunkSamples >= MinSilenceSamples)
    <3>1. ~(probability >= Threshold)
      BY <1>0, <1>2
    <3>2. silence_samples' = silence_samples + ChunkSamples /\ speech_active' = speech_active
      BY <1>2, <2>2, <3>1, Zenon DEF UpdateSpeechState
    <3>3. silence_samples' \in 0 .. MinSilenceSamples - 1
      BY <1>0, <3>2, <2>2
    <3>4. QED
      BY <3>2, <3>3, <1>2
  <2>3. QED
    BY <2>1, <2>2
<1>3. CASE /\ probability < Threshold
           /\ ~(speech_active /\ probability < Threshold - EndOffset)
  <2>1. silence_samples' = silence_samples /\ speech_active' = speech_active
    BY <1>0, <1>3 DEF UpdateSpeechState, speechVars
  <2>2. QED
    BY <2>1 DEF TypeInv, TypeOK
<1>4. QED
  BY <1>0, <1>1, <1>2, <1>3 DEF UpdateSpeechState

(* A result that has heard one more chunk is a result. *)
LEMMA HeardType ==
  ASSUME TypeInv, NEW probability \in Probabilities
  PROVE  Heard(probability) \in Results
<1>1. Larger(result.max_probability, probability) \in 0 .. 100
  BY ThresholdAssumption DEF TypeInv, TypeOK, Results, Larger
<1>2. (result.has_speech \/ probability >= Threshold) \in BOOLEAN
  OBVIOUS
<1>3. QED
  BY <1>1, <1>2 DEF TypeInv, TypeOK, Results, Heard
(* What a cleared detector looks like. *)
LEMMA ClearType ==
  ASSUME Clear
  PROVE  /\ context' \in Seq(Nat) /\ Len(context') = ContextSamples
         /\ state' \in Seq(Seq(Nat)) /\ answers' \in Seq(0 .. 100)
         /\ speech_active' = FALSE /\ silence_samples' = 0 /\ failures' = 0
<1>1. ContextSamples \in Nat
  BY SizeAssumption
<1>2. context' = Zeros(ContextSamples) /\ state' = <<>> /\ answers' = <<>>
  BY DEF Clear
<1>3. context' \in Seq(Nat) /\ Len(context') = ContextSamples
  BY <1>1, <1>2, ZerosType
<1>4. state' \in Seq(Seq(Nat)) /\ answers' \in Seq(0 .. 100)
  BY <1>2
<1>5. QED
  BY <1>3, <1>4 DEF Clear

(* Every variable keeps its type, whatever the network answers. *)
THEOREM TypeInvariant == Spec => []TypeInv
<1> USE DEF TypeInv, TypeOK
<1>0. 0 \in 0 .. MinSilenceSamples - 1 /\ ContextSamples \in Nat
  BY SizeAssumption
<1>1. Init => TypeInv
  <2> SUFFICES ASSUME Init PROVE TypeInv
    OBVIOUS
  <2>1. context \in Seq(Nat) /\ Len(context) = ContextSamples
    BY <1>0, ZerosType DEF Init
  <2>2. result \in Results /\ returned \in Results
    BY DEF Init, NoResult, Results
  <2>3. /\ pending \in Seq(Nat) /\ stream \in Seq(Nat)
        /\ state \in Seq(Seq(Nat)) /\ answers \in Seq(0 .. 100)
    BY DEF Init
  <2>4. /\ pc = "idle" /\ detecting = FALSE /\ consumed = 0 /\ atEntry = FALSE
        /\ speech_active = FALSE /\ silence_samples = 0 /\ failures = 0
    BY DEF Init
  <2>5. QED
    BY <1>0, <2>1, <2>2, <2>3, <2>4
<1>2. TypeInv /\ [Next]_vars => TypeInv'
  <2> SUFFICES ASSUME TypeInv, [Next]_vars
               PROVE  TypeInv'
    OBVIOUS
  <2> USE DEF callVars, modelVars, speechVars, inputVars
  <2>1. CASE Reset
    <3>1. Clear
      BY <2>1 DEF Reset
    <3>2. /\ context' \in Seq(Nat) /\ Len(context') = ContextSamples
          /\ state' \in Seq(Seq(Nat)) /\ answers' \in Seq(0 .. 100)
          /\ speech_active' = FALSE /\ silence_samples' = 0 /\ failures' = 0
      BY <3>1, ClearType
    <3>3. /\ pending' = <<>> /\ stream' = <<>> /\ UNCHANGED callVars
      BY <2>1 DEF Reset
    <3>4. pending' \in Seq(Nat) /\ stream' \in Seq(Nat)
      BY <3>3
    <3>5. QED
      BY <1>0, <3>2, <3>3, <3>4
  <2>2. ASSUME NEW count \in FeedSizes, CallFeed(count)
        PROVE  TypeInv'
    <3> DEFINE samples == Span(Len(stream) + 1, Len(stream) + count)
    <3>1. samples \in Seq(Nat)
      BY SpanType, SizeAssumption
    <3>2. pending' \in Seq(Nat) /\ stream' \in Seq(Nat)
      BY <2>2, <3>1, ConcatProperties DEF CallFeed
    <3>3. result' \in Results
      BY <2>2 DEF CallFeed, NoResult, Results
    <3>4. QED
      BY <2>2, <3>2, <3>3 DEF CallFeed
  <2>3. ASSUME NEW count \in FeedSizes, CallDetect(count)
        PROVE  TypeInv'
    <3>1. Span(1, count) \in Seq(Nat)
      BY SpanType, SizeAssumption
    <3>2. result' \in Results
      BY <2>3 DEF CallDetect, NoResult, Results
    <3>3. Clear
      BY <2>3 DEF CallDetect
    <3>4. /\ context' \in Seq(Nat) /\ Len(context') = ContextSamples
          /\ state' \in Seq(Seq(Nat)) /\ answers' \in Seq(0 .. 100)
          /\ speech_active' = FALSE /\ silence_samples' = 0 /\ failures' = 0
      BY <3>3, ClearType
    <3>5. /\ pc' = "feed" /\ detecting' = TRUE /\ atEntry' = FALSE /\ consumed' = 0
          /\ pending' \in Seq(Nat) /\ stream' \in Seq(Nat) /\ returned' = returned
      BY <2>3, <3>1 DEF CallDetect
    <3>6. QED
      BY <1>0, <3>2, <3>4, <3>5
  <2>4. ASSUME NEW probability \in Probabilities, FeedChunk(probability)
        PROVE  TypeInv'
    <3> DEFINE chunk == SubSeq(pending, consumed + 1, consumed + ChunkSamples)
    <3>1. chunk \in Seq(Nat)
      <4>1. \A i \in consumed + 1 .. consumed + ChunkSamples : pending[i] \in Nat
        BY <2>4, SizeAssumption DEF FeedChunk
      <4>2. QED
        BY <4>1, SizeAssumption, SubSeqProperties
    <3>2. /\ state' \in Seq(Seq(Nat)) /\ answers' \in Seq(0 .. 100)
          /\ context' \in Seq(Nat) /\ Len(context') = ContextSamples
      BY <2>4, <3>1, PredictChunkType DEF FeedChunk
    <3>3. /\ speech_active' \in BOOLEAN
          /\ silence_samples' \in 0 .. MinSilenceSamples - 1
          /\ silence_samples' # 0 => speech_active'
      BY <2>4, UpdateSpeechStateType DEF FeedChunk
    <3>4. result' \in Results
      BY <2>4, HeardType DEF FeedChunk
    <3>5. consumed' \in Nat
      BY <2>4, SizeAssumption DEF FeedChunk
    <3>6. QED
      BY <2>4, <3>2, <3>3, <3>4, <3>5 DEF FeedChunk
  <2>5. ASSUME NEW probability \in Probabilities, PadChunk(probability)
        PROVE  TypeInv'
    <3> DEFINE zeros == Zeros(ChunkSamples - Len(pending))
    <3>1. zeros \in Seq(Nat)
      BY ZerosType, SizeAssumption
    <3>2. pending \o zeros \in Seq(Nat) /\ stream \o zeros \in Seq(Nat)
      BY <3>1, ConcatProperties
    <3>3. /\ state' \in Seq(Seq(Nat)) /\ answers' \in Seq(0 .. 100)
          /\ context' \in Seq(Nat) /\ Len(context') = ContextSamples
      BY <2>5, <3>2, PredictChunkType DEF PadChunk
    <3>4. /\ speech_active' \in BOOLEAN
          /\ silence_samples' \in 0 .. MinSilenceSamples - 1
          /\ silence_samples' # 0 => speech_active'
      BY <2>5, UpdateSpeechStateType DEF PadChunk
    <3>5. result' \in Results /\ returned' \in Results
      <4>1. Heard(probability) \in Results
        BY HeardType
      <4>2. result' = [Heard(probability) EXCEPT !.speech_active = speech_active']
        BY <2>5 DEF PadChunk
      <4>3. result' \in Results
        BY <4>1, <4>2, <3>4 DEF Results
      <4>4. QED
        BY <2>5, <4>3 DEF PadChunk
    <3>6. QED
      BY <2>5, <3>2, <3>3, <3>4, <3>5 DEF PadChunk
  <2>6. CASE FeedEnd
    <3>1. pending' \in Seq(Nat)
      BY <2>6, DropType DEF FeedEnd
    <3>2. [result EXCEPT !.speech_active = speech_active] \in Results
      BY DEF Results
    <3>3. result' \in Results /\ returned' \in Results
      BY <2>6, <3>2 DEF FeedEnd
    <3>4. QED
      BY <2>6, <3>1, <3>3 DEF FeedEnd
  <2>7. CASE PadNothing
    BY <2>7 DEF PadNothing
  <2>8. CASE PredictThrows
    BY <2>8 DEF PredictThrows
  <2>9. CASE UNCHANGED vars
    BY <2>9 DEF vars
  <2>10. QED
    BY <2>1, <2>2, <2>3, <2>4, <2>5, <2>6, <2>7, <2>8, <2>9 DEF Next
<1>3. QED
  BY <1>1, <1>2, PTL DEF Spec

(* The type invariant the runs check. *)
THEOREM TypeCorrect == Spec => []TypeOK
<1>1. TypeInv => TypeOK
  BY DEF TypeInv
<1>2. QED
  BY <1>1, TypeInvariant, PTL
-----------------------------------------------------------------------------
(* One chunk more: has_speech and max_probability still agree. *)
Agrees(r) == r.has_speech <=> r.max_probability >= Threshold

(* One more chunk leaves has_speech and max_probability in agreement. *)
LEMMA HeardAgrees ==
  ASSUME TypeInv, Agrees(result), NEW probability \in Probabilities
  PROVE  Agrees(Heard(probability))
<1> DEFINE most == Larger(result.max_probability, probability)
<1>0. result \in Results
  BY DEF TypeInv, TypeOK
<1>1. /\ probability \in Int /\ result.max_probability \in Int /\ Threshold \in Int
      /\ result \in Results
  BY <1>0, ThresholdAssumption DEF Results
<1>2. most >= Threshold <=> result.max_probability >= Threshold \/ probability >= Threshold
  BY <1>1 DEF Larger
<1>3. /\ Heard(probability).max_probability = most
      /\ Heard(probability).has_speech = (result.has_speech \/ probability >= Threshold)
  BY <1>1 DEF Heard, Results
<1>4. QED
  BY <1>2, <1>3 DEF Agrees

(* The speech_active of a result says nothing about the agreement.         *)
LEMMA ActiveAgrees ==
  ASSUME NEW r \in Results, NEW active \in BOOLEAN, Agrees(r)
  PROVE  Agrees([r EXCEPT !.speech_active = active])
<1>1. /\ [r EXCEPT !.speech_active = active].has_speech = r.has_speech
      /\ [r EXCEPT !.speech_active = active].max_probability = r.max_probability
  BY DEF Results
<1>2. QED
  BY <1>1 DEF Agrees

(* A caller that looks at has_speech and one that looks at max_probability *)
(* come to the same conclusion about every call.                           *)
THEOREM ResultsAgree == Spec => []ResultAgrees
<1> DEFINE Inv == Agrees(result) /\ Agrees(returned)
<1>1. Init => Inv
  BY ThresholdAssumption DEF Init, NoResult, Agrees
<1>2. Inv /\ TypeInv /\ TypeInv' /\ [Next]_vars => Inv'
  <2> SUFFICES ASSUME Inv, TypeInv, TypeInv', [Next]_vars
               PROVE  Inv'
    OBVIOUS
  <2>0. /\ result \in Results /\ speech_active \in BOOLEAN /\ speech_active' \in BOOLEAN
    BY DEF TypeInv, TypeOK
  <2>1. CASE UNCHANGED <<result, returned>>
    BY <2>1 DEF Agrees
  <2>2. ASSUME NEW count \in FeedSizes, CallFeed(count) \/ CallDetect(count)
        PROVE  Inv'
    <3>1. result' = NoResult /\ returned' = returned
      BY <2>2 DEF CallFeed, CallDetect
    <3>2. QED
      BY <3>1, ThresholdAssumption DEF NoResult, Agrees
  <2>3. ASSUME NEW probability \in Probabilities, FeedChunk(probability)
        PROVE  Inv'
    <3>1. Agrees(Heard(probability))
      BY HeardAgrees
    <3>2. result' = Heard(probability) /\ returned' = returned
      BY <2>3 DEF FeedChunk
    <3>3. QED
      BY <3>1, <3>2 DEF Agrees
  <2>4. ASSUME NEW probability \in Probabilities, PadChunk(probability)
        PROVE  Inv'
    <3>1. Agrees([Heard(probability) EXCEPT !.speech_active = speech_active'])
      BY <2>0, HeardAgrees, HeardType, ActiveAgrees
    <3>2. /\ result' = [Heard(probability) EXCEPT !.speech_active = speech_active']
          /\ returned' = result'
      BY <2>4 DEF PadChunk
    <3>3. QED
      BY <3>1, <3>2 DEF Agrees
  <2>5. CASE FeedEnd
    <3>1. Agrees([result EXCEPT !.speech_active = speech_active])
      BY <2>0, ActiveAgrees
    <3>2. /\ result' = [result EXCEPT !.speech_active = speech_active]
          /\ returned' = returned \/ returned' = result'
      BY <2>5 DEF FeedEnd
    <3>3. QED
      BY <3>1, <3>2 DEF Agrees
  <2>6. CASE PadNothing
    BY <2>6 DEF PadNothing, Agrees
  <2>7. CASE Reset \/ PredictThrows \/ UNCHANGED vars
    BY <2>1, <2>7 DEF Reset, PredictThrows, vars, callVars
  <2>8. QED
    BY <2>2, <2>3, <2>4, <2>5, <2>6, <2>7 DEF Next
<1>3. Inv => ResultAgrees
  BY DEF ResultAgrees, Agrees
<1>4. QED
  BY <1>1, <1>2, <1>3, TypeInvariant, PTL DEF Spec
-----------------------------------------------------------------------------
(* In a call, speech is active only if it was when the call began or the   *)
(* call has heard it; when Feed hands over to Detect, the result says so.  *)
GateInv ==
  /\ pc # "idle" => (speech_active => result.has_speech \/ atEntry)
  /\ pc = "pad" => result.speech_active = speech_active

(* A chunk starts speech only by reaching the threshold, ... *)
LEMMA SpeechNeedsThreshold ==
  ASSUME NEW probability \in Probabilities, UpdateSpeechState(probability), speech_active'
  PROVE  speech_active \/ probability >= Threshold
BY ThresholdAssumption DEF UpdateSpeechState, speechVars

(* ... and then the call has heard it. *)
LEMMA HeardSpeech ==
  ASSUME TypeInv, NEW probability \in Probabilities
  PROVE  Heard(probability).has_speech = (result.has_speech \/ probability >= Threshold)
BY DEF TypeInv, TypeOK, Results, Heard

(* What a call in progress will answer is already allowed: speech_active   *)
(* has been carried over from the calls before, or heard in this one.      *)
THEOREM GateInvariant == Spec => []GateInv
<1>1. Init => GateInv
  BY DEF Init, GateInv
<1>2. GateInv /\ TypeInv /\ TypeInv' /\ [Next]_vars => GateInv'
  <2> SUFFICES ASSUME GateInv, TypeInv, TypeInv', [Next]_vars
               PROVE  GateInv'
    OBVIOUS
  <2>1. CASE Reset \/ PredictThrows \/ PadNothing
    BY <2>1 DEF Reset, PredictThrows, PadNothing, GateInv, callVars
  <2>2. ASSUME NEW count \in FeedSizes, CallFeed(count)
        PROVE  GateInv'
    BY <2>2 DEF CallFeed, GateInv, speechVars
  <2>3. ASSUME NEW count \in FeedSizes, CallDetect(count)
        PROVE  GateInv'
    BY <2>3 DEF CallDetect, Clear, GateInv
  <2>4. ASSUME NEW probability \in Probabilities, FeedChunk(probability)
        PROVE  GateInv'
    <3>1. pc = "feed" /\ pc' = "feed" /\ atEntry' = atEntry /\ result' = Heard(probability)
      BY <2>4 DEF FeedChunk
    <3>2. speech_active' => speech_active \/ probability >= Threshold
      BY <2>4, SpeechNeedsThreshold DEF FeedChunk
    <3>3. QED
      BY <3>1, <3>2, HeardSpeech DEF GateInv
  <2>5. ASSUME NEW probability \in Probabilities, PadChunk(probability)
        PROVE  GateInv'
    BY <2>5 DEF PadChunk, GateInv
  <2>6. CASE FeedEnd
    <3>1. result' = [result EXCEPT !.speech_active = speech_active] /\ result \in Results
      BY <2>6 DEF FeedEnd, TypeInv, TypeOK
    <3>2. result'.speech_active = speech_active /\ result'.has_speech = result.has_speech
      BY <3>1 DEF Results
    <3>3. pc # "idle" /\ speech_active' = speech_active /\ atEntry' = atEntry
      BY <2>6 DEF FeedEnd, speechVars
    <3>4. QED
      BY <3>2, <3>3 DEF GateInv
  <2>7. CASE UNCHANGED vars
    BY <2>7 DEF vars, callVars, speechVars, GateInv
  <2>8. QED
    BY <2>1, <2>2, <2>3, <2>4, <2>5, <2>6, <2>7 DEF Next
<1>3. QED
  BY <1>1, <1>2, TypeInvariant, PTL DEF Spec
(* The refinement mapping, in short: what the gate holds and answers.      *)
GateActive == IF pc = "idle" THEN speech_active ELSE atEntry
GateVoice == [has_speech |-> returned.has_speech, speech_active |-> returned.speech_active]

(* VadDetector implements SpeechGate: the end of a call is an answer, a    *)
(* failed call a failure, Reset and the start of Detect a reset, and the   *)
(* chunks in between change nothing the caller can see.                    *)
THEOREM GateImplemented == Spec => GateKept
<1> USE DEF GateActive, GateVoice
<1>1. Init => Gate!Init
  BY DEF Init, NoResult, Gate!Init, Gate!Silent
<1>2. /\ GateInv /\ GateInv' /\ TypeInv /\ TypeInv' /\ [Next]_vars
      => [Gate!Next]_(Gate!vars)
  <2> SUFFICES ASSUME GateInv, GateInv', TypeInv, TypeInv', [Next]_vars
               PROVE  Gate!Next \/ (GateActive' = GateActive /\ GateVoice' = GateVoice)
    BY DEF Gate!vars
  <2>0. /\ speech_active \in BOOLEAN /\ speech_active' \in BOOLEAN
        /\ atEntry \in BOOLEAN /\ returned' \in Results
    BY DEF TypeInv, TypeOK
  <2>1. CASE Reset
    <3>1. GateActive' = FALSE /\ GateVoice' = GateVoice
      BY <2>1 DEF Reset, Clear, callVars
    <3>2. QED
      BY <3>1 DEF Gate!Next, Gate!Reset
  <2>2. ASSUME NEW count \in FeedSizes, CallFeed(count)
        PROVE  GateActive' = GateActive /\ GateVoice' = GateVoice
    BY <2>2 DEF CallFeed
  <2>3. ASSUME NEW count \in FeedSizes, CallDetect(count)
        PROVE  Gate!Next
    <3>1. GateActive' = FALSE /\ GateVoice' = GateVoice
      BY <2>3 DEF CallDetect
    <3>2. QED
      BY <3>1 DEF Gate!Next, Gate!Reset
  <2>4. ASSUME NEW probability \in Probabilities, FeedChunk(probability)
        PROVE  GateActive' = GateActive /\ GateVoice' = GateVoice
    BY <2>4 DEF FeedChunk
  <2>5. ASSUME pc # "idle", pc' = "idle", returned' = result',
               result'.speech_active = speech_active',
               speech_active' => result'.has_speech \/ atEntry
        PROVE  Gate!Next
    <3>1. GateVoice' \in Gate!Answers
      BY <2>0 DEF Gate!Answers, Results
    <3>2. GateActive' = GateVoice'.speech_active
      BY <2>5
    <3>3. GateVoice'.speech_active => GateVoice'.has_speech \/ GateActive
      BY <2>5
    <3>4. QED
      BY <3>1, <3>2, <3>3 DEF Gate!Next, Gate!Answer
  <2>6. ASSUME NEW probability \in Probabilities, PadChunk(probability)
        PROVE  Gate!Next
    <3>1. /\ pc = "pad" /\ pc' = "idle" /\ returned' = result'
          /\ result' = [Heard(probability) EXCEPT !.speech_active = speech_active']
          /\ UpdateSpeechState(probability)
      BY <2>6 DEF PadChunk
    <3>2. /\ result'.speech_active = speech_active'
          /\ result'.has_speech = Heard(probability).has_speech
      BY <3>1, HeardType DEF Results
    <3>3. speech_active' => result'.has_speech \/ atEntry
      BY <3>1, <3>2, HeardSpeech, SpeechNeedsThreshold DEF GateInv
    <3>4. QED
      BY <2>5, <3>1, <3>2, <3>3
  <2>7. CASE FeedEnd
    <3>1. CASE detecting
      BY <2>7, <3>1 DEF FeedEnd
    <3>2. CASE ~detecting
      <4>1. /\ pc = "feed" /\ pc' = "idle" /\ returned' = result'
            /\ result' = [result EXCEPT !.speech_active = speech_active]
            /\ speech_active' = speech_active
        BY <2>7, <3>2 DEF FeedEnd, speechVars
      <4>2. result \in Results
        BY DEF TypeInv, TypeOK
      <4>3. /\ result'.speech_active = speech_active
            /\ result'.has_speech = result.has_speech
        BY <4>1, <4>2 DEF Results
      <4>4. QED
        BY <2>5, <4>1, <4>3 DEF GateInv
    <3>3. QED
      BY <3>1, <3>2
  <2>8. CASE PadNothing
    <3>1. /\ pc = "pad" /\ pc' = "idle" /\ returned' = result' /\ result' = result
          /\ speech_active' = speech_active
      BY <2>8 DEF PadNothing, speechVars
    <3>2. QED
      BY <2>5, <3>1 DEF GateInv
  <2>9. CASE PredictThrows
    <3>1. GateActive' = speech_active' /\ GateVoice' = GateVoice
      BY <2>9 DEF PredictThrows, speechVars
    <3>2. QED
      BY <2>0, <3>1 DEF Gate!Next, Gate!Fail
  <2>10. CASE UNCHANGED vars
    BY <2>10 DEF vars, callVars, speechVars
  <2>11. QED
    BY <2>1, <2>2, <2>3, <2>4, <2>6, <2>7, <2>8, <2>9, <2>10 DEF Next
<1>3. QED
  BY <1>1, <1>2, GateInvariant, TypeInvariant, PTL DEF Spec, GateKept, Gate!Spec
-----------------------------------------------------------------------------
(* What has been kept of the history, against the whole of it.            *)
LEMMA TimesMonotone ==
  ASSUME NEW a \in Nat, NEW b \in Nat, NEW k \in Nat, a <= b
  PROVE  a * k <= b * k
<1>1. (b - a) * k \in Nat
  OBVIOUS
<1>2. b * k = a * k + (b - a) * k
  OBVIOUS
<1>3. a * k \in Nat /\ b * k \in Nat
  OBVIOUS
<1>4. QED
  BY <1>1, <1>2, <1>3
-----------------------------------------------------------------------------
(* The last chunk at or above the threshold, and the low ones since. *)
LastHigh(a, i) ==
  /\ i \in 1 .. Len(a) /\ a[i] >= Threshold
  /\ \A j \in i + 1 .. Len(a) : ~(a[j] >= Threshold)
LowsAfter(a, i) == {j \in i + 1 .. Len(a) : a[j] < Threshold - EndOffset}
LowSamples(a, i) == Cardinality(LowsAfter(a, i)) * ChunkSamples

LEMMA LowsFinite ==
  ASSUME NEW a \in Seq(0 .. 100), NEW i \in Nat
  PROVE  IsFiniteSet(LowsAfter(a, i)) /\ Cardinality(LowsAfter(a, i)) \in Nat
<1>1. IsFiniteSet(i + 1 .. Len(a))
  BY FS_Interval
<1>2. LowsAfter(a, i) \subseteq i + 1 .. Len(a)
  BY DEF LowsAfter
<1>3. QED
  BY <1>1, <1>2, FS_Subset, FS_CardinalityType

LEMMA LowSamplesType ==
  ASSUME NEW a \in Seq(0 .. 100), NEW i \in Nat
  PROVE  LowSamples(a, i) \in Nat
<1>1. Cardinality(LowsAfter(a, i)) \in Nat /\ ChunkSamples \in Nat
  BY LowsFinite, SizeAssumption
<1>2. QED
  BY <1>1 DEF LowSamples

(* There is at most one. *)
LEMMA OneLastHigh ==
  ASSUME NEW a \in Seq(0 .. 100), NEW i, NEW k, LastHigh(a, i), LastHigh(a, k)
  PROVE  i = k
<1>1. i \in 1 .. Len(a) /\ k \in 1 .. Len(a) /\ Len(a) \in Nat
  BY DEF LastHigh
<1>2. ~(i < k) /\ ~(k < i)
  BY <1>1 DEF LastHigh
<1>3. QED
  BY <1>1, <1>2

(* An answer below the threshold leaves the last high chunk where it was,  *)
(* and counts when it is low.                                              *)
LEMMA OneAnswerMore ==
  ASSUME NEW a \in Seq(0 .. 100), NEW p \in 0 .. 100, p < Threshold, NEW i
  PROVE  /\ LastHigh(Append(a, p), i) <=> LastHigh(a, i)
         /\ LastHigh(a, i) =>
              LowsAfter(Append(a, p), i) =
                IF p < Threshold - EndOffset THEN LowsAfter(a, i) \union {Len(a) + 1}
                                             ELSE LowsAfter(a, i)
<1> DEFINE b == Append(a, p)
<1>1. /\ Len(b) = Len(a) + 1 /\ b[Len(a) + 1] = p
      /\ \A j \in 1 .. Len(a) : b[j] = a[j]
  BY AppendProperties
<1>2. Len(a) \in Nat /\ Threshold \in Int /\ EndOffset \in Int
  BY ThresholdAssumption
<1>3. b[Len(a) + 1] >= Threshold <=> FALSE
  BY <1>1, <1>2
<1> HIDE DEF b
<1>4. ASSUME LastHigh(b, i)
      PROVE  LastHigh(a, i)
  <2>1. i \in 1 .. Len(a) + 1 /\ b[i] >= Threshold
    BY <1>1, <1>4 DEF LastHigh
  <2>2. i # Len(a) + 1
    BY <2>1, <1>3
  <2>3. i \in 1 .. Len(a)
    BY <1>2, <2>1, <2>2
  <2>4. \A j \in i + 1 .. Len(a) : j \in i + 1 .. Len(b) /\ b[j] = a[j]
    BY <1>1, <1>2, <2>3
  <2>5. a[i] >= Threshold /\ \A j \in i + 1 .. Len(a) : ~(a[j] >= Threshold)
    BY <1>1, <1>4, <2>1, <2>3, <2>4 DEF LastHigh
  <2>6. QED
    BY <2>3, <2>5 DEF LastHigh
<1>5. ASSUME LastHigh(a, i)
      PROVE  LastHigh(b, i)
  <2>1. i \in 1 .. Len(a) /\ a[i] >= Threshold
    BY <1>5 DEF LastHigh
  <2>2. i \in 1 .. Len(b) /\ b[i] >= Threshold
    BY <1>1, <1>2, <2>1
  <2>3. ASSUME NEW j \in i + 1 .. Len(b)
        PROVE  ~(b[j] >= Threshold)
    <3>1. CASE j = Len(a) + 1
      BY <1>3, <3>1
    <3>2. CASE j # Len(a) + 1
      <4>1. j \in i + 1 .. Len(a) /\ b[j] = a[j]
        BY <1>1, <1>2, <2>1, <3>2
      <4>2. QED
        BY <1>5, <4>1 DEF LastHigh
    <3>3. QED
      BY <3>1, <3>2
  <2>4. QED
    BY <2>2, <2>3 DEF LastHigh
<1>6. ASSUME LastHigh(a, i)
      PROVE  LowsAfter(b, i) = IF p < Threshold - EndOffset
                               THEN LowsAfter(a, i) \union {Len(a) + 1} ELSE LowsAfter(a, i)
  <2>1. i \in 1 .. Len(a)
    BY <1>6 DEF LastHigh
  <2>2. i + 1 .. Len(b) = (i + 1 .. Len(a)) \union {Len(a) + 1}
    BY <1>1, <1>2, <2>1
  <2>3. \A j \in i + 1 .. Len(a) : b[j] = a[j]
    BY <1>1, <1>2, <2>1
  <2>4. QED
    BY <1>1, <2>2, <2>3 DEF LowsAfter
<1>7. QED
  BY <1>4, <1>5, <1>6 DEF b

(* The place behind the last is new. *)
LEMMA OneLowMore ==
  ASSUME NEW a \in Seq(0 .. 100), NEW p \in 0 .. 100, p < Threshold, NEW i, LastHigh(a, i)
  PROVE  LowSamples(Append(a, p), i) = IF p < Threshold - EndOffset
                                       THEN LowSamples(a, i) + ChunkSamples ELSE LowSamples(a, i)
<1>1. i \in Nat /\ Len(a) \in Nat /\ ChunkSamples \in Nat
  BY SizeAssumption DEF LastHigh
<1>2. IsFiniteSet(LowsAfter(a, i)) /\ Cardinality(LowsAfter(a, i)) \in Nat
  BY <1>1, LowsFinite
<1>3. CASE p < Threshold - EndOffset
  <2>1. LowsAfter(Append(a, p), i) = LowsAfter(a, i) \union {Len(a) + 1}
    BY <1>3, OneAnswerMore
  <2>2. Len(a) + 1 \notin LowsAfter(a, i)
    BY <1>1 DEF LowsAfter
  <2>3. Cardinality(LowsAfter(Append(a, p), i)) = Cardinality(LowsAfter(a, i)) + 1
    BY <1>2, <2>1, <2>2, FS_AddElement
  <2>4. QED
    BY <1>1, <1>2, <1>3, <2>3 DEF LowSamples
<1>4. CASE ~(p < Threshold - EndOffset)
  <2>1. LowsAfter(Append(a, p), i) = LowsAfter(a, i)
    BY <1>4, OneAnswerMore
  <2>2. QED
    BY <1>4, <2>1 DEF LowSamples
<1>5. QED
  BY <1>3, <1>4

(* A chunk at or above the threshold is the last high one, with no low one *)
(* behind it.                                                              *)
LEMMA HighAnswer ==
  ASSUME NEW a \in Seq(0 .. 100), NEW p \in 0 .. 100, p >= Threshold
  PROVE  LastHigh(Append(a, p), Len(a) + 1) /\ LowSamples(Append(a, p), Len(a) + 1) = 0
<1> DEFINE b == Append(a, p)
<1>1. Len(b) = Len(a) + 1 /\ b[Len(a) + 1] = p /\ Len(a) \in Nat
  BY AppendProperties
<1> HIDE DEF b
<1>2. (Len(a) + 1) + 1 .. Len(b) = {}
  BY <1>1
<1>3. LastHigh(b, Len(a) + 1)
  BY <1>1, <1>2 DEF LastHigh
<1>4. LowsAfter(b, Len(a) + 1) = {}
  BY <1>2 DEF LowsAfter
<1>5. LowSamples(b, Len(a) + 1) = 0 * ChunkSamples
  BY <1>4, FS_EmptySet DEF LowSamples
<1>6. QED
  BY <1>3, <1>5, SizeAssumption DEF b

(* While speech is active, silence_samples is the length of the low chunks *)
(* since the last high one; once it is not, they were enough to end it.    *)
SpeechInv ==
  /\ speech_active =>
       \E i \in Nat : LastHigh(answers, i) /\ LowSamples(answers, i) = silence_samples
  /\ ~speech_active =>
       \A i \in Nat : LastHigh(answers, i) => LowSamples(answers, i) >= MinSilenceSamples

LEMMA ChunkJudged ==
  ASSUME TypeInv, SpeechInv,
         NEW probability \in Probabilities,
         UpdateSpeechState(probability), answers' = Append(answers, probability)
  PROVE  SpeechInv'
<1>1. /\ answers \in Seq(0 .. 100) /\ probability \in 0 .. 100 /\ Len(answers) \in Nat
      /\ Threshold \in Int /\ EndOffset \in Int
      /\ ChunkSamples \in Nat /\ MinSilenceSamples \in Nat
      /\ silence_samples \in Nat /\ speech_active \in BOOLEAN
  BY SizeAssumption, ThresholdAssumption DEF TypeInv, TypeOK
<1>2. \A i \in Nat : LowSamples(answers, i) \in Nat
  BY <1>1, LowSamplesType
<1>3. CASE probability >= Threshold
  <2>1. speech_active' = TRUE /\ silence_samples' = 0
    BY <1>1, <1>3 DEF UpdateSpeechState
  <2>2. LastHigh(answers', Len(answers) + 1) /\ LowSamples(answers', Len(answers) + 1) = 0
    BY <1>1, <1>3, HighAnswer
  <2>3. Len(answers) + 1 \in Nat
    BY <1>1
  <2>4. QED
    BY <2>1, <2>2, <2>3 DEF SpeechInv
<1>4. CASE probability < Threshold
  <2> DEFINE low == probability < Threshold - EndOffset
  <2>1. \A i \in Nat : LastHigh(answers', i) <=> LastHigh(answers, i)
    BY <1>1, <1>4, OneAnswerMore
  <2>2. \A i \in Nat : LastHigh(answers, i) =>
          LowSamples(answers', i) = IF low THEN LowSamples(answers, i) + ChunkSamples
                                           ELSE LowSamples(answers, i)
    BY <1>1, <1>4, OneLowMore
  <2>3. ~(probability >= Threshold)
    BY <1>1, <1>4
  <2> HIDE DEF low
  <2>4. CASE speech_active
    <3>1. PICK i \in Nat : LastHigh(answers, i) /\ LowSamples(answers, i) = silence_samples
      BY <2>4 DEF SpeechInv
    <3>2. CASE low /\ silence_samples + ChunkSamples >= MinSilenceSamples
      <4>1. ~speech_active'
        BY <2>3, <2>4, <3>2 DEF UpdateSpeechState, low
      <4>2. LowSamples(answers', i) >= MinSilenceSamples
        BY <2>2, <3>1, <3>2
      <4>3. \A k \in Nat : LastHigh(answers', k) => k = i
        BY <1>1, <2>1, <3>1, OneLastHigh
      <4>4. QED
        BY <4>1, <4>2, <4>3 DEF SpeechInv
    <3>3. CASE low /\ ~(silence_samples + ChunkSamples >= MinSilenceSamples)
      <4>1. speech_active' = speech_active /\ silence_samples' = silence_samples + ChunkSamples
        BY <2>3, <2>4, <3>3, Zenon DEF UpdateSpeechState, low
      <4>2. LowSamples(answers', i) = silence_samples' /\ LastHigh(answers', i)
        BY <2>1, <2>2, <3>1, <3>3, <4>1
      <4>3. QED
        BY <2>4, <4>1, <4>2 DEF SpeechInv
    <3>4. CASE ~low
      <4>1. speech_active' = speech_active /\ silence_samples' = silence_samples
        BY <2>3, <3>4, Zenon DEF UpdateSpeechState, speechVars, low
      <4>2. LowSamples(answers', i) = silence_samples' /\ LastHigh(answers', i)
        BY <2>1, <2>2, <3>1, <3>4, <4>1
      <4>3. QED
        BY <2>4, <4>1, <4>2 DEF SpeechInv
    <3>5. QED
      BY <3>2, <3>3, <3>4
  <2>5. CASE ~speech_active
    <3>1. ~speech_active'
      BY <2>3, <2>5, Zenon DEF UpdateSpeechState, speechVars
    <3>2. ASSUME NEW i \in Nat, LastHigh(answers', i)
          PROVE  LowSamples(answers', i) >= MinSilenceSamples
      <4>1. LastHigh(answers, i) /\ LowSamples(answers, i) >= MinSilenceSamples
        BY <2>1, <2>5, <3>2 DEF SpeechInv
      <4>2. CASE low
        <5>1. LowSamples(answers', i) = LowSamples(answers, i) + ChunkSamples
          BY <2>2, <4>1, <4>2
        <5>2. QED
          BY <1>1, <1>2, <4>1, <5>1
      <4>3. CASE ~low
        <5>1. LowSamples(answers', i) = LowSamples(answers, i)
          BY <2>2, <4>1, <4>3
        <5>2. QED
          BY <4>1, <5>1
      <4>4. QED
        BY <4>2, <4>3
    <3>3. QED
      BY <3>1, <3>2 DEF SpeechInv
  <2>6. QED
    BY <2>4, <2>5
<1>5. QED
  BY <1>1, <1>3, <1>4

(* No answer, no speech. *)
LEMMA NothingHeard == ASSUME NEW i PROVE ~LastHigh(<<>>, i)
BY DEF LastHigh

LEMMA SpeechHolds == Spec => []SpeechInv
<1>1. Init => SpeechInv
  BY NothingHeard DEF Init, SpeechInv
<1>2. TypeInv /\ SpeechInv /\ [Next]_vars => SpeechInv'
  <2> SUFFICES ASSUME TypeInv, SpeechInv, [Next]_vars
               PROVE  SpeechInv'
    OBVIOUS
  <2>1. ASSUME Clear
        PROVE  SpeechInv'
    BY <2>1, NothingHeard DEF Clear, SpeechInv
  <2>2. ASSUME UNCHANGED <<speech_active, silence_samples, answers>>
        PROVE  SpeechInv'
    BY <2>2 DEF SpeechInv
  <2>3. CASE Reset
    BY <2>1, <2>3 DEF Reset
  <2>4. ASSUME NEW count \in FeedSizes, CallFeed(count) \/ CallDetect(count)
        PROVE  SpeechInv'
    BY <2>1, <2>2, <2>4 DEF CallFeed, CallDetect, modelVars, speechVars
  <2>5. ASSUME NEW probability \in Probabilities, FeedChunk(probability) \/ PadChunk(probability)
        PROVE  SpeechInv'
    <3>1. UpdateSpeechState(probability) /\ answers' = Append(answers, probability)
      BY <2>5 DEF FeedChunk, PadChunk, PredictChunk
    <3>2. QED
      BY <3>1, ChunkJudged
  <2>6. CASE FeedEnd \/ PadNothing \/ PredictThrows \/ UNCHANGED vars
    BY <2>2, <2>6 DEF FeedEnd, PadNothing, PredictThrows, vars, modelVars, speechVars
  <2>7. QED
    BY <2>3, <2>4, <2>5, <2>6 DEF Next
<1>3. QED
  BY <1>1, <1>2, TypeInvariant, PTL DEF Spec

(* speech_active is its definition over the answers since Reset.           *)
THEOREM SpeechIsItsHistory == Spec => []SpeechActiveExact
<1>1. TypeInv /\ SpeechInv => SpeechActiveExact
  <2> SUFFICES ASSUME TypeInv, SpeechInv
               PROVE  SpeechActiveExact
    OBVIOUS
  <2> DEFINE Since(i) == /\ IsHigh(i)
                         /\ \A j \in i + 1 .. Len(answers) : ~IsHigh(j)
             Lows(i) == {j \in i + 1 .. Len(answers) : IsLow(j)}
  <2>1. /\ silence_samples < MinSilenceSamples /\ speech_active \in BOOLEAN
        /\ MinSilenceSamples \in Nat /\ answers \in Seq(0 .. 100) /\ ChunkSamples \in Nat
    BY SizeAssumption DEF TypeInv, TypeOK
  <2>2. \A i \in 1 .. Len(answers) : Since(i) <=> LastHigh(answers, i)
    BY DEF LastHigh, IsHigh
  <2>3. \A i \in 1 .. Len(answers) : Lows(i) = LowsAfter(answers, i)
    BY DEF LowsAfter, IsLow
  <2>4. \A i \in Nat : LastHigh(answers, i) => i \in 1 .. Len(answers)
    BY DEF LastHigh
  <2>5. \A i \in 1 .. Len(answers) : i \in Nat /\ LowSamples(answers, i) \in Nat
    BY <2>1, LowSamplesType
  <2>6. \A i \in 1 .. Len(answers) : Cardinality(Lows(i)) * ChunkSamples = LowSamples(answers, i)
    BY <2>3 DEF LowSamples
  <2> HIDE DEF Since, Lows
  <2>7. speech_active => \E i \in 1 .. Len(answers) :
          Since(i) /\ Cardinality(Lows(i)) * ChunkSamples < MinSilenceSamples
    <3> SUFFICES ASSUME speech_active
                 PROVE  \E i \in 1 .. Len(answers) :
                          Since(i) /\ Cardinality(Lows(i)) * ChunkSamples < MinSilenceSamples
      OBVIOUS
    <3>1. PICK i \in Nat : LastHigh(answers, i) /\ LowSamples(answers, i) = silence_samples
      BY DEF SpeechInv
    <3>2. i \in 1 .. Len(answers) /\ Since(i)
      BY <2>2, <2>4, <3>1
    <3>3. QED
      BY <2>1, <2>6, <3>1, <3>2
  <2>8. ~speech_active => ~ \E i \in 1 .. Len(answers) :
          Since(i) /\ Cardinality(Lows(i)) * ChunkSamples < MinSilenceSamples
    <3> SUFFICES ASSUME ~speech_active, NEW i \in 1 .. Len(answers), Since(i)
                 PROVE  ~(Cardinality(Lows(i)) * ChunkSamples < MinSilenceSamples)
      OBVIOUS
    <3>1. LowSamples(answers, i) >= MinSilenceSamples
      BY <2>2, <2>5 DEF SpeechInv
    <3>2. QED
      BY <2>1, <2>5, <2>6, <3>1
  <2>9. QED
    BY <2>1, <2>7, <2>8 DEF SpeechActiveExact, Since, Lows
<1>2. QED
  BY <1>1, SpeechHolds, TypeInvariant, PTL
-----------------------------------------------------------------------------
(* What the model is to hear. Of the stream s: the sample at a place, with *)
(* silence before the first; the input of chunk i; the context kept when   *)
(* the first h samples have been heard.                                    *)
SampleAt(s, place) == IF place >= 1 THEN s[place] ELSE 0
InputAt(s, i) ==
  [j \in 1 .. ContextSamples + ChunkSamples |->
     SampleAt(s, (i - 1) * ChunkSamples - ContextSamples + j)]
ContextAt(s, h, c) == \A j \in 1 .. ContextSamples : c[j] = SampleAt(s, h - ContextSamples + j)

(* The inputs and the context depend on no more than has been heard.       *)
LEMMA HeardIsFixed ==
  ASSUME NEW s \in Seq(Nat), NEW r \in Seq(Nat), NEW h \in Nat, h <= Len(s),
         \A place \in 1 .. h : r[place] = s[place]
  PROVE  /\ \A i \in Nat \ {0} : i * ChunkSamples <= h => InputAt(r, i) = InputAt(s, i)
         /\ \A c : ContextAt(s, h, c) => ContextAt(r, h, c)
<1>1. ContextSamples \in Nat /\ ChunkSamples \in Nat
  BY SizeAssumption
<1>2. ASSUME NEW place \in Int, place <= h
      PROVE  SampleAt(r, place) = SampleAt(s, place)
  BY <1>2 DEF SampleAt
<1>3. ASSUME NEW i \in Nat \ {0}, i * ChunkSamples <= h
      PROVE  InputAt(r, i) = InputAt(s, i)
  <2> DEFINE first == (i - 1) * ChunkSamples
  <2>1. first \in Int /\ first + ChunkSamples <= h
    BY <1>1, <1>3
  <2> HIDE DEF first
  <2>2. \A j \in 1 .. ContextSamples + ChunkSamples :
          first - ContextSamples + j \in Int /\ first - ContextSamples + j <= h
    BY <1>1, <2>1
  <2>3. \A j \in 1 .. ContextSamples + ChunkSamples :
          SampleAt(r, first - ContextSamples + j) = SampleAt(s, first - ContextSamples + j)
    BY <1>2, <2>2
  <2>4. QED
    BY <2>3 DEF InputAt, first
<1>4. ASSUME NEW c, ContextAt(s, h, c)
      PROVE  ContextAt(r, h, c)
  <2>1. \A j \in 1 .. ContextSamples :
          h - ContextSamples + j \in Int /\ h - ContextSamples + j <= h
    BY <1>1
  <2>2. QED
    BY <1>2, <1>4, <2>1 DEF ContextAt
<1>5. QED
  BY <1>3, <1>4

(* A chunk that is the next part of the stream makes the next input, and   *)
(* its tail is the next context.                                           *)
LEMMA NextInput ==
  ASSUME NEW s \in Seq(Nat), NEW c \in Seq(Nat), NEW chunk \in Seq(Nat), NEW n \in Nat,
         Len(c) = ContextSamples, Len(chunk) = ChunkSamples,
         ContextAt(s, n * ChunkSamples, c),
         \A k \in 1 .. ChunkSamples : chunk[k] = s[n * ChunkSamples + k]
  PROVE  /\ c \o chunk = InputAt(s, n + 1)
         /\ ContextAt(s, (n + 1) * ChunkSamples, Last(c \o chunk, ContextSamples))
<1> DEFINE h == n * ChunkSamples
           input == c \o chunk
<1>1. /\ ContextSamples \in Nat /\ ChunkSamples \in Nat /\ ContextSamples <= ChunkSamples
      /\ h \in Nat
  BY SizeAssumption
<1>2. /\ input \in Seq(Nat) /\ Len(input) = Len(c) + Len(chunk)
      /\ \A j \in 1 .. Len(c) + Len(chunk) :
           input[j] = IF j <= Len(c) THEN c[j] ELSE chunk[j - Len(c)]
  BY ConcatProperties
<1>3. (n + 1) * ChunkSamples = h + ChunkSamples /\ ((n + 1) - 1) * ChunkSamples = h
  BY <1>1
<1>4. \A k \in 1 .. ChunkSamples : chunk[k] = s[h + k]
  OBVIOUS
<1>5. ContextAt(s, h, c)
  OBVIOUS
<1> HIDE DEF h, input
<1>6. Len(input) = ContextSamples + ChunkSamples
  BY <1>2
<1>7. ASSUME NEW j \in 1 .. ContextSamples + ChunkSamples
      PROVE  input[j] = SampleAt(s, h - ContextSamples + j)
  <2>1. input[j] = IF j <= ContextSamples THEN c[j] ELSE chunk[j - ContextSamples]
    BY <1>2
  <2>2. CASE j <= ContextSamples
    <3>1. j \in 1 .. ContextSamples
      BY <1>1, <2>2
    <3>2. QED
      BY <1>5, <2>1, <2>2, <3>1 DEF ContextAt
  <2>3. CASE ~(j <= ContextSamples)
    <3>1. j - ContextSamples \in 1 .. ChunkSamples
      BY <1>1, <2>3
    <3>2. input[j] = s[h + (j - ContextSamples)]
      BY <1>4, <2>1, <2>3, <3>1
    <3>3. h + (j - ContextSamples) = h - ContextSamples + j /\ h - ContextSamples + j >= 1
      BY <1>1, <3>1
    <3>4. QED
      BY <3>2, <3>3 DEF SampleAt
  <2>4. QED
    BY <2>2, <2>3
<1>8. input = InputAt(s, n + 1)
  <2>1. InputAt(s, n + 1) = [j \in 1 .. ContextSamples + ChunkSamples |->
                               SampleAt(s, h - ContextSamples + j)]
    BY <1>3 DEF InputAt
  <2>2. input = [j \in 1 .. ContextSamples + ChunkSamples |-> input[j]]
    BY <1>2, <1>6
  <2>3. QED
    BY <1>7, <2>1, <2>2
<1>9. ContextAt(s, h + ChunkSamples, Last(input, ContextSamples))
  <2>1. Last(input, ContextSamples) =
          SubSeq(input, ChunkSamples + 1, ContextSamples + ChunkSamples)
    <3>1. Len(input) - ContextSamples + 1 = ChunkSamples + 1
      BY <1>1, <1>6
    <3>2. QED
      BY <1>6, <3>1, Zenon DEF Last
  <2>2. ASSUME NEW j \in 1 .. ContextSamples
        PROVE  Last(input, ContextSamples)[j] =
                 SampleAt(s, (h + ChunkSamples) - ContextSamples + j)
    <3>1. SubSeq(input, ChunkSamples + 1, ContextSamples + ChunkSamples)[j] =
            input[ChunkSamples + j]
      BY <1>1, <1>2, <1>6
    <3>2. ChunkSamples + j \in 1 .. ContextSamples + ChunkSamples
      BY <1>1
    <3>3. h - ContextSamples + (ChunkSamples + j) = (h + ChunkSamples) - ContextSamples + j
      BY <1>1
    <3>4. QED
      BY <1>7, <2>1, <3>1, <3>2, <3>3
  <2>3. QED
    BY <2>2 DEF ContextAt
<1>10. QED
  BY <1>3, <1>8, <1>9 DEF input

(* The model has heard the stream s up to the part that p holds behind its *)
(* first a samples.                                                        *)
Hearing(st, c, s, p, a) ==
  /\ Len(st) * ChunkSamples + Len(p) = Len(s) + a
  /\ \A k \in 1 .. Len(p) - a : p[a + k] = s[Len(st) * ChunkSamples + k]
  /\ \A i \in 1 .. Len(st) : st[i] = InputAt(s, i)
  /\ ContextAt(s, Len(st) * ChunkSamples, c)

LEMMA HearingStarts ==
  ASSUME NEW s \in Seq(Nat)
  PROVE  Hearing(<<>>, Zeros(ContextSamples), s, s, 0)
<1>1. ContextSamples \in Nat /\ ChunkSamples \in Nat
  BY SizeAssumption
<1>2. Len(<<>>) * ChunkSamples = 0
  BY <1>1
<1>3. ContextAt(s, 0, Zeros(ContextSamples))
  BY <1>1 DEF ContextAt, SampleAt, Zeros
<1>4. QED
  BY <1>2, <1>3 DEF Hearing

(* One more chunk is heard.                                                *)
LEMMA HearingMoves ==
  ASSUME NEW st \in Seq(Seq(Nat)), NEW c \in Seq(Nat), Len(c) = ContextSamples,
         NEW s \in Seq(Nat), NEW p \in Seq(Nat), NEW a \in Nat,
         NEW chunk \in Seq(Nat), Len(chunk) = ChunkSamples,
         Hearing(st, c, s, p, a),
         a + ChunkSamples <= Len(p),
         \A k \in 1 .. ChunkSamples : chunk[k] = p[a + k]
  PROVE  Hearing(Append(st, c \o chunk), Last(c \o chunk, ContextSamples), s, p, a + ChunkSamples)
<1> DEFINE n == Len(st)
           h == n * ChunkSamples
           np == Len(p)
           ns == Len(s)
           input == c \o chunk
           more == Append(st, input)
<1>1. ChunkSamples \in Nat /\ n \in Nat /\ h \in Nat /\ np \in Nat /\ ns \in Nat
  BY SizeAssumption
<1>2. /\ h + np = ns + a /\ a + ChunkSamples <= np
      /\ \A k \in 1 .. np - a : p[a + k] = s[h + k]
      /\ \A i \in 1 .. n : st[i] = InputAt(s, i)
      /\ ContextAt(s, h, c)
  BY DEF Hearing
<1>3. \A k \in 1 .. ChunkSamples : chunk[k] = s[h + k]
  <2>1. \A k \in 1 .. ChunkSamples : k \in 1 .. np - a
    BY <1>1, <1>2
  <2>2. QED
    BY <1>2, <2>1
<1>4. input = InputAt(s, n + 1) /\ ContextAt(s, (n + 1) * ChunkSamples, Last(input, ContextSamples))
  BY <1>1, <1>2, <1>3, NextInput
<1>5. input \in Seq(Nat)
  BY ConcatProperties
<1>6. (n + 1) * ChunkSamples = h + ChunkSamples
  BY <1>1
<1> HIDE DEF input, h, np, ns
<1>7. /\ Len(more) = n + 1 /\ more[n + 1] = input
      /\ \A i \in 1 .. n : more[i] = st[i]
  BY <1>5, AppendProperties
<1> HIDE DEF more, n
<1>8. \A i \in 1 .. n + 1 : more[i] = InputAt(s, i)
  <2>1. \A i \in 1 .. n + 1 : i \in 1 .. n \/ i = n + 1
    BY <1>1
  <2>2. QED
    BY <1>2, <1>4, <1>7, <2>1
<1>9. Len(more) * ChunkSamples = h + ChunkSamples
  BY <1>6, <1>7
<1>10. h + ChunkSamples + np = ns + (a + ChunkSamples)
  <2>1. h + np = ns + a
    BY <1>2
  <2>2. QED
    BY <1>1, <2>1
<1>11. ASSUME NEW k \in 1 .. np - (a + ChunkSamples)
       PROVE  p[(a + ChunkSamples) + k] = s[(h + ChunkSamples) + k]
  <2>1. ChunkSamples + k \in 1 .. np - a
    BY <1>1
  <2>2. p[a + (ChunkSamples + k)] = s[h + (ChunkSamples + k)]
    BY <1>2, <2>1
  <2>3. /\ a + (ChunkSamples + k) = (a + ChunkSamples) + k
        /\ h + (ChunkSamples + k) = (h + ChunkSamples) + k
    BY <1>1
  <2>4. QED
    BY <2>2, <2>3
<1>12. ContextAt(s, h + ChunkSamples, Last(input, ContextSamples))
  BY <1>4, <1>6
<1>13. Hearing(more, Last(input, ContextSamples), s, p, a + ChunkSamples)
  BY <1>7, <1>8, <1>9, <1>10, <1>11, <1>12 DEF Hearing, np, ns
<1>14. QED
  BY <1>13 DEF more, input

(* More audio comes, to the stream and to pending alike.                   *)
LEMMA HearingGrows ==
  ASSUME NEW st \in Seq(Seq(Nat)), NEW c, NEW s \in Seq(Nat), NEW p \in Seq(Nat),
         NEW z \in Seq(Nat), Hearing(st, c, s, p, 0)
  PROVE  Hearing(st, c, s \o z, p \o z, 0)
<1> DEFINE h == Len(st) * ChunkSamples
           r == s \o z
           q == p \o z
           np == Len(p)
           ns == Len(s)
           nz == Len(z)
<1>1. ChunkSamples \in Nat /\ h \in Nat /\ np \in Nat /\ ns \in Nat /\ nz \in Nat
  BY SizeAssumption
<1>2. /\ h + np = ns
      /\ \A k \in 1 .. np : p[k] = s[h + k]
      /\ \A i \in 1 .. Len(st) : st[i] = InputAt(s, i)
      /\ ContextAt(s, h, c)
  <2>1. np - 0 = np /\ ns + 0 = ns /\ \A k \in 1 .. np : 0 + k = k
    OBVIOUS
  <2>2. QED
    BY <2>1 DEF Hearing
<1>3. /\ r \in Seq(Nat) /\ Len(r) = ns + nz
      /\ \A j \in 1 .. ns + nz : r[j] = IF j <= ns THEN s[j] ELSE z[j - ns]
  BY ConcatProperties
<1>4. /\ q \in Seq(Nat) /\ Len(q) = np + nz
      /\ \A j \in 1 .. np + nz : q[j] = IF j <= np THEN p[j] ELSE z[j - np]
  BY ConcatProperties
<1>5. \A i \in 1 .. Len(st) : i \in Nat \ {0} /\ i * ChunkSamples <= h
  <2>1. Len(st) \in Nat
    OBVIOUS
  <2>2. \A i \in 1 .. Len(st) : i \in Nat \ {0} /\ i <= Len(st)
    BY <2>1
  <2>3. QED
    BY <1>1, <2>1, <2>2, TimesMonotone
<1> HIDE DEF h, r, q, np, ns, nz
<1>6. \A place \in 1 .. h : r[place] = s[place]
  <2>1. \A place \in 1 .. h : place \in 1 .. ns + nz /\ place <= ns
    BY <1>1, <1>2
  <2>2. QED
    BY <1>3, <2>1
<1>7. h <= Len(s)
  BY <1>1, <1>2 DEF ns
<1>8. /\ \A i \in Nat \ {0} : i * ChunkSamples <= h => InputAt(r, i) = InputAt(s, i)
      /\ \A kept : ContextAt(s, h, kept) => ContextAt(r, h, kept)
  <2>1. r \in Seq(Nat) /\ h \in Nat
    BY <1>1, <1>3
  <2>2. QED
    BY <1>6, <1>7, <2>1, HeardIsFixed
<1>9. (\A i \in 1 .. Len(st) : st[i] = InputAt(r, i)) /\ ContextAt(r, h, c)
  <2>1. \A i \in 1 .. Len(st) : st[i] = InputAt(s, i)
    BY <1>2
  <2>2. \A i \in 1 .. Len(st) : InputAt(r, i) = InputAt(s, i)
    BY <1>5, <1>8
  <2>3. QED
    BY <1>2, <1>8, <2>1, <2>2
<1>10. ASSUME NEW k \in 1 .. Len(q)
       PROVE  q[k] = r[h + k]
  <2>1. k \in 1 .. np + nz /\ h + k \in 1 .. ns + nz
    BY <1>1, <1>2, <1>4
  <2>2. CASE k <= np
    <3>1. k \in 1 .. np /\ h + k <= ns
      BY <1>1, <1>2, <2>1, <2>2
    <3>2. q[k] = p[k] /\ r[h + k] = s[h + k]
      BY <1>3, <1>4, <2>1, <2>2, <3>1
    <3>3. QED
      BY <1>2, <3>1, <3>2
  <2>3. CASE ~(k <= np)
    <3>1. ~(h + k <= ns) /\ (h + k) - ns = k - np
      <4>1. h + np = ns /\ k \in Nat
        BY <1>2, <2>1
      <4>2. QED
        BY <1>1, <2>3, <4>1
    <3>2. q[k] = z[k - np] /\ r[h + k] = z[(h + k) - ns]
      BY <1>3, <1>4, <2>1, <2>3, <3>1
    <3>3. QED
      BY <3>1, <3>2
  <2>4. QED
    BY <2>2, <2>3
<1>11. h + Len(q) = Len(r) + 0 /\ Len(q) - 0 = Len(q)
  <2>1. h + np = ns /\ Len(q) = np + nz /\ Len(r) = ns + nz
    BY <1>2, <1>3, <1>4
  <2>2. QED
    BY <1>1, <2>1
<1>12. \A k \in 1 .. Len(q) - 0 : q[0 + k] = r[h + k]
  BY <1>1, <1>4, <1>10, <1>11
<1>13. QED
  BY <1>9, <1>11, <1>12 DEF Hearing, h, r, q

(* What is left without the first n samples, place by place.               *)
LEMMA DropPlaces ==
  ASSUME NEW s \in Seq(Nat), NEW n \in Nat, n <= Len(s)
  PROVE  /\ Drop(s, n) \in Seq(Nat) /\ Len(Drop(s, n)) = Len(s) - n
         /\ \A k \in 1 .. Len(s) - n : Drop(s, n)[k] = s[n + k]
<1>1. Drop(s, n) \in Seq(Nat)
  BY DropType
<1>2. Len(SubSeq(s, n + 1, Len(s))) = Len(s) - n
  OBVIOUS
<1>3. \A k \in 1 .. Len(s) - n : SubSeq(s, n + 1, Len(s))[k] = s[n + k]
  OBVIOUS
<1>4. QED
  BY <1>1, <1>2, <1>3 DEF Drop

(* What has been heard leaves pending.                                     *)
LEMMA HearingDrops ==
  ASSUME NEW st \in Seq(Seq(Nat)), NEW c, NEW s \in Seq(Nat), NEW p \in Seq(Nat),
         NEW a \in Nat, a <= Len(p), Hearing(st, c, s, p, a)
  PROVE  Hearing(st, c, s, Drop(p, a), 0) /\ Len(Drop(p, a)) = Len(p) - a
<1> DEFINE h == Len(st) * ChunkSamples
           q == Drop(p, a)
<1>1. ChunkSamples \in Nat /\ h \in Nat /\ Len(p) \in Nat /\ Len(s) \in Nat
  BY SizeAssumption
<1>2. /\ h + Len(p) = Len(s) + a
      /\ \A k \in 1 .. Len(p) - a : p[a + k] = s[h + k]
  BY DEF Hearing
<1>3. Len(q) = Len(p) - a /\ \A k \in 1 .. Len(p) - a : q[k] = p[a + k]
  BY DropPlaces
<1> HIDE DEF h, q
<1>4. h + Len(q) = Len(s) + 0 /\ Len(q) - 0 = Len(p) - a
  BY <1>1, <1>2, <1>3
<1>5. \A k \in 1 .. Len(q) - 0 : q[0 + k] = s[h + k]
  <2>1. \A k \in 1 .. Len(p) - a : 0 + k = k
    BY <1>1
  <2>2. QED
    BY <1>2, <1>3, <1>4, <2>1
<1>6. Hearing(st, c, s, q, 0)
  BY <1>4, <1>5 DEF Hearing, h
<1>7. QED
  BY <1>3, <1>6 DEF q

(* Feed never reads beyond pending, Detect pads less than a chunk, and as  *)
(* long as no call has thrown, pending behind what the call in progress    *)
(* has heard is the rest of the stream.                                    *)
Ahead == IF pc = "feed" THEN consumed ELSE 0
HearInv ==
  /\ pc = "feed" => consumed <= Len(pending)
  /\ pc = "pad" => Len(pending) < ChunkSamples
  /\ failures = 0 => Hearing(state, context, stream, pending, Ahead)

LEMMA CallHeard ==
  ASSUME TypeInv, HearInv, NEW count \in FeedSizes, CallFeed(count) \/ CallDetect(count)
  PROVE  HearInv'
<1>1. count \in Nat /\ Len(stream) \in Nat /\ Len(pending) \in Nat
  BY SizeAssumption DEF TypeInv, TypeOK
<1>2. pc = "idle" /\ pc' = "feed" /\ consumed' = 0
  BY DEF CallFeed, CallDetect
<1>3. CASE CallFeed(count)
  <2> DEFINE samples == Span(Len(stream) + 1, Len(stream) + count)
  <2>1. /\ pending' = pending \o samples /\ stream' = stream \o samples
        /\ UNCHANGED <<state, context, failures>>
    BY <1>3 DEF CallFeed, modelVars
  <2>2. samples \in Seq(Nat)
    BY <1>1, SpanType
  <2> HIDE DEF samples
  <2>3. pending' \in Seq(Nat) /\ Len(pending') \in Nat
    BY <2>1, <2>2, ConcatProperties DEF TypeInv, TypeOK
  <2>4. failures = 0 => Hearing(state, context, stream, pending, 0)
    BY <1>2 DEF HearInv, Ahead
  <2>5. failures = 0 => Hearing(state, context, stream \o samples, pending \o samples, 0)
    BY <2>2, <2>4, HearingGrows DEF TypeInv, TypeOK
  <2>6. Ahead' = 0
    BY <1>2 DEF Ahead
  <2>7. failures' = 0 => Hearing(state, context, stream, pending, Ahead)'
    BY <2>1, <2>5, <2>6
  <2>8. QED
    BY <1>2, <2>3, <2>7 DEF HearInv
<1>4. CASE CallDetect(count)
  <2>1. /\ pending' = Span(1, count) /\ stream' = Span(1, count)
        /\ state' = <<>> /\ context' = Zeros(ContextSamples)
    BY <1>4 DEF CallDetect, Clear
  <2>2. Span(1, count) \in Seq(Nat)
    BY <1>1, SpanType
  <2>3. Hearing(<<>>, Zeros(ContextSamples), Span(1, count), Span(1, count), 0)
    BY <2>2, HearingStarts
  <2>4. Ahead' = 0
    BY <1>2 DEF Ahead
  <2>5. Hearing(state, context, stream, pending, Ahead)'
    BY <2>1, <2>3, <2>4
  <2>6. Len(pending') \in Nat
    BY <2>1, <2>2
  <2>7. QED
    BY <1>2, <2>5, <2>6 DEF HearInv
<1>5. QED
  BY <1>3, <1>4

LEMMA ChunkHeard ==
  ASSUME TypeInv, HearInv, NEW probability \in Probabilities, FeedChunk(probability)
  PROVE  HearInv'
<1> DEFINE chunk == SubSeq(pending, consumed + 1, consumed + ChunkSamples)
           input == context \o chunk
<1>1. /\ pending \in Seq(Nat) /\ stream \in Seq(Nat) /\ state \in Seq(Seq(Nat))
      /\ context \in Seq(Nat) /\ Len(context) = ContextSamples
      /\ consumed \in Nat /\ ChunkSamples \in Nat /\ Len(pending) \in Nat
  BY SizeAssumption DEF TypeInv, TypeOK
<1>2. /\ pc = "feed" /\ pc' = "feed" /\ Len(pending) - consumed >= ChunkSamples
      /\ consumed' = consumed + ChunkSamples
      /\ UNCHANGED <<pending, stream, failures>>
      /\ state' = Append(state, input) /\ context' = Last(input, ContextSamples)
  BY DEF FeedChunk, PredictChunk, inputVars
<1>3. consumed + ChunkSamples <= Len(pending)
  BY <1>1, <1>2
<1>4. /\ chunk \in Seq(Nat) /\ Len(chunk) = ChunkSamples
      /\ \A k \in 1 .. ChunkSamples : chunk[k] = pending[consumed + k]
  <2>1. \A i \in consumed + 1 .. consumed + ChunkSamples : pending[i] \in Nat
    BY <1>1, <1>3
  <2>2. QED
    BY <1>1, <1>3, <2>1, SubSeqProperties
<1> HIDE DEF chunk
<1>5. failures = 0 => Hearing(state, context, stream, pending, consumed)
  BY <1>2 DEF HearInv, Ahead
<1>6. failures = 0 =>
        Hearing(Append(state, context \o chunk), Last(context \o chunk, ContextSamples),
                stream, pending, consumed + ChunkSamples)
  BY <1>1, <1>3, <1>4, <1>5, HearingMoves
<1>7. Ahead' = consumed + ChunkSamples
  BY <1>2 DEF Ahead
<1>8. failures' = 0 => Hearing(state, context, stream, pending, Ahead)'
  BY <1>2, <1>6, <1>7
<1>9. consumed' <= Len(pending')
  BY <1>2, <1>3
<1>10. QED
  BY <1>2, <1>8, <1>9 DEF HearInv

(* The padding makes the rest of the file one chunk of the stream.         *)
LEMMA PaddingHeard ==
  ASSUME TypeInv, HearInv, NEW probability \in Probabilities, PadChunk(probability)
  PROVE  HearInv'
<1> DEFINE zeros == Zeros(ChunkSamples - Len(pending))
           chunk == pending \o zeros
           input == context \o chunk
           r == stream \o zeros
<1>1. /\ pending \in Seq(Nat) /\ stream \in Seq(Nat) /\ state \in Seq(Seq(Nat))
      /\ context \in Seq(Nat) /\ Len(context) = ContextSamples
      /\ ChunkSamples \in Nat /\ Len(pending) \in Nat
  BY SizeAssumption DEF TypeInv, TypeOK
<1>2. /\ pc = "pad" /\ pc' = "idle" /\ pending' = <<>> /\ stream' = r
      /\ UNCHANGED failures
      /\ state' = Append(state, input) /\ context' = Last(input, ContextSamples)
  BY DEF PadChunk, PredictChunk
<1>3. ChunkSamples - Len(pending) \in Nat
  BY <1>1, <1>2 DEF HearInv
<1>4. zeros \in Seq(Nat) /\ Len(zeros) = ChunkSamples - Len(pending)
  BY <1>3, ZerosType
<1> HIDE DEF zeros
<1>5. chunk \in Seq(Nat) /\ Len(chunk) = ChunkSamples
  <2>1. chunk \in Seq(Nat) /\ Len(chunk) = Len(pending) + Len(zeros)
    BY <1>1, <1>4, ConcatProperties
  <2>2. QED
    BY <1>1, <1>4, <2>1
<1>6. r \in Seq(Nat)
  BY <1>1, <1>4, ConcatProperties
<1>7. failures = 0 => Hearing(state, context, stream, pending, 0)
  BY <1>2 DEF HearInv, Ahead
<1>8. failures = 0 => Hearing(state, context, r, chunk, 0)
  BY <1>1, <1>4, <1>7, HearingGrows
<1> HIDE DEF chunk, r
<1>9. 0 + ChunkSamples <= Len(chunk) /\ \A k \in 1 .. ChunkSamples : chunk[k] = chunk[0 + k]
  BY <1>1, <1>5
<1>10. failures = 0 => Hearing(Append(state, context \o chunk),
                               Last(context \o chunk, ContextSamples), r, chunk, 0 + ChunkSamples)
  BY <1>1, <1>5, <1>6, <1>8, <1>9, HearingMoves
<1>11. input \in Seq(Nat) /\ state' \in Seq(Seq(Nat))
  BY <1>1, <1>2, <1>5, ConcatProperties, AppendProperties
<1>12. Drop(chunk, 0 + ChunkSamples) = <<>>
  BY <1>1, <1>5 DEF Drop
<1>13. failures = 0 => Hearing(state', context', r, <<>>, 0)
  <2>1. failures = 0 => Hearing(state', context', r, chunk, 0 + ChunkSamples)
    BY <1>2, <1>10
  <2>2. 0 + ChunkSamples \in Nat /\ 0 + ChunkSamples <= Len(chunk)
    BY <1>1, <1>5
  <2>3. failures = 0 => Hearing(state', context', r, Drop(chunk, 0 + ChunkSamples), 0)
    BY <1>5, <1>6, <1>11, <2>1, <2>2, HearingDrops
  <2>4. QED
    BY <1>12, <2>3
<1>14. Ahead' = 0
  BY <1>2 DEF Ahead
<1>15. failures' = 0 => Hearing(state, context, stream, pending, Ahead)'
  BY <1>2, <1>13, <1>14
<1>16. QED
  BY <1>2, <1>15 DEF HearInv

LEMMA RestKept ==
  ASSUME TypeInv, HearInv, FeedEnd
  PROVE  HearInv'
<1>1. /\ pending \in Seq(Nat) /\ stream \in Seq(Nat) /\ state \in Seq(Seq(Nat))
      /\ consumed \in Nat /\ ChunkSamples \in Nat /\ Len(pending) \in Nat
  BY SizeAssumption DEF TypeInv, TypeOK
<1>2. /\ pc = "feed" /\ pc' # "feed" /\ Len(pending) - consumed < ChunkSamples
      /\ pending' = Drop(pending, consumed)
      /\ UNCHANGED <<state, context, stream, failures>>
  BY DEF FeedEnd, modelVars
<1>3. consumed <= Len(pending)
  BY <1>2 DEF HearInv
<1>4. Len(Drop(pending, consumed)) = Len(pending) - consumed
  BY <1>1, <1>3 DEF Drop
<1>5. failures = 0 => Hearing(state, context, stream, pending, consumed)
  BY <1>2 DEF HearInv, Ahead
<1>6. failures = 0 => Hearing(state, context, stream, Drop(pending, consumed), 0)
  BY <1>1, <1>3, <1>5, HearingDrops
<1>7. Ahead' = 0
  BY <1>2 DEF Ahead
<1>8. failures' = 0 => Hearing(state, context, stream, pending, Ahead)'
  BY <1>2, <1>6, <1>7
<1>9. Len(pending') < ChunkSamples
  BY <1>2, <1>4
<1>10. QED
  BY <1>2, <1>8, <1>9 DEF HearInv

LEMMA HearHolds == Spec => []HearInv
<1>1. Init => HearInv
  <2> SUFFICES ASSUME Init PROVE HearInv
    OBVIOUS
  <2>1. /\ pc = "idle" /\ state = <<>> /\ context = Zeros(ContextSamples)
        /\ stream = <<>> /\ pending = <<>>
    BY DEF Init
  <2>2. Hearing(<<>>, Zeros(ContextSamples), <<>>, <<>>, 0)
    <3>1. <<>> \in Seq(Nat)
      OBVIOUS
    <3>2. QED
      BY <3>1, HearingStarts
  <2>3. QED
    BY <2>1, <2>2 DEF HearInv, Ahead
<1>2. TypeInv /\ HearInv /\ [Next]_vars => HearInv'
  <2> SUFFICES ASSUME TypeInv, HearInv, [Next]_vars
               PROVE  HearInv'
    OBVIOUS
  <2>1. CASE Reset
    <3>1. /\ pc' = "idle" /\ state' = <<>> /\ context' = Zeros(ContextSamples)
          /\ stream' = <<>> /\ pending' = <<>>
      BY <2>1 DEF Reset, Clear, callVars
    <3>2. Hearing(<<>>, Zeros(ContextSamples), <<>>, <<>>, 0)
      <4>1. <<>> \in Seq(Nat)
        OBVIOUS
      <4>2. QED
        BY <4>1, HearingStarts
    <3>3. Ahead' = 0
      BY <3>1 DEF Ahead
    <3>4. Hearing(state, context, stream, pending, Ahead)'
      BY <3>1, <3>2, <3>3
    <3>5. QED
      BY <3>1, <3>4 DEF HearInv
  <2>2. ASSUME NEW count \in FeedSizes, CallFeed(count) \/ CallDetect(count)
        PROVE  HearInv'
    BY <2>2, CallHeard
  <2>3. ASSUME NEW probability \in Probabilities, FeedChunk(probability) \/ PadChunk(probability)
        PROVE  HearInv'
    BY <2>3, ChunkHeard, PaddingHeard
  <2>4. CASE FeedEnd
    BY <2>4, RestKept
  <2>5. CASE PadNothing
    <3>1. pc = "pad" /\ pc' = "idle" /\ UNCHANGED <<state, context, stream, pending, failures>>
      BY <2>5 DEF PadNothing, modelVars, inputVars
    <3>2. Ahead = 0 /\ Ahead' = 0
      BY <3>1 DEF Ahead
    <3>3. QED
      BY <3>1, <3>2 DEF HearInv, Hearing
  <2>6. CASE PredictThrows
    <3>1. pc' = "idle" /\ failures' = failures + 1 /\ failures \in Nat
      BY <2>6 DEF PredictThrows, TypeInv, TypeOK
    <3>2. QED
      BY <3>1 DEF HearInv
  <2>7. CASE UNCHANGED vars
    BY <2>7 DEF vars, callVars, modelVars, inputVars, HearInv, Ahead, Hearing
  <2>8. QED
    BY <2>1, <2>2, <2>3, <2>4, <2>5, <2>6, <2>7 DEF Next
<1>3. QED
  BY <1>1, <1>2, TypeInvariant, PTL DEF Spec

(* However the stream is cut into calls, the model hears it chunk by chunk *)
(* with the right context, and pending is the rest.                        *)
THEOREM StreamIsHeard == Spec => []ModelHearsStream
<1>1. TypeInv /\ HearInv => ModelHearsStream
  <2> SUFFICES ASSUME TypeInv, HearInv, failures = 0
               PROVE  /\ Len(state) * ChunkSamples <= Len(stream)
                      /\ \A i \in 1 .. Len(state) : state[i] = InputOf(i)
                      /\ Drop(stream, Len(state) * ChunkSamples) = Drop(pending, Ahead)
    BY DEF ModelHearsStream, Ahead
  <2> DEFINE h == Len(state) * ChunkSamples
             np == Len(pending)
             ns == Len(stream)
             a == Ahead
  <2>1. /\ pending \in Seq(Nat) /\ stream \in Seq(Nat)
        /\ h \in Nat /\ np \in Nat /\ ns \in Nat /\ a \in Nat
    BY SizeAssumption DEF TypeInv, TypeOK, Ahead
  <2>2. a <= np
    BY <2>1 DEF HearInv, Ahead
  <2>3. /\ h + np = ns + a
        /\ \A k \in 1 .. np - a : pending[a + k] = stream[h + k]
        /\ \A i \in 1 .. Len(state) : state[i] = InputAt(stream, i)
    BY DEF HearInv, Hearing
  <2>4. \A i \in 1 .. Len(state) : state[i] = InputOf(i)
    BY <2>3 DEF InputAt, InputOf, SampleAt
  <2> HIDE DEF h, a
  <2>5. h <= ns /\ ns - h = np - a
    <3> HIDE DEF np, ns
    <3>1. h + np = ns + a
      BY <2>3
    <3>2. QED
      BY <2>1, <2>2, <3>1
  <2>6. Drop(stream, h) = Drop(pending, a)
    <3> DEFINE rest == Drop(stream, h)
               left == Drop(pending, a)
    <3>1. /\ rest \in Seq(Nat) /\ Len(rest) = ns - h
          /\ \A k \in 1 .. ns - h : rest[k] = stream[h + k]
      BY <2>1, <2>5, DropPlaces
    <3>2. /\ left \in Seq(Nat) /\ Len(left) = np - a
          /\ \A k \in 1 .. np - a : left[k] = pending[a + k]
      BY <2>1, <2>2, DropPlaces
    <3> HIDE DEF rest, left, np, ns
    <3>3. Len(rest) = Len(left) /\ \A k \in 1 .. Len(rest) : rest[k] = left[k]
      BY <2>3, <2>5, <3>1, <3>2
    <3>4. rest = left
      BY <3>1, <3>2, <3>3, SeqEqual
    <3>5. QED
      BY <3>4 DEF rest, left
  <2>7. QED
    BY <2>4, <2>5, <2>6 DEF h, a
<1>2. QED
  BY <1>1, HearHolds, TypeInvariant, PTL
=============================================================================
