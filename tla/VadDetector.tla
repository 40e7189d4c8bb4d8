----------------------------- MODULE VadDetector -----------------------------
(***************************************************************************)
(* vad_detector.cc: audio of any length is cut into chunks for the Silero  *)
(* model, which carries a recurrent state and a few context samples from   *)
(* one chunk to the next; a state machine with two thresholds turns the    *)
(* probability of each chunk into "speech is going on".                    *)
(*                                                                         *)
(* One step is one turn of Feed's loop, so a failure of the model between  *)
(* two chunks of a call is a behaviour of the model. A sample is its       *)
(* position in the stream since Reset; 0 is the silence of a cleared       *)
(* context and of the padding. A probability is a whole number of percent  *)
(* that the model may choose freely: nothing is assumed of the network but *)
(* that its state is a function of what it has been given.                 *)
(***************************************************************************)
EXTENDS Integers, Sequences, FiniteSets

CONSTANTS
  Threshold,          \* threshold, in percent
  EndOffset,          \* kEndThresholdOffset, in percent
  Probabilities,      \* what the model may answer
  ChunkSamples,       \* kChunkSamples
  ContextSamples,     \* kContextSamples
  MinSilenceSamples,  \* kMinSilenceSamples
  FeedSizes,          \* bound: numbers of samples per call
  MaxFed,             \* bound: samples fed between two resets
  MaxFailures         \* bound: failures of the model between two resets

ASSUME ThresholdAssumption ==
  /\ Threshold \in 1 .. 99 /\ EndOffset \in Nat
  /\ Probabilities \subseteq 0 .. 100

ASSUME SizeAssumption ==
  /\ ChunkSamples \in Nat \ {0}
  /\ ContextSamples \in 0 .. ChunkSamples
  /\ MinSilenceSamples \in Nat \ {0}
  /\ FeedSizes \subseteq Nat /\ MaxFed \in Nat /\ MaxFailures \in Nat

VARIABLES
  pc,               \* "idle", in Feed's loop, or in Detect's padding
  detecting,        \* the call in progress is Detect
  pending,          \* Impl::pending
  consumed,         \* Feed's local: samples of pending already heard
  context,          \* Impl::context
  state,            \* Impl::state, as the model inputs it is a function of
  speech_active,    \* Impl::speech_active
  silence_samples,  \* Impl::silence_samples
  result,           \* the Result being built
  returned,         \* the Result the last complete call returned
  atEntry,          \* history: speech_active when the call began
  answers,          \* history: the probabilities since Reset, one per chunk
  stream,           \* history: what has been fed or padded since Reset
  failures          \* history: calls that have thrown since Reset

callVars   == <<pc, detecting, consumed, result, returned, atEntry>>
modelVars  == <<context, state, answers>>
speechVars == <<speech_active, silence_samples>>
inputVars  == <<pending, stream, failures>>
vars == <<callVars, modelVars, speechVars, inputVars>>

Zeros(n) == [i \in 1 .. n |-> 0]
Span(from, to) == [i \in 1 .. (to - from + 1) |-> from + i - 1]
Last(s, n) == SubSeq(s, Len(s) - n + 1, Len(s))
Drop(s, n) == SubSeq(s, n + 1, Len(s))

Larger(a, b) == IF a >= b THEN a ELSE b

NoResult == [has_speech |-> FALSE, speech_active |-> FALSE, max_probability |-> 0]

Init ==
  /\ pc = "idle" /\ detecting = FALSE
  /\ consumed = 0 /\ result = NoResult /\ returned = NoResult /\ atEntry = FALSE
  /\ context = Zeros(ContextSamples) /\ state = <<>> /\ answers = <<>>
  /\ speech_active = FALSE /\ silence_samples = 0
  /\ pending = <<>> /\ stream = <<>> /\ failures = 0

-----------------------------------------------------------------------------
(* Mutation: speech_active survives a reset. *)
Clear_KeepsSpeech ==
  /\ context' = Zeros(ContextSamples)
  /\ state' = <<>> /\ answers' = <<>>
  /\ UNCHANGED speech_active /\ silence_samples' = 0
  /\ failures' = 0

(* The assignments of Impl::Reset; what becomes of pending is the caller's. *)
Clear ==
  /\ context' = Zeros(ContextSamples)
  /\ state' = <<>> /\ answers' = <<>>
  /\ speech_active' = FALSE /\ silence_samples' = 0
  /\ failures' = 0

Reset ==
  /\ pc = "idle"
  /\ Clear
  /\ pending' = <<>> /\ stream' = <<>>
  /\ UNCHANGED callVars

CallFeed(count) ==
  LET samples == Span(Len(stream) + 1, Len(stream) + count) IN
  /\ pc = "idle"
  /\ Len(stream) + count <= MaxFed
  /\ pc' = "feed" /\ detecting' = FALSE
  /\ pending' = pending \o samples
  /\ stream' = stream \o samples
  /\ consumed' = 0 /\ result' = NoResult
  /\ atEntry' = speech_active
  /\ UNCHANGED <<modelVars, speechVars, failures, returned>>

(* Detect is Reset, then Feed, then the padding. *)
CallDetect(count) ==
  /\ pc = "idle"
  /\ count <= MaxFed
  /\ pc' = "feed" /\ detecting' = TRUE
  /\ Clear
  /\ pending' = Span(1, count)
  /\ stream' = Span(1, count)
  /\ consumed' = 0 /\ result' = NoResult
  /\ atEntry' = FALSE
  /\ UNCHANGED returned

-----------------------------------------------------------------------------
(* PredictChunk: the context before the chunk, then the chunk; the tail of *)
(* that input is the next context.                                         *)
PredictChunk(chunk, probability) ==
  LET input == context \o chunk IN
  /\ state' = Append(state, input)
  /\ answers' = Append(answers, probability)
  /\ context' = Last(input, ContextSamples)

(* Mutation: silence_samples keeps its value when speech ends.             *)
UpdateSpeechState_KeepsCount(probability) ==
  \/ probability >= Threshold /\ speech_active' = TRUE /\ silence_samples' = 0
  \/ /\ probability < Threshold
     /\ speech_active /\ probability < Threshold - EndOffset
     /\ silence_samples' = silence_samples + ChunkSamples
     /\ speech_active' = (silence_samples' < MinSilenceSamples)
  \/ /\ probability < Threshold
     /\ ~(speech_active /\ probability < Threshold - EndOffset)
     /\ UNCHANGED speechVars

(* Mutation: a chunk of speech does not reset silence_samples.             *)
UpdateSpeechState_NoRestart(probability) ==
  \/ probability >= Threshold /\ speech_active' = TRUE /\ UNCHANGED silence_samples
  \/ /\ probability < Threshold
     /\ speech_active /\ probability < Threshold - EndOffset
     /\ LET silence == silence_samples + ChunkSamples IN
        IF silence >= MinSilenceSamples
        THEN speech_active' = FALSE /\ silence_samples' = 0
        ELSE silence_samples' = silence /\ UNCHANGED speech_active
  \/ /\ probability < Threshold
     /\ ~(speech_active /\ probability < Threshold - EndOffset)
     /\ UNCHANGED speechVars

UpdateSpeechState(probability) ==
  \/ /\ probability >= Threshold
     /\ speech_active' = TRUE
     /\ silence_samples' = 0
  \/ /\ probability < Threshold
     /\ speech_active /\ probability < Threshold - EndOffset
     /\ LET silence == silence_samples + ChunkSamples IN
        IF silence >= MinSilenceSamples
        THEN speech_active' = FALSE /\ silence_samples' = 0
        ELSE silence_samples' = silence /\ UNCHANGED speech_active
  \/ /\ probability < Threshold
     /\ ~(speech_active /\ probability < Threshold - EndOffset)
     /\ UNCHANGED speechVars

Heard(probability) ==
  [result EXCEPT
     !.max_probability = Larger(@, probability),
     !.has_speech = @ \/ probability >= Threshold]

FeedChunk(probability) ==
  /\ pc = "feed"
  /\ Len(pending) - consumed >= ChunkSamples
  /\ PredictChunk(SubSeq(pending, consumed + 1, consumed + ChunkSamples), probability)
  /\ UpdateSpeechState(probability)
  /\ result' = Heard(probability)
  /\ consumed' = consumed + ChunkSamples
  /\ UNCHANGED <<pc, detecting, returned, atEntry, inputVars>>

(* Mutation: the samples that do not fill a chunk are dropped.             *)
FeedEnd_DropsRest ==
  LET final == [result EXCEPT !.speech_active = speech_active] IN
  /\ pc = "feed"
  /\ Len(pending) - consumed < ChunkSamples
  /\ pending' = <<>>
  /\ result' = final
  /\ IF detecting
     THEN pc' = "pad" /\ UNCHANGED returned
     ELSE pc' = "idle" /\ returned' = final
  /\ UNCHANGED <<detecting, consumed, atEntry, modelVars, speechVars, stream, failures>>

(* The loop ends: what has been heard leaves pending, and Feed returns to  *)
(* its caller or to Detect.                                                *)
FeedEnd ==
  LET final == [result EXCEPT !.speech_active = speech_active] IN
  /\ pc = "feed"
  /\ Len(pending) - consumed < ChunkSamples
  /\ pending' = Drop(pending, consumed)
  /\ result' = final
  /\ IF detecting
     THEN pc' = "pad" /\ UNCHANGED returned
     ELSE pc' = "idle" /\ returned' = final
  /\ UNCHANGED <<detecting, consumed, atEntry, modelVars, speechVars, stream, failures>>

(* Detect hears the rest of the file, padded with silence to one chunk. *)
PadChunk(probability) ==
  LET zeros == Zeros(ChunkSamples - Len(pending)) IN
  /\ pc = "pad" /\ pending # <<>>
  /\ PredictChunk(pending \o zeros, probability)
  /\ UpdateSpeechState(probability)
  /\ pending' = <<>>
  /\ stream' = stream \o zeros
  /\ result' = [Heard(probability) EXCEPT !.speech_active = speech_active']
  /\ returned' = result'
  /\ pc' = "idle"
  /\ UNCHANGED <<detecting, consumed, atEntry, failures>>

PadNothing ==
  /\ pc = "pad" /\ pending = <<>>
  /\ returned' = result
  /\ pc' = "idle"
  /\ UNCHANGED <<detecting, consumed, result, atEntry, modelVars, speechVars, inputVars>>

(* session.Run throws before state and context are written: Feed or Detect *)
(* leaves pending as it is, the chunks it has already heard included.      *)
PredictThrows ==
  /\ \/ pc = "feed" /\ Len(pending) - consumed >= ChunkSamples
     \/ pc = "pad" /\ pending # <<>>
  /\ pc' = "idle"
  /\ failures < MaxFailures /\ failures' = failures + 1
  /\ UNCHANGED <<detecting, consumed, result, returned, atEntry, modelVars, speechVars,
                 pending, stream>>

Next ==
  \/ Reset
  \/ \E count \in FeedSizes : CallFeed(count) \/ CallDetect(count)
  \/ \E probability \in Probabilities : FeedChunk(probability) \/ PadChunk(probability)
  \/ FeedEnd \/ PadNothing \/ PredictThrows

Spec == Init /\ [][Next]_vars
-----------------------------------------------------------------------------
Results == [has_speech : BOOLEAN, speech_active : BOOLEAN, max_probability : 0 .. 100]

(* Every variable has its type; silence_samples never reaches the limit at *)
(* which speech ends, and only counts while speech is active.              *)
TypeOK ==
  /\ pc \in {"idle", "feed", "pad"}
  /\ detecting \in BOOLEAN /\ atEntry \in BOOLEAN
  /\ speech_active \in BOOLEAN
  /\ silence_samples \in 0 .. MinSilenceSamples - 1
  /\ silence_samples # 0 => speech_active
  /\ pending \in Seq(Nat) /\ stream \in Seq(Nat)
  /\ context \in Seq(Nat) /\ state \in Seq(Seq(Nat))
  /\ answers \in Seq(0 .. 100)
  /\ consumed \in Nat /\ failures \in Nat
  /\ result \in Results /\ returned \in Results

(* Chunk i of the stream with the context before it; silence comes before  *)
(* the first sample.                                                       *)
InputOf(i) ==
  LET first == (i - 1) * ChunkSamples - ContextSamples IN
  [j \in 1 .. ContextSamples + ChunkSamples |->
     IF first + j >= 1 THEN stream[first + j] ELSE 0]

(* However the caller cuts the stream into calls, the model hears it chunk *)
(* by chunk, each once, in order and with the right context, and pending   *)
(* holds exactly the part it has not heard (unless a call has thrown).     *)
ModelHearsStream ==
  failures = 0 =>
    LET heard == Len(state) * ChunkSamples IN
    /\ heard <= Len(stream)
    /\ \A i \in 1 .. Len(state) : state[i] = InputOf(i)
    /\ Drop(stream, heard) = Drop(pending, IF pc = "feed" THEN consumed ELSE 0)

IsHigh(i) == answers[i] >= Threshold
IsLow(i)  == answers[i] < Threshold - EndOffset

(* Speech is active exactly when, since the last chunk at or above the     *)
(* threshold, fewer low chunks have been heard than kMinSilenceSamples     *)
(* takes, whatever calls they came in.                                     *)
SpeechActiveExact ==
  speech_active <=>
    \E i \in 1 .. Len(answers) :
      /\ IsHigh(i)
      /\ \A j \in i + 1 .. Len(answers) : ~IsHigh(j)
      /\ Cardinality({j \in i + 1 .. Len(answers) : IsLow(j)}) * ChunkSamples
           < MinSilenceSamples

(* has_speech and max_probability of a call agree, and a call that hears   *)
(* the threshold passed never answers silence.                             *)
ResultAgrees ==
  \A r \in {result, returned} : r.has_speech <=> r.max_probability >= Threshold

(* The network falls silent: after enough chunks of probability 0, speech  *)
(* is over, whatever the threshold (the comment at vad_detector.cc:88).    *)
SilenceEndsSpeech ==
  \A n \in 1 .. Len(answers) :
    n * ChunkSamples >= MinSilenceSamples /\ (\A i \in 0 .. n - 1 : answers[Len(answers) - i] = 0)
      => ~speech_active

(* Speech ends only after low probability in every chunk of the last 100   *)
(* ms, without a break (the comment at vad_detector.cc:88).                *)
EndsAfterContiguousSilence ==
  [][speech_active /\ ~speech_active' /\ answers' # <<>> =>
       \A i \in 1 .. Len(answers') :
         (Len(answers') - i) * ChunkSamples < MinSilenceSamples
           => answers'[i] < Threshold - EndOffset]_vars

(* VadDetector implements the gate its callers rely on. *)
Gate == INSTANCE SpeechGate WITH
  active <- IF pc = "idle" THEN speech_active ELSE atEntry,
  voice <- [has_speech |-> returned.has_speech, speech_active |-> returned.speech_active]
GateKept == Gate!Spec
=============================================================================
