-------------------------- MODULE FeatureExtractor --------------------------
(***************************************************************************)
(* kws_engine.cc, FeatureExtractor::Compute: a waveform is cut into        *)
(* frames, and LFR stacks LfrM of them at every LfrN-th frame. The rows go *)
(* to the acoustic model; KwsEngine calls and is called back from here.    *)
(*                                                                         *)
(* A frame of the filter bank is its number; the vector out is a function  *)
(* from slots <<row, place>> of kMelBins values each to the frame they     *)
(* were computed from. CMVN changes the values of a slot, not their frame. *)
(***************************************************************************)
EXTENDS Integers, Sequences

CONSTANTS
  WindowSize,  \* samples in a frame: 25 ms
  WindowShift, \* samples between two frames: 10 ms
  LfrM,        \* kLfrM
  LfrN,        \* kLfrN
  MaxSamples   \* bound: length of a waveform

ASSUME SizeAssumption ==
  /\ WindowSize \in Nat \ {0} /\ WindowShift \in Nat \ {0}
  /\ LfrM \in Nat \ {0} /\ LfrN \in Nat \ {0} /\ MaxSamples \in Nat

VARIABLES
  pc,        \* the engine's place; here "call", "stack", "computed", and
             \* "run", when the model is asked about the rows
  samples,   \* waveform.size()
  t, m,      \* the loops of ApplyLfrAndCmvn
  out,       \* the feature rows written so far
  num_frames \* what Compute returns through its argument

rowVars == <<samples, t, m, out, num_frames>>

(* The locals of a call of Compute for num_samples samples. *)
Begin(num_samples) ==
  /\ samples' = num_samples
  /\ t' = 0 /\ m' = 0 /\ out' = <<>> /\ num_frames' = 0

(* Mutation: frames that only begin in the waveform are counted too.       *)
NumFrames_RoundsUp(num_samples) ==
  1 + num_samples \div WindowShift

(* kaldi-native-fbank with snip_edges: frames lie wholly in the waveform.  *)
NumFrames(num_samples) ==
  IF num_samples < WindowSize THEN 0 ELSE 1 + (num_samples - WindowSize) \div WindowShift

n_fbank == NumFrames(samples)

(* Mutation: the last, incomplete stack is not counted.                    *)
n_lfr_RoundedDown == n_fbank \div LfrN

n_lfr == (n_fbank + LfrN - 1) \div LfrN

left_pad == (LfrM - 1) \div 2

(* Compute: without a frame the result is empty.                           *)
ComputeNothing ==
  /\ pc = "call" /\ n_fbank <= 0
  /\ num_frames' = 0
  /\ pc' = "computed"
  /\ UNCHANGED <<samples, t, m, out>>

Compute ==
  /\ pc = "call" /\ n_fbank > 0
  /\ pc' = "stack"
  /\ UNCHANGED <<samples, t, m, out, num_frames>>

Clamp(x, low, high) == IF x < low THEN low ELSE IF x > high THEN high ELSE x

(* Mutation: the stack begins at its frame instead of centring on it.      *)
Source_NotCentred(row, place) == Clamp(row * LfrN + place, 0, n_fbank - 1)

Source(row, place) == Clamp(row * LfrN + place - left_pad, 0, n_fbank - 1)

(* One turn of the inner loop of ApplyLfrAndCmvn, with the loops' ends.    *)
Stack ==
  /\ pc = "stack" /\ t < n_lfr
  /\ out' = [slot \in DOMAIN out \union {<<t, m>>} |->
               IF slot = <<t, m>> THEN Source(t, m) ELSE out[slot]]
  /\ IF m + 1 < LfrM
     THEN m' = m + 1 /\ t' = t
     ELSE m' = 0 /\ t' = t + 1
  /\ UNCHANGED <<pc, samples, num_frames>>

StackEnd ==
  /\ pc = "stack" /\ t = n_lfr
  /\ num_frames' = n_lfr
  /\ pc' = "computed"
  /\ UNCHANGED <<samples, t, m, out>>

ExtractorSteps == ComputeNothing \/ Compute \/ Stack \/ StackEnd
-----------------------------------------------------------------------------
FirstSampleOfFrame(frame) == frame * WindowShift

(* Every frame read lies wholly in the waveform, for each slot written so  *)
(* far: the clamped index never leaves the frames there are.               *)
FramesInWaveform ==
  \A slot \in DOMAIN out :
    /\ out[slot] >= 0
    /\ FirstSampleOfFrame(out[slot]) + WindowSize <= samples

(* The reference for LFR: the frames between copies of the first one on    *)
(* the left and of the last one on the right, cut every LfrN frames.       *)
Padded ==
  [i \in 1 .. left_pad |-> 0]
    \o [i \in 1 .. n_fbank |-> i - 1]
    \o [i \in 1 .. LfrN + LfrM |-> n_fbank - 1]

(* What the acoustic model is given is the padded sequence of frames, cut  *)
(* every LfrN frames into stacks of LfrM, each slot of every row written;  *)
(* and it is only asked when the waveform holds a frame.                   *)
RowsAreStacks ==
  pc \in {"computed", "run"} =>
    /\ pc = "run" => samples >= WindowSize /\ num_frames > 0
    /\ DOMAIN out = (0 .. num_frames - 1) \X (0 .. LfrM - 1)
    /\ \A slot \in DOMAIN out : out[slot] = Padded[slot[1] * LfrN + slot[2] + 1]

(* No audio is left out: every place of the waveform that lies in a frame  *)
(* reaches the model, and fewer samples than a shift are behind the last.  *)
AudioHeard ==
  pc = "computed" /\ num_frames > 0 =>
    \A s \in 0 .. samples - WindowShift :
      WindowShift <= WindowSize =>
        \E slot \in DOMAIN out :
          FirstSampleOfFrame(out[slot]) <= s /\ s < FirstSampleOfFrame(out[slot]) + WindowSize
=============================================================================
