--------------------------- MODULE KwsEngineProofs ---------------------------
(***************************************************************************)
(* Theorems about KwsEngine for every size of frames and stacks, every     *)
(* CMVN file, every shape of the network's answer and any number of calls. *)
(* ObjectInv follows the objects of ONNX Runtime, RowInv the rows.         *)
(***************************************************************************)
EXTENDS KwsEngine, SequenceTheorems, TLAPS

Working == {"idle", "call", "stack", "computed", "run", "check", "decode"}

(* Which objects exist where; the tensor of the call in progress is the    *)
(* one in outs as soon as the network has answered.                        *)
ObjectInv ==
  /\ pc \in Working \union {"construct", "cmvn", "destroy", "gone"}
  /\ calls \in Nat /\ outs \in Nat /\ shape_out \in {<<>>} \union Shapes
  /\ alive \subseteq {"env", "session", "outs"}
  /\ (outs # 0) <=> ("outs" \in alive)
  /\ "outs" \in alive => "session" \in alive
  /\ "session" \in alive => "env" \in alive
  /\ pc \in Working \union {"cmvn"} => "session" \in alive
  /\ pc = "construct" => alive = {}
  /\ pc = "gone" => alive = {}
  /\ pc \in Working \ {"idle"} => calls > 0
  /\ pc \in {"check", "decode"} => outs = calls /\ shape_out \in Shapes
  /\ pc = "decode" =>
       /\ logits = [of |-> outs, frames |-> shape_out[2]]
       /\ Len(shape_out) = 3 /\ shape_out[3] = VocabSize

LEMMA ObjectsHold == Spec => []ObjectInv
<1>1. Init => ObjectInv
  BY DEF Init, ObjectInv, Working
<1>2. ObjectInv /\ [Next]_vars => ObjectInv'
  <2> SUFFICES ASSUME ObjectInv, [Next]_vars
               PROVE  ObjectInv'
    OBVIOUS
  <2> USE DEF ObjectInv, Working, rowVars, cmvnVars, tensorVars
  <2>1. CASE OpenSession \/ LoadCmvnLine \/ LoadEnd
    BY <2>1 DEF OpenSession, LoadCmvnLine, LoadEnd, Refuse
  <2>2. CASE CallInfer
    BY <2>2, EngineAssumption DEF CallInfer, Begin
  <2>3. CASE Extract
    BY <2>3 DEF Extract, ExtractorSteps, ComputeNothing, Compute, Stack, StackEnd
  <2>4. CASE LookAtFrames
    BY <2>4 DEF LookAtFrames, Return
  <2>5. CASE RunSession
    <3>1. /\ pc = "run" /\ calls \in Nat /\ calls > 0 /\ "session" \in alive
          /\ UNCHANGED <<logits, calls>>
      BY <2>5 DEF RunSession
    <3>2. CASE pc' = "destroy" /\ UNCHANGED <<outs, shape_out, alive>>
      BY <3>1, <3>2
    <3>3. CASE /\ outs' = calls /\ shape_out' \in Shapes
               /\ alive' = alive \union {"outs"}
               /\ pc' = "check"
      <4>1. outs' \in Nat /\ outs' # 0 /\ "outs" \in alive' /\ calls' = calls
        BY <3>1, <3>3
      <4>2. /\ alive' \subseteq {"env", "session", "outs"}
            /\ "session" \in alive' /\ "env" \in alive'
        BY <3>1, <3>3
      <4>3. QED
        BY <3>1, <3>3, <4>1, <4>2
    <3>4. QED
      BY <2>5, <3>2, <3>3 DEF RunSession
  <2>6. CASE RunOnnxEnd \/ RunOnnxThrow
    BY <2>6 DEF RunOnnxEnd, RunOnnxThrow, ShapeFits
  <2>7. CASE Decode \/ CallDestroy \/ Gone \/ UNCHANGED vars
    BY <2>7 DEF Decode, Return, CallDestroy, Gone, vars
  <2>8. CASE Release
    <3>1. PICK member \in alive :
            /\ \A other \in alive : Declared[other] <= Declared[member]
            /\ alive' = alive \ {member}
            /\ outs' = IF member = "outs" THEN 0 ELSE outs
      BY <2>8 DEF Release
    <3>2. Declared["env"] = 1 /\ Declared["session"] = 2 /\ Declared["outs"] = 3
      BY DEF Declared
    <3>3. /\ member = "env" => alive = {"env"}
          /\ member = "session" => "outs" \notin alive
      <4>1. "session" \in alive => member # "env"
        BY <3>1, <3>2
      <4>2. "outs" \in alive => member # "session"
        BY <3>1, <3>2
      <4>3. member \in alive
        BY <3>1
      <4>4. QED
        BY <4>1, <4>2, <4>3
    <3>4. /\ pc = "destroy" /\ pc' = IF alive' = {} THEN "gone" ELSE "destroy"
          /\ UNCHANGED <<calls, shape_out>>
      BY <2>8 DEF Release
    <3>5. CASE member = "outs"
      BY <3>1, <3>4, <3>5
    <3>6. CASE member = "session"
      <4>1. "outs" \notin alive /\ "outs" \notin alive' /\ "session" \notin alive'
        BY <3>1, <3>3, <3>6
      <4>2. outs' = outs /\ alive' \subseteq alive
        BY <3>1, <3>6
      <4>3. QED
        BY <3>4, <4>1, <4>2
    <3>7. CASE member = "env"
      BY <3>1, <3>3, <3>4, <3>7
    <3>8. QED
      BY <3>1, <3>5, <3>6, <3>7
  <2> HIDE DEF ObjectInv, Working, rowVars, cmvnVars, tensorVars
  <2>9. QED
    BY <2>1, <2>2, <2>3, <2>4, <2>5, <2>6, <2>7, <2>8 DEF Next
<1>3. QED
  BY <1>1, <1>2, PTL DEF Spec

(* On every way out the tensors go before the session, and the session     *)
(* before its environment.                                                 *)
THEOREM OrderOfRelease == Spec => []ReleasedInOrder
<1>1. ObjectInv => ReleasedInOrder
  BY DEF ObjectInv, ReleasedInOrder
<1>2. QED
  BY <1>1, ObjectsHold, PTL

(* The decoder reads the tensor of this call, which still exists, within   *)
(* its size.                                                               *)
THEOREM TensorReadable == Spec => []LogitsReadable
<1>1. ObjectInv => LogitsReadable
  <2> SUFFICES ASSUME ObjectInv, pc = "decode"
               PROVE  /\ logits.of = calls /\ outs = logits.of /\ "outs" \in alive
                      /\ logits.frames * VocabSize = shape_out[1] * shape_out[2] * shape_out[3]
    BY DEF LogitsReadable
  <2>1. /\ logits = [of |-> outs, frames |-> shape_out[2]] /\ outs = calls /\ outs # 0
        /\ "outs" \in alive
        /\ shape_out \in Shapes /\ Len(shape_out) = 3 /\ shape_out[3] = VocabSize
    BY DEF ObjectInv, Working
  <2>2. shape_out[1] = 1 /\ shape_out[2] \in Nat
    <3>1. shape_out \in Seq(Nat) /\ (Len(shape_out) = 3 => shape_out[1] = 1)
      BY <2>1, EngineAssumption
    <3>2. Len(shape_out) = 3 /\ 2 \in 1 .. Len(shape_out)
      BY <2>1
    <3>3. shape_out[2] \in Nat
      BY <3>1, <3>2, ElementOfSeq
    <3>4. QED
      BY <3>1, <3>2, <3>3
  <2>3. shape_out[1] * shape_out[2] = shape_out[2]
    BY <2>2
  <2>4. logits.of = outs /\ logits.frames = shape_out[2]
    BY <2>1
  <2>5. logits.frames * VocabSize = shape_out[1] * shape_out[2] * shape_out[3]
    BY <2>1, <2>3, <2>4
  <2>6. QED
    BY <2>1, <2>4, <2>5
<1>2. QED
  BY <1>1, ObjectsHold, PTL
-----------------------------------------------------------------------------
(* How far the CMVN file has been understood when rows are computed.       *)
FileInv ==
  /\ pc \in {"construct", "cmvn"} => DOMAIN out = {}
  /\ pc \in Working => CmvnComplete
  /\ DOMAIN out # {} => CmvnComplete

(* Where the rows of features stand: the slots written so far, each with   *)
(* its source, and a frame in the waveform as soon as there is one.        *)
RowInv ==
  /\ samples \in Nat /\ num_frames \in Nat /\ t \in Nat /\ m \in 0 .. LfrM - 1
  /\ DOMAIN out \subseteq (0 .. t) \X (0 .. LfrM - 1)
  /\ \A slot \in DOMAIN out : out[slot] = Source(slot[1], slot[2])
  /\ DOMAIN out # {} => samples >= WindowSize
  /\ pc \in {"construct", "cmvn"} => ~detected
  /\ pc = "call" => DOMAIN out = {} /\ t = 0 /\ m = 0 /\ num_frames = 0
  /\ pc = "stack" => samples >= WindowSize /\ num_frames = 0
  /\ pc = "computed" /\ num_frames > 0 => samples >= WindowSize
  /\ pc \in {"run", "check", "decode"} => samples >= WindowSize
  /\ pc = "idle" /\ detected => samples >= WindowSize

(* Frames exist exactly in a waveform that holds one, and then the last    *)
(* one ends within it.                                                     *)
LEMMA FramesCounted ==
  ASSUME samples \in Nat
  PROVE  /\ n_fbank \in Nat
         /\ (n_fbank > 0) <=> (samples >= WindowSize)
         /\ n_fbank > 0 => (n_fbank - 1) * WindowShift + WindowSize <= samples
<1>1. WindowSize \in Nat /\ WindowSize > 0 /\ WindowShift \in Nat /\ WindowShift > 0
  BY SizeAssumption
<1>2. CASE samples < WindowSize
  <2>1. n_fbank = 0
    BY <1>2 DEF n_fbank, NumFrames
  <2>2. QED
    BY <1>1, <1>2, <2>1
<1>3. CASE samples >= WindowSize
  <2> DEFINE rest == samples - WindowSize
             q == rest \div WindowShift
  <2>1. rest \in Nat
    BY <1>1, <1>3
  <2>2. n_fbank = 1 + q
    BY <1>1, <1>3 DEF n_fbank, NumFrames
  <2>3. q \in Nat /\ q * WindowShift <= rest
    <3> HIDE DEF rest
    <3>1. QED
      BY <1>1, <2>1
  <2> HIDE DEF q
  <2>4. n_fbank \in Nat /\ n_fbank > 0 /\ n_fbank - 1 = q
    BY <2>2, <2>3
  <2>5. q * WindowShift + WindowSize <= samples
    <3> DEFINE p == q * WindowShift
    <3>1. p \in Int /\ p <= samples - WindowSize
      BY <1>1, <2>3
    <3> HIDE DEF p
    <3>2. p + WindowSize <= samples
      BY <1>1, <3>1
    <3>3. QED
      BY <3>2 DEF p
  <2>6. QED
    BY <1>3, <2>4, <2>5
<1>4. QED
  BY <1>1, <1>2, <1>3

(* The index of a frame is never outside the frames there are.             *)
LEMMA SourceClamped ==
  ASSUME NEW row \in Nat, NEW place \in Nat, n_fbank \in Nat, n_fbank > 0
  PROVE  Source(row, place) \in 0 .. n_fbank - 1
<1>1. LfrM \in Nat /\ LfrN \in Nat /\ left_pad \in Int /\ row * LfrN \in Int
  BY SizeAssumption DEF left_pad
<1> HIDE DEF left_pad, n_fbank
<1>2. row * LfrN + place - left_pad \in Int
  BY <1>1
<1>3. QED
  BY <1>2 DEF Source, Clamp

(* One turn of the inner loop writes one slot, and moves on to the next.   *)
LEMMA StackKeepsRows ==
  ASSUME RowInv, Stack, UNCHANGED detected
  PROVE  RowInv'
<1>1. /\ pc = "stack" /\ pc' = "stack" /\ samples' = samples /\ num_frames' = num_frames
      /\ out' = [slot \in DOMAIN out \union {<<t, m>>} |->
                   IF slot = <<t, m>> THEN Source(t, m) ELSE out[slot]]
      /\ IF m + 1 < LfrM THEN m' = m + 1 /\ t' = t ELSE m' = 0 /\ t' = t + 1
  BY DEF Stack
<1>2. /\ samples \in Nat /\ num_frames \in Nat /\ t \in Nat /\ m \in 0 .. LfrM - 1
      /\ DOMAIN out \subseteq (0 .. t) \X (0 .. LfrM - 1)
      /\ \A slot \in DOMAIN out : out[slot] = Source(slot[1], slot[2])
      /\ samples >= WindowSize /\ num_frames = 0
  BY <1>1 DEF RowInv
<1>3. /\ t' \in Nat /\ t <= t' /\ m' \in 0 .. LfrM - 1
  BY <1>1, <1>2, SizeAssumption
<1>4. DOMAIN out' = DOMAIN out \union {<<t, m>>}
  BY <1>1
<1>5. DOMAIN out' \subseteq (0 .. t') \X (0 .. LfrM - 1)
  <2>1. 0 .. t \subseteq 0 .. t'
    BY <1>2, <1>3
  <2>2. <<t, m>> \in (0 .. t) \X (0 .. LfrM - 1)
    BY <1>2
  <2>3. QED
    BY <1>2, <1>4, <2>1, <2>2
<1>6. \A slot \in DOMAIN out' : out'[slot] = Source(slot[1], slot[2])'
  <2> SUFFICES ASSUME NEW slot \in DOMAIN out'
               PROVE  out'[slot] = Source(slot[1], slot[2])'
    OBVIOUS
  <2>1. Source(slot[1], slot[2])' = Source(slot[1], slot[2])
    BY <1>1 DEF Source, n_fbank
  <2>2. CASE slot = <<t, m>>
    BY <1>1, <1>4, <2>1, <2>2
  <2>3. CASE slot # <<t, m>>
    BY <1>1, <1>2, <1>4, <2>1, <2>3
  <2>4. QED
    BY <2>2, <2>3
<1>7. QED
  BY <1>1, <1>2, <1>3, <1>5, <1>6 DEF RowInv

LEMMA RowsHold == Spec => []RowInv
<1>1. Init => RowInv
  BY SizeAssumption DEF Init, RowInv
<1>2. RowInv /\ [Next]_vars => RowInv'
  <2> SUFFICES ASSUME RowInv, [Next]_vars
               PROVE  RowInv'
    OBVIOUS
  <2>1. ASSUME samples' = samples
        PROVE  \A row, place : Source(row, place)' = Source(row, place)
    BY <2>1 DEF Source, n_fbank
  <2>2. ASSUME UNCHANGED rowVars,
               pc' \notin {"call", "stack", "computed"} \/ pc' = pc,
               pc' \in {"run", "check", "decode"} =>
                 pc \in {"run", "check", "decode"} \/ (pc = "computed" /\ num_frames > 0),
               pc' = "idle" /\ detected' => samples >= WindowSize,
               pc' \in {"construct", "cmvn"} => ~detected'
        PROVE  RowInv'
    <3>1. UNCHANGED <<samples, t, m, out, num_frames>>
      BY <2>2 DEF rowVars
    <3>2. \A slot \in DOMAIN out' : out'[slot] = Source(slot[1], slot[2])'
      BY <2>1, <3>1 DEF RowInv
    <3>3. QED
      BY <2>2, <3>1, <3>2 DEF RowInv
  <2>3. CASE OpenSession \/ LoadCmvnLine \/ LoadEnd
    <3>1. /\ UNCHANGED rowVars /\ UNCHANGED detected
          /\ pc \in {"construct", "cmvn"} /\ pc' \in {"cmvn", "destroy", "idle"}
      BY <2>3 DEF OpenSession, LoadCmvnLine, LoadEnd, Refuse
    <3>2. pc' = "idle" => ~detected
      BY <3>1 DEF RowInv
    <3>3. pc' \in {"construct", "cmvn"} => ~detected'
      BY <3>1 DEF RowInv
    <3>4. QED
      BY <2>2, <3>1, <3>2, <3>3
  <2>4. CASE CallInfer
    <3>1. /\ pc' = "call" /\ samples' \in 0 .. MaxSamples /\ UNCHANGED detected
          /\ t' = 0 /\ m' = 0 /\ out' = <<>> /\ num_frames' = 0
      BY <2>4 DEF CallInfer, Begin
    <3>2. DOMAIN out' = {}
      BY <3>1
    <3>3. QED
      BY <3>1, <3>2, SizeAssumption DEF RowInv
  <2>5. CASE Extract
    <3>1. UNCHANGED detected
      BY <2>5 DEF Extract
    <3>2. CASE Stack
      BY <3>1, <3>2, StackKeepsRows
    <3>3. CASE ComputeNothing \/ Compute \/ StackEnd
      <4>1. /\ UNCHANGED <<samples, t, m, out>>
            /\ \/ pc = "call" /\ pc' = "computed" /\ num_frames' = 0
               \/ pc = "call" /\ pc' = "stack" /\ num_frames' = num_frames /\ n_fbank > 0
               \/ pc = "stack" /\ pc' = "computed" /\ num_frames' = t
        BY <3>3 DEF ComputeNothing, Compute, StackEnd
      <4>2. pc' = "stack" => samples >= WindowSize /\ num_frames' = 0
        BY <4>1, FramesCounted DEF RowInv
      <4>3. pc' = "computed" /\ num_frames' > 0 => samples >= WindowSize
        BY <4>1 DEF RowInv
      <4>4. num_frames' \in Nat
        BY <4>1 DEF RowInv
      <4>5. \A slot \in DOMAIN out' : out'[slot] = Source(slot[1], slot[2])'
        BY <2>1, <4>1 DEF RowInv
      <4>6. QED
        BY <4>1, <4>2, <4>3, <4>4, <4>5, <3>1 DEF RowInv
    <3>4. QED
      BY <2>5, <3>2, <3>3 DEF Extract, ExtractorSteps
  <2>6. CASE LookAtFrames \/ RunSession \/ RunOnnxEnd \/ RunOnnxThrow \/ Decode
    <3>1. /\ UNCHANGED rowVars
          /\ pc \in {"computed", "run", "check", "decode"}
          /\ pc' \in {"idle", "run", "check", "decode", "destroy"}
          /\ pc = "computed" => (pc' = "idle" /\ ~detected') \/ (pc' = "run" /\ num_frames > 0)
      BY <2>6 DEF LookAtFrames, RunSession, RunOnnxEnd, RunOnnxThrow, Decode, Return, RowInv
    <3>2. pc' = "idle" /\ detected' => samples >= WindowSize
      BY <3>1 DEF RowInv
    <3>3. QED
      BY <2>2, <3>1, <3>2
  <2>7. CASE CallDestroy \/ Release \/ Gone \/ UNCHANGED vars
    <3>1. /\ UNCHANGED rowVars /\ UNCHANGED detected
          /\ pc' = pc \/ pc' \in {"destroy", "gone"}
      BY <2>7 DEF CallDestroy, Release, Gone, vars
    <3>2. pc' = "idle" /\ detected' => samples >= WindowSize
      BY <3>1 DEF RowInv
    <3>3. pc' \in {"construct", "cmvn"} => ~detected'
      BY <3>1 DEF RowInv
    <3>4. QED
      BY <2>2, <3>1, <3>2, <3>3
  <2>8. QED
    BY <2>3, <2>4, <2>5, <2>6, <2>7 DEF Next
<1>3. QED
  BY <1>1, <1>2, PTL DEF Spec

(* A keyword is heard only in a waveform that holds a frame.               *)
THEOREM FrameBeforeKeyword == Spec => []KeywordNeedsFrame
<1>1. RowInv => KeywordNeedsFrame
  BY DEF RowInv, KeywordNeedsFrame
<1>2. QED
  BY <1>1, RowsHold, PTL

(* No row reads a frame that begins before the waveform or ends behind it. *)
THEOREM FramesExist == Spec => []FramesInWaveform
<1>1. RowInv => FramesInWaveform
  <2> SUFFICES ASSUME RowInv, NEW slot \in DOMAIN out
               PROVE  out[slot] >= 0 /\ FirstSampleOfFrame(out[slot]) + WindowSize <= samples
    BY DEF FramesInWaveform
  <2>1. /\ samples \in Nat /\ samples >= WindowSize
        /\ out[slot] = Source(slot[1], slot[2])
        /\ slot[1] \in Nat /\ slot[2] \in Nat
    BY SizeAssumption DEF RowInv
  <2>2. /\ n_fbank \in Nat /\ n_fbank > 0
        /\ (n_fbank - 1) * WindowShift + WindowSize <= samples
    BY <2>1, FramesCounted
  <2> DEFINE frame == out[slot]
             last == n_fbank - 1
  <2>3. frame \in 0 .. last
    BY <2>1, <2>2, SourceClamped
  <2>4. last \in Nat /\ last * WindowShift + WindowSize <= samples
    BY <2>2
  <2> HIDE DEF frame, last
  <2>5. frame * WindowShift <= last * WindowShift
    <3>1. PICK d \in Nat : last = frame + d
      BY <2>3, <2>4
    <3>2. (frame + d) * WindowShift = frame * WindowShift + d * WindowShift
      BY <2>3, <3>1, SizeAssumption
    <3>3. d * WindowShift \in Nat /\ frame * WindowShift \in Int
      BY <2>3, <3>1, SizeAssumption
    <3>4. QED
      BY <3>1, <3>2, <3>3
  <2>6. frame * WindowShift \in Int /\ last * WindowShift \in Int /\ WindowSize \in Int
    BY <2>3, <2>4, SizeAssumption
  <2>7. frame * WindowShift + WindowSize <= samples
    BY <2>1, <2>4, <2>5, <2>6
  <2>8. frame >= 0
    BY <2>3
  <2>9. QED
    BY <2>7, <2>8 DEF frame, FirstSampleOfFrame
<1>2. QED
  BY <1>1, RowsHold, PTL

LEMMA FileHolds == Spec => []FileInv
<1> USE DEF FileInv, Working, cmvnVars, tensorVars, rowVars
<1>1. Init => FileInv
  BY DEF Init
<1>2. FileInv /\ [Next]_vars => FileInv'
  <2> SUFFICES ASSUME FileInv, [Next]_vars
               PROVE  FileInv'
    OBVIOUS
  <2>1. ASSUME UNCHANGED <<means_, scales_>>
        PROVE  CmvnComplete' = CmvnComplete
    BY <2>1 DEF CmvnComplete
  <2>2. CASE OpenSession \/ LoadCmvnLine
    BY <2>2 DEF OpenSession, LoadCmvnLine, Refuse
  <2>3. CASE LoadEnd
    BY <2>1, <2>3 DEF LoadEnd, Refuse
  <2>4. CASE CallInfer
    BY <2>1, <2>4 DEF CallInfer, Begin
  <2>5. CASE Extract
    BY <2>1, <2>5 DEF Extract, ExtractorSteps, ComputeNothing, Compute, Stack, StackEnd
  <2>6. CASE LookAtFrames \/ RunSession \/ RunOnnxEnd \/ RunOnnxThrow \/ Decode
    BY <2>1, <2>6 DEF LookAtFrames, RunSession, RunOnnxEnd, RunOnnxThrow, Decode, Return
  <2>7. CASE CallDestroy \/ Release \/ Gone \/ UNCHANGED vars
    BY <2>1, <2>7 DEF CallDestroy, Release, Gone, vars
  <2>8. QED
    BY <2>2, <2>3, <2>4, <2>5, <2>6, <2>7 DEF Next
<1>3. QED
  BY <1>1, <1>2, PTL DEF Spec

(* Every value of every row has its mean and its scale.                    *)
THEOREM RowsNormalised == Spec => []CmvnCoversRows
<1>1. RowInv /\ FileInv => CmvnCoversRows
  <2> SUFFICES ASSUME RowInv, FileInv, NEW slot \in DOMAIN out
               PROVE  (slot[2] + 1) * MelBins <= means_ /\ (slot[2] + 1) * MelBins <= scales_
    BY DEF CmvnCoversRows
  <2>1. slot[2] \in 0 .. LfrM - 1
    BY DEF RowInv
  <2>2. means_ = MelBins * LfrM /\ scales_ = MelBins * LfrM
    BY DEF FileInv, CmvnComplete, kFeatureDim
  <2>3. PICK d \in Nat : LfrM = slot[2] + 1 + d
    <3>1. LfrM \in Nat
      BY SizeAssumption
    <3>2. LfrM - (slot[2] + 1) \in Nat
      BY <2>1, <3>1
    <3>3. LfrM = slot[2] + 1 + (LfrM - (slot[2] + 1))
      BY <2>1, <3>1
    <3>4. QED
      BY <3>2, <3>3
  <2>4. MelBins * (slot[2] + 1 + d) = (slot[2] + 1) * MelBins + d * MelBins
    BY <2>1, <2>3, EngineAssumption
  <2>5. d * MelBins \in Nat /\ (slot[2] + 1) * MelBins \in Int
    BY <2>1, <2>3, EngineAssumption
  <2>6. QED
    BY <2>2, <2>3, <2>4, <2>5
<1>2. QED
  BY <1>1, RowsHold, FileHolds, PTL
-----------------------------------------------------------------------------
(* The rows are written in order, each from its first place to its last.   *)
WrittenInv ==
  /\ pc \in {"call", "stack", "computed", "run"} =>
       DOMAIN out = {slot \in Nat \X (0 .. LfrM - 1) : slot[1] < t \/ (slot[1] = t /\ slot[2] < m)}
  /\ pc = "stack" => t <= n_lfr /\ (t = n_lfr => m = 0)
  /\ pc \in {"computed", "run"} =>
       m = 0 /\ t = num_frames /\ t <= n_lfr /\ (num_frames > 0 => t = n_lfr)
  /\ pc = "run" => num_frames > 0

(* There is a row for every LfrN frames: the last begins at a frame.       *)
LEMMA RowsCounted ==
  ASSUME n_fbank \in Nat
  PROVE  /\ n_lfr \in Nat
         /\ n_lfr * LfrN <= n_fbank + LfrN - 1
<1>1. LfrN \in Nat /\ LfrN > 0
  BY SizeAssumption
<1> DEFINE all == n_fbank + LfrN - 1
<1>2. all \in Nat /\ n_lfr = all \div LfrN
  BY <1>1 DEF n_lfr
<1> HIDE DEF all
<1>3. all \div LfrN \in Nat /\ (all \div LfrN) * LfrN <= all
  BY <1>1, <1>2
<1>4. QED
  BY <1>2, <1>3 DEF all

LEMMA StackInOrder ==
  ASSUME RowInv, WrittenInv, Stack
  PROVE  WrittenInv'
<1>1. /\ pc = "stack" /\ pc' = "stack" /\ samples' = samples /\ t < n_lfr
      /\ out' = [slot \in DOMAIN out \union {<<t, m>>} |->
                   IF slot = <<t, m>> THEN Source(t, m) ELSE out[slot]]
      /\ IF m + 1 < LfrM THEN m' = m + 1 /\ t' = t ELSE m' = 0 /\ t' = t + 1
  BY DEF Stack
<1>2. t \in Nat /\ m \in 0 .. LfrM - 1 /\ samples \in Nat
  BY DEF RowInv
<1>3. n_lfr' = n_lfr /\ n_lfr \in Nat
  <2>1. n_lfr' = n_lfr
    BY <1>1 DEF n_lfr, n_fbank
  <2>2. QED
    BY <1>2, <2>1, FramesCounted, RowsCounted
<1>4. DOMAIN out' = DOMAIN out \union {<<t, m>>}
  BY <1>1
<1>5. DOMAIN out = {slot \in Nat \X (0 .. LfrM - 1) : slot[1] < t \/ (slot[1] = t /\ slot[2] < m)}
  BY <1>1 DEF WrittenInv
<1>6. DOMAIN out' = {slot \in Nat \X (0 .. LfrM - 1) : slot[1] < t' \/ (slot[1] = t' /\ slot[2] < m')}
  <2> SUFFICES ASSUME NEW row \in Nat, NEW place \in 0 .. LfrM - 1
               PROVE  (row < t \/ (row = t /\ place < m) \/ (row = t /\ place = m))
                        <=> (row < t' \/ (row = t' /\ place < m'))
    BY <1>2, <1>4, <1>5
  <2>1. CASE m + 1 < LfrM
    BY <1>1, <1>2, <2>1
  <2>2. CASE ~(m + 1 < LfrM)
    BY <1>1, <1>2, <2>2, SizeAssumption
  <2>3. QED
    BY <2>1, <2>2
<1>7. t' <= n_lfr /\ (t' = n_lfr => m' = 0)
  <2>1. CASE m + 1 < LfrM
    BY <1>1, <1>2, <1>3, <2>1
  <2>2. CASE ~(m + 1 < LfrM)
    BY <1>1, <1>2, <1>3, <2>2
  <2>3. QED
    BY <2>1, <2>2
<1>8. QED
  BY <1>1, <1>3, <1>6, <1>7 DEF WrittenInv

LEMMA RowsInOrder == Spec => []WrittenInv
<1>1. Init => WrittenInv
  BY DEF Init, WrittenInv
<1>2. RowInv /\ WrittenInv /\ [Next]_vars => WrittenInv'
  <2> SUFFICES ASSUME RowInv, WrittenInv, [Next]_vars
               PROVE  WrittenInv'
    OBVIOUS
  <2>1. ASSUME UNCHANGED rowVars,
               pc' \in {"call", "stack", "computed", "run"} =>
                 pc' = pc \/ (pc' = "run" /\ pc = "computed" /\ num_frames > 0)
        PROVE  WrittenInv'
    <3>1. UNCHANGED <<samples, t, m, out, num_frames>>
      BY <2>1 DEF rowVars
    <3>2. n_lfr' = n_lfr
      BY <3>1 DEF n_lfr, n_fbank
    <3>3. QED
      BY <2>1, <3>1, <3>2 DEF WrittenInv
  <2>2. CASE OpenSession \/ LoadCmvnLine \/ LoadEnd
    BY <2>1, <2>2 DEF OpenSession, LoadCmvnLine, LoadEnd, Refuse
  <2>3. CASE CallInfer
    <3>1. pc' = "call" /\ t' = 0 /\ m' = 0 /\ out' = <<>>
      BY <2>3 DEF CallInfer, Begin
    <3>2. DOMAIN out' = {}
      BY <3>1
    <3>3. \A slot \in Nat \X (0 .. LfrM - 1) :
            ~(slot[1] < t' \/ (slot[1] = t' /\ slot[2] < m'))
      BY <3>1
    <3>4. QED
      BY <3>1, <3>2, <3>3 DEF WrittenInv
  <2>4. CASE Extract
    <3>1. CASE Stack
      BY <3>1, StackInOrder
    <3>2. CASE ComputeNothing \/ Compute \/ StackEnd
      <4>1. /\ UNCHANGED <<samples, t, m, out>>
            /\ \/ pc = "call" /\ pc' = "computed" /\ num_frames' = 0
               \/ pc = "call" /\ pc' = "stack"
               \/ pc = "stack" /\ t = n_lfr /\ pc' = "computed" /\ num_frames' = t
        BY <3>2 DEF ComputeNothing, Compute, StackEnd
      <4>2. pc = "call" => t = 0 /\ m = 0
        BY DEF RowInv
      <4>3. n_lfr' = n_lfr /\ n_lfr \in Nat
        <5>1. n_lfr' = n_lfr
          BY <4>1 DEF n_lfr, n_fbank
        <5>2. samples \in Nat
          BY DEF RowInv
        <5>3. QED
          BY <5>1, <5>2, FramesCounted, RowsCounted
      <4>4. DOMAIN out' = {slot \in Nat \X (0 .. LfrM - 1) :
                             slot[1] < t' \/ (slot[1] = t' /\ slot[2] < m')}
        BY <4>1 DEF WrittenInv
      <4>5. QED
        BY <4>1, <4>2, <4>3, <4>4 DEF WrittenInv
    <3>3. QED
      BY <2>4, <3>1, <3>2 DEF Extract, ExtractorSteps
  <2>5. CASE LookAtFrames \/ RunSession \/ RunOnnxEnd \/ RunOnnxThrow \/ Decode
    <3>1. num_frames \in Nat
      BY DEF RowInv
    <3>2. QED
      BY <2>1, <2>5, <3>1 DEF LookAtFrames, RunSession, RunOnnxEnd, RunOnnxThrow, Decode, Return
  <2>6. CASE CallDestroy \/ Release \/ Gone \/ UNCHANGED vars
    BY <2>1, <2>6 DEF CallDestroy, Release, Gone, vars
  <2>7. QED
    BY <2>2, <2>3, <2>4, <2>5, <2>6 DEF Next
<1>3. QED
  BY <1>1, <1>2, RowsHold, PTL DEF Spec

(* The clamped index of a slot is its place in the padded frames.          *)
LEMMA SourceIsPadded ==
  ASSUME n_fbank \in Nat, n_fbank > 0,
         NEW row \in Nat, NEW place \in 0 .. LfrM - 1, row < n_lfr
  PROVE  Source(row, place) = Padded[row * LfrN + place + 1]
<1>1. LfrM \in Nat /\ LfrN \in Nat /\ LfrM > 0 /\ LfrN > 0
  BY SizeAssumption
<1> DEFINE n == n_fbank
           lp == left_pad
           first == row * LfrN
           firsts == [i \in 1 .. lp |-> 0]
           frames == [i \in 1 .. n |-> i - 1]
           lasts == [i \in 1 .. LfrN + LfrM |-> n - 1]
<1>2. n \in Nat /\ n > 0 /\ lp \in Nat
  BY <1>1 DEF left_pad
<1>3. first \in Nat /\ first < n + LfrN
  <2>1. PICK d \in Nat : n_lfr = row + 1 + d
    <3>1. n_lfr \in Nat
      BY RowsCounted
    <3>2. n_lfr - (row + 1) \in Nat /\ n_lfr = row + 1 + (n_lfr - (row + 1))
      BY <3>1
    <3>3. QED
      BY <3>2
  <2>2. n_lfr * LfrN <= n + LfrN - 1
    BY RowsCounted
  <2> HIDE DEF n
  <2>3. n_lfr * LfrN = row * LfrN + LfrN + d * LfrN
    BY <1>1, <2>1
  <2>4. d * LfrN \in Nat /\ row * LfrN \in Nat
    BY <1>1, <2>1
  <2>5. QED
    BY <1>1, <1>2, <2>2, <2>3, <2>4
<1>4. /\ Padded = firsts \o frames \o lasts
      /\ Source(row, place) = Clamp(first + place - lp, 0, n - 1)
  BY DEF Padded, Source
<1> HIDE DEF n, lp, first
<1>5. /\ firsts \in Seq(Int) /\ Len(firsts) = lp
      /\ frames \in Seq(Int) /\ Len(frames) = n
      /\ lasts \in Seq(Int) /\ Len(lasts) = LfrN + LfrM
  BY <1>1, <1>2
<1> DEFINE k == first + place + 1
           head == firsts \o frames
<1>6. /\ head \in Seq(Int) /\ Len(head) = lp + n
      /\ \A i \in 1 .. lp : head[i] = firsts[i]
      /\ \A i \in lp + 1 .. lp + n : head[i] = frames[i - lp]
  <2> HIDE DEF firsts, frames
  <2>1. /\ head \in Seq(Int) /\ Len(head) = Len(firsts) + Len(frames)
        /\ \A i \in 1 .. Len(firsts) + Len(frames) :
             head[i] = IF i <= Len(firsts) THEN firsts[i] ELSE frames[i - Len(firsts)]
    BY <1>5, ConcatProperties
  <2> HIDE DEF head
  <2>2. Len(firsts) = lp /\ Len(frames) = n
    BY <1>5
  <2>3. \A i \in 1 .. lp + n :
          head[i] = IF i <= lp THEN firsts[i] ELSE frames[i - lp]
    BY <2>1, <2>2
  <2>4. ASSUME NEW i \in 1 .. lp
        PROVE  head[i] = firsts[i]
    <3>1. i \in 1 .. lp + n /\ i <= lp
      BY <1>2
    <3>2. QED
      BY <2>3, <3>1
  <2>5. ASSUME NEW i \in lp + 1 .. lp + n
        PROVE  head[i] = frames[i - lp]
    <3>1. i \in 1 .. lp + n /\ ~(i <= lp)
      BY <1>2
    <3>2. QED
      BY <2>3, <3>1
  <2>6. QED
    BY <2>1, <2>2, <2>4, <2>5
<1>7. /\ \A i \in 1 .. lp + n : (head \o lasts)[i] = head[i]
      /\ \A i \in lp + n + 1 .. lp + n + LfrN + LfrM : (head \o lasts)[i] = lasts[i - (lp + n)]
  <2> HIDE DEF k, head, lasts, firsts, frames
  <2>0. head \in Seq(Int) /\ lasts \in Seq(Int)
    BY <1>5, <1>6
  <2>1. \A i \in 1 .. Len(head) + Len(lasts) :
          (head \o lasts)[i] = IF i <= Len(head) THEN head[i] ELSE lasts[i - Len(head)]
    BY <2>0, ConcatProperties
  <2>2. Len(head) = lp + n /\ Len(lasts) = LfrN + LfrM
    BY <1>5, <1>6
  <2>3. \A i \in 1 .. lp + n + LfrN + LfrM :
          (head \o lasts)[i] = IF i <= lp + n THEN head[i] ELSE lasts[i - (lp + n)]
    <3>1. Len(head) + Len(lasts) = lp + n + LfrN + LfrM
      BY <1>1, <1>2, <2>2
    <3>2. ASSUME NEW i \in 1 .. lp + n + LfrN + LfrM
          PROVE  (head \o lasts)[i] = IF i <= lp + n THEN head[i] ELSE lasts[i - (lp + n)]
      <4>1. (head \o lasts)[i] = IF i <= Len(head) THEN head[i] ELSE lasts[i - Len(head)]
        BY <2>1, <3>1
      <4>2. QED
        BY <2>2, <4>1
    <3>3. QED
      BY <3>2
  <2>4. ASSUME NEW i \in 1 .. lp + n
        PROVE  (head \o lasts)[i] = head[i]
    <3>1. i \in 1 .. lp + n + LfrN + LfrM /\ i <= lp + n
      BY <1>1, <1>2
    <3>2. QED
      BY <2>3, <3>1
  <2>5. ASSUME NEW i \in lp + n + 1 .. lp + n + LfrN + LfrM
        PROVE  (head \o lasts)[i] = lasts[i - (lp + n)]
    <3>1. i \in 1 .. lp + n + LfrN + LfrM /\ ~(i <= lp + n)
      BY <1>1, <1>2
    <3>2. QED
      BY <2>3, <3>1
  <2>6. QED
    BY <2>4, <2>5
<1>8. k \in 1 .. lp + n + LfrN + LfrM
  BY <1>1, <1>2, <1>3
<1>9. CASE k <= lp
  <2>1. (head \o lasts)[k] = 0
    <3>1. k \in 1 .. lp /\ k \in 1 .. lp + n
      BY <1>2, <1>8, <1>9
    <3>2. firsts[k] = 0
      BY <3>1
    <3> HIDE DEF k, head, lasts, firsts, frames
    <3>3. QED
      BY <1>6, <1>7, <3>1, <3>2
  <2>2. Clamp(first + place - lp, 0, n - 1) = 0
    BY <1>2, <1>3, <1>9 DEF Clamp
  <2>3. QED
    BY <1>4, <2>1, <2>2 DEF first
<1>10. CASE k > lp /\ k <= lp + n
  <2>1. (head \o lasts)[k] = k - lp - 1
    <3>1. k \in lp + 1 .. lp + n /\ k \in 1 .. lp + n /\ k - lp \in 1 .. n
      BY <1>2, <1>8, <1>10
    <3>2. frames[k - lp] = k - lp - 1
      BY <3>1
    <3> HIDE DEF k, head, lasts, firsts, frames
    <3>3. QED
      BY <1>6, <1>7, <3>1, <3>2
  <2>2. Clamp(first + place - lp, 0, n - 1) = first + place - lp
    BY <1>2, <1>3, <1>10 DEF Clamp
  <2>3. k - lp - 1 = first + place - lp
    BY <1>2, <1>3
  <2>4. QED
    BY <1>4, <2>1, <2>2, <2>3 DEF first
<1>11. CASE k > lp + n
  <2>1. (head \o lasts)[k] = n - 1
    <3>1. k \in lp + n + 1 .. lp + n + LfrN + LfrM /\ k - (lp + n) \in 1 .. LfrN + LfrM
      BY <1>1, <1>2, <1>8, <1>11
    <3>2. lasts[k - (lp + n)] = n - 1
      BY <3>1
    <3> HIDE DEF k, head, lasts, firsts, frames
    <3>3. QED
      BY <1>7, <3>1, <3>2
  <2>2. Clamp(first + place - lp, 0, n - 1) = n - 1
    BY <1>2, <1>3, <1>11 DEF Clamp
  <2>3. QED
    BY <1>4, <2>1, <2>2 DEF first
<1>12. QED
  BY <1>2, <1>8, <1>9, <1>10, <1>11

(* Low frame rate: the rows are the padded frames, cut every LfrN of them  *)
(* into stacks of LfrM, with no slot left out, and the network is asked    *)
(* only about rows of a waveform that holds a frame.                       *)
THEOREM StacksOfFrames == Spec => []RowsAreStacks
<1>1. RowInv /\ WrittenInv => RowsAreStacks
  <2> SUFFICES ASSUME RowInv, WrittenInv, pc \in {"computed", "run"}
               PROVE  /\ pc = "run" => samples >= WindowSize /\ num_frames > 0
                      /\ DOMAIN out = (0 .. num_frames - 1) \X (0 .. LfrM - 1)
                      /\ \A slot \in DOMAIN out :
                           out[slot] = Padded[slot[1] * LfrN + slot[2] + 1]
    BY DEF RowsAreStacks
  <2>1. /\ DOMAIN out = {slot \in Nat \X (0 .. LfrM - 1) :
                           slot[1] < t \/ (slot[1] = t /\ slot[2] < m)}
        /\ m = 0 /\ t = num_frames /\ t <= n_lfr
    BY DEF WrittenInv
  <2>2. t \in Nat /\ samples \in Nat
    BY DEF RowInv
  <2>3. DOMAIN out = (0 .. num_frames - 1) \X (0 .. LfrM - 1)
    <3>1. \A slot \in Nat \X (0 .. LfrM - 1) : slot \in DOMAIN out <=> slot[1] < t
      BY <2>1
    <3>2. 0 .. num_frames - 1 = {row \in Nat : row < t}
      BY <2>1, <2>2
    <3>3. QED
      BY <2>1, <3>1, <3>2
  <2>4. ASSUME NEW slot \in DOMAIN out
        PROVE  out[slot] = Padded[slot[1] * LfrN + slot[2] + 1]
    <3>1. slot[1] \in Nat /\ slot[1] < t /\ slot[2] \in 0 .. LfrM - 1
      BY <2>1, <2>2
    <3>2. n_fbank \in Nat /\ n_fbank > 0
      BY <2>2, <2>4, FramesCounted DEF RowInv
    <3>3. n_lfr \in Nat
      BY <3>2, RowsCounted
    <3>4. slot[1] < n_lfr
      BY <2>1, <2>2, <3>1, <3>3
    <3>5. Source(slot[1], slot[2]) = Padded[slot[1] * LfrN + slot[2] + 1]
      BY <3>1, <3>2, <3>4, SourceIsPadded
    <3>6. QED
      BY <3>5 DEF RowInv
  <2>5. pc = "run" => samples >= WindowSize /\ num_frames > 0
    BY DEF RowInv, WrittenInv
  <2>6. QED
    BY <2>3, <2>4, <2>5
<1>2. QED
  BY <1>1, RowsHold, RowsInOrder, PTL

LEMMA Divided ==
  ASSUME NEW a \in Nat, NEW b \in Nat, b > 0
  PROVE  a \div b \in Nat /\ (a \div b) * b <= a /\ a < (a \div b) * b + b
OBVIOUS

(* Every place of a waveform, but for the last samples, lies in a frame.   *)
LEMMA PlaceInFrame ==
  ASSUME samples \in Nat, n_fbank > 0, WindowShift <= WindowSize,
         NEW s \in 0 .. samples - WindowShift
  PROVE  \E f \in 0 .. n_fbank - 1 :
           FirstSampleOfFrame(f) <= s /\ s < FirstSampleOfFrame(f) + WindowSize
<1>1. WindowSize \in Nat /\ WindowSize > 0 /\ WindowShift \in Nat /\ WindowShift > 0 /\ s \in Nat
  BY SizeAssumption
<1>2. n_fbank \in Nat /\ samples >= WindowSize
  BY FramesCounted
<1> DEFINE rest == samples - WindowSize
           q == rest \div WindowShift
           p == s \div WindowShift
           low == p * WindowShift
           last == q * WindowShift
<1>3. rest \in Nat
  BY <1>1, <1>2
<1>4. n_fbank = 1 + q
  BY <1>1, <1>2 DEF n_fbank, NumFrames
<1>5. q \in Nat /\ last <= rest /\ rest < last + WindowShift
  <2> HIDE DEF rest
  <2>1. QED
    BY <1>1, <1>3, Divided
<1>6. p \in Nat /\ low <= s /\ s < low + WindowShift
  BY <1>1, Divided
<1>7. low \in Nat /\ last \in Nat
  BY <1>1, <1>5, <1>6
<1>8. q <= p => last <= low
  <2>1. ASSUME q <= p
        PROVE  last <= low
    <3>1. (p - q) * WindowShift \in Nat /\ low = last + (p - q) * WindowShift
      <4> HIDE DEF p, q
      <4>1. p - q \in Nat
        BY <1>5, <1>6, <2>1
      <4>2. QED
        BY <1>1, <1>5, <1>6, <4>1
    <3> HIDE DEF low, last
    <3>2. QED
      BY <1>7, <3>1
  <2>2. QED
    BY <2>1
<1> HIDE DEF p, q, low, last
<1>9. CASE p <= q
  <2>1. p \in 0 .. n_fbank - 1
    BY <1>4, <1>5, <1>6, <1>9
  <2>2. s < low + WindowSize
    BY <1>1, <1>6, <1>7
  <2>3. QED
    BY <1>6, <2>1, <2>2 DEF FirstSampleOfFrame, low
<1>10. CASE q <= p
  <2>1. q \in 0 .. n_fbank - 1
    BY <1>4, <1>5
  <2>2. last <= s
    BY <1>1, <1>6, <1>7, <1>8, <1>10
  <2>3. s < last + WindowSize
    BY <1>1, <1>3, <1>5, <1>7
  <2>4. QED
    BY <2>1, <2>2, <2>3 DEF FirstSampleOfFrame, last
<1>11. QED
  BY <1>5, <1>6, <1>9, <1>10

(* Every frame is in a stack, when a stack reaches far enough to the right *)
(* of its own frame to meet the next one.                                  *)
LEMMA FrameInStack ==
  ASSUME n_fbank \in Nat, NEW f \in 0 .. n_fbank - 1, LfrN + left_pad <= LfrM
  PROVE  \E row \in 0 .. n_lfr - 1, place \in 0 .. LfrM - 1 : Source(row, place) = f
<1>1. /\ LfrN \in Nat /\ LfrN > 0 /\ LfrM \in Nat /\ LfrM > 0 /\ f \in Nat
      /\ left_pad \in Nat
  <2>1. LfrN \in Nat /\ LfrN > 0 /\ LfrM \in Nat /\ LfrM > 0 /\ LfrM - 1 \in Nat
    BY SizeAssumption
  <2>2. QED
    BY <2>1 DEF left_pad
<1> DEFINE row == f \div LfrN
           start == row * LfrN
           place == f - start + left_pad
           all == n_fbank + LfrN - 1
           end == n_lfr * LfrN
<1>2. row \in Nat /\ start <= f /\ f < start + LfrN
  BY <1>1, Divided
<1>3. n_lfr \in Nat /\ all < end + LfrN
  <2>1. all \in Nat /\ n_lfr = all \div LfrN
    BY <1>1 DEF n_lfr
  <2> HIDE DEF all
  <2>2. QED
    BY <1>1, <2>1, Divided
<1>4. start \in Nat /\ end \in Nat
  BY <1>1, <1>2, <1>3
<1>5. row < n_lfr
  <2>1. ASSUME n_lfr <= row
        PROVE  end <= start
    <3>1. (row - n_lfr) * LfrN \in Nat /\ start = end + (row - n_lfr) * LfrN
      <4> HIDE DEF row
      <4>1. row - n_lfr \in Nat
        BY <1>2, <1>3, <2>1
      <4>2. QED
        BY <1>1, <1>2, <1>3, <4>1
    <3> HIDE DEF start, end
    <3>2. QED
      BY <1>4, <3>1
  <2> HIDE DEF start, end, row
  <2>2. start < end
    BY <1>1, <1>2, <1>3, <1>4
  <2>3. QED
    BY <1>2, <1>3, <1>4, <2>1, <2>2
<1> HIDE DEF row, end
<1>6. place \in 0 .. LfrM - 1
  <2> HIDE DEF start
  <2>1. QED
    BY <1>1, <1>2, <1>4
<1>7. Source(row, place) = f
  <2>1. row * LfrN + place - left_pad = f
    <3>1. start + place - left_pad = f
      <4> HIDE DEF start
      <4>1. QED
        BY <1>1, <1>4
    <3>2. QED
      BY <3>1
  <2> HIDE DEF place, start
  <2>2. Clamp(f, 0, n_fbank - 1) = f
    BY DEF Clamp
  <2>3. QED
    BY <2>1, <2>2 DEF Source
<1>8. row \in 0 .. n_lfr - 1
  BY <1>2, <1>3, <1>5
<1> HIDE DEF place
<1>9. QED
  BY <1>6, <1>7, <1>8

(* No audio is left out, in a waveform of any length and with frames and   *)
(* stacks of any size, as long as a stack of LfrM frames, centred on every *)
(* LfrN-th, reaches the next one; the shipped 5 and 3 just do.             *)
THEOREM AudioReachesModel ==
  ASSUME LfrN + left_pad <= LfrM
  PROVE  Spec => []AudioHeard
<1>1. RowInv /\ WrittenInv /\ RowsAreStacks => AudioHeard
  <2> SUFFICES ASSUME RowInv, WrittenInv, RowsAreStacks, pc = "computed", num_frames > 0,
                      NEW s \in 0 .. samples - WindowShift, WindowShift <= WindowSize
               PROVE  \E slot \in DOMAIN out :
                        /\ FirstSampleOfFrame(out[slot]) <= s
                        /\ s < FirstSampleOfFrame(out[slot]) + WindowSize
    BY DEF AudioHeard
  <2>1. /\ samples \in Nat /\ samples >= WindowSize /\ num_frames = n_lfr
        /\ \A slot \in DOMAIN out : out[slot] = Source(slot[1], slot[2])
    BY DEF RowInv, WrittenInv
  <2>2. n_fbank \in Nat /\ n_fbank > 0
    BY <2>1, FramesCounted
  <2>3. PICK f \in 0 .. n_fbank - 1 :
          FirstSampleOfFrame(f) <= s /\ s < FirstSampleOfFrame(f) + WindowSize
    BY <2>1, <2>2, PlaceInFrame
  <2>4. PICK row \in 0 .. n_lfr - 1, place \in 0 .. LfrM - 1 : Source(row, place) = f
    BY <2>2, FrameInStack
  <2>5. <<row, place>> \in DOMAIN out
    BY <2>1 DEF RowsAreStacks
  <2>6. out[<<row, place>>] = f
    BY <2>1, <2>4, <2>5
  <2>7. QED
    BY <2>3, <2>5, <2>6
<1>2. QED
  BY <1>1, RowsHold, RowsInOrder, StacksOfFrames, PTL
-----------------------------------------------------------------------------
(* What has been read of the CMVN file, and what the counters are at. The  *)
(* logits are those of a call that has been made.                          *)
CountInv ==
  /\ samples \in 0 .. MaxSamples
  /\ file \in CmvnFiles /\ line \in Nat /\ means_ \in Nat /\ scales_ \in Nat
  /\ calls \in 0 .. MaxCalls /\ outs \in 0 .. calls
  /\ logits \in [of : 0 .. calls, frames : Nat]

(* A vector that is accepted is a line of the file. *)
LEMMA VectorRead ==
  ASSUME CountInv, LoadCmvnLine
  PROVE  line' \in Nat /\ means_' \in Nat /\ scales_' \in Nat
<1> DEFINE vector == file.lines[line + 2]
           tag == file.lines[line + 1].tag
           unreadable == line + 1 < Len(file.lines) => ~vector.numeric
<1>1. /\ line \in Nat /\ means_ \in Nat /\ scales_ \in Nat
      /\ file.lines \in Seq(Line) /\ line < Len(file.lines)
  BY EngineAssumption DEF CountInv, LoadCmvnLine
<1>2. CASE tag = "other" \/ unreadable
  BY <1>1, <1>2 DEF LoadCmvnLine, Refuse
<1>3. CASE tag # "other" /\ ~unreadable
  <2>1. line + 2 \in 1 .. Len(file.lines)
    BY <1>1, <1>3
  <2>2. vector \in Line
    BY <1>1, <2>1, ElementOfSeq
  <2>3. vector.values \in Nat
    BY <2>2 DEF Line
  <2>4. /\ line' = line + 2
        /\ means_' \in {means_, vector.values} /\ scales_' \in {scales_, vector.values}
    BY <1>3 DEF LoadCmvnLine
  <2>5. QED
    BY <1>1, <2>3, <2>4
<1>4. QED
  BY <1>2, <1>3

LEMMA CountsHold == Spec => []CountInv
<1> USE SizeAssumption, EngineAssumption DEF rowVars, cmvnVars, tensorVars
<1>1. Init => CountInv
  BY DEF Init, CountInv, NoLogits
<1>2. CountInv /\ ObjectInv /\ [Next]_vars => CountInv'
  <2> SUFFICES ASSUME CountInv, ObjectInv, [Next]_vars
               PROVE  CountInv'
    OBVIOUS
  <2>1. ASSUME UNCHANGED <<samples, file, line, means_, scales_, calls, logits>>,
               outs' \in {0, outs, calls}
        PROVE  CountInv'
    BY <2>1 DEF CountInv
  <2>2. CASE OpenSession \/ LoadEnd
    BY <2>1, <2>2 DEF OpenSession, LoadEnd
  <2>3. CASE LoadCmvnLine
    <3>1. UNCHANGED <<samples, file, calls, outs, logits>>
      BY <2>3 DEF LoadCmvnLine
    <3>2. line' \in Nat /\ means_' \in Nat /\ scales_' \in Nat
      BY <2>3, VectorRead
    <3>3. QED
      BY <3>1, <3>2 DEF CountInv
  <2>4. CASE CallInfer
    <3>1. /\ UNCHANGED <<file, line, means_, scales_, outs>>
          /\ calls < MaxCalls /\ calls' = calls + 1
          /\ logits' = [of |-> 0, frames |-> 0] /\ samples' \in 0 .. MaxSamples
      BY <2>4 DEF CallInfer, Begin, NoLogits
    <3>2. calls' \in 0 .. MaxCalls /\ outs' \in 0 .. calls'
      BY <3>1 DEF CountInv
    <3>3. logits' \in [of : 0 .. calls', frames : Nat]
      BY <3>1, <3>2
    <3>4. QED
      BY <3>1, <3>2, <3>3 DEF CountInv
  <2>5. CASE Extract
    BY <2>1, <2>5 DEF Extract, ExtractorSteps, ComputeNothing, Compute, Stack, StackEnd
  <2>6. CASE LookAtFrames \/ RunOnnxThrow \/ Decode \/ CallDestroy
    BY <2>1, <2>6 DEF LookAtFrames, RunOnnxThrow, Decode, CallDestroy
  <2>7. CASE RunSession
    BY <2>1, <2>7 DEF RunSession
  <2>8. CASE RunOnnxEnd
    <3>1. /\ UNCHANGED <<samples, file, line, means_, scales_, calls, outs>>
          /\ logits' = [of |-> outs, frames |-> shape_out[2]]
          /\ Len(shape_out) = 3 /\ shape_out \in Shapes
      BY <2>8 DEF RunOnnxEnd, ShapeFits, ObjectInv
    <3>2. shape_out \in Seq(Nat) /\ 2 \in 1 .. Len(shape_out)
      BY <3>1
    <3>3. shape_out[2] \in Nat
      BY <3>2, ElementOfSeq
    <3>4. outs \in 0 .. calls
      BY DEF CountInv
    <3>5. QED
      BY <3>1, <3>3, <3>4 DEF CountInv
  <2>9. CASE Release
    BY <2>1, <2>9 DEF Release
  <2>10. CASE Gone \/ UNCHANGED vars
    BY <2>1, <2>10 DEF Gone, vars
  <2>11. QED
    BY <2>2, <2>3, <2>4, <2>5, <2>6, <2>7, <2>8, <2>9, <2>10 DEF Next
<1>3. QED
  BY <1>1, <1>2, ObjectsHold, PTL DEF Spec

AnswerInv == detected \in BOOLEAN

LEMMA AnswerIsBoolean == Spec => []AnswerInv
<1>1. Init => AnswerInv
  BY DEF Init, AnswerInv
<1>2. AnswerInv /\ [Next]_vars => AnswerInv'
  <2> SUFFICES ASSUME AnswerInv, [Next]_vars
               PROVE  AnswerInv'
    OBVIOUS
  <2> USE DEF AnswerInv
  <2>1. CASE LookAtFrames
    BY <2>1 DEF LookAtFrames, Return
  <2>2. CASE Decode
    BY <2>2 DEF Decode, Return
  <2>3. CASE OpenSession \/ LoadCmvnLine \/ LoadEnd \/ CallInfer \/ Extract
    BY <2>3 DEF OpenSession, LoadCmvnLine, LoadEnd, CallInfer, Extract
  <2>4. CASE RunSession \/ RunOnnxEnd \/ RunOnnxThrow
    BY <2>4 DEF RunSession, RunOnnxEnd, RunOnnxThrow
  <2>5. CASE CallDestroy \/ Release \/ Gone \/ UNCHANGED vars
    BY <2>5 DEF CallDestroy, Release, Gone, vars
  <2>6. QED
    BY <2>1, <2>2, <2>3, <2>4, <2>5 DEF Next
<1>3. QED
  BY <1>1, <1>2, PTL DEF Spec

(* Every variable has its type.                                            *)
THEOREM TypeCorrect == Spec => []TypeOK
<1>1. ObjectInv /\ RowInv /\ CountInv /\ AnswerInv => TypeOK
  <2> SUFFICES ASSUME ObjectInv, RowInv, CountInv, AnswerInv
               PROVE  TypeOK
    OBVIOUS
  <2>1. /\ pc \in {"construct", "cmvn", "idle", "call", "stack", "computed", "run", "check",
                   "decode", "destroy", "gone"}
        /\ shape_out \in {<<>>} \union Shapes
    BY DEF ObjectInv, Working
  <2>2. alive \subseteq DOMAIN Declared
    BY DEF ObjectInv, Declared
  <2>3. /\ t \in Nat /\ m \in 0 .. LfrM - 1 /\ num_frames \in Nat
        /\ DOMAIN out \subseteq (0 .. t) \X (0 .. LfrM - 1)
    BY DEF RowInv
  <2>4. /\ samples \in 0 .. MaxSamples
        /\ file \in CmvnFiles /\ line \in Nat /\ means_ \in Nat /\ scales_ \in Nat
        /\ calls \in 0 .. MaxCalls /\ outs \in 0 .. calls
        /\ logits \in [of : 0 .. calls, frames : Nat]
    BY DEF CountInv
  <2>5. QED
    BY <2>1, <2>2, <2>3, <2>4, Zenon DEF TypeOK, AnswerInv
<1>2. QED
  BY <1>1, ObjectsHold, RowsHold, CountsHold, AnswerIsBoolean, PTL
=============================================================================
