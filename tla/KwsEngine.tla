----------------------------- MODULE KwsEngine ------------------------------
(***************************************************************************)
(* kws_engine.cc, KwsEngine::Impl: the constructor with the reading of the *)
(* CMVN file, Infer called again and again on one engine, and the          *)
(* destruction of its members, after a failure too. The feature extractor  *)
(* is FeatureExtractor, step by step; the decoder answers what it likes,   *)
(* but never from no frame (KeywordSpotter says what else it promises).    *)
(*                                                                         *)
(* ONNX Runtime is external. A tensor is named by the call of Infer whose  *)
(* session.Run made it, so that a pointer into one that is gone, or of an  *)
(* earlier call, is visible.                                               *)
(***************************************************************************)
EXTENDS FeatureExtractor

CONSTANTS
  MelBins,    \* kMelBins
  VocabSize,  \* kVocabSize
  CmvnFiles,  \* bound: contents of am.mvn.dim80_l2r2
  Shapes,     \* bound: shapes of the network's answer
  MaxCalls    \* bound: calls of Infer

kFeatureDim == MelBins * LfrM

(* A line may be one of the two tags, and holds so many numbers behind its *)
(* first three words, or something that is no number among them.           *)
Line == [tag : {"<AddShift>", "<Rescale>", "other"}, values : Nat, numeric : BOOLEAN]

(* The network keeps the batch of one it is given. *)
ASSUME EngineAssumption ==
  /\ MelBins \in Nat \ {0} /\ VocabSize \in Nat /\ MaxCalls \in Nat
  /\ CmvnFiles \subseteq [opens : BOOLEAN, lines : Seq(Line)]
  /\ \A shape \in Shapes : shape \in Seq(Nat) /\ (Len(shape) = 3 => shape[1] = 1)

VARIABLES
  file, line,     \* the CMVN file and how many of its lines have been read
  means_, scales_,\* how many values the two vectors hold
  alive,          \* the objects of ONNX Runtime that exist
  calls,          \* calls of Infer so far
  outs,           \* call whose tensor the member outs holds, 0 for none
  shape_out,      \* that tensor's shape
  logits,         \* what the decoder gets: a pointer and a number of frames
  detected        \* what Infer returned last

cmvnVars   == <<file, line, means_, scales_>>
tensorVars == <<outs, shape_out, logits>>
vars == <<pc, rowVars, cmvnVars, tensorVars, alive, calls, detected>>

NoLogits == [of |-> 0, frames |-> 0]

Init ==
  /\ pc = "construct"
  /\ samples = 0 /\ t = 0 /\ m = 0 /\ out = <<>> /\ num_frames = 0
  /\ file \in CmvnFiles /\ line = 0 /\ means_ = 0 /\ scales_ = 0
  /\ alive = {} /\ calls = 0
  /\ outs = 0 /\ shape_out = <<>> /\ logits = NoLogits /\ detected = FALSE

-----------------------------------------------------------------------------
(* The constructor *)

(* env, then the session, which cannot be made without its file.           *)
OpenSession ==
  /\ pc = "construct"
  /\ \/ alive' = {"env", "session"} /\ pc' = "cmvn"
     \/ alive' = {"env"} /\ pc' = "destroy"
  /\ UNCHANGED <<rowVars, cmvnVars, tensorVars, calls, detected>>

Refuse == pc' = "destroy"

(* One turn of LoadCmvn's loop: behind a tag the next line is the vector,  *)
(* whatever it is; std::stof throws at what is no number.                  *)
LoadCmvnLine ==
  LET tag == file.lines[line + 1].tag
      vector == file.lines[line + 2]
      unreadable == line + 1 < Len(file.lines) => ~vector.numeric
  IN
  /\ pc = "cmvn" /\ file.opens /\ line < Len(file.lines)
  /\ IF tag = "other" THEN line' = line + 1 /\ UNCHANGED <<pc, means_, scales_>>
     ELSE IF unreadable THEN Refuse /\ UNCHANGED <<line, means_, scales_>>
     ELSE /\ line' = line + 2
          /\ means_' = IF tag = "<AddShift>" THEN vector.values ELSE means_
          /\ scales_' = IF tag = "<Rescale>" THEN vector.values ELSE scales_
          /\ UNCHANGED pc
  /\ UNCHANGED <<rowVars, tensorVars, file, alive, calls, detected>>

(* Mutation: the second vector is not counted.                             *)
CmvnComplete_MeansOnly == means_ = kFeatureDim

CmvnComplete == means_ = kFeatureDim /\ scales_ = kFeatureDim

(* The end of the file, or no file; then the decoder's own files.          *)
LoadEnd ==
  /\ pc = "cmvn" /\ (file.opens => line = Len(file.lines))
  /\ IF file.opens /\ CmvnComplete THEN pc' \in {"idle", "destroy"} ELSE Refuse
  /\ UNCHANGED <<rowVars, cmvnVars, tensorVars, alive, calls, detected>>

-----------------------------------------------------------------------------
(* Infer *)

CallInfer ==
  /\ pc = "idle" /\ calls < MaxCalls
  /\ calls' = calls + 1
  /\ \E num_samples \in 0 .. MaxSamples : Begin(num_samples)
  /\ logits' = NoLogits
  /\ pc' = "call"
  /\ UNCHANGED <<cmvnVars, outs, shape_out, alive, detected>>

Extract == ExtractorSteps /\ UNCHANGED <<cmvnVars, tensorVars, alive, calls, detected>>

Return(answer) == detected' = answer /\ pc' = "idle"

LookAtFrames ==
  /\ pc = "computed"
  /\ IF num_frames <= 0
     THEN Return(FALSE)
     ELSE pc' = "run" /\ UNCHANGED detected
  /\ UNCHANGED <<rowVars, cmvnVars, tensorVars, alive, calls>>

(* session.Run throws, or its answer is moved into outs, whose old tensor  *)
(* is released by that.                                                    *)
RunSession ==
  /\ pc = "run"
  /\ \/ pc' = "destroy" /\ UNCHANGED <<outs, shape_out, alive>>
     \/ /\ outs' = calls /\ shape_out' \in Shapes
        /\ alive' = alive \union {"outs"}
        /\ pc' = "check"
  /\ UNCHANGED <<rowVars, cmvnVars, logits, calls, detected>>

ShapeFits == Len(shape_out) = 3 /\ shape_out[3] = VocabSize

(* Mutation: outs is a local variable of RunOnnx.                          *)
RunOnnxEnd_LocalOuts ==
  /\ pc = "check" /\ ShapeFits
  /\ logits' = [of |-> outs, frames |-> shape_out[2]]
  /\ outs' = 0 /\ alive' = alive \ {"outs"}
  /\ pc' = "decode"
  /\ UNCHANGED <<rowVars, cmvnVars, shape_out, calls, detected>>

(* The end of RunOnnx: a pointer into outs is handed to Infer.             *)
RunOnnxEnd ==
  /\ pc = "check" /\ ShapeFits
  /\ logits' = [of |-> outs, frames |-> shape_out[2]]
  /\ pc' = "decode"
  /\ UNCHANGED <<rowVars, cmvnVars, outs, shape_out, alive, calls, detected>>

RunOnnxThrow ==
  /\ pc = "check" /\ ~ShapeFits
  /\ pc' = "destroy"
  /\ UNCHANGED <<rowVars, cmvnVars, tensorVars, alive, calls, detected>>

(* Decode and ApplyScoreThreshold: without a frame every path is empty,    *)
(* and no keyword is.                                                      *)
Decode ==
  /\ pc = "decode"
  /\ \E answer \in BOOLEAN : (answer => logits.frames > 0) /\ Return(answer)
  /\ UNCHANGED <<rowVars, cmvnVars, tensorVars, alive, calls>>

-----------------------------------------------------------------------------
(* Destruction: the members in the reverse of their declaration, whether   *)
(* the constructor or Infer has thrown (main ends) or the engine is done.  *)
CallDestroy ==
  /\ pc = "idle"
  /\ pc' = "destroy"
  /\ UNCHANGED <<rowVars, cmvnVars, tensorVars, alive, calls, detected>>

(* Mutation: the answers are declared before the session.                  *)
Declared_OutsFirst == [outs |-> 1, env |-> 2, session |-> 3]

Declared == [env |-> 1, session |-> 2, outs |-> 3]

Release ==
  /\ pc = "destroy" /\ alive # {}
  /\ \E member \in alive :
       /\ \A other \in alive : Declared[other] <= Declared[member]
       /\ alive' = alive \ {member}
       /\ outs' = IF member = "outs" THEN 0 ELSE outs
  /\ pc' = IF alive' = {} THEN "gone" ELSE "destroy"
  /\ UNCHANGED <<rowVars, cmvnVars, shape_out, logits, calls, detected>>

Gone == pc = "gone" /\ UNCHANGED vars

Next ==
  \/ OpenSession \/ LoadCmvnLine \/ LoadEnd
  \/ CallInfer \/ Extract \/ LookAtFrames
  \/ RunSession \/ RunOnnxEnd \/ RunOnnxThrow \/ Decode
  \/ CallDestroy \/ Release \/ Gone

Spec == Init /\ [][Next]_vars
-----------------------------------------------------------------------------
(* Every variable has its type; in particular every slot written belongs   *)
(* to a row that has been begun, within its kFeatureDim values.            *)
TypeOK ==
  /\ pc \in {"construct", "cmvn", "idle", "call", "stack", "computed", "run", "check", "decode",
            "destroy", "gone"}
  /\ samples \in 0 .. MaxSamples
  /\ t \in Nat /\ m \in 0 .. LfrM - 1 /\ num_frames \in Nat
  /\ DOMAIN out \subseteq (0 .. t) \X (0 .. LfrM - 1)
  /\ file \in CmvnFiles /\ line \in Nat /\ means_ \in Nat /\ scales_ \in Nat
  /\ alive \subseteq DOMAIN Declared
  /\ calls \in 0 .. MaxCalls /\ outs \in 0 .. calls /\ shape_out \in {<<>>} \union Shapes
  /\ logits \in [of : 0 .. calls, frames : Nat] /\ detected \in BOOLEAN

(* For every value of every row CMVN has a mean and a scale: what the file *)
(* held was counted, whatever tags and lines were around them.             *)
CmvnCoversRows ==
  \A slot \in DOMAIN out :
    /\ (slot[2] + 1) * MelBins <= means_
    /\ (slot[2] + 1) * MelBins <= scales_

(* The decoder reads the answer to this call, while it exists, and no more *)
(* rows of it than there are: the pointer outlives RunOnnx, which made it. *)
LogitsReadable ==
  pc = "decode" =>
    /\ logits.of = calls /\ outs = logits.of /\ "outs" \in alive
    /\ logits.frames * VocabSize = shape_out[1] * shape_out[2] * shape_out[3]

(* Nothing made by the session outlives it, and the session not its        *)
(* environment, on no way out of the constructor or of Infer.              *)
ReleasedInOrder ==
  /\ outs # 0 => "session" \in alive
  /\ "session" \in alive => "env" \in alive
  /\ pc = "gone" => alive = {}

(* A keyword is only heard in a waveform that holds a frame: the question  *)
(* is not put to the network otherwise, and an old answer is not given.    *)
KeywordNeedsFrame == pc = "idle" /\ detected => samples >= WindowSize
=============================================================================
