----------------------------- MODULE SpeechGate -----------------------------
(***************************************************************************)
(* What VadDetector promises to its caller, with no chunks, no model and   *)
(* no probabilities: each call answers whether it heard speech and whether *)
(* speech is still going on, and it only says that speech goes on when     *)
(* this call or an earlier one of the same stream has heard it begin.      *)
(***************************************************************************)

VARIABLES
  active,   \* speech is going on, as far as the stream has been heard
  voice     \* the answer of the last call

vars == <<active, voice>>

Answers == [has_speech : BOOLEAN, speech_active : BOOLEAN]

Silent == [has_speech |-> FALSE, speech_active |-> FALSE]

Init == active = FALSE /\ voice = Silent

(* A new stream begins. *)
Reset == active' = FALSE /\ UNCHANGED voice

(* Feed, or Detect after its Reset. *)
Answer ==
  /\ voice' \in Answers
  /\ voice'.speech_active => voice'.has_speech \/ active
  /\ active' = voice'.speech_active

(* A call that throws answers nothing, but may have heard something. *)
Fail == active' \in BOOLEAN /\ UNCHANGED voice

Next == Reset \/ Answer \/ Fail

Spec == Init /\ [][Next]_vars
=============================================================================
