---------------------------- MODULE WindowStream ----------------------------
(***************************************************************************)
(* What MicInput promises to its caller, with no thread, no queue and no   *)
(* buffer: the samples captured so far form one stream, numbered 1, 2, 3,  *)
(* ... in the order the PortAudio callback queued them, and ReadWindow     *)
(* cuts that stream into windows of WindowSamples samples, each HopSamples *)
(* after the one before.                                                   *)
(***************************************************************************)
EXTENDS Integers, Sequences

CONSTANTS
  HopSamples,     \* samples a window is ahead of the previous one (6400)
  WindowSamples   \* samples of a window (32000)

VARIABLES
  captured,       \* number of samples captured so far
  window          \* the samples last delivered, <<>> before the first window

vars == <<captured, window>>

(* The samples numbered from to to, in stream order. *)
Span(from, to) == [i \in 1 .. (to - from + 1) |-> from + i - 1]

(* Where the next window may end: the first one as soon as the stream      *)
(* holds a window, rounded up to a whole callback; then one hop further.   *)
NextEnds ==
  IF window = <<>>
  THEN WindowSamples .. (WindowSamples + HopSamples - 1)
  ELSE {window[WindowSamples] + HopSamples}

Init ==
  /\ captured = 0
  /\ window = <<>>

Capture ==
  /\ captured' = captured + HopSamples
  /\ UNCHANGED window

Deliver ==
  /\ \E end \in NextEnds :
       /\ end <= captured
       /\ window' = Span(end - WindowSamples + 1, end)
  /\ UNCHANGED captured

Next == Capture \/ Deliver

Spec == Init /\ [][Next]_vars
=============================================================================
