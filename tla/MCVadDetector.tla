---------------------------- MODULE MCVadDetector ----------------------------
(***************************************************************************)
(* Small instances of VadDetector. Two-sample chunks with one sample of    *)
(* context and a silence of five samples keep the shipped proportions: the *)
(* silence is not a whole number of chunks (1600 / 512), it takes several, *)
(* and a call may end anywhere inside a chunk.                             *)
(***************************************************************************)
EXTENDS VadDetector

(* The default threshold: a low probability and both limits themselves, 50 *)
(* being high and 50 - 15 not low.                                         *)
DefaultThreshold == 50
AroundDefault == {0, 35, 50}

(* A threshold that ParseArgs accepts and README.md recommends for more    *)
(* sensitive gating, below the offset.                                     *)
LowThreshold == 10
AroundLow == {0, 9, 10}

Sizes == {1, 2, 5}
=============================================================================
