--------------------------- MODULE MCRunMicrophone ---------------------------
(***************************************************************************)
(* Instances of RunMicrophone. A tick is 100 ms, so a hop is 4 ticks and   *)
(* the cooldown 15, as shipped. Windows of 3 hops instead of 5 keep every  *)
(* case: a first window of several hops, then windows that overlap.        *)
(***************************************************************************)
EXTENDS RunMicrophone

MCHopTicks == 4
MCCooldownTicks == 15
MCWindowHops == 3

(* A loop that just keeps up with the microphone, a hop's time for each    *)
(* window, and one that needs 1.6 s for a window, as a small board may.    *)
KeepsUp == 4
FallsBehind == 16
=============================================================================
