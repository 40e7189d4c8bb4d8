----------------------------- MODULE MCMicInput -----------------------------
(***************************************************************************)
(* Small instances of MicInput. Windows of two and a half hops make the    *)
(* first window start inside the first chunk, the harder case: the shipped *)
(* ratio of 32000 to 6400 samples is a whole number of hops.               *)
(***************************************************************************)
EXTENDS MicInput

MCHop == 2
MCWindow == 5
=============================================================================
