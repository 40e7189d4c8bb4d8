----------------------------- MODULE MCProgram ------------------------------
(* Every command line of up to three words out of nine options, a text,    *)
(* the empty string and a number of each kind; a good WAV file of each     *)
(* length that matters, and one with each thing that can be wrong.         *)
EXTENDS Program

MCNumbers == {"0.15", "0.5", "0", "nan", "99999999999"}
MCValues == {Empty, "text"} \union MCNumbers

Good(n) == [opens |-> TRUE, header |-> TRUE, riff |-> TRUE, format |-> TRUE, bytes |-> n]

MCWavFiles ==
  {Good(0), Good(1), Good(2), Good(9)}
    \union {[Good(9) EXCEPT !.opens = FALSE], [Good(9) EXCEPT !.header = FALSE],
            [Good(9) EXCEPT !.riff = FALSE], [Good(9) EXCEPT !.format = FALSE]}

MCDigitWords == {"0", "99999999999"}
MCStoi == [word \in {"0"} |-> 0]

(* Up to two devices, each with or without a microphone and the text in    *)
(* its name, and any default.                                              *)
MCDevices == [inputs : 0 .. 1, texts : {{}, {"text"}}]

MCHardware ==
  UNION {[devices : [1 .. n -> MCDevices], default : -1 .. n - 1] : n \in 0 .. 2}
=============================================================================
