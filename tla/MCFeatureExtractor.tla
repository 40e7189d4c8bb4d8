------------------------- MODULE MCFeatureExtractor -------------------------
(***************************************************************************)
(* One engine, asked twice about waveforms of any two lengths. Frames of   *)
(* five samples, two apart, stacked as shipped: up to 13 frames and every  *)
(* remainder of both divisions.                                            *)
(***************************************************************************)
EXTENDS KwsEngine

Tag(name) == [tag |-> name, values |-> 0, numeric |-> TRUE]
Vector(n) == [tag |-> "other", values |-> n, numeric |-> TRUE]
Text == [tag |-> "other", values |-> 0, numeric |-> FALSE]

File(lines) == [opens |-> TRUE, lines |-> lines]
Shift(n) == <<Tag("<AddShift>"), Vector(n)>>
Scale(n) == <<Tag("<Rescale>"), Vector(n)>>

(* Both sections, in either order, between other lines, twice, too short,  *)
(* too long, without their vector, or with a word in it.                   *)
MCCmvnFiles ==
  {[opens |-> FALSE, lines |-> <<>>], File(<<>>)}
    \union {File(Shift(a) \o Scale(b)) : a, b \in {9, 10, 11}}
    \union {File(Scale(10) \o <<Text>> \o Shift(10) \o <<Text>>),
            File(Shift(9) \o Shift(10) \o Scale(10)),
            File(Shift(10) \o <<Tag("<Rescale>")>>),
            File(<<Tag("<AddShift>")>> \o Scale(10)),
            File(Shift(10) \o <<Tag("<Rescale>"), Text>>)}

MCShapes == {<<1, 2, 7>>, <<1, 0, 7>>, <<1, 2, 6>>, <<1, 7>>}
=============================================================================
