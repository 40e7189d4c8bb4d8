--------------------------- MODULE KeywordSpotter ---------------------------
(***************************************************************************)
(* What the keyword engine promises its caller about one waveform: it      *)
(* listens to frames, some of which it may ignore, and answers once. A     *)
(* keyword is named only if its tokens were heard in time order, each in a *)
(* frame of its own, and the product of the probabilities they were heard  *)
(* with reaches min_score; no promise is made to hear every keyword.       *)
(***************************************************************************)
EXTENDS Integers, Sequences, Functions

CONSTANTS Unit, Distributions, Keywords, MinScore

VARIABLES
  heard,     \* the probabilities of the frames listened to
  done,      \* the answer is given
  detection  \* the Detection

NotDetected == [detected |-> FALSE]

Init == heard = <<>> /\ done = FALSE /\ detection = NotDetected

Hear ==
  /\ ~done
  /\ \E row \in Distributions : heard' = Append(heard, row)
  /\ UNCHANGED <<done, detection>>

Product(factors) == FoldFunction(LAMBDA x, y : x * y, 1, factors)

(* The probability of hearing the tokens ids in the frames at.             *)
Likelihood(ids, at) == Product([i \in 1 .. Len(ids) |-> heard[at[i]][ids[i]]])

InTimeOrder(at) == \A i, j \in DOMAIN at : i < j => at[i] < at[j]

(* min_score compared with a square root, as squares and without division. *)
BelowThreshold(product, length) ==
  product * Unit ^ 2 < MinScore ^ 2 * Unit ^ length

(* The score is the square root of the product. *)
Answer ==
  /\ ~done
  /\ done' = TRUE
  /\ \/ UNCHANGED detection
     \/ \E k \in 1 .. Len(Keywords) : \E at \in [1 .. Len(Keywords[k]) -> 1 .. Len(heard)] :
          LET product == Likelihood(Keywords[k], at) IN
          /\ InTimeOrder(at) /\ ~BelowThreshold(product, Len(Keywords[k]))
          /\ detection' = [detected |-> TRUE, keyword |-> k, product |-> product]
  /\ UNCHANGED heard

Next == Hear \/ Answer

Spec == Init /\ [][Next]_<<heard, done, detection>>
=============================================================================
