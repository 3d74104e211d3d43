----------------------------- MODULE MCAlignment -----------------------------
(* A small instance of Alignment for TLC; half a second is a unit of time. *)
EXTENDS Alignment

SameText == {<<t, t>> : t \in Text}

\* One source alone: four of its segments overlap in every possible way.
Alone(asr, ocr) ==
    [asr |-> asr, ocr |-> ocr, instants |-> 0..3, confidences |-> 1..3,
     texts |-> {CHOOSE t \in Text : TRUE}]

\* Two segments of each, on both sides of the merge window and of the
\* threshold for gaps.
Together ==
    [asr |-> 2, ocr |-> 2, instants |-> {0, 1, 5, 6}, confidences |-> 1..2,
     texts |-> Text]

AloneAndTogether == {Alone(4, 0), Alone(0, 4), Together}
==============================================================================
