----------------------------- MODULE MCEvidence -----------------------------
(* A small instance of Evidence for TLC.                                   *)
EXTENDS Evidence

\* Nothing, prose, a list, counting up and down, a number too rare to matter.
Patterns ==
    {<<>>, <<0>>, <<1, 0>>, <<1, 2, 3>>, <<3, 2, 1>>, <<3, 1, 2, 1>>,
     <<0, 0, 0, 0, 0, 0, 0, 0, 0, 0, 1>>}
==============================================================================
