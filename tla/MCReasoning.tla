---------------------------- MODULE MCReasoning -----------------------------
(* A small instance of Reasoning for TLC.                                  *)
EXTENDS Reasoning

\* Two spellings of one name, another, and one in another script.
Spelling == [n \in Name |->
    CASE n \in {"Dune", "DUNE"} -> "DUNE" [] n = "Alien" -> "ALIEN" [] OTHER -> NoKey]

Guess == [n \in Name |-> IF n = "Alien" THEN "topic" ELSE "unknown"]

\* Up to two ranked items and two phrases, rare and frequent.
Lists(S) == {s \in BoundedSeq(S, 2) : IsInjective(s)}
SmallEvidences ==
    [ranked : Lists(Name),
     phrases : {p \in BoundedSeq([name : Name, times : {1, 5}], 2) :
                    \A i, j \in DOMAIN p : p[i].name = p[j].name => i = j}]

\* Sound entities and one each with a strange name, type and confidence.
SomeReply ==
    [name : Name, type : {"person"}, confidence : {900}]
    \cup {[name |-> None, type |-> "person", confidence |-> 900],
          [name |-> "Dune", type |-> "gizmo", confidence |-> 1500],
          [name |-> "DUNE", type |-> "place", confidence |-> None]}
SmallReplies == BoundedSeq(SomeReply, 2)
==============================================================================
