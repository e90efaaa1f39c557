------------------------------ MODULE MCFraming ------------------------------
(* Instances of Framing: blocks of 4 cells instead of 1024.                 *)
EXTENDS Framing

(* Texts of a given length over the characters.                             *)
OfLength(n) == [1..n -> Chars]

(* Safe lengths of one, two and three blocks.                               *)
SafeTexts == OfLength(1) \cup OfLength(2)
             \cup {<<"a", "b", "a", "b", "b">>, <<"b", "b", "a", "b", "b">>,
                   [i \in 1..6 |-> "a"], [i \in 1..9 |-> "b"]}

FullBlock == {<<"a">>, <<"a", "b", "a", "b">>}        \* 4 = MaxLength
BlockLessOne == {<<"a">>, <<"a", "b", "a">>}          \* 3 = MaxLength - 1
=============================================================================
