---------------------------- MODULE MCLineEditor ----------------------------
(* LineEditor for TLC: programs print nothing, two characters, more than a
   row, or more than vx can count. *)
EXTENDS LineEditor

Chars == {"NUL", "\t", "\n", "BS", " ", ">", "d", "a", "A", "1", "!", "x", "y"}

Texts == {<<>>, <<"x", "y">>, <<"x", "y", "x", "y", "x">>, [i \in 1..9 |-> "x"]}
=============================================================================
