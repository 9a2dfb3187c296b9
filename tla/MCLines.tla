------------------------------ MODULE MCLines ------------------------------
(* Evaluator for TLC: words of eight bits. *)
EXTENDS Evaluator

Addresses == 1..60

Typed == "3" :> <<3>> @@ "101" :> <<1, 0, 1>> @@ "200" :> <<2, 0, 0>>

\* Short lines of anything, and longer ones of a few words.
Lines ==
  { [words |-> Tokens \ (Literals \ {"3"}), most |-> 4],
    [words |-> {"ident", ".", "{", "}", ",", ":"}, most |-> 9],
    [words |-> {"ident", ".", "[", "]", ","}, most |-> 8],
    [words |-> {"ident", "=", "+", "3", ";"}, most |-> 7],
    [words |-> {"string", "3", "{", "}", ":", "item", "]"}, most |-> 8],
    [words |-> {"string", "neg", "(", ")", "item", "]"}, most |-> 7],
    [words |-> Literals \cup Operators \cup {"neg"}, most |-> 5] }
=============================================================================
