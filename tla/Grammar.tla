------------------------------ MODULE Grammar ------------------------------
(***************************************************************************)
(* The grammar of parse.y: its symbols, its rules, and what each rule does *)
(* with the values of its right side.                                      *)
(*                                                                         *)
(* "neg" is the minus sign in front of an operand and "item" the bracket   *)
(* behind one.  None, True and False are "none", and a new line is ";".    *)
(* Names and strings have one text.  Which of two possible rules the       *)
(* precedences choose is left open.                                        *)
(***************************************************************************)
EXTENDS Naturals, SequencesExt

CONSTANT Literals   \* the numbers that are typed, each a token

Operators == {"+", "*", "-", "/", "%", "**"}

Starts == Literals \cup {"ident", "string", "none", "neg", "(", "[", "{"}
Tokens == Starts \cup Operators \cup {")", "]", "}", "item", ".", ",", ":", "=", ";"}
EndOfFile == "eof"

\* No number is written as another token is, or is the name of a
\* symbol or a structure.
ASSUME GrammarAssumption ==
  Literals \cap
    (Operators \cup
     {"ident", "string", "none", "neg", "(", "[", "{", ")", "]", "}", "item", ".", ",", ":",
      "=", ";", EndOfFile, "input", "stmt", "expr", "exprlist", "opt_exprlist", "dictlist",
      "opt_dictlist", "list", "dict", "attr", "assign", "print", "other", "text", "cell",
      "buffer", "NULL", "free"}) = {}

\* What may stand before an expression.
Opens == Operators \cup {"input", "=", "neg", "(", "[", "item", "{", ",", ":"}

EndsWith(syms, s) ==
  LET below == Len(syms) - Len(s) IN
  below >= 0 /\ SubSeq(syms, below + 1, Len(syms)) = s

\* The tokens that may come next, the symbols on the parser's stack being syms.
MayShift(syms, t) ==
  \/ t \in Starts /\ Last(syms) \in Opens
  \/ t \in Operators \cup {"item", "."} /\ Last(syms) = "expr"
  \/ t = ")" /\ EndsWith(syms, <<"(", "expr">>)
  \/ t = "]" /\ (EndsWith(syms, <<"item", "expr">>) \/ Last(syms) = "opt_exprlist")
  \/ t = "}" /\ Last(syms) = "opt_dictlist"
  \/ t = "," /\ Last(syms) \in {"exprlist", "dictlist"}
  \/ /\ t = ":"
     /\ \/ EndsWith(syms, <<"{", "expr">>)
        \/ EndsWith(syms, <<"dictlist", ",", "expr">>)
  \/ t = "=" /\ EndsWith(syms, <<"input", "ident">>)
  \/ t = "ident" /\ Last(syms) = "."
  \/ t = ";" /\ Last(syms) \in {"input", "stmt"}
  \/ t = EndOfFile /\ Last(syms) = "stmt"

\* Rules that make a structure of copies of some of their values and free those.
Makes(kind, lhs, under, rhs, args) ==
  [kind |-> kind, lhs |-> lhs, under |-> under, rhs |-> rhs, args |-> args]

MakeRules ==
  { Makes(n, "expr", Opens, <<n>>, <<>>) : n \in Literals } \cup
  { Makes(op, "expr", Opens, <<"expr", op, "expr">>, <<1, 3>>) : op \in Operators } \cup
  { Makes("ident",  "expr", Opens, <<"ident">>, <<1>>),
    Makes("string", "expr", Opens, <<"string">>, <<1>>),
    Makes("item",   "expr", Opens, <<"expr", "item", "expr", "]">>, <<1, 3>>),
    Makes("neg",    "expr", Opens, <<"neg", "expr">>, <<2>>),
    Makes("list",   "expr", Opens, <<"[", "opt_exprlist", "]">>, <<2>>),
    Makes("dict",   "expr", Opens, <<"{", "opt_dictlist", "}">>, <<2>>),
    Makes("attr",   "expr", Opens, <<"expr", ".", "ident">>, <<1, 3>>),
    Makes("assign", "stmt", {"input"}, <<"ident", "=", "expr">>, <<1, 3>>),
    Makes("print",  "stmt", {"input"}, <<"expr">>, <<1>>) }

\* Rules that hand a value on, or NULL: arg is its place, or 0.
Hands(lhs, under, rhs, arg) == [lhs |-> lhs, under |-> under, rhs |-> rhs, arg |-> arg]

HandRules ==
  { Hands("expr", Opens, <<"none">>, 0),
    Hands("expr", Opens, <<"(", "expr", ")">>, 2),
    Hands("opt_exprlist", {"["}, <<>>, 0),
    Hands("opt_exprlist", {"["}, <<"exprlist">>, 1),
    Hands("opt_exprlist", {"["}, <<"exprlist", ",">>, 1),
    Hands("opt_dictlist", {"{"}, <<>>, 0),
    Hands("opt_dictlist", {"{"}, <<"dictlist">>, 1),
    Hands("opt_dictlist", {"{"}, <<"dictlist", ",">>, 1) }

\* Rules that append copies of some values to a list, and free those: list is
\* the place of the list, or 0 if it begins here.
Appends(lhs, under, rhs, list, args) ==
  [lhs |-> lhs, under |-> under, rhs |-> rhs, list |-> list, args |-> args]

AppendRules ==
  { Appends("exprlist", {"["}, <<"expr">>, 0, <<1>>),
    Appends("exprlist", {"["}, <<"exprlist", ",", "expr">>, 1, <<3>>),
    Appends("dictlist", {"{"}, <<"expr", ":", "expr">>, 0, <<1, 3>>),
    Appends("dictlist", {"{"}, <<"dictlist", ",", "expr", ":", "expr">>, 1, <<3, 5>>) }

\* input: input line, with its statement or without.
LineEnds == {";", EndOfFile}

\* Rule r may be reduced: its right side ends the stack, behind what may come
\* before its left side.
MayReduce(syms, r) ==
  LET below == Len(syms) - Len(r.rhs) IN
  EndsWith(syms, r.rhs) /\ below > 0 /\ syms[below] \in r.under
=============================================================================
