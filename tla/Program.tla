------------------------------ MODULE Program ------------------------------
(***************************************************************************)
(* What the shell's parser promises: the program that is run for a line is *)
(* the sequence of the statements of the line, each the tree of what was   *)
(* typed, or no program at all.  Values are trees, with no memory in which *)
(* they could be shared, lost or freed.                                    *)
(***************************************************************************)
EXTENDS Grammar

VARIABLES
  stack,    \* the parser's: symbols with their values; empty while not parsing
  program   \* the statements of the line so far

vars == <<stack, program>>

None == <<"none">>
NoItems == <<"items">>   \* a list is this and its items
Text == <<"text">>
Symbols == [i \in DOMAIN stack |-> stack[i].sym]

\* The values of the last n symbols, the stack under them, and one symbol more.
Values(n) == [i \in 1..n |-> stack[Len(stack) - n + i].val]
Under(n) == SubSeq(stack, 1, Len(stack) - n)
Put(n, sym, val) == stack' = Append(Under(n), [sym |-> sym, val |-> val])

Init == stack = <<>> /\ program = <<>>

Prompt ==
  /\ stack = <<>> /\ program = <<>>
  /\ stack' = <<[sym |-> "input", val |-> None]>>
  /\ UNCHANGED program

Shift(t) ==
  /\ stack # <<>> /\ MayShift(Symbols, t)
  /\ Put(0, t, IF t \in {"ident", "string"} THEN Text ELSE None)
  /\ UNCHANGED program

Make(r) ==
  /\ MayReduce(Symbols, r)
  /\ LET v == Values(Len(r.rhs)) IN
     Put(Len(r.rhs), r.lhs, <<r.kind>> \o [i \in DOMAIN r.args |-> v[r.args[i]]])
  /\ UNCHANGED program

Nothing(lhs) == IF lhs = "expr" THEN None ELSE NoItems

Hand(r) ==
  /\ MayReduce(Symbols, r)
  /\ Put(Len(r.rhs), r.lhs,
         IF r.arg = 0 THEN Nothing(r.lhs) ELSE Values(Len(r.rhs))[r.arg])
  /\ UNCHANGED program

AppendTo(r) ==
  /\ MayReduce(Symbols, r)
  /\ LET v == Values(Len(r.rhs)) IN
     Put(Len(r.rhs), r.lhs,
         (IF r.list = 0 THEN NoItems ELSE v[r.list]) \o [i \in DOMAIN r.args |-> v[r.args[i]]])
  /\ UNCHANGED program

EmptyLine ==
  /\ EndsWith(Symbols, <<"input", ";">>)
  /\ stack' = Under(1) /\ UNCHANGED program

Statement(end) ==
  /\ EndsWith(Symbols, <<"input", "stmt", end>>)
  /\ program' = Append(program, Values(2)[1])
  /\ stack' = Under(2)

\* The program is complete, and run before it is dropped.
Accept == Symbols = <<"input">> /\ stack' = <<>> /\ UNCHANGED program
Run == stack = <<>> /\ program # <<>> /\ program' = <<>> /\ UNCHANGED stack

\* Nothing is run if the line has an error anywhere.
SyntaxError == stack # <<>> /\ stack' = <<>> /\ program' = <<>>

Next ==
  \/ Prompt
  \/ \E t \in Tokens \cup {EndOfFile} : Shift(t)
  \/ \E r \in MakeRules : Make(r)
  \/ \E r \in HandRules : Hand(r)
  \/ \E r \in AppendRules : AppendTo(r)
  \/ EmptyLine
  \/ \E end \in LineEnds : Statement(end)
  \/ Accept
  \/ Run
  \/ SyntaxError

Spec == Init /\ [][Next]_vars
=============================================================================
