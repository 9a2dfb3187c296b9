------------------------------- MODULE Syntax -------------------------------
(***************************************************************************)
(* The structures of ast.c while the shell parses, runs and drops a line.  *)
(*                                                                         *)
(* Every constructor of ast.c copies what it is given, and every rule of   *)
(* parse.y frees what it gave; only expr_free of an attribute expression   *)
(* leaves its parts behind.  A block is an expression, a statement, a cell *)
(* of a list, a text, or a lexer's buffer; what it points to are its kids. *)
(***************************************************************************)
EXTENDS Grammar

CONSTANTS
  Blocks,         \* the addresses: numbers, the lowest free one is used
  Vocabularies    \* bound: a line is of at most .most of the tokens .words

NULL == 0

ASSUME SyntaxAssumption ==
  /\ Blocks \subseteq Nat \ {NULL}
  /\ \A v \in Vocabularies : v.words \subseteq Tokens /\ v.most \in Nat

VARIABLES
  node,      \* the blocks in use, by address
  lost,      \* those nothing points to any more, left behind in this line
  stack,     \* the parser's: symbols with their values
  program,   \* program.stmt_list
  line       \* what the line still has: at most .most tokens of .words

vars == <<node, lost, stack, program, line>>

EndOfLine == [words |-> {}, most |-> 0]

Symbols == [i \in DOMAIN stack |-> stack[i].sym]
Values(n) == [i \in 1..n |-> stack[Len(stack) - n + i].val]
Under(n) == SubSeq(stack, 1, Len(stack) - n)
Put(n, sym, val) == stack' = Append(Under(n), [sym |-> sym, val |-> val])

-----------------------------------------------------------------------------
(* ast.c, on a memory m of blocks m.node and lost blocks m.lost. *)

Memory == [node |-> node, lost |-> lost]
IsNow(m) == node' = m.node /\ lost' = m.lost

Kids(m, a) == Range(m.node[a].kids) \cap DOMAIN m.node
KidsOf(m) == [a \in DOMAIN m.node |-> Kids(m, a)]

\* a and all one comes to from it, K being what each block leads to.
From(K, a) ==
  LET from[b \in DOMAIN K] == {b} \cup UNION {from[c] : c \in K[b]}
  IN IF a \in DOMAIN K THEN from[a] ELSE {}

Tree(m, a) == From(KidsOf(m), a)

\* The n-th member of a set of numbers, and the place of a member in it.
Place(S, a) == Cardinality({b \in S : b <= a})
Nth(S, n) == CHOOSE a \in S : Place(S, a) = n

Free(m) == Blocks \ DOMAIN m.node

\* m and a new block: [mem, val].
New(m, kind, kids) ==
  LET a == Nth(Free(m), 1) IN
  [mem |-> [m EXCEPT !.node = [b \in DOMAIN m.node \cup {a} |->
                                 IF b = a THEN [kind |-> kind, kids |-> kids] ELSE m.node[b]]],
   val |-> a]

\* Mutant of CopyTree: the copy points to the parts of the original.
CopyRoot(m, a) == New(m, m.node[a].kind, m.node[a].kids)

\* A copy of a tree or a text, every block of it at an address of its own.
CopyTree(m, a) ==
  LET T == Tree(m, a)
      at[b \in T \cup {NULL}] == IF b = NULL THEN NULL ELSE Nth(Free(m), Place(T, b))
      copied == {at[b] : b \in T}
      copy(c) == LET n == m.node[CHOOSE b \in T : at[b] = c] IN
                 [n EXCEPT !.kids = [i \in DOMAIN n.kids |-> at[n.kids[i]]]]
  IN [mem |-> [m EXCEPT !.node = [c \in DOMAIN m.node \cup copied |->
                                    IF c \in copied THEN copy(c) ELSE m.node[c]]],
      val |-> at[a]]

\* expr_copy, stmt_copy, strdup and, of a list, expr_list_copy.  expr_copy has
\* no test for NULL: its copy is a block whose type is the word at address 0,
\* which is no expr_type (see NullIsNoExpr in Heap).
Copy(m, sym, a) ==
  IF a # NULL THEN CopyTree(m, a)
  ELSE IF sym = "expr" THEN New(m, "other", <<>>)
  ELSE [mem |-> m, val |-> NULL]

\* Copies of all of vals, which are values of syms: [mem, vals].
CopyAll(m, syms, vals) ==
  LET done[i \in 0..Len(vals)] ==
        IF i = 0 THEN [mem |-> m, vals |-> <<>>]
        ELSE LET c == Copy(done[i - 1].mem, syms[i], vals[i])
             IN [mem |-> c.mem, vals |-> Append(done[i - 1].vals, c.val)]
  IN done[Len(vals)]

\* What expr_free, stmt_free and the free of a list or a text give back: all
\* but the parts of an attribute expression, which are lost.
FreedKids(m) ==
  [a \in DOMAIN m.node |-> IF m.node[a].kind = "attr" THEN {} ELSE Kids(m, a)]
Freed(m, a) == From(FreedKids(m), a)

FreeAll(m, vals) ==
  LET F == UNION {Freed(m, a) : a \in Range(vals)}
      attrs == {a \in F : m.node[a].kind = "attr"} IN
  [node |-> Restrict(m.node, DOMAIN m.node \ F),
   lost |-> m.lost \cup UNION {Kids(m, a) : a \in attrs}]

\* expr_list_append, stmt_list_append: [mem, val], val being the list.
LinkFirst(m, sym, list, a) ==   \* mutant: the new cell becomes the head
  LET c == Copy(m, sym, a) IN New(c.mem, "cell", <<c.val, list>>)

Link(m, sym, list, a) ==
  LET c == Copy(m, sym, a)
      cell == New(c.mem, "cell", <<c.val, NULL>>)
      end[b \in {d \in DOMAIN m.node : m.node[d].kind = "cell"}] ==
        IF m.node[b].kids[2] = NULL THEN b ELSE end[m.node[b].kids[2]]
  IN IF list = NULL THEN cell
     ELSE [mem |-> [cell.mem EXCEPT !.node[end[list]].kids[2] = cell.val], val |-> list]

-----------------------------------------------------------------------------
Init ==
  /\ node = [a \in {} |-> NULL] /\ lost = {}
  /\ stack = <<>> /\ program = NULL
  /\ line = EndOfLine

\* The shell reads another line.  What was lost in the last one stays lost and
\* is not followed any further.
Prompt ==
  /\ stack = <<>> /\ program = NULL
  /\ stack' = <<[sym |-> "input", val |-> NULL]>>
  /\ node' = Restrict(node, DOMAIN node \ UNION {Tree(Memory, a) : a \in lost})
  /\ lost' = {} /\ line' \in Vocabularies
  /\ UNCHANGED program

\* The lexer gives names and strings a copy of their text.
Shift(t) ==
  /\ stack # <<>> /\ MayShift(Symbols, t)
  /\ \/ t = EndOfFile /\ line' = EndOfLine
     \/ t \in line.words /\ line.most > 0 /\ line' = [line EXCEPT !.most = @ - 1]
  /\ IF t \in {"ident", "string"}
     THEN LET text == New(Memory, "text", <<>>) IN IsNow(text.mem) /\ Put(0, t, text.val)
     ELSE Put(0, t, NULL) /\ UNCHANGED <<node, lost>>
  /\ UNCHANGED program

\* The line ends in a string: the lexer's buffer for it is forgotten.
OpenString ==
  /\ stack # <<>> /\ "string" \in line.words /\ line.most > 0
  /\ line' = EndOfLine
  /\ LET text == New(Memory, "text", <<>>)
         buf == New(text.mem, "buffer", <<text.val>>)
     IN node' = buf.mem.node /\ lost' = lost \cup {buf.val}
  /\ UNCHANGED <<stack, program>>

Make(r) ==
  /\ MayReduce(Symbols, r)
  /\ LET n == Len(r.rhs)
         syms == [i \in DOMAIN r.args |-> r.rhs[r.args[i]]]
         args == [i \in DOMAIN r.args |-> Values(n)[r.args[i]]]
         copies == CopyAll(Memory, syms, args)
         made == New(copies.mem, r.kind, copies.vals)
     IN IsNow(FreeAll(made.mem, args)) /\ Put(n, r.lhs, made.val)
  /\ UNCHANGED <<program, line>>

Hand(r) ==
  /\ MayReduce(Symbols, r)
  /\ Put(Len(r.rhs), r.lhs, IF r.arg = 0 THEN NULL ELSE Values(Len(r.rhs))[r.arg])
  /\ UNCHANGED <<node, lost, program, line>>

AppendTo(r) ==
  /\ MayReduce(Symbols, r)
  /\ LET n == Len(r.rhs)
         args == [i \in DOMAIN r.args |-> Values(n)[r.args[i]]]
         list == IF r.list = 0 THEN NULL ELSE Values(n)[r.list]
         longer[i \in 0..Len(args)] ==
           IF i = 0 THEN [mem |-> Memory, val |-> list]
           ELSE Link(longer[i - 1].mem, "expr", longer[i - 1].val, args[i])
     IN IsNow(FreeAll(longer[Len(args)].mem, args)) /\ Put(n, r.lhs, longer[Len(args)].val)
  /\ UNCHANGED <<program, line>>

EmptyLine ==
  /\ EndsWith(Symbols, <<"input", ";">>)
  /\ stack' = Under(1) /\ UNCHANGED <<node, lost, program, line>>

Statement(end) ==
  /\ EndsWith(Symbols, <<"input", "stmt", end>>)
  /\ LET stmt == Values(2)[1]
         longer == Link(Memory, "stmt", program, stmt)
     IN IsNow(FreeAll(longer.mem, <<stmt>>)) /\ program' = longer.val
  /\ stack' = Under(2) /\ UNCHANGED line

Accept ==
  /\ Symbols = <<"input">> /\ stack' = <<>> /\ line' = EndOfLine
  /\ UNCHANGED <<node, lost, program>>

\* program_run reads the program, and stmt_list_free drops it.
Run ==
  /\ stack = <<>> /\ program # NULL
  /\ IsNow(FreeAll(Memory, <<program>>)) /\ program' = NULL
  /\ UNCHANGED <<stack, line>>

\* Mutant of SyntaxError: no %destructor for lists.
SyntaxErrorKeepsLists ==
  /\ stack # <<>>
  /\ LET values == {i \in DOMAIN stack : stack[i].sym \notin {"exprlist", "opt_exprlist"}} IN
     IsNow(FreeAll(Memory, Append([i \in DOMAIN stack |->
                                     IF i \in values THEN stack[i].val ELSE NULL], program)))
  /\ stack' = <<>> /\ program' = NULL /\ line' = EndOfLine

\* At any token: the values on the stack are destroyed, then the statements
\* before.  The token itself is dropped with its text.
SyntaxError ==
  /\ stack # <<>>
  /\ IsNow(FreeAll(Memory, Append([i \in DOMAIN stack |-> stack[i].val], program)))
  /\ stack' = <<>> /\ program' = NULL /\ line' = EndOfLine

Parse ==
  \/ Prompt
  \/ \E t \in Tokens \cup {EndOfFile} : Shift(t)
  \/ OpenString
  \/ \E r \in MakeRules : Make(r)
  \/ \E r \in HandRules : Hand(r)
  \/ \E r \in AppendRules : AppendTo(r)
  \/ EmptyLine
  \/ \E end \in LineEnds : Statement(end)
  \/ Accept
  \/ SyntaxError

Next == Parse \/ Run

Spec == Init /\ [][Next]_vars

-----------------------------------------------------------------------------
Expressions == Literals \cup Operators \cup
               {"ident", "string", "neg", "item", "list", "dict", "attr", "other"}
Statements == {"assign", "print"}

\* What the kids of a block are, in the order of the fields.
Fields(kind) ==
  CASE kind \in {"ident", "string", "buffer"} -> <<{"text"}>>
    [] kind \in {"neg", "print"} -> <<Expressions>>
    [] kind \in Operators \cup {"item"} -> <<Expressions, Expressions>>
    [] kind = "attr" -> <<Expressions, {"text"}>>
    [] kind = "assign" -> <<{"text"}, Expressions>>
    [] kind \in {"list", "dict"} -> <<{"cell", "NULL"}>>
    [] kind = "cell" -> <<Expressions \cup Statements, {"cell", "NULL"}>>
    [] OTHER -> <<>>

\* What the value of a symbol points to.
Holds(sym) ==
  CASE sym \in {"ident", "string"} -> {"text"}
    [] sym = "expr" -> Expressions \cup {"NULL"}
    [] sym = "stmt" -> Statements
    [] sym \in {"exprlist", "dictlist"} -> {"cell"}
    [] sym \in {"opt_exprlist", "opt_dictlist"} -> {"cell", "NULL"}
    [] OTHER -> {"NULL"}

KindOf(a) == IF a = NULL THEN "NULL" ELSE IF a \in DOMAIN node THEN node[a].kind ELSE "free"

\* Every pointer leads to a structure of the type of its field, in a block that
\* was not freed: the program's, while it is run, and those on the stack.
SyntaxTypeOK ==
  /\ DOMAIN node \subseteq Blocks /\ lost \subseteq DOMAIN node
  /\ \A a \in DOMAIN node :
       LET f == Fields(node[a].kind) IN
       /\ Len(node[a].kids) = Len(f)
       /\ \A i \in DOMAIN f : KindOf(node[a].kids[i]) \in f[i]
  /\ \A i \in DOMAIN stack : KindOf(stack[i].val) \in Holds(stack[i].sym)
  /\ KindOf(program) \in {"cell", "NULL"}

\* The pointers there are: fields of blocks, places of the stack, the program.
Pointers ==
  {<<"field", a, i>> : a \in DOMAIN node, i \in 1..2}
    \cup {<<"stack", i>> : i \in DOMAIN stack} \cup {<<"program">>}
Target(p) ==
  CASE p[1] = "field" -> IF p[3] \in DOMAIN node[p[2]].kids THEN node[p[2]].kids[p[3]] ELSE NULL
    [] p[1] = "stack" -> stack[p[2]].val
    [] OTHER -> program

\* A block has one pointer to it, or none and is lost: it is freed once, when
\* what points to it is, and never under the eyes of somebody else.  Nothing is
\* lost but the parts of attribute expressions that were freed, and the buffers
\* of open strings: all else somebody will free.
OneOwner ==
  /\ \A p, q \in Pointers : p # q /\ Target(p) # NULL => Target(p) # Target(q)
  /\ \A p \in Pointers : Target(p) \notin lost
  /\ DOMAIN node = UNION {Tree(Memory, a) :
       a \in lost \cup {program} \cup {stack[i].val : i \in DOMAIN stack}}

\* The tree of every expression, statement and text, and the items of every
\* list.
Terms ==
  LET term[a \in DOMAIN node] ==
        LET n == node[a] IN
        CASE n.kind = "other" -> <<"none">>
          [] n.kind \in {"list", "dict"} ->
               <<n.kind, <<"items">> \o (IF n.kids[1] = NULL THEN <<>> ELSE term[n.kids[1]])>>
          [] n.kind = "cell" ->
               <<term[n.kids[1]]>> \o (IF n.kids[2] = NULL THEN <<>> ELSE term[n.kids[2]])
          [] OTHER -> <<n.kind>> \o [i \in DOMAIN n.kids |-> term[n.kids[i]]]
  IN term

ProgramTerms == IF program = NULL THEN <<>> ELSE Terms[program]

Term(sym, a) ==
  IF sym \in {"exprlist", "dictlist", "opt_exprlist", "opt_dictlist"}
  THEN <<"items">> \o (IF a = NULL THEN <<>> ELSE Terms[a])
  ELSE IF a = NULL THEN <<"none">> ELSE Terms[a]

\* The blocks hold what Program says: copying, sharing and freeing does nothing
\* to a program that its text would not.
P == INSTANCE Program WITH
       stack <- [i \in DOMAIN stack |->
                   [sym |-> stack[i].sym, val |-> Term(stack[i].sym, stack[i].val)]],
       program <- ProgramTerms
ProgramSpec == P!Spec
=============================================================================
