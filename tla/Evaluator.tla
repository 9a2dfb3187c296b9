----------------------------- MODULE Evaluator -----------------------------
(***************************************************************************)
(* program_run: the statements the parser left in program.stmt_list are    *)
(* evaluated in the shell's context and their values printed.              *)
(*                                                                         *)
(* Names and strings have one text (see Grammar), so that the context has  *)
(* one variable and a dictionary at most one key.  When objects are freed  *)
(* is module Collector's subject; here none is before the line is over.    *)
(***************************************************************************)
EXTENDS Syntax, Values

CONSTANT DigitsOf   \* the digits of every literal

ASSUME EvaluatorAssumption == DigitsOf \in [Literals -> Seq(0..9)]

VARIABLES
  context,    \* what the name stands for, None if nothing was assigned
  object,     \* the objects, by address: [type, parts], parts being values
  out,        \* the values printed for the last line
  halted      \* an exception stopped the machine

evars == <<context, object, out, halted>>
allVars == <<vars, evars>>

-----------------------------------------------------------------------------
(* eval, on a machine s: [context, object, out, halted] and the val returned.
   Once an exception has halted it nothing more is done. *)

Machine == [context |-> context, object |-> object, out |-> out, halted |-> halted, val |-> None]

Returns(s, v) == IF v = Fault THEN [s EXCEPT !.halted = TRUE] ELSE [s EXCEPT !.val = v]

\* object_alloc, which returns the next address (see Aligned in Heap).
ObjectAlloc(s, type) ==
  LET a == 4 * (Cardinality(DOMAIN s.object) + 1) IN
  [s EXCEPT !.object = @ @@ (a :> [type |-> type, parts |-> <<>>]), !.val = a]

\* VAL_IS_OBJECT and a look at the type.  None has the type that is read at
\* address 0, which is none of these (see NullIsNoExpr in Heap).
Is(s, v, type) == v \in DOMAIN s.object /\ s.object[v].type = type

\* The expressions of a list.
Items(list) ==
  LET from[a \in DOMAIN node] ==
        <<node[a].kids[1]>> \o (IF node[a].kids[2] = NULL THEN <<>> ELSE from[node[a].kids[2]])
  IN IF list = NULL THEN <<>> ELSE from[list]

RECURSIVE Eval(_, _)

\* One expression after the other: the machine after the last, and the values.
EvalAll(s, exprs) ==
  FoldLeft(LAMBDA done, a : LET r == Eval(done.s, a) IN [s |-> r, vals |-> Append(done.vals, r.val)],
           [s |-> s, vals |-> <<>>], exprs)

ObjectList(s, exprs) ==
  LET new == ObjectAlloc(s, "list")
      all == EvalAll(new, exprs)
  IN IF all.s.halted THEN all.s
     ELSE [all.s EXCEPT !.object[new.val].parts = all.vals, !.val = new.val]

\* Keys and values in turn, up to the first key that is no string: then NULL is
\* returned, and neither its value nor what follows is evaluated.
ObjectDict(s, exprs) ==
  LET new == ObjectAlloc(s, "dict")
      Insert(done, i) ==
        LET key == Eval(done, exprs[2 * i - 1])
            value == Eval(key, exprs[2 * i]) IN
        IF done.halted \/ done.val = None THEN done
        ELSE IF key.halted THEN key
        ELSE IF ~Is(key, key.val, "string") THEN [key EXCEPT !.val = None]
        ELSE IF value.halted THEN value
        ELSE [value EXCEPT !.object[new.val].parts = <<value.val>>, !.val = new.val]
  IN FoldLeft(Insert, new, [i \in 1..(Len(exprs) \div 2) |-> i])

Item(s, lhs, rhs) ==
  IF Is(s, lhs, "dict") /\ Is(s, rhs, "string") /\ s.object[lhs].parts # <<>>
  THEN s.object[lhs].parts[1] ELSE None

\* The parts of an attribute are not evaluated, and neither is what was copied
\* from NULL.
Eval(s, a) ==
  LET n == node[a]
      args == EvalAll(s, n.kids) IN
  CASE s.halted -> s
    [] n.kind \in Literals -> Returns(s, Number(Atoi(DigitsOf[n.kind])))
    [] n.kind = "ident" -> Returns(s, s.context)
    [] n.kind = "string" -> ObjectAlloc(s, "string")
    [] n.kind = "list" -> ObjectList(s, Items(n.kids[1]))
    [] n.kind = "dict" -> ObjectDict(s, Items(n.kids[1]))
    [] n.kind \in {"attr", "other"} -> Returns(s, None)
    [] n.kind \in Operators \cup {"neg", "item"} ->
         IF args.s.halted THEN args.s
         ELSE Returns(args.s, CASE n.kind = "neg" -> Negated(args.vals[1])
                                [] n.kind = "item" -> Item(args.s, args.vals[1], args.vals[2])
                                [] OTHER -> Binary(n.kind, args.vals[1], args.vals[2]))

\* One statement after another.
Execute(s, stmt) ==
  LET n == node[stmt]
      r == Eval(s, n.kids[Len(n.kids)]) IN
  IF s.halted \/ r.halted THEN [s EXCEPT !.halted = TRUE]
  ELSE IF n.kind = "assign" THEN [r EXCEPT !.context = r.val]
  ELSE [r EXCEPT !.out = Append(@, r.val)]

Executed == FoldLeft(Execute, Machine, Items(program))

\* val_to_str: the tokens of a value's text.  An object is not changed once it
\* is made, so that its text is the same at any time.
Joined(texts) ==
  FoldLeftDomain(LAMBDA text, i : text \o (IF i = 1 THEN <<>> ELSE <<",">>) \o texts[i],
                 <<>>, texts)

RECURSIVE ValToStr(_)
ValToStr(v) ==
  LET parts == [i \in DOMAIN object[v].parts |-> ValToStr(object[v].parts[i])] IN
  IF IsNumber(v) THEN [i \in DOMAIN Formatted(NumberOf(v), 10, 0) |->
                         ToString(Formatted(NumberOf(v), 10, 0)[i])]
  ELSE IF v = None THEN <<"None">>
  ELSE CASE object[v].type = "string" -> <<"string">>
         [] object[v].type = "list" -> <<"[">> \o Joined(parts) \o <<"]">>
         [] object[v].type = "dict" ->
              <<"{">> \o Joined([i \in DOMAIN parts |-> <<"string", ":">> \o parts[i]]) \o <<"}">>

-----------------------------------------------------------------------------
EvaluatorInit ==
  /\ Init
  /\ context = None /\ object = [a \in {} |-> None] /\ out = <<>> /\ halted = FALSE

\* Bound: the names are forgotten at the next prompt, and the objects with them.
ReadLine ==
  /\ ~halted /\ Prompt
  /\ context' = None /\ object' = [a \in {} |-> None] /\ out' = <<>> /\ UNCHANGED halted

ParseLine == ~halted /\ Parse /\ stack # <<>> /\ UNCHANGED evars

IsExecuted ==
  /\ context' = Executed.context /\ object' = Executed.object
  /\ out' = Executed.out /\ halted' = Executed.halted

RunProgram == ~halted /\ ~Executed.halted /\ Run /\ IsExecuted

\* isr_handler halts the machine in the middle of the line.
RunIntoFault ==
  /\ ~halted /\ stack = <<>> /\ program # NULL
  /\ Executed.halted /\ IsExecuted /\ UNCHANGED vars

Halted == halted /\ UNCHANGED allVars

EvaluatorNext == ReadLine \/ ParseLine \/ RunProgram \/ RunIntoFault \/ Halted

EvaluatorSpec == EvaluatorInit /\ [][EvaluatorNext]_allVars

-----------------------------------------------------------------------------
\* A value, wherever it is kept, is a number, None or the address of an object
\* there is: neither arithmetic nor an unfinished object makes a word that
\* object_mark or val_to_str would take for a pointer.
EvaluatorTypeOK ==
  /\ \A v \in {context} \cup Range(out) \cup UNION {Range(object[a].parts) : a \in DOMAIN object} :
       v \in 0..(2 * Half - 1) /\ (IsNumber(v) \/ v = None \/ v \in DOMAIN object)
  /\ \A a \in DOMAIN object : a % 2 = 0 /\ a \in 1..(2 * Half - 1)
  /\ halted \in BOOLEAN

\* What expressions mean, without words, addresses and memory: a number is its
\* residue modulo Half under exact arithmetic, a list the sequence of its items.
IsFault(m) == m[1] = "fault"
IsResidue(m) == m[1] = "number"

Arithmetic(op, x, y) ==
  CASE op = "+" -> <<"number", (x + y) % Half>>
    [] op = "-" -> <<"number", (x - y) % Half>>
    [] op = "*" -> <<"number", (x * y) % Half>>
    [] op = "**" -> <<"number", FoldLeft(LAMBDA r, i : (r * x) % Half, 1, [i \in 1..y |-> i])>>
    [] op \in {"/", "%"} /\ y = 0 -> <<"fault">>
    [] op = "/" -> <<"number", x \div y>>
    [] op = "%" -> <<"number", x % y>>

\* The meaning of a dictionary's items.
DictOf(items) ==
  LET ends == {i \in DOMAIN items : IsFault(items[i]) \/ (i % 2 = 1 /\ items[i] # <<"string">>)} IN
  IF ends # {} THEN IF IsFault(items[Min(ends)]) THEN <<"fault">> ELSE <<"none">>
  ELSE IF items = <<>> THEN <<"dict">> ELSE <<"dict", Last(items)>>

RECURSIVE Meaning(_, _)
Meaning(t, env) ==
  LET m == [i \in 2..Len(t) |-> Meaning(t[i], env)]
      items == [i \in 1..(Len(t[2]) - 1) |-> Meaning(t[2][i + 1], env)] IN
  CASE t[1] \in Literals ->
         <<"number", FoldLeft(LAMBDA r, c : r * 10 + c, 0, DigitsOf[t[1]]) % Half>>
    [] t[1] = "ident" -> env
    [] t[1] = "string" -> <<"string">>
    [] t[1] \in {"none", "attr"} -> <<"none">>
    [] t[1] = "list" ->
         IF \E i \in DOMAIN items : IsFault(items[i]) THEN <<"fault">> ELSE <<"list">> \o items
    [] t[1] = "dict" -> DictOf(items)
    [] t[1] = "neg" ->
         IF IsFault(m[2]) THEN <<"fault">>
         ELSE <<"number", IF IsResidue(m[2]) THEN (-m[2][2]) % Half ELSE 0>>
    [] t[1] \in Operators \cup {"item"} ->
         IF IsFault(m[2]) \/ IsFault(m[3]) THEN <<"fault">>
         ELSE IF t[1] = "item"
         THEN IF m[2][1] = "dict" /\ Len(m[2]) = 2 /\ m[3] = <<"string">> THEN m[2][2] ELSE <<"none">>
         ELSE IF IsResidue(m[2]) /\ IsResidue(m[3]) THEN Arithmetic(t[1], m[2][2], m[3][2])
         ELSE <<"none">>

\* The text of a meaning: what one would type for it.
RECURSIVE Shown(_)
Shown(m) ==
  LET digits[n \in Nat] ==
        IF n < 10 THEN <<ToString(n)>> ELSE Append(digits[n \div 10], ToString(n % 10))
      parts == [i \in 1..(Len(m) - 1) |-> Shown(m[i + 1])] IN
  CASE m[1] = "number" -> digits[m[2]]
    [] m[1] = "none" -> <<"None">>
    [] m[1] = "string" -> <<"string">>
    [] m[1] = "list" -> <<"[">> \o Joined(parts) \o <<"]">>
    [] m[1] = "dict" ->
         <<"{">> \o (IF parts = <<>> THEN <<>> ELSE <<"string", ":">> \o parts[1]) \o <<"}">>

\* The texts a line's statements print one after the other, the last name
\* assigned, and whether something was divided by zero.
LineMeans ==
  FoldLeft(LAMBDA done, stmt :
             LET m == Meaning(Last(stmt), done.env) IN
             IF done.fault \/ IsFault(m) THEN [done EXCEPT !.fault = TRUE]
             ELSE IF stmt[1] = "assign" THEN [done EXCEPT !.env = m]
             ELSE [done EXCEPT !.texts = Append(@, Shown(m))],
           [texts |-> <<>>, env |-> <<"none">>, fault |-> FALSE], ProgramTerms)

\* What is printed for a line is what was typed means, however lists,
\* dictionaries and arithmetic are nested; and the machine halts if and only if
\* something is divided by zero, after what was printed before.
PrintsMeaning ==
  [][stack = <<>> /\ program # NULL =>
       /\ [i \in DOMAIN out |-> ValToStr(out[i])]' = LineMeans.texts
       /\ halted' = LineMeans.fault]_allVars

\* What is printed for a number is that number when it is typed again, and in a
\* wider field it has padding before its digits and none behind.
PrintedReadsBack ==
  \A v \in Range(out) : IsNumber(v) =>
    /\ NumberOf(v) < Half
    /\ \A width \in 0..4, base \in {10, 16} : ReadsBack(NumberOf(v), base, width)
=============================================================================
