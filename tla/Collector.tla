------------------------------ MODULE Collector ------------------------------
(***************************************************************************)
(* The objects of the language and "The Worst Garbage Collector" (gc.c,    *)
(* object_* and context_* of program.c).                                   *)
(*                                                                         *)
(* The shell runs a line, statement by statement, and then calls gc_empty. *)
(* While a line runs, objects are made and variables assigned; nothing is  *)
(* freed.  A value that is a number or NULL holds no object, and is left   *)
(* out of the sets of values below.  An object is known by its address: a  *)
(* freed one comes back as another object.                                 *)
(*                                                                         *)
(* What a line evaluates is left open: it may make any object from the     *)
(* values it has, which are those of the variables, those it made, and the *)
(* items of dictionaries among them.                                       *)
(***************************************************************************)
EXTENDS FiniteSets, Naturals

CONSTANTS
  Objects,   \* the addresses objects may have
  Vars,      \* the variables' names
  NoObject,  \* a value that is NULL or a number
  MaxParts   \* bound: the objects one list or dictionary holds

ASSUME CollectorAssumption == NoObject \notin Objects

VARIABLES
  kind,      \* object->type, of the objects allocated
  parts,     \* the objects among the values of a list or dictionary
  mark,      \* object->mark
  tracked,   \* the objects on the list "tracked"
  env,       \* context->env
  temps      \* the objects the line has come upon

vars == <<kind, parts, mark, tracked, env, temps>>

Allocated == DOMAIN kind
EnvObjects == {env[x] : x \in Vars} \ {NoObject}
Known == temps \cup EnvObjects

\* The objects reached from those of R, where an object o has the parts f[o]:
\* all that every set which contains R, and with an object its parts, contains.
Closed(f, S) == \A o \in S \cap DOMAIN f : f[o] \subseteq S
ReachIn(f, R) ==
  {o \in Objects : \A S \in SUBSET Objects : R \subseteq S /\ Closed(f, S) => o \in S}

Reach(R) == ReachIn(parts, R)

-----------------------------------------------------------------------------
(* A line runs *)

\* object_alloc: mark is what the memory held before.
ObjectAlloc(o, k, ps) ==
  /\ o \in Objects \ Allocated
  /\ kind' = [p \in Allocated \cup {o} |-> IF p = o THEN k ELSE kind[p]]
  /\ parts' = [p \in Allocated \cup {o} |-> IF p = o THEN ps ELSE parts[p]]
  /\ \E m \in BOOLEAN :
       mark' = [p \in Allocated \cup {o} |-> IF p = o THEN m ELSE mark[p]]
  /\ UNCHANGED env

GcTrack(o) == tracked' = tracked \cup {o}

ObjectString(o) ==
  ObjectAlloc(o, "string", {}) /\ GcTrack(o) /\ temps' = temps \cup {o}

ObjectList(o, ps) ==
  ObjectAlloc(o, "list", ps) /\ GcTrack(o) /\ temps' = temps \cup {o}

\* A dictionary is not given to gc_track.  If a key is not a string, or its
\* value is missing, NULL is returned and the object is left where it is.
ObjectDict(o, ps) ==
  /\ ObjectAlloc(o, "dict", ps)
  /\ UNCHANGED tracked
  /\ temps' = temps \cup {o} \/ temps' = temps

\* d["key"] and x: what a dictionary or variable holds becomes a value at hand.
Item(d, v) ==
  /\ kind[d] = "dict" /\ v \in parts[d]
  /\ temps' = temps \cup {v}
  /\ UNCHANGED <<kind, parts, mark, tracked, env>>

Identifier(x) ==
  /\ env[x] # NoObject
  /\ temps' = temps \cup {env[x]}
  /\ UNCHANGED <<kind, parts, mark, tracked, env>>

ContextPut(x, v) ==
  /\ env' = [env EXCEPT ![x] = v]
  /\ UNCHANGED <<kind, parts, mark, tracked, temps>>

-----------------------------------------------------------------------------
(* gc_empty, after the line *)

\* Mutant of Marked: only what the variables hold themselves is marked.
MarkedShallow == EnvObjects

\* object_mark goes through lists and dictionaries.
Marked == Reach(EnvObjects)

\* Mutant of MarksAfter: the first loop, which takes old marks back, is left out.
MarksAfterStale == [o \in Allocated |-> o \in Marked \/ mark[o]]

MarksAfter ==
  [o \in Allocated |-> o \in Marked \/ (o \notin tracked /\ mark[o])]

Sweep == {o \in tracked : ~MarksAfter[o]}

Survivors == Allocated \ Sweep

\* Mutant of GcEmpty: the list keeps the entries of objects it freed.
GcEmptyKeepsEntries ==
  /\ kind' = [o \in Survivors |-> kind[o]]
  /\ parts' = [o \in Survivors |-> parts[o]]
  /\ mark' = [o \in Survivors |-> MarksAfter[o]]
  /\ temps' = {}
  /\ UNCHANGED <<tracked, env>>

GcEmpty ==
  /\ kind' = [o \in Survivors |-> kind[o]]
  /\ parts' = [o \in Survivors |-> parts[o]]
  /\ mark' = [o \in Survivors |-> MarksAfter[o]]
  /\ tracked' = tracked \ Sweep
  /\ temps' = {}
  /\ UNCHANGED env

-----------------------------------------------------------------------------
\* The shell's start.
Init ==
  /\ kind = [o \in {} |-> "string"]
  /\ parts = [o \in {} |-> {}]
  /\ mark = [o \in {} |-> FALSE]
  /\ tracked = {}
  /\ env = [x \in Vars |-> NoObject]
  /\ temps = {}

Next ==
  \/ \E o \in Objects : ObjectString(o)
  \/ \E o \in Objects, ps \in SUBSET Known :
       /\ Cardinality(ps) <= MaxParts
       /\ ObjectList(o, ps) \/ ObjectDict(o, ps)
  \/ \E d \in Known, v \in Objects : Item(d, v)
  \/ \E x \in Vars : Identifier(x)
  \/ \E x \in Vars, v \in Known \cup {NoObject} : ContextPut(x, v)
  \/ GcEmpty

Spec == Init /\ [][Next]_vars

-----------------------------------------------------------------------------
CollectorTypeOK ==
  /\ Allocated \subseteq Objects
  /\ kind \in [Allocated -> {"string", "list", "dict"}]
  /\ parts \in [Allocated -> SUBSET Objects]
  /\ mark \in [Allocated -> BOOLEAN]
  /\ tracked \subseteq Allocated
  /\ env \in [Vars -> Objects \cup {NoObject}]
  /\ temps \subseteq Objects

\* The program can only come to objects that are allocated: neither what a
\* variable holds, however deep inside lists and dictionaries, nor what the
\* running line has at hand was ever freed.
NoDangling == Reach(Known) \subseteq Allocated

\* No object holds itself, however deep: the recursions of object_mark and
\* val_to_str end.  Objects are made of older ones; this could only fail
\* through an address that was freed and used again while still held.
NoCycles == \A o \in Reach(Known) \cap Allocated : o \notin Reach(parts[o])

\* After gc_empty what the program cannot come to is freed, except for
\* dictionaries: the strings and lists that only a lost dictionary holds go.
OnlyDictsLeak ==
  [][GcEmpty => \A o \in Allocated' : o \in Marked \/ kind[o] = "dict"]_vars
=============================================================================
