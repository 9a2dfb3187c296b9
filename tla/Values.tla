------------------------------- MODULE Values -------------------------------
(***************************************************************************)
(* The values of program.c, as words: a number is shifted left with bit 0  *)
(* set, an object is the address of a block, and 0 is None.  A number is   *)
(* taken out of its word by an unsigned shift, so that it is never         *)
(* negative: -1 is 2 * Half - 1 in a word, and Half - 1 once it is a value.*)
(* int arithmetic wraps, as it does in the program compiled with -O0.      *)
(***************************************************************************)
EXTENDS Integers, SequencesExt

CONSTANT Half   \* half the number of words: 2^31

ASSUME ValuesAssumption == Half \in Nat \ {0}

None == 0
Fault == -1   \* no value: the processor's exception for a division by zero

\* What an int holds of n.
Int32(n) == LET w == n % (2 * Half) IN IF w < Half THEN w ELSE w - 2 * Half

IsNumber(v) == v % 2 = 1                      \* VAL_IS_NUMBER
NumberOf(v) == v \div 2                       \* VAL_NUMBER
NumberUntagged(n) == (2 * n) % (2 * Half)     \* mutant: bit 0 is not set
Number(n) == ((2 * n) % (2 * Half)) + 1       \* val_number

\* powi: r *= x, y - 1 times, and 1 for every y that is not positive.
PowiOnce(x, y) ==   \* mutant: one factor too many, and y is not asked
  LET r[n \in Nat] == IF n = 0 THEN x ELSE Int32(r[n - 1] * x) IN r[y]

Powi(x, y) ==
  LET r[n \in Nat] == IF n <= 1 THEN x ELSE Int32(r[n - 1] * x)
  IN IF y <= 0 THEN 1 ELSE r[y]

\* eval of a minus sign: of what is no number it makes 0.
Negated(v) == IF IsNumber(v) THEN Number(Int32(-NumberOf(v))) ELSE Number(0)

\* eval of an operator.  As neither operand is negative \div and % are C's.
Binary(op, lhs, rhs) ==
  LET ln == NumberOf(lhs)
      rn == NumberOf(rhs) IN
  IF ~(IsNumber(lhs) /\ IsNumber(rhs)) THEN None
  ELSE IF op \in {"/", "%"} /\ rn = 0 THEN Fault
  ELSE Number(CASE op = "+" -> Int32(ln + rn)
                [] op = "*" -> Int32(ln * rn)
                [] op = "-" -> Int32(ln - rn)
                [] op = "/" -> ln \div rn
                [] op = "%" -> ln % rn
                [] op = "**" -> Powi(ln, rn))

-----------------------------------------------------------------------------
\* atoi
Atoi(digits) == FoldLeft(LAMBDA r, c : Int32(r * 10 + c), 0, digits)

\* The power of base that vasputf begins with, in a field of width digits.
FirstIndex(n, base, width) ==
  LET from[i \in Nat] == [digits \in Nat |->
        IF n \div i >= base \/ digits < width THEN from[i * base][digits + 1] ELSE i]
  IN from[1][1]

Pad == -1   \* the character in front of the digits

FormattedPadsAll(n, base, width) ==   \* mutant: zeros are padding anywhere
  LET out[i \in Nat] == [m \in Nat |->
        <<IF m \div i = 0 /\ i # 1 THEN Pad ELSE m \div i>>
          \o IF i >= base THEN out[i \div base][m % i] ELSE <<>>]
  IN out[FirstIndex(n, base, width)][n]

\* %d and %x of vasputf, with a width.  The separator of the format is never
\* put out: the test for it asks whether 3 or 4 is 0.
Formatted(n, base, width) ==
  LET out[i \in Nat] == [m \in Nat |->
        LET c == m \div i IN
        <<IF c = 0 /\ i > n /\ i # 1 THEN Pad ELSE c>>
          \o IF i >= base THEN out[i \div base][m - c * i] ELSE <<>>]
  IN out[FirstIndex(n, base, width)][n]

\* The number that a sequence of digits is.
Reading(digits, base) == FoldLeft(LAMBDA r, c : r * base + c, 0, digits)

\* The text of a number is that number when it is read again, and in a wider
\* field it has padding before its digits and none behind.
ReadsBack(n, base, width) ==
  LET text == Formatted(n, base, width)
      padding == Cardinality({p \in DOMAIN text : text[p] = Pad})
      shown == SubSeq(text, padding + 1, Len(text)) IN
  /\ \A p \in 1..padding : text[p] = Pad
  /\ \A p \in DOMAIN shown : shown[p] \in 0..(base - 1)
  /\ shown # <<>> /\ (Len(shown) > 1 => shown[1] # 0)
  /\ Len(text) = IF width > Len(shown) THEN width ELSE Len(shown)
  /\ Reading(shown, base) = n
  /\ base = 10 /\ n < Half => Atoi(shown) = n
=============================================================================
