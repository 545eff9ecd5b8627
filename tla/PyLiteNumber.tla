---------------------------- MODULE PyLiteNumber ----------------------------
(***************************************************************************)
(* Numbers (types/common/number.c, bool.c): the arithmetic of the operator *)
(* tables, comparison, hash, and the text of an int.                       *)
(*                                                                         *)
(* A program computes: an accumulator takes the result of one operator     *)
(* after the other.  Next to it stands the value it should have.  An       *)
(* operation is tame where the code does what the operator means; the      *)
(* model stops after one that is not.                                      *)
(*                                                                         *)
(* A number is kept as twice its value, so that floats may be halves.      *)
(***************************************************************************)
EXTENDS Integers, Sequences

CONSTANTS
    WordBits,   \* width of pl_int_t
    IntBits,    \* width of int and uint32_t, of abs() and of the casts
    Operands,   \* right operands, a set of numbers
    MaxTwice,   \* bound: twice the largest float
    MaxCount,   \* bound: bits shifted by, and exponents
    Radix       \* of printed and read numbers: 10

ASSUME NumberAssumption ==
    /\ WordBits \in Nat /\ IntBits \in Nat /\ 0 < IntBits /\ IntBits < WordBits
    /\ MaxTwice \in Nat /\ Radix \in Nat /\ Radix > 1
    /\ MaxCount \in Nat /\ MaxCount < WordBits     \* more is undefined in C

VARIABLES
    acc,        \* the accumulator
    oper,       \* the right operand
    meant,      \* twice what the accumulator should be
    exact       \* every operation was tame

nvars == <<acc, oper, meant, exact>>

-----------------------------------------------------------------------------
(* Arithmetic of C. *)
Pow(x, n) == LET p[i \in 0 .. n] == IF i = 0 THEN 1 ELSE x * p[i - 1] IN p[n]
Words == Pow(2, WordBits)       \* how many values a pl_int_t has
Ints == Pow(2, IntBits)         \* ... and an int, or uint32_t
Unsigned(v) == v % Ints
Signed(v, size) == ((v + size \div 2) % size) - size \div 2
Magnitude(v) == IF v < 0 THEN -v ELSE v
Quotient(a, b) ==
    LET q == Magnitude(a) \div Magnitude(b) IN IF (a < 0) = (b < 0) THEN q ELSE -q
Remainder(a, b) == a - b * Quotient(a, b)

(* abs(), of a C int: what it gives for the least one, which has no        *)
(* magnitude among them, C leaves open; it stays what it is.               *)
CAbs(v) ==
    LET n == Signed(v, Ints) IN IF n = -(Ints \div 2) THEN n ELSE Magnitude(n)

(* Arithmetic of Python *)
FloorDiv(a, b) == IF b > 0 THEN a \div b ELSE (-a) \div (-b)
Modulo(a, b) == a - b * FloorDiv(a, b)

IntNum(v) == [kind |-> "int", twice |-> 2 * Signed(v, Words)]
FloatNum(t) == [kind |-> "float", twice |-> t]
BoolNum(b) == [kind |-> "bool", twice |-> IF b THEN 2 ELSE 0]

IsInt(x) == x.kind = "int"
IsFloat(x) == x.kind = "float"
Whole(x) == x.twice % 2 = 0
Trunc(x) == Quotient(x.twice, 2)
FitsUnsigned(t) == 0 <= t /\ t < 2 * Ints
FitsWord(v) == v = Signed(v, Words)

(* An int fits its word, a bool is 0 or 1. *)
IsNumber(x) ==
    /\ x \in [kind : {"int", "float", "bool"}, twice : Int]
    /\ IsInt(x) => Whole(x) /\ FitsWord(x.twice \div 2)
    /\ x.kind = "bool" => x.twice \in {0, 2}

ASSUME OperandsAssumption == \A x \in Operands : IsNumber(x)

(* An operator that gives r, where m would be right; or none *)
Gives(r, m, tame) == [num |-> r, meant |-> m, tame |-> tame]
Sum(a, b, t) ==
    IF IsInt(a) /\ IsInt(b)
    THEN Gives(IntNum(t \div 2), t, FitsWord(t \div 2))
    ELSE Gives(FloatNum(t), t, TRUE)

Plus(a, b) == Sum(a, b, a.twice + b.twice)
Minus(a, b) == Sum(a, b, a.twice - b.twice)
Mul(a, b) == Sum(a, b, (a.twice * b.twice) \div 2)

(* The divisor is cast to uint32_t.  Where that gives 0 an int dividend    *)
(* traps, and so does the cast of what a float dividend becomes.           *)
DivideBy(b) == Unsigned(Trunc(b))
FloorDivision(a, b) ==
    LET d == DivideBy(b)
    IN  Gives(IF d = 0 THEN a ELSE IntNum(Quotient(a.twice, 2 * d)),
              2 * FloorDiv(a.twice, b.twice),
              /\ Whole(b) /\ b.twice > 0 /\ FitsUnsigned(b.twice)
              /\ \/ a.twice >= 0 /\ (IsFloat(a) => FitsUnsigned(a.twice))
                 \/ IsInt(a) /\ Remainder(a.twice, b.twice) = 0)

(* True division, where the quotient is a whole number of halves *)
Divide(a, b) ==
    LET t == Quotient(2 * a.twice, b.twice) IN Gives(FloatNum(t), t, TRUE)

ModAlwaysFixed(a, b) ==         \* mutant: a zero remainder gets the divisor, too
    LET r == Remainder(a.twice, b.twice)
        t == IF IsInt(a) /\ b.twice < 0 THEN r + b.twice ELSE r
    IN  Gives(IF IsInt(a) /\ IsInt(b) THEN IntNum(t \div 2) ELSE FloatNum(t),
              Modulo(a.twice, b.twice),
              r = 0 \/ (a.twice > 0 /\ (b.twice > 0 \/ IsInt(a))))

(* The sign of a remainder is put right for a negative divisor of an int,  *)
(* as if the dividend were not negative                                    *)
Mod(a, b) ==
    LET r == Remainder(a.twice, b.twice)
        t == IF IsInt(a) /\ b.twice < 0 /\ r # 0 THEN r + b.twice ELSE r
    IN  Gives(IF IsInt(a) /\ IsInt(b) THEN IntNum(t \div 2) ELSE FloatNum(t),
              Modulo(a.twice, b.twice),
              r = 0 \/ (a.twice > 0 /\ (b.twice > 0 \/ IsInt(a))))

Power(a, b) ==
    LET v == Pow(Trunc(a), Trunc(b))
    IN  Gives(IntNum(v), 2 * v, FitsWord(v))

LeftShift(a, b) ==
    LET v == Trunc(a) * Pow(2, Trunc(b))
    IN  Gives(IntNum(v), 2 * v, FitsWord(v))
RightShift(a, b) ==
    LET v == Trunc(a) \div Pow(2, Trunc(b)) IN Gives(IntNum(v), 2 * v, TRUE)

(* Unary + is abs(), unary - is -abs(); of an int by way of a C int: right *)
(* for what is not negative and a C int holds                              *)
KeptByAbs(v) == v >= 0 /\ CAbs(v) = v
Positive(a) ==
    IF IsInt(a) THEN Gives(IntNum(CAbs(Trunc(a))), a.twice, KeptByAbs(Trunc(a)))
    ELSE Gives(FloatNum(Magnitude(a.twice)), a.twice, a.twice >= 0)
Negative(a) ==
    IF IsInt(a)
    THEN Gives(IntNum(Signed(-CAbs(Trunc(a)), Ints)), -a.twice, KeptByAbs(Trunc(a)))
    ELSE Gives(FloatNum(-Magnitude(a.twice)), -a.twice, a.twice >= 0)
BitNot(a) == Gives(IntNum(-Trunc(a) - 1), -a.twice - 2, TRUE)

-----------------------------------------------------------------------------
NumberInit ==
    /\ acc \in Operands /\ oper \in Operands
    /\ meant = acc.twice /\ exact = TRUE

Compute(g) ==
    /\ acc' = g.num /\ meant' = g.meant /\ exact' = g.tame
    /\ g.tame => Magnitude(g.num.twice) <= MaxTwice \/ IsInt(g.num)
    /\ oper' \in Operands

(* The operator tables have these for ints and for floats, by the type of  *)
(* the left operand; a division by zero raises.                            *)
Arithmetic ==
    /\ oper.kind # "bool"
    /\ \/ Compute(Plus(acc, oper)) \/ Compute(Minus(acc, oper))
       \/ (acc.twice * oper.twice) % 2 = 0 /\ Compute(Mul(acc, oper))
       \/ /\ oper.twice # 0
          /\ \/ Compute(FloorDivision(acc, oper)) \/ Compute(Mod(acc, oper))
             \/ Remainder(2 * acc.twice, oper.twice) = 0 /\ Compute(Divide(acc, oper))

OfInt == IsInt(acc) /\ Arithmetic
OfFloat == IsFloat(acc) /\ Arithmetic

Shifting ==
    /\ IsInt(acc) /\ IsInt(oper) /\ Trunc(oper) \in 0 .. MaxCount
    /\ Compute(Power(acc, oper)) \/ Compute(LeftShift(acc, oper)) \/ Compute(RightShift(acc, oper))

Unary ==
    /\ acc.kind # "bool"
    /\ Compute(Positive(acc)) \/ Compute(Negative(acc)) \/ (IsInt(acc) /\ Compute(BitNot(acc)))

NumberNext == exact /\ (OfInt \/ OfFloat \/ Shifting \/ Unary)
NumberSpec == NumberInit /\ [][NumberNext]_nvars

-----------------------------------------------------------------------------
(* Comparison: int_cmp, float_cmp, bool_cmp and their _eq.  The operator   *)
(* tables read -1 as less, 0 as equal, 1 as greater.                       *)
Compare(a, b) == IF a.twice < b.twice THEN -1 ELSE IF a.twice > b.twice THEN 1 ELSE 0
NumEq(a, b) == a.twice = b.twice

NumHashBytes(a) ==              \* mutant: every float mixes its bytes
    IF IsFloat(a) THEN {<<"bytes", a.twice>>} ELSE {<<"whole", Unsigned(Trunc(a))>>}

(* What the hash may be: of a whole float the cast to uint32_t, which is   *)
(* undefined beyond its range; of another one a mix of its bytes           *)
NumHash(a) ==
    CASE IsFloat(a) /\ ~Whole(a) -> {<<"bytes", a.twice>>}
      [] IsFloat(a) /\ ~FitsUnsigned(a.twice) -> {<<"whole", h>> : h \in 0 .. Ints - 1}
      [] OTHER -> {<<"whole", Unsigned(Trunc(a))>>}

(* pylt_obj_int_to_ucs4: the length is counted first, then the slots are   *)
(* filled from behind, the sign into the first.  Where abs() gave a        *)
(* negative int there are no digits.                                       *)
Sign == -1
Digits == [n \in Nat |-> CHOOSE k \in 1 .. WordBits :
                            n < Pow(Radix, k) /\ (k > 1 => n >= Pow(Radix, k - 1))]
Text(v) ==
    LET n == CAbs(v)
        digits == IF n < 0 THEN 0 ELSE Digits[n]
        len == digits + IF v < 0 /\ n # 0 THEN 1 ELSE 0
    IN  [i \in 1 .. len |->
            IF len - i < digits THEN (n \div Pow(Radix, len - i)) % Radix ELSE Sign]

(* _read_x_int: the weight of the first digit, then of every next one *)
ReadInt(digits) ==
    LET n == Len(digits)
        read[i \in 0 .. n] ==
            IF i = 0 THEN [ret |-> 0, val |-> Pow(Radix, n - 1)]
            ELSE LET r == read[i - 1]
                 IN  [ret |-> r.ret + digits[i] * r.val, val |-> r.val \div Radix]
    IN  IF n = 0 THEN 0 ELSE read[n].ret

-----------------------------------------------------------------------------

(* Numbers that compare as equal, of whatever kind, are equal and have the *)
(* same hash, so that a dict finds the one under the other: within the     *)
(* range of the casts.                                                     *)
EqualNumbersHashEqual ==
    Compare(acc, oper) = 0 /\ FitsUnsigned(acc.twice) =>
        NumEq(acc, oper) /\ NumHash(acc) = NumHash(oper)

ReadsBack ==
    IsInt(acc) /\ acc.twice # 0 /\ Magnitude(Trunc(acc)) < Ints \div 2 =>
        LET text == Text(Trunc(acc))
        IN  ReadInt(IF Trunc(acc) < 0 THEN Tail(text) ELSE text) = Magnitude(Trunc(acc))

(* A chain of tame operations gives the value that Python gives, and what  *)
(* is printed of an int whose magnitude a C int holds reads back as that.  *)
NumbersAsMeant == (exact => acc.twice = meant) /\ ReadsBack
=============================================================================
