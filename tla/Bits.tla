-------------------------------- MODULE Bits --------------------------------
(***************************************************************************)
(* bits.c, the solutions of the data lab's puzzles, operator by operator,  *)
(* and tests.c, what each puzzle asks for.  The functions are applied to   *)
(* the sequence of their arguments, as btest calls them through pointers.  *)
(***************************************************************************)
EXTENDS Words, Sequences

LOCAL TMin == {31}

bitXor(x, y) == Not(Not(Not(x) \cap y) \cap Not(x \cap Not(y)))

tmin == Shl({0}, 31)

isTmax(x) ==
    LET a == Add(x, {0})
    IN  LogicalNot(Xor(x, Not(a))) \cap LogicalNot(LogicalNot(a))

allOddBits(x) ==
    LET aa == Hex(0, 170)
        mask == aa \cup Shl(aa \cup Shl(aa \cup Shl(aa, 8), 8), 8)
    IN  LogicalNot(Xor(x \cap mask, mask))

negate(x) == Add(Not(x), {0})

isAsciiDigit(x) ==
    LET mask == Sar(Shl({0}, 31), 27)
        highBitsNotEqual3 == Xor(x \cap mask, WordOf(48))
        b3b1 == Xor(x \cap WordOf(10), WordOf(10))
        b3b2 == Xor(x \cap WordOf(12), WordOf(12))
    IN  LogicalNot(highBitsNotEqual3 \cup LogicalNot(b3b1) \cup LogicalNot(b3b2))

conditional(x, y, z) ==
    LET fullExt == Add(Not(LogicalNot(x)), {0})
    IN  (y \cap Not(fullExt)) \cup (z \cap fullExt)

(* The sign of x - y alone.                                                 *)
isLessOrEqualNoOverflow(x, y) ==
    LET xMinusY == Add(x, Add(Not(y), {0}))
    IN  LogicalNot(xMinusY) \cup LogicalNot(LogicalNot(xMinusY \cap TMin))

isLessOrEqual(x, y) ==
    LET xMinusY == Add(x, Add(Not(y), {0}))
        resultSignBit == xMinusY \cap TMin
        isOverflow == (Xor(x, y) \cap TMin) \cap Xor(resultSignBit, x \cap TMin)
    IN  LogicalNot(xMinusY)
            \cup LogicalNot(LogicalNot(Not(isOverflow) \cap resultSignBit))
            \cup LogicalNot(LogicalNot(isOverflow \cap (x \cap TMin)))

logicalNeg(x) ==
    LET signOf(y) == Sar(y, 31) \cap {0}
    IN  Xor(signOf(x) \cup signOf(Add(Not(x), {0})), {0})

(* The five steps of halving: [x, shifted], the word that is left and the   *)
(* bits shifted out so far.                                                 *)
Halve(s, n) ==
    LET need == IF Sar(s.x, n) # {} THEN n ELSE 0
    IN  [x |-> Sar(s.x, need), shifted |-> s.shifted + need]

howManyBits(x) ==
    LET rs31 == Sar(x, 31)
        positive == (x \cap Not(rs31)) \cup (Not(x) \cap rs31)
        end == Halve(Halve(Halve(Halve(Halve(
                   [x |-> positive, shifted |-> 0], 16), 8), 4), 2), 1)
    IN  Add(Add(WordOf(end.shifted), end.x), {0})

Exponent(uf) == NatOf(Shr(uf, 23) \cap 0 .. 7)
Fraction(uf) == uf \cap 0 .. 22

floatScale2(uf) ==
    LET exp == Exponent(uf)
    IN  IF exp = 255 THEN uf
        ELSE IF exp = 0 THEN (uf \cap TMin) \cup Shl(Fraction(uf), 1)
        ELSE (uf \cap TMin) \cup Shl(WordOf(exp + 1), 23) \cup Fraction(uf)

(* Out of range starts at e > 31 (line 364), though e = 31 is no int.       *)
floatFloat2Int(uf) ==
    LET e == Exponent(uf) - 127
        frac == Fraction(uf)
        result == Shl({0}, e) \cup
                      (IF e < 23 THEN Shr(frac, 23 - e) ELSE Shl(frac, e - 23))
    IN  IF Exponent(uf) = 255 THEN TMin
        ELSE IF Exponent(uf) = 0 \/ e < 0 THEN {}
        ELSE IF e > 31 THEN TMin
        ELSE IF Sign \in uf THEN Add(Not(result), {0}) ELSE result

(* The smallest denorm is taken for 2^-148 (line 394).                      *)
Smallest == -148

floatPower2(x) ==
    LET n == Signed(x)
    IN  IF n > 127 THEN Shl(WordOf(255), 23)
        ELSE IF n < Smallest THEN {}
        ELSE IF n <= -127 THEN Shl({0}, n + 149)
        ELSE Shl(WordOf(n + 127), 23)

Solution(name, a) ==
    CASE name = "bitXor" -> bitXor(a[1], a[2])
      [] name = "tmin" -> tmin
      [] name = "isTmax" -> isTmax(a[1])
      [] name = "allOddBits" -> allOddBits(a[1])
      [] name = "negate" -> negate(a[1])
      [] name = "isAsciiDigit" -> isAsciiDigit(a[1])
      [] name = "conditional" -> conditional(a[1], a[2], a[3])
      [] name = "isLessOrEqual" -> isLessOrEqual(a[1], a[2])
      [] name = "logicalNeg" -> logicalNeg(a[1])
      [] name = "howManyBits" -> howManyBits(a[1])
      [] name = "floatScale2" -> floatScale2(a[1])
      [] name = "floatFloat2Int" -> floatFloat2Int(a[1])
      [] name = "floatPower2" -> floatPower2(a[1])

-----------------------------------------------------------------------------
(* Single precision by what it denotes (tests.c computes with the machine's *)
(* floats): a finite magnitude is the set of the powers of two it sums.     *)
IsNaN(u) == Exponent(u) = 255 /\ Fraction(u) # {}
IsInf(u) == Exponent(u) = 255 /\ Fraction(u) = {}
Powers(u) ==
    IF Exponent(u) = 0 THEN {p - 149 : p \in Fraction(u)}
    ELSE {p - 23 + Exponent(u) - 127 : p \in Fraction(u) \cup {23}}
Infinity == 23 .. 30

(* The pattern of a magnitude that needs no rounding, or is too large.      *)
Pattern(powers) ==
    IF powers = {} THEN {}
    ELSE LET top == Max(powers) IN
         IF top > 127 THEN Infinity
         ELSE IF top < -126 THEN {p + 149 : p \in powers}
         ELSE Shl(WordOf(top + 127), 23) \cup {p - top + 23 : p \in powers \ {top}}

test_howManyBits(x) ==
    LET magnitude == IF Sign \in x THEN Not(x) ELSE x
    IN  WordOf(1 + Max({p + 1 : p \in magnitude} \cup {0}))

test_floatScale2(uf) ==
    IF IsNaN(uf) \/ IsInf(uf) THEN uf
    ELSE (uf \cap TMin) \cup Pattern({p + 1 : p \in Powers(uf)})

(* (int) f: the integral part, or the machine's "integer indefinite" when   *)
(* no int holds it.                                                         *)
test_floatFloat2Int(uf) ==
    IF Exponent(uf) = 255 THEN TMin
    ELSE LET whole == {p \in Powers(uf) : p >= 0} IN
         IF \E p \in whole : p >= 31 THEN TMin
         ELSE IF Sign \in uf THEN WordOf(-NatOf(whole)) ELSE whole

test_floatPower2(x) ==
    IF Signed(x) < -149 THEN {} ELSE Pattern({Signed(x)})

Reference(name, a) ==
    CASE name = "bitXor" -> {p \in Bits : (p \in a[1]) # (p \in a[2])}
      [] name = "tmin" -> Hex(32768, 0)
      [] name = "isTmax" -> Bool(a[1] = Hex(32767, 65535))
      [] name = "allOddBits" -> Bool(\A p \in Bits : p % 2 = 1 => p \in a[1])
      [] name = "negate" -> IF a[1] = TMin THEN TMin ELSE WordOf(-Signed(a[1]))
      [] name = "isAsciiDigit" -> Bool(48 <= Signed(a[1]) /\ Signed(a[1]) <= 57)
      [] name = "conditional" -> IF a[1] # {} THEN a[2] ELSE a[3]
      [] name = "isLessOrEqual" -> Bool(Signed(a[1]) <= Signed(a[2]))
      [] name = "logicalNeg" -> LogicalNot(a[1])
      [] name = "howManyBits" -> test_howManyBits(a[1])
      [] name = "floatScale2" -> test_floatScale2(a[1])
      [] name = "floatFloat2Int" -> test_floatFloat2Int(a[1])
      [] name = "floatPower2" -> test_floatPower2(a[1])

(* The arguments the solutions get wrong: twice a float from 2^127 up is    *)
(* infinite, but line 331 leaves its fraction, which makes it a NaN; floats *)
(* from 2^31 to 2^32 are out of range; and 2^-149 is a denorm.              *)
Wrong(name, a) ==
    \/ name = "floatScale2" /\ Exponent(a[1]) = 254 /\ Fraction(a[1]) # {}
    \/ name = "floatFloat2Int" /\ Exponent(a[1]) = 158 /\ Fraction(a[1]) # {}
    \/ name = "floatPower2" /\ a[1] = WordOf(-149)
=============================================================================
