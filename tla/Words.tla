------------------------------- MODULE Words -------------------------------
(***************************************************************************)
(* 32-bit words as the sets of the positions of their 1 bits: & is \cap,   *)
(* | is \cup, and the C operators that are not set operations are below.   *)
(***************************************************************************)
EXTENDS Integers, FiniteSets, FiniteSetsExt, Functions

Bits == 0 .. 31
Word == SUBSET Bits
Sign == 31

Not(x) == Bits \ x
Xor(x, y) == (x \ y) \cup (y \ x)
Bool(condition) == IF condition THEN {0} ELSE {}
LogicalNot(x) == Bool(x = {})

Shl(x, n) == {p + n : p \in x} \cap Bits
Shr(x, n) == {p - n : p \in x} \cap Bits
Sar(x, n) == Shr(x, n) \cup (IF Sign \in x THEN (32 - n) .. 31 ELSE {})

(* x + y: a carry leaves a position where at least two of three come in.    *)
Add(x, y) ==
    LET carry[p \in 0 .. 32] ==
            IF p = 0 THEN FALSE
            ELSE \/ p - 1 \in x /\ p - 1 \in y
                 \/ carry[p - 1] /\ p - 1 \in x \cup y
    IN  {p \in Bits : (p \in Xor(x, y)) # carry[p]}

(* Between words and the integers, signed; the digits of x < 2^31.          *)
NatOf(x) == SumSet({2 ^ p : p \in x})
Signed(x) == IF Sign \in x THEN -NatOf(Not(x)) - 1 ELSE NatOf(x)
Digits(n) == {p \in 0 .. 30 : (n \div 2 ^ p) % 2 = 1}
WordOf(n) == IF n >= 0 THEN Digits(n) ELSE Not(Digits(-(n + 1)))
Hex(high, low) == Shl(Digits(high), 16) \cup Digits(low)
=============================================================================
