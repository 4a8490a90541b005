-------------------------------- MODULE Arith -------------------------------
(***************************************************************************)
(* The integer functions of arith.c.  A number is a fixnum, a bignum or a  *)
(* character; each function has its own code for every combination.        *)
(* Floating-point numbers, ranges and structures are left out.             *)
(***************************************************************************)
EXTENDS Integers, Sequences

CONSTANTS
  Bits,      \* of a machine word, and of a digit
  TagBits,   \* of a word that are no part of a fixnum
  CharMax    \* the last character: 0x10FFFF

M == INSTANCE Mpi

NumBit == Bits - TagBits
NumMax == 2 ^ (NumBit - 1) - 1
NumMin == -(2 ^ (NumBit - 1))

Fix(n) == [type |-> "NUM", n |-> n]
Big(n) == [type |-> "BGNUM", n |-> n]
Chr(n) == [type |-> "CHR", n |-> n]

Error    == [type |-> "error", n |-> 0]     \* an exception was thrown
Diverges == [type |-> "none", n |-> 0]      \* the function does not return

Zero == Fix(0)
One  == Fix(1)

\* num_fast keeps as many bits as a fixnum has.
FixFast(n) == Fix(((n - NumMin) % (2 ^ NumBit)) + NumMin)

\* num and unum, and normalize.
Num(n)       == IF n \in NumMin..NumMax THEN Fix(n) ELSE Big(n)
Normalize(n) == IF M!InRange(n, NumMax, FALSE) THEN Num(n) ELSE Big(n)

Types(a, b) == <<a.type, b.type>>

-----------------------------------------------------------------------------
(* Sums, differences and products.                                         *)

Char(n) == IF n \in 0..CharMax THEN Chr(n) ELSE Error

Plus(a, b) ==
  CASE Types(a, b) = <<"NUM", "NUM">> -> Num(a.n + b.n)
    [] Types(a, b) = <<"NUM", "BGNUM">> -> IF a = Zero THEN b ELSE Normalize(a.n + b.n)
    [] Types(a, b) = <<"BGNUM", "NUM">> -> IF b = Zero THEN a ELSE Normalize(a.n + b.n)
    [] Types(a, b) = <<"BGNUM", "BGNUM">> -> Normalize(a.n + b.n)
    [] Types(a, b) \in {<<"CHR", "NUM">>, <<"NUM", "CHR">>} -> Char(a.n + b.n)
    [] OTHER -> Error

\* A fixnum less a bignum is the bignum less the magnitude of the fixnum, negated.
Minus(a, b) ==
  CASE Types(a, b) \in {<<"NUM", "NUM">>, <<"CHR", "CHR">>} -> Num(a.n - b.n)
    [] Types(a, b) = <<"NUM", "BGNUM">> ->
         IF a = Zero THEN Big(-b.n) ELSE Normalize(-(b.n - M!Mag(a.n)))
    [] Types(a, b) = <<"BGNUM", "NUM">> -> IF b = Zero THEN a ELSE Normalize(a.n - b.n)
    [] Types(a, b) = <<"BGNUM", "BGNUM">> -> Normalize(a.n - b.n)
    [] Types(a, b) = <<"CHR", "NUM">> -> Char(a.n - b.n)
    [] OTHER -> Error

Neg(a)    == IF a.type = "NUM" THEN Num(-a.n) ELSE Big(-a.n)
Abso(a)   == IF a.type = "NUM" THEN Num(M!Mag(a.n)) ELSE Big(M!Mag(a.n))
Signum(a) == Fix(CASE a.n > 0 -> 1 [] a.n < 0 -> -1 [] a.n = 0 /\ a.type = "NUM" -> 0
                   [] OTHER -> 1)

\* A fixnum times a bignum keeps the sign of the bignum.
Mul(a, b) ==
  CASE Types(a, b) = <<"NUM", "NUM">> -> Num(a.n * b.n)
    [] Types(a, b) = <<"NUM", "BGNUM">> -> IF a = One THEN b ELSE Big(M!Mag(a.n) * b.n)
    [] Types(a, b) = <<"BGNUM", "NUM">> -> IF b = One THEN a ELSE Big(a.n * b.n)
    [] OTHER -> Big(a.n * b.n)

Square(a) == IF a.type = "NUM" THEN Num(a.n * a.n) ELSE Big(a.n * a.n)

Succ(a) == Plus(a, One)

-----------------------------------------------------------------------------
(* Order.                                                                  *)

\* Of a fixnum or character and a bignum only the sign of the bignum counts.
Order(a, b) == CASE a.type = "BGNUM" /\ b.type # "BGNUM" -> a.n
                 [] a.type # "BGNUM" /\ b.type = "BGNUM" -> -b.n
                 [] OTHER -> a.n - b.n

Lt(a, b) == Order(a, b) < 0
Gt(a, b) == Order(a, b) > 0
Le(a, b) == Order(a, b) <= 0
Ge(a, b) == Order(a, b) >= 0
Numeq(a, b) == Order(a, b) = 0

Plusp(a)  == a.n > 0
Minusp(a) == a.n < 0
Zerop(a)  == a = Zero
Evenp(a)  == a.n % 2 = 0

\* eq of a new object: fixnums only.
EqFix(a, b) == a = b /\ a.type = "NUM"

-----------------------------------------------------------------------------
(* Division.                                                               *)

\* C's division of words.
Quot(a, b) == M!Signed(M!Opposed(a, b), M!Mag(a) \div M!Mag(b))

Trunc(a, b) ==
  CASE b = Zero -> Error
    [] b # Zero /\ Types(a, b) = <<"NUM", "NUM">> -> Num(Quot(a.n, b.n))
    [] Types(a, b) = <<"NUM", "BGNUM">> -> Zero
    [] b # Zero /\ Types(a, b) = <<"BGNUM", "NUM">> ->
         IF b = One THEN a ELSE Normalize(M!Signed(b.n, 1) * M!DivD(a.n, M!Mag(b.n)).quot)
    [] Types(a, b) = <<"BGNUM", "BGNUM">> -> Normalize(M!Div(a.n, b.n).quot)

RemainderIn_Word(a, b) == M!Signed(a, M!Mag(a) % M!Mag(b))

\* The remainder of words takes the sign of the divisor.
RemainderIn(a, b) ==
  LET m == M!Signed(a, M!Mag(a) % M!Mag(b)) IN IF m # 0 /\ (m < 0) # (b < 0) THEN m + b ELSE m

Modulo(a, b) ==
  CASE b = Zero -> Error
    [] b # Zero /\ Types(a, b) = <<"NUM", "NUM">> -> Num(RemainderIn(a.n, b.n))
    [] b.type = "BGNUM" ->
         IF b.n < 0 THEN Normalize(-M!Mod(-a.n, -b.n)) ELSE Normalize(M!Mod(a.n, b.n))
    [] b # Zero /\ Types(a, b) = <<"BGNUM", "NUM">> ->
         IF b.n < 0 THEN Num(-M!ModD(-a.n, -b.n)) ELSE Num(M!ModD(a.n, b.n))

\* One less, when something was cut off a quotient below zero.
Floored(quot, rem, a, b) == IF rem # 0 /\ (a < 0) # (b < 0) THEN quot - 1 ELSE quot

Floordiv(a, b) ==
  CASE b = Zero -> Error
    [] b # Zero /\ Types(a, b) = <<"NUM", "NUM">> ->
         Num(Floored(Quot(a.n, b.n), M!Mag(a.n) % M!Mag(b.n), a.n, b.n))
    [] Types(a, b) = <<"NUM", "BGNUM">> ->
         IF a.n # 0 /\ (a.n < 0) # (b.n < 0) THEN Fix(-1) ELSE Zero
    [] b # Zero /\ Types(a, b) = <<"BGNUM", "NUM">> ->
         LET d == M!DivD(a.n, M!Mag(b.n)) IN
         IF b = One THEN a
         ELSE Normalize(Floored(M!Signed(b.n, 1) * d.quot, d.rem, a.n, b.n))
    [] Types(a, b) = <<"BGNUM", "BGNUM">> ->
         LET d == M!Div(a.n, b.n) IN Normalize(Floored(d.quot, d.rem, a.n, b.n))

Ceildiv(a, b) == IF b = Zero THEN Error ELSE Neg(Floordiv(Neg(a), b))

\* ash; a fixnum is shifted within the word as long as it fits.
HighestSignificantBit(n) == M!CountBits(n)
Fits(n, bits) == bits + HighestSignificantBit(n) < NumBit

Ash(a, bits) ==
  CASE bits = 0 -> a
    [] bits > 0 /\ a.type = "NUM" ->
         IF Fits(a.n, bits) THEN Fix(a.n * 2 ^ bits)
         ELSE IF a.n = 0 /\ bits >= Bits THEN Big(0)
         ELSE Normalize(M!Shift(a.n, bits))
    [] bits < 0 /\ a.type = "NUM" -> Fix(a.n \div 2 ^ (IF -bits <= NumBit THEN -bits ELSE NumBit))
    [] OTHER -> Normalize(M!Shift(a.n, bits))

\* roundiv rounds a half away from zero.
Roundiv(x, y) ==
  LET a    == IF Minusp(y) THEN Neg(x) ELSE x
      b    == IF Minusp(y) THEN Neg(y) ELSE y
      quot == Floordiv(a, b)
      drem == Ash(Minus(a, Mul(quot, b)), 1)
  IN  CASE b = Zero -> Error
        [] b # Zero /\ EqFix(drem, b) -> IF Minusp(quot) THEN quot ELSE Succ(quot)
        [] b # Zero /\ ~EqFix(drem, b) -> IF Lt(drem, b) THEN quot ELSE Succ(quot)

\* trunc_rem, floor_rem, ceil_rem, round_rem
WithRem(quot, a, b) == IF quot = Error THEN <<>> ELSE <<quot, Minus(a, Mul(quot, b))>>

TruncRem(a, b) == WithRem(Trunc(a, b), a, b)
FloorRem(a, b) == WithRem(Floordiv(a, b), a, b)

\* wrap and wrap_star
WrapStar(start, end, a) ==
  LET m == Modulo(Minus(a, start), Minus(end, start)) IN
  IF m = Error THEN m ELSE Plus(start, m)

-----------------------------------------------------------------------------
(* Powers, roots and divisors.                                             *)

\* For exponents from zero.
Expt(a, b) ==
  CASE b = Zero -> One
    [] b = One -> a
    [] b.type = "NUM" /\ b \notin {Zero, One} -> Normalize(M!ExptD(a.n, b.n))
    [] b.type = "BGNUM" -> Normalize(M!Expt(a.n, b.n))

Exptmod(a, b, m) == IF b.n < 0 \/ m.n <= 0 THEN Error ELSE Normalize(M!Exptmod(a.n, b.n, m.n))

Isqrt(a) == IF a.type = "NUM" /\ a.n < 0 THEN Error
            ELSE IF a.type = "NUM" THEN Fix(M!Sqrt(a.n)) ELSE Normalize(M!Sqrt(a.n))

\* c_u converts a fixnum without its sign.
Word(a) == a.n % M!Radix
Binary(u, v) == IF u = 0 \/ v = 0 THEN Diverges ELSE Num(M!Gcd(u, v))
Gcd(a, b) ==
  LET words == \A x \in {a, b} : x.type = "NUM" \/ M!InRange(x.n, M!Radix - 1, TRUE) IN
  CASE Types(a, b) = <<"NUM", "NUM">> /\ a = Zero -> b
    [] Types(a, b) = <<"NUM", "NUM">> /\ a # Zero /\ b = Zero -> a
    [] "BGNUM" \in {a.type, b.type} /\ ~words ->
         Normalize(M!Gcd(IF a.type = "NUM" THEN Word(a) ELSE a.n,
                         IF b.type = "NUM" THEN Word(b) ELSE b.n))
    [] OTHER -> Binary(Word(a), Word(b))

Lcm(a, b) == IF Zero \in {a, b} THEN Zero ELSE Abso(Trunc(Mul(a, b), Gcd(a, b)))

Divides(d, n) ==
  CASE n = Zero -> ~Zerop(d)
    [] n # Zero /\ d = One -> TRUE
    [] n # Zero /\ d # One ->
         LET p == IF Minusp(d) THEN Neg(d) ELSE d IN Gcd(p, n) = p

\* rising_product, of m to n.
RECURSIVE ProductTo(_, _, _)
ProductTo(acc, m, n) == IF Gt(m, n) THEN acc ELSE ProductTo(Mul(acc, m), Plus(m, One), n)
RisingProduct(m, n) ==
  LET first == IF Lt(m, One) THEN One ELSE m IN
  IF Lt(n, One) \/ Gt(m, n) THEN One ELSE ProductTo(first, Plus(first, One), n)

NPermK(n, k)   == RisingProduct(Plus(Minus(n, k), One), n)
NChooseK(n, k) == Trunc(NPermK(n, k), RisingProduct(One, k))

\* digcommon: the powers of the base that are not above n, then the largest first.
RECURSIVE PowersTo(_, _, _)
PowersTo(k, r, n) == IF Gt(k, n) THEN <<>> ELSE PowersTo(Mul(k, r), r, n) \o <<k>>
RECURSIVE DigitsBy(_, _)
DigitsBy(powers, n) ==
  IF powers = <<>> THEN <<n>>
  ELSE LET p == Head(powers)
           i == CHOOSE j \in 0..n.n : j * p.n <= n.n /\ (j + 1) * p.n > n.n
       IN  <<Num(i)>> \o DigitsBy(Tail(powers), Num(n.n - i * p.n))
DigitsOf(n, base) == DigitsBy(PowersTo(base, base, n), n)

-----------------------------------------------------------------------------
(* Bits.                                                                   *)

\* The bits of a word, and the number that they are.
WordOf(n)  == n % M!Radix
FromWord(w) == IF w >= M!Radix \div 2 THEN w - M!Radix ELSE w

Fixed(a, b) == Types(a, b) = <<"NUM", "NUM">>

\* A fixnum with a bignum becomes a bignum, and comes first.
Logical(op(_, _), a, b) ==
  IF b.type = "NUM" THEN Normalize(op(b.n, a.n)) ELSE Normalize(op(a.n, b.n))

Logand(a, b) == IF Fixed(a, b) THEN Fix(FromWord(M!MpAnd(WordOf(a.n), WordOf(b.n))))
                ELSE Logical(M!MpAnd, a, b)
Logior(a, b) == IF Fixed(a, b) THEN Fix(FromWord(M!MpOr(WordOf(a.n), WordOf(b.n))))
                ELSE Logical(M!MpOr, a, b)
Logxor(a, b) == IF Fixed(a, b) THEN Fix(FromWord(M!MpXor(WordOf(a.n), WordOf(b.n))))
                ELSE Logical(M!MpXor, a, b)

Lognot(a) == IF a.type = "NUM" THEN Fix(-a.n - 1) ELSE Normalize(M!Comp(a.n))

\* comp_trunc and logtrunc: by a mask, as long as the bits are those of a fixnum.
CompTrunc(a, bits) ==
  IF a.type = "NUM" /\ bits < NumBit THEN FixFast((2 ^ bits - 1) - (a.n % (2 ^ bits)))
  ELSE Normalize(M!TruncCompBits(a.n, bits))

Logtrunc(a, bits) ==
  IF a.type = "NUM" /\ bits <= NumBit THEN FixFast(a.n % (2 ^ bits))
  ELSE Normalize(M!TruncBits(a.n, bits))

Bit(a, bit) == IF a.type = "NUM" /\ bit >= Bits THEN a.n < 0 ELSE M!BitOf(a.n, bit)

SignExtend(a, bits) ==
  LET n == Logtrunc(a, bits) IN
  IF ~Bit(n, bits - 1) THEN n
  ELSE IF n.type = "NUM" THEN Num(FromWord(M!MpOr(WordOf(n.n), WordOf(-(2 ^ bits)))))
       ELSE Normalize(-M!TruncBits(M!TwosComp(n.n, M!Used(n.n)), bits))

Bitset(a)   == M!Ones(a.n)
Width(a)    == Num(M!CountBits(a.n))
=============================================================================
