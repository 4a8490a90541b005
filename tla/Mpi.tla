--------------------------------- MODULE Mpi --------------------------------
(***************************************************************************)
(* The multiple precision integers of mpi.c: a sign and digits of Bits     *)
(* bits each.  An integer stands for both; how many digits it occupies is  *)
(* kept where a function depends on it.  The loops that add, subtract,     *)
(* multiply and divide magnitudes are taken as exact.                      *)
(***************************************************************************)
EXTENDS Integers, Bitwise

CONSTANT Bits   \* of a digit, and of a machine word

Radix  == 2 ^ Bits
Mag(a) == IF a < 0 THEN -a ELSE a
Signed(sign, m) == IF sign < 0 THEN -m ELSE m
Opposed(a, b)   == IF (a < 0) = (b < 0) THEN 1 ELSE -1

\* USED, and the number of bits of a magnitude.
Used(a)       == CHOOSE d \in 1..8 : Mag(a) < Radix ^ d /\ (d = 1 \/ Mag(a) >= Radix ^ (d - 1))
HighestBit(m) == CHOOSE b \in 0..30 : m < 2 ^ b /\ (b = 0 \/ m >= 2 ^ (b - 1))

\* mp_in_range; a digit that goes below zero is large.
InRange(a, lim, unsig) ==
  /\ ~(unsig /\ a < 0)
  /\ Used(a) = 1
  /\ (IF a < 0 THEN Mag(a) - 1 ELSE a) % Radix <= lim

-----------------------------------------------------------------------------
(* Division, powers and roots.                                             *)

IsPow2(d) == \E k \in 0..(Bits - 1) : d = 2 ^ k

\* By a digit: the remainder is that of the magnitude, and so is the quotient, unless
\* the divisor is a power of two.
DivD(a, d) ==
  [quot |-> IF IsPow2(d) THEN Signed(a, Mag(a) \div d) ELSE Mag(a) \div d,
   rem  |-> Mag(a) % d]

Div(a, b) ==
  [quot |-> Signed(Opposed(a, b), Mag(a) \div Mag(b)), rem |-> Signed(a, Mag(a) % Mag(b))]

\* For m above zero.
Mod(a, m) == LET r == Div(a, m).rem IN IF r < 0 THEN r + m ELSE r

ModD(a, d) == IF Mag(a) > d THEN DivD(a, d).rem
              ELSE IF a < 0 THEN d - Mag(a) ELSE a

RECURSIVE Power(_, _)
Power(a, k) == IF k = 0 THEN 1 ELSE a * Power(a, k - 1)

\* mp_expt_d, and mp_expt, whose sign is that of the base for an even exponent.
ExptD(a, d) == Signed(IF d % 2 = 1 THEN a ELSE 1, Power(Mag(a), d))
Expt(a, k)  == Signed(IF k % 2 = 0 THEN a ELSE 1, IF Mag(a) = 1 THEN 1 ELSE Power(Mag(a), k))

\* Square and multiply from the lowest bit of the exponent, reduced after each step.
RECURSIVE PowerMod(_, _, _, _)
PowerMod(s, x, k, m) ==
  IF k = 0 THEN s
  ELSE PowerMod(IF k % 2 = 1 THEN (s * x) % m ELSE s, (x * x) % m, k \div 2, m)
Exptmod(a, k, m) == PowerMod(1, Mod(a, m), k, m)

\* mp_sqrt: the root grows bit by bit.  (It checks the sign of the result, not of a.)
RECURSIVE RootFrom(_, _, _)
RootFrom(root, bit, m) ==
  IF bit < 0 THEN root
  ELSE LET guess == root + 2 ^ bit IN
       IF guess * guess = m THEN guess
       ELSE RootFrom(IF guess * guess < m THEN guess ELSE root, bit - 1, m)
Sqrt(a) == RootFrom(0, HighestBit(Mag(a)) \div 2, Mag(a))

RECURSIVE Euclid(_, _)
Euclid(u, v) == IF v = 0 THEN u ELSE Euclid(v, u % v)
Gcd(a, b) == Euclid(Mag(a), Mag(b))

-----------------------------------------------------------------------------
(* Bits.                                                                   *)

\* mp_2comp of a magnitude: as many digits as asked for.
TwosComp(m, dig) == (-m) % (Radix ^ dig)

\* The digits of a below and from position dig, as a number.
Low(m, dig)  == m % (Radix ^ dig)
High(m, dig) == m - Low(m, dig)

Shorter(m, n) == IF m < n THEN m ELSE n
Longer(m, n)  == IF m < n THEN n ELSE m

MpAnd(a, b) ==
  LET x   == IF a < 0 THEN TwosComp(Mag(a), Used(b)) ELSE a
      ux  == IF a < 0 THEN Used(b) ELSE Used(a)
      y   == IF b < 0 THEN TwosComp(Mag(b), ux) ELSE b
      ext == CASE b < 0 -> ux [] a < 0 /\ b >= 0 -> Used(b) [] OTHER -> Shorter(ux, Used(b))
      c   == Low(x, ext) & Low(y, ext)
  IN  IF a < 0 /\ b < 0 THEN -TwosComp(c, ext) ELSE c

\* In mp_or and mp_xor: the operands in as many digits as the longer one, and the digits
\* of the longer one from where the shorter one ended, unchanged.
Extended(a, ext) == IF a < 0 THEN TwosComp(Mag(a), ext) ELSE a
Upper(a, b, ext, min) ==
  IF (IF a < 0 THEN ext ELSE Used(a)) > min THEN High(Extended(a, ext), min)
  ELSE High(Extended(b, ext), min)

MpOr(a, b) ==
  LET ext == Longer(Used(a), Used(b))
      min == Shorter(Used(a), Used(b))
      c   == (Low(Extended(a, ext), min) | Low(Extended(b, ext), min)) + Upper(a, b, ext, min)
  IN  IF a < 0 \/ b < 0 THEN -TwosComp(c, ext) ELSE c

MpXor(a, b) ==
  LET ext == Longer(Used(a), Used(b))
      min == Shorter(Used(a), Used(b))
      c   == (Low(Extended(a, ext), min) ^^ Low(Extended(b, ext), min)) + Upper(a, b, ext, min)
  IN  IF (a < 0) # (b < 0) THEN -TwosComp(c, ext) ELSE c

\* mp_comp
Comp(a) ==
  LET ones == Radix ^ Used(a) - 1 IN
  IF a < 0 THEN ones - TwosComp(Mag(a), Used(a)) ELSE -TwosComp(ones - a, Used(a))

\* mp_trunc and mp_trunc_comp: enough digits for the bits, padded by the sign.
TruncBits(a, bits)     == a % (2 ^ bits)
TruncCompBits(a, bits) == (2 ^ bits - 1) - TruncBits(a, bits)

\* mp_shift: the two's complement of a negative number is shifted in as many digits as
\* the magnitude has, and the highest bit that is one taken for the sign.
Shifted(m, bits) == IF bits > 0 THEN m * 2 ^ bits ELSE m \div 2 ^ (-bits)
Shift(a, bits) ==
  LET m    == Shifted(TwosComp(Mag(a), Used(a)), bits)
      used == IF bits > 0 THEN Used(a) + bits \div Bits ELSE 1
  IN  IF a >= 0 \/ bits = 0 THEN Shifted(a, bits)
      ELSE m - 2 ^ Longer(Bits * (used - 1), HighestBit(m))

BitOf(a, bit) == (a \div 2 ^ bit) % 2 = 1

\* The positions of the ones of a number, or of the zeros of one below zero.
Ones(a)      == {k \in 0..24 : BitOf(IF a < 0 THEN -a - 1 ELSE a, k)}
CountBits(a) == HighestBit(IF a < 0 THEN -a - 1 ELSE a)
=============================================================================
