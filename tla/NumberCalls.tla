---------------------------- MODULE NumberCalls -----------------------------
(***************************************************************************)
(* The functions on integers, called with any of the arguments of the      *)
(* instance, and what they have to return.                                 *)
(***************************************************************************)
EXTENDS Calls, Integers, FiniteSetsExt, Functions, SequencesExt

CONSTANTS
  Bits, TagBits, CharMax   \* as in Arith

Arith == INSTANCE Arith

-----------------------------------------------------------------------------
(* Numbers.                                                                *)

\* Bound: the fixnums and what comes after, and the neighbours of the numbers at which
\* another bit or digit is needed.
Corners == {2 ^ (Bits - 1), 2 ^ Bits, 3 * 2 ^ (Bits - 1), 2 ^ (2 * Bits) - 2 ^ Bits, 2 ^ (2 * Bits)}
Sample  == (Arith!NumMin - 1)..(Arith!NumMax + 2)
             \cup {s * (c + d) : s \in {-1, 1}, c \in Corners, d \in -1..1}
Numbers == {Arith!Num(n) : n \in Sample}
Chars   == {Arith!Chr(n) : n \in {0, 1, CharMax - 1, CharMax}}

Sum ==
  \E a, b \in Numbers \cup Chars :
    Call("sum", <<a, b>>,
         [plus |-> Arith!Plus(a, b), minus |-> Arith!Minus(a, b),
          lt |-> Arith!Lt(a, b), gt |-> Arith!Gt(a, b), le |-> Arith!Le(a, b),
          ge |-> Arith!Ge(a, b), numeq |-> Arith!Numeq(a, b)])

Product ==
  \E a, b \in Numbers : Call("product", <<a, b>>, Arith!Mul(a, b))

Quotient ==
  \E a, b \in Numbers :
    Call("divide", <<a, b>>,
         [trunc |-> Arith!Trunc(a, b), floor |-> Arith!Floordiv(a, b),
          ceil |-> Arith!Ceildiv(a, b), round |-> Arith!Roundiv(a, b),
          mod |-> Arith!Modulo(a, b), trunc_rem |-> Arith!TruncRem(a, b),
          floor_rem |-> Arith!FloorRem(a, b)])

Factor ==
  \E a, b \in Numbers :
    Call("factor", <<a, b>>,
         [gcd |-> Arith!Gcd(a, b), lcm |-> Arith!Lcm(a, b), divides |-> Arith!Divides(a, b)])

Combine ==
  \E a, b \in Numbers :
    Call("combine", <<a, b>>,
         [and |-> Arith!Logand(a, b), ior |-> Arith!Logior(a, b), xor |-> Arith!Logxor(a, b)])

\* Bound: a shift by almost two digits.
Move ==
  \E a \in Numbers, k \in 0..(2 * Bits - 1) :
    Call("shift", <<a, k>>,
         [left |-> Arith!Ash(a, k), right |-> Arith!Ash(a, -k),
          trunc |-> Arith!Logtrunc(a, k), comp |-> Arith!CompTrunc(a, k),
          extend |-> IF k > 0 THEN Arith!SignExtend(a, k) ELSE Arith!Zero,
          bit |-> Arith!Bit(a, k)])

Single ==
  \E a \in Numbers :
    Call("single", <<a>>,
         [neg |-> Arith!Neg(a), abs |-> Arith!Abso(a), signum |-> Arith!Signum(a),
          square |-> Arith!Square(a), isqrt |-> Arith!Isqrt(a), lognot |-> Arith!Lognot(a),
          bitset |-> Arith!Bitset(a), width |-> Arith!Width(a), even |-> Arith!Evenp(a),
          digits |-> IF a.n < 0 THEN <<>> ELSE Arith!DigitsOf(a, Arith!Fix(3))])

\* Small bases and exponents, and the exponents that are bignums.
Raise ==
  \/ \E a, b \in {Arith!Num(n) : n \in 0..9} :
       Call("choose", <<a, b>>,
            [npermk |-> Arith!NPermK(a, b), nchoosek |-> Arith!NChooseK(a, b)])
  \/ \E a, b, m \in {Arith!Num(n) : n \in -3..9} :
       /\ b.n >= 0
       /\ Call("exptmod", <<a, b, m>>,
               [expt |-> Arith!Expt(a, b), exptmod |-> Arith!Exptmod(a, b, m),
                wrap |-> Arith!WrapStar(b, Arith!Plus(b, m), a)])


-----------------------------------------------------------------------------
(* Properties.                                                             *)

\* What the integer functions compute, for any integers.
Floor(x, y)  == IF y > 0 THEN x \div y ELSE (-x) \div (-y)
Magnitude(x) == IF x < 0 THEN -x ELSE x
Toward0(x, y) == IF (x < 0) = (y < 0) THEN Magnitude(x) \div Magnitude(y)
                 ELSE -(Magnitude(x) \div Magnitude(y))
Nearest(x, y) == LET q == (2 * Magnitude(x) + Magnitude(y)) \div (2 * Magnitude(y))
                 IN  IF (x < 0) = (y < 0) THEN q ELSE -q
Bitwise_(x, y, rule(_, _)) ==
  LET bit(n, k) == (n \div 2 ^ k) % 2 = 1
      top       == 2 * Bits + 2
      value(k)  == IF rule(bit(x, k), bit(y, k)) THEN (IF k = top THEN -(2 ^ k) ELSE 2 ^ k) ELSE 0
  IN  FoldFunction(+, 0, [k \in 0..top |-> value(k)])
Divisors(n)   == {d \in 1..n : n % d = 0}
RECURSIVE Falling(_, _)
Falling(n, k) == IF k = 0 THEN 1 ELSE n * Falling(n - 1, k - 1)
RECURSIVE Raised(_, _)
Raised(x, k)  == IF k = 0 THEN 1 ELSE x * Raised(x, k - 1)

\* Sums, differences and products are exact and in the one form of their value, a fixnum
\* whenever they are in range.  Left out: a fixnum below zero less a bignum, or times
\* one; zero times a bignum; and the two results in which the sign alone decides the form.
ProductsExact ==
  LET a == Args[1]
      b == Args[2]
      negative == a.type = "NUM" /\ a.n < 0 /\ b.type = "BGNUM"
  IN
  /\ Called("sum") /\ a.type # "CHR" /\ b.type # "CHR" =>
       /\ Result.plus = Arith!Num(a.n + b.n)
       /\ ~negative /\ ~(a.n = 0 /\ b.n = -Arith!NumMin) => Result.minus = Arith!Num(a.n - b.n)
  /\ Called("sum") =>
       /\ Result.lt <=> a.n < b.n
       /\ Result.gt <=> a.n > b.n
       /\ Result.le <=> a.n <= b.n
       /\ Result.ge <=> a.n >= b.n
       /\ Result.numeq <=> a.n = b.n
       /\ "CHR" \in {a.type, b.type} /\ {a.type, b.type} # {"CHR"} =>
            Result.plus.type \in {"CHR", "error"} /\ Result.plus.n \in 0..CharMax
  /\ Called("product") /\ ~negative /\ a.n * b.n \notin {0, Arith!NumMin} =>
       Result = Arith!Num(a.n * b.n)
  /\ Called("single") =>
       /\ a.n # -Arith!NumMin => Result.neg = Arith!Num(-a.n)
       /\ Result.abs = Arith!Num(Magnitude(a.n))
       /\ Result.square = Arith!Num(a.n * a.n)
       /\ a.n * Result.signum.n = Magnitude(a.n)

\* A fixnum below zero, which is not subtracted from, nor multiplied by, a bignum as it
\* should be.
Crossed(a, b) == a.type = "NUM" /\ a.n < 0 /\ b.type = "BGNUM"

\* A bignum below zero, divided by a fixnum, loses its sign in one function or another.
Wordwise(a, b) == a.type = "BGNUM" /\ a.n < 0 /\ b.type = "NUM"

\* The quotient q of a and b, its product with b and what that leaves of a are none of
\* those that come out wrong.
Remains(a, b, q) ==
  LET p == Arith!Num(q * b.n) IN
  /\ ~Wordwise(a, b) /\ ~Crossed(Arith!Num(q), b) /\ ~Crossed(a, p)
  /\ ~(b.type = "BGNUM" /\ a.type = "NUM" /\ a.n <= 0)
  /\ ~(Arith!Num(q).type = "BGNUM" /\ p.n = Arith!NumMin)

\* round turns the sign of both when b is below zero.  A remainder of exactly half a
\* bignum is not recognized as such: wrong when the quotient is below zero.
Rounds(x, y) ==
  LET sign == IF y.n < 0 THEN -1 ELSE 1
      a    == Arith!Num(sign * x.n)
      b    == Arith!Num(sign * y.n)
      q    == Floor(a.n, b.n)
  IN  \/ (x.n < 0) = (y.n < 0)
      \/ /\ Remains(a, b, q) /\ (y.n < 0 => x.n # -Arith!NumMin)
         /\ ~(b.type = "BGNUM" /\ q < 0 /\ 2 * (a.n - q * b.n) = b.n)

\* A quotient is rounded as its function says, and the remainder is what is left.  Left
\* out: a bignum below zero by a fixnum, in each function as it turns the signs; the
\* quotients at the end of the fixnums; round with operands of different signs, and
\* trunc-rem and floor-rem, where the product or the difference that they are made of is
\* one that ProductsExact leaves out, which takes a number below zero, or zero by a
\* bignum; round with operands of different signs that leave exactly half a bignum; powers
\* of a number below zero by a bignum; exptmod with exponent 0 and modulus 1, which is 1;
\* wrap* of a number that is below the start by more than a fixnum is; and divisors
\* common to a number below zero, or to zero and a bignum.  What n-perm-k and n-choose-k
\* do when k is above n the manual leaves open.
RemaindersExact ==
  LET a == Args[1]
      b == Args[2]
      wordwise == a.type = "BGNUM" /\ b.type = "NUM"
      limits   == {Arith!NumMin, -Arith!NumMin}
      Rest(q)  == <<Arith!Num(q), Arith!Num(a.n - b.n * q)>>
  IN
  /\ Called("divide") /\ b.n = 0 =>
       Result.trunc = Arith!Error /\ Result.floor = Arith!Error /\ Result.mod = Arith!Error
  /\ Called("divide") /\ b.n # 0 =>
       /\ ~Wordwise(a, b) /\ ~(a.n = Arith!NumMin /\ b.n = -a.n) =>
            Result.trunc = Arith!Num(Toward0(a.n, b.n))
       /\ ~Wordwise(a, b) => Result.floor = Arith!Num(Floor(a.n, b.n))
       /\ ~(wordwise /\ a.n > 0) /\ Floor(-a.n, b.n) \notin limits =>
            Result.ceil = Arith!Num(-Floor(-a.n, b.n))
       /\ Rounds(a, b) => Result.round = Arith!Num(Nearest(a.n, b.n))
       /\ ~(wordwise /\ (a.n < 0) # (b.n < 0)) =>
            Result.mod = Arith!Num(a.n - b.n * Floor(a.n, b.n))
       /\ Remains(a, b, Toward0(a.n, b.n)) =>
            Result.trunc_rem = Rest(Toward0(a.n, b.n))
       /\ Remains(a, b, Floor(a.n, b.n)) => Result.floor_rem = Rest(Floor(a.n, b.n))
  /\ Called("exptmod") =>
       LET m == Args[3] IN
       /\ a.n >= 0 \/ b.type = "NUM" => Result.expt = Arith!Num(Raised(a.n, b.n))
       /\ m.n > 0 /\ ~(m.n = 1 /\ b.n = 0) =>
            Result.exptmod = Arith!Num(Raised(a.n, b.n) % m.n)
       /\ m.n > 0 /\ a.n - b.n > Arith!NumMin =>
            /\ (Result.wrap.n - a.n) % m.n = 0
            /\ Result.wrap.n \in b.n..(b.n + m.n - 1)
  /\ Called("factor") /\ a.n >= 0 /\ b.n >= 0 /\ (a.n > 0 \/ b.n > 0)
       /\ (0 \in {a.n, b.n} => {a.type, b.type} = {"NUM"}) =>
       /\ Result.gcd = Arith!Num(IF 0 \in {a.n, b.n} THEN a.n + b.n
                                ELSE Max(Divisors(a.n) \cap Divisors(b.n)))
       /\ Result.lcm.n * Result.gcd.n = a.n * b.n
       /\ Result.divides <=> b.n = 0 \/ (a.n > 0 /\ b.n % a.n = 0)
  /\ Called("choose") /\ b.n <= a.n =>
       /\ Result.npermk.n = Falling(a.n, b.n)
       /\ Result.nchoosek.n * Falling(b.n, b.n) = Falling(a.n, b.n)

\* Sums, products, quotients and what is built from them are exact.
QuotientsExact == ProductsExact /\ RemaindersExact

\* The bits of a number below zero are those of its two's complement, without end.  Left
\* out: and of two such numbers and ior and xor with one, unless both are fixnums; shifts
\* of a bignum below zero, and of zero by a word; the complement of digits that are all
\* ones; the truncation of a fixnum below zero to as many bits as a fixnum has; and the
\* bits one by one, the root and the digits of a number below zero.
BitsExact ==
  LET a == Args[1]
      b == Args[2]
      fixed == a.type = "NUM" /\ b.type = "NUM"
  IN
  /\ Called("combine") =>
       /\ fixed \/ a.n >= 0 \/ b.n >= 0 =>
            Result.and = Arith!Num(Bitwise_(a.n, b.n, LAMBDA p, q : p /\ q))
       /\ fixed \/ (a.n >= 0 /\ b.n >= 0) =>
            /\ Result.ior = Arith!Num(Bitwise_(a.n, b.n, LAMBDA p, q : p \/ q))
            /\ Result.xor = Arith!Num(Bitwise_(a.n, b.n, LAMBDA p, q : p # q))
  /\ Called("shift") =>
       /\ a.n > 0 \/ (a.type = "NUM" /\ (a.n # 0 \/ b < Bits)) =>
            /\ Result.left = Arith!Num(a.n * 2 ^ b)
            /\ Result.right = Arith!Num(a.n \div 2 ^ b)
       /\ ~(a.type = "NUM" /\ a.n < 0 /\ b = Arith!NumBit) =>
            Result.trunc = Arith!Num(a.n % (2 ^ b))
       /\ Result.comp = Arith!Num((-a.n - 1) % (2 ^ b))
       /\ b > 0 => /\ (Result.extend.n - a.n) % (2 ^ b) = 0
                   /\ Result.extend.n \in -(2 ^ (b - 1))..(2 ^ (b - 1) - 1)
                   /\ Result.extend = Arith!Num(Result.extend.n)
       /\ Result.bit <=> (a.n \div 2 ^ b) % 2 = 1
  /\ Called("single") =>
       /\ a.n + 1 \notin {2 ^ Bits, 2 ^ (2 * Bits)} => Result.lognot = Arith!Num(-a.n - 1)
       /\ Result.width.n = IF Result.bitset = {} THEN 0 ELSE 1 + Max(Result.bitset)
       /\ a.n >= 0 => /\ a.n = FoldSet(LAMBDA k, n : n + 2 ^ k, 0, Result.bitset)
                      /\ Result.isqrt = Arith!Num(CHOOSE r \in 0..a.n :
                                                    r * r <= a.n /\ (r + 1) * (r + 1) > a.n)
                      /\ a.n = FoldLeft(LAMBDA n, d : 3 * n + d.n, 0, Result.digits)
                      /\ \A i \in DOMAIN Result.digits : Result.digits[i].n \in 0..2

\* Numbers are computed as integers without end are, whatever their types, but for what
\* the parts say they leave out.
NumbersExact == QuotientsExact /\ BitsExact
=============================================================================
