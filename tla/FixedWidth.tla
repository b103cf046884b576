----------------------------- MODULE FixedWidth -----------------------------
(***************************************************************************)
(* Integers of a fixed number of bits, as naturals below 2^b, and vectors   *)
(* of them packed in one natural, the first lane in the low bits: the        *)
(* arithmetic that the meaning of WebAssembly and that of LLVM share.         *)
(*                                                                           *)
(* SCALE is the number of bits of the code that one bit here stands for: a    *)
(* byte is one bit, an i32 has 4 and a v128 has 16.  Carries, signs, the      *)
(* borders of lanes and the limits of shifts are where they were.             *)
(***************************************************************************)
EXTENDS Integers, FiniteSetsExt

SCALE == 8
Bits(width) == IF width = 1 THEN 1 ELSE width \div SCALE

Wrap(n, b) == n % 2^b
Signed(n, b) == IF n < 2^(b - 1) THEN n ELSE n - 2^b
Ones(b) == 2^b - 1
Bit(n, i) == (n \div 2^i) % 2

(* The number whose bit i is f(i). *)
FromBits(f(_), b) == MapThenSumSet(LAMBDA i : 2^i * f(i), 0..(b - 1))

AndBits(x, y, b) == FromBits(LAMBDA i : Bit(x, i) * Bit(y, i), b)
OrBits(x, y, b) == x + y - AndBits(x, y, b)
XorBits(x, y, b) == x + y - 2 * AndBits(x, y, b)
NotBits(x, b) == Ones(b) - x

(* Division of signed numbers rounds towards zero. *)
Absolute(n) == IF n < 0 THEN -n ELSE n
Quotient(x, y) ==
  LET q == Absolute(x) \div Absolute(y) IN IF (x < 0) = (y < 0) THEN q ELSE -q
Remainder(x, y) == x - y * Quotient(x, y)

ShiftLeft(x, k, b) == Wrap(x * 2^k, b)
ShiftRight(x, k) == x \div 2^k
ShiftRightSigned(x, k, b) == Wrap(Signed(x, b) \div 2^k, b)
Rotate(x, k, b) == ShiftLeft(x, k, b) + ShiftRight(x, b - k)

(* The bits that are set, and the zeros above the highest and below the
   lowest of them. *)
SetBits(x, b) == {i \in 0..(b - 1) : Bit(x, i) = 1}
LeadingZeros(x, b) == IF x = 0 THEN b ELSE b - 1 - Max(SetBits(x, b))
TrailingZeros(x, b) == IF x = 0 THEN b ELSE Min(SetBits(x, b))
Population(x, b) == Cardinality(SetBits(x, b))

Clamp(n, low, high) == IF n < low THEN low ELSE IF n > high THEN high ELSE n
SaturateS(n, b) == Wrap(Clamp(n, -(2^(b - 1)), 2^(b - 1) - 1), b)
SaturateU(n, b) == Clamp(n, 0, Ones(b))

(* Vectors of n lanes of b bits. *)
Lane(x, k, b) == (x \div 2^(k * b)) % 2^b
FromLanes(f(_), n, b) == MapThenSumSet(LAMBDA k : 2^(k * b) * f(k), 0..(n - 1))
=============================================================================
