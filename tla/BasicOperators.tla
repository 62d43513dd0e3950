---------------------------- MODULE BasicOperators ----------------------------
(***************************************************************************)
(* The fixed-point operators the BroadVoice codec is written in:           *)
(* itug191lib/basop32.c and itug729ilib/oper_32b.c.                        *)
(*                                                                         *)
(* A Word16 has W bits and a Word32 twice as many; W is 16 in the code and *)
(* small in the runs, and every constant of the code is written in terms   *)
(* of it (0x8000 is Half, 15 is W - 1).  Numbers are the values that the   *)
(* words stand for in two's complement; `>>' of a negative number rounds   *)
(* down, as \div does.                                                     *)
(***************************************************************************)
EXTENDS Integers, PowersOfTwo

CONSTANTS
  W,      \* the bits of a Word16
  Half    \* 2^(W-1)

ASSUME WordAssumption == W \in Nat \ {0, 1} /\ Half = Pow2[W - 1]

MAX_16 == Half - 1
MIN_16 == -Half
MAX_32 == 2 * Half * Half - 1
MIN_32 == -(2 * Half * Half)

Word16 == MIN_16 .. MAX_16
Word32 == MIN_32 .. MAX_32

\* What a sum or difference of two Word32 is in 2W bits.
Wrap32(x) ==
  IF x > MAX_32 THEN x - 4 * Half * Half
  ELSE IF x < MIN_32 THEN x + 4 * Half * Half
  ELSE x

-----------------------------------------------------------------------------
(* Words.                                                                  *)

extract_h(L) == L \div (2 * Half)
extract_l(L) == ((L + Half) % (2 * Half)) - Half
L_deposit_h(v) == v * 2 * Half

saturate(L) ==
  IF L > MAX_16 THEN MAX_16 ELSE IF L < MIN_16 THEN MIN_16 ELSE extract_l(L)

add(a, b) == saturate(a + b)
sub(a, b) == saturate(a - b)
abs_s(v) == IF v = MIN_16 THEN MAX_16 ELSE IF v < 0 THEN -v ELSE v
negate(v) == IF v = MIN_16 THEN MAX_16 ELSE -v

mult(a, b) == saturate((a * b) \div Half)
mult_r(a, b) == saturate((a * b + Half \div 2) \div Half)

ShiftedRight(v, n) == IF n >= W - 1 THEN (IF v < 0 THEN -1 ELSE 0) ELSE v \div Pow2[n]

ShiftedLeft(v, n) ==
  LET result == v * Pow2[n] IN
  IF (n > W - 1 /\ v # 0) \/ result \notin Word16
  THEN (IF v > 0 THEN MAX_16 ELSE MIN_16)
  ELSE extract_l(result)

\* How far a shift by a negative number goes the other way.
Opposite(n, most) == IF n < -most THEN most ELSE -n

shl(v, n) == IF n < 0 THEN ShiftedRight(v, Opposite(n, W)) ELSE ShiftedLeft(v, n)
shr(v, n) == IF n < 0 THEN ShiftedLeft(v, Opposite(n, W)) ELSE ShiftedRight(v, n)

\* The loop doubles a positive number until it has its highest bit.
Doublings(v, highest) ==
  LET count[x \in Nat \ {0}] == IF x < highest THEN 1 + count[2 * x] ELSE 0 IN count[v]

norm_s(v) ==
  IF v = 0 THEN 0
  ELSE IF v = -1 THEN W - 1
  ELSE Doublings(IF v < 0 THEN -v - 1 ELSE v, Half \div 2)

\* Long division, a bit of the quotient at a time.
div_s(a, b) ==
  LET step[i \in 0 .. W - 1] ==
        IF i = 0 THEN [num |-> a, out |-> 0]
        ELSE LET num == 2 * step[i - 1].num
                 out == 2 * step[i - 1].out IN
             IF num >= b THEN [num |-> num - b, out |-> add(out, 1)]
             ELSE [num |-> num, out |-> out]
  IN IF a = 0 THEN 0 ELSE IF a = b THEN MAX_16 ELSE step[W - 1].out

-----------------------------------------------------------------------------
(* Long words.                                                             *)

SameSign(a, b) == (a < 0) <=> (b < 0)

\* MUTANT: an overflow is looked for when the signs differ.
L_addOtherSigns(a, b) ==
  LET sum == Wrap32(a + b) IN
  IF ~SameSign(a, b) /\ ~SameSign(sum, a)
  THEN (IF a < 0 THEN MIN_32 ELSE MAX_32) ELSE sum

L_add(a, b) ==
  LET sum == Wrap32(a + b) IN
  IF SameSign(a, b) /\ ~SameSign(sum, a)
  THEN (IF a < 0 THEN MIN_32 ELSE MAX_32) ELSE sum

L_sub(a, b) ==
  LET difference == Wrap32(a - b) IN
  IF ~SameSign(a, b) /\ ~SameSign(difference, a)
  THEN (IF a < 0 THEN MIN_32 ELSE MAX_32) ELSE difference

L_abs(a) == IF a = MIN_32 THEN MAX_32 ELSE IF a < 0 THEN -a ELSE a
L_negate(a) == IF a = MIN_32 THEN MAX_32 ELSE -a

L_mult0(a, b) == a * b
L_mac0(L, a, b) == L_add(L, L_mult0(a, b))
L_msu0(L, a, b) == L_sub(L, L_mult0(a, b))

L_mult(a, b) == IF a * b # Half * Half THEN 2 * a * b ELSE MAX_32
L_mac(L, a, b) == L_add(L, L_mult(a, b))
L_msu(L, a, b) == L_sub(L, L_mult(a, b))

intround(L) == extract_h(L_add(L, Half))

LongShiftedRight(a, n) ==
  IF n >= 2 * W - 1 THEN (IF a < 0 THEN -1 ELSE 0) ELSE a \div Pow2[n]

\* The loop leaves at the first doubling that would overflow, with the largest number or
\* the least, which a further doubling would not change.
Doubled32(x) ==
  IF x > MAX_32 \div 2 THEN MAX_32 ELSE IF x < MIN_32 \div 2 THEN MIN_32 ELSE 2 * x

LongShiftedLeft(a, n) ==
  LET double[i \in Nat] == IF i = 0 THEN a ELSE Doubled32(double[i - 1]) IN double[n]

L_shl(a, n) ==
  IF n <= 0 THEN LongShiftedRight(a, Opposite(n, 2 * W)) ELSE LongShiftedLeft(a, n)

L_shr(a, n) ==
  IF n < 0 THEN LongShiftedLeft(a, Opposite(n, 2 * W)) ELSE LongShiftedRight(a, n)

L_shr_r(a, n) ==
  IF n > 2 * W - 1 THEN 0
  ELSE L_shr(a, n) + (IF n > 0 /\ (a \div Pow2[n - 1]) % 2 # 0 THEN 1 ELSE 0)

norm_l(a) ==
  IF a = 0 THEN 0
  ELSE IF a = -1 THEN 2 * W - 1
  ELSE Doublings(IF a < 0 THEN -a - 1 ELSE a, Half * Half)

-----------------------------------------------------------------------------
(* A long word as two words, the lower one without its lowest bit.         *)

L_Extract(L) ==
  LET hi == extract_h(L) IN
  [hi |-> hi, lo |-> extract_l(L_msu(L_shr(L, 1), hi, Half \div 2))]

L_Comp(hi, lo) == L_mac(L_deposit_h(hi), lo, 1)

Mpy_32_16(hi, lo, n) == L_mac(L_mult(hi, n), mult(lo, n), 1)

Mpy_32(hi1, lo1, hi2, lo2) ==
  L_mac(L_mac(L_mult(hi1, hi2), mult(hi1, lo2), 1), mult(lo1, hi2), 1)

Div_32(num, hi, lo) ==
  LET approx == div_s(Half \div 2 - 1, hi)
      error == L_Extract(L_sub(MAX_32, Mpy_32_16(hi, lo, approx)))
      inverse == L_Extract(Mpy_32_16(error.hi, error.lo, approx))
      n == L_Extract(num)
  IN L_shl(Mpy_32(n.hi, n.lo, inverse.hi, inverse.lo), 2)

-----------------------------------------------------------------------------
(* What they are to compute: the nearest number that the result can hold.  *)

Nearest16(x) == IF x > MAX_16 THEN MAX_16 ELSE IF x < MIN_16 THEN MIN_16 ELSE x
Nearest32(x) == IF x > MAX_32 THEN MAX_32 ELSE IF x < MIN_32 THEN MIN_32 ELSE x

Magnitude(x) == IF x < 0 THEN -x ELSE x
Times2(x, n) == IF n >= 0 THEN x * Pow2[n] ELSE x \div Pow2[-n]
Rounded(x, n) == (x + Pow2[n - 1]) \div Pow2[n]

\* v * 2^n fits into the words, and no larger power does.
Normal(v, n, words) == v # 0 => v * Pow2[n] \in words /\ v * Pow2[n + 1] \notin words

WordsExact(a, b) ==
  /\ add(a, b) = Nearest16(a + b) /\ sub(a, b) = Nearest16(a - b)
  /\ abs_s(a) = Nearest16(Magnitude(a)) /\ negate(a) = Nearest16(-a)
  /\ mult(a, b) = Nearest16((a * b) \div Half)
  /\ mult_r(a, b) = Nearest16((2 * a * b + Half) \div (2 * Half))
  /\ shl(a, b) = Nearest16(Times2(a, b)) /\ shr(a, b) = Nearest16(Times2(a, -b))
  /\ Normal(a, norm_s(a), Word16)
  /\ 0 <= a /\ a <= b /\ b > 0 => div_s(a, b) = Nearest16((a * Half) \div b)
  /\ L_mult(a, b) = Nearest32(2 * a * b)

LongWordsExact(L, M) ==
  /\ L_add(L, M) = Nearest32(L + M) /\ L_sub(L, M) = Nearest32(L - M)
  /\ L_abs(L) = Nearest32(Magnitude(L)) /\ L_negate(L) = Nearest32(-L)
  /\ Normal(L, norm_l(L), Word32)
  /\ intround(L) = Nearest16((L + Half) \div (2 * Half))
  /\ L_Comp(L_Extract(L).hi, L_Extract(L).lo) = 2 * (L \div 2)

\* The products and the quotient of double precision, but for their lowest bits: the numbers
\* by which they may be off.
DoublesClose(L, M, n) ==
  LET l == L_Extract(L)
      m == L_Extract(M)
  IN /\ Mpy_32_16(l.hi, l.lo, n) - (L * n) \div Half \in -2 .. 1
     /\ Mpy_32(l.hi, l.lo, m.hi, m.lo) - (L * M) \div (2 * Half * Half) \in -7 .. 2
     /\ 0 <= L /\ L < M /\ M >= Half * Half =>
          Div_32(L, m.hi, m.lo) - (L * 2 * Half * Half) \div M \in -69 .. 2

\* A long word and a word: shifts, and accumulation of a product.
MixedExact(L, n, b) ==
  /\ L_shl(L, n) = Nearest32(Times2(L, n)) /\ L_shr(L, n) = Nearest32(Times2(L, -n))
  /\ n \in 1 .. 2 * W - 1 => L_shr_r(L, n) = Rounded(L, n)
  /\ L_mac(L, n, b) = Nearest32(L + Nearest32(2 * n * b))
  /\ L_msu(L, n, b) = Nearest32(L - Nearest32(2 * n * b))
  /\ L_mac0(L, n, b) = Nearest32(L + n * b) /\ L_msu0(L, n, b) = Nearest32(L - n * b)
=============================================================================
