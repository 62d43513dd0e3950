---------------------------- MODULE CodecsProofs ----------------------------
(***************************************************************************)
(* What the run of CodecsMC finds about the pure functions of the codecs   *)
(* for one small width, for all of them.                                   *)
(*                                                                         *)
(* The fixed-point operators are exact for words of every width.  The      *)
(* arithmetic is that of truncated words: where a result is cut off, on    *)
(* which side of the exact one it lies, and how the errors of the double-  *)
(* precision operators add up.                                             *)
(*                                                                         *)
(* The excitation is decoded as it was encoded, for any depth of the shell *)
(* coder, any tables and any pulses.  Where a part of the symbols stands   *)
(* (Holds), the loop of the decoder that is about it returns what the loop *)
(* of the encoder was given, and ends where the part does.                 *)
(*                                                                         *)
(* The recursive definitions (the powers, the doublings that find a norm,  *)
(* long division, a shift left bit by bit, the sums and the splits) are    *)
(* reasoned about by induction over a set: a set that holds 0, and n + 1   *)
(* with n, holds every number.                                             *)
(***************************************************************************)
EXTENDS CodecsMC, SequenceTheorems, WellFoundedInduction, TLAPS

-----------------------------------------------------------------------------
(* Induction, and the functions that recursion defines.                    *)

\* A set of numbers without a least one that is missing is all of them.
LEMMA Induction ==
  ASSUME NEW S, 0 \in S, \A n \in Nat : n \in S => n + 1 \in S
  PROVE  \A n \in Nat : n \in S
<1> DEFINE R == {p \in Nat \X Nat : p[1] < p[2]}
           T == {n \in Nat : n \notin S}
<1> SUFFICES ASSUME T # {} PROVE FALSE
  OBVIOUS
<1>1. IsWellFoundedOn(R, Nat)
  BY NatLessThanWellFounded DEF OpToRel
<1>2. \A m, n \in Nat : m < n => <<m, n>> \in R
  OBVIOUS
<1>3. T \subseteq Nat
  OBVIOUS
<1> HIDE DEF R
<1>4. PICK n \in T : \A m \in T : <<m, n>> \notin R
  BY <1>1, <1>3, WFMin
<1>5. n \in Nat /\ n \notin S /\ n # 0
  OBVIOUS
<1>6. n - 1 \in Nat /\ n - 1 < n
  BY <1>5
<1>7. <<n - 1, n>> \in R
  BY <1>2, <1>5, <1>6
<1>8. n - 1 \notin T
  BY <1>4, <1>7
<1> QED BY <1>5, <1>6, <1>8

\* A function that is iterated has a sequence of values.
LEMMA Iterates ==
  ASSUME NEW D, NEW first \in D, NEW step \in [D -> D]
  PROVE  \E f \in [Nat -> D] : f[0] = first /\ \A n \in Nat : f[n + 1] = step[f[n]]
<1> DEFINE IsUpto(f, n) == /\ f \in [0 .. n -> D] /\ f[0] = first
                           /\ \A k \in 0 .. n - 1 : f[k + 1] = step[f[k]]
           Reached == {n \in Nat : \E f : IsUpto(f, n)}
<1>1. 0 \in Reached
  <2>1. IsUpto([k \in 0 .. 0 |-> first], 0)
    OBVIOUS
  <2> QED BY <2>1
<1>2. ASSUME NEW n \in Nat, n \in Reached
      PROVE  n + 1 \in Reached
  <2>1. PICK f : IsUpto(f, n)
    BY <1>2
  <2> DEFINE g == [k \in 0 .. n + 1 |-> IF k <= n THEN f[k] ELSE step[f[n]]]
  <2>2. /\ f \in [0 .. n -> D] /\ f[0] = first
        /\ \A k \in 0 .. n - 1 : f[k + 1] = step[f[k]]
    BY <2>1
  <2>3. g \in [0 .. n + 1 -> D] /\ g[0] = first
    BY <2>2
  <2>4. ASSUME NEW k \in 0 .. n
        PROVE  g[k + 1] = step[g[k]]
    <3>1. CASE k = n
      BY <3>1
    <3>2. CASE k < n
      BY <2>2, <3>2
    <3> QED BY <3>1, <3>2
  <2>5. IsUpto(g, n + 1)
    <3> HIDE DEF g
    <3> QED BY <2>3, <2>4
  <2> HIDE DEF IsUpto, g
  <2> QED BY <2>5
<1>3. \A n \in Nat : \E f : IsUpto(f, n)
  <2> HIDE DEF IsUpto
  <2>1. 0 \in Reached /\ \A n \in Nat : n \in Reached => n + 1 \in Reached
    BY <1>1, <1>2
  <2> HIDE DEF Reached
  <2>2. \A n \in Nat : n \in Reached
    BY <2>1, Induction
  <2> QED BY <2>2 DEF Reached
<1>4. ASSUME NEW m \in Nat, NEW n \in Nat, NEW f, NEW g, IsUpto(f, m), IsUpto(g, n)
      PROVE  \A k \in Nat : k <= m /\ k <= n => f[k] = g[k]
  <2> DEFINE S == {k \in Nat : k <= m /\ k <= n => f[k] = g[k]}
  <2>1. 0 \in S
    BY <1>4
  <2>2. ASSUME NEW k \in Nat, k \in S PROVE k + 1 \in S
    <3> SUFFICES ASSUME k + 1 <= m, k + 1 <= n PROVE f[k + 1] = g[k + 1]
      OBVIOUS
    <3>1. k \in 0 .. m - 1 /\ k \in 0 .. n - 1 /\ f[k] = g[k]
      BY <2>2
    <3> QED BY <1>4, <3>1
  <2> HIDE DEF S
  <2>3. \A k \in Nat : k \in S
    BY <2>1, <2>2, Induction
  <2> QED BY <2>3 DEF S
<1> DEFINE upto == [n \in Nat |-> CHOOSE f : IsUpto(f, n)]
           f == [n \in Nat |-> upto[n][n]]
<1>5. ASSUME NEW n \in Nat PROVE IsUpto(upto[n], n)
  <2> HIDE DEF IsUpto
  <2> QED BY <1>3
<1> HIDE DEF upto
<1>6. f \in [Nat -> D] /\ f[0] = first
  <2>1. \A n \in Nat : upto[n] \in [0 .. n -> D] /\ upto[n][0] = first
    BY <1>5
  <2>2. \A n \in Nat : upto[n][n] \in D
    BY <2>1
  <2> QED BY <2>1, <2>2
<1>7. ASSUME NEW n \in Nat PROVE f[n + 1] = step[f[n]]
  <2>1. IsUpto(upto[n], n) /\ IsUpto(upto[n + 1], n + 1)
    BY <1>5
  <2>2. upto[n + 1][n + 1] = step[upto[n + 1][n]]
    <3>1. n \in 0 .. (n + 1) - 1
      OBVIOUS
    <3> QED BY <2>1, <3>1
  <2>3. upto[n + 1][n] = upto[n][n]
    <3> HIDE DEF IsUpto
    <3> QED BY <2>1, <1>4
  <2> QED BY <2>2, <2>3
<1> HIDE DEF f
<1> QED BY <1>6, <1>7

\* A set of numbers has a least one.
LEMMA LeastIs ==
  ASSUME NEW T, T \subseteq Nat, T # {}
  PROVE  \E n \in T : \A m \in T : n <= m
<1> DEFINE R == {p \in Nat \X Nat : p[1] < p[2]}
<1>1. IsWellFoundedOn(R, Nat)
  BY NatLessThanWellFounded DEF OpToRel
<1>2. \A m, n \in Nat : m < n => <<m, n>> \in R
  OBVIOUS
<1> HIDE DEF R
<1>3. PICK n \in T : \A m \in T : <<m, n>> \notin R
  BY <1>1, WFMin
<1>4. \A m \in T : ~(m < n)
  BY <1>2, <1>3
<1> QED BY <1>4

\* Min() is the least element.
LEMMA MinIs ==
  ASSUME NEW T, T \subseteq Nat, T # {}
  PROVE  Min(T) \in T /\ \A m \in T : Min(T) <= m
BY LeastIs DEF Min

\* Max() is the largest element of a set that is bounded.
LEMMA MaxIs ==
  ASSUME NEW T, T \subseteq Nat, T # {}, NEW b \in Int, \A m \in T : m <= b
  PROVE  Max(T) \in T /\ \A m \in T : m <= Max(T)
<1> DEFINE U == {u \in Nat : \A m \in T : m <= u}
<1>1. U \subseteq Nat /\ b \in U
  <2>1. PICK x \in T : TRUE
    OBVIOUS
  <2>2. x \in Nat /\ x <= b
    BY <2>1
  <2> QED BY <2>2
<1>2. PICK u \in U : \A v \in U : u <= v
  <2> HIDE DEF U
  <2>1. \E u \in U : \A v \in U : u <= v
    BY <1>1, LeastIs
  <2> QED BY <2>1
<1>3. u \in T
  <2> SUFFICES ASSUME u \notin T PROVE FALSE
    OBVIOUS
  <2>1. \A m \in T : m \in Nat /\ m <= u /\ m # u
    OBVIOUS
  <2>2. u - 1 \in Nat /\ \A m \in T : m <= u - 1
    <3>1. u \in Nat
      OBVIOUS
    <3>2. PICK x \in T : x \in Nat /\ x <= u /\ x # u
      BY <2>1
    <3> QED BY <2>1, <3>1, <3>2
  <2>3. u - 1 \in U
    BY <2>2
  <2> QED BY <1>2, <2>2, <2>3
<1>4. \E x \in T : \A m \in T : x >= m
  BY <1>2, <1>3
<1> HIDE DEF U
<1> QED BY <1>4 DEF Max

-----------------------------------------------------------------------------
(* Powers of two.                                                          *)

\* Pow2 is what its recursion says.
LEMMA PowersDouble ==
  /\ Pow2 \in [Nat -> Nat \ {0}] /\ Pow2[0] = 1
  /\ \A n \in Nat : Pow2[n + 1] = 2 * Pow2[n]
<1> DEFINE D == Nat \ {0}
           step == [x \in D |-> 2 * x]
           Solves(f) == f = [n \in Nat |-> IF n = 0 THEN 1 ELSE 2 * f[n - 1]]
<1>1. PICK f \in [Nat -> D] : f[0] = 1 /\ \A n \in Nat : f[n + 1] = step[f[n]]
  <2> DEFINE first == 1
  <2>1. first \in D /\ step \in [D -> D]
    OBVIOUS
  <2> HIDE DEF D, step, first
  <2>2. \E f \in [Nat -> D] : f[0] = first /\ \A n \in Nat : f[n + 1] = step[f[n]]
    BY <2>1, Iterates
  <2> QED BY <2>2 DEF first
<1>2. ASSUME NEW n \in Nat PROVE f[n] = IF n = 0 THEN 1 ELSE 2 * f[n - 1]
  <2>1. CASE n = 0
    BY <1>1, <2>1
  <2>2. CASE n # 0
    <3>1. n - 1 \in Nat /\ (n - 1) + 1 = n
      BY <2>2
    <3>2. f[n] = step[f[n - 1]]
      BY <1>1, <3>1
    <3> QED BY <1>1, <2>2, <3>1, <3>2
  <2> QED BY <2>1, <2>2
<1>3. Solves(f)
  BY <1>2
<1>4. Pow2 = CHOOSE g : Solves(g)
  BY DEF Pow2
<1>5. Solves(Pow2)
  <2> HIDE DEF Solves
  <2> QED BY <1>3, <1>4
<1>6. Pow2[0] = 1
  BY <1>5
<1>7. ASSUME NEW n \in Nat PROVE Pow2[n + 1] = 2 * Pow2[n]
  BY <1>5
<1>8. \A n \in Nat : Pow2[n] \in D
  <2> DEFINE S == {n \in Nat : Pow2[n] \in D}
  <2>1. 0 \in S /\ \A n \in Nat : n \in S => n + 1 \in S
    BY <1>6, <1>7
  <2> HIDE DEF S
  <2>2. \A n \in Nat : n \in S
    BY <2>1, Induction
  <2> QED BY <2>2 DEF S
<1>9. Pow2 = [n \in Nat |-> Pow2[n]]
  BY <1>5
<1> QED BY <1>6, <1>7, <1>8, <1>9

\* The powers of sums.
LEMMA PowersAdd ==
  ASSUME NEW m \in Nat
  PROVE  \A n \in Nat : Pow2[m + n] = Pow2[m] * Pow2[n]
<1> DEFINE S == {n \in Nat : Pow2[m + n] = Pow2[m] * Pow2[n]}
<1>1. 0 \in S
  BY PowersDouble
<1>2. ASSUME NEW n \in Nat, n \in S PROVE n + 1 \in S
  <2>1. /\ Pow2[m + n] \in Nat /\ Pow2[m] \in Nat /\ Pow2[n] \in Nat
        /\ Pow2[(m + n) + 1] = 2 * Pow2[m + n] /\ Pow2[n + 1] = 2 * Pow2[n]
    BY PowersDouble
  <2>2. m + (n + 1) = (m + n) + 1
    OBVIOUS
  <2>3. \A x, y \in Nat : 2 * (x * y) = x * (2 * y)
    OBVIOUS
  <2>4. Pow2[m + n] = Pow2[m] * Pow2[n]
    BY <1>2
  <2>5. 2 * (Pow2[m] * Pow2[n]) = Pow2[m] * (2 * Pow2[n])
    BY <2>1, <2>3
  <2>6. Pow2[m + (n + 1)] = Pow2[m] * Pow2[n + 1]
    BY <2>1, <2>2, <2>4, <2>5
  <2> QED BY <2>6
<1> HIDE DEF S
<1>3. \A n \in Nat : n \in S
  BY <1>1, <1>2, Induction
<1> QED BY <1>3 DEF S

\* The powers grow.
LEMMA PowersGrow ==
  ASSUME NEW m \in Nat, NEW n \in Nat, m <= n
  PROVE  /\ Pow2[m] \in Nat /\ Pow2[n] \in Nat /\ Pow2[m] >= 1 /\ Pow2[m] <= Pow2[n]
         /\ m < n => 2 * Pow2[m] <= Pow2[n]
<1>1. n - m \in Nat /\ m + (n - m) = n
  OBVIOUS
<1>2. Pow2[n] = Pow2[m] * Pow2[n - m]
  BY <1>1, PowersAdd
<1>3. \A k \in Nat : Pow2[k] \in Nat /\ Pow2[k] >= 1
  BY PowersDouble
<1>4. \A x, y \in Nat : y >= 1 => x <= x * y
  OBVIOUS
<1>5. Pow2[m] <= Pow2[n]
  BY <1>1, <1>2, <1>3, <1>4
<1>6. ASSUME m < n PROVE 2 * Pow2[m] <= Pow2[n]
  <2>1. n - (m + 1) \in Nat /\ m + 1 \in Nat /\ (m + 1) + (n - (m + 1)) = n
    BY <1>6
  <2>2. Pow2[n] = Pow2[m + 1] * Pow2[n - (m + 1)] /\ Pow2[m + 1] = 2 * Pow2[m]
    BY <2>1, PowersAdd, PowersDouble
  <2>3. Pow2[m + 1] <= Pow2[n]
    BY <1>3, <1>4, <2>1, <2>2
  <2> QED BY <2>2, <2>3
<1> QED BY <1>1, <1>3, <1>5, <1>6
-----------------------------------------------------------------------------
(* The sizes of words, and division.                                       *)

\* Half the range of a word is a power of two, and so is its square.
LEMMA HalfIsPower ==
  /\ W - 2 \in Nat /\ Half \in Nat /\ Half >= 2
  /\ Half = Pow2[W - 1] /\ Half = 2 * Pow2[W - 2] /\ Pow2[W] = 2 * Half
  /\ Half * Half \in Nat /\ Half * Half = Pow2[2 * W - 2]
  /\ Pow2[2 * W - 1] = 2 * (Half * Half) /\ Pow2[2 * W] = 4 * (Half * Half)
<1>1. W - 2 \in Nat /\ W - 1 \in Nat /\ (W - 2) + 1 = W - 1 /\ (W - 1) + 1 = W
  BY WordAssumption
<1>2. 2 * W - 2 \in Nat /\ (W - 1) + (W - 1) = 2 * W - 2 /\ (2 * W - 2) + 1 = 2 * W - 1
  BY WordAssumption
<1>3. 2 * W - 1 \in Nat /\ (2 * W - 1) + 1 = 2 * W
  BY WordAssumption
<1>4. Half = Pow2[W - 1]
  BY WordAssumption
<1>5. /\ Pow2[W - 1] = 2 * Pow2[W - 2] /\ Pow2[W] = 2 * Pow2[W - 1]
      /\ Pow2[W - 2] \in Nat /\ Pow2[W - 2] >= 1
  BY <1>1, PowersDouble
<1>6. Half \in Nat /\ Half >= 2
  BY <1>4, <1>5
<1>7. Pow2[2 * W - 2] = Half * Half
  BY <1>1, <1>2, <1>4, PowersAdd
<1>8. Pow2[2 * W - 1] = 2 * Pow2[2 * W - 2] /\ Pow2[2 * W] = 2 * Pow2[2 * W - 1]
  BY <1>2, <1>3, PowersDouble
<1>9. Half * Half \in Nat
  BY <1>6
<1> DEFINE F == Half * Half
<1>10. Pow2[2 * W - 1] = 2 * F /\ Pow2[2 * W] = 4 * F
  <2>1. F \in Nat /\ Pow2[2 * W - 2] = F
    BY <1>7, <1>9
  <2> HIDE DEF F
  <2> QED BY <1>8, <2>1
<1> QED BY <1>1, <1>4, <1>5, <1>6, <1>7, <1>9, <1>10

\* Half the range of a word is a positive integer, and so is its square.
LEMMA HalfIsPositive == Half \in Int /\ Half >= 1 /\ Half * Half \in Int /\ Half * Half >= 1
<1>1. Half \in Int /\ Half >= 1
  BY HalfIsPower
<1>2. \A h \in Int : h >= 1 => h * h \in Int /\ h * h >= 1
  OBVIOUS
<1> QED BY <1>1, <1>2

\* A product of a positive number is at least that number, or not positive.
LEMMA ProductsGrow ==
  ASSUME NEW d \in Int, NEW y \in Int, y > 0
  PROVE  d * y \in Int /\ (d >= 1 => d * y >= y) /\ (d <= -1 => d * y <= -y)
<1>1. \A e \in Int : e >= 0 => e * y >= 0
  OBVIOUS
<1>2. d >= 1 => d * y >= y
  <2>1. (d - 1) * y = d * y - y
    OBVIOUS
  <2> QED BY <1>1, <2>1
<1>3. d <= -1 => d * y <= -y
  <2>1. (-d - 1) * y = -(d * y) - y
    OBVIOUS
  <2> QED BY <1>1, <2>1
<1> QED BY <1>2, <1>3

\* What a quotient is.
LEMMA Division ==
  ASSUME NEW x \in Int, NEW y \in Int, y > 0
  PROVE  x \div y \in Int /\ (x \div y) * y <= x /\ x < (x \div y) * y + y
<1>1. x \div y \in Int
  OBVIOUS
<1>2. y * (x \div y) <= x
  OBVIOUS
<1>3. x < y * (x \div y) + y
  OBVIOUS
<1>4. \A a, b \in Int : a * b = b * a
  OBVIOUS
<1>5. (x \div y) * y = y * (x \div y)
  BY <1>1, <1>4
<1> QED BY <1>1, <1>2, <1>3, <1>5

\* And there is no other number like that.
LEMMA QuotientIs ==
  ASSUME NEW x \in Int, NEW y \in Int, NEW q \in Int, y > 0, q * y <= x, x < q * y + y
  PROVE  x \div y = q
<1> DEFINE r == x \div y
           d == r - q
<1>1. r \in Int /\ d \in Int /\ r * y \in Int /\ q * y \in Int /\ d * y \in Int
      /\ r * y <= x /\ x < r * y + y
  BY Division
<1>2. d * y = r * y - q * y
  BY <1>1
<1>3. (d >= 1 => d * y >= y) /\ (d <= -1 => d * y <= -y)
  <2> HIDE DEF d
  <2> QED BY <1>1, ProductsGrow
<1> DEFINE ry == r * y
           qy == q * y
           dy == d * y
<1>4. /\ ry \in Int /\ qy \in Int /\ dy \in Int /\ dy = ry - qy /\ ry <= x /\ x < ry + y
      /\ qy <= x /\ x < qy + y /\ (d >= 1 => dy >= y) /\ (d <= -1 => dy <= -y)
  BY <1>1, <1>2, <1>3
<1> HIDE DEF ry, qy, dy, r
<1>5. d = 0
  <2>1. dy < y /\ dy > -y
    BY <1>4
  <2> HIDE DEF d
  <2> QED BY <1>1, <1>4, <2>1
<1> QED BY <1>1, <1>5 DEF r

\* What is left of a division.
LEMMA Remainder ==
  ASSUME NEW x \in Int, NEW y \in Int, y > 0
  PROVE  /\ x % y \in Int /\ 0 <= x % y /\ x % y < y
         /\ x \div y \in Int /\ x = (x \div y) * y + (x % y)
<1>1. x \div y \in Int /\ x % y \in Int
  OBVIOUS
<1>2. 0 <= x % y /\ x % y < y
  OBVIOUS
<1>3. x % y = x - y * (x \div y)
  OBVIOUS
<1>4. y * (x \div y) = (x \div y) * y
  OBVIOUS
<1> DEFINE z == (x \div y) * y
           r == x % y
<1>5. z \in Int /\ r \in Int
  OBVIOUS
<1>6. r = x - z
  BY <1>3, <1>4
<1> HIDE DEF z, r
<1>7. x = z + r
  BY <1>5, <1>6
<1> QED BY <1>1, <1>2, <1>7 DEF z, r

\* A division and its remainder are known when some multiple leaves less than the divisor.
LEMMA RemainderIs ==
  ASSUME NEW x \in Int, NEW y \in Int, NEW q \in Int, NEW r \in Int, y > 0,
         x = q * y + r, 0 <= r, r < y
  PROVE  x \div y = q /\ x % y = r
<1> DEFINE qy == q * y
<1>1. qy \in Int
  OBVIOUS
<1>2. x = qy + r
  OBVIOUS
<1> HIDE DEF qy
<1>3. qy <= x /\ x < qy + y
  BY <1>1, <1>2
<1>4. x \div y = q
  BY <1>3, QuotientIs DEF qy
<1>5. x = (x \div y) * y + (x % y) /\ x % y \in Int
  BY Remainder
<1>6. x = qy + (x % y)
  BY <1>4, <1>5 DEF qy
<1> QED BY <1>1, <1>2, <1>4, <1>5, <1>6

\* A common factor of a dividend and a divisor makes no difference.
LEMMA CommonFactor ==
  ASSUME NEW x \in Int, NEW y \in Int, y > 0
  PROVE  (2 * x) \div (2 * y) = x \div y
<1> DEFINE q == x \div y
<1>1. q \in Int /\ q * y \in Int /\ q * y <= x /\ x < q * y + y
  BY Division
<1>2. q * (2 * y) = 2 * (q * y)
  BY <1>1
<1>3. 2 * x \in Int /\ 2 * y \in Int /\ 2 * y > 0
  OBVIOUS
<1> HIDE DEF q
<1>4. q * (2 * y) <= 2 * x /\ 2 * x < q * (2 * y) + 2 * y
  BY <1>1, <1>2
<1>5. (2 * x) \div (2 * y) = q
  BY <1>1, <1>3, <1>4, QuotientIs
<1> QED BY <1>5 DEF q

\* A quotient of a number that the divisor is not far from is 0 or -1.
LEMMA SmallQuotient ==
  ASSUME NEW x \in Int, NEW y \in Int, y > 0, -y <= x, x < y
  PROVE  x \div y = IF x < 0 THEN -1 ELSE 0
<1>1. CASE x < 0
  <2>1. (-1) * y <= x /\ x < (-1) * y + y
    BY <1>1
  <2> QED BY <1>1, <2>1, QuotientIs
<1>2. CASE ~(x < 0)
  <2>1. 0 * y <= x /\ x < 0 * y + y
    BY <1>2
  <2> QED BY <1>2, <2>1, QuotientIs
<1> QED BY <1>1, <1>2
-----------------------------------------------------------------------------
(* Words.                                                                  *)

\* The lower half of a number that a word can hold is that number.
LEMMA LowOfWord ==
  ASSUME NEW x \in Word16 PROVE extract_l(x) = x
<1>1. \A h, y \in Int : h >= 1 /\ 0 <= y /\ y < 2 * h => y % (2 * h) = y
  OBVIOUS
<1>2. x + Half \in Int /\ 0 <= x + Half /\ x + Half < 2 * Half
  BY HalfIsPositive DEF Word16, MAX_16, MIN_16
<1>3. (x + Half) % (2 * Half) = x + Half
  BY <1>1, <1>2, HalfIsPositive
<1> QED BY <1>3, HalfIsPositive DEF extract_l, Word16, MAX_16, MIN_16

\* saturate() gives the nearest word of 16 bits.
LEMMA SaturateIsNearest ==
  ASSUME NEW x \in Int PROVE saturate(x) = Nearest16(x) /\ saturate(x) \in Word16
<1>1. CASE x \in Word16
  BY <1>1, LowOfWord, HalfIsPositive DEF saturate, Nearest16, Word16, MAX_16, MIN_16
<1>2. CASE x \notin Word16
  BY <1>2, HalfIsPositive DEF saturate, Nearest16, Word16, MAX_16, MIN_16
<1> QED BY <1>1, <1>2

(* add(), sub(), negate() and abs_s() of basop32.c: the nearest Word16 to  *)
(* the exact result.                                                       *)
THEOREM WordsSaturate ==
  \A a, b \in Word16 :
    /\ add(a, b) = Nearest16(a + b)
    /\ sub(a, b) = Nearest16(a - b)
    /\ negate(a) = Nearest16(-a)
    /\ abs_s(a) = Nearest16(Magnitude(a))
<1> TAKE a, b \in Word16
<1>1. a \in Int /\ b \in Int
  BY DEF Word16, MAX_16, MIN_16
<1>2. add(a, b) = Nearest16(a + b) /\ sub(a, b) = Nearest16(a - b)
  BY <1>1, SaturateIsNearest DEF add, sub
<1>3. negate(a) = Nearest16(-a) /\ abs_s(a) = Nearest16(Magnitude(a))
  BY HalfIsPositive DEF negate, abs_s, Nearest16, Magnitude, Word16, MAX_16, MIN_16
<1> QED BY <1>2, <1>3

\* A product with a power of two is on the side of 0 its factor is on, and at least as far.
LEMMA Scaled ==
  ASSUME NEW v \in Int, NEW n \in Nat
  PROVE  /\ v * Pow2[n] \in Int
         /\ v >= 1 => v * Pow2[n] >= Pow2[n]
         /\ v <= -1 => v * Pow2[n] <= -Pow2[n]
         /\ v = 0 => v * Pow2[n] = 0
<1>1. Pow2[n] \in Int /\ Pow2[n] > 0
  BY PowersDouble
<1> DEFINE p == Pow2[n]
<1> HIDE DEF p
<1>2. p \in Int /\ p > 0
  BY <1>1 DEF p
<1>3. v * p \in Int /\ (v >= 1 => v * p >= p) /\ (v <= -1 => v * p <= -p)
  BY <1>2, ProductsGrow
<1>4. v = 0 => v * p = 0
  BY <1>2
<1> QED BY <1>3, <1>4 DEF p

\* A quotient by a power of two is between 0 and the dividend.
LEMMA Shortened ==
  ASSUME NEW v \in Int, NEW n \in Nat
  PROVE  /\ v \div Pow2[n] \in Int
         /\ v >= 0 => 0 <= v \div Pow2[n] /\ v \div Pow2[n] <= v
         /\ v < 0 => v <= v \div Pow2[n] /\ v \div Pow2[n] <= -1
<1> DEFINE p == Pow2[n]
           q == v \div p
           qp == q * p
<1>1. p \in Int /\ p > 0
  BY PowersDouble
<1> HIDE DEF p
<1>2. q \in Int /\ qp <= v /\ v < qp + p
  BY <1>1, Division
<1> HIDE DEF q
<1>3. qp \in Int /\ (q >= 1 => qp >= p) /\ (q <= -1 => qp <= -p) /\ (q = 0 => qp = 0)
  BY <1>1, <1>2, ProductsGrow
<1>4. (q >= 0 => q <= qp) /\ (q <= -1 => qp <= q)
  <2>1. \A x, y \in Int : y > 0 => (x >= 0 => x <= x * y) /\ (x <= -1 => x * y <= x)
    OBVIOUS
  <2> QED BY <1>1, <1>2, <2>1
<1>5. v >= 0 => 0 <= q /\ q <= v
  <2> HIDE DEF qp
  <2> QED BY <1>1, <1>2, <1>3, <1>4
<1>6. v < 0 => v <= q /\ q <= -1
  <2>1. v < 0 => q <= -1
    <3> HIDE DEF qp
    <3> QED BY <1>1, <1>2, <1>3, <1>4
  <2>2. ASSUME v < 0, q < v PROVE FALSE
    <3>1. q + 1 \in Int /\ q + 1 <= -0 /\ (q + 1) * p = qp + p
      BY <1>1, <1>2, <2>2
    <3>2. \A x, y \in Int : y > 0 /\ x <= 0 => x * y <= x
      OBVIOUS
    <3>3. (q + 1) * p <= q + 1
      BY <1>1, <3>1, <3>2
    <3> DEFINE r == qp + p
    <3>4. r \in Int /\ v < r /\ r <= q + 1
      BY <1>1, <1>2, <1>3, <3>1, <3>3
    <3> HIDE DEF r
    <3> QED BY <1>2, <2>2, <3>4
  <2> QED BY <1>2, <2>1, <2>2
<1> QED BY <1>2, <1>5, <1>6 DEF p, q

\* A quotient by a power of two that is at least as large as the range of the dividend.
LEMMA ShortenedFar ==
  ASSUME NEW v \in Int, NEW m \in Nat, NEW n \in Nat, m <= n, -Pow2[m] <= v, v < Pow2[m]
  PROVE  v \div Pow2[n] = IF v < 0 THEN -1 ELSE 0
<1>1. Pow2[n] \in Int /\ Pow2[n] > 0 /\ Pow2[m] \in Int /\ Pow2[m] <= Pow2[n]
  BY PowersGrow
<1> DEFINE p == Pow2[n]
<1> HIDE DEF p
<1>2. p \in Int /\ p > 0 /\ -p <= v /\ v < p
  BY <1>1 DEF p
<1>3. v \div p = IF v < 0 THEN -1 ELSE 0
  BY <1>2, SmallQuotient
<1> QED BY <1>3 DEF p

\* The words are the numbers around 0 that are closer to it than Half.
LEMMA WordsAre ==
  /\ MAX_16 = Half - 1 /\ MIN_16 = -Half /\ Half \in Int /\ Half >= 2
  /\ \A x : x \in Word16 <=> x \in Int /\ -Half <= x /\ x <= Half - 1
BY HalfIsPower DEF Word16, MAX_16, MIN_16

\* Right shifts of 16 bits round down, however far they go.
LEMMA WordsShiftRight ==
  ASSUME NEW v \in Word16, NEW n \in Nat
  PROVE  /\ ShiftedRight(v, n) = v \div Pow2[n]
         /\ v \div Pow2[n] = Nearest16(v \div Pow2[n])
         /\ n >= W - 1 => v \div Pow2[n] = IF v < 0 THEN -1 ELSE 0
<1>1. v \in Int /\ -Half <= v /\ v <= Half - 1
  BY WordsAre
<1>2. n >= W - 1 => v \div Pow2[n] = IF v < 0 THEN -1 ELSE 0
  <2> SUFFICES ASSUME n >= W - 1 PROVE v \div Pow2[n] = IF v < 0 THEN -1 ELSE 0
    OBVIOUS
  <2>1. W - 1 \in Nat /\ W - 1 <= n /\ Half = Pow2[W - 1] /\ Half \in Int
    BY HalfIsPower, WordAssumption
  <2>2. -Pow2[W - 1] <= v /\ v < Pow2[W - 1]
    BY <1>1, <2>1
  <2> QED BY <1>1, <2>1, <2>2, ShortenedFar
<1>3. ShiftedRight(v, n) = v \div Pow2[n]
  BY <1>2 DEF ShiftedRight
<1>4. v \div Pow2[n] = Nearest16(v \div Pow2[n])
  <2> DEFINE q == v \div Pow2[n]
  <2>1. q \in Int /\ (v >= 0 => 0 <= q /\ q <= v) /\ (v < 0 => v <= q /\ q <= -1)
    BY <1>1, Shortened
  <2> HIDE DEF q
  <2>2. q = Nearest16(q)
    BY <1>1, <2>1, WordsAre DEF Nearest16
  <2> QED BY <2>2 DEF q
<1> QED BY <1>2, <1>3, <1>4

\* Left shifts of 16 bits saturate, however far they go.
LEMMA WordsShiftLeft ==
  ASSUME NEW v \in Word16, NEW n \in Nat
  PROVE  /\ ShiftedLeft(v, n) = Nearest16(v * Pow2[n])
         /\ n >= W => Nearest16(v * Pow2[n])
                        = IF v = 0 THEN 0 ELSE IF v > 0 THEN MAX_16 ELSE MIN_16
<1> DEFINE p == Pow2[n]
           r == v * p
<1>1. v \in Int /\ -Half <= v /\ v <= Half - 1 /\ Half \in Int /\ Half >= 2
  BY WordsAre
<1>2. p \in Int /\ p >= 1
  BY PowersDouble
<1>3. r \in Int /\ (v >= 1 => r >= p) /\ (v <= -1 => r <= -p) /\ (v = 0 => r = 0)
  BY <1>1, Scaled
<1>4. n >= W => p >= 2 * Half
  <2>1. W \in Nat /\ Pow2[W] = 2 * Half
    BY HalfIsPower, WordAssumption
  <2> QED BY <1>1, <2>1, PowersGrow
<1>5. ShiftedLeft(v, n) = IF (n > W - 1 /\ v # 0) \/ r \notin Word16
                          THEN (IF v > 0 THEN MAX_16 ELSE MIN_16) ELSE extract_l(r)
  BY DEF ShiftedLeft
<1>6. n > W - 1 <=> n >= W
  BY WordAssumption
<1> HIDE DEF r, p
<1>7. n >= W /\ v # 0 => r \notin Word16 /\ (r > 0 <=> v > 0)
  BY <1>1, <1>2, <1>3, <1>4, WordsAre
<1>8. r \notin Word16 => Nearest16(r) = (IF v > 0 THEN MAX_16 ELSE MIN_16) /\ v # 0
  BY <1>1, <1>2, <1>3, WordsAre DEF Nearest16
<1>9. r \in Word16 => Nearest16(r) = r /\ extract_l(r) = r
  BY WordsAre, LowOfWord DEF Nearest16
<1>10. ShiftedLeft(v, n) = Nearest16(r)
  BY <1>5, <1>6, <1>7, <1>8, <1>9
<1>11. v = 0 => Nearest16(r) = 0
  BY <1>1, <1>3, WordsAre DEF Nearest16
<1>12. n >= W => Nearest16(r) = IF v = 0 THEN 0 ELSE IF v > 0 THEN MAX_16 ELSE MIN_16
  BY <1>7, <1>8, <1>11
<1> QED BY <1>10, <1>12 DEF r, p

\* shl() and shr() multiply and divide by a power of two, in either direction.
LEMMA WordsShift ==
  ASSUME NEW v \in Word16, NEW n \in Int
  PROVE  shl(v, n) = Nearest16(Times2(v, n)) /\ shr(v, n) = Nearest16(Times2(v, -n))
<1>1. W \in Nat /\ W >= 2
  BY WordAssumption
<1>2. CASE n >= 0
  <2>1. n \in Nat /\ ~(n < 0)
    BY <1>2
  <2>2. shl(v, n) = ShiftedLeft(v, n) /\ Times2(v, n) = v * Pow2[n]
    BY <1>2, <2>1 DEF shl, Times2
  <2>3. shl(v, n) = Nearest16(Times2(v, n))
    BY <2>1, <2>2, WordsShiftLeft
  <2>4. shr(v, n) = ShiftedRight(v, n)
    BY <2>1 DEF shr
  <2>5. Times2(v, -n) = v \div Pow2[n]
    <3>1. CASE n = 0
      <4>0. v \in Int
        BY WordsAre
      <4>1. -n = 0
        <5>1. \A i, j \in Int : i + j = 0 /\ i = 0 => j = 0
          OBVIOUS
        <5>2. -n \in Int /\ n + (-n) = 0
          OBVIOUS
        <5> QED BY <3>1, <5>1, <5>2
      <4>2. v * 1 = v /\ v \div 1 = v
        BY <4>0
      <4>3. Times2(v, -n) = v * Pow2[0]
        BY <4>1 DEF Times2
      <4> QED BY <3>1, <4>2, <4>3, PowersDouble
    <3>2. CASE n # 0
      <4>1. ~(-n >= 0) /\ -(-n) = n
        BY <1>2, <3>2
      <4> QED BY <4>1 DEF Times2
    <3> QED BY <3>1, <3>2
  <2>6. shr(v, n) = Nearest16(Times2(v, -n))
    BY <2>1, <2>4, <2>5, WordsShiftRight
  <2> QED BY <2>3, <2>6
<1>3. CASE n < 0
  <2> DEFINE m == Opposite(n, W)
  <2>1. m = IF n < -W THEN W ELSE -n
    BY DEF Opposite
  <2>2. m \in Nat /\ -n \in Nat /\ (m = -n \/ (m = W /\ -n > W)) /\ -n >= 0 /\ ~(n >= 0)
    BY <1>1, <1>3, <2>1
  <2>3. shl(v, n) = ShiftedRight(v, m) /\ shr(v, n) = ShiftedLeft(v, m)
    BY <1>3 DEF shl, shr
  <2>4. Times2(v, n) = v \div Pow2[-n] /\ Times2(v, -n) = v * Pow2[-n]
    BY <2>2 DEF Times2
  <2> HIDE DEF m
  <2> DEFINE k == -n
  <2>5. k \in Nat /\ m \in Nat /\ (m = k \/ (m = W /\ k > W))
    BY <2>2
  <2> HIDE DEF k
  <2>6. ShiftedRight(v, m) = Nearest16(v \div Pow2[k])
    <3>1. /\ ShiftedRight(v, m) = v \div Pow2[m]
          /\ v \div Pow2[k] = Nearest16(v \div Pow2[k])
      BY <2>5, WordsShiftRight
    <3>2. m # k => v \div Pow2[m] = v \div Pow2[k]
      <4>1. m # k => m >= W - 1 /\ k >= W - 1
        BY <1>1, <2>5
      <4> QED BY <2>5, <4>1, WordsShiftRight
    <3> QED BY <3>1, <3>2
  <2>7. ShiftedLeft(v, m) = Nearest16(v * Pow2[k])
    <3>1. ShiftedLeft(v, m) = Nearest16(v * Pow2[m])
      BY <2>5, WordsShiftLeft
    <3>2. m # k => Nearest16(v * Pow2[m]) = Nearest16(v * Pow2[k])
      <4>1. m # k => m >= W /\ k >= W
        BY <1>1, <2>5
      <4> QED BY <2>5, <4>1, WordsShiftLeft
    <3> QED BY <3>1, <3>2
  <2> QED BY <2>3, <2>4, <2>6, <2>7 DEF k
<1> QED BY <1>2, <1>3
\* mult() and mult_r(): the product of two fractions, rounded down or to the nearest.
LEMMA WordsMultiply ==
  ASSUME NEW a \in Word16, NEW b \in Word16
  PROVE  /\ mult(a, b) = Nearest16((a * b) \div Half)
         /\ mult_r(a, b) = Nearest16((2 * a * b + Half) \div (2 * Half))
<1>1. a \in Int /\ b \in Int /\ Half \in Int /\ Half >= 2 /\ Pow2[W - 2] \in Int
  BY WordsAre, HalfIsPower, PowersDouble
<1> DEFINE p == a * b
           h == Pow2[W - 2]
<1>2. p \in Int /\ 2 * a * b = 2 * p /\ Half = 2 * h /\ h \in Int
  <2>1. \A x, y \in Int : x * y \in Int /\ 2 * x * y = 2 * (x * y)
    OBVIOUS
  <2> QED BY <1>1, <2>1, HalfIsPower
<1>3. mult(a, b) = saturate(p \div Half) /\ mult_r(a, b) = saturate((p + Half \div 2) \div Half)
  BY DEF mult, mult_r
<1> HIDE DEF p, h
<1>4. Half \div 2 = h
  BY <1>2
<1>5. 2 * p + Half = 2 * (p + h) /\ p + h \in Int
  BY <1>2
<1>6. (2 * p + Half) \div (2 * Half) = (p + Half \div 2) \div Half
  BY <1>1, <1>4, <1>5, CommonFactor
<1>7. p \div Half \in Int /\ (p + Half \div 2) \div Half \in Int
  BY <1>1, <1>2, <1>4, <1>5, Division
<1>8. mult(a, b) = Nearest16(p \div Half)
  BY <1>3, <1>7, SaturateIsNearest
<1>9. mult_r(a, b) = Nearest16((2 * p + Half) \div (2 * Half))
  BY <1>3, <1>6, <1>7, SaturateIsNearest
<1> QED BY <1>2, <1>8, <1>9 DEF p

-----------------------------------------------------------------------------
(* Norms.                                                                  *)

\* How often the loop doubles: as often as it takes, and no more.
LEMMA Doubled ==
  ASSUME NEW highest \in Int, NEW v \in Nat \ {0}, NEW e \in Nat, highest <= Pow2[e]
  PROVE  LET k == Doublings(v, highest) IN
         /\ k \in Nat /\ v * Pow2[k] >= highest
         /\ k > 0 => v * Pow2[k - 1] < highest
<1> DEFINE D == Nat \ {0}
           Enough(x, n) == x * Pow2[n] >= highest
           Least(x, n) == n \in Nat /\ Enough(x, n) /\ \A m \in Nat : m < n => ~Enough(x, m)
           Solves(f) == f = [x \in D |-> IF x < highest THEN 1 + f[2 * x] ELSE 0]
           g == [x \in D |-> CHOOSE n \in Nat : Least(x, n)]
<1>1. ASSUME NEW x \in D, NEW n \in Nat
      PROVE  /\ x * Pow2[n] \in Int /\ (2 * x) * Pow2[n] = x * Pow2[n + 1]
             /\ x * Pow2[n] >= Pow2[n] /\ 2 * x \in D
  <2>1. x \in Int /\ x >= 1 /\ 2 * x \in D
    OBVIOUS
  <2>2. x * Pow2[n] \in Int /\ x * Pow2[n] >= Pow2[n]
    BY <2>1, Scaled
  <2>3. Pow2[n] \in Int /\ Pow2[n + 1] = 2 * Pow2[n]
    BY PowersDouble
  <2>4. \A a, b \in Int : (2 * a) * b = a * (2 * b)
    OBVIOUS
  <2> QED BY <2>1, <2>2, <2>3, <2>4
<1>2. ASSUME NEW x \in D PROVE Enough(x, e)
  <2>0. x * Pow2[e] \in Int /\ x * Pow2[e] >= Pow2[e]
    BY <1>1
  <2>1. x * Pow2[e] \in Int /\ x * Pow2[e] >= Pow2[e] /\ Pow2[e] \in Int
    BY <2>0, PowersDouble
  <2> DEFINE r == x * Pow2[e]
             p == Pow2[e]
  <2> HIDE DEF r, p
  <2>2. r >= highest
    BY <2>1 DEF r, p
  <2> QED BY <2>2 DEF r
<1>3. ASSUME NEW x \in D PROVE Enough(x, 0) <=> ~(x < highest)
  BY PowersDouble
<1>4. ASSUME NEW x \in D, NEW n \in Nat PROVE Enough(x, n + 1) <=> Enough(2 * x, n)
  BY <1>1
<1> HIDE DEF Enough
<1>5. ASSUME NEW x \in D PROVE \E n \in Nat : Least(x, n)
  <2> DEFINE S == {n \in Nat : \A m \in Nat : m <= n => ~Enough(x, m)}
  <2> SUFFICES ASSUME ~\E n \in Nat : Least(x, n) PROVE FALSE
    OBVIOUS
  <2>1. 0 \in S
    <3>1. ~Enough(x, 0)
      OBVIOUS
    <3> QED BY <3>1
  <2>2. ASSUME NEW n \in Nat, n \in S PROVE n + 1 \in S
    <3>1. ~Enough(x, n + 1)
      BY <2>2
    <3> QED BY <2>2, <3>1
  <2> HIDE DEF S
  <2>3. e \in S
    BY <2>1, <2>2, Induction
  <2> QED BY <1>2, <2>3 DEF S
<1>6. ASSUME NEW x \in D, NEW m \in Nat, NEW n \in Nat, Least(x, m), Least(x, n) PROVE m = n
  BY <1>6
<1>7. ASSUME NEW x \in D PROVE g[x] \in Nat /\ Least(x, g[x])
  <2> HIDE DEF Least
  <2> QED BY <1>5
<1> HIDE DEF g
<1>8. ASSUME NEW x \in D PROVE g[x] = IF x < highest THEN 1 + g[2 * x] ELSE 0
  <2>0. 2 * x \in D
    OBVIOUS
  <2>1. CASE x < highest
    <3> DEFINE n == g[2 * x]
    <3>1. n \in Nat /\ Least(2 * x, n)
      BY <2>0, <1>7
    <3> HIDE DEF n
    <3>2. Enough(x, n + 1)
      BY <1>4, <3>1
    <3>3. ASSUME NEW m \in Nat, m < n + 1 PROVE ~Enough(x, m)
      <4>1. CASE m = 0
        BY <1>3, <2>1, <4>1
      <4>2. CASE m # 0
        <5>1. m - 1 \in Nat /\ m - 1 < n /\ (m - 1) + 1 = m
          BY <3>1, <3>3, <4>2
        <5> QED BY <1>4, <3>1, <5>1
      <4> QED BY <4>1, <4>2
    <3>4. n + 1 \in Nat /\ Least(x, n + 1)
      BY <3>1, <3>2, <3>3
    <3>5. g[x] = n + 1
      BY <1>6, <1>7, <3>4
    <3> QED BY <2>1, <3>1, <3>5 DEF n
  <2>2. CASE ~(x < highest)
    <3>1. Least(x, 0)
      BY <1>3, <2>2
    <3> QED BY <1>6, <1>7, <2>2, <3>1
  <2> QED BY <2>1, <2>2
<1>9. Solves(g)
  <2>1. g = [x \in D |-> g[x]]
    BY DEF g
  <2> QED BY <1>8, <2>1
<1> DEFINE count == CHOOSE f : Solves(f)
<1>10. Doublings(v, highest) = count[v]
  BY DEF Doublings
<1>11. Solves(count)
  <2> HIDE DEF Solves
  <2> QED BY <1>9
<1> HIDE DEF count
<1>12. ASSUME NEW x \in D PROVE count[x] = IF x < highest THEN 1 + count[2 * x] ELSE 0
  BY <1>11
<1> DEFINE S == {n \in Nat : \A x \in D : Least(x, n) => count[x] = n}
<1>13. 0 \in S
  <2>1. ASSUME NEW x \in D, Least(x, 0) PROVE count[x] = 0
    BY <1>3, <1>12, <2>1
  <2> HIDE DEF Least
  <2> QED BY <2>1
<1>14. ASSUME NEW n \in Nat, n \in S PROVE n + 1 \in S
  <2>1. ASSUME NEW x \in D, Least(x, n + 1) PROVE count[x] = n + 1
    <3>1. ~Enough(x, 0) /\ Enough(x, n + 1)
      BY <2>1
    <3>2. x < highest /\ Enough(2 * x, n) /\ 2 * x \in D
      BY <1>3, <1>4, <3>1
    <3>3. ASSUME NEW m \in Nat, m < n PROVE ~Enough(2 * x, m)
      <4>1. m + 1 \in Nat /\ m + 1 < n + 1
        BY <3>3
      <4> QED BY <1>4, <2>1, <4>1
    <3>4. Least(2 * x, n)
      BY <3>2, <3>3
    <3>5. count[2 * x] = n
      BY <1>14, <3>2, <3>4
    <3> QED BY <1>12, <3>2, <3>5
  <2> HIDE DEF Least
  <2> QED BY <2>1
<1> HIDE DEF S
<1>15. \A n \in Nat : n \in S
  BY <1>13, <1>14, Induction
<1>16. count[v] = g[v] /\ g[v] \in Nat /\ Least(v, g[v])
  <2>1. g[v] \in Nat /\ Least(v, g[v])
    BY <1>7
  <2> HIDE DEF Least
  <2> QED BY <1>15, <2>1 DEF S
<1> DEFINE k == g[v]
<1>17. Doublings(v, highest) = k
  BY <1>10, <1>16
<1>18. /\ k \in Nat /\ Enough(v, k) /\ (k > 0 => ~Enough(v, k - 1))
  <2>1. k \in Nat /\ Least(v, k)
    BY <1>16
  <2> HIDE DEF k
  <2>2. k > 0 => k - 1 \in Nat /\ k - 1 < k
    BY <2>1
  <2> QED BY <2>1, <2>2
<1> HIDE DEF k
<1>19. k > 0 => v * Pow2[k - 1] \in Int
  <2>1. k > 0 => k - 1 \in Nat
    BY <1>18
  <2> QED BY <1>1, <2>1
<1> QED BY <1>17, <1>18, <1>19 DEF Enough
\* A number that is neither 0 nor -1 is doubled until the next doubling would be too much.
LEMMA NormalizedBy ==
  ASSUME NEW v \in Int, NEW e \in Nat, -(2 * Pow2[e]) <= v, v < 2 * Pow2[e], v # 0, v # -1
  PROVE  LET k == Doublings(IF v < 0 THEN -v - 1 ELSE v, Pow2[e]) IN
         /\ k \in Nat
         /\ v * Pow2[k] \in Int /\ -(2 * Pow2[e]) <= v * Pow2[k] /\ v * Pow2[k] < 2 * Pow2[e]
         /\ v * Pow2[k + 1] \in Int
         /\ v * Pow2[k + 1] < -(2 * Pow2[e]) \/ 2 * Pow2[e] <= v * Pow2[k + 1]
<1> DEFINE u == IF v < 0 THEN -v - 1 ELSE v
           k == Doublings(u, Pow2[e])
           h == Pow2[e]
           p == Pow2[k]
           r == u * p
<1>1. u \in Nat \ {0} /\ h \in Int /\ h >= 1 /\ u < 2 * h
  BY PowersDouble
<1>2. k \in Nat /\ r >= h /\ (k > 0 => u * Pow2[k - 1] < h)
  <2> HIDE DEF u
  <2> QED BY <1>1, Doubled
<1> HIDE DEF k, u
<1>3. p \in Int /\ p >= 1 /\ Pow2[k + 1] = 2 * p
  BY <1>2, PowersDouble
<1>4. r \in Int /\ r >= p
  BY <1>1, <1>2, Scaled
<1>5. r < 2 * h
  <2>1. CASE k = 0
    <3>1. r = u
      BY <1>1, <2>1, PowersDouble
    <3> QED BY <1>1, <3>1
  <2>2. CASE k # 0
    <3>1. k - 1 \in Nat /\ k > 0 /\ (k - 1) + 1 = k
      BY <1>2, <2>2
    <3>2. p = 2 * Pow2[k - 1] /\ Pow2[k - 1] \in Int
      BY <3>1, PowersDouble
    <3>3. \A x, y \in Int : x * (2 * y) = 2 * (x * y) /\ x * y \in Int
      OBVIOUS
    <3>4. r = 2 * (u * Pow2[k - 1]) /\ u * Pow2[k - 1] \in Int
      BY <1>1, <3>2, <3>3
    <3> DEFINE s == u * Pow2[k - 1]
    <3>5. s \in Int /\ s < h /\ r = 2 * s
      BY <1>2, <3>1, <3>4
    <3> HIDE DEF s, r
    <3> QED BY <1>1, <3>5
  <2> QED BY <2>1, <2>2
<1>6. r + p <= 2 * h
  <2>1. Pow2[e + 1] = 2 * h /\ e + 1 \in Nat
    BY PowersDouble
  <2>2. k <= e
    <3> SUFFICES ASSUME e + 1 <= k PROVE FALSE
      BY <1>2
    <3>1. Pow2[e + 1] <= p
      BY <1>2, <2>1, PowersGrow
    <3> HIDE DEF p, r, h
    <3> QED BY <1>1, <1>3, <1>4, <1>5, <2>1, <3>1
  <2> DEFINE w == Pow2[e + 1 - k]
  <2>3. e + 1 - k \in Nat /\ k + (e + 1 - k) = e + 1
    BY <1>2, <2>2
  <2>4. 2 * h = p * w /\ w \in Int
    <3>1. w \in Int
      BY <2>3, PowersDouble
    <3>2. Pow2[k + (e + 1 - k)] = p * w
      BY <1>2, <2>3, PowersAdd
    <3> QED BY <2>1, <2>3, <3>1, <3>2
  <2>5. \A x, y, z \in Int : y >= 1 /\ x * y < y * z => x < z
    <3> SUFFICES ASSUME NEW x \in Int, NEW y \in Int, NEW z \in Int, y >= 1, x * y < y * z, x >= z
                 PROVE  FALSE
      OBVIOUS
    <3>1. (x - z) * y >= 0
      OBVIOUS
    <3>2. (x - z) * y = x * y - y * z
      OBVIOUS
    <3> QED BY <3>1, <3>2
  <2>6. u < w
    <3>1. u * p < p * w
      BY <1>5, <2>4
    <3> HIDE DEF p, w
    <3> QED BY <1>1, <1>3, <2>4, <2>5, <3>1
  <2>7. \A x, y, z \in Int : y >= 1 /\ x < z => x * y + y <= y * z
    <3> SUFFICES ASSUME NEW x \in Int, NEW y \in Int, NEW z \in Int, y >= 1, x < z
                 PROVE  x * y + y <= y * z
      OBVIOUS
    <3>1. (z - x - 1) * y >= 0
      OBVIOUS
    <3>2. (z - x - 1) * y = y * z - x * y - y
      OBVIOUS
    <3> QED BY <3>1, <3>2
  <2>8. u * p + p <= p * w
    <3> HIDE DEF p, w
    <3> QED BY <1>1, <1>3, <2>4, <2>6, <2>7
  <2> QED BY <2>4, <2>8
<1>7. \A x, y \in Int : x * (2 * y) = 2 * (x * y) /\ x * y \in Int
  OBVIOUS
<1> DEFINE t == v * p
<1>8. t \in Int /\ v * Pow2[k + 1] = 2 * t
  <2> HIDE DEF p
  <2> QED BY <1>3, <1>7
<1>9. t = IF v < 0 THEN -r - p ELSE r
  <2> HIDE DEF p
  <2>1. CASE v < 0
    <3>1. u = -v - 1
      BY <2>1 DEF u
    <3>2. (-v - 1) * p = -(v * p) - p
      BY <1>3
    <3> QED BY <1>3, <1>8, <2>1, <3>1, <3>2
  <2>2. CASE ~(v < 0)
    BY <2>2 DEF u
  <2> QED BY <2>1, <2>2
<1>10. k = Doublings(IF v < 0 THEN -v - 1 ELSE v, Pow2[e])
  BY DEF k, u
<1> HIDE DEF r, p, t, h
<1>11. /\ -(2 * h) <= t /\ t < 2 * h
       /\ 2 * t < -(2 * h) \/ 2 * h <= 2 * t
  BY <1>1, <1>2, <1>3, <1>4, <1>5, <1>6, <1>8, <1>9
<1> QED BY <1>2, <1>8, <1>10, <1>11 DEF h, p, t

\* norm_s(): the number of left shifts that leave the word as large as it can be.
LEMMA WordsNormalize ==
  ASSUME NEW v \in Word16
  PROVE  Normal(v, norm_s(v), Word16)
<1> DEFINE e == W - 2
<1>1. e \in Nat /\ Half = 2 * Pow2[e] /\ Half \in Nat /\ Half >= 2 /\ Pow2[e] \in Nat
  BY HalfIsPower, PowersDouble
<1>2. v \in Int /\ -Half <= v /\ v <= Half - 1
  BY WordsAre
<1>3. Half \div 2 = Pow2[e]
  <2> DEFINE h == Pow2[e]
  <2>1. h \in Nat /\ Half = 2 * h
    BY <1>1
  <2> HIDE DEF h
  <2>2. Half \div 2 = h
    BY <2>1
  <2> QED BY <2>2 DEF h
<1>4. CASE v # 0 /\ v # -1
  <2>1. norm_s(v) = Doublings(IF v < 0 THEN -v - 1 ELSE v, Pow2[e])
    BY <1>3, <1>4 DEF norm_s
  <2>2. -(2 * Pow2[e]) <= v /\ v < 2 * Pow2[e]
    BY <1>1, <1>2
  <2> DEFINE k == norm_s(v)
  <2> HIDE DEF e
  <2>3. /\ k \in Nat
        /\ v * Pow2[k] \in Int /\ -(2 * Pow2[e]) <= v * Pow2[k] /\ v * Pow2[k] < 2 * Pow2[e]
        /\ v * Pow2[k + 1] \in Int
        /\ v * Pow2[k + 1] < -(2 * Pow2[e]) \/ 2 * Pow2[e] <= v * Pow2[k + 1]
    BY <1>1, <1>2, <1>4, <2>1, <2>2, NormalizedBy
  <2> DEFINE s == v * Pow2[k]
             t == v * Pow2[k + 1]
  <2>4. s \in Int /\ t \in Int /\ -Half <= s /\ s < Half /\ (t < -Half \/ Half <= t)
    BY <1>1, <2>3
  <2> HIDE DEF s, t, k
  <2>5. s \in Word16 /\ t \notin Word16
    BY <1>1, <2>4, WordsAre
  <2> QED BY <2>5 DEF Normal, s, t, k
<1>5. CASE v = -1
  <2>1. norm_s(v) = W - 1 /\ W - 1 \in Nat /\ (W - 1) + 1 = W
    BY <1>5, WordAssumption DEF norm_s
  <2>2. Pow2[W - 1] = Half /\ Pow2[W] = 2 * Half
    BY HalfIsPower
  <2>3. v * Half = -Half /\ v * (2 * Half) = -(2 * Half)
    BY <1>1, <1>5
  <2>4. v * Half \in Word16 /\ v * (2 * Half) \notin Word16
    BY <1>1, <2>3, WordsAre
  <2> QED BY <2>1, <2>2, <2>4 DEF Normal
<1>6. CASE v = 0
  BY <1>6 DEF Normal
<1> QED BY <1>4, <1>5, <1>6

-----------------------------------------------------------------------------
(* Division, a bit of the quotient at a time.                              *)

\* div_s(): the quotient of two fractions, where it is one.
LEMMA WordsDivide ==
  ASSUME NEW a \in Word16, NEW b \in Word16, 0 <= a, a <= b, b > 0
  PROVE  div_s(a, b) = Nearest16((a * Half) \div b)
<1>1. a \in Nat /\ b \in Nat /\ b > 0 /\ b <= Half - 1 /\ Half \in Nat /\ Half >= 2
  BY WordsAre
<1> DEFINE D == [num : Int, out : Int]
           first == [num |-> a, out |-> 0]
           Bit(s) == LET num == 2 * s.num
                         out == 2 * s.out
                     IN IF num >= b THEN [num |-> num - b, out |-> add(out, 1)]
                        ELSE [num |-> num, out |-> out]
           bit == [s \in D |-> Bit(s)]
           Solves(f) == f = [i \in 0 .. W - 1 |-> IF i = 0 THEN first ELSE Bit(f[i - 1])]
           step == CHOOSE f : Solves(f)
<1>2. div_s(a, b) = IF a = 0 THEN 0 ELSE IF a = b THEN MAX_16 ELSE step[W - 1].out
  BY DEF div_s
<1>3. ASSUME NEW s \in D PROVE Bit(s) \in D
  <2>1. 2 * s.out \in Int /\ 2 * s.num \in Int /\ 2 * s.out + 1 \in Int
    OBVIOUS
  <2>2. add(2 * s.out, 1) \in Int
    BY <2>1, SaturateIsNearest, WordsAre DEF add
  <2> QED BY <1>1, <2>1, <2>2
<1>4. Solves(step)
  <2>1. first \in D /\ bit \in [D -> D]
    <3> HIDE DEF Bit
    <3>1. bit \in [D -> D]
      BY <1>3
    <3> QED BY <1>1, <3>1
  <2>2. PICK f \in [Nat -> D] : f[0] = first /\ \A n \in Nat : f[n + 1] = bit[f[n]]
    <3> HIDE DEF D, first, bit
    <3> QED BY <2>1, Iterates
  <2> DEFINE g == [i \in 0 .. W - 1 |-> f[i]]
  <2>3. ASSUME NEW i \in 0 .. W - 1 PROVE g[i] = IF i = 0 THEN first ELSE Bit(g[i - 1])
    <3> HIDE DEF Bit, first
    <3>1. CASE i = 0
      BY <2>2, <3>1
    <3>2. CASE i # 0
      <4>1. i - 1 \in Nat /\ (i - 1) + 1 = i /\ i - 1 \in 0 .. W - 1
        BY <3>2, WordAssumption
      <4>2. f[i] = bit[f[i - 1]] /\ f[i - 1] \in D
        BY <2>2, <4>1
      <4> QED BY <3>2, <4>1, <4>2
    <3> QED BY <3>1, <3>2
  <2>4. Solves(g)
    <3> HIDE DEF Bit, first
    <3> QED BY <2>3
  <2> HIDE DEF Solves
  <2> QED BY <2>4
<1> HIDE DEF step
<1>5. step[0] = first /\ \A i \in 1 .. W - 1 : step[i] = Bit(step[i - 1])
  <2> HIDE DEF Bit, first
  <2>1. ASSUME NEW i \in 0 .. W - 1 PROVE step[i] = IF i = 0 THEN first ELSE Bit(step[i - 1])
    BY <1>4
  <2>2. 0 \in 0 .. W - 1 /\ \A i \in 1 .. W - 1 : i \in 0 .. W - 1 /\ i # 0
    BY WordAssumption
  <2> QED BY <2>1, <2>2
\* After i bits.
<1> DEFINE IsQuotient(s, i) ==
             /\ s.num \in Nat /\ s.num < b /\ s.out \in Nat /\ s.out < Pow2[i]
             /\ a * Pow2[i] = b * s.out + s.num
           S == {i \in Nat : i <= W - 1 => IsQuotient(step[i], i)}
<1>6. CASE a # 0 /\ a # b
  <2>1. 0 \in S
    <3>1. step[0].num = a /\ step[0].out = 0 /\ Pow2[0] = 1
      BY <1>5, PowersDouble
    <3>2. a < b /\ a * 1 = b * 0 + a
      BY <1>1, <1>6
    <3> DEFINE s == step[0]
               p == Pow2[0]
    <3>3. s.num = a /\ s.out = 0 /\ p = 1
      BY <3>1
    <3> HIDE DEF s, p
    <3>4. /\ s.num \in Nat /\ s.num < b /\ s.out \in Nat /\ s.out < p
          /\ a * p = b * s.out + s.num
      BY <1>1, <3>2, <3>3
    <3>5. IsQuotient(step[0], 0)
      BY <3>4 DEF s, p
    <3> QED BY <3>5
  <2>2. ASSUME NEW i \in Nat, i \in S PROVE i + 1 \in S
    <3> SUFFICES ASSUME i + 1 <= W - 1 PROVE IsQuotient(step[i + 1], i + 1)
      OBVIOUS
    <3> DEFINE s == step[i]
               p == Pow2[i]
               num == s.num
               out == s.out
    <3>1. IsQuotient(s, i)
      BY <2>2, WordAssumption
    <3>2. step[i + 1] = Bit(s)
      <4>1. i + 1 \in 1 .. W - 1 /\ (i + 1) - 1 = i
        BY WordAssumption
      <4> HIDE DEF Bit
      <4> QED BY <1>5, <4>1
    <3>3. p \in Nat /\ Pow2[i + 1] = 2 * p /\ 2 * p <= Half
      <4>1. Pow2[i + 1] <= Pow2[W - 1]
        BY PowersGrow, WordAssumption
      <4> QED BY <4>1, PowersDouble, HalfIsPower
    <3>4. /\ num \in Nat /\ num < b /\ out \in Nat /\ out < p /\ a * p = b * out + num
      BY <3>1
    <3>5. add(2 * out, 1) = 2 * out + 1
      <4> HIDE DEF out, p
      <4>1. 2 * out + 1 \in Int /\ 2 * out + 1 <= Half - 1
        BY <1>1, <3>3, <3>4
      <4>2. Nearest16(2 * out + 1) = 2 * out + 1
        BY <1>1, <3>4, <4>1, WordsAre DEF Nearest16
      <4> QED BY <4>1, <4>2, SaturateIsNearest DEF add
    <3>6. Bit(s) = IF 2 * num >= b THEN [num |-> 2 * num - b, out |-> 2 * out + 1]
                   ELSE [num |-> 2 * num, out |-> 2 * out]
      BY <3>5
    <3> HIDE DEF num, out, p, s, Bit
    <3>7. /\ a * (2 * p) = 2 * (a * p) /\ b * (2 * out) = 2 * (b * out)
          /\ b * (2 * out + 1) = 2 * (b * out) + b
      BY <1>1, <3>3, <3>4
    <3>8. a * p \in Int /\ b * out \in Int
      BY <1>1, <3>3, <3>4
    <3> DEFINE ap == a * p
               bo == b * out
    <3>9. /\ ap \in Int /\ bo \in Int /\ ap = bo + num
          /\ a * Pow2[i + 1] = 2 * ap /\ b * (2 * out) = 2 * bo /\ b * (2 * out + 1) = 2 * bo + b
      BY <3>3, <3>4, <3>7, <3>8
    <3> HIDE DEF ap, bo
    <3>10. CASE 2 * num >= b
      <4>1. step[i + 1].num = 2 * num - b /\ step[i + 1].out = 2 * out + 1
        BY <3>2, <3>6, <3>10
      <4>2. /\ 2 * num - b \in Nat /\ 2 * num - b < b /\ 2 * out + 1 \in Nat
            /\ 2 * out + 1 < 2 * p
        BY <1>1, <3>3, <3>4, <3>10
      <4>3. a * Pow2[i + 1] = b * (2 * out + 1) + (2 * num - b)
        BY <1>1, <3>4, <3>9
      <4> QED BY <3>3, <4>1, <4>2, <4>3
    <3>11. CASE ~(2 * num >= b)
      <4>1. step[i + 1].num = 2 * num /\ step[i + 1].out = 2 * out
        BY <3>2, <3>6, <3>11
      <4>2. 2 * num \in Nat /\ 2 * num < b /\ 2 * out \in Nat /\ 2 * out < 2 * p
        BY <1>1, <3>3, <3>4, <3>11
      <4>3. a * Pow2[i + 1] = b * (2 * out) + 2 * num
        BY <1>1, <3>4, <3>9
      <4> QED BY <3>3, <4>1, <4>2, <4>3
    <3> QED BY <3>10, <3>11
  <2> HIDE DEF S
  <2>3. \A i \in Nat : i \in S
    BY <2>1, <2>2, Induction
  <2> DEFINE num == step[W - 1].num
             out == step[W - 1].out
  <2>4. /\ num \in Nat /\ num < b /\ out \in Nat /\ out < Half /\ a * Half = b * out + num
    <3>1. W - 1 \in Nat /\ W - 1 <= W - 1 /\ Pow2[W - 1] = Half
      BY WordAssumption, HalfIsPower
    <3>2. IsQuotient(step[W - 1], W - 1)
      BY <2>3, <3>1 DEF S
    <3> QED BY <3>1, <3>2
  <2> HIDE DEF num, out
  <2>5. b * out = out * b /\ a * Half \in Int /\ out * b \in Int
    BY <1>1, <2>4
  <2> DEFINE x == a * Half
             ob == out * b
  <2>6. x \in Int /\ ob \in Int /\ x = ob + num
    BY <2>4, <2>5
  <2> HIDE DEF x, ob
  <2>7. ob <= x /\ x < ob + b
    BY <1>1, <2>4, <2>6
  <2>8. x \div b = out
    BY <1>1, <2>4, <2>6, <2>7, QuotientIs DEF ob
  <2>9. Nearest16(out) = out
    BY <1>1, <2>4, WordsAre DEF Nearest16
  <2> QED BY <1>2, <1>6, <2>8, <2>9 DEF x, out
<1>7. CASE a = 0
  <2>1. a * Half = 0 /\ 0 * b <= 0 /\ 0 < 0 * b + b
    BY <1>1, <1>7
  <2>2. (a * Half) \div b = 0
    BY <1>1, <2>1, QuotientIs
  <2> QED BY <1>1, <1>2, <1>7, <2>2, WordsAre DEF Nearest16
<1>8. CASE a # 0 /\ a = b
  <2>1. a * Half = Half * b /\ a * Half \in Int
    BY <1>1, <1>8
  <2> DEFINE x == a * Half
  <2>2. x \in Int /\ x = Half * b /\ Half * b <= x
    BY <2>1
  <2>3. x < Half * b + b
    <3> DEFINE hb == Half * b
    <3>1. hb \in Int /\ x = hb
      BY <2>2
    <3> HIDE DEF hb, x
    <3>2. x < hb + b
      BY <1>1, <2>2, <3>1
    <3> QED BY <3>2 DEF hb
  <2>4. x \div b = Half
    <3> HIDE DEF x
    <3> QED BY <1>1, <2>2, <2>3, QuotientIs
  <2> QED BY <1>1, <1>2, <1>8, <2>4, WordsAre DEF Nearest16
<1> QED BY <1>6, <1>7, <1>8
-----------------------------------------------------------------------------
(* Long words.                                                             *)

\* The overflow of a sum of two long words shows in its sign.
LEMMA SumsSaturate ==
  ASSUME NEW a \in Word32, NEW b \in Word32
  PROVE  L_add(a, b) = Nearest32(a + b) /\ L_add(a, b) \in Word32
<1> DEFINE F == Half * Half
<1>1. F \in Int /\ F >= 1 /\ MAX_32 = 2 * F - 1 /\ MIN_32 = -(2 * F)
  BY HalfIsPositive DEF MAX_32, MIN_32
<1>2. \A x : Wrap32(x) = IF x > MAX_32 THEN x - 4 * F ELSE IF x < MIN_32 THEN x + 4 * F ELSE x
  BY HalfIsPositive DEF Wrap32
<1> HIDE DEF F
<1> QED BY <1>1, <1>2 DEF L_add, Nearest32, SameSign, Word32

\* L_sub() gives the word of 32 bits nearest to the difference.
LEMMA DifferencesSaturate ==
  ASSUME NEW a \in Word32, NEW b \in Word32
  PROVE  L_sub(a, b) = Nearest32(a - b) /\ L_sub(a, b) \in Word32
<1> DEFINE F == Half * Half
<1>1. F \in Int /\ F >= 1 /\ MAX_32 = 2 * F - 1 /\ MIN_32 = -(2 * F)
  BY HalfIsPositive DEF MAX_32, MIN_32
<1>2. \A x : Wrap32(x) = IF x > MAX_32 THEN x - 4 * F ELSE IF x < MIN_32 THEN x + 4 * F ELSE x
  BY HalfIsPositive DEF Wrap32
<1> HIDE DEF F
<1> QED BY <1>1, <1>2 DEF L_sub, Nearest32, SameSign, Word32

\* Only the square of the lowest word doubles to more than a long word.
LEMMA ProductsFit ==
  ASSUME NEW a \in Word16, NEW b \in Word16
  PROVE  /\ a * b \in Int
         /\ -(Half * Half) <= a * b /\ a * b <= Half * Half
<1>1. a \in Int /\ b \in Int /\ -Half <= a /\ a <= Half /\ -Half <= b /\ b <= Half
  BY HalfIsPositive DEF Word16, MAX_16, MIN_16
<1>2. a * b <= Half * Half
  <2>1. \A x, y, h \in Int : x <= h /\ -h <= x /\ y <= h /\ -h <= y
          => (h - x) * (h + y) >= 0 /\ (h + x) * (h - y) >= 0
    OBVIOUS
  <2>2. (Half - a) * (Half + b) >= 0 /\ (Half + a) * (Half - b) >= 0
    BY <1>1, <2>1, HalfIsPositive
  <2>3. \A x, y, h \in Int :
          (h - x) * (h + y) + (h + x) * (h - y) = 2 * (h * h) - 2 * (x * y)
    OBVIOUS
  <2>4. 2 * (Half * Half) - 2 * (a * b) >= 0
    BY <2>2, <2>3, <1>1, HalfIsPositive
  <2> QED BY <2>4, <1>1, HalfIsPositive
<1>3. -(Half * Half) <= a * b
  <2>1. \A x, y, h \in Int : x <= h /\ -h <= x /\ y <= h /\ -h <= y
          => (h + x) * (h + y) >= 0 /\ (h - x) * (h - y) >= 0
    OBVIOUS
  <2>2. (Half + a) * (Half + b) >= 0 /\ (Half - a) * (Half - b) >= 0
    BY <1>1, <2>1, HalfIsPositive
  <2>3. \A x, y, h \in Int :
          (h + x) * (h + y) + (h - x) * (h - y) = 2 * (h * h) + 2 * (x * y)
    OBVIOUS
  <2>4. 2 * (Half * Half) + 2 * (a * b) >= 0
    BY <2>2, <2>3, <1>1, HalfIsPositive
  <2> QED BY <2>4, <1>1, HalfIsPositive
<1> QED BY <1>1, <1>2, <1>3

\* L_mult() gives the word of 32 bits nearest to twice the product.
LEMMA ProductsSaturate ==
  ASSUME NEW a \in Word16, NEW b \in Word16
  PROVE  L_mult(a, b) = Nearest32(2 * (a * b)) /\ L_mult(a, b) \in Word32
<1> DEFINE F == Half * Half
           P == a * b
<1>1. F \in Int /\ F >= 1 /\ MAX_32 = 2 * F - 1 /\ MIN_32 = -(2 * F)
  BY HalfIsPositive DEF MAX_32, MIN_32
<1>2. P \in Int /\ -F <= P /\ P <= F
  BY ProductsFit
<1>3. a \in Int /\ b \in Int
  BY DEF Word16, MAX_16, MIN_16
<1>4. \A x, y \in Int : 2 * x * y = 2 * (x * y)
  OBVIOUS
<1>5. L_mult(a, b) = IF P # F THEN 2 * P ELSE MAX_32
  BY <1>3, <1>4 DEF L_mult
<1> HIDE DEF F, P
<1>6. L_mult(a, b) = Nearest32(2 * P) /\ L_mult(a, b) \in Word32
  BY <1>1, <1>2, <1>5 DEF Nearest32, Word32
<1> QED BY <1>6 DEF P

(* L_add(), L_sub(), L_mult(), L_mac() and L_msu() of basop32.c: sums of   *)
(* products end at the largest and the smallest Word32 and never beyond,   *)
(* so that an accumulation of any length stays one of the nearest.         *)
THEOREM LongWordsSaturate ==
  \A L, M \in Word32 : \A a, b \in Word16 :
    /\ L_add(L, M) = Nearest32(L + M)
    /\ L_sub(L, M) = Nearest32(L - M)
    /\ L_mult(a, b) = Nearest32(2 * (a * b))
    /\ L_mac(L, a, b) = Nearest32(L + Nearest32(2 * (a * b)))
    /\ L_msu(L, a, b) = Nearest32(L - Nearest32(2 * (a * b)))
    /\ L_mac(L, a, b) \in Word32 /\ L_msu(L, a, b) \in Word32
<1> TAKE L, M \in Word32
<1> TAKE a, b \in Word16
<1>1. L_add(L, M) = Nearest32(L + M) /\ L_sub(L, M) = Nearest32(L - M)
  BY SumsSaturate, DifferencesSaturate
<1>2. L_mult(a, b) = Nearest32(2 * (a * b)) /\ L_mult(a, b) \in Word32
  BY ProductsSaturate
<1>3. /\ L_mac(L, a, b) = Nearest32(L + L_mult(a, b)) /\ L_mac(L, a, b) \in Word32
      /\ L_msu(L, a, b) = Nearest32(L - L_mult(a, b)) /\ L_msu(L, a, b) \in Word32
  BY <1>2, SumsSaturate, DifferencesSaturate DEF L_mac, L_msu
<1> QED BY <1>1, <1>2, <1>3
\* The long words are the numbers around 0 that are closer to it than 2 * Half * Half.
LEMMA LongWordsAre ==
  LET F == Half * Half IN
  /\ MAX_32 = 2 * F - 1 /\ MIN_32 = -(2 * F) /\ F \in Int /\ F >= 4 /\ F >= 2 * Half
  /\ \A x : x \in Word32 <=> x \in Int /\ -(2 * F) <= x /\ x <= 2 * F - 1
<1> DEFINE F == Half * Half
<1>1. Half \in Int /\ Half >= 2 /\ F \in Int
  BY HalfIsPower
<1>2. \A h \in Int : h >= 2 => h * h >= 2 * h
  OBVIOUS
<1>3. F >= 2 * Half
  BY <1>1, <1>2
<1>4. MAX_32 = 2 * F - 1 /\ MIN_32 = -(2 * F)
  BY HalfIsPositive DEF MAX_32, MIN_32
<1> HIDE DEF F
<1>5. \A x : x \in Word32 <=> x \in Int /\ -(2 * F) <= x /\ x <= 2 * F - 1
  BY <1>1, <1>4 DEF Word32
<1>6. F >= 4
  BY <1>1, <1>3
<1> QED BY <1>1, <1>3, <1>4, <1>5, <1>6 DEF F

\* A number that is a long word is the nearest to itself.
LEMMA LongWordIsNearest ==
  ASSUME NEW x \in Word32 PROVE Nearest32(x) = x
<1> DEFINE F == Half * Half
<1>1. x \in Int /\ -(2 * F) <= x /\ x <= 2 * F - 1 /\ MAX_32 = 2 * F - 1 /\ MIN_32 = -(2 * F)
      /\ F \in Int
  BY LongWordsAre
<1> HIDE DEF F
<1> QED BY <1>1 DEF Nearest32

\* L_abs() and L_negate() give the nearest long word.
LEMMA LongWordsNegate ==
  ASSUME NEW L \in Word32
  PROVE  L_abs(L) = Nearest32(Magnitude(L)) /\ L_negate(L) = Nearest32(-L)
<1> DEFINE F == Half * Half
<1>1. L \in Int /\ -(2 * F) <= L /\ L <= 2 * F - 1 /\ MAX_32 = 2 * F - 1 /\ MIN_32 = -(2 * F)
      /\ F \in Int /\ F >= 4
  BY LongWordsAre
<1> HIDE DEF F
<1> QED BY <1>1 DEF L_abs, L_negate, Nearest32, Magnitude

\* Any product of two words is a long word.
LEMMA ProductIsLongWord ==
  ASSUME NEW a \in Word16, NEW b \in Word16
  PROVE  a * b \in Word32
<1> DEFINE F == Half * Half
           p == a * b
<1>1. p \in Int /\ -F <= p /\ p <= F
  BY ProductsFit
<1>2. F \in Int /\ F >= 4 /\ \A x : x \in Word32 <=> x \in Int /\ -(2 * F) <= x /\ x <= 2 * F - 1
  BY LongWordsAre
<1> HIDE DEF F, p
<1>3. p \in Word32
  BY <1>1, <1>2
<1> QED BY <1>3 DEF p

\* Right shifts of 32 bits round down, however far they go.
LEMMA LongShiftRight ==
  ASSUME NEW v \in Word32, NEW n \in Nat
  PROVE  /\ LongShiftedRight(v, n) = v \div Pow2[n]
         /\ v \div Pow2[n] = Nearest32(v \div Pow2[n])
         /\ n >= 2 * W - 1 => v \div Pow2[n] = IF v < 0 THEN -1 ELSE 0
<1> DEFINE F == Half * Half
<1>1. v \in Int /\ -(2 * F) <= v /\ v <= 2 * F - 1 /\ MAX_32 = 2 * F - 1 /\ MIN_32 = -(2 * F)
      /\ F \in Int
  BY LongWordsAre
<1>2. n >= 2 * W - 1 => v \div Pow2[n] = IF v < 0 THEN -1 ELSE 0
  <2> SUFFICES ASSUME n >= 2 * W - 1 PROVE v \div Pow2[n] = IF v < 0 THEN -1 ELSE 0
    OBVIOUS
  <2>1. 2 * W - 1 \in Nat /\ 2 * W - 1 <= n
    BY WordAssumption
  <2>2. Pow2[2 * W - 1] = 2 * F
    BY HalfIsPower
  <2> HIDE DEF F
  <2>3. -Pow2[2 * W - 1] <= v /\ v < Pow2[2 * W - 1]
    BY <1>1, <2>2
  <2> QED BY <1>1, <2>1, <2>3, ShortenedFar
<1>3. LongShiftedRight(v, n) = v \div Pow2[n]
  BY <1>2 DEF LongShiftedRight
<1>4. v \div Pow2[n] = Nearest32(v \div Pow2[n])
  <2> DEFINE q == v \div Pow2[n]
  <2>1. q \in Int /\ (v >= 0 => 0 <= q /\ q <= v) /\ (v < 0 => v <= q /\ q <= -1)
    BY <1>1, Shortened
  <2> HIDE DEF q, F
  <2>2. q = Nearest32(q)
    BY <1>1, <2>1 DEF Nearest32
  <2> QED BY <2>2 DEF q
<1> QED BY <1>2, <1>3, <1>4

\* A long word that is doubled is a long word.
LEMMA DoubledIsLongWord ==
  ASSUME NEW y \in Word32 PROVE Doubled32(y) \in Word32
<1> DEFINE F == Half * Half
<1>1. /\ MAX_32 = 2 * F - 1 /\ MIN_32 = -(2 * F) /\ F \in Int /\ F >= 4
      /\ \A x : x \in Word32 <=> x \in Int /\ -(2 * F) <= x /\ x <= 2 * F - 1
  BY LongWordsAre
<1> HIDE DEF F
<1>2. MAX_32 \div 2 = F - 1 /\ MIN_32 \div 2 = -F
  BY <1>1
<1> QED BY <1>1, <1>2 DEF Doubled32

\* The values of the loop of a left shift.
LEMMA LongDoublings ==
  ASSUME NEW a \in Word32
  PROVE  \E f \in [Nat -> Word32] :
           f[0] = a /\ \A n \in Nat : f[n + 1] = Doubled32(f[n])
<1> DEFINE step == [s \in Word32 |-> Doubled32(s)]
<1>1. a \in Word32 /\ step \in [Word32 -> Word32]
  BY DoubledIsLongWord
<1>2. \A s \in Word32 : step[s] = Doubled32(s)
  OBVIOUS
<1> HIDE DEF step
<1>3. \E f \in [Nat -> Word32] : f[0] = a /\ \A n \in Nat : f[n + 1] = step[f[n]]
  BY <1>1, Iterates
<1> QED BY <1>2, <1>3

\* What a left shift of 32 bits computes, a doubling at a time.
LEMMA LongShiftedLeftIs ==
  ASSUME NEW a \in Word32
  PROVE  /\ LongShiftedLeft(a, 0) = a
         /\ \A n \in Nat : LongShiftedLeft(a, n + 1) = Doubled32(LongShiftedLeft(a, n))
<1> DEFINE Solves(f) == f = [i \in Nat |-> IF i = 0 THEN a ELSE Doubled32(f[i - 1])]
           double == CHOOSE f : Solves(f)
<1>1. ASSUME NEW n PROVE LongShiftedLeft(a, n) = double[n]
  BY DEF LongShiftedLeft
<1>2. PICK f \in [Nat -> Word32] : f[0] = a /\ \A n \in Nat : f[n + 1] = Doubled32(f[n])
  BY LongDoublings
<1>3. ASSUME NEW i \in Nat PROVE f[i] = IF i = 0 THEN a ELSE Doubled32(f[i - 1])
  <2>1. CASE i = 0
    BY <1>2, <2>1
  <2>2. CASE i # 0
    <3>1. i - 1 \in Nat /\ (i - 1) + 1 = i
      BY <2>2
    <3>2. f[i] = Doubled32(f[i - 1])
      BY <1>2, <3>1
    <3> QED BY <2>2, <3>2
  <2> QED BY <2>1, <2>2
<1>4. Solves(f)
  <2>1. f = [i \in Nat |-> f[i]]
    BY <1>2
  <2> QED BY <1>3, <2>1
<1>5. Solves(double)
  <2> HIDE DEF Solves
  <2> QED BY <1>4
<1> HIDE DEF double
<1>6. ASSUME NEW i \in Nat PROVE double[i] = IF i = 0 THEN a ELSE Doubled32(double[i - 1])
  BY <1>5
<1>7. LongShiftedLeft(a, 0) = a
  BY <1>1, <1>6
<1>8. ASSUME NEW n \in Nat
       PROVE  LongShiftedLeft(a, n + 1) = Doubled32(LongShiftedLeft(a, n))
  <2>1. n + 1 \in Nat /\ n + 1 # 0 /\ (n + 1) - 1 = n
    OBVIOUS
  <2>2. double[n + 1] = Doubled32(double[n])
    BY <1>6, <2>1
  <2> QED BY <1>1, <2>2
<1> QED BY <1>7, <1>8

\* To double the nearest long word is to take the one nearest to the double.
LEMMA DoubledNearest ==
  ASSUME NEW x \in Int PROVE Doubled32(Nearest32(x)) = Nearest32(2 * x)
<1> DEFINE F == Half * Half
<1>1. MAX_32 = 2 * F - 1 /\ MIN_32 = -(2 * F) /\ F \in Int /\ F >= 4
  BY LongWordsAre
<1> HIDE DEF F
<1>2. MAX_32 \div 2 = F - 1 /\ MIN_32 \div 2 = -F
  BY <1>1
<1> DEFINE y == 2 * x
<1>3. y \in Int /\ y = x + x
  OBVIOUS
<1>4. CASE x > MAX_32
  <2>1. Nearest32(x) = MAX_32 /\ y > MAX_32
    BY <1>1, <1>3, <1>4 DEF Nearest32
  <2>2. MAX_32 > MAX_32 \div 2
    BY <1>1, <1>2
  <2> HIDE DEF y
  <2>3. Doubled32(Nearest32(x)) = Nearest32(y)
    BY <2>1, <2>2 DEF Doubled32, Nearest32
  <2> QED BY <2>3 DEF y
<1>5. CASE x < MIN_32
  <2>1. Nearest32(x) = MIN_32 /\ y < MIN_32 /\ ~(y > MAX_32)
    BY <1>1, <1>3, <1>5 DEF Nearest32
  <2>2. ~(MIN_32 > MAX_32 \div 2) /\ MIN_32 < MIN_32 \div 2
    BY <1>1, <1>2
  <2> HIDE DEF y
  <2>3. Doubled32(Nearest32(x)) = Nearest32(y)
    BY <2>1, <2>2 DEF Doubled32, Nearest32
  <2> QED BY <2>3 DEF y
<1>6. CASE ~(x > MAX_32) /\ ~(x < MIN_32)
  <2>1. Nearest32(x) = x
    BY <1>6 DEF Nearest32
  <2>2. (x > MAX_32 \div 2 <=> y > MAX_32) /\ (x < MIN_32 \div 2 <=> y < MIN_32)
    BY <1>1, <1>2, <1>3
  <2> HIDE DEF y
  <2>3. Doubled32(x) = Nearest32(y)
    BY <2>2 DEF Doubled32, Nearest32, y
  <2> QED BY <2>1, <2>3 DEF y
<1> QED BY <1>4, <1>5, <1>6

\* Left shifts of 32 bits saturate, however far they go.
LEMMA LongShiftLeft ==
  ASSUME NEW v \in Word32, NEW n \in Nat
  PROVE  /\ LongShiftedLeft(v, n) = Nearest32(v * Pow2[n])
         /\ n >= 2 * W => Nearest32(v * Pow2[n])
                            = IF v = 0 THEN 0 ELSE IF v > 0 THEN MAX_32 ELSE MIN_32
<1> DEFINE F == Half * Half
           S == {m \in Nat : LongShiftedLeft(v, m) = Nearest32(v * Pow2[m])}
<1>1. MAX_32 = 2 * F - 1 /\ MIN_32 = -(2 * F) /\ F \in Int /\ F >= 4 /\ v \in Int
  BY LongWordsAre
<1>2. 0 \in S
  <2>1. Pow2[0] = 1 /\ v * 1 = v
    BY <1>1, PowersDouble
  <2> QED BY <2>1, LongWordIsNearest, LongShiftedLeftIs
<1>3. ASSUME NEW m \in Nat, m \in S PROVE m + 1 \in S
  <2>1. Pow2[m] \in Int /\ Pow2[m + 1] = 2 * Pow2[m] /\ m + 1 \in Nat
    BY PowersDouble
  <2>2. v * Pow2[m + 1] = 2 * (v * Pow2[m]) /\ v * Pow2[m] \in Int
    <3>1. \A x, y \in Int : x * (2 * y) = 2 * (x * y) /\ x * y \in Int
      OBVIOUS
    <3> QED BY <1>1, <2>1, <3>1
  <2>3. LongShiftedLeft(v, m + 1) = Doubled32(LongShiftedLeft(v, m))
    BY LongShiftedLeftIs
  <2>4. LongShiftedLeft(v, m) = Nearest32(v * Pow2[m])
    BY <1>3
  <2>5. LongShiftedLeft(v, m + 1) = Nearest32(v * Pow2[m + 1])
    <3> DEFINE r == v * Pow2[m]
    <3> HIDE DEF r
    <3>1. Doubled32(Nearest32(r)) = Nearest32(2 * r)
      BY <2>2, DoubledNearest DEF r
    <3> QED BY <2>2, <2>3, <2>4, <3>1 DEF r
  <2> QED BY <2>1, <2>5
<1>4. LongShiftedLeft(v, n) = Nearest32(v * Pow2[n])
  <2> HIDE DEF S
  <2>1. n \in S
    BY <1>2, <1>3, Induction
  <2> QED BY <2>1 DEF S
<1>5. ASSUME n >= 2 * W
      PROVE  Nearest32(v * Pow2[n]) = IF v = 0 THEN 0 ELSE IF v > 0 THEN MAX_32 ELSE MIN_32
  <2> DEFINE p == Pow2[n]
             r == v * p
  <2>1. p \in Int /\ p >= 4 * F
    <3>1. 2 * W - 1 \in Nat /\ 2 * W \in Nat /\ 2 * W = (2 * W - 1) + 1
      BY WordAssumption
    <3>2. Pow2[2 * W - 1] = 2 * F
      BY HalfIsPower
    <3> HIDE DEF F
    <3>3. Pow2[2 * W] = 4 * F
      BY <1>1, <3>1, <3>2, PowersDouble
    <3> QED BY <1>1, <1>5, <3>1, <3>3, PowersGrow
  <2>2. r \in Int /\ (v >= 1 => r >= p) /\ (v <= -1 => r <= -p) /\ (v = 0 => r = 0)
    BY <1>1, Scaled
  <2> HIDE DEF r, p, F
  <2>3. Nearest32(r) = IF v = 0 THEN 0 ELSE IF v > 0 THEN MAX_32 ELSE MIN_32
    BY <1>1, <2>1, <2>2 DEF Nearest32
  <2> QED BY <2>3 DEF r, p
<1> QED BY <1>4, <1>5

\* L_shl() and L_shr() multiply and divide by a power of two, in either direction.
LEMMA LongWordsShift ==
  ASSUME NEW v \in Word32, NEW n \in Int
  PROVE  L_shl(v, n) = Nearest32(Times2(v, n)) /\ L_shr(v, n) = Nearest32(Times2(v, -n))
<1>1. W \in Nat /\ W >= 2 /\ v \in Int
  BY WordAssumption, LongWordsAre
<1>2. Pow2[0] = 1 /\ v * 1 = v /\ v \div 1 = v
  BY <1>1, PowersDouble
<1>3. CASE n > 0
  <2>1. n \in Nat /\ n >= 0 /\ ~(n <= 0) /\ ~(n < 0) /\ ~(-n >= 0) /\ -(-n) = n
    BY <1>3
  <2>2. L_shl(v, n) = LongShiftedLeft(v, n) /\ L_shr(v, n) = LongShiftedRight(v, n)
    BY <2>1 DEF L_shl, L_shr
  <2>3. Times2(v, n) = v * Pow2[n] /\ Times2(v, -n) = v \div Pow2[n]
    BY <2>1 DEF Times2
  <2> QED BY <2>1, <2>2, <2>3, LongShiftLeft, LongShiftRight
<1>4. CASE n = 0
  <2>1. -n = 0
    <3>1. \A i, j \in Int : i + j = 0 /\ i = 0 => j = 0
      OBVIOUS
    <3>2. -n \in Int /\ n + (-n) = 0
      OBVIOUS
    <3> QED BY <1>4, <3>1, <3>2
  <2>2. Opposite(n, 2 * W) = 0
    <3>1. ~(n < -(2 * W))
      BY <1>1, <1>4
    <3> QED BY <2>1, <3>1 DEF Opposite
  <2>3. L_shl(v, n) = LongShiftedRight(v, 0) /\ L_shr(v, n) = LongShiftedRight(v, 0)
    BY <1>4, <2>2 DEF L_shl, L_shr
  <2>4. Times2(v, n) = v /\ Times2(v, -n) = v
    BY <1>2, <1>4, <2>1 DEF Times2
  <2>5. LongShiftedRight(v, 0) = v /\ Nearest32(v) = v
    BY <1>2, LongShiftRight, LongWordIsNearest
  <2> QED BY <2>3, <2>4, <2>5
<1>5. CASE n < 0
  <2> DEFINE m == Opposite(n, 2 * W)
  <2>1. m = IF n < -(2 * W) THEN 2 * W ELSE -n
    BY DEF Opposite
  <2>2. /\ m \in Nat /\ -n \in Nat /\ (m = -n \/ (m = 2 * W /\ -n > 2 * W))
        /\ -n >= 0 /\ ~(n >= 0) /\ n <= 0
    BY <1>1, <1>5, <2>1
  <2>3. L_shl(v, n) = LongShiftedRight(v, m) /\ L_shr(v, n) = LongShiftedLeft(v, m)
    BY <1>5, <2>2 DEF L_shl, L_shr
  <2>4. Times2(v, n) = v \div Pow2[-n] /\ Times2(v, -n) = v * Pow2[-n]
    BY <2>2 DEF Times2
  <2> HIDE DEF m
  <2> DEFINE k == -n
  <2>5. k \in Nat /\ m \in Nat /\ (m = k \/ (m = 2 * W /\ k > 2 * W))
    BY <2>2
  <2> HIDE DEF k
  <2>6. LongShiftedRight(v, m) = Nearest32(v \div Pow2[k])
    <3>1. /\ LongShiftedRight(v, m) = v \div Pow2[m]
          /\ v \div Pow2[k] = Nearest32(v \div Pow2[k])
      BY <2>5, LongShiftRight
    <3>2. m # k => v \div Pow2[m] = v \div Pow2[k]
      <4>1. m # k => m >= 2 * W - 1 /\ k >= 2 * W - 1
        BY <1>1, <2>5
      <4> QED BY <2>5, <4>1, LongShiftRight
    <3> QED BY <3>1, <3>2
  <2>7. LongShiftedLeft(v, m) = Nearest32(v * Pow2[k])
    <3>1. LongShiftedLeft(v, m) = Nearest32(v * Pow2[m])
      BY <2>5, LongShiftLeft
    <3>2. m # k => Nearest32(v * Pow2[m]) = Nearest32(v * Pow2[k])
      <4>1. m # k => m >= 2 * W /\ k >= 2 * W
        BY <1>1, <2>5
      <4> QED BY <2>5, <4>1, LongShiftLeft
    <3> QED BY <3>1, <3>2
  <2> QED BY <2>3, <2>4, <2>6, <2>7 DEF k
<1> QED BY <1>1, <1>3, <1>4, <1>5

\* Half of a number, rounded to the nearest, is its half rounded down and the bit lost.
LEMMA RoundedHalf ==
  ASSUME NEW x \in Int, NEW p \in Int, p > 0
  PROVE  /\ x \div p \in Int
         /\ (x + p) \div (2 * p) = x \div (2 * p) + (IF (x \div p) % 2 # 0 THEN 1 ELSE 0)
<1> DEFINE q == x \div p
           qp == q * p
           h == q \div 2
           hp == h * p
           r == q % 2
           t == 2 * p
<1>1. q \in Int /\ qp \in Int /\ qp <= x /\ x < qp + p
  BY Division
<1>2. h \in Int /\ hp \in Int /\ r \in {0, 1} /\ q = 2 * h + r
  <2> HIDE DEF q
  <2> QED BY <1>1
<1>3. qp = 2 * hp + r * p /\ (r = 0 => r * p = 0) /\ (r = 1 => r * p = p)
  <2> HIDE DEF q, h, r
  <2>1. \A i, j, k \in Int : (2 * i + j) * k = 2 * (i * k) + j * k
    OBVIOUS
  <2> QED BY <1>2, <2>1
<1>4. h * t = 2 * hp /\ (h + 1) * t = 2 * hp + t
  <2> HIDE DEF h
  <2>1. \A i, k \in Int : i * (2 * k) = 2 * (i * k) /\ (i + 1) * (2 * k) = 2 * (i * k) + 2 * k
    OBVIOUS
  <2> QED BY <1>2, <2>1
<1>5. t \in Int /\ t > 0 /\ t = p + p
  OBVIOUS
<1> DEFINE ht == h * t
           gt == (h + 1) * t
<1>6. /\ ht \in Int /\ gt = ht + t /\ ht = 2 * hp /\ h + 1 \in Int
      /\ (r = 0 => qp = ht) /\ (r = 1 => qp = ht + p)
  <2> HIDE DEF qp, hp, r, t, h
  <2> QED BY <1>1, <1>2, <1>3, <1>4, <1>5
<1>7. x \div t = h
  <2>1. ht <= x /\ x < ht + t
    <3> HIDE DEF qp, hp, r, t, h, ht, gt, q
    <3> QED BY <1>1, <1>2, <1>5, <1>6
  <2> HIDE DEF h, t
  <2> QED BY <1>2, <1>5, <2>1, QuotientIs DEF ht
<1>8. r = 0 => (x + p) \div t = h
  <2> SUFFICES ASSUME r = 0 PROVE (x + p) \div t = h
    OBVIOUS
  <2> DEFINE y == x + p
  <2>1. y \in Int /\ ht <= y /\ y < ht + t
    <3> HIDE DEF qp, hp, r, t, h, ht, gt, q
    <3> QED BY <1>1, <1>2, <1>5, <1>6
  <2> HIDE DEF h, t, y
  <2>2. y \div t = h
    BY <1>2, <1>5, <2>1, QuotientIs DEF ht
  <2> QED BY <2>2 DEF y
<1>9. r = 1 => (x + p) \div t = h + 1
  <2> SUFFICES ASSUME r = 1 PROVE (x + p) \div t = h + 1
    OBVIOUS
  <2> DEFINE y == x + p
             g == h + 1
  <2>1. y \in Int /\ gt <= y /\ y < gt + t /\ gt = g * t
    <3>1. y \in Int /\ gt <= y /\ y < gt + t
      <4> HIDE DEF qp, hp, r, t, h, ht, gt, q
      <4> QED BY <1>1, <1>2, <1>5, <1>6
    <3> QED BY <3>1
  <2>2. g \in Int
    BY <1>6
  <2> HIDE DEF h, t, y, g, gt
  <2>3. y \div t = g
    BY <1>5, <2>1, <2>2, QuotientIs
  <2> QED BY <2>3 DEF y, g
<1> HIDE DEF h
<1>10. (x + p) \div t = h + (IF r # 0 THEN 1 ELSE 0)
  <2> HIDE DEF r, t
  <2> QED BY <1>2, <1>8, <1>9
<1> QED BY <1>1, <1>7, <1>10 DEF r, q, t

\* L_shr_r(): a right shift that rounds to the nearest.
LEMMA LongShiftRounds ==
  ASSUME NEW v \in Word32, NEW n \in 1 .. 2 * W - 1
  PROVE  L_shr_r(v, n) = Rounded(v, n)
<1> DEFINE p == Pow2[n - 1]
           odd == (v \div p) % 2 # 0
<1>1. v \in Int /\ n \in Nat /\ n - 1 \in Nat /\ (n - 1) + 1 = n /\ n > 0
      /\ ~(n > 2 * W - 1) /\ ~(n < 0)
  BY LongWordsAre, WordAssumption
<1>2. p \in Int /\ p > 0 /\ Pow2[n] = 2 * p
  BY <1>1, PowersDouble
<1>3. L_shr(v, n) = v \div Pow2[n]
  BY <1>1, LongShiftRight DEF L_shr
<1>4. L_shr_r(v, n) = L_shr(v, n) + (IF odd THEN 1 ELSE 0)
  BY <1>1 DEF L_shr_r
<1>5. Rounded(v, n) = (v + p) \div Pow2[n]
  BY DEF Rounded
<1> HIDE DEF p
<1>6. (v + p) \div (2 * p) = v \div (2 * p) + (IF odd THEN 1 ELSE 0)
  BY <1>1, <1>2, RoundedHalf
<1> HIDE DEF odd
<1> QED BY <1>2, <1>3, <1>4, <1>5, <1>6

\* norm_l(): the number of left shifts that leave the long word as large as it can be.
LEMMA LongWordsNormalize ==
  ASSUME NEW v \in Word32
  PROVE  Normal(v, norm_l(v), Word32)
<1> DEFINE e == 2 * W - 2
           F == Half * Half
<1>1. e \in Nat /\ F = Pow2[e] /\ F \in Nat /\ F >= 4
  BY HalfIsPower, WordAssumption, LongWordsAre
<1>2. v \in Int /\ -(2 * F) <= v /\ v <= 2 * F - 1
      /\ \A x : x \in Word32 <=> x \in Int /\ -(2 * F) <= x /\ x <= 2 * F - 1
  BY LongWordsAre
<1>3. CASE v # 0 /\ v # -1
  <2>1. norm_l(v) = Doublings(IF v < 0 THEN -v - 1 ELSE v, Pow2[e])
    BY <1>1, <1>3 DEF norm_l
  <2>2. -(2 * Pow2[e]) <= v /\ v < 2 * Pow2[e]
    <3> HIDE DEF F, e
    <3> QED BY <1>1, <1>2
  <2> DEFINE k == norm_l(v)
  <2> HIDE DEF e
  <2>3. /\ k \in Nat
        /\ v * Pow2[k] \in Int /\ -(2 * Pow2[e]) <= v * Pow2[k] /\ v * Pow2[k] < 2 * Pow2[e]
        /\ v * Pow2[k + 1] \in Int
        /\ v * Pow2[k + 1] < -(2 * Pow2[e]) \/ 2 * Pow2[e] <= v * Pow2[k + 1]
    BY <1>1, <1>2, <1>3, <2>1, <2>2, NormalizedBy
  <2> DEFINE s == v * Pow2[k]
             t == v * Pow2[k + 1]
  <2> HIDE DEF F
  <2>4. /\ s \in Int /\ t \in Int /\ -(2 * F) <= s /\ s < 2 * F
        /\ (t < -(2 * F) \/ 2 * F <= t)
    BY <1>1, <2>3
  <2> HIDE DEF s, t, k
  <2>5. s \in Word32 /\ t \notin Word32
    BY <1>1, <1>2, <2>4
  <2> QED BY <2>5 DEF Normal, s, t, k
<1>4. CASE v = -1
  <2>1. norm_l(v) = 2 * W - 1 /\ 2 * W - 1 \in Nat /\ (2 * W - 1) + 1 = 2 * W
    BY <1>4, WordAssumption DEF norm_l
  <2>2. Pow2[2 * W - 1] = 2 * F /\ Pow2[2 * W] = 4 * F
    BY HalfIsPower
  <2> HIDE DEF F
  <2>3. v * (2 * F) = -(2 * F) /\ v * (4 * F) = -(4 * F)
    BY <1>1, <1>4
  <2>4. v * (2 * F) \in Word32 /\ v * (4 * F) \notin Word32
    BY <1>1, <1>2, <2>3
  <2> QED BY <2>1, <2>2, <2>4 DEF Normal
<1>5. CASE v = 0
  BY <1>5 DEF Normal
<1> QED BY <1>3, <1>4, <1>5

\* L_mac0(), L_msu0(): a product that is not doubled, added or subtracted.
LEMMA LongWordsAccumulate ==
  ASSUME NEW L \in Word32, NEW a \in Word16, NEW b \in Word16
  PROVE  L_mac0(L, a, b) = Nearest32(L + a * b) /\ L_msu0(L, a, b) = Nearest32(L - a * b)
<1> DEFINE p == a * b
<1>1. p \in Word32
  BY ProductIsLongWord
<1>2. L_mac0(L, a, b) = L_add(L, p) /\ L_msu0(L, a, b) = L_sub(L, p)
  BY DEF L_mac0, L_msu0, L_mult0
<1> HIDE DEF p
<1>3. L_add(L, p) = Nearest32(L + p) /\ L_sub(L, p) = Nearest32(L - p)
  BY <1>1, SumsSaturate, DifferencesSaturate
<1> QED BY <1>2, <1>3 DEF p

\* A number is at most a quotient when its product with the divisor is at most the dividend.
LEMMA QuotientBound ==
  ASSUME NEW x \in Int, NEW y \in Int, NEW c \in Int, y > 0
  PROVE  c <= x \div y <=> c * y <= x
<1> DEFINE q == x \div y
           qy == q * y
           cy == c * y
<1>1. q \in Int /\ qy <= x /\ x < qy + y
  BY Division
<1> HIDE DEF q
<1>2. qy \in Int /\ cy \in Int
  BY <1>1
<1>3. c <= q => cy <= qy
  <2>1. \A i, j, k \in Int : k > 0 /\ i <= j => i * k <= j * k
    OBVIOUS
  <2> QED BY <1>1, <2>1
<1>4. ~(c <= q) => qy + y <= cy
  <2>1. \A i, j, k \in Int : k > 0 /\ i + 1 <= j => i * k + k <= j * k
    <3> TAKE i, j, k \in Int
    <3>1. k > 0 /\ i + 1 <= j => (i + 1) * k <= j * k
      OBVIOUS
    <3>2. (i + 1) * k = i * k + k
      OBVIOUS
    <3> QED BY <3>1, <3>2
  <2>2. ~(c <= q) => q + 1 <= c
    BY <1>1
  <2> QED BY <1>1, <2>1, <2>2
<1> HIDE DEF qy, cy
<1>5. c <= q <=> cy <= x
  BY <1>1, <1>2, <1>3, <1>4
<1> QED BY <1>5 DEF q, cy

\* The upper word of a long word is a word, and of a larger number it is too large.
LEMMA UpperWord ==
  ASSUME NEW x \in Int
  PROVE  /\ x \div (2 * Half) \in Int
         /\ x \in Word32 => x \div (2 * Half) \in Word16
         /\ x > MAX_32 => x \div (2 * Half) > MAX_16
         /\ MAX_32 \div (2 * Half) = MAX_16
<1> DEFINE F == Half * Half
           y == 2 * Half
           q == x \div y
<1>1. /\ MAX_32 = 2 * F - 1 /\ MIN_32 = -(2 * F) /\ F \in Int /\ F >= 2 * Half
      /\ \A z : z \in Word32 <=> z \in Int /\ -(2 * F) <= z /\ z <= 2 * F - 1
  BY LongWordsAre
<1>2. /\ MAX_16 = Half - 1 /\ MIN_16 = -Half /\ Half \in Int /\ Half >= 2
      /\ \A z : z \in Word16 <=> z \in Int /\ -Half <= z /\ z <= Half - 1
  BY WordsAre
<1>3. y \in Int /\ y > 0
  BY <1>2
<1>4. Half * y = 2 * F /\ (-Half) * y = -(2 * F) /\ (Half - 1) * y = 2 * F - y
  <2>1. \A h \in Int : /\ h * (2 * h) = 2 * (h * h) /\ (-h) * (2 * h) = -(2 * (h * h))
                       /\ (h - 1) * (2 * h) = 2 * (h * h) - 2 * h
    OBVIOUS
  <2> QED BY <1>2, <2>1
<1> HIDE DEF F
<1>5. q \in Int
  BY <1>3, Division
<1>6. Half <= q <=> 2 * F <= x
  <2> HIDE DEF y
  <2>1. Half <= x \div y <=> Half * y <= x
    BY <1>2, <1>3, QuotientBound
  <2> QED BY <1>4, <2>1
<1>7. -Half <= q <=> -(2 * F) <= x
  <2> DEFINE c == -Half
  <2>0. c \in Int
    BY <1>2
  <2>1. c * y = -(2 * F)
    BY <1>4
  <2> HIDE DEF y, c
  <2>2. c <= x \div y <=> c * y <= x
    BY <1>3, <2>0, QuotientBound
  <2> QED BY <2>1, <2>2 DEF c
<1>8. MAX_32 \div y = Half - 1
  <2> DEFINE c == Half - 1
             cy == c * y
  <2>1. c \in Int /\ cy = 2 * F - y
    BY <1>2, <1>4
  <2> HIDE DEF c, cy
  <2>2. MAX_32 \in Int /\ cy <= MAX_32 /\ MAX_32 < cy + y
    BY <1>1, <1>2, <1>3, <2>1
  <2> HIDE DEF y
  <2>3. MAX_32 \div y = c
    BY <1>3, <2>1, <2>2, QuotientIs DEF cy
  <2> QED BY <2>3 DEF c
<1> HIDE DEF q
<1>9. x \in Word32 => q \in Word16
  BY <1>1, <1>2, <1>5, <1>6, <1>7
<1>10. x > MAX_32 => q > MAX_16
  BY <1>1, <1>2, <1>5, <1>6
<1> QED BY <1>2, <1>5, <1>8, <1>9, <1>10 DEF q, y

\* intround(): the upper word, rounded to the nearest.
LEMMA Rounds ==
  ASSUME NEW L \in Word32
  PROVE  intround(L) = Nearest16((L + Half) \div (2 * Half))
<1> DEFINE x == L + Half
           q == x \div (2 * Half)
<1>1. Half \in Word32 /\ Half \in Int /\ Half >= 2 /\ L \in Int /\ MIN_32 <= L /\ MIN_32 \in Int
      /\ MAX_32 \in Int
  <2> DEFINE F == Half * Half
  <2>1. /\ MAX_32 = 2 * F - 1 /\ MIN_32 = -(2 * F) /\ F \in Int /\ F >= 2 * Half /\ F >= 4
        /\ \A z : z \in Word32 <=> z \in Int /\ -(2 * F) <= z /\ z <= 2 * F - 1
    BY LongWordsAre
  <2>2. Half \in Int /\ Half >= 2
    BY WordsAre
  <2> HIDE DEF F
  <2> QED BY <2>1, <2>2
<1>2. L_add(L, Half) = Nearest32(x)
  BY <1>1, SumsSaturate
<1>3. x \in Int /\ x >= MIN_32
  BY <1>1
<1> HIDE DEF x
<1>4. /\ q \in Int
      /\ x \in Word32 => q \in Word16
      /\ x > MAX_32 => q > MAX_16
      /\ MAX_32 \div (2 * Half) = MAX_16
  BY <1>3, UpperWord
<1>5. intround(L) = Nearest32(x) \div (2 * Half)
  BY <1>2 DEF intround, extract_h
<1>6. CASE x > MAX_32
  <2>1. Nearest32(x) = MAX_32
    BY <1>6 DEF Nearest32
  <2> HIDE DEF q
  <2>2. Nearest16(q) = MAX_16
    BY <1>4, <1>6 DEF Nearest16
  <2> QED BY <1>4, <1>5, <2>1, <2>2 DEF x, q
<1>7. CASE ~(x > MAX_32)
  <2>1. x \in Word32
    BY <1>1, <1>3, <1>7 DEF Word32
  <2>2. Nearest32(x) = x
    BY <2>1, LongWordIsNearest
  <2> HIDE DEF q
  <2>3. Nearest16(q) = q
    BY <1>4, <2>1, WordsAre DEF Nearest16
  <2> QED BY <1>5, <2>2, <2>3 DEF x, q
<1> QED BY <1>6, <1>7

\* L_Extract(): the two words of a long word, without its lowest bit.
LEMMA Extracted ==
  ASSUME NEW L \in Word32
  PROVE  LET e == L_Extract(L) IN
         /\ e.hi \in Word16 /\ e.hi = L \div (2 * Half)
         /\ e.lo \in Int /\ 0 <= e.lo /\ e.lo <= Half - 1 /\ e.lo \in Word16
         /\ e.hi * Half \in Word32 /\ e.hi * Half + e.lo = L \div 2
<1> DEFINE F == Half * Half
           hi == L \div (2 * Half)
           s == L \div 2
           p == hi * Half
           lo == s - p
           g == Half \div 2
<1>1. /\ MAX_32 = 2 * F - 1 /\ MIN_32 = -(2 * F) /\ F \in Int /\ F >= 4
      /\ \A z : z \in Word32 <=> z \in Int /\ -(2 * F) <= z /\ z <= 2 * F - 1
  BY LongWordsAre
<1>2. /\ Half \in Int /\ Half >= 2
      /\ \A z : z \in Word16 <=> z \in Int /\ -Half <= z /\ z <= Half - 1
  BY WordsAre
<1>3. hi \in Word16 /\ hi \in Int
  BY <1>1, <1>2, UpperWord
<1>4. s \in Int /\ s \in Word32 /\ 2 * s <= L /\ L <= 2 * s + 1
  <2> HIDE DEF F
  <2> QED BY <1>1
<1>5. g \in Int /\ Half = 2 * g /\ g \in Word16
  <2>1. Half = 2 * Pow2[W - 2] /\ Pow2[W - 2] \in Int
    BY HalfIsPower, PowersDouble
  <2> DEFINE h == Pow2[W - 2]
  <2>2. Half = 2 * h /\ h \in Int
    BY <2>1
  <2> HIDE DEF h
  <2>3. g = h
    BY <2>2
  <2> QED BY <1>2, <2>2, <2>3
<1>6. p \in Int /\ -F <= p /\ p <= F
  <2> DEFINE m == -Half
  <2>1. m \in Word16
    BY <1>2
  <2>2. hi * m = -p
    <3> HIDE DEF hi
    <3> QED BY <1>2, <1>3
  <2> HIDE DEF hi, m
  <2>3. hi * m \in Int /\ -F <= hi * m /\ hi * m <= F
    BY <1>3, <2>1, ProductsFit
  <2>4. p \in Int
    BY <1>2, <1>3
  <2> HIDE DEF F, p
  <2> QED BY <1>1, <2>2, <2>3, <2>4
<1>7. p \in Word32
  <2> HIDE DEF F, p
  <2> QED BY <1>1, <1>6
<1>8. L_mult(hi, g) = p
  <2>1. 2 * (hi * g) = p
    <3> HIDE DEF hi, g
    <3>1. \A i, j \in Int : 2 * (i * j) = i * (2 * j)
      OBVIOUS
    <3> QED BY <1>3, <1>5, <3>1
  <2> HIDE DEF hi, g, p
  <2>2. L_mult(hi, g) = Nearest32(2 * (hi * g))
    BY <1>3, <1>5, ProductsSaturate
  <2> QED BY <1>7, <2>1, <2>2, LongWordIsNearest
<1>9. 0 <= lo /\ lo <= Half - 1 /\ lo \in Int
  <2> DEFINE y == 2 * Half
             py == hi * y
  <2>1. L \in Int /\ y \in Int /\ y > 0
    <3> HIDE DEF F
    <3> QED BY <1>1, <1>2
  <2>2. py <= L /\ L < py + y
    <3> HIDE DEF y
    <3>1. (L \div y) * y <= L /\ L < (L \div y) * y + y
      BY <2>1, Division
    <3> QED BY <3>1 DEF y
  <2>3. py = 2 * p
    <3> HIDE DEF hi
    <3>1. \A i, j \in Int : i * (2 * j) = 2 * (i * j)
      OBVIOUS
    <3> QED BY <1>2, <1>3, <3>1
  <2> HIDE DEF py, p, s
  <2>4. 2 * p <= L /\ L < 2 * p + 2 * Half
    BY <2>2, <2>3
  <2> QED BY <1>2, <1>4, <1>6, <2>1, <2>4
<1>10. L_shr(L, 1) = s
  <2>1. Pow2[1] = 2
    <3>1. Pow2[0 + 1] = 2 * Pow2[0] /\ Pow2[0] = 1 /\ 0 + 1 = 1
      BY PowersDouble
    <3> QED BY <3>1
  <2> DEFINE n == 1
  <2>2. n \in Nat /\ ~(n < 0) /\ Pow2[n] = 2
    BY <2>1
  <2> HIDE DEF n
  <2>3. L_shr(L, n) = s
    BY <2>2, LongShiftRight DEF L_shr
  <2> QED BY <2>3 DEF n
<1> DEFINE lower == extract_l(L_msu(s, hi, g))
<1>11. L_Extract(L) = [hi |-> hi, lo |-> lower]
  BY <1>10 DEF L_Extract, extract_h
<1>12. lower = lo
  <2>1. lo \in Word16 /\ lo \in Word32
    <3> HIDE DEF lo, F
    <3> QED BY <1>1, <1>2, <1>9, LongWordsAre
  <2> HIDE DEF hi, g, s, p
  <2>2. L_msu(s, hi, g) = Nearest32(lo)
    BY <1>4, <1>7, <1>8, DifferencesSaturate DEF L_msu
  <2> HIDE DEF lo
  <2>3. L_msu(s, hi, g) = lo /\ extract_l(lo) = lo
    BY <2>1, <2>2, LongWordIsNearest, LowOfWord
  <2> QED BY <2>3
<1> HIDE DEF lower
<1>13. lo \in Word16
  <2> HIDE DEF lo
  <2> QED BY <1>2, <1>9
<1>14. p + lo = s
  <2> HIDE DEF p, s
  <2> QED BY <1>4, <1>6
<1> HIDE DEF lo
<1>15. L_Extract(L).hi = hi /\ L_Extract(L).lo = lo
  BY <1>11, <1>12
<1> QED BY <1>3, <1>7, <1>9, <1>13, <1>14, <1>15 DEF p

\* L_Comp() puts together what L_Extract() takes apart.
LEMMA Composed ==
  ASSUME NEW L \in Word32
  PROVE  L_Comp(L_Extract(L).hi, L_Extract(L).lo) = 2 * (L \div 2)
<1> DEFINE F == Half * Half
           hi == L_Extract(L).hi
           lo == L_Extract(L).lo
           s == L \div 2
           p == hi * Half
           one == 1
<1>1. /\ hi \in Word16 /\ lo \in Int /\ lo \in Word16 /\ 0 <= lo /\ lo <= Half - 1
      /\ p \in Word32 /\ p + lo = s
  BY Extracted
<1>2. /\ F \in Int /\ F >= 4 /\ F >= 2 * Half /\ L \in Word32
      /\ \A z : z \in Word32 <=> z \in Int /\ -(2 * F) <= z /\ z <= 2 * F - 1
  BY LongWordsAre
<1>3. /\ Half \in Int /\ Half >= 2
      /\ \A z : z \in Word16 <=> z \in Int /\ -Half <= z /\ z <= Half - 1
  BY WordsAre
<1> HIDE DEF hi, lo
<1>4. L_deposit_h(hi) = 2 * p /\ p \in Int
  <2>1. \A i, j \in Int : i * 2 * j = 2 * (i * j) /\ i * j \in Int
    OBVIOUS
  <2> QED BY <1>1, <1>3, <2>1 DEF L_deposit_h
<1>5. one \in Word16 /\ lo * one = lo
  BY <1>1, <1>3
<1> HIDE DEF p, one
<1>6. s \in Int /\ 2 * s <= L /\ L <= 2 * s + 1 /\ L \in Int
  BY <1>2
<1> HIDE DEF F, s
<1>7. 2 * lo \in Word32 /\ 2 * s \in Word32 /\ 2 * p \in Word32
  <2>1. 2 * lo \in Word32
    BY <1>1, <1>2, <1>3
  <2>2. 2 * s \in Word32
    BY <1>2, <1>6
  <2>3. 2 * p = 2 * s - 2 * lo /\ 2 * p <= 2 * s
    BY <1>1, <1>4, <1>6
  <2>4. 2 * p \in Word32
    <3>1. p >= -F
      <4>1. hi \in Word16 /\ hi >= -Half /\ hi \in Int
        BY <1>1, <1>3
      <4>2. \A i, j \in Int : j >= 0 /\ i >= -j => i * j >= -(j * j)
        <5> TAKE i, j \in Int
        <5>1. j >= 0 /\ i + j >= 0 => (i + j) * j >= 0
          OBVIOUS
        <5>2. (i + j) * j = i * j + j * j
          OBVIOUS
        <5>3. i * j \in Int /\ j * j \in Int
          OBVIOUS
        <5> DEFINE a == i * j
                   b == j * j
        <5> HIDE DEF a, b
        <5>4. j >= 0 /\ i >= -j => a >= -b
          BY <5>1, <5>2, <5>3 DEF a, b
        <5> QED BY <5>4 DEF a, b
      <4> QED BY <1>3, <4>1, <4>2 DEF p, F
    <3> QED BY <1>2, <1>4, <1>6, <2>2, <2>3, <3>1
  <2> QED BY <2>1, <2>2, <2>4
<1>8. L_mult(lo, one) = 2 * lo
  <2>1. L_mult(lo, one) = Nearest32(2 * (lo * one))
    BY <1>1, <1>5, ProductsSaturate
  <2> DEFINE d == 2 * lo
  <2>2. d \in Word32 /\ L_mult(lo, one) = Nearest32(d)
    BY <1>5, <1>7, <2>1
  <2> HIDE DEF d
  <2>3. L_mult(lo, one) = d
    BY <2>2, LongWordIsNearest
  <2> QED BY <2>3 DEF d
<1>9. L_add(2 * p, 2 * lo) = 2 * s
  <2> DEFINE c == 2 * p
             d == 2 * lo
             r == 2 * s
  <2>1. c \in Word32 /\ d \in Word32 /\ r \in Word32 /\ c + d = r
    <3>1. c + d = r
      BY <1>1, <1>4, <1>6
    <3> QED BY <1>7, <3>1
  <2> HIDE DEF c, d, r
  <2>2. L_add(c, d) = r
    BY <2>1, SumsSaturate, LongWordIsNearest
  <2> QED BY <2>2 DEF c, d, r
<1>10. L_Comp(hi, lo) = L_add(L_deposit_h(hi), L_mult(lo, one))
  BY DEF L_Comp, L_mac, one
<1>11. L_Comp(hi, lo) = 2 * s
  BY <1>4, <1>8, <1>9, <1>10
<1> QED BY <1>11 DEF hi, lo, s

-----------------------------------------------------------------------------
(* What is exact.                                                          *)

(* The operators of basop32.c on words: each gives the word nearest to the *)
(* exact result, shifts go as far as asked and back, norm_s() leaves no    *)
(* room for a further doubling and div_s() is the quotient of fractions.   *)
THEOREM WordsAreExact == \A a, b \in Word16 : WordsExact(a, b)
<1> SUFFICES ASSUME NEW a \in Word16, NEW b \in Word16 PROVE WordsExact(a, b)
  OBVIOUS
<1>1. /\ add(a, b) = Nearest16(a + b) /\ sub(a, b) = Nearest16(a - b)
      /\ abs_s(a) = Nearest16(Magnitude(a)) /\ negate(a) = Nearest16(-a)
  BY WordsSaturate
<1>2. /\ mult(a, b) = Nearest16((a * b) \div Half)
      /\ mult_r(a, b) = Nearest16((2 * a * b + Half) \div (2 * Half))
  BY WordsMultiply
<1>3. a \in Int /\ b \in Int
  BY WordsAre
<1>4. shl(a, b) = Nearest16(Times2(a, b)) /\ shr(a, b) = Nearest16(Times2(a, -b))
  BY <1>3, WordsShift
<1>5. Normal(a, norm_s(a), Word16)
  BY WordsNormalize
<1>6. 0 <= a /\ a <= b /\ b > 0 => div_s(a, b) = Nearest16((a * Half) \div b)
  BY WordsDivide
<1>7. L_mult(a, b) = Nearest32(2 * a * b)
  <2>1. \A x, y \in Int : 2 * x * y = 2 * (x * y)
    OBVIOUS
  <2>2. 2 * a * b = 2 * (a * b)
    BY <1>3, <2>1
  <2> QED BY <2>2, ProductsSaturate
<1> QED BY <1>1, <1>2, <1>4, <1>5, <1>6, <1>7 DEF WordsExact

(* The operators of basop32.c on long words, and L_Extract() and L_Comp()  *)
(* of oper_32b.c, which lose the lowest bit and no other.                  *)
THEOREM LongWordsAreExact == \A L, M \in Word32 : LongWordsExact(L, M)
<1> SUFFICES ASSUME NEW L \in Word32, NEW M \in Word32 PROVE LongWordsExact(L, M)
  OBVIOUS
<1>1. L_add(L, M) = Nearest32(L + M) /\ L_sub(L, M) = Nearest32(L - M)
  BY SumsSaturate, DifferencesSaturate
<1>2. L_abs(L) = Nearest32(Magnitude(L)) /\ L_negate(L) = Nearest32(-L)
  BY LongWordsNegate
<1>3. Normal(L, norm_l(L), Word32)
  BY LongWordsNormalize
<1>4. intround(L) = Nearest16((L + Half) \div (2 * Half))
  BY Rounds
<1>5. L_Comp(L_Extract(L).hi, L_Extract(L).lo) = 2 * (L \div 2)
  BY Composed
<1> QED BY <1>1, <1>2, <1>3, <1>4, <1>5 DEF LongWordsExact

(* The operators of basop32.c on a long word and words: shifts by any word *)
(* in either direction, rounded or not, and sums of products.              *)
THEOREM MixedAreExact == \A L \in Word32 : \A n, b \in Word16 : MixedExact(L, n, b)
<1> SUFFICES ASSUME NEW L \in Word32, NEW n \in Word16, NEW b \in Word16
             PROVE  MixedExact(L, n, b)
  OBVIOUS
<1>1. n \in Int /\ b \in Int
  BY WordsAre
<1>2. L_shl(L, n) = Nearest32(Times2(L, n)) /\ L_shr(L, n) = Nearest32(Times2(L, -n))
  BY <1>1, LongWordsShift
<1>3. n \in 1 .. 2 * W - 1 => L_shr_r(L, n) = Rounded(L, n)
  BY LongShiftRounds
<1>4. 2 * n * b = 2 * (n * b)
  <2>1. \A x, y \in Int : 2 * x * y = 2 * (x * y)
    OBVIOUS
  <2> QED BY <1>1, <2>1
<1>5. /\ L_mac(L, n, b) = Nearest32(L + Nearest32(2 * n * b))
      /\ L_msu(L, n, b) = Nearest32(L - Nearest32(2 * n * b))
  BY <1>4, LongWordsSaturate
<1>6. L_mac0(L, n, b) = Nearest32(L + n * b) /\ L_msu0(L, n, b) = Nearest32(L - n * b)
  BY LongWordsAccumulate
<1> QED BY <1>2, <1>3, <1>5, <1>6 DEF MixedExact

-----------------------------------------------------------------------------
(* Double precision.                                                       *)

\* Only the lowest word has a product with another that is as large as Half * Half.
LEMMA ProductsFitBelow ==
  ASSUME NEW a \in Word16, NEW b \in Word16, a # MIN_16
  PROVE  /\ a * b \in Int
         /\ -(Half * Half - Half) <= a * b /\ a * b <= Half * Half - Half
<1> DEFINE F == Half * Half
           p == a * b
<1>1. /\ a \in Int /\ b \in Int /\ Half \in Int /\ F \in Int /\ p \in Int
      /\ 1 - Half <= a /\ a <= Half - 1 /\ -Half <= b /\ b <= Half
  BY WordsAre
<1>2. \A x, y, h \in Int : 1 - h <= x /\ x <= h - 1 /\ -h <= y /\ y <= h
        => /\ ((h - 1) - x) * (h + y) >= 0 /\ ((h - 1) + x) * (h - y) >= 0
           /\ ((h - 1) - x) * (h - y) >= 0 /\ ((h - 1) + x) * (h + y) >= 0
  OBVIOUS
<1>3. \A x, y, h \in Int :
        /\ ((h - 1) - x) * (h + y) + ((h - 1) + x) * (h - y) = 2 * (h * h) - 2 * h - 2 * (x * y)
        /\ ((h - 1) - x) * (h - y) + ((h - 1) + x) * (h + y) = (2 * (h * h) + 2 * (x * y)) - 2 * h
  <2> TAKE x, y, h \in Int
  <2>1. ((h - 1) - x) * (h + y) = ((h * h - h) - x * h) + ((h * y - y) - x * y)
    OBVIOUS
  <2>2. ((h - 1) + x) * (h - y) = ((h * h - h) + x * h) - ((h * y - y) + x * y)
    OBVIOUS
  <2>3. ((h - 1) - x) * (h - y) = ((h * h - h) - x * h) - ((h * y - y) - x * y)
    OBVIOUS
  <2>4. ((h - 1) + x) * (h + y) = ((h * h - h) + x * h) + ((h * y - y) + x * y)
    OBVIOUS
  <2> DEFINE hh == h * h
             xh == x * h
             hy == h * y
             xy == x * y
  <2>5. hh \in Int /\ xh \in Int /\ hy \in Int /\ xy \in Int
    OBVIOUS
  <2>6. ((hh - h) - xh) + ((hy - y) - xy) + (((hh - h) + xh) - ((hy - y) + xy))
          = 2 * hh - 2 * h - 2 * xy
    <3> HIDE DEF hh, xh, hy, xy
    <3> QED BY <2>5
  <2>7. ((hh - h) - xh) - ((hy - y) - xy) + (((hh - h) + xh) + ((hy - y) + xy))
          = (2 * hh + 2 * xy) - 2 * h
    <3> HIDE DEF hh, xh, hy, xy
    <3> QED BY <2>5
  <2> QED BY <2>1, <2>2, <2>3, <2>4, <2>6, <2>7
<1>4. 2 * F - 2 * Half - 2 * p >= 0
  <2> DEFINE x == ((Half - 1) - a) * (Half + b)
             y == ((Half - 1) + a) * (Half - b)
  <2>1. x >= 0 /\ y >= 0 /\ x \in Int /\ y \in Int
    BY <1>1, <1>2
  <2>2. x + y = 2 * F - 2 * Half - 2 * p
    BY <1>1, <1>3
  <2> HIDE DEF x, y, F, p
  <2> QED BY <2>1, <2>2
<1>5. (2 * F + 2 * p) - 2 * Half >= 0
  <2> DEFINE x == ((Half - 1) - a) * (Half - b)
             y == ((Half - 1) + a) * (Half + b)
  <2>1. x >= 0 /\ y >= 0 /\ x \in Int /\ y \in Int
    BY <1>1, <1>2
  <2>2. x + y = (2 * F + 2 * p) - 2 * Half
    BY <1>1, <1>3
  <2> HIDE DEF x, y, F, p
  <2> QED BY <2>1, <2>2
<1> HIDE DEF F, p
<1>6. p \in Int /\ -(F - Half) <= p /\ p <= F - Half
  BY <1>1, <1>4, <1>5
<1> QED BY <1>6 DEF F, p

\* L_mac() of a word and 1 adds twice the word.
LEMMA TwiceIsAdded ==
  ASSUME NEW e \in Word32, NEW k \in Word16
  PROVE  L_mac(e, k, 1) = Nearest32(e + 2 * k)
<1> DEFINE one == 1
           d == 2 * k
<1>1. /\ Half \in Int /\ Half >= 2 /\ k \in Int /\ -Half <= k /\ k <= Half - 1
      /\ \A z : z \in Word16 <=> z \in Int /\ -Half <= z /\ z <= Half - 1
  BY WordsAre
<1>2. one \in Word16 /\ k * one = k
  BY <1>1
<1>3. d \in Word32
  <2> DEFINE F == Half * Half
  <2>1. /\ F \in Int /\ F >= 2 * Half
        /\ \A z : z \in Word32 <=> z \in Int /\ -(2 * F) <= z /\ z <= 2 * F - 1
    BY LongWordsAre
  <2> HIDE DEF F
  <2> QED BY <1>1, <2>1
<1>4. L_mult(k, one) = d
  <2> HIDE DEF one
  <2>1. L_mult(k, one) = Nearest32(2 * (k * one))
    BY <1>2, ProductsSaturate
  <2>2. 2 * (k * one) = d
    BY <1>2
  <2> HIDE DEF d
  <2> QED BY <1>3, <2>1, <2>2, LongWordIsNearest
<1> HIDE DEF d
<1>5. L_add(e, d) = Nearest32(e + d)
  BY <1>3, SumsSaturate
<1>6. L_mac(e, k, one) = L_add(e, L_mult(k, one))
  BY DEF L_mac
<1> QED BY <1>4, <1>5, <1>6 DEF d, one

\* A word is added to the upper bits of a long word.
LEMMA WordIsAdded ==
  ASSUME NEW c \in Int, 2 * c \in Word32, NEW k \in Word16
  PROVE  L_mac(2 * c, k, 1) = Nearest32(2 * (c + k))
<1> DEFINE e == 2 * c
<1>1. k \in Int
  BY WordsAre
<1>2. e + 2 * k = 2 * (c + k) /\ e \in Word32
  BY <1>1
<1> HIDE DEF e
<1>3. L_mac(e, k, 1) = Nearest32(e + 2 * k)
  BY <1>2, TwiceIsAdded
<1> QED BY <1>2, <1>3 DEF e

\* Twice a number that is not far outside the words is a long word.
LEMMA DoubleFits ==
  ASSUME NEW c \in Int, -(Half * Half) <= c, c <= Half * Half - 1
  PROVE  2 * c \in Word32 /\ Nearest32(2 * c) = 2 * c
<1> DEFINE F == Half * Half
           d == 2 * c
<1>1. F \in Int /\ \A z : z \in Word32 <=> z \in Int /\ -(2 * F) <= z /\ z <= 2 * F - 1
  BY LongWordsAre
<1>2. -F <= c /\ c <= F - 1
  OBVIOUS
<1> HIDE DEF F
<1>3. d \in Word32
  BY <1>1, <1>2
<1> HIDE DEF d
<1>4. Nearest32(d) = d
  BY <1>3, LongWordIsNearest
<1> QED BY <1>3, <1>4 DEF d

\* mult() of the lower word of a long word and a word: no product is too large.
LEMMA LowerProduct ==
  ASSUME NEW lo \in Word16, NEW n \in Word16, 0 <= lo
  PROVE  LET k == (lo * n) \div Half IN
         /\ mult(lo, n) = k /\ mult(n, lo) = k /\ k \in Word16 /\ k \in Int
         /\ k * Half <= lo * n /\ lo * n < k * Half + Half
         /\ (n >= 0 => k >= 0) /\ (n < 0 => -lo <= k /\ k <= 0)
<1> DEFINE F == Half * Half
           p == lo * n
           k == p \div Half
<1>1. /\ Half \in Int /\ Half >= 2 /\ MIN_16 = -Half
      /\ \A z : z \in Word16 <=> z \in Int /\ -Half <= z /\ z <= Half - 1
  BY WordsAre
<1>2. lo # MIN_16 /\ lo \in Int /\ n \in Int /\ lo <= Half - 1 /\ -Half <= n
  BY <1>1
<1>3. p \in Int /\ -(F - Half) <= p /\ p <= F - Half /\ F \in Int
  BY <1>1, <1>2, ProductsFitBelow
<1> HIDE DEF p
<1>4. k \in Int /\ k * Half <= p /\ p < k * Half + Half
  BY <1>1, <1>3, Division
<1>5. Half <= k <=> F <= p
  BY <1>1, <1>3, QuotientBound
<1>6. -Half <= k
  <2> DEFINE c == -Half
  <2>1. c \in Int /\ c * Half = -F
    BY <1>1
  <2> HIDE DEF c
  <2>2. c <= k <=> c * Half <= p
    BY <1>1, <1>3, <2>1, QuotientBound
  <2> HIDE DEF F, k
  <2>3. c <= k
    BY <1>1, <1>3, <2>1, <2>2
  <2> QED BY <2>3 DEF c
<1>7. k \in Word16
  <2> HIDE DEF F, k
  <2> QED BY <1>1, <1>3, <1>4, <1>5, <1>6
<1>8. mult(lo, n) = k /\ mult(n, lo) = k
  <2>1. mult(lo, n) = Nearest16((lo * n) \div Half) /\ mult(n, lo) = Nearest16((n * lo) \div Half)
    BY WordsMultiply
  <2>2. lo * n = p /\ n * lo = p
    BY <1>2 DEF p
  <2>3. mult(lo, n) = Nearest16(k) /\ mult(n, lo) = Nearest16(k)
    BY <2>1, <2>2
  <2> HIDE DEF k
  <2>4. Nearest16(k) = k
    BY <1>1, <1>7, WordsAre DEF Nearest16
  <2> QED BY <2>3, <2>4
<1>9. n >= 0 => k >= 0
  <2> SUFFICES ASSUME n >= 0 PROVE 0 <= k
    BY <1>4
  <2> DEFINE c == 0
  <2>1. \A x, y \in Int : x >= 0 /\ y >= 0 => x * y >= 0
    OBVIOUS
  <2>2. p >= 0
    BY <1>2, <2>1 DEF p
  <2>3. c \in Int /\ c * Half = 0
    BY <1>1
  <2> HIDE DEF c
  <2>4. c <= k <=> c * Half <= p
    BY <1>1, <1>3, <2>3, QuotientBound
  <2> QED BY <1>3, <2>2, <2>3, <2>4 DEF c
<1>10. n < 0 => -lo <= k /\ k <= 0
  <2> SUFFICES ASSUME n < 0 PROVE -lo <= k /\ k <= 0
    OBVIOUS
  <2> DEFINE c == -lo
  <2>1. \A x, y, h \in Int : x >= 0 /\ -h <= y => (-x) * h <= x * y
    <3> TAKE x, y, h \in Int
    <3>1. x >= 0 /\ y + h >= 0 => x * (y + h) >= 0
      OBVIOUS
    <3>2. x * (y + h) = x * y + x * h /\ (-x) * h = -(x * h) /\ x * y \in Int /\ x * h \in Int
      OBVIOUS
    <3> DEFINE xy == x * y
               xh == x * h
    <3> HIDE DEF xy, xh
    <3>3. x >= 0 /\ -h <= y => -xh <= xy
      BY <3>1, <3>2 DEF xy, xh
    <3> QED BY <3>2, <3>3 DEF xy, xh
  <2>2. c \in Int /\ c * Half <= p
    BY <1>1, <1>2, <2>1 DEF p
  <2> HIDE DEF c
  <2>3. c <= k
    BY <1>1, <1>3, <2>2, QuotientBound
  <2>4. p <= 0
    <3>1. \A x, y \in Int : x >= 0 /\ y < 0 => x * y <= 0
      OBVIOUS
    <3> QED BY <1>2, <3>1 DEF p
  <2>5. k <= 0
    <3> DEFINE i == 1
    <3>1. i \in Int /\ i * Half = Half
      BY <1>1
    <3> HIDE DEF i
    <3>2. i <= k <=> i * Half <= p
      BY <1>1, <1>3, <3>1, QuotientBound
    <3> HIDE DEF k
    <3>3. ~(1 <= k)
      BY <1>1, <1>3, <2>4, <3>1, <3>2 DEF i
    <3> QED BY <1>4, <3>3
  <2> QED BY <2>3, <2>5 DEF c
<1> HIDE DEF k
<1>11. /\ mult(lo, n) = k /\ mult(n, lo) = k /\ k \in Word16 /\ k \in Int
       /\ k * Half <= p /\ p < k * Half + Half
       /\ (n >= 0 => k >= 0) /\ (n < 0 => -lo <= k /\ k <= 0)
  BY <1>4, <1>7, <1>8, <1>9, <1>10
<1> QED BY <1>11 DEF k, p

\* Mpy_32_16(): twice the upper bits of the product, which are exact.
LEMMA LongByWord ==
  ASSUME NEW hi \in Word16, NEW lo \in Word16, 0 <= lo, NEW n \in Word16,
         ~(hi = MIN_16 /\ n = MIN_16)
  PROVE  Mpy_32_16(hi, lo, n) = 2 * (((hi * Half + lo) * n) \div Half)
<1> DEFINE F == Half * Half
           p == hi * n
           k == (lo * n) \div Half
           c == p + k
           v == (hi * Half + lo) * n
<1>1. /\ Half \in Int /\ Half >= 2 /\ hi \in Int /\ lo \in Int /\ n \in Int
      /\ lo <= Half - 1 /\ F \in Int
  BY WordsAre
<1>2. p \in Int /\ -(F - Half) <= p /\ p <= F - Half
  <2>1. CASE hi # MIN_16
    BY <2>1, ProductsFitBelow
  <2>2. CASE n # MIN_16
    <3>1. /\ n * hi \in Int /\ -(Half * Half - Half) <= n * hi
          /\ n * hi <= Half * Half - Half
      BY <2>2, ProductsFitBelow
    <3>2. n * hi = p
      BY <1>1
    <3> HIDE DEF p
    <3> QED BY <3>1, <3>2
  <2> QED BY <2>1, <2>2
<1>3. /\ mult(lo, n) = k /\ k \in Word16 /\ k \in Int /\ -Half <= k /\ k <= Half - 1
      /\ k * Half <= lo * n /\ lo * n < k * Half + Half
  <2>1. /\ mult(lo, n) = k /\ k \in Word16 /\ k \in Int
        /\ k * Half <= lo * n /\ lo * n < k * Half + Half
    BY LowerProduct
  <2> HIDE DEF k
  <2> QED BY <2>1, WordsAre
<1>4. v \div Half = c
  <2> DEFINE b == lo * n
             kH == k * Half
             pH == p * Half
  <2>1. b \in Int /\ kH \in Int /\ pH \in Int /\ c \in Int
    <3> HIDE DEF p, k
    <3> QED BY <1>1, <1>2, <1>3
  <2>2. v = pH + b
    <3>1. \A x, y, z, h \in Int : (x * h + y) * z = (x * z) * h + y * z
      OBVIOUS
    <3> QED BY <1>1, <3>1
  <2>3. c * Half = pH + kH
    <3>1. \A x, y, h \in Int : (x + y) * h = x * h + y * h
      OBVIOUS
    <3> HIDE DEF p, k
    <3> QED BY <1>1, <1>2, <1>3, <3>1
  <2>4. kH <= b /\ b < kH + Half
    BY <1>3
  <2> HIDE DEF v, c, pH, kH, b, p, k
  <2>5. v \in Int /\ c * Half <= v /\ v < c * Half + Half
    BY <1>1, <2>1, <2>2, <2>3, <2>4
  <2> QED BY <1>1, <2>1, <2>5, QuotientIs
<1>5. -F <= p /\ p <= F - 1 /\ -F <= c /\ c <= F - 1 /\ c \in Int
  <2> HIDE DEF F, p, k
  <2> QED BY <1>1, <1>2, <1>3
<1>6. 2 * p \in Word32 /\ Nearest32(2 * p) = 2 * p
  <2> HIDE DEF p
  <2> QED BY <1>2, <1>5, DoubleFits
<1>7. L_mult(hi, n) = 2 * p
  BY <1>6, ProductsSaturate
<1>8. L_mac(2 * p, k, 1) = Nearest32(2 * c)
  <2> HIDE DEF p, k
  <2> QED BY <1>2, <1>3, <1>6, WordIsAdded
<1>9. Nearest32(2 * c) = 2 * c
  <2> HIDE DEF c
  <2> QED BY <1>5, DoubleFits
<1>10. Mpy_32_16(hi, lo, n) = L_mac(2 * p, k, 1)
  <2> HIDE DEF p, k
  <2> QED BY <1>3, <1>7 DEF Mpy_32_16
<1>11. Mpy_32_16(hi, lo, n) = 2 * (v \div Half)
  <2> HIDE DEF v, c, p, k
  <2> QED BY <1>4, <1>8, <1>9, <1>10
<1> QED BY <1>11 DEF v

\* Mpy_32_16() of the lowest words: their product saturates, one below what it should be.
LEMMA LowestByLowest ==
  ASSUME NEW lo \in Word16, 0 <= lo
  PROVE  Mpy_32_16(MIN_16, lo, MIN_16) = 2 * (Half * Half - lo) - 1
<1> DEFINE F == Half * Half
           hi == MIN_16
           k == -lo
           e0 == 2 * F - 1
           e1 == e0 + 2 * k
<1>1. /\ Half \in Int /\ Half >= 2 /\ hi = -Half /\ hi \in Word16 /\ lo \in Int /\ lo <= Half - 1
      /\ k \in Word16
  BY WordsAre
<1>2. /\ MAX_32 = 2 * F - 1 /\ F \in Int /\ F >= 2 * Half
      /\ \A z : z \in Word32 <=> z \in Int /\ -(2 * F) <= z /\ z <= 2 * F - 1
  BY LongWordsAre
<1>3. hi * hi = F
  <2>1. \A h \in Int : (-h) * (-h) = h * h
    OBVIOUS
  <2> QED BY <1>1, <2>1
<1>4. mult(lo, hi) = k
  <2>1. (lo * hi) \div Half = k
    <3> DEFINE y == lo * hi
    <3>1. y \in Int /\ k \in Int /\ k * Half = y
      BY <1>1
    <3> HIDE DEF y, k
    <3> QED BY <1>1, <3>1, QuotientIs DEF y
  <2> QED BY <1>1, <2>1, LowerProduct
<1> HIDE DEF F, hi
<1>5. L_mult(hi, hi) = e0
  <2>1. L_mult(hi, hi) = Nearest32(2 * F)
    BY <1>1, <1>3, ProductsSaturate
  <2>2. 2 * F > MAX_32
    BY <1>2
  <2> QED BY <1>2, <2>1, <2>2 DEF Nearest32
<1>6. e0 \in Word32 /\ e1 \in Word32 /\ e1 = 2 * (F - lo) - 1
  BY <1>1, <1>2
<1>7. L_mac(e0, k, 1) = e1
  <2> HIDE DEF e0, k
  <2>1. L_mac(e0, k, 1) = Nearest32(e1)
    BY <1>1, <1>6, TwiceIsAdded
  <2> HIDE DEF e1
  <2> QED BY <1>6, <2>1, LongWordIsNearest
<1>8. Mpy_32_16(hi, lo, hi) = L_mac(L_mult(hi, hi), mult(lo, hi), 1)
  BY DEF Mpy_32_16
<1>9. Mpy_32_16(hi, lo, hi) = 2 * (F - lo) - 1
  <2> HIDE DEF e0, k, e1
  <2> QED BY <1>4, <1>5, <1>6, <1>7, <1>8
<1> QED BY <1>9 DEF hi, F

\* The lowest bit of a long word, and what it is to its half.
LEMMA LowestBit ==
  ASSUME NEW L \in Word32
  PROVE  /\ L \in Int /\ L \div 2 \in Int
         /\ -(Half * Half) <= L \div 2 /\ L \div 2 <= Half * Half - 1
         /\ \E b \in {0, 1} : L = 2 * (L \div 2) + b
<1> DEFINE F == Half * Half
           N == L \div 2
<1>1. F \in Int /\ L \in Int /\ -(2 * F) <= L /\ L <= 2 * F - 1
  BY LongWordsAre
<1> HIDE DEF F
<1>2. N \in Int /\ -F <= N /\ N <= F - 1 /\ 2 * N <= L /\ L <= 2 * N + 1
  BY <1>1
<1> HIDE DEF N
<1>3. \E b \in {0, 1} : L = 2 * N + b
  <2>1. L = 2 * N + 0 \/ L = 2 * N + 1
    BY <1>1, <1>2
  <2> QED BY <2>1
<1> QED BY <1>1, <1>2, <1>3 DEF N, F

\* The product with a word errs by two of the last bits, and mostly downwards.
LEMMA LongByWordIsClose ==
  ASSUME NEW L \in Word32, NEW n \in Word16
  PROVE  LET l == L_Extract(L) IN
         Mpy_32_16(l.hi, l.lo, n) - (L * n) \div Half \in -2 .. 1
<1> DEFINE N == L \div 2
           u == N * n
           v == L * n
           q == u \div Half
           t == v \div Half
           qH == q * Half
           tH == t * Half
           hi == L_Extract(L).hi
           lo == L_Extract(L).lo
<1>1. Half \in Int /\ Half >= 2 /\ n \in Int /\ -Half <= n /\ n <= Half - 1 /\ MIN_16 = -Half
  BY WordsAre
<1>2. L \in Int /\ N \in Int /\ \E b \in {0, 1} : L = 2 * N + b
  BY LowestBit
<1>3. hi \in Word16 /\ lo \in Word16 /\ 0 <= lo /\ hi * Half + lo = N
  BY Extracted
<1> HIDE DEF N
<1>4. ~(hi = MIN_16 /\ n = MIN_16) => Mpy_32_16(hi, lo, n) = 2 * q
  <2> HIDE DEF hi, lo
  <2> SUFFICES ASSUME ~(hi = MIN_16 /\ n = MIN_16) PROVE Mpy_32_16(hi, lo, n) = 2 * q
    OBVIOUS
  <2>1. Mpy_32_16(hi, lo, n) = 2 * (((hi * Half + lo) * n) \div Half)
    BY <1>3, LongByWord
  <2> QED BY <1>3, <2>1
<1>5. u \in Int /\ v \in Int
  BY <1>1, <1>2
<1>6. v - 2 * u >= -Half /\ v - 2 * u <= Half - 1
  <2>1. PICK b \in {0, 1} : L = 2 * N + b
    BY <1>2
  <2>2. \A x, y, z \in Int : (2 * x + y) * z = 2 * (x * z) + y * z
    OBVIOUS
  <2>3. v = 2 * u + b * n
    BY <1>1, <1>2, <2>1, <2>2
  <2>4. b * n = 0 \/ b * n = n
    BY <1>1
  <2> DEFINE bn == b * n
  <2> HIDE DEF bn, u, v
  <2> QED BY <1>1, <1>5, <2>3, <2>4 DEF bn
<1> HIDE DEF u, v
<1>7. q \in Int /\ qH <= u /\ u < qH + Half
  BY <1>1, <1>5, Division
<1>8. t \in Int /\ tH <= v /\ v < tH + Half
  BY <1>1, <1>5, Division
<1> HIDE DEF q, t
<1>9. qH \in Int /\ tH \in Int
  BY <1>1, <1>7, <1>8
<1> DEFINE e == 2 * q - t
           eH == e * Half
<1>10. e \in Int
  BY <1>7, <1>8
<1>11. eH = 2 * qH - tH
  <2>1. \A x, y, h \in Int : (2 * x - y) * h = 2 * (x * h) - y * h
    OBVIOUS
  <2> QED BY <1>1, <1>7, <1>8, <2>1
<1> HIDE DEF qH, tH, e
<1>12. eH < 2 * Half /\ eH > -(3 * Half)
  <2> HIDE DEF eH
  <2> QED BY <1>1, <1>5, <1>6, <1>7, <1>8, <1>9, <1>11
<1>13. e < 2 /\ e > -3
  <2>1. \A x, h \in Int : h >= 2 /\ x >= 2 => x * h >= 2 * h
    OBVIOUS
  <2>2. \A x, h \in Int : h >= 2 /\ x <= -3 => x * h <= -(3 * h)
    OBVIOUS
  <2>3. eH \in Int
    BY <1>1, <1>10
  <2>4. ~(e >= 2)
    <3> SUFFICES ASSUME e >= 2 PROVE FALSE
      OBVIOUS
    <3>1. eH >= 2 * Half
      BY <1>1, <1>10, <2>1
    <3> HIDE DEF eH
    <3> QED BY <1>1, <1>12, <2>3, <3>1
  <2>5. ~(e <= -3)
    <3> SUFFICES ASSUME e <= -3 PROVE FALSE
      OBVIOUS
    <3>1. eH <= -(3 * Half)
      BY <1>1, <1>10, <2>2
    <3> HIDE DEF eH
    <3> QED BY <1>1, <1>12, <2>3, <3>1
  <2> QED BY <1>10, <2>4, <2>5
<1>14. e \in -2 .. 1
  BY <1>10, <1>13
<1>15. 2 * q - t \in -2 .. 1
  BY <1>14 DEF e
<1>16. ~(hi = MIN_16 /\ n = MIN_16) => Mpy_32_16(hi, lo, n) - (L * n) \div Half \in -2 .. 1
  <2> SUFFICES ASSUME ~(hi = MIN_16 /\ n = MIN_16)
               PROVE  Mpy_32_16(hi, lo, n) - (L * n) \div Half \in -2 .. 1
    OBVIOUS
  <2>1. Mpy_32_16(hi, lo, n) - (L * n) \div Half = 2 * q - t
    BY <1>4 DEF t, v
  <2> QED BY <1>15, <2>1
<1>17. hi = MIN_16 /\ n = MIN_16 => Mpy_32_16(hi, lo, n) - (L * n) \div Half \in -2 .. 1
  <2> SUFFICES ASSUME hi = MIN_16, n = MIN_16
               PROVE  Mpy_32_16(hi, lo, n) - (L * n) \div Half \in -2 .. 1
    OBVIOUS
  <2> HIDE DEF hi, lo
  <2> DEFINE F == Half * Half
  <2>1. Mpy_32_16(hi, lo, n) = 2 * (F - lo) - 1
    BY <1>3, LowestByLowest
  <2>2. N = lo - F /\ F \in Int /\ lo \in Int
    <3>1. \A h, x \in Int : (-h) * h + x = x - h * h
      OBVIOUS
    <3>2. lo \in Int
      BY <1>3, WordsAre
    <3> QED BY <1>1, <1>3, <3>1, <3>2
  <2>3. (L * n) \div Half = -L
    <3> DEFINE y == L * n
               z == -L
    <3>1. y \in Int /\ z \in Int /\ z * Half = y
      BY <1>1, <1>2
    <3> HIDE DEF y, z
    <3>2. y \div Half = z
      BY <1>1, <3>1, QuotientIs
    <3> QED BY <3>2 DEF y, z
  <2> HIDE DEF F
  <2> QED BY <1>2, <2>1, <2>2, <2>3
<1> QED BY <1>16, <1>17 DEF hi, lo

\* A product of two numbers below h is at most that of h - 1 with itself.
LEMMA SmallProduct ==
  \A x, y, h \in Int : 0 <= x /\ x <= h - 1 /\ 0 <= y /\ y <= h - 1
    => x * y >= 0 /\ x * y <= (h * h - 2 * h) + 1
<1> TAKE x, y, h \in Int
<1> HAVE 0 <= x /\ x <= h - 1 /\ 0 <= y /\ y <= h - 1
<1>1. ((h - 1) - x) * y >= 0 /\ (h - 1) * ((h - 1) - y) >= 0 /\ x * y >= 0
  OBVIOUS
<1>2. ((h - 1) - x) * y = (h - 1) * y - x * y
  OBVIOUS
<1>3. (h - 1) * ((h - 1) - y) = ((h * h - 2 * h) + 1) - (h - 1) * y
  OBVIOUS
<1> DEFINE q == x * y
           r == (h - 1) * y
           c == h * h
<1>4. q \in Int /\ r \in Int /\ c \in Int
  OBVIOUS
<1> HIDE DEF q, r, c
<1>5. q >= 0 /\ q <= (c - 2 * h) + 1
  BY <1>1, <1>2, <1>3, <1>4 DEF q, r, c
<1> QED BY <1>5 DEF q, c

\* The sums of the products of two long words, where the first product is not too large.
LEMMA PartialSums ==
  ASSUME NEW hi1 \in Word16, NEW lo1 \in Word16, 0 <= lo1,
         NEW hi2 \in Word16, NEW lo2 \in Word16, 0 <= lo2,
         ~(hi1 = MIN_16 /\ hi2 = MIN_16)
  PROVE  LET w == hi1 * hi2
             k1 == (lo2 * hi1) \div Half
             k2 == (lo1 * hi2) \div Half
             Fitting(c) == -(Half * Half) <= c /\ c <= Half * Half - 1 IN
         Fitting(w) /\ Fitting(w + k1) /\ Fitting((w + k1) + k2)
<1> DEFINE F == Half * Half
           w == hi1 * hi2
           k1 == (lo2 * hi1) \div Half
           k2 == (lo1 * hi2) \div Half
<1>1. /\ Half \in Int /\ Half >= 2 /\ MIN_16 = -Half
      /\ hi1 \in Int /\ -Half <= hi1 /\ hi1 <= Half - 1
      /\ hi2 \in Int /\ -Half <= hi2 /\ hi2 <= Half - 1
      /\ lo1 \in Int /\ lo1 <= Half - 1 /\ lo2 \in Int /\ lo2 <= Half - 1
  BY WordsAre
<1>2. F \in Int /\ F >= 2 * Half /\ w \in Int
  BY <1>1, LongWordsAre
<1>3. -(F - Half) <= w /\ w <= F - Half
  <2>1. CASE hi1 # MIN_16
    BY <2>1, ProductsFitBelow
  <2>2. CASE hi2 # MIN_16
    <3>1. /\ hi2 * hi1 = w /\ -(Half * Half - Half) <= hi2 * hi1
          /\ hi2 * hi1 <= Half * Half - Half
      BY <1>1, <2>2, ProductsFitBelow
    <3> QED BY <3>1
  <2> QED BY <2>1, <2>2
<1>4. /\ k1 \in Word16 /\ k1 \in Int
      /\ (hi1 >= 0 => k1 >= 0) /\ (hi1 < 0 => -lo2 <= k1 /\ k1 <= 0)
  BY LowerProduct
<1>5. /\ k2 \in Word16 /\ k2 \in Int
      /\ (hi2 >= 0 => k2 >= 0) /\ (hi2 < 0 => -lo1 <= k2 /\ k2 <= 0)
  BY LowerProduct
<1> HIDE DEF k1, k2
<1>6. k1 <= Half - 1 /\ k2 <= Half - 1
  BY <1>4, <1>5, WordsAre
<1>7. CASE hi1 >= 0 /\ hi2 >= 0
  <2>2. w >= 0 /\ w <= (F - 2 * Half) + 1
    BY <1>1, <1>7, SmallProduct
  <2> HIDE DEF w, F
  <2>3. /\ -F <= w /\ w <= F - 1 /\ -F <= w + k1 /\ w + k1 <= F - 1
        /\ -F <= (w + k1) + k2 /\ (w + k1) + k2 <= F - 1
    BY <1>1, <1>2, <1>4, <1>5, <1>6, <1>7, <2>2
  <2> QED BY <2>3 DEF w, F, k1, k2
<1>8. CASE hi1 < 0 /\ hi2 < 0
  <2>1. w >= 1
    <3>1. \A x, y \in Int : x < 0 /\ y < 0 => x * y >= 1
      OBVIOUS
    <3> QED BY <1>1, <1>8, <3>1
  <2> HIDE DEF w, F
  <2>2. /\ -F <= w /\ w <= F - 1 /\ -F <= w + k1 /\ w + k1 <= F - 1
        /\ -F <= (w + k1) + k2 /\ (w + k1) + k2 <= F - 1
    BY <1>1, <1>2, <1>3, <1>4, <1>5, <1>6, <1>8, <2>1
  <2> QED BY <2>2 DEF w, F, k1, k2
<1>9. CASE (hi1 < 0 /\ hi2 >= 0) \/ (hi1 >= 0 /\ hi2 < 0)
  <2>1. w <= 0
    <3>1. \A x, y \in Int : (x < 0 /\ y >= 0) \/ (x >= 0 /\ y < 0) => x * y <= 0
      OBVIOUS
    <3> QED BY <1>1, <1>9, <3>1
  <2> HIDE DEF w, F
  <2>2. /\ -F <= w /\ w <= F - 1 /\ -F <= w + k1 /\ w + k1 <= F - 1
        /\ -F <= (w + k1) + k2 /\ (w + k1) + k2 <= F - 1
    BY <1>1, <1>2, <1>3, <1>4, <1>5, <1>6, <1>9, <2>1
  <2> QED BY <2>2 DEF w, F, k1, k2
<1> QED BY <1>1, <1>7, <1>8, <1>9

\* How much of a product of long words its three partial products are.
LEMMA ThreeProducts ==
  ASSUME NEW hi1 \in Word16, NEW lo1 \in Word16, 0 <= lo1,
         NEW hi2 \in Word16, NEW lo2 \in Word16, 0 <= lo2
  PROVE  LET F == Half * Half
             V == (hi1 * Half + lo1) * (hi2 * Half + lo2)
             k1 == (lo2 * hi1) \div Half
             k2 == (lo1 * hi2) \div Half
             FP == F * ((hi1 * hi2 + k1) + k2) IN
         FP <= V /\ V <= FP + (3 * F - (4 * Half - 1))
<1> DEFINE F == Half * Half
           V == (hi1 * Half + lo1) * (hi2 * Half + lo2)
           w == hi1 * hi2
           a == lo2 * hi1
           b == lo1 * hi2
           j == lo1 * lo2
           k1 == a \div Half
           k2 == b \div Half
           P == (w + k1) + k2
<1>1. /\ Half \in Int /\ Half >= 2 /\ hi1 \in Int /\ hi2 \in Int
      /\ lo1 \in Int /\ lo1 <= Half - 1 /\ lo2 \in Int /\ lo2 <= Half - 1
  BY WordsAre
<1>2. w \in Int /\ a \in Int /\ b \in Int /\ j \in Int /\ F \in Int
  BY <1>1
<1> DEFINE e1 == a - k1 * Half
           e2 == b - k2 * Half
<1>3. k1 \in Int /\ k1 * Half <= a /\ a < k1 * Half + Half
  BY LowerProduct
<1>4. k2 \in Int /\ k2 * Half <= b /\ b < k2 * Half + Half
  BY LowerProduct
<1>5. V = F * w + Half * (a + b) + j
  <2>1. \A x, y, z, t, h \in Int :
          (x * h + y) * (z * h + t) = (h * h) * (x * z) + h * (t * x + y * z) + y * t
    OBVIOUS
  <2> QED BY <1>1, <2>1
<1> HIDE DEF k1, k2
<1>6. e1 \in Int /\ 0 <= e1 /\ e1 <= Half - 1 /\ a = k1 * Half + e1
  <2> HIDE DEF a
  <2> DEFINE k == k1 * Half
  <2>1. k \in Int
    BY <1>1, <1>3
  <2> HIDE DEF k
  <2> QED BY <1>1, <1>2, <1>3, <2>1 DEF k
<1>7. e2 \in Int /\ 0 <= e2 /\ e2 <= Half - 1 /\ b = k2 * Half + e2
  <2> HIDE DEF b
  <2> DEFINE k == k2 * Half
  <2>1. k \in Int
    BY <1>1, <1>4
  <2> HIDE DEF k
  <2> QED BY <1>1, <1>2, <1>4, <2>1 DEF k
<1> HIDE DEF e1, e2
<1>8. V = F * P + Half * (e1 + e2) + j
  <2> HIDE DEF V, a, b, w, j
  <2>1. \A h, x, y, z, s, t : /\ h \in Int /\ x \in Int /\ y \in Int /\ z \in Int
                              /\ s \in Int /\ t \in Int
          => (h * h) * x + h * ((y * h + s) + (z * h + t))
               = (h * h) * ((x + y) + z) + h * (s + t)
    OBVIOUS
  <2>2. F * w + Half * (a + b) = F * P + Half * (e1 + e2)
    BY <1>1, <1>2, <1>3, <1>4, <1>6, <1>7, <2>1
  <2> QED BY <1>5, <2>2
<1>9. 0 <= Half * (e1 + e2) /\ Half * (e1 + e2) <= 2 * F - 2 * Half /\ Half * (e1 + e2) \in Int
  <2> DEFINE e == e1 + e2
  <2>1. e \in Int /\ 0 <= e /\ e <= 2 * Half - 2
    BY <1>1, <1>6, <1>7
  <2> HIDE DEF e
  <2>2. \A h, x \in Int : h >= 0 /\ x >= 0 => h * x >= 0
    OBVIOUS
  <2>3. \A h, x, y \in Int : h >= 0 /\ x <= y => h * x <= h * y
    OBVIOUS
  <2>4. Half * (2 * Half - 2) = 2 * F - 2 * Half
    <3>1. \A h \in Int : h * (2 * h - 2) = 2 * (h * h) - 2 * h
      OBVIOUS
    <3> QED BY <1>1, <3>1
  <2>5. Half * e <= Half * (2 * Half - 2)
    BY <1>1, <2>1, <2>3
  <2>6. 0 <= Half * e /\ Half * e \in Int
    BY <1>1, <2>1, <2>2
  <2> QED BY <2>4, <2>5, <2>6 DEF e
<1>10. 0 <= j /\ j <= (F - 2 * Half) + 1
  BY <1>1, SmallProduct
<1> DEFINE FP == F * P
           d == Half * (e1 + e2)
<1>11. P \in Int /\ FP \in Int
  <2>1. P \in Int
    <3> HIDE DEF w
    <3> QED BY <1>2, <1>3, <1>4
  <2> HIDE DEF P
  <2> QED BY <1>2, <2>1
<1> HIDE DEF V, FP, d, j, F, P
<1>12. FP <= V /\ V <= FP + (3 * F - (4 * Half - 1))
  BY <1>1, <1>2, <1>8, <1>9, <1>10, <1>11 DEF FP, d
<1> QED BY <1>12 DEF FP, V, F, P, w, k1, k2, a, b

\* Mpy_32(): twice the partial products, but for the square of the lowest upper word.
LEMMA LongByLong ==
  ASSUME NEW hi1 \in Word16, NEW lo1 \in Word16, 0 <= lo1,
         NEW hi2 \in Word16, NEW lo2 \in Word16, 0 <= lo2
  PROVE  LET F == Half * Half
             V == (hi1 * Half + lo1) * (hi2 * Half + lo2)
             r == Mpy_32(hi1, lo1, hi2, lo2) IN
         \E P \in Int :
           /\ F * P \in Int /\ F * P <= V /\ (hi1 >= 0 /\ hi2 >= 0 => P >= 0)
           /\ \/ r = 2 * P /\ V <= F * P + (3 * F - (4 * Half - 1))
              \/ hi1 = MIN_16 /\ hi2 = MIN_16 /\ r = 2 * P - 1 /\ V <= F * P + F
<1> DEFINE F == Half * Half
           V == (hi1 * Half + lo1) * (hi2 * Half + lo2)
           r == Mpy_32(hi1, lo1, hi2, lo2)
           w == hi1 * hi2
           k1 == (lo2 * hi1) \div Half
           k2 == (lo1 * hi2) \div Half
           c == w + k1
           P == c + k2
           FP == F * P
<1>1. /\ Half \in Int /\ Half >= 2 /\ MIN_16 = -Half /\ hi1 \in Int /\ hi2 \in Int
      /\ lo1 \in Int /\ lo1 <= Half - 1 /\ lo2 \in Int /\ lo2 <= Half - 1
  BY WordsAre
<1>2. F \in Int /\ w \in Int
  BY <1>1
<1>3. mult(hi1, lo2) = k1 /\ k1 \in Word16 /\ k1 \in Int
  BY LowerProduct
<1>4. mult(lo1, hi2) = k2 /\ k2 \in Word16 /\ k2 \in Int
  BY LowerProduct
<1>5. FP <= V /\ V <= FP + (3 * F - (4 * Half - 1))
  BY ThreeProducts
<1>6. r = L_mac(L_mac(L_mult(hi1, hi2), k1, 1), k2, 1)
  BY <1>3, <1>4 DEF Mpy_32
<1>7. ~(hi1 = MIN_16 /\ hi2 = MIN_16) =>
        /\ -F <= w /\ w <= F - 1 /\ -F <= c /\ c <= F - 1 /\ -F <= P /\ P <= F - 1
  BY PartialSums
<1>8. (hi1 = MIN_16 /\ hi2 = MIN_16) => w = F /\ k1 = -lo2 /\ k2 = -lo1
  <2> SUFFICES ASSUME hi1 = MIN_16, hi2 = MIN_16 PROVE w = F /\ k1 = -lo2 /\ k2 = -lo1
    OBVIOUS
  <2>1. w = F
    <3>1. \A h \in Int : (-h) * (-h) = h * h
      OBVIOUS
    <3>2. hi1 = -Half /\ hi2 = -Half
      BY <1>1
    <3> QED BY <1>1, <3>1, <3>2
  <2>2. ASSUME NEW x \in Int PROVE (x * (-Half)) \div Half = -x
    <3> DEFINE y == x * (-Half)
               z == -x
    <3>1. z \in Int /\ y \in Int /\ z * Half = y
      BY <1>1
    <3> HIDE DEF y, z
    <3>2. y \div Half = z
      BY <1>1, <3>1, QuotientIs
    <3> QED BY <3>2 DEF y, z
  <2>3. k1 = -lo2 /\ k2 = -lo1
    BY <1>1, <2>2
  <2> QED BY <2>1, <2>3
<1>13. hi1 >= 0 /\ hi2 >= 0 => P >= 0
  <2>1. \A x, y \in Int : x >= 0 /\ y >= 0 => x * y >= 0
    OBVIOUS
  <2>2. hi1 >= 0 /\ hi2 >= 0 => w >= 0
    BY <1>1, <2>1
  <2>3. hi1 >= 0 => k1 >= 0
    BY LowerProduct
  <2>4. hi2 >= 0 => k2 >= 0
    BY LowerProduct
  <2> HIDE DEF w, k1, k2
  <2> QED BY <1>2, <1>3, <1>4, <2>2, <2>3, <2>4
<1> HIDE DEF k1, k2, w, F
<1>9. c \in Int /\ P \in Int
  BY <1>2, <1>3, <1>4
<1>10. FP \in Int
  <2> HIDE DEF P
  <2> QED BY <1>2, <1>9
<1>11. CASE ~(hi1 = MIN_16 /\ hi2 = MIN_16)
  <2>1. 2 * w \in Word32 /\ Nearest32(2 * w) = 2 * w
    BY <1>2, <1>7, <1>11, DoubleFits DEF F
  <2>2. L_mult(hi1, hi2) = 2 * w
    BY <2>1, ProductsSaturate DEF w
  <2>3. 2 * c \in Word32 /\ Nearest32(2 * c) = 2 * c
    <3> HIDE DEF c
    <3> QED BY <1>7, <1>9, <1>11, DoubleFits DEF F
  <2>4. L_mac(2 * w, k1, 1) = 2 * c
    BY <1>2, <1>3, <2>1, <2>3, WordIsAdded
  <2>5. Nearest32(2 * P) = 2 * P
    <3> HIDE DEF P
    <3> QED BY <1>7, <1>9, <1>11, DoubleFits DEF F
  <2>6. L_mac(2 * c, k2, 1) = 2 * P
    <3> HIDE DEF c
    <3>1. L_mac(2 * c, k2, 1) = Nearest32(2 * P)
      BY <1>4, <1>9, <2>3, WordIsAdded
    <3> QED BY <2>5, <3>1
  <2>7. r = 2 * P
    <3> HIDE DEF c, P, r
    <3> QED BY <1>6, <2>2, <2>4, <2>6
  <2> HIDE DEF P, V, r
  <2>8. /\ F * P \in Int /\ F * P <= V /\ (hi1 >= 0 /\ hi2 >= 0 => P >= 0)
        /\ r = 2 * P /\ V <= F * P + (3 * F - (4 * Half - 1))
    BY <1>13, <1>5, <1>10, <2>7
  <2> QED BY <1>9, <2>8 DEF F, V, r
<1>12. CASE hi1 = MIN_16 /\ hi2 = MIN_16
  <2>1. /\ MAX_32 = 2 * F - 1 /\ MIN_32 = -(2 * F) /\ F >= 2 * Half
        /\ \A z : z \in Word32 <=> z \in Int /\ -(2 * F) <= z /\ z <= 2 * F - 1
    BY LongWordsAre DEF F
  <2> DEFINE e0 == 2 * F - 1
             e1 == e0 + 2 * k1
             e2 == e1 + 2 * k2
  <2>2. e0 \in Word32 /\ e1 \in Word32 /\ e2 \in Word32
    <3>1. w = F /\ -Half < k1 /\ k1 <= 0 /\ -Half < k2 /\ k2 <= 0
      BY <1>1, <1>8, <1>12
    <3>2. e0 \in Int /\ e1 \in Int /\ e2 \in Int
      BY <1>2, <1>3, <1>4
    <3>3. e2 <= e1 /\ e1 <= e0 /\ -(2 * F) <= e2
      BY <1>1, <1>2, <1>3, <1>4, <2>1, <3>1
    <3> HIDE DEF e1, e2
    <3> QED BY <1>2, <2>1, <3>2, <3>3
  <2>3. L_mult(hi1, hi2) = e0
    <3>1. 2 * w > MAX_32
      BY <1>2, <1>8, <1>12, <2>1
    <3>2. L_mult(hi1, hi2) = Nearest32(2 * w)
      BY ProductsSaturate DEF w
    <3> QED BY <2>1, <3>1, <3>2 DEF Nearest32
  <2>4. L_mac(e0, k1, 1) = e1
    <3> HIDE DEF e0
    <3>1. L_mac(e0, k1, 1) = Nearest32(e1)
      BY <1>3, <2>2, TwiceIsAdded
    <3> HIDE DEF e1
    <3> QED BY <2>2, <3>1, LongWordIsNearest
  <2>5. L_mac(e1, k2, 1) = e2
    <3> HIDE DEF e1
    <3>1. L_mac(e1, k2, 1) = Nearest32(e2)
      BY <1>4, <2>2, TwiceIsAdded
    <3> HIDE DEF e2
    <3> QED BY <2>2, <3>1, LongWordIsNearest
  <2>6. e2 = 2 * P - 1
    BY <1>2, <1>3, <1>4, <1>8, <1>12
  <2>7. r = 2 * P - 1
    <3> HIDE DEF e0, e1, e2, P, r
    <3> QED BY <1>6, <2>3, <2>4, <2>5, <2>6
  <2>8. V <= FP + F
    <3> DEFINE j == lo1 * lo2
    <3>1. j \in Int /\ j <= (F - 2 * Half) + 1
      BY <1>1, SmallProduct DEF F
    <3>2. V = FP + j
      <4>1. \A h, x, y \in Int : ((-h) * h + x) * ((-h) * h + y)
                                   = (h * h) * (((h * h) + (-y)) + (-x)) + x * y
        OBVIOUS
      <4>2. P = (F + (-lo2)) + (-lo1)
        BY <1>8, <1>12
      <4> HIDE DEF P
      <4>3. V = ((-Half) * Half + lo1) * ((-Half) * Half + lo2)
        BY <1>1, <1>12
      <4>4. FP = (Half * Half) * (((Half * Half) + (-lo2)) + (-lo1))
        BY <4>2 DEF F
      <4> HIDE DEF V, FP
      <4> QED BY <1>1, <4>1, <4>3, <4>4
    <3> HIDE DEF V, FP, j
    <3> QED BY <1>1, <1>2, <1>10, <3>1, <3>2
  <2> HIDE DEF P, V, r
  <2>9. /\ F * P \in Int /\ F * P <= V /\ (hi1 >= 0 /\ hi2 >= 0 => P >= 0)
        /\ r = 2 * P - 1 /\ V <= F * P + F
    BY <1>13, <1>5, <1>10, <2>7, <2>8
  <2> QED BY <1>9, <1>12, <2>9 DEF F, V, r
<1> QED BY <1>11, <1>12

\* The product of two long words errs by seven of the last bits, and mostly downwards.
LEMMA LongByLongIsClose ==
  ASSUME NEW L \in Word32, NEW M \in Word32
  PROVE  LET l == L_Extract(L)
             m == L_Extract(M) IN
         Mpy_32(l.hi, l.lo, m.hi, m.lo) - (L * M) \div (2 * Half * Half) \in -7 .. 2
<1> DEFINE F == Half * Half
           y == 2 * F
           N == L \div 2
           R == M \div 2
           V == N * R
           v == L * M
           t == v \div y
           hi1 == L_Extract(L).hi
           lo1 == L_Extract(L).lo
           hi2 == L_Extract(M).hi
           lo2 == L_Extract(M).lo
           r == Mpy_32(hi1, lo1, hi2, lo2)
<1>1. Half \in Int /\ Half >= 2 /\ F \in Int /\ F >= 4 /\ F >= 2 * Half
  BY WordsAre, LongWordsAre
<1>2. L \in Int /\ N \in Int /\ -F <= N /\ N <= F - 1 /\ \E b \in {0, 1} : L = 2 * N + b
  BY LowestBit
<1>3. M \in Int /\ R \in Int /\ -F <= R /\ R <= F - 1 /\ \E b \in {0, 1} : M = 2 * R + b
  BY LowestBit
<1>4. hi1 \in Word16 /\ lo1 \in Word16 /\ 0 <= lo1 /\ hi1 * Half + lo1 = N
  BY Extracted
<1>5. hi2 \in Word16 /\ lo2 \in Word16 /\ 0 <= lo2 /\ hi2 * Half + lo2 = R
  BY Extracted
<1>6. y \in Int /\ y > 0 /\ y = 2 * Half * Half
  <2>1. \A h \in Int : 2 * h * h = 2 * (h * h)
    OBVIOUS
  <2>2. y = 2 * Half * Half
    BY <1>1, <2>1
  <2> HIDE DEF F
  <2> QED BY <1>1, <2>2
<1> HIDE DEF N, R
\* What the lowest bits contribute to the product.
<1> DEFINE c == v - 4 * V
<1>7. V \in Int /\ v \in Int /\ c \in Int /\ v = 4 * V + c
  <2>1. V \in Int /\ v \in Int
    BY <1>2, <1>3
  <2> HIDE DEF V, v
  <2> QED BY <2>1
<1>8. -(4 * F) < c /\ c <= 4 * F - 3
  <2>1. PICK a \in {0, 1} : L = 2 * N + a
    BY <1>2
  <2>2. PICK b \in {0, 1} : M = 2 * R + b
    BY <1>3
  <2>3. a \in Int /\ b \in Int
    OBVIOUS
  <2>4. v = 4 * V + (2 * (N * b) + 2 * (R * a) + a * b)
    <3>1. \A x, z, p, q \in Int :
            (2 * x + p) * (2 * z + q) = 4 * (x * z) + (2 * (x * q) + 2 * (z * p) + p * q)
      OBVIOUS
    <3>2. (2 * N + a) * (2 * R + b) = v
      BY <2>1, <2>2
    <3>3. (2 * N + a) * (2 * R + b) = 4 * V + (2 * (N * b) + 2 * (R * a) + a * b)
      BY <1>2, <1>3, <2>3, <3>1
    <3> QED BY <3>2, <3>3
  <2>5. N * b \in Int /\ R * a \in Int /\ a * b \in Int
    BY <1>2, <1>3, <2>3
  <2>6. c = 2 * (N * b) + 2 * (R * a) + a * b
    <3> DEFINE d == 2 * (N * b) + 2 * (R * a) + a * b
    <3>1. d \in Int /\ v = 4 * V + d
      BY <2>4, <2>5
    <3> HIDE DEF d, v, V
    <3>2. c = d
      BY <1>7, <3>1
    <3> QED BY <3>2 DEF d
  <2>7. a = 0 => R * a = 0 /\ a * b = 0
    BY <1>3, <2>3
  <2>8. b = 0 => N * b = 0 /\ a * b = 0
    BY <1>2, <2>3
  <2>9. a = 1 => R * a = R /\ a * b = b
    BY <1>3, <2>3
  <2>10. b = 1 => N * b = N
    BY <1>2
  <2> DEFINE Nb == N * b
             Ra == R * a
             ab == a * b
  <2> HIDE DEF Nb, Ra, ab, c, F
  <2>11. c = 2 * Nb + 2 * Ra + ab
    BY <2>6 DEF Nb, Ra, ab
  <2>12. Nb = 0 \/ Nb = N
    BY <2>8, <2>10 DEF Nb
  <2>13. Ra = 0 \/ Ra = R
    BY <2>7, <2>9 DEF Ra
  <2>14. ab = 0 \/ (ab = 1 /\ a = 1 /\ b = 1)
    BY <2>7, <2>8, <2>9 DEF ab
  <2>15. ab = 1 => Nb = N /\ Ra = R
    BY <2>9, <2>10, <2>14 DEF Nb, Ra
  \* A number whose lowest bit is set is not the lowest, so -F is not its half with that bit 0.
  <2>16. (Nb = N /\ N = -F /\ Ra = R /\ R = -F) => ab = 1 \/ F = 0
    <3> SUFFICES ASSUME Nb = N, N = -F, Ra = R, R = -F, F # 0 PROVE ab = 1
      OBVIOUS
    <3>1. a = 1 /\ b = 1
      <4>1. a # 0
        BY <1>1, <2>7 DEF Ra
      <4>2. b # 0
        BY <1>1, <2>8 DEF Nb
      <4> QED BY <4>1, <4>2
    <3> QED BY <2>9, <3>1 DEF ab
  <2> QED BY <1>1, <1>2, <1>3, <2>11, <2>12, <2>13, <2>14, <2>15, <2>16
<1> HIDE DEF V, v, c
<1>9. PICK P \in Int :
        /\ F * P \in Int /\ F * P <= V
        /\ \/ r = 2 * P /\ V <= F * P + (3 * F - (4 * Half - 1))
           \/ hi1 = MIN_16 /\ hi2 = MIN_16 /\ r = 2 * P - 1 /\ V <= F * P + F
  <2> HIDE DEF hi1, lo1, hi2, lo2, F, r
  <2>1. (hi1 * Half + lo1) * (hi2 * Half + lo2) = V
    BY <1>4, <1>5 DEF V
  <2> QED BY <1>4, <1>5, <2>1, LongByLong DEF F, r
<1> HIDE DEF y
<1>10. t \in Int /\ t * y <= v /\ v < t * y + y
  BY <1>6, <1>7, Division
<1> HIDE DEF t
<1> DEFINE FP == F * P
           ty == t * y
           e == 2 * P - t
           ey == e * y
<1>11. ey = 4 * FP - ty /\ FP \in Int /\ ty \in Int /\ ey \in Int /\ e \in Int
  <2> HIDE DEF F
  <2>1. y = 2 * F
    BY DEF y
  <2>2. \A x, z, h \in Int : (2 * x - z) * (2 * h) = 4 * (h * x) - z * (2 * h)
    OBVIOUS
  <2>3. e \in Int
    BY <1>10
  <2>4. ey = 4 * FP - ty
    BY <1>1, <1>10, <2>1, <2>2
  <2>5. ty \in Int
    BY <1>6, <1>10
  <2> HIDE DEF ty, FP
  <2> QED BY <1>9, <2>3, <2>4, <2>5 DEF FP
<1>12. y = 2 * F
  BY DEF y
<1> HIDE DEF F, FP, ty, hi1, hi2, r
<1>13. \A k \in Int : e >= k => ey >= k * y
  <2>1. \A x, k, h \in Int : h > 0 /\ x >= k => x * h >= k * h
    OBVIOUS
  <2> HIDE DEF e
  <2> QED BY <1>6, <1>11, <2>1
<1>14. \A k \in Int : e <= k => ey <= k * y
  <2>1. \A x, k, h \in Int : h > 0 /\ x <= k => x * h <= k * h
    OBVIOUS
  <2> HIDE DEF e
  <2> QED BY <1>6, <1>11, <2>1
<1> HIDE DEF e, ey
<1>15. e <= 2
  <2>1. ey < 6 * F
    BY <1>1, <1>7, <1>8, <1>9, <1>10, <1>11, <1>12 DEF FP, ty
  <2>2. ~(e >= 3)
    <3>1. e >= 3 => ey >= 3 * y
      BY <1>13
    <3> QED BY <1>1, <1>11, <1>12, <2>1, <3>1
  <2> QED BY <1>11, <2>2
<1>16. r = 2 * P /\ V <= FP + (3 * F - (4 * Half - 1)) => e >= -7
  <2> SUFFICES ASSUME V <= FP + (3 * F - (4 * Half - 1)) PROVE e >= -7
    OBVIOUS
  <2>1. ey > -(16 * F)
    BY <1>1, <1>7, <1>8, <1>10, <1>11, <1>12 DEF ty
  <2>2. ~(e <= -8)
    <3> DEFINE k == -8
    <3>1. k \in Int /\ k * y = -(16 * F)
      BY <1>1, <1>12
    <3> HIDE DEF k
    <3>2. e <= k => ey <= k * y
      BY <1>14, <3>1
    <3> QED BY <1>1, <1>11, <2>1, <3>1, <3>2 DEF k
  <2> QED BY <1>11, <2>2
<1>17. V <= FP + F => e >= -6
  <2> SUFFICES ASSUME V <= FP + F PROVE e >= -6
    OBVIOUS
  <2>1. ey > -(14 * F)
    BY <1>1, <1>7, <1>8, <1>10, <1>11, <1>12 DEF ty
  <2>2. ~(e <= -7)
    <3> DEFINE k == -7
    <3>1. k \in Int /\ k * y = -(14 * F)
      BY <1>1, <1>12
    <3> HIDE DEF k
    <3>2. e <= k => ey <= k * y
      BY <1>14, <3>1
    <3> QED BY <1>1, <1>11, <2>1, <3>1, <3>2 DEF k
  <2> QED BY <1>11, <2>2
<1>18. r - t \in -7 .. 2
  <2>1. CASE r = 2 * P /\ V <= FP + (3 * F - (4 * Half - 1))
    <3>1. r - t = e
      BY <2>1 DEF e
    <3> QED BY <1>11, <1>15, <1>16, <2>1, <3>1
  <2>2. CASE r = 2 * P - 1 /\ V <= FP + F
    <3>1. r - t = e - 1
      BY <1>10, <2>2 DEF e
    <3> QED BY <1>11, <1>15, <1>17, <2>2, <3>1
  <2> QED BY <1>9, <2>1, <2>2 DEF FP
<1>19. t = (L * M) \div (2 * Half * Half)
  BY <1>6 DEF t, v
<1> QED BY <1>18, <1>19 DEF r, hi1, lo1, hi2, lo2

-----------------------------------------------------------------------------
(* The quotient of long words.                                             *)

\* A positive factor does not change an order.
LEMMA Monotone ==
  \A x, y, h \in Int : h > 0 => (x <= y <=> x * h <= y * h) /\ (x < y <=> x * h < y * h)
<1> TAKE x, y, h \in Int
<1> HAVE h > 0
<1>1. x <= y => x * h <= y * h
  OBVIOUS
<1>2. x < y => x * h < y * h
  OBVIOUS
<1>3. y <= x => y * h <= x * h
  OBVIOUS
<1>4. y < x => y * h < x * h
  OBVIOUS
<1> DEFINE xh == x * h
           yh == y * h
<1>5. xh \in Int /\ yh \in Int
  OBVIOUS
<1> HIDE DEF xh, yh
<1>6. (x <= y <=> xh <= yh) /\ (x < y <=> xh < yh)
  BY <1>1, <1>2, <1>3, <1>4, <1>5 DEF xh, yh
<1> QED BY <1>6 DEF xh, yh

\* A factor that is not negative keeps an order.
LEMMA WeaklyMonotone ==
  \A x, y, h \in Int : h >= 0 /\ x <= y => x * h <= y * h
OBVIOUS

\* One step of the iteration for the inverse of D: a is the approximation, too small by d / D,
\* y what it makes of D, E what is left of 1, and I the next approximation.
InverseStep(g, H, F, D, a, d, y, E, I) ==
  /\ g > 0 /\ H = 2 * g /\ F = H * H /\ 0 < D /\ D < F /\ 0 <= a
  /\ a * D = g * F - d /\ 0 < d /\ d <= F + D
  /\ y * H <= D * a /\ D * a < y * H + H /\ E = (F - 1) - y
  /\ I * H <= E * a /\ E * a < I * H + H

\* From an approximation a of the inverse of D, too small by d / D, one step of the iteration
\* gives I: it is too small as well, and by the square of the error only.
LEMMA InverseIsClose ==
  ASSUME NEW g \in Int, NEW H \in Int, NEW F \in Int, NEW D \in Int, NEW a \in Int, NEW d \in Int,
         NEW y \in Int, NEW E \in Int, NEW I \in Int,
         InverseStep(g, H, F, D, a, d, y, E, I)
  PROVE  /\ 4 * (I * D) < F * F
         /\ 4 * (I * D) > F * F - (6 * F + 16 * D)
<1>0. /\ g > 0 /\ H = 2 * g /\ F = H * H /\ 0 < D /\ D < F /\ 0 <= a
      /\ a * D = g * F - d /\ 0 < d /\ d <= F + D
      /\ y * H <= D * a /\ D * a < y * H + H /\ E = (F - 1) - y
      /\ I * H <= E * a /\ E * a < I * H + H
  BY DEF InverseStep
<1> USE <1>0
<1> DEFINE aD == a * D
           gF == g * F
           yH == y * H
           EH == E * H
           Ea == E * a
           IH == I * H
           gg == g * g
           dd == d * d
           ID == I * D
           FF == F * F
           hi == gF + d
           low == hi - H
\* The sizes.
<1>1. /\ aD \in Int /\ gF \in Int /\ yH \in Int /\ EH \in Int /\ Ea \in Int /\ IH \in Int
      /\ gg \in Int /\ dd \in Int /\ ID \in Int /\ FF \in Int /\ H > 0
  OBVIOUS
<1>2. F = 4 * gg /\ F * H = 2 * gF /\ H * g = 2 * gg /\ F > 0
  <2>1. \A x \in Int : (2 * x) * (2 * x) = 4 * (x * x) /\ (2 * x) * x = 2 * (x * x)
    OBVIOUS
  <2>2. \A x, z \in Int : z * (2 * x) = 2 * (x * z)
    OBVIOUS
  <2> QED BY <2>1, <2>2
<1>3. EH = 2 * gF - H - yH
  <2>1. \A x, z, h \in Int : ((x - 1) - z) * h = x * h - h - z * h
    OBVIOUS
  <2> QED BY <1>2, <2>1
<1>4. aD = gF - d /\ yH <= aD /\ aD < yH + H
  <2>1. D * a = aD
    OBVIOUS
  <2> QED BY <2>1
<1>5. EH < hi /\ low <= EH /\ hi \in Int /\ low \in Int
  <2> HIDE DEF EH, gF, yH, aD
  <2> QED BY <1>1, <1>3, <1>4
<1>6. Ea * H = EH * a
  <2>1. \A x, z, h \in Int : (x * z) * h = (x * h) * z
    OBVIOUS
  <2> QED BY <2>1
<1>7. IH * H = I * F
  <2>1. \A x, h \in Int : (x * h) * h = x * (h * h)
    OBVIOUS
  <2> QED BY <2>1
<1>8. (I * F) * D = F * ID
  <2>1. \A x, z, h \in Int : (x * z) * h = z * (x * h)
    OBVIOUS
  <2> QED BY <2>1
<1>9. hi * aD = F * (gg * F) - dd
  <2>1. \A x, z, u \in Int : (x * z + u) * (x * z - u) = z * ((x * x) * z) - u * u
    OBVIOUS
  <2> HIDE DEF aD
  <2> QED BY <1>4, <2>1
<1>10. 4 * (gg * F) = FF
  <2>1. \A x, z \in Int : 4 * (x * z) = (4 * x) * z
    OBVIOUS
  <2> HIDE DEF gg
  <2>2. 4 * (gg * F) = (4 * gg) * F
    BY <1>1, <2>1
  <2> QED BY <1>2, <2>2
\* From above.
<1>11. F * ID <= hi * aD
  <2> DEFINE IF1 == I * F
             EaH == Ea * H
             z == hi * a
  <2>1. IF1 <= EaH
    <3> HIDE DEF IH, Ea
    <3>1. IH * H <= Ea * H
      BY <1>1, WeaklyMonotone DEF IH, Ea
    <3> QED BY <1>7, <3>1
  <2>2. EaH <= z
    <3> HIDE DEF EH, hi, Ea
    <3>1. EH * a <= hi * a
      BY <1>1, <1>5, WeaklyMonotone
    <3> QED BY <1>6, <3>1
  <2>3. IF1 \in Int /\ EaH \in Int /\ z \in Int
    <3> HIDE DEF hi, Ea
    <3> QED BY <1>1, <1>5
  <2>4. IF1 * D <= z * D
    <3> HIDE DEF IF1, EaH, z
    <3>1. IF1 <= z
      BY <2>1, <2>2, <2>3
    <3> QED BY <2>3, <3>1, WeaklyMonotone
  <2>5. z * D = hi * aD
    <3>1. \A p, q, r \in Int : (p * q) * r = p * (q * r)
      OBVIOUS
    <3> HIDE DEF hi
    <3> QED BY <1>5, <3>1
  <2> HIDE DEF ID, hi, aD, z
  <2> QED BY <1>8, <2>4, <2>5
<1>12. dd > 0
  <2>1. \A x \in Int : x > 0 => x * x > 0
    OBVIOUS
  <2> QED BY <2>1
<1>13. ID < gg * F
  <2> DEFINE x == F * ID
             z == F * (gg * F)
             w == hi * aD
  <2>1. x \in Int /\ z \in Int /\ w \in Int
    <3>1. gg * F \in Int
      BY <1>1
    <3> HIDE DEF ID, gg, hi, aD
    <3> QED BY <1>1, <1>5, <3>1
  <2>2. x < z
    <3> HIDE DEF x, z, w, dd
    <3> QED BY <1>1, <1>9, <1>11, <1>12, <2>1 DEF x, z, w
  <2> DEFINE q == gg * F
  <2>3. q \in Int
    BY <1>1
  <2> HIDE DEF ID, q
  <2>4. ID * F < q * F
    <3>1. ID * F = F * ID /\ q * F = F * q
      BY <1>1, <2>3
    <3> QED BY <2>2, <3>1 DEF q
  <2> QED BY <1>1, <1>2, <2>3, <2>4, Monotone DEF q
<1>14. 4 * ID < FF
  <2> DEFINE q == gg * F
  <2>1. q \in Int
    BY <1>1
  <2> HIDE DEF ID, q, FF
  <2> QED BY <1>1, <1>10, <1>13, <2>1 DEF q
\* From below.
<1>15. dd <= FF + 3 * (F * D)
  <2> DEFINE s == F + D
             FD == F * D
             DD == D * D
  <2>1. d * d <= s * s
    <3>1. \A p, q \in Int : 0 < p /\ p <= q => p * p <= q * q
      <4> TAKE p, q \in Int
      <4> HAVE 0 < p /\ p <= q
      <4>1. p * p <= q * p /\ q * p <= q * q
        OBVIOUS
      <4>2. p * p \in Int /\ q * p \in Int /\ q * q \in Int
        OBVIOUS
      <4> DEFINE pp == p * p
                 qp == q * p
                 qq == q * q
      <4> HIDE DEF pp, qp, qq
      <4>3. pp <= qq
        BY <4>1, <4>2 DEF pp, qp, qq
      <4> QED BY <4>3 DEF pp, qq
    <3> QED BY <3>1
  <2>2. s * s = FF + 2 * FD + DD
    <3>1. \A p, q \in Int : (p + q) * (p + q) = p * p + 2 * (p * q) + q * q
      OBVIOUS
    <3> QED BY <3>1
  <2>3. DD <= FD
    OBVIOUS
  <2>4. FD \in Int /\ DD \in Int /\ s * s \in Int
    OBVIOUS
  <2> DEFINE ss == s * s
  <2> HIDE DEF FD, DD, FF, ss
  <2>5. dd <= FF + 3 * FD
    <3> HIDE DEF s
    <3>1. dd <= ss
      BY <2>1 DEF ss
    <3> HIDE DEF dd
    <3> QED BY <1>1, <2>2, <2>3, <2>4, <3>1 DEF ss
  <2> QED BY <2>5 DEF FD
<1>16. F * ID > low * aD - F * D
  <2> DEFINE IF1 == I * F
             EaH == Ea * H
             z == low * a
             zF == z - F
  <2>1. IF1 > EaH - F
    <3> DEFINE i == IH + H
    <3>1. Ea < i /\ i \in Int
      BY <1>1
    <3>2. i * H = IF1 + F
      <4>1. \A p, h \in Int : (p + h) * h = p * h + h * h
        OBVIOUS
      <4> HIDE DEF IH
      <4> QED BY <1>1, <1>7, <4>1
    <3> HIDE DEF i, Ea
    <3>3. Ea * H < i * H
      BY <1>1, <3>1, Monotone
    <3>4. EaH \in Int /\ IF1 \in Int
      BY <1>1
    <3> HIDE DEF EaH, IF1
    <3> QED BY <3>2, <3>3, <3>4 DEF EaH
  <2>2. EaH >= z
    <3> HIDE DEF EH, low, Ea
    <3>1. low * a <= EH * a
      BY <1>1, <1>5, WeaklyMonotone
    <3> QED BY <1>6, <3>1
  <2>3. IF1 \in Int /\ EaH \in Int /\ z \in Int /\ zF \in Int
    <3> HIDE DEF low, Ea
    <3> QED BY <1>1, <1>5
  <2>4. zF * D < IF1 * D
    <3>1. zF < IF1
      <4> HIDE DEF IF1, EaH, z
      <4> QED BY <2>1, <2>2, <2>3
    <3> HIDE DEF IF1, zF
    <3> QED BY <2>3, <3>1, Monotone
  <2>5. zF * D = low * aD - F * D
    <3>1. \A p, q, r, f \in Int : (p * q - f) * r = p * (q * r) - f * r
      OBVIOUS
    <3> HIDE DEF low
    <3> QED BY <1>5, <3>1
  <2> HIDE DEF ID, low, aD, zF
  <2> DEFINE FID == F * ID
             l == low * aD
             FD == F * D
  <2>6. FID \in Int /\ l \in Int /\ FD \in Int
    BY <1>1, <1>5
  <2> HIDE DEF FID, l, FD
  <2>7. FID > l - FD
    BY <1>8, <2>4, <2>5, <2>6 DEF FID, l, FD
  <2> QED BY <2>7 DEF FID, l, FD
<1>17. low * aD >= F * (gg * F) - (dd + F * (2 * gg))
  <2> DEFINE HaD == H * aD
             HgF == H * gF
             u == hi * aD
             l == low * aD
  <2>1. l = u - HaD
    <3>1. \A p, q, r \in Int : (p - q) * r = p * r - q * r
      OBVIOUS
    <3> HIDE DEF hi, aD
    <3> QED BY <1>1, <1>5, <3>1
  <2>2. HaD <= HgF
    <3> HIDE DEF aD, gF
    <3>1. aD * H <= gF * H
      BY <1>1, <1>4, WeaklyMonotone
    <3>2. aD * H = HaD /\ gF * H = HgF
      BY <1>1
    <3> QED BY <3>1, <3>2
  <2>3. HgF = F * (2 * gg)
    <3>1. \A h, x, f \in Int : h * (x * f) = f * (h * x)
      OBVIOUS
    <3>2. HgF = F * (H * g)
      BY <3>1
    <3> QED BY <1>2, <3>2
  <2>4. HaD \in Int /\ HgF \in Int /\ u \in Int /\ l \in Int /\ F * (gg * F) \in Int
    <3>1. gg * F \in Int
      BY <1>1
    <3> HIDE DEF aD, gF, hi, low, gg
    <3> QED BY <1>1, <1>5, <3>1
  <2> DEFINE z == F * (gg * F)
             w == F * (2 * gg)
  <2>5. l >= z - (dd + w)
    <3> HIDE DEF HaD, HgF, u, l, z, w, dd
    <3>1. u = z - dd /\ w = HgF /\ z \in Int
      BY <1>9, <2>3, <2>4 DEF u, z, w
    <3> QED BY <1>1, <2>1, <2>2, <2>4, <3>1
  <2> QED BY <2>5 DEF l, z, w
<1>18. ID > gg * F - ((F + 4 * D) + 2 * gg)
  <2> DEFINE q == gg * F - ((F + 4 * D) + 2 * gg)
             z == F * (gg * F)
             w == F * (2 * gg)
             FD == F * D
             FID == F * ID
             l == low * aD
  <2>1. q \in Int /\ z \in Int /\ w \in Int /\ FD \in Int /\ FID \in Int /\ l \in Int
    <3>1. gg * F \in Int
      BY <1>1
    <3> HIDE DEF aD, low, gg, ID
    <3> QED BY <1>1, <1>5, <3>1
  <2>2. F * q = z - (((FF + 4 * FD) + w))
    <3>1. \A f, x, e, r \in Int :
            f * (x * f - ((f + 4 * e) + r)) = f * (x * f) - (((f * f) + 4 * (f * e)) + f * r)
      OBVIOUS
    <3>2. 2 * gg \in Int
      BY <1>1
    <3> HIDE DEF gg
    <3> QED BY <1>1, <3>1, <3>2
  <2>3. FID > F * q
    <3> DEFINE Fq == F * q
    <3>1. Fq \in Int
      <4> HIDE DEF q
      <4> QED BY <2>1
    <3>2. FID > l - FD
      BY <1>16
    <3>3. l >= z - (dd + w)
      BY <1>17
    <3>4. dd <= FF + 3 * FD
      BY <1>15
    <3>5. Fq = z - ((FF + 4 * FD) + w)
      BY <2>2
    <3> HIDE DEF Fq, FID, l, FD, z, w, dd, FF, q
    <3>6. FID > Fq
      BY <1>1, <2>1, <3>1, <3>2, <3>3, <3>4, <3>5
    <3> QED BY <3>6 DEF Fq
  <2> HIDE DEF q, ID
  <2>4. q * F < ID * F
    <3>1. q * F = F * q /\ ID * F = F * ID
      BY <1>1, <2>1
    <3> QED BY <2>3, <3>1
  <2>5. q < ID
    BY <1>1, <1>2, <2>1, <2>4, Monotone
  <2> QED BY <1>1, <2>1, <2>5 DEF q
<1>19. 4 * ID > FF - (6 * F + 16 * D)
  <2> DEFINE q == gg * F
  <2>1. q \in Int
    BY <1>1
  <2> HIDE DEF ID, q, FF, gg
  <2> QED BY <1>1, <1>2, <1>10, <1>18, <2>1 DEF q
<1> QED BY <1>14, <1>19

\* The product with an inverse that is close enough is as close to the quotient.
LEMMA ProductIsQuotient ==
  ASSUME NEW F \in Int, NEW H \in Int, NEW D \in Int, NEW I \in Int, NEW N \in Int, NEW P \in Int,
         NEW L \in Int, NEW M \in Int, NEW t \in Int,
         H > 0, F >= 2 * H, F <= 2 * D, D < F,
         4 * (I * D) < F * F, 4 * (I * D) > F * F - (6 * F + 16 * D),
         0 <= N, N <= D, 0 <= L, L < M, 2 * N <= L, L <= 2 * N + 1, 2 * D <= M, M <= 2 * D + 1,
         0 <= P, F * P <= N * I, N * I <= F * P + (3 * F - (4 * H - 1)),
         t * M <= 2 * (L * F), 2 * (L * F) < t * M + M
  PROVE  8 * P - t \in -69 .. 2 /\ 8 * P < 2 * F
<1> DEFINE FP == F * P
           NI == N * I
           ID == I * D
           FF == F * F
           NF == N * F
           LF == L * F
           DP == D * P
           DF == D * F
           FD == F * D
           tM == t * M
           tD == t * D
           A == 4 * (D * FP)
           Y == 4 * (N * ID)
           C == N * FF
<1>1. /\ FP \in Int /\ NI \in Int /\ ID \in Int /\ FF \in Int /\ NF \in Int /\ LF \in Int
      /\ DP \in Int /\ DF \in Int /\ FD \in Int /\ tM \in Int /\ tD \in Int
  OBVIOUS
<1>2. A \in Int /\ Y \in Int /\ C \in Int
  <2> HIDE DEF FP, ID, FF
  <2> QED BY <1>1
<1>3. D > 0 /\ F > 0
  OBVIOUS
<1>4. A = F * (4 * DP) /\ 4 * (D * NI) = Y /\ C = F * NF
  <2>1. \A p, q, r \in Int : 4 * (p * (q * r)) = q * (4 * (p * r))
    OBVIOUS
  <2>2. \A p, q, r \in Int : 4 * (p * (q * r)) = 4 * (q * (r * p))
    OBVIOUS
  <2>3. \A p, q \in Int : p * (q * q) = q * (p * q)
    OBVIOUS
  <2> QED BY <2>1, <2>2, <2>3
\* From above.
<1>5. A <= Y
  <2> DEFINE u == D * FP
             v == D * NI
  <2>1. u <= v /\ u \in Int /\ v \in Int
    <3> HIDE DEF FP, NI
    <3>1. FP <= NI
      BY DEF FP, NI
    <3>2. FP * D <= NI * D
      BY <1>1, <1>3, <3>1, WeaklyMonotone
    <3>3. FP * D = u /\ NI * D = v /\ u \in Int /\ v \in Int
      BY <1>1
    <3> QED BY <3>2, <3>3
  <2>2. A = 4 * u /\ Y = 4 * v
    BY <1>4
  <2> HIDE DEF A, Y, u, v
  <2> QED BY <2>1, <2>2
<1>6. Y <= C /\ (N > 0 => Y < C)
  <2> DEFINE x == 4 * ID
  <2>1. x \in Int /\ x < FF
    BY <1>1
  <2>2. Y = N * x
    <3>1. \A p, q \in Int : 4 * (p * q) = p * (4 * q)
      OBVIOUS
    <3> HIDE DEF ID
    <3> QED BY <1>1, <3>1
  <2> HIDE DEF x, FF
  <2>3. x * N <= FF * N
    BY <1>1, <2>1, WeaklyMonotone
  <2>4. N > 0 => x * N < FF * N
    BY <1>1, <2>1, Monotone
  <2>5. x * N = N * x /\ FF * N = C
    BY <1>1, <2>1
  <2> HIDE DEF Y, C
  <2> QED BY <2>2, <2>3, <2>4, <2>5
<1>7. 4 * DP <= NF /\ (P > 0 => 4 * DP < NF)
  <2> DEFINE x == 4 * DP
  <2>1. x \in Int
    BY <1>1
  <2>2. A = x * F /\ C = NF * F
    <3> HIDE DEF DP, NF, A, C
    <3>1. F * x = x * F /\ F * NF = NF * F
      BY <1>1, <2>1
    <3> QED BY <1>4, <3>1
  <2>3. x * F <= NF * F
    <3> HIDE DEF A, Y, C, x, NF
    <3> QED BY <1>2, <1>5, <1>6, <2>2
  <2>4. P > 0 => N > 0
    <3> SUFFICES ASSUME P > 0, N = 0 PROVE FALSE
      OBVIOUS
    <3>1. NI = 0
      OBVIOUS
    <3>2. FP > 0
      <4>1. \A p, q \in Int : p > 0 /\ q > 0 => p * q > 0
        OBVIOUS
      <4> QED BY <1>3, <4>1
    <3>3. FP <= NI
      OBVIOUS
    <3> HIDE DEF FP, NI
    <3> QED BY <1>1, <3>1, <3>2, <3>3
  <2>5. P > 0 => x * F < NF * F
    <3> HIDE DEF A, Y, C, x, NF
    <3> QED BY <1>2, <1>5, <1>6, <2>2, <2>4
  <2> HIDE DEF x, NF
  <2>6. x <= NF /\ (P > 0 => x < NF)
    BY <1>1, <1>3, <2>1, <2>3, <2>5, Monotone
  <2> QED BY <2>6 DEF x
<1>8. 8 * P < 2 * F
  <2>1. CASE P = 0
    BY <1>3, <2>1
  <2>2. CASE P > 0
    <3>1. NF <= D * F
      BY <1>3, WeaklyMonotone
    <3> DEFINE p4 == 4 * P
    <3>2. p4 \in Int /\ p4 * D = 4 * DP /\ D * F = F * D
      OBVIOUS
    <3>3. p4 * D < F * D
      <4> HIDE DEF NF, DP, p4
      <4> DEFINE r == F * D
                 s == p4 * D
      <4>1. r \in Int /\ s = 4 * DP /\ NF <= r
        BY <1>1, <3>1, <3>2
      <4> HIDE DEF r, s
      <4>2. s < r
        BY <1>1, <1>7, <2>2, <4>1
      <4> QED BY <4>2 DEF r, s
    <3> HIDE DEF p4
    <3>4. p4 < F
      BY <1>3, <3>2, <3>3, Monotone
    <3> QED BY <3>4 DEF p4
  <2> QED BY <2>1, <2>2
<1>9. 2 * NF <= LF /\ LF <= 2 * NF + F
  <2> DEFINE n == 2 * N
             n1 == 2 * N + 1
  <2>1. n \in Int /\ n1 \in Int /\ n <= L /\ L <= n1
    OBVIOUS
  <2>2. n * F = 2 * NF /\ n1 * F = 2 * NF + F
    <3>1. \A p, q \in Int : (2 * p) * q = 2 * (p * q) /\ (2 * p + 1) * q = 2 * (p * q) + q
      OBVIOUS
    <3> QED BY <3>1
  <2> HIDE DEF n, n1
  <2>3. n * F <= L * F /\ L * F <= n1 * F
    BY <1>3, <2>1, WeaklyMonotone
  <2> QED BY <2>2, <2>3
\* The quotient.
<1>10. 0 <= t /\ t + 1 <= 2 * F
  <2>1. M > 0 /\ LF >= 0
    <3>1. \A p, q \in Int : p >= 0 /\ q >= 0 => p * q >= 0
      OBVIOUS
    <3> QED BY <1>3, <3>1
  <2>2. t >= 0
    <3> SUFFICES ASSUME t <= -1 PROVE FALSE
      OBVIOUS
    <3>1. \A p, q \in Int : q > 0 /\ p <= -1 => p * q <= -q
      OBVIOUS
    <3>2. tM <= -M
      BY <2>1, <3>1
    <3>3. 2 * LF < tM + M
      OBVIOUS
    <3> HIDE DEF LF, tM
    <3> QED BY <1>1, <2>1, <3>2, <3>3
  <2>3. t < 2 * F
    <3> DEFINE f == 2 * F
    <3>1. f \in Int /\ L * f = 2 * LF /\ f > 0
      <4>1. \A p, q \in Int : p * (2 * q) = 2 * (p * q)
        OBVIOUS
      <4> QED BY <1>3, <4>1
    <3> HIDE DEF f
    <3>2. L * f < M * f
      BY <3>1, Monotone
    <3>3. t * M <= L * f
      BY <3>1
    <3>4. t * M \in Int /\ L * f \in Int /\ M * f \in Int /\ M * f = f * M
      BY <3>1
    <3>5. t * M < f * M
      <4> DEFINE r == t * M
                 s == L * f
                 w == M * f
      <4> HIDE DEF r, s, w
      <4>1. r < w
        BY <3>2, <3>3, <3>4 DEF r, s, w
      <4> QED BY <3>4, <4>1 DEF r, w
    <3>6. t < f
      BY <2>1, <3>1, <3>5, Monotone
    <3> QED BY <3>6 DEF f
  <2> QED BY <2>2, <2>3
<1>11. tD <= LF
  <2> DEFINE w == 2 * D
  <2>1. t * w <= t * M
    <3>1. w * t <= M * t
      BY <1>10, WeaklyMonotone
    <3> QED BY <3>1
  <2>2. t * w = 2 * tD
    OBVIOUS
  <2>3. tM <= 2 * LF
    OBVIOUS
  <2>4. 2 * tD <= tM
    BY <2>1, <2>2
  <2> HIDE DEF tD, LF, tM
  <2> QED BY <1>1, <2>3, <2>4
<1>12. LF < tD + 3 * D
  <2> DEFINE s == t + 1
             w == 2 * D + 1
  <2>1. s * M <= s * w
    <3>1. s \in Int /\ s >= 0 /\ w \in Int /\ M <= w
      BY <1>10
    <3> HIDE DEF s, w
    <3>2. M * s <= w * s
      BY <3>1, WeaklyMonotone
    <3> QED BY <3>1, <3>2
  <2>2. s * M = tM + M
    <3>1. \A p, q \in Int : (p + 1) * q = p * q + q
      OBVIOUS
    <3> QED BY <3>1
  <2>3. s * w = 2 * tD + 2 * D + s
    <3>1. \A p, q \in Int : (p + 1) * (2 * q + 1) = 2 * (p * q) + 2 * q + (p + 1)
      OBVIOUS
    <3> QED BY <3>1
  <2>4. 2 * LF < tM + M
    OBVIOUS
  <2>5. s <= 4 * D
    BY <1>10
  <2> HIDE DEF LF, tM, tD
  <2>6. 2 * LF < 2 * tD + 2 * D + s /\ s \in Int
    BY <1>1, <2>1, <2>2, <2>3, <2>4
  <2> HIDE DEF s
  <2> QED BY <1>1, <2>5, <2>6
<1>13. 8 * DP < tD + 3 * D
  <2> HIDE DEF DP, NF, LF, tD
  <2> QED BY <1>1, <1>7, <1>9, <1>12
\* From below.
<1>14. A > Y - 12 * FD
  <2> DEFINE u == D * FP
             v == D * NI
             x == FP + 3 * F
             w == D * x
  <2>1. NI < x /\ x \in Int
    <3> HIDE DEF FP, NI
    <3>1. NI <= FP + (3 * F - (4 * H - 1))
      BY DEF FP, NI
    <3> QED BY <1>1, <3>1
  <2>2. w = u + 3 * FD
    <3>1. \A p, q, r \in Int : p * (q + 3 * r) = p * q + 3 * (r * p)
      OBVIOUS
    <3> HIDE DEF FP
    <3> QED BY <1>1, <3>1
  <2>3. v < w
    <3> HIDE DEF NI, x
    <3>1. NI * D < x * D
      BY <1>1, <1>3, <2>1, Monotone
    <3>2. NI * D = v /\ x * D = w
      BY <1>1, <2>1
    <3> QED BY <3>1, <3>2
  <2>4. A = 4 * u /\ Y = 4 * v
    BY <1>4
  <2>5. u \in Int /\ v \in Int /\ w \in Int
    <3> HIDE DEF FP, NI, x
    <3> QED BY <1>1, <2>1
  <2> HIDE DEF A, Y, u, v, w, FD
  <2> QED BY <1>1, <2>2, <2>3, <2>4, <2>5
<1>15. Y >= C - 22 * FD
  <2> DEFINE x == 4 * ID
             q == FF - (6 * F + 16 * D)
             ND == N * D
  <2>1. x \in Int /\ q \in Int /\ q <= x /\ ND \in Int
    <3>1. ND \in Int
      OBVIOUS
    <3> HIDE DEF ID, FF, ND
    <3>2. x > q
      BY DEF ID, FF
    <3> QED BY <1>1, <3>1, <3>2
  <2>2. Y = N * x
    <3>1. \A r, s \in Int : 4 * (r * s) = r * (4 * s)
      OBVIOUS
    <3> HIDE DEF ID
    <3> QED BY <1>1, <3>1
  <2>3. N * q = C - (6 * NF + 16 * ND)
    <3>1. \A n, r, f, e \in Int : n * (r - (6 * f + 16 * e)) = n * r - (6 * (n * f) + 16 * (n * e))
      OBVIOUS
    <3> HIDE DEF FF
    <3> QED BY <1>1, <3>1
  <2>4. N * q <= N * x
    <3> HIDE DEF q, x
    <3>1. q * N <= x * N
      BY <2>1, WeaklyMonotone
    <3> QED BY <2>1, <3>1
  <2>5. NF <= FD /\ ND <= FD
    <3>1. N * F <= D * F /\ N * D <= F * D
      BY <1>3, WeaklyMonotone
    <3> QED BY <3>1
  <2> DEFINE Nq == N * q
             Nx == N * x
  <2>6. Nq = C - (6 * NF + 16 * ND) /\ Nq <= Nx /\ Y = Nx
    BY <2>2, <2>3, <2>4
  <2> HIDE DEF Nq, Nx, Y, C, NF, ND, FD
  <2> QED BY <1>1, <1>2, <2>1, <2>5, <2>6
<1>16. 4 * DP > NF - 34 * D
  <2> DEFINE x == 4 * DP
             z == NF - 34 * D
  <2>1. x \in Int /\ z \in Int
    BY <1>1
  <2>2. A = x * F
    <3> HIDE DEF DP, A
    <3>1. F * x = x * F
      BY <1>1, <2>1
    <3> QED BY <1>4, <3>1
  <2>3. z * F = C - 34 * FD
    <3>1. \A p, q, f \in Int : (p - 34 * q) * f = f * p - 34 * (f * q)
      OBVIOUS
    <3> HIDE DEF NF, C
    <3> QED BY <1>1, <1>4, <3>1
  <2>4. z * F < x * F
    <3> HIDE DEF A, Y, C, FD, x, z
    <3> QED BY <1>1, <1>2, <1>14, <1>15, <2>2, <2>3
  <2> HIDE DEF x, z
  <2>5. z < x
    BY <1>3, <2>1, <2>4, Monotone
  <2> QED BY <2>5 DEF x, z
<1>17. 8 * DP > tD - 70 * D
  <2> HIDE DEF DP, NF, LF, tD
  <2> QED BY <1>1, <1>9, <1>11, <1>16
\* Together.
<1>18. 8 * P - t \in -69 .. 2
  <2> DEFINE e == 8 * P - t
             eD == e * D
  <2>1. e \in Int /\ eD = 8 * DP - tD /\ eD \in Int
    <3>1. \A p, q, r \in Int : (8 * p - q) * r = 8 * (r * p) - q * r
      OBVIOUS
    <3> QED BY <3>1
  <2>2. eD < 3 * D /\ -(70 * D) < eD
    <3> HIDE DEF eD, DP, tD
    <3> QED BY <1>1, <1>13, <1>17, <2>1
  <2> DEFINE three == 3
             low == -70
  <2> HIDE DEF e
  <2>3. e < three
    <3>1. three \in Int /\ e * D < three * D
      BY <2>2
    <3> HIDE DEF three
    <3> QED BY <1>3, <2>1, <3>1, Monotone
  <2>4. low < e
    <3>1. low \in Int /\ low * D < e * D
      BY <2>2
    <3> HIDE DEF low
    <3> QED BY <1>3, <2>1, <3>1, Monotone
  <2> HIDE DEF eD
  <2>5. e \in -69 .. 2
    BY <2>1, <2>3, <2>4
  <2> QED BY <2>5 DEF e
<1> QED BY <1>8, <1>18

\* Div_32(): a quotient of a bit less precision, from the inverse of the upper word.
LEMMA QuotientIsClose ==
  ASSUME NEW L \in Word32, NEW M \in Word32, 0 <= L, L < M, M >= Half * Half
  PROVE  LET m == L_Extract(M) IN
         Div_32(L, m.hi, m.lo) - (L * 2 * Half * Half) \div M \in -69 .. 2
<1> DEFINE F == Half * Half
           g == Half \div 2
           D == M \div 2
           hi == L_Extract(M).hi
           lo == L_Extract(M).lo
           num == (g - 1) * Half
           a == num \div hi
<1>1. /\ Half \in Int /\ Half >= 2 /\ MIN_16 = -Half
      /\ \A z : z \in Word16 <=> z \in Int /\ -Half <= z /\ z <= Half - 1
  BY WordsAre
<1>2. /\ F \in Int /\ F >= 4 /\ F >= 2 * Half /\ MAX_32 = 2 * F - 1 /\ MAX_32 \in Word32
      /\ \A z : z \in Word32 <=> z \in Int /\ -(2 * F) <= z /\ z <= 2 * F - 1
  <2>1. /\ F \in Int /\ F >= 4 /\ F >= 2 * Half /\ MAX_32 = 2 * F - 1
        /\ \A z : z \in Word32 <=> z \in Int /\ -(2 * F) <= z /\ z <= 2 * F - 1
    BY LongWordsAre
  <2> HIDE DEF F
  <2> QED BY <2>1
<1>3. g \in Int /\ Half = 2 * g /\ g >= 1
  <2>1. Half = 2 * Pow2[W - 2] /\ Pow2[W - 2] \in Int
    BY HalfIsPower, PowersDouble
  <2> DEFINE h == Pow2[W - 2]
  <2>2. Half = 2 * h /\ h \in Int
    BY <2>1
  <2> HIDE DEF h
  <2>3. g = h
    BY <2>2
  <2> QED BY <1>1, <2>2, <2>3
<1>4. L \in Int /\ M \in Int /\ M > 0 /\ F <= M /\ M <= 2 * F - 1
  <2>1. L \in Int /\ M \in Int /\ F <= M /\ M <= 2 * F - 1
    BY <1>2
  <2> HIDE DEF F
  <2> QED BY <1>2, <2>1
<1>5. /\ hi \in Word16 /\ hi = M \div (2 * Half) /\ lo \in Int /\ 0 <= lo /\ lo <= Half - 1
      /\ lo \in Word16 /\ hi * Half + lo = D
  BY Extracted
<1>6. hi \in Int /\ g <= hi /\ hi <= Half - 1 /\ hi > 0
  <2>1. hi \in Int /\ hi <= Half - 1
    BY <1>1, <1>5
  <2> DEFINE y == 2 * Half
  <2>2. y \in Int /\ y > 0 /\ g * y = F
    <3>1. \A x \in Int : x * (2 * (2 * x)) = (2 * x) * (2 * x)
      OBVIOUS
    <3> HIDE DEF g
    <3> QED BY <1>1, <1>3, <3>1
  <2> HIDE DEF y, g, F
  <2>3. g <= M \div y <=> g * y <= M
    BY <1>3, <1>4, <2>2, QuotientBound
  <2>4. g <= hi
    BY <1>4, <1>5, <2>2, <2>3 DEF y
  <2> QED BY <1>3, <2>1, <2>4
<1>7. D \in Int /\ 2 * D <= M /\ M <= 2 * D + 1 /\ F <= 2 * D /\ D < F /\ D > 0
  <2> HIDE DEF F
  <2>1. D \in Int /\ 2 * D <= M /\ M <= 2 * D + 1
    BY <1>4
  <2> HIDE DEF D
  <2>2. D < F
    BY <1>2, <1>4, <2>1
  <2>3. F <= 2 * D
    <3>1. F = 4 * (g * g) /\ g * g \in Int
      <4>1. \A x \in Int : (2 * x) * (2 * x) = 4 * (x * x) /\ x * x \in Int
        OBVIOUS
      <4> HIDE DEF g
      <4> QED BY <1>3, <4>1 DEF F
    <3> DEFINE gg == g * g
    <3> HIDE DEF gg
    <3> QED BY <1>2, <1>4, <2>1, <3>1 DEF gg
  <2> QED BY <1>2, <2>1, <2>2, <2>3
<1> HIDE DEF g, hi, lo, D
\* The approximation of the inverse.
<1>8. num \in Int /\ num >= 0 /\ a \in Int /\ a * hi <= num /\ num < a * hi + hi
  <2>1. num \in Int /\ num >= 0
    <3>1. \A x, y \in Int : x >= 0 /\ y >= 0 => x * y >= 0 /\ x * y \in Int
      OBVIOUS
    <3>2. g - 1 \in Int /\ g - 1 >= 0
      BY <1>3
    <3> QED BY <1>1, <3>1, <3>2
  <2> HIDE DEF num
  <2> QED BY <1>6, <2>1, Division
<1>9. 0 <= a /\ a <= Half - 1
  <2>1. 0 <= a <=> 0 * hi <= num
    <3> DEFINE zero == 0
    <3>1. zero \in Int
      OBVIOUS
    <3> HIDE DEF zero, num
    <3>2. zero <= num \div hi <=> zero * hi <= num
      BY <1>6, <1>8, <3>1, QuotientBound
    <3> QED BY <3>2 DEF zero
  <2>2. Half <= a <=> Half * hi <= num
    <3> HIDE DEF num
    <3> QED BY <1>1, <1>6, <1>8, QuotientBound
  <2>3. num < Half * hi
    <3>1. \A x, y, h \in Int : h > 0 /\ x <= y => (x - 1) * h < h * y
      <4> TAKE x, y, h \in Int
      <4> HAVE h > 0 /\ x <= y
      <4>1. x * h <= y * h /\ (x - 1) * h = x * h - h /\ y * h = h * y
        OBVIOUS
      <4>2. x * h \in Int /\ y * h \in Int
        OBVIOUS
      <4> DEFINE xh == x * h
                 yh == y * h
      <4> HIDE DEF xh, yh
      <4>3. xh - h < yh
        BY <4>1, <4>2 DEF xh, yh
      <4> QED BY <4>1, <4>3 DEF xh, yh
    <3> QED BY <1>1, <1>3, <1>6, <3>1
  <2>4. Half * hi \in Int
    BY <1>1, <1>6
  <2> DEFINE Hh == Half * hi
  <2>5. 0 * hi = 0
    BY <1>6
  <2> HIDE DEF num, a, Hh
  <2>6. ~(Half <= a)
    BY <1>8, <2>2, <2>3, <2>4 DEF Hh
  <2> QED BY <1>1, <1>8, <2>1, <2>5, <2>6
<1>10. a \in Word16 /\ a # MIN_16
  <2> HIDE DEF a
  <2> QED BY <1>1, <1>8, <1>9
<1>11. div_s(g - 1, hi) = a
  <2> DEFINE i == g - 1
  <2>1. i \in Word16 /\ 0 <= i /\ i <= hi
    BY <1>1, <1>3, <1>6
  <2>2. a = (i * Half) \div hi
    OBVIOUS
  <2> HIDE DEF i, a
  <2>3. div_s(i, hi) = Nearest16(a)
    BY <1>5, <1>6, <2>1, <2>2, WordsDivide
  <2>4. Nearest16(a) = a
    BY <1>1, <1>10, WordsAre DEF Nearest16
  <2> QED BY <2>3, <2>4 DEF i
<1> HIDE DEF a
<1> DEFINE d == g * F - a * D
<1>12. a * D = g * F - d /\ d \in Int /\ 0 < d /\ d <= F + D
  <2> DEFINE gF == g * F
             aD == a * D
             ah == a * hi
             ahH == ah * Half
             al == a * lo
             hiH == hi * Half
             nH == num * Half
  <2>1. /\ gF \in Int /\ aD \in Int /\ ahH \in Int /\ al \in Int /\ ah \in Int
        /\ hiH \in Int /\ nH \in Int
    <3> HIDE DEF num, F
    <3>1. ah \in Int
      BY <1>6, <1>8
    <3> HIDE DEF ah
    <3> QED BY <1>1, <1>2, <1>3, <1>5, <1>6, <1>7, <1>8, <3>1
  <2>2. aD = ahH + al
    <3>1. \A x, y, z, h \in Int : x * (y * h + z) = (x * y) * h + x * z
      OBVIOUS
    <3> QED BY <1>1, <1>5, <1>6, <1>8, <3>1
  <2>3. nH = gF - F
    <3>1. \A x, h \in Int : ((x - 1) * h) * h = x * (h * h) - h * h
      OBVIOUS
    <3> QED BY <1>1, <1>3, <3>1
  <2>4. ahH <= nH
    <3> HIDE DEF num, ah
    <3>1. ah <= num
      BY <1>8 DEF ah
    <3> QED BY <1>1, <1>8, <2>1, <3>1, WeaklyMonotone
  <2>5. 0 <= al /\ al <= (F - 2 * Half) + 1
    BY <1>1, <1>5, <1>8, <1>9, SmallProduct
  <2>6. nH <= ahH + hiH
    <3> DEFINE i == ah + hi
    <3>1. i \in Int /\ num <= i /\ i * Half = ahH + hiH
      <4>1. \A x, y, h \in Int : (x + y) * h = x * h + y * h
        OBVIOUS
      <4> HIDE DEF num, ah
      <4>2. num <= ah + hi
        <5>1. num < ah + hi
          BY <1>8 DEF ah
        <5> QED BY <1>6, <1>8, <2>1, <5>1
      <4> QED BY <1>1, <1>6, <2>1, <4>1, <4>2
    <3> HIDE DEF i, num
    <3>2. num * Half <= i * Half
      BY <1>1, <1>8, <3>1, WeaklyMonotone
    <3> QED BY <3>1, <3>2
  <2>7. hiH <= D
    <3> HIDE DEF hiH
    <3> QED BY <1>5, <2>1 DEF hiH
  <2>8. d = gF - aD
    OBVIOUS
  <2> HIDE DEF gF, aD, ah, ahH, al, hiH, nH, F, d
  <2>9. aD = gF - d /\ d \in Int /\ 0 < d /\ d <= F + D
    BY <1>1, <1>2, <1>7, <2>1, <2>2, <2>3, <2>4, <2>5, <2>6, <2>7, <2>8
  <2> QED BY <2>9 DEF gF, aD
<1> HIDE DEF d, num
\* What is left of 1 after a product with it.
<1> DEFINE u == D * a
           y == u \div Half
           E == (F - 1) - y
           rest == MAX_32 - 2 * y
<1>13. u \in Int /\ y \in Int /\ y * Half <= u /\ u < y * Half + Half
  <2>1. u \in Int
    BY <1>7, <1>8
  <2> HIDE DEF u
  <2> QED BY <1>1, <2>1, Division
<1>14. Mpy_32_16(hi, lo, a) = 2 * y
  <2>1. ~(hi = MIN_16 /\ a = MIN_16)
    BY <1>10
  <2>2. Mpy_32_16(hi, lo, a) = 2 * (((hi * Half + lo) * a) \div Half)
    BY <1>5, <1>10, <2>1, LongByWord
  <2> QED BY <1>5, <2>2
<1>15. 0 <= y /\ y <= F - 1
  <2>1. \A p, q \in Int : p >= 0 /\ q >= 0 => p * q >= 0
    OBVIOUS
  <2>2. u >= 0
    BY <1>7, <1>8, <1>9, <2>1
  <2>3. u < F * Half
    <3>1. a * D <= Half * D
      BY <1>1, <1>7, <1>8, <1>9, WeaklyMonotone
    <3>2. D * Half < F * Half
      BY <1>1, <1>2, <1>7, Monotone
    <3>3. a * D = u /\ Half * D = D * Half
      BY <1>1, <1>7, <1>8
    <3> DEFINE r == D * Half
               s == F * Half
    <3>4. r \in Int /\ s \in Int
      <4> HIDE DEF F
      <4> QED BY <1>1, <1>2, <1>7
    <3> HIDE DEF u, r, s
    <3>5. u <= r /\ r < s
      BY <3>1, <3>2, <3>3 DEF r, s
    <3>6. u < s
      BY <1>13, <3>4, <3>5
    <3> QED BY <3>6 DEF s
  <2> DEFINE zero == 0
  <2>4. zero \in Int /\ zero * Half = 0 /\ F * Half \in Int
    <3> HIDE DEF F
    <3> QED BY <1>1, <1>2
  <2> HIDE DEF u, F, zero
  <2>5. zero <= y <=> zero * Half <= u
    BY <1>1, <1>13, <2>4, QuotientBound
  <2>6. F <= y <=> F * Half <= u
    BY <1>1, <1>2, <1>13, QuotientBound
  <2> HIDE DEF y
  <2> DEFINE FH == F * Half
  <2> HIDE DEF FH
  <2>7. ~(F <= y)
    BY <1>13, <2>3, <2>4, <2>6 DEF FH
  <2>8. 0 <= y
    BY <1>13, <2>2, <2>4, <2>5 DEF zero
  <2> QED BY <1>2, <1>13, <2>7, <2>8
<1> HIDE DEF F, y
<1>16. E \in Int /\ 0 <= E /\ E <= F - 1
  BY <1>2, <1>13, <1>15
<1>17. rest \in Int /\ rest \in Word32 /\ rest \div 2 = E /\ 2 * y \in Word32
  <2>1. rest = 2 * E + 1 /\ rest \in Int
    BY <1>2, <1>13
  <2>2. 2 * y \in Word32
    BY <1>2, <1>13, <1>15
  <2> HIDE DEF rest, E
  <2> QED BY <1>2, <1>16, <2>1, <2>2
<1>18. L_sub(MAX_32, Mpy_32_16(hi, lo, a)) = rest
  <2> DEFINE x == 2 * y
  <2>1. x \in Word32 /\ rest = MAX_32 - x
    BY <1>17
  <2> HIDE DEF x, rest
  <2>2. L_sub(MAX_32, x) = Nearest32(rest)
    BY <1>2, <2>1, DifferencesSaturate
  <2>3. L_sub(MAX_32, x) = rest
    BY <1>17, <2>2, LongWordIsNearest
  <2> QED BY <1>14, <2>3 DEF x
<1> HIDE DEF rest
<1> DEFINE eHi == L_Extract(rest).hi
           eLo == L_Extract(rest).lo
<1>19. eHi \in Word16 /\ eLo \in Word16 /\ 0 <= eLo /\ eHi * Half + eLo = E
  <2> HIDE DEF E
  <2> QED BY <1>17, Extracted
<1> HIDE DEF eHi, eLo
\* The inverse.
<1> DEFINE v == E * a
           I == v \div Half
           twiceI == 2 * I
<1>20. v \in Int /\ I \in Int /\ I * Half <= v /\ v < I * Half + Half
  <2>1. v \in Int
    <3> HIDE DEF E
    <3> QED BY <1>8, <1>16
  <2> HIDE DEF v
  <2> QED BY <1>1, <2>1, Division
<1>21. Mpy_32_16(eHi, eLo, a) = twiceI
  <2> HIDE DEF E
  <2>1. Mpy_32_16(eHi, eLo, a) = 2 * (((eHi * Half + eLo) * a) \div Half)
    BY <1>10, <1>19, LongByWord
  <2> QED BY <1>19, <2>1
<1>22. 0 <= I /\ I <= F - 1
  <2> HIDE DEF E
  <2>1. \A p, q \in Int : p >= 0 /\ q >= 0 => p * q >= 0
    OBVIOUS
  <2>2. v >= 0
    BY <1>8, <1>9, <1>16, <2>1
  <2>3. v < F * Half
    <3>1. a * E <= Half * E
      BY <1>1, <1>8, <1>9, <1>16, WeaklyMonotone
    <3>2. E * Half < F * Half
      <4>1. E < F
        BY <1>2, <1>16
      <4> QED BY <1>1, <1>2, <1>16, <4>1, Monotone
    <3>3. a * E = v /\ Half * E = E * Half
      BY <1>1, <1>8, <1>16
    <3> DEFINE r == E * Half
               s == F * Half
    <3>4. r \in Int /\ s \in Int
      BY <1>1, <1>2, <1>16
    <3> HIDE DEF v, r, s
    <3>5. v <= r /\ r < s
      BY <3>1, <3>2, <3>3 DEF r, s
    <3>6. v < s
      BY <1>20, <3>4, <3>5
    <3> QED BY <3>6 DEF s
  <2> DEFINE zero == 0
  <2>4. zero \in Int /\ zero * Half = 0 /\ F * Half \in Int
    BY <1>1, <1>2
  <2> HIDE DEF v, zero
  <2>5. zero <= I <=> zero * Half <= v
    BY <1>1, <1>20, <2>4, QuotientBound
  <2>6. F <= I <=> F * Half <= v
    BY <1>1, <1>2, <1>20, QuotientBound
  <2> HIDE DEF I
  <2> DEFINE FH == F * Half
  <2> HIDE DEF FH
  <2>7. ~(F <= I)
    BY <1>20, <2>3, <2>4, <2>6 DEF FH
  <2>8. 0 <= I
    BY <1>20, <2>2, <2>4, <2>5 DEF zero
  <2> QED BY <1>2, <1>20, <2>7, <2>8
<1>23. 4 * (I * D) < F * F /\ 4 * (I * D) > F * F - (6 * F + 16 * D)
  <2>1. E = (F - 1) - y /\ y * Half <= D * a /\ D * a < y * Half + Half
    BY <1>13
  <2>2. I * Half <= E * a /\ E * a < I * Half + Half
    BY <1>20
  <2>3. F = Half * Half
    BY DEF F
  <2> HIDE DEF I, E, u, v
  <2>4. /\ g \in Int /\ Half \in Int /\ F \in Int /\ D \in Int /\ a \in Int /\ d \in Int
        /\ y \in Int /\ E \in Int /\ I \in Int
    BY <1>1, <1>2, <1>3, <1>7, <1>8, <1>12, <1>13, <1>16, <1>20
  <2>5. g > 0 /\ 0 < D /\ D < F /\ 0 <= a
    BY <1>3, <1>7, <1>9
  <2>6. Half = 2 * g /\ a * D = g * F - d /\ 0 < d /\ d <= F + D
    BY <1>3, <1>12
  <2>7. InverseStep(g, Half, F, D, a, d, y, E, I)
    BY <2>1, <2>2, <2>3, <2>5, <2>6 DEF InverseStep
  <2> QED BY <2>4, <2>7, InverseIsClose
<1> HIDE DEF I, E, u, v
<1>24. twiceI \in Int /\ twiceI \in Word32 /\ twiceI \div 2 = I /\ twiceI >= 0
  BY <1>2, <1>20, <1>22
<1> HIDE DEF twiceI
<1> DEFINE iHi == L_Extract(twiceI).hi
           iLo == L_Extract(twiceI).lo
           nHi == L_Extract(L).hi
           nLo == L_Extract(L).lo
           N == L \div 2
<1>25. /\ iHi \in Word16 /\ iLo \in Word16 /\ 0 <= iLo /\ iHi * Half + iLo = I
       /\ iHi = twiceI \div (2 * Half)
  BY <1>24, Extracted
<1>26. /\ nHi \in Word16 /\ nLo \in Word16 /\ 0 <= nLo /\ nHi * Half + nLo = N
       /\ nHi = L \div (2 * Half)
  BY Extracted
<1>27. iHi >= 0 /\ nHi >= 0 /\ iHi \in Int /\ nHi \in Int
  <2> DEFINE z == 2 * Half
             zero == 0
  <2>1. z \in Int /\ z > 0 /\ zero \in Int /\ zero * z = 0
    BY <1>1
  <2>2. iHi \in Int /\ nHi \in Int
    BY <1>1, <1>25, <1>26
  <2> HIDE DEF z, zero
  <2>3. zero <= twiceI \div z <=> zero * z <= twiceI
    BY <1>24, <2>1, QuotientBound
  <2>4. zero <= L \div z <=> zero * z <= L
    BY <1>4, <2>1, QuotientBound
  <2>5. zero <= twiceI \div z /\ zero <= L \div z
    BY <1>4, <1>24, <2>1, <2>3, <2>4
  <2> HIDE DEF iHi, nHi
  <2> QED BY <1>25, <1>26, <2>2, <2>5 DEF z, zero
<1>28. N \in Int /\ 0 <= N /\ N <= D /\ 2 * N <= L /\ L <= 2 * N + 1
  BY <1>4, <1>7
<1> HIDE DEF iHi, iLo, nHi, nLo, N
\* The product with it.
<1> DEFINE product == Mpy_32(nHi, nLo, iHi, iLo)
<1>29. PICK P \in Int :
         /\ F * P <= N * I /\ 0 <= P
         /\ product = 2 * P /\ N * I <= F * P + (3 * F - (4 * Half - 1))
  <2>1. nHi # MIN_16
    BY <1>1, <1>27
  <2> HIDE DEF product
  <2> DEFINE V == (nHi * Half + nLo) * (iHi * Half + iLo)
  <2>2. /\ nHi \in Word16 /\ nLo \in Word16 /\ 0 <= nLo
        /\ iHi \in Word16 /\ iLo \in Word16 /\ 0 <= iLo
    BY <1>25, <1>26
  <2>3. \E P \in Int :
           /\ Half * Half * P \in Int /\ Half * Half * P <= V
           /\ (nHi >= 0 /\ iHi >= 0 => P >= 0)
           /\ \/ /\ Mpy_32(nHi, nLo, iHi, iLo) = 2 * P
                 /\ V <= Half * Half * P + (3 * (Half * Half) - (4 * Half - 1))
              \/ /\ nHi = MIN_16 /\ iHi = MIN_16
                 /\ Mpy_32(nHi, nLo, iHi, iLo) = 2 * P - 1
                 /\ V <= Half * Half * P + Half * Half
    BY <2>2, LongByLong
  <2>4. V = N * I
    BY <1>25, <1>26
  <2> HIDE DEF V
  <2>5. \E P \in Int :
           /\ F * P \in Int /\ F * P <= N * I /\ (nHi >= 0 /\ iHi >= 0 => P >= 0)
           /\ \/ product = 2 * P /\ N * I <= F * P + (3 * F - (4 * Half - 1))
              \/ nHi = MIN_16 /\ iHi = MIN_16 /\ product = 2 * P - 1 /\ N * I <= F * P + F
    BY <2>3, <2>4 DEF F, product
  <2>6. PICK P \in Int :
           /\ F * P \in Int /\ F * P <= N * I /\ (nHi >= 0 /\ iHi >= 0 => P >= 0)
           /\ \/ product = 2 * P /\ N * I <= F * P + (3 * F - (4 * Half - 1))
              \/ nHi = MIN_16 /\ iHi = MIN_16 /\ product = 2 * P - 1 /\ N * I <= F * P + F
    BY <2>5
  <2>7. P >= 0
    BY <1>27, <2>6
  <2> QED BY <2>1, <2>6, <2>7
<1> HIDE DEF product
<1> DEFINE s == 2 * (L * F)
           t == s \div M
<1>30. t \in Int /\ t * M <= s /\ s < t * M + M
  <2>1. s \in Int
    BY <1>2, <1>4
  <2> HIDE DEF s
  <2> QED BY <1>4, <2>1, Division
<1>31. 8 * P - t \in -69 .. 2 /\ 8 * P < 2 * F
  <2>1. t * M <= 2 * (L * F) /\ 2 * (L * F) < t * M + M
    BY <1>30
  <2> HIDE DEF t, s
  <2>2. Half > 0
    BY <1>1
  <2> QED BY <1>1, <1>2, <1>4, <1>7, <1>20, <1>23, <1>28, <1>29, <1>30, <2>1, <2>2,
             ProductIsQuotient
<1>32. L_shl(product, 2) = 8 * P
  <2> DEFINE two == 2
             x == 2 * P
             r == 8 * P
  <2>1. x \in Int /\ r \in Int /\ x \in Word32 /\ r \in Word32
    BY <1>2, <1>29, <1>31
  <2>2. Times2(x, two) = r
    <3>1. Pow2[two] = 4
      <4>1. /\ Pow2[0] = 1 /\ Pow2[0 + 1] = 2 * Pow2[0] /\ Pow2[1 + 1] = 2 * Pow2[1]
            /\ 0 + 1 = 1 /\ 1 + 1 = two
        BY PowersDouble
      <4> QED BY <4>1
    <3>2. x * 4 = r
      BY <2>1
    <3>3. Times2(x, two) = x * Pow2[two]
      BY DEF Times2
    <3> QED BY <3>1, <3>2, <3>3
  <2>3. two \in Int
    OBVIOUS
  <2> HIDE DEF x, two, r
  <2>4. L_shl(x, two) = Nearest32(r)
    BY <2>1, <2>2, <2>3, LongWordsShift
  <2>5. L_shl(x, two) = r
    BY <2>1, <2>4, LongWordIsNearest
  <2> QED BY <1>29, <2>5 DEF x, two, r
<1>33. Div_32(L, hi, lo) = L_shl(product, 2)
  <2>1. Div_32(L, hi, lo) =
          LET approx == div_s(Half \div 2 - 1, hi)
              error == L_Extract(L_sub(MAX_32, Mpy_32_16(hi, lo, approx)))
              inverse == L_Extract(Mpy_32_16(error.hi, error.lo, approx))
              n == L_Extract(L)
          IN L_shl(Mpy_32(n.hi, n.lo, inverse.hi, inverse.lo), 2)
    BY DEF Div_32
  <2>2. div_s(Half \div 2 - 1, hi) = a
    BY <1>11 DEF g
  <2>3. L_Extract(L_sub(MAX_32, Mpy_32_16(hi, lo, a))) = L_Extract(rest)
    BY <1>18
  <2>4. Mpy_32_16(L_Extract(rest).hi, L_Extract(rest).lo, a) = twiceI
    BY <1>21 DEF eHi, eLo
  <2>5. product = Mpy_32(L_Extract(L).hi, L_Extract(L).lo,
                         L_Extract(twiceI).hi, L_Extract(twiceI).lo)
    BY DEF product, nHi, nLo, iHi, iLo
  <2> QED BY <2>1, <2>2, <2>3, <2>4, <2>5
<1>34. t = (L * 2 * Half * Half) \div M
  <2>1. \A x, h \in Int : x * 2 * h * h = 2 * (x * (h * h))
    OBVIOUS
  <2>2. L * 2 * Half * Half = s
    BY <1>1, <1>4, <2>1 DEF F
  <2> QED BY <2>2
<1> HIDE DEF t
<1>35. Div_32(L, hi, lo) - t \in -69 .. 2
  BY <1>31, <1>32, <1>33
<1> QED BY <1>34, <1>35 DEF hi, lo

(* Mpy_32_16(), Mpy_32() and Div_32() of oper_32b.c: the numbers by which  *)
(* the products and the quotient of double precision may be off.           *)
THEOREM DoublesAreClose == \A L, M \in Word32 : \A n \in Word16 : DoublesClose(L, M, n)
<1> SUFFICES ASSUME NEW L \in Word32, NEW M \in Word32, NEW n \in Word16
             PROVE  DoublesClose(L, M, n)
  OBVIOUS
<1> DEFINE lHi == L_Extract(L).hi
           lLo == L_Extract(L).lo
           mHi == L_Extract(M).hi
           mLo == L_Extract(M).lo
<1>1. Mpy_32_16(lHi, lLo, n) - (L * n) \div Half \in -2 .. 1
  BY LongByWordIsClose
<1>2. Mpy_32(lHi, lLo, mHi, mLo) - (L * M) \div (2 * Half * Half) \in -7 .. 2
  BY LongByLongIsClose
<1>3. ASSUME 0 <= L, L < M, M >= Half * Half
      PROVE  Div_32(L, mHi, mLo) - (L * 2 * Half * Half) \div M \in -69 .. 2
  BY <1>3, QuotientIsClose
<1> QED BY <1>1, <1>2, <1>3 DEF DoublesClose

-----------------------------------------------------------------------------
(* The cases of the run.                                                   *)

\* Long words and a word, or words.
LEMMA OperandsAreWords ==
  ASSUME NEW c \in Operands
  PROVE  c[1] \in Word32 /\ c[2] \in Word32 /\ c[3] \in Word16
<1>1. /\ Half \in Int /\ Half >= 2 /\ MIN_16 = -Half /\ MAX_16 = Half - 1
      /\ \A z : z \in Word16 <=> z \in Int /\ -Half <= z /\ z <= Half - 1
  BY WordsAre
<1> DEFINE F == Half * Half
<1>2. /\ F \in Int /\ F >= 4 /\ F >= 2 * Half
      /\ \A z : z \in Word32 <=> z \in Int /\ -(2 * F) <= z /\ z <= 2 * F - 1
  BY LongWordsAre
<1>3. MAX_32 = 2 * F - 1 /\ MIN_32 = -(2 * F)
  <2>1. \A h \in Int : 2 * h * h = 2 * (h * h)
    OBVIOUS
  <2> QED BY <1>1, <2>1 DEF MAX_32, MIN_32
<1>4. -Half * Half = -F
  BY <1>1
<1>5. -F - 1 \in Word32 /\ -F \in Word32 /\ F - 1 \in Word32 /\ F \in Word32
  <2> HIDE DEF F
  <2> QED BY <1>2
<1>6. Corners \subseteq Word32
  <2>1. \A z \in Corners : \/ z \in {MIN_32, MIN_32 + 1, MAX_32 - 1, MAX_32}
                           \/ z \in {-F - 1, -F, F - 1, F}
                           \/ z \in {-Half - 1, -Half, -3, -1, 0, 1, 2, Half - 1, Half}
    BY <1>4 DEF Corners
  <2> HIDE DEF F
  <2> QED BY <1>1, <1>2, <1>3, <1>5, <2>1
<1>7. Word16 \subseteq Word32
  <2> HIDE DEF F
  <2> QED BY <1>1, <1>2
<1>8. 0 \in Word16
  BY <1>1
<1> QED BY <1>6, <1>7, <1>8 DEF Operands

(* Every case that a behaviour can pick, for words of every width.         *)
THEOREM ArithmeticIsExactAlways == Spec => []ArithmeticIsExact
<1> DEFINE Inv == subject = "operators" /\ case # <<>> => case \in Operands
<1>1. Init => Inv
  BY DEF Init
<1>2. Inv /\ [Next]_allVars => Inv'
  <2> SUFFICES ASSUME Inv, [Next]_allVars, subject' = "operators", case' # <<>>
               PROVE  case' \in Operands
    OBVIOUS
  <2>1. CASE UNCHANGED <<subject, case>>
    BY <2>1
  <2>2. CASE Pick("pulses", Excitations)
    BY <2>2 DEF Pick
  <2>3. CASE Pick("operators", Operands)
    BY <2>3 DEF Pick
  <2> QED BY <2>1, <2>2, <2>3 DEF Next, allVars
<1>3. Inv => ArithmeticIsExact
  <2> SUFFICES ASSUME case \in Operands, subject = "operators", case # <<>>
               PROVE  ArithmeticIsExact
    BY DEF ArithmeticIsExact
  <2>1. case[1] \in Word32 /\ case[2] \in Word32 /\ case[3] \in Word16
    BY OperandsAreWords
  <2>2. {case[1], case[2]} \subseteq Word16 => WordsExact(case[1], case[2])
    BY WordsAreExact
  <2>3. LongWordsExact(case[1], case[2])
    BY <2>1, LongWordsAreExact
  <2>4. case[2] \in Word16 => MixedExact(case[1], case[2], case[3])
    BY <2>1, MixedAreExact
  <2>5. DoublesClose(case[1], case[2], case[3])
    BY <2>1, DoublesAreClose
  <2> QED BY <2>2, <2>3, <2>4, <2>5 DEF ArithmeticIsExact
<1> QED BY <1>1, <1>2, <1>3, PTL DEF Spec

-----------------------------------------------------------------------------
(* Sequences of anything.                                                  *)

\* A sequence, whatever its elements are.
Sequence(s) == Len(s) \in Nat /\ s = [i \in 1 .. Len(s) |-> s[i]]

\* A function over 1 .. n is one.
LEMMA FunctionIsSequence ==
  ASSUME NEW n \in Nat, NEW f, f = [i \in 1 .. n |-> f[i]]
  PROVE  Sequence(f) /\ Len(f) = n
<1> DEFINE S == {f[i] : i \in 1 .. n}
<1>1. f \in [1 .. n -> S]
  OBVIOUS
<1>2. f \in Seq(S)
  BY <1>1, SeqDef
<1>3. Len(f) \in Nat /\ DOMAIN f = 1 .. Len(f)
  BY <1>2, LenProperties
<1>4. DOMAIN f = 1 .. n
  BY <1>1
<1>5. Len(f) = n
  BY <1>3, <1>4
<1> QED BY <1>5 DEF Sequence

\* A sequence of elements of S.
LEMMA InSeq == 
  ASSUME NEW s, Sequence(s), NEW S, \A i \in 1 .. Len(s) : s[i] \in S
  PROVE  s \in Seq(S)
BY SeqDef DEF Sequence

\* Two sequences, one after the other.
LEMMA Concatenated ==
  ASSUME NEW s, NEW t, Sequence(s), Sequence(t)
  PROVE  /\ Sequence(s \o t) /\ Len(s \o t) = Len(s) + Len(t)
         /\ \A i \in 1 .. Len(s) + Len(t) :
              (s \o t)[i] = IF i <= Len(s) THEN s[i] ELSE t[i - Len(s)]
<1> DEFINE S == {s[i] : i \in 1 .. Len(s)} \cup {t[i] : i \in 1 .. Len(t)}
<1>1. s \in Seq(S) /\ t \in Seq(S)
  BY InSeq
<1> HIDE DEF S
<1>2. /\ s \o t \in Seq(S) /\ Len(s \o t) = Len(s) + Len(t)
      /\ \A i \in 1 .. Len(s) + Len(t) :
           (s \o t)[i] = IF i <= Len(s) THEN s[i] ELSE t[i - Len(s)]
  BY <1>1, ConcatProperties
<1>3. Len(s) \in Nat /\ Len(t) \in Nat
  BY DEF Sequence
<1>4. Sequence(s \o t)
  BY <1>2, <1>3, LenProperties DEF Sequence
<1> QED BY <1>2, <1>3, <1>4

\* Three sequences, in whatever order they are put together.
LEMMA Associated ==
  ASSUME NEW s, NEW t, NEW u, Sequence(s), Sequence(t), Sequence(u)
  PROVE  s \o t \o u = s \o (t \o u)
<1> DEFINE S == {s[i] : i \in 1 .. Len(s)} \cup {t[i] : i \in 1 .. Len(t)}
                \cup {u[i] : i \in 1 .. Len(u)}
<1>1. s \in Seq(S) /\ t \in Seq(S) /\ u \in Seq(S)
  BY InSeq
<1> HIDE DEF S
<1> QED BY <1>1, ConcatAssociative

\* A sequence with another element.
LEMMA Appended ==
  ASSUME NEW s, NEW e, Sequence(s)
  PROVE  /\ Sequence(Append(s, e)) /\ Len(Append(s, e)) = Len(s) + 1
         /\ \A i \in 1 .. Len(s) : Append(s, e)[i] = s[i]
         /\ Append(s, e)[Len(s) + 1] = e
<1> DEFINE S == {s[i] : i \in 1 .. Len(s)} \cup {e}
<1>1. s \in Seq(S) /\ e \in S
  BY InSeq
<1> HIDE DEF S
<1>2. Len(s) \in Nat
  BY DEF Sequence
<1>3. Append(s, e) \in Seq(S)
  BY <1>1
<1>4. /\ Len(Append(s, e)) = Len(s) + 1 /\ Append(s, e)[Len(s) + 1] = e
      /\ \A i \in 1 .. Len(s) : Append(s, e)[i] = s[i]
  BY <1>1, AppendProperties
<1>5. Sequence(Append(s, e))
  BY <1>3, LenProperties DEF Sequence
<1> QED BY <1>4, <1>5

\* A sequence without its first element.
LEMMA Tailed ==
  ASSUME NEW s, Sequence(s), Len(s) > 0
  PROVE  /\ s # <<>> /\ Head(s) = s[1]
         /\ Sequence(Tail(s)) /\ Len(Tail(s)) = Len(s) - 1
         /\ \A i \in 1 .. Len(s) - 1 : Tail(s)[i] = s[i + 1]
<1> DEFINE S == {s[i] : i \in 1 .. Len(s)}
<1>1. s \in Seq(S)
  BY InSeq
<1> HIDE DEF S
<1>2. Len(s) \in Nat
  BY DEF Sequence
<1>3. s # <<>>
  BY <1>1, <1>2
<1>4. /\ Tail(s) \in Seq(S) /\ Len(Tail(s)) = Len(s) - 1
      /\ \A i \in 1 .. Len(Tail(s)) : Tail(s)[i] = s[i + 1]
  BY <1>1, <1>3, HeadTailProperties
<1>5. Sequence(Tail(s))
  BY <1>4, LenProperties DEF Sequence
<1>6. Head(s) = s[1]
  BY <1>1, <1>3
<1> QED BY <1>2, <1>3, <1>4, <1>5, <1>6

-----------------------------------------------------------------------------
(* Functions by recursion over the numbers up to some n.                   *)

\* Each value comes from the one before, and has the type of its place.
IsRecursion(f, n, type, start, step) ==
  /\ f = [i \in 0 .. n |-> IF i = 0 THEN start ELSE step[i][f[i - 1]]]
  /\ \A i \in 0 .. n : f[i] \in type[i]

\* There is such a function.
LEMMA RecursionIs ==
  ASSUME NEW n \in Nat, NEW type, NEW start \in type[0], NEW step,
         \A i \in 1 .. n : step[i] \in [type[i - 1] -> type[i]]
  PROVE  \E f : IsRecursion(f, n, type, start, step)
<1> DEFINE S == {m \in Nat : m <= n => \E f : IsRecursion(f, m, type, start, step)}
<1>1. 0 \in S
  <2> DEFINE f == [i \in 0 .. 0 |-> start]
  <2>1. f[0] = start
    OBVIOUS
  <2>2. \A i \in 0 .. 0 : i = 0
    OBVIOUS
  <2>3. f = [i \in 0 .. 0 |-> IF i = 0 THEN start ELSE step[i][f[i - 1]]]
    BY <2>2
  <2>4. IsRecursion(f, 0, type, start, step)
    BY <2>1, <2>2, <2>3 DEF IsRecursion
  <2> QED BY <2>4
<1>2. ASSUME NEW m \in Nat, m \in S PROVE m + 1 \in S
  <2> SUFFICES ASSUME m + 1 <= n PROVE \E f : IsRecursion(f, m + 1, type, start, step)
    OBVIOUS
  <2>1. PICK f : IsRecursion(f, m, type, start, step)
    BY <1>2
  <2>2. /\ f = [i \in 0 .. m |-> IF i = 0 THEN start ELSE step[i][f[i - 1]]]
        /\ \A i \in 0 .. m : f[i] \in type[i]
    BY <2>1 DEF IsRecursion
  <2> DEFINE next == step[m + 1][f[m]]
             g == [i \in 0 .. m + 1 |-> IF i <= m THEN f[i] ELSE next]
  <2>3. next \in type[m + 1]
    <3>1. m + 1 \in 1 .. n /\ (m + 1) - 1 = m /\ m \in 0 .. m
      OBVIOUS
    <3>2. step[m + 1] \in [type[m] -> type[m + 1]] /\ f[m] \in type[m]
      BY <2>2, <3>1
    <3> QED BY <3>2
  <2>4. ASSUME NEW i \in 0 .. m + 1
        PROVE  /\ g[i] = IF i = 0 THEN start ELSE step[i][g[i - 1]]
               /\ g[i] \in type[i]
    <3> HIDE DEF next
    <3>1. CASE i = 0
      <4>1. g[i] = f[i] /\ i \in 0 .. m
        BY <3>1
      <4> QED BY <2>2, <3>1, <4>1
    <3>2. CASE i # 0 /\ i <= m
      <4>1. g[i] = f[i] /\ g[i - 1] = f[i - 1] /\ i \in 0 .. m
        BY <3>2
      <4> QED BY <2>2, <3>2, <4>1
    <3>3. CASE i = m + 1
      <4>1. g[i] = next /\ g[i - 1] = f[m] /\ i # 0
        BY <3>3
      <4> QED BY <2>3, <3>3, <4>1 DEF next
    <3>4. i = 0 \/ (i # 0 /\ i <= m) \/ i = m + 1
      OBVIOUS
    <3> QED BY <3>1, <3>2, <3>3, <3>4
  <2>5. g = [i \in 0 .. m + 1 |-> g[i]]
    OBVIOUS
  <2> HIDE DEF g
  <2>6. g = [i \in 0 .. m + 1 |-> IF i = 0 THEN start ELSE step[i][g[i - 1]]]
    BY <2>4, <2>5
  <2>7. IsRecursion(g, m + 1, type, start, step)
    BY <2>4, <2>6 DEF IsRecursion
  <2> QED BY <2>7
<1> HIDE DEF S
<1>3. n \in S
  BY <1>1, <1>2, Induction
<1> QED BY <1>3 DEF S

\* Two functions that go on in the same way are the same.
Alike(f, g, n) ==
  f[0] = g[0] /\ \A i \in 1 .. n : f[i - 1] = g[i - 1] => f[i] = g[i]

LEMMA SameAlong ==
  ASSUME NEW n \in Nat, NEW f, NEW g, f[0] = g[0],
         \A i \in 1 .. n : f[i - 1] = g[i - 1] => f[i] = g[i]
  PROVE  \A i \in 0 .. n : f[i] = g[i]
<1> DEFINE S == {m \in Nat : m <= n => f[m] = g[m]}
<1>1. 0 \in S
  OBVIOUS
<1>2. ASSUME NEW m \in Nat, m \in S PROVE m + 1 \in S
  <2> SUFFICES ASSUME m + 1 <= n PROVE f[m + 1] = g[m + 1]
    OBVIOUS
  <2>1. m + 1 \in 1 .. n /\ (m + 1) - 1 = m /\ f[m] = g[m]
    BY <1>2
  <2> QED BY <2>1
<1> HIDE DEF S
<1>3. \A m \in Nat : m \in S
  BY <1>1, <1>2, Induction
<1> QED BY <1>3 DEF S

LEMMA AlikeIsSame ==
  ASSUME NEW n \in Nat, NEW f, NEW g, Alike(f, g, n)
  PROVE  \A i \in 0 .. n : f[i] = g[i]
BY SameAlong DEF Alike

-----------------------------------------------------------------------------
(* Symbols in a row, and those that are read of it.                        *)

\* At a position of s, the symbols of a part follow each other.
Holds(s, at, part) ==
  /\ Sequence(s) /\ Sequence(part)
  /\ at \in Nat /\ at > 0 /\ at + Len(part) <= Len(s) + 1
  /\ \A j \in 1 .. Len(part) : s[at + (j - 1)] = part[j]

LEMMA AllHeld ==
  ASSUME NEW s, Sequence(s) PROVE Holds(s, 1, s)
<1>1. Len(s) \in Nat
  BY DEF Sequence
<1>2. \A j \in 1 .. Len(s) : 1 + (j - 1) = j
  BY <1>1
<1> QED BY <1>1, <1>2 DEF Holds

\* Of a part that consists of two, both are there.
LEMMA PartsHeld ==
  ASSUME NEW s, NEW at, NEW a, NEW b, Sequence(a), Sequence(b), Holds(s, at, a \o b)
  PROVE  Holds(s, at, a) /\ Holds(s, at + Len(a), b)
<1> DEFINE c == a \o b
<1>1. /\ Len(c) = Len(a) + Len(b)
      /\ \A i \in 1 .. Len(a) + Len(b) : c[i] = IF i <= Len(a) THEN a[i] ELSE b[i - Len(a)]
  BY Concatenated
<1>2. Len(a) \in Nat /\ Len(b) \in Nat
  BY DEF Sequence
<1>3. /\ Sequence(s) /\ at \in Nat /\ at > 0 /\ at + Len(c) <= Len(s) + 1
      /\ \A j \in 1 .. Len(c) : s[at + (j - 1)] = c[j]
  BY DEF Holds
<1> HIDE DEF c
<1>4. ASSUME NEW j \in 1 .. Len(a) PROVE s[at + (j - 1)] = a[j]
  <2>1. j \in 1 .. Len(c) /\ j \in 1 .. Len(a) + Len(b) /\ j <= Len(a)
    BY <1>1, <1>2
  <2> QED BY <1>1, <1>3, <2>1
<1>5. ASSUME NEW j \in 1 .. Len(b) PROVE s[(at + Len(a)) + (j - 1)] = b[j]
  <2> DEFINE i == Len(a) + j
  <2>1. /\ i \in 1 .. Len(c) /\ i \in 1 .. Len(a) + Len(b) /\ ~(i <= Len(a)) /\ i - Len(a) = j
        /\ at + (i - 1) = (at + Len(a)) + (j - 1)
    BY <1>1, <1>2, <1>3
  <2> HIDE DEF i
  <2> QED BY <1>1, <1>3, <2>1
<1>6. Len(s) \in Nat
  BY <1>3 DEF Sequence
<1>7. at + Len(a) <= Len(s) + 1 /\ at + Len(a) \in Nat /\ at + Len(a) > 0
      /\ (at + Len(a)) + Len(b) <= Len(s) + 1
  BY <1>1, <1>2, <1>3, <1>6
<1> QED BY <1>3, <1>4, <1>5, <1>7 DEF Holds

\* A symbol that is there is read by its table.
LEMMA HeldIsRead ==
  ASSUME NEW s, NEW at, NEW part, Holds(s, at, part), NEW j \in 1 .. Len(part)
  PROVE  Read(s, at + (j - 1), part[j].table) = part[j].data
<1>1. /\ Sequence(s) /\ Sequence(part) /\ at \in Nat /\ at > 0 /\ at + Len(part) <= Len(s) + 1
      /\ s[at + (j - 1)] = part[j]
  BY DEF Holds
<1>2. Len(s) \in Nat /\ Len(part) \in Nat
  BY <1>1 DEF Sequence
<1>3. at + (j - 1) \in DOMAIN s
  BY <1>1, <1>2 DEF Sequence
<1> QED BY <1>1, <1>3 DEF Read

\* What Flat() puts together, as far as it has come.
IsFlat(all, parts, n) ==
  /\ all[0] = <<>>
  /\ \A i \in 0 .. n : Sequence(all[i])
  /\ \A i \in 1 .. n : /\ Sequence(parts[i]) /\ all[i] = all[i - 1] \o parts[i]
                       /\ Len(all[i]) = Len(all[i - 1]) + Len(parts[i])

LEMMA FlatIs ==
  ASSUME NEW n \in Nat, NEW parts, Len(parts) = n, \A i \in 1 .. n : Sequence(parts[i])
  PROVE  \E all : IsFlat(all, parts, n) /\ Flat(parts) = all[n]
<1> DEFINE T == UNION {{parts[i][j] : j \in 1 .. Len(parts[i])} : i \in 1 .. n}
           Q == Seq(T)
           type == [i \in 0 .. n |-> Q]
           step == [i \in 1 .. n |-> [v \in Q |-> v \o parts[i]]]
           Solves(f) == f = [i \in 0 .. n |-> IF i = 0 THEN <<>> ELSE f[i - 1] \o parts[i]]
<1>1. \A i \in 1 .. n : parts[i] \in Q
  <2> SUFFICES ASSUME NEW i \in 1 .. n PROVE parts[i] \in Seq(T)
    OBVIOUS
  <2>1. \A j \in 1 .. Len(parts[i]) : parts[i][j] \in T
    OBVIOUS
  <2> HIDE DEF T
  <2> QED BY <2>1, InSeq
<1>2. <<>> \in Q /\ \A v, w \in Q : v \o w \in Q
  <2> HIDE DEF T
  <2> QED BY EmptySeq, ConcatProperties
<1> HIDE DEF Q
<1>3. <<>> \in type[0] /\ \A i \in 1 .. n : step[i] \in [type[i - 1] -> type[i]]
  <2>1. ASSUME NEW i \in 1 .. n PROVE step[i] \in [type[i - 1] -> type[i]]
    <3>1. type[i - 1] = Q /\ type[i] = Q
      OBVIOUS
    <3>2. \A v \in Q : v \o parts[i] \in Q
      BY <1>1, <1>2
    <3> QED BY <3>1, <3>2
  <2> QED BY <1>2, <2>1
<1>4. PICK g : IsRecursion(g, n, type, <<>>, step)
  <2> HIDE DEF type, step
  <2> QED BY <1>3, RecursionIs
<1>5. /\ g = [i \in 0 .. n |-> IF i = 0 THEN <<>> ELSE step[i][g[i - 1]]]
      /\ \A i \in 0 .. n : g[i] \in type[i]
  BY <1>4 DEF IsRecursion
<1>6. \A i \in 0 .. n : g[i] \in Q
  BY <1>5
<1>7. ASSUME NEW i \in 0 .. n PROVE g[i] = IF i = 0 THEN <<>> ELSE g[i - 1] \o parts[i]
  <2>1. CASE i = 0
    BY <1>5, <2>1
  <2>2. CASE i # 0
    <3>1. i \in 1 .. n /\ i - 1 \in 0 .. n
      BY <2>2
    <3>2. step[i] = [v \in Q |-> v \o parts[i]]
      BY <3>1
    <3>3. g[i - 1] \in Q
      BY <1>6, <3>1
    <3>4. g[i] = step[i][g[i - 1]]
      BY <1>5, <2>2
    <3> HIDE DEF step
    <3> QED BY <2>2, <3>2, <3>3, <3>4
  <2> QED BY <2>1, <2>2
<1>8. Solves(g)
  BY <1>5, <1>7
<1> DEFINE f == CHOOSE h : Solves(h)
<1>9. Solves(f)
  <2> HIDE DEF Solves
  <2> QED BY <1>8
<1>10. Flat(parts) = f[n]
  BY DEF Flat
<1> HIDE DEF f
<1>11. f[0] = <<>> /\ \A i \in 1 .. n : f[i] = f[i - 1] \o parts[i]
  <2>1. f[0] = <<>>
    BY <1>9
  <2>2. ASSUME NEW i \in 1 .. n PROVE f[i] = f[i - 1] \o parts[i]
    <3>1. i \in 0 .. n /\ i # 0
      OBVIOUS
    <3> QED BY <1>9, <3>1
  <2> QED BY <2>1, <2>2
<1> DEFINE S == {m \in Nat : m <= n => Sequence(f[m])}
<1>12. 0 \in S
  BY <1>11 DEF Sequence
<1>13. ASSUME NEW m \in Nat, m \in S PROVE m + 1 \in S
  <2> SUFFICES ASSUME m + 1 <= n PROVE Sequence(f[m + 1])
    OBVIOUS
  <2>1. m + 1 \in 1 .. n /\ (m + 1) - 1 = m /\ Sequence(f[m])
    BY <1>13
  <2>2. f[m + 1] = f[m] \o parts[m + 1] /\ Sequence(parts[m + 1])
    BY <1>11, <2>1
  <2> QED BY <2>1, <2>2, Concatenated
<1>14. \A i \in 0 .. n : Sequence(f[i])
  <2> HIDE DEF S
  <2>1. \A m \in Nat : m \in S
    BY <1>12, <1>13, Induction
  <2> QED BY <2>1 DEF S
<1>15. ASSUME NEW i \in 1 .. n PROVE Len(f[i]) = Len(f[i - 1]) + Len(parts[i])
  <2>1. i - 1 \in 0 .. n
    OBVIOUS
  <2>2. Sequence(f[i - 1]) /\ Sequence(parts[i]) /\ f[i] = f[i - 1] \o parts[i]
    BY <1>11, <1>14, <2>1
  <2> QED BY <2>2, Concatenated
<1> QED BY <1>10, <1>11, <1>14, <1>15 DEF IsFlat

\* Each part is where those before it end.
LEMMA FlatHeld ==
  ASSUME NEW n \in Nat, NEW all, NEW parts, IsFlat(all, parts, n),
         NEW s, NEW at, Holds(s, at, all[n])
  PROVE  \A i \in 1 .. n : Holds(s, at + Len(all[i - 1]), parts[i])
<1> DEFINE S == {j \in Nat : j <= n => Holds(s, at, all[n - j])}
<1>1. 0 \in S
  BY n - 0 = n
<1>2. ASSUME NEW i \in 1 .. n, Holds(s, at, all[i])
      PROVE  Holds(s, at, all[i - 1]) /\ Holds(s, at + Len(all[i - 1]), parts[i])
  <2>1. i - 1 \in 0 .. n
    OBVIOUS
  <2>2. Sequence(all[i - 1]) /\ Sequence(parts[i]) /\ all[i] = all[i - 1] \o parts[i]
    BY <2>1 DEF IsFlat
  <2> QED BY <1>2, <2>2, PartsHeld
<1>3. ASSUME NEW j \in Nat, j \in S PROVE j + 1 \in S
  <2> SUFFICES ASSUME j + 1 <= n PROVE Holds(s, at, all[n - (j + 1)])
    OBVIOUS
  <2>1. n - j \in 1 .. n /\ (n - j) - 1 = n - (j + 1) /\ Holds(s, at, all[n - j])
    BY <1>3
  <2> QED BY <1>2, <2>1
<1> HIDE DEF S
<1>4. \A j \in Nat : j \in S
  BY <1>1, <1>3, Induction
<1>5. ASSUME NEW i \in 1 .. n PROVE Holds(s, at, all[i])
  <2>1. n - i \in Nat /\ n - i <= n /\ n - (n - i) = i
    OBVIOUS
  <2> QED BY <1>4, <2>1 DEF S
<1> QED BY <1>2, <1>5

\* A symbol of which the table has an entry, and parts of such symbols.
HasEntry(symbol) == symbol.data \in 0 .. PulseAlphabet(symbol.table) - 1
HaveEntries(part) == \A j \in 1 .. Len(part) : HasEntry(part[j])

LEMMA EntriesOfTwo ==
  ASSUME NEW a, NEW b, Sequence(a), Sequence(b), HaveEntries(a), HaveEntries(b)
  PROVE  HaveEntries(a \o b)
<1> DEFINE c == a \o b
<1>1. /\ Len(c) = Len(a) + Len(b)
      /\ \A i \in 1 .. Len(a) + Len(b) : c[i] = IF i <= Len(a) THEN a[i] ELSE b[i - Len(a)]
  BY Concatenated
<1>2. Len(a) \in Nat /\ Len(b) \in Nat
  BY DEF Sequence
<1> HIDE DEF c
<1>3. ASSUME NEW i \in 1 .. Len(c) PROVE HasEntry(c[i])
  <2>1. CASE i <= Len(a)
    BY <1>1, <1>2, <2>1 DEF HaveEntries
  <2>2. CASE ~(i <= Len(a))
    <3>1. i - Len(a) \in 1 .. Len(b) /\ c[i] = b[i - Len(a)]
      BY <1>1, <1>2, <2>2
    <3> QED BY <3>1 DEF HaveEntries
  <2> QED BY <2>1, <2>2
<1> QED BY <1>3 DEF HaveEntries, c

LEMMA EntriesOfFlat ==
  ASSUME NEW n \in Nat, NEW all, NEW parts, IsFlat(all, parts, n),
         \A i \in 1 .. n : HaveEntries(parts[i])
  PROVE  HaveEntries(all[n])
<1> DEFINE S == {m \in Nat : m <= n => HaveEntries(all[m])}
<1>1. 0 \in S
  <2>1. Len(all[0]) = 0
    BY DEF IsFlat
  <2> QED BY <2>1 DEF HaveEntries
<1>2. ASSUME NEW m \in Nat, m \in S PROVE m + 1 \in S
  <2> SUFFICES ASSUME m + 1 <= n PROVE HaveEntries(all[m + 1])
    OBVIOUS
  <2>1. m + 1 \in 1 .. n /\ (m + 1) - 1 = m /\ m \in 0 .. n /\ HaveEntries(all[m])
    BY <1>2
  <2>2. /\ Sequence(all[m]) /\ Sequence(parts[m + 1]) /\ all[m + 1] = all[m] \o parts[m + 1]
        /\ HaveEntries(parts[m + 1])
    BY <2>1 DEF IsFlat
  <2> QED BY <2>1, <2>2, EntriesOfTwo
<1> HIDE DEF S
<1>3. n \in S
  BY <1>1, <1>2, Induction
<1> QED BY <1>3 DEF S
-----------------------------------------------------------------------------
(* The sums of a block, and how often it is halved until they fit.         *)

\* The sums of a depth are half as many as those below it.
LEMMA HalfAsMany ==
  /\ Depth \in Nat /\ Depth > 0 /\ Width = Pow2[Depth] /\ Width \in Nat /\ Width > 0
  /\ \A d \in 0 .. Depth : Pow2[d] \in Nat /\ Pow2[d] > 0
                           /\ Pow2[Depth - d] \in Nat /\ Pow2[Depth - d] > 0
  /\ \A d \in 1 .. Depth : Pow2[Depth - (d - 1)] = 2 * Pow2[Depth - d]
                           /\ Pow2[d] = 2 * Pow2[d - 1]
  /\ Pow2[0] = 1 /\ Pow2[Depth - 0] = Width /\ Pow2[Depth - Depth] = 1
<1>1. Depth \in Nat /\ Depth > 0
  BY PulsesAssumption
<1>2. /\ \A n \in Nat : Pow2[n] \in Nat /\ Pow2[n] > 0 /\ Pow2[n + 1] = 2 * Pow2[n]
      /\ Pow2[0] = 1
  BY PowersDouble
<1>3. Width = Pow2[Depth] /\ Width \in Nat /\ Width > 0
  BY <1>1, <1>2 DEF Width
<1>4. ASSUME NEW d \in 0 .. Depth
      PROVE  Pow2[d] \in Nat /\ Pow2[d] > 0 /\ Pow2[Depth - d] \in Nat /\ Pow2[Depth - d] > 0
  <2>1. d \in Nat /\ Depth - d \in Nat
    BY <1>1
  <2> QED BY <1>2, <2>1
<1>5. ASSUME NEW d \in 1 .. Depth
      PROVE  Pow2[Depth - (d - 1)] = 2 * Pow2[Depth - d] /\ Pow2[d] = 2 * Pow2[d - 1]
  <2>1. /\ Depth - d \in Nat /\ (Depth - d) + 1 = Depth - (d - 1)
        /\ d - 1 \in Nat /\ (d - 1) + 1 = d
    BY <1>1
  <2> QED BY <1>2, <2>1
<1>6. Depth - 0 = Depth /\ Depth - Depth = 0
  BY <1>1
<1> QED BY <1>1, <1>2, <1>3, <1>4, <1>5, <1>6

LEMMA CombinedIs ==
  ASSUME NEW m \in Nat, NEW v \in [1 .. 2 * m -> Nat]
  PROVE  /\ combine_pulses(v) = [k \in 1 .. m |-> v[2 * k - 1] + v[2 * k]]
         /\ combine_pulses(v) \in [1 .. m -> Nat]
<1>1. 2 * m \in Nat
  OBVIOUS
<1>2. Len(v) = 2 * m
  BY <1>1, FunctionIsSequence
<1>3. (2 * m) \div 2 = m
  OBVIOUS
<1>4. combine_pulses(v) = [k \in 1 .. m |-> v[2 * k - 1] + v[2 * k]]
  BY <1>2, <1>3 DEF combine_pulses
<1>5. ASSUME NEW k \in 1 .. m PROVE v[2 * k - 1] + v[2 * k] \in Nat
  <2>1. 2 * k - 1 \in 1 .. 2 * m /\ 2 * k \in 1 .. 2 * m
    OBVIOUS
  <2>2. v[2 * k - 1] \in Nat /\ v[2 * k] \in Nat
    BY <2>1
  <2> QED BY <2>2
<1> QED BY <1>4, <1>5

\* What sums are.
IsSums(sums, b) ==
  /\ DOMAIN sums = 0 .. Depth /\ sums[0] = b
  /\ \A d \in 0 .. Depth : sums[d] \in [1 .. Pow2[Depth - d] -> Nat]
  /\ \A d \in 1 .. Depth : \A k \in 1 .. Pow2[Depth - d] :
       sums[d][k] = sums[d - 1][2 * k - 1] + sums[d - 1][2 * k]

LEMMA SumsAre ==
  ASSUME NEW b \in [1 .. Width -> Nat]
  PROVE  IsSums(Sums(b), b)
<1> DEFINE type == [d \in 0 .. Depth |-> [1 .. Pow2[Depth - d] -> Nat]]
           step == [d \in 1 .. Depth |-> [v \in type[d - 1] |-> combine_pulses(v)]]
           Solves(f) == f = [d \in 0 .. Depth |-> IF d = 0 THEN b ELSE combine_pulses(f[d - 1])]
<1>1. b \in type[0]
  BY HalfAsMany
<1>2. ASSUME NEW d \in 1 .. Depth, NEW v \in type[d - 1]
      PROVE  /\ combine_pulses(v) = [k \in 1 .. Pow2[Depth - d] |-> v[2 * k - 1] + v[2 * k]]
             /\ combine_pulses(v) \in type[d]
  <2> DEFINE m == Pow2[Depth - d]
  <2>1. d \in 0 .. Depth /\ d - 1 \in 0 .. Depth
    BY HalfAsMany
  <2>2. m \in Nat /\ Pow2[Depth - (d - 1)] = 2 * m
    BY <2>1, HalfAsMany
  <2>3. type[d - 1] = [1 .. Pow2[Depth - (d - 1)] -> Nat] /\ type[d] = [1 .. m -> Nat]
    BY <2>1
  <2> HIDE DEF m, type
  <2>4. v \in [1 .. 2 * m -> Nat]
    BY <2>2, <2>3
  <2> QED BY <2>2, <2>3, <2>4, CombinedIs DEF m
<1>3. \A d \in 1 .. Depth : step[d] \in [type[d - 1] -> type[d]]
  <2> HIDE DEF type
  <2> QED BY <1>2
<1>4. PICK g : IsRecursion(g, Depth, type, b, step)
  <2> HIDE DEF type, step
  <2> QED BY <1>1, <1>3, RecursionIs, HalfAsMany
<1>5. /\ g = [d \in 0 .. Depth |-> IF d = 0 THEN b ELSE step[d][g[d - 1]]]
      /\ \A d \in 0 .. Depth : g[d] \in type[d]
  BY <1>4 DEF IsRecursion
<1>6. ASSUME NEW d \in 0 .. Depth PROVE g[d] = IF d = 0 THEN b ELSE combine_pulses(g[d - 1])
  <2>1. CASE d = 0
    BY <1>5, <2>1
  <2>2. CASE d # 0
    <3>1. d \in 1 .. Depth /\ d - 1 \in 0 .. Depth
      BY <2>2, HalfAsMany
    <3>2. step[d] = [v \in type[d - 1] |-> combine_pulses(v)]
      BY <3>1
    <3>3. g[d - 1] \in type[d - 1] /\ g[d] = step[d][g[d - 1]]
      BY <1>5, <2>2, <3>1
    <3> HIDE DEF step, type
    <3> QED BY <2>2, <3>2, <3>3
  <2> QED BY <2>1, <2>2
<1>7. Solves(g)
  <2> HIDE DEF type, step
  <2> QED BY <1>5, <1>6
<1> DEFINE f == CHOOSE h : Solves(h)
<1>8. Solves(f)
  <2> HIDE DEF Solves
  <2> QED BY <1>7
<1>9. Sums(b) = f
  BY DEF Sums
<1> HIDE DEF f, type
<1>10. f[0] = g[0] /\ \A d \in 1 .. Depth : f[d - 1] = g[d - 1] => f[d] = g[d]
  <2>1. f[0] = b /\ g[0] = b
    BY <1>7, <1>8, HalfAsMany
  <2>2. ASSUME NEW d \in 1 .. Depth, f[d - 1] = g[d - 1] PROVE f[d] = g[d]
    <3>1. d \in 0 .. Depth /\ d # 0
      BY HalfAsMany
    <3> QED BY <1>7, <1>8, <2>2, <3>1
  <2> QED BY <2>1, <2>2
<1>11. \A d \in 0 .. Depth : f[d] = g[d]
  <2>1. Depth \in Nat
    BY HalfAsMany
  <2> HIDE DEF Solves, step
  <2>2. Alike(f, g, Depth)
    BY <1>10 DEF Alike
  <2> QED BY ONLY <2>1, <2>2, AlikeIsSame
<1>12. \A d \in 0 .. Depth : f[d] \in [1 .. Pow2[Depth - d] -> Nat]
  BY <1>5, <1>11 DEF type
<1>13. ASSUME NEW d \in 1 .. Depth, NEW k \in 1 .. Pow2[Depth - d]
       PROVE  f[d][k] = f[d - 1][2 * k - 1] + f[d - 1][2 * k]
  <2>1. d \in 0 .. Depth /\ d # 0 /\ d - 1 \in 0 .. Depth
    BY HalfAsMany
  <2>2. f[d] = combine_pulses(f[d - 1])
    BY <1>8, <2>1
  <2>3. f[d - 1] \in type[d - 1]
    BY <1>5, <1>11, <2>1
  <2>4. combine_pulses(f[d - 1])
          = [i \in 1 .. Pow2[Depth - d] |-> f[d - 1][2 * i - 1] + f[d - 1][2 * i]]
    BY <1>2, <2>3
  <2> QED BY <2>2, <2>4
<1>14. f[0] = b /\ DOMAIN f = 0 .. Depth
  BY <1>8, HalfAsMany
<1> QED BY <1>9, <1>12, <1>13, <1>14 DEF IsSums

\* The size of a pulse, and of a block's.
LEMMA HalvedIs ==
  ASSUME NEW block \in [1 .. Width -> Int], NEW n \in Nat
  PROVE  /\ Halved(block, n) \in [1 .. Width -> Nat]
         /\ Halved(block, n) = [k \in 1 .. Width |-> Size(block[k]) \div Pow2[n]]
         /\ \A k \in 1 .. Width : Size(block[k]) \in Nat
<1>1. Pow2[n] \in Nat /\ Pow2[n] > 0
  <2>1. Pow2[n] \in Nat \ {0}
    BY PowersDouble
  <2> QED BY <2>1
<1>2. \A k \in 1 .. Width : Size(block[k]) \in Nat
  BY DEF Size
<1>3. ASSUME NEW x \in Nat, NEW y \in Nat, y > 0 PROVE x \div y \in Nat
  BY <1>3
<1>4. \A k \in 1 .. Width : Size(block[k]) \div Pow2[n] \in Nat
  BY <1>1, <1>2, <1>3
<1>5. Halved(block, n) = [k \in 1 .. Width |-> Size(block[k]) \div Pow2[n]]
  BY DEF Halved
<1> QED BY <1>2, <1>4, <1>5

\* Numbers that are finitely many have a bound.
LEMMA Bounded ==
  ASSUME NEW n \in Nat, NEW f \in [1 .. n -> Nat]
  PROVE  \E b \in Nat : \A k \in 1 .. n : f[k] <= b
<1> DEFINE S == {m \in Nat : m <= n => \E b \in Nat : \A k \in 1 .. m : f[k] <= b}
<1>1. 0 \in S
  OBVIOUS
<1>2. ASSUME NEW m \in Nat, m \in S PROVE m + 1 \in S
  <2> SUFFICES ASSUME m + 1 <= n PROVE \E b \in Nat : \A k \in 1 .. m + 1 : f[k] <= b
    OBVIOUS
  <2>1. PICK b \in Nat : \A k \in 1 .. m : f[k] <= b
    BY <1>2
  <2>2. f[m + 1] \in Nat
    OBVIOUS
  <2>3. b + f[m + 1] \in Nat /\ \A k \in 1 .. m + 1 : f[k] <= b + f[m + 1]
    <3>1. ASSUME NEW k \in 1 .. m + 1 PROVE f[k] <= b + f[m + 1]
      <4>1. CASE k = m + 1
        BY <2>2, <4>1
      <4>2. CASE k # m + 1
        <5>1. k \in 1 .. m /\ f[k] \in Nat
          BY <4>2
        <5> QED BY <2>1, <2>2, <5>1
      <4> QED BY <4>1, <4>2
    <3> QED BY <2>2, <3>1
  <2> QED BY <2>3
<1> HIDE DEF S
<1>3. n \in S
  BY <1>1, <1>2, Induction
<1> QED BY <1>3 DEF S

\* 2^n is more than n.
LEMMA PowersExceed == \A n \in Nat : n < Pow2[n]
<1> DEFINE S == {n \in Nat : n < Pow2[n]}
<1>1. 0 \in S
  BY PowersDouble
<1>2. ASSUME NEW n \in Nat, n \in S PROVE n + 1 \in S
  <2>1. Pow2[n + 1] = 2 * Pow2[n] /\ Pow2[n] \in Nat /\ n < Pow2[n]
    BY <1>2, PowersDouble
  <2> QED BY <2>1
<1> HIDE DEF S
<1>3. \A n \in Nat : n \in S
  BY <1>1, <1>2, Induction
<1> QED BY <1>3 DEF S

\* Nothing has no sums.
LEMMA NothingFits ==
  ASSUME NEW b \in [1 .. Width -> Nat], \A k \in 1 .. Width : b[k] = 0
  PROVE  Fits(Sums(b))
<1> DEFINE sums == Sums(b)
<1>1. IsSums(sums, b)
  BY SumsAre
<1> HIDE DEF sums
<1> DEFINE S == {d \in Nat : d <= Depth => \A k \in 1 .. Pow2[Depth - d] : sums[d][k] = 0}
<1>2. 0 \in S
  BY <1>1, HalfAsMany DEF IsSums
<1>3. ASSUME NEW d \in Nat, d \in S PROVE d + 1 \in S
  <2> SUFFICES ASSUME d + 1 <= Depth, NEW k \in 1 .. Pow2[Depth - (d + 1)]
               PROVE  sums[d + 1][k] = 0
    OBVIOUS
  <2>1. d + 1 \in 1 .. Depth /\ (d + 1) - 1 = d /\ d \in 0 .. Depth /\ d + 1 \in 0 .. Depth
    BY HalfAsMany
  <2>2. Pow2[Depth - d] = 2 * Pow2[Depth - (d + 1)] /\ Pow2[Depth - (d + 1)] \in Nat
    BY <2>1, HalfAsMany
  <2>3. 2 * k - 1 \in 1 .. Pow2[Depth - d] /\ 2 * k \in 1 .. Pow2[Depth - d]
    BY <2>2
  <2>4. sums[d][2 * k - 1] = 0 /\ sums[d][2 * k] = 0
    BY <1>3, <2>1, <2>3
  <2>5. sums[d + 1][k] = sums[d][2 * k - 1] + sums[d][2 * k]
    BY <1>1, <2>1 DEF IsSums
  <2> QED BY <2>4, <2>5
<1> HIDE DEF S
<1>4. \A d \in Nat : d \in S
  BY <1>2, <1>3, Induction
<1>5. ASSUME NEW d \in 1 .. Depth, NEW k \in DOMAIN sums[d]
      PROVE  sums[d][k] <= max_pulses_table[d]
  <2>1. d \in 0 .. Depth /\ d \in Nat /\ d <= Depth
    BY HalfAsMany
  <2>2. k \in 1 .. Pow2[Depth - d]
    BY <1>1, <2>1 DEF IsSums
  <2>3. sums[d][k] = 0
    BY <1>4, <2>1, <2>2 DEF S
  <2>4. max_pulses_table[d] \in Nat
    BY PulsesAssumption
  <2> QED BY <2>3, <2>4
<1> QED BY <1>5 DEF Fits, sums

\* The number of shifts leaves sums that have entries in the tables.
LEMMA ShiftsFit ==
  ASSUME NEW block \in [1 .. Width -> Int]
  PROVE  nRshifts(block) \in Nat /\ Fits(Sums(Halved(block, nRshifts(block))))
<1> DEFINE T == {Size(block[k]) : k \in DOMAIN block}
           enough == Max(T)
           U == {n \in 0 .. enough : Fits(Sums(Halved(block, n)))}
           f == [k \in 1 .. Width |-> Size(block[k])]
<1>1. Width \in Nat /\ Width > 0
  BY HalfAsMany
<1>2. \A k \in 1 .. Width : Size(block[k]) \in Nat
  BY HalvedIs
<1>3. f \in [1 .. Width -> Nat]
  BY <1>2
<1>4. PICK b \in Nat : \A k \in 1 .. Width : f[k] <= b
  <2> HIDE DEF f
  <2> QED BY <1>1, <1>3, Bounded
<1>5. T \subseteq Nat /\ \A m \in T : m <= b
  BY <1>2, <1>4
<1>6. T # {}
  <2>1. 1 \in DOMAIN block
    BY <1>1
  <2>2. Size(block[1]) \in T
    BY <2>1
  <2> QED BY <2>2
<1>7. enough \in T /\ \A m \in T : m <= enough
  <2> HIDE DEF T
  <2>1. b \in Int
    OBVIOUS
  <2> QED BY <1>5, <1>6, <2>1, MaxIs
<1>8. enough \in Nat /\ \A k \in 1 .. Width : Size(block[k]) <= enough
  BY <1>5, <1>7
<1> HIDE DEF enough
<1>9. ASSUME NEW k \in 1 .. Width PROVE Halved(block, enough)[k] = 0
  <2> DEFINE x == Size(block[k])
             y == Pow2[enough]
  <2>1. x \in Nat /\ x <= enough /\ y \in Nat /\ enough < y
    BY <1>2, <1>8, PowersExceed, PowersDouble
  <2>2. Halved(block, enough)[k] = x \div y
    BY <1>8, HalvedIs
  <2> HIDE DEF x, y
  <2>3. x = 0 * y + x /\ x < y /\ 0 <= x /\ y > 0
    BY <1>8, <2>1
  <2>4. x \div y = 0
    BY <2>1, <2>3, RemainderIs
  <2> QED BY <2>2, <2>4
<1>10. Halved(block, enough) \in [1 .. Width -> Nat]
  BY <1>8, HalvedIs
<1>11. enough \in U
  <2>1. Fits(Sums(Halved(block, enough)))
    BY <1>9, <1>10, NothingFits
  <2> QED BY <1>8, <2>1
<1>12. nRshifts(block) = Min(U)
  BY DEF nRshifts, enough
<1>13. U \subseteq Nat /\ U # {}
  BY <1>8, <1>11
<1>14. Min(U) \in U
  <2> HIDE DEF U
  <2> QED BY <1>13, MinIs
<1> QED BY <1>12, <1>13, <1>14
-----------------------------------------------------------------------------
(* The shell coder: sums are split into their halves, and put together.    *)

\* The symbol that says how a sum is split.
SplitSymbol(sums, d, k) ==
  IF sums[d][k] > 0 THEN <<Symbol(ShellTable(d, sums[d][k]), sums[d - 1][2 * k - 1])>> ELSE <<>>

\* What the encoder writes for the sums of each depth.
IsSplit(split, sums) ==
  /\ \A d \in 0 .. Depth : \A k \in 1 .. Pow2[Depth - d] : Sequence(split[d][k])
  /\ \A k \in 1 .. Width : split[0][k] = <<>>
  /\ \A d \in 1 .. Depth : \A k \in 1 .. Pow2[Depth - d] :
       split[d][k] = SplitSymbol(sums, d, k) \o split[d - 1][2 * k - 1] \o split[d - 1][2 * k]

\* The halves of a sum are sums of the depth below.
LEMMA HalvesAre ==
  ASSUME NEW sums, NEW b, IsSums(sums, b), NEW d \in 1 .. Depth, NEW k \in 1 .. Pow2[Depth - d]
  PROVE  /\ d \in 0 .. Depth /\ d - 1 \in 0 .. Depth
         /\ 2 * k - 1 \in 1 .. Pow2[Depth - (d - 1)] /\ 2 * k \in 1 .. Pow2[Depth - (d - 1)]
         /\ sums[d][k] \in Nat
         /\ sums[d - 1][2 * k - 1] \in Nat /\ sums[d - 1][2 * k] \in Nat
         /\ sums[d][k] = sums[d - 1][2 * k - 1] + sums[d - 1][2 * k]
<1>1. d \in 0 .. Depth /\ d - 1 \in 0 .. Depth
  BY HalfAsMany
<1>2. Pow2[Depth - (d - 1)] = 2 * Pow2[Depth - d] /\ Pow2[Depth - d] \in Nat
  BY <1>1, HalfAsMany
<1>3. 2 * k - 1 \in 1 .. Pow2[Depth - (d - 1)] /\ 2 * k \in 1 .. Pow2[Depth - (d - 1)]
  BY <1>2
<1>4. /\ sums[d] \in [1 .. Pow2[Depth - d] -> Nat]
      /\ sums[d - 1] \in [1 .. Pow2[Depth - (d - 1)] -> Nat]
      /\ sums[d][k] = sums[d - 1][2 * k - 1] + sums[d - 1][2 * k]
  BY <1>1 DEF IsSums
<1>5. sums[d][k] \in Nat
  BY <1>4
<1>6. sums[d - 1][2 * k - 1] \in Nat /\ sums[d - 1][2 * k] \in Nat
  BY <1>3, <1>4
<1> QED BY <1>1, <1>3, <1>4, <1>5, <1>6

LEMMA SplitIs ==
  ASSUME NEW sums, NEW b, IsSums(sums, b)
  PROVE  \E split : IsSplit(split, sums) /\ shell_encoder(sums) = split[Depth][1]
<1> DEFINE T == {Symbol(ShellTable(d, p), child) : d \in 1 .. Depth, p \in Nat, child \in Nat}
           Q == Seq(T)
           type == [d \in 0 .. Depth |-> [1 .. Pow2[Depth - d] -> Q]]
           none == [k \in DOMAIN sums[0] |-> <<>>]
           Both(d, h) == [k \in DOMAIN sums[d] |->
                            SplitSymbol(sums, d, k) \o h[2 * k - 1] \o h[2 * k]]
           step == [d \in 1 .. Depth |-> [h \in type[d - 1] |-> Both(d, h)]]
           Solves(f) == f = [d \in 0 .. Depth |-> IF d = 0 THEN none ELSE Both(d, f[d - 1])]
<1>1. <<>> \in Q /\ \A v, w \in Q : v \o w \in Q
  <2> HIDE DEF T
  <2> QED BY EmptySeq, ConcatProperties
<1>2. Depth \in Nat /\ 0 \in 0 .. Depth
  BY HalfAsMany
<1>3. \A d \in 0 .. Depth : DOMAIN sums[d] = 1 .. Pow2[Depth - d]
  BY DEF IsSums
<1>4. ASSUME NEW d \in 1 .. Depth, NEW k \in 1 .. Pow2[Depth - d]
      PROVE  SplitSymbol(sums, d, k) \in Q
  <2> DEFINE e == Symbol(ShellTable(d, sums[d][k]), sums[d - 1][2 * k - 1])
  <2>1. sums[d][k] \in Nat /\ sums[d - 1][2 * k - 1] \in Nat
    BY HalvesAre
  <2>2. e \in T
    BY <2>1
  <2>3. <<e>> \in Q
    <3> HIDE DEF e, T
    <3> QED BY <2>2
  <2> HIDE DEF Q
  <2> QED BY <1>1, <2>3 DEF SplitSymbol
<1>5. none \in type[0]
  <2>1. DOMAIN sums[0] = 1 .. Pow2[Depth - 0]
    BY <1>2, <1>3
  <2>2. type[0] = [1 .. Pow2[Depth - 0] -> Q]
    BY <1>2
  <2> HIDE DEF Q, type
  <2> QED BY <1>1, <2>1, <2>2
<1> HIDE DEF Q
<1>6. ASSUME NEW d \in 1 .. Depth, NEW h \in type[d - 1] PROVE Both(d, h) \in type[d]
  <2>1. d \in 0 .. Depth /\ d - 1 \in 0 .. Depth
    BY <1>2
  <2>2. type[d - 1] = [1 .. Pow2[Depth - (d - 1)] -> Q] /\ type[d] = [1 .. Pow2[Depth - d] -> Q]
    BY <2>1
  <2> HIDE DEF type
  <2>3. ASSUME NEW k \in 1 .. Pow2[Depth - d]
        PROVE  SplitSymbol(sums, d, k) \o h[2 * k - 1] \o h[2 * k] \in Q
    <3>1. 2 * k - 1 \in 1 .. Pow2[Depth - (d - 1)] /\ 2 * k \in 1 .. Pow2[Depth - (d - 1)]
      BY HalvesAre
    <3>2. h[2 * k - 1] \in Q /\ h[2 * k] \in Q
      BY <2>2, <3>1
    <3>3. SplitSymbol(sums, d, k) \o h[2 * k - 1] \in Q
      BY <1>1, <1>4, <3>2
    <3> QED BY <1>1, <3>2, <3>3
  <2>4. DOMAIN sums[d] = 1 .. Pow2[Depth - d]
    BY <1>3, <2>1
  <2> QED BY <2>2, <2>3, <2>4
<1>7. \A d \in 1 .. Depth : step[d] \in [type[d - 1] -> type[d]]
  <2> HIDE DEF type, Both
  <2> QED BY <1>6
<1> HIDE DEF none
<1>8. PICK g : IsRecursion(g, Depth, type, none, step)
  <2> HIDE DEF type, step
  <2> QED BY <1>2, <1>5, <1>7, RecursionIs
<1>9. /\ g = [d \in 0 .. Depth |-> IF d = 0 THEN none ELSE step[d][g[d - 1]]]
      /\ \A d \in 0 .. Depth : g[d] \in type[d]
  BY <1>8 DEF IsRecursion
<1>10. ASSUME NEW d \in 0 .. Depth PROVE g[d] = IF d = 0 THEN none ELSE Both(d, g[d - 1])
  <2> HIDE DEF type, Both
  <2>1. CASE d = 0
    BY <1>9, <2>1
  <2>2. CASE d # 0
    <3>1. d \in 1 .. Depth /\ d - 1 \in 0 .. Depth
      BY <1>2, <2>2
    <3>2. step[d] = [h \in type[d - 1] |-> Both(d, h)]
      BY <3>1
    <3>3. g[d - 1] \in type[d - 1] /\ g[d] = step[d][g[d - 1]]
      BY <1>9, <2>2, <3>1
    <3> HIDE DEF step
    <3> QED BY <2>2, <3>2, <3>3
  <2> QED BY <2>1, <2>2
<1>11. Solves(g)
  <2> HIDE DEF type, step, Both
  <2> QED BY <1>9, <1>10
<1> DEFINE f == CHOOSE h : Solves(h)
<1>12. Solves(f)
  <2> HIDE DEF Solves
  <2> QED BY <1>11
<1>13. shell_encoder(sums) = f[Depth][1]
  BY DEF shell_encoder, SplitSymbol, none
<1> HIDE DEF f
<1>14. \A d \in 0 .. Depth : f[d] = IF d = 0 THEN none ELSE Both(d, f[d - 1])
  <2> HIDE DEF Both
  <2> QED BY <1>12
<1>15. \A d \in 0 .. Depth : f[d] = g[d]
  <2> HIDE DEF Both
  <2>1. f[0] = g[0]
    BY <1>2, <1>10, <1>14
  <2>2. ASSUME NEW d \in 1 .. Depth, f[d - 1] = g[d - 1] PROVE f[d] = g[d]
    <3>1. d \in 0 .. Depth /\ d # 0
      BY <1>2
    <3> QED BY <1>10, <1>14, <2>2, <3>1
  <2> HIDE DEF Solves, step
  <2> QED BY <1>2, <2>1, <2>2, SameAlong
<1>16. ASSUME NEW d \in 0 .. Depth, NEW k \in 1 .. Pow2[Depth - d] PROVE Sequence(f[d][k])
  <2>1. f[d] \in [1 .. Pow2[Depth - d] -> Q]
    BY <1>9, <1>15
  <2>2. f[d][k] \in Q
    BY <2>1
  <2> QED BY <2>2, LenProperties DEF Q, Sequence
<1>17. ASSUME NEW k \in 1 .. Width PROVE f[0][k] = <<>>
  <2>1. DOMAIN sums[0] = 1 .. Width
    BY <1>2, <1>3, HalfAsMany
  <2>2. f[0] = none
    BY <1>2, <1>14
  <2> QED BY <2>1, <2>2 DEF none
<1>18. ASSUME NEW d \in 1 .. Depth, NEW k \in 1 .. Pow2[Depth - d]
       PROVE  f[d][k] = SplitSymbol(sums, d, k) \o f[d - 1][2 * k - 1] \o f[d - 1][2 * k]
  <2>1. d \in 0 .. Depth /\ d # 0
    BY <1>2
  <2>2. f[d] = Both(d, f[d - 1]) /\ DOMAIN sums[d] = 1 .. Pow2[Depth - d]
    BY <1>3, <1>14, <2>1
  <2> QED BY <2>2
<1> QED BY <1>13, <1>16, <1>17, <1>18 DEF IsSplit

\* What the decoder reads of a part, from what it reads of the halves.
Joined(s, below, d, p, at) ==
  LET child1 == Read(s, at, ShellTable(d, p))
      one == below[<<child1, at + 1>>]
      two == below[<<p - child1, one.at>>]
  IN [q |-> one.q \o two.q, at |-> two.at]

NonePart(d, at) == [q |-> [k \in 1 .. Pow2[d] |-> 0], at |-> at]

IsJoin(join, s) ==
  /\ \A p \in Int, at \in Nat : join[0][<<p, at>>] = [q |-> <<p>>, at |-> at]
  /\ \A d \in 1 .. Depth : \A p \in Int, at \in Nat :
       join[d][<<p, at>>] = IF p <= 0 THEN NonePart(d, at) ELSE Joined(s, join[d - 1], d, p, at)

\* Symbols whose data are numbers.
HasData(s) == Sequence(s) /\ \A i \in 1 .. Len(s) : s[i].data \in Int

LEMMA ReadIsNumber ==
  ASSUME NEW s, HasData(s), NEW at, NEW table
  PROVE  Read(s, at, table) \in Int
<1>1. DOMAIN s = 1 .. Len(s)
  BY DEF HasData, Sequence
<1> QED BY <1>1 DEF HasData, Read, Lost

LEMMA JoinIs ==
  ASSUME NEW s, HasData(s)
  PROVE  \E join : /\ IsJoin(join, s)
                  /\ \A p \in Int, at \in Nat : shell_decoder(s, at, p) = join[Depth][<<p, at>>]
<1> DEFINE Q == Seq(Int)
           R == [q : Q, at : Nat]
           X == Int \X Nat
           type == [d \in 0 .. Depth |-> [X -> R]]
           first == [x \in X |-> [q |-> <<x[1]>>, at |-> x[2]]]
           Over(d, h) == [x \in X |-> IF x[1] <= 0 THEN NonePart(d, x[2])
                                      ELSE Joined(s, h, d, x[1], x[2])]
           step == [d \in 1 .. Depth |-> [h \in type[d - 1] |-> Over(d, h)]]
           Solves(f) == f = [d \in 0 .. Depth |-> IF d = 0 THEN first ELSE Over(d, f[d - 1])]
<1>1. Depth \in Nat /\ 0 \in 0 .. Depth
  BY HalfAsMany
<1>2. \A v, w \in Q : v \o w \in Q
  BY ConcatProperties
<1>3. ASSUME NEW p \in Int PROVE <<p>> \in Q
  OBVIOUS
<1>4. ASSUME NEW d \in 1 .. Depth, NEW at \in Nat PROVE NonePart(d, at) \in R
  <2>1. Pow2[d] \in Nat
    BY <1>1, HalfAsMany
  <2> DEFINE z == [k \in 1 .. Pow2[d] |-> 0]
  <2>2. z = [k \in 1 .. Pow2[d] |-> z[k]] /\ \A k \in 1 .. Pow2[d] : z[k] \in Int
    OBVIOUS
  <2>3. NonePart(d, at) = [q |-> z, at |-> at]
    BY DEF NonePart
  <2> HIDE DEF z
  <2>4. Sequence(z) /\ Len(z) = Pow2[d]
    BY <2>1, <2>2, FunctionIsSequence
  <2>5. z \in Q
    BY <2>2, <2>4, InSeq
  <2> HIDE DEF Q
  <2> QED BY <2>3, <2>5
<1> HIDE DEF Q
<1>5. first \in type[0]
  <2>1. \A x \in X : [q |-> <<x[1]>>, at |-> x[2]] \in R
    BY <1>3
  <2>2. type[0] = [X -> R]
    BY <1>1
  <2> HIDE DEF type, X, R
  <2> QED BY <2>1, <2>2
<1>6. ASSUME NEW d \in 1 .. Depth, NEW h \in [X -> R] PROVE Over(d, h) \in [X -> R]
  <2>1. ASSUME NEW p \in Int, NEW at \in Nat PROVE Joined(s, h, d, p, at) \in R
    <3> DEFINE child1 == Read(s, at, ShellTable(d, p))
               one == h[<<child1, at + 1>>]
               two == h[<<p - child1, one.at>>]
    <3>1. child1 \in Int
      BY ReadIsNumber
    <3>2. Joined(s, h, d, p, at) = [q |-> one.q \o two.q, at |-> two.at]
      BY DEF Joined
    <3> HIDE DEF child1
    <3>3. <<child1, at + 1>> \in X
      BY <3>1
    <3>4. one \in R
      <4> HIDE DEF R, X
      <4> QED BY <3>3
    <3>5. one.q \in Q /\ one.at \in Nat
      BY <3>4
    <3> HIDE DEF one
    <3>6. <<p - child1, one.at>> \in X
      BY <3>1, <3>5
    <3>7. two \in R
      <4> HIDE DEF R, X
      <4> QED BY <3>6
    <3>8. two.q \in Q /\ two.at \in Nat
      BY <3>7
    <3> HIDE DEF two
    <3> QED BY <1>2, <3>2, <3>5, <3>8
  <2>2. ASSUME NEW x \in X
        PROVE  (IF x[1] <= 0 THEN NonePart(d, x[2]) ELSE Joined(s, h, d, x[1], x[2])) \in R
    <3>1. x[1] \in Int /\ x[2] \in Nat
      OBVIOUS
    <3> HIDE DEF R
    <3> QED BY <1>4, <2>1, <3>1
  <2> HIDE DEF X, R
  <2> QED BY <2>2
<1>7. \A d \in 0 .. Depth : type[d] = [X -> R]
  OBVIOUS
<1> HIDE DEF R, X, Over, first
<1>8. \A d \in 1 .. Depth : step[d] \in [type[d - 1] -> type[d]]
  <2> SUFFICES ASSUME NEW d \in 1 .. Depth PROVE step[d] \in [type[d - 1] -> type[d]]
    OBVIOUS
  <2>1. type[d - 1] = [X -> R] /\ type[d] = [X -> R]
    BY <1>1
  <2>2. step[d] = [h \in type[d - 1] |-> Over(d, h)]
    OBVIOUS
  <2> HIDE DEF type, step
  <2> QED BY <1>6, <2>1, <2>2
<1>9. PICK g : IsRecursion(g, Depth, type, first, step)
  <2> HIDE DEF type, step
  <2> QED BY <1>1, <1>5, <1>8, RecursionIs
<1>10. /\ g = [d \in 0 .. Depth |-> IF d = 0 THEN first ELSE step[d][g[d - 1]]]
       /\ \A d \in 0 .. Depth : g[d] \in type[d]
  BY <1>9 DEF IsRecursion
<1>11. ASSUME NEW d \in 0 .. Depth PROVE g[d] = IF d = 0 THEN first ELSE Over(d, g[d - 1])
  <2> HIDE DEF type
  <2>1. CASE d = 0
    BY <1>10, <2>1
  <2>2. CASE d # 0
    <3>1. d \in 1 .. Depth /\ d - 1 \in 0 .. Depth
      BY <1>1, <2>2
    <3>2. step[d] = [h \in type[d - 1] |-> Over(d, h)]
      BY <3>1
    <3>3. g[d - 1] \in type[d - 1] /\ g[d] = step[d][g[d - 1]]
      BY <1>10, <2>2, <3>1
    <3> HIDE DEF step
    <3> QED BY <2>2, <3>2, <3>3
  <2> QED BY <2>1, <2>2
<1>12. Solves(g)
  <2> HIDE DEF type, step
  <2> QED BY <1>10, <1>11
<1> DEFINE f == CHOOSE h : Solves(h)
<1>13. Solves(f)
  <2> HIDE DEF Solves
  <2> QED BY <1>12
<1>14. ASSUME NEW p \in Int, NEW at \in Nat PROVE shell_decoder(s, at, p) = f[Depth][<<p, at>>]
  BY DEF shell_decoder, Joined, NonePart, first, Over, X
<1> HIDE DEF f
<1>15. \A d \in 0 .. Depth : f[d] = IF d = 0 THEN first ELSE Over(d, f[d - 1])
  BY <1>13
<1>16. ASSUME NEW p \in Int, NEW at \in Nat PROVE f[0][<<p, at>>] = [q |-> <<p>>, at |-> at]
  <2>1. f[0] = first /\ <<p, at>> \in X
    BY <1>1, <1>15 DEF X
  <2> QED BY <2>1 DEF first
<1>17. ASSUME NEW d \in 1 .. Depth, NEW p \in Int, NEW at \in Nat
       PROVE  f[d][<<p, at>>]
              = IF p <= 0 THEN NonePart(d, at) ELSE Joined(s, f[d - 1], d, p, at)
  <2>1. d \in 0 .. Depth /\ d # 0 /\ <<p, at>> \in X
    BY <1>1 DEF X
  <2>2. f[d] = Over(d, f[d - 1])
    BY <1>15, <2>1
  <2>3. Over(d, f[d - 1])[<<p, at>>]
        = IF p <= 0 THEN NonePart(d, at) ELSE Joined(s, f[d - 1], d, p, at)
    BY <2>1 DEF Over
  <2> QED BY <2>2, <2>3
<1> QED BY <1>14, <1>16, <1>17 DEF IsJoin

\* The pulses that a sum is of.
Piece(b, d, k) == [j \in 1 .. Pow2[d] |-> b[(k - 1) * Pow2[d] + j]]

\* They are those of its halves.
LEMMA PiecesJoin ==
  ASSUME NEW b, NEW d \in 1 .. Depth, NEW k \in Nat, k >= 1
  PROVE  Piece(b, d - 1, 2 * k - 1) \o Piece(b, d - 1, 2 * k) = Piece(b, d, k)
<1> DEFINE P == Pow2[d - 1]
           u == Piece(b, d - 1, 2 * k - 1)
           v == Piece(b, d - 1, 2 * k)
           w == Piece(b, d, k)
           start == (k - 1) * (2 * P)
<1>1. P \in Nat /\ Pow2[d] = 2 * P
  <2>1. d - 1 \in 0 .. Depth
    BY HalfAsMany
  <2> QED BY <2>1, HalfAsMany
<1>2. /\ ((2 * k - 1) - 1) * P = start /\ (2 * k - 1) * P = start + P
      /\ (k - 1) * Pow2[d] = start /\ start \in Nat
  <2>1. \A x, y \in Int : (2 * x - 1 - 1) * y = (x - 1) * (2 * y)
                          /\ (2 * x - 1) * y = (x - 1) * (2 * y) + y
    OBVIOUS
  <2>2. \A x, y \in Nat : x * y \in Nat
    OBVIOUS
  <2>3. k - 1 \in Nat /\ 2 * P \in Nat
    BY <1>1
  <2> HIDE DEF P
  <2> QED BY <1>1, <2>1, <2>2, <2>3
<1>3. u = [j \in 1 .. P |-> b[start + j]]
  BY <1>2 DEF Piece
<1>4. v = [j \in 1 .. P |-> b[(start + P) + j]]
  BY <1>2 DEF Piece
<1>5. w = [j \in 1 .. 2 * P |-> b[start + j]]
  BY <1>1, <1>2 DEF Piece
<1> HIDE DEF P, u, v, w, start
<1>6. Sequence(u) /\ Len(u) = P /\ Sequence(v) /\ Len(v) = P
  <2>1. u = [j \in 1 .. P |-> u[j]] /\ v = [j \in 1 .. P |-> v[j]]
    BY <1>3, <1>4
  <2> QED BY <1>1, <2>1, FunctionIsSequence
<1>7. /\ Sequence(u \o v) /\ Len(u \o v) = 2 * P
      /\ \A i \in 1 .. 2 * P : (u \o v)[i] = IF i <= P THEN u[i] ELSE v[i - P]
  <2>1. Len(u) + Len(v) = 2 * P
    BY <1>1, <1>6
  <2> QED BY <1>6, <2>1, Concatenated
<1>8. ASSUME NEW i \in 1 .. 2 * P PROVE (u \o v)[i] = b[start + i]
  <2>1. CASE i <= P
    <3>1. i \in 1 .. P
      BY <1>1, <2>1
    <3> QED BY <1>3, <1>7, <2>1, <3>1
  <2>2. CASE ~(i <= P)
    <3>1. i - P \in 1 .. P /\ (start + P) + (i - P) = start + i
      BY <1>1, <1>2, <2>2
    <3> QED BY <1>4, <1>7, <2>2, <3>1
  <2> QED BY <2>1, <2>2
<1>9. u \o v = [i \in 1 .. 2 * P |-> (u \o v)[i]]
  BY <1>7 DEF Sequence
<1>10. u \o v = w
  BY <1>5, <1>8, <1>9
<1> QED BY <1>10 DEF u, v, w

\* Nothing is written for nothing, and nothing is what was there.
LEMMA NothingIsSplit ==
  ASSUME NEW sums, NEW b \in [1 .. Width -> Nat], IsSums(sums, b), NEW split, IsSplit(split, sums),
         NEW d \in 0 .. Depth, NEW k \in 1 .. Pow2[Depth - d], sums[d][k] = 0
  PROVE  split[d][k] = <<>> /\ Piece(b, d, k) = [j \in 1 .. Pow2[d] |-> 0]
<1> DEFINE Zero(e) == [j \in 1 .. Pow2[e] |-> 0]
           S == {e \in Nat : e <= Depth =>
                   \A i \in 1 .. Pow2[Depth - e] :
                     sums[e][i] = 0 => split[e][i] = <<>> /\ Piece(b, e, i) = Zero(e)}
<1>1. 0 \in S
  <2> SUFFICES ASSUME NEW i \in 1 .. Pow2[Depth - 0], sums[0][i] = 0
               PROVE  split[0][i] = <<>> /\ Piece(b, 0, i) = Zero(0)
    BY DEF Zero
  <2>1. i \in 1 .. Width /\ Pow2[0] = 1
    BY HalfAsMany
  <2>2. b[i] = 0
    BY DEF IsSums
  <2>3. \A j \in 1 .. 1 : (i - 1) * 1 + j = i
    BY <2>1
  <2> QED BY <2>1, <2>2, <2>3 DEF IsSplit, Piece
<1>2. ASSUME NEW e \in Nat, e \in S PROVE e + 1 \in S
  <2> SUFFICES ASSUME e + 1 <= Depth, NEW i \in 1 .. Pow2[Depth - (e + 1)], sums[e + 1][i] = 0
               PROVE  split[e + 1][i] = <<>> /\ Piece(b, e + 1, i) = Zero(e + 1)
    BY DEF Zero
  <2> DEFINE d1 == e + 1
             x == 2 * i - 1
             y == 2 * i
  <2>1. d1 \in 1 .. Depth /\ d1 - 1 = e /\ e <= Depth
    BY HalfAsMany
  <2>2. /\ x \in 1 .. Pow2[Depth - e] /\ y \in 1 .. Pow2[Depth - e]
        /\ sums[e][x] \in Nat /\ sums[e][y] \in Nat /\ sums[d1][i] = sums[e][x] + sums[e][y]
    <3>1. i \in 1 .. Pow2[Depth - d1]
      OBVIOUS
    <3> HIDE DEF d1
    <3> QED BY <2>1, <3>1, HalvesAre
  <2>3. sums[e][x] = 0 /\ sums[e][y] = 0
    <3> DEFINE one == sums[e][x]
               two == sums[e][y]
    <3>1. one \in Nat /\ two \in Nat /\ 0 = one + two
      BY <2>2
    <3> HIDE DEF one, two
    <3>2. one = 0 /\ two = 0
      BY ONLY <3>1
    <3> QED BY <3>2 DEF one, two
  <2>4. /\ split[e][x] = <<>> /\ Piece(b, e, x) = Zero(e)
        /\ split[e][y] = <<>> /\ Piece(b, e, y) = Zero(e)
    <3> HIDE DEF x, y, Zero
    <3> QED BY <1>2, <2>1, <2>2, <2>3
  <2>5. split[d1][i] = <<>> \o <<>> \o <<>>
    <3>1. split[d1][i] = SplitSymbol(sums, d1, i) \o split[e][x] \o split[e][y]
      <4>1. i \in 1 .. Pow2[Depth - d1]
        OBVIOUS
      <4>2. split[d1][i] = SplitSymbol(sums, d1, i) \o split[d1 - 1][x] \o split[d1 - 1][y]
        <5> HIDE DEF d1
        <5> QED BY <2>1, <4>1 DEF IsSplit
      <4> QED BY <2>1, <4>2
    <3>2. SplitSymbol(sums, d1, i) = <<>>
      BY DEF SplitSymbol
    <3> QED BY <2>4, <3>1, <3>2
  <2>6. split[d1][i] = <<>>
    BY <2>5
  <2>7. Piece(b, d1, i) = Zero(e) \o Zero(e)
    <3>1. i \in Nat /\ i >= 1
      BY <2>1, HalfAsMany
    <3>2. Piece(b, d1 - 1, x) \o Piece(b, d1 - 1, y) = Piece(b, d1, i)
      <4> HIDE DEF d1
      <4> QED BY <2>1, <3>1, PiecesJoin
    <3> QED BY <2>1, <2>4, <3>2
  <2>8. Zero(e) \o Zero(e) = Zero(d1)
    <3> DEFINE P == Pow2[e]
               z == Zero(e)
    <3>1. P \in Nat /\ Pow2[d1] = 2 * P
      <4>1. e \in 0 .. Depth
        BY <2>1
      <4> QED BY <2>1, <4>1, HalfAsMany
    <3>2. z = [j \in 1 .. P |-> z[j]] /\ \A j \in 1 .. P : z[j] = 0
      OBVIOUS
    <3> HIDE DEF P, z
    <3>3. Sequence(z) /\ Len(z) = P
      BY <3>1, <3>2, FunctionIsSequence
    <3>4. /\ Sequence(z \o z) /\ Len(z \o z) = 2 * P
          /\ \A j \in 1 .. 2 * P : (z \o z)[j] = IF j <= P THEN z[j] ELSE z[j - P]
      <4>1. Len(z) + Len(z) = 2 * P
        BY <3>1, <3>3
      <4> QED BY <3>3, <4>1, Concatenated
    <3>5. \A j \in 1 .. 2 * P : (z \o z)[j] = 0
      BY <3>1, <3>2, <3>4
    <3>6. z \o z = [j \in 1 .. 2 * P |-> (z \o z)[j]]
      BY <3>4 DEF Sequence
    <3>7. z \o z = [j \in 1 .. 2 * P |-> 0]
      BY <3>5, <3>6
    <3> QED BY <3>1, <3>7 DEF z
  <2> QED BY <2>6, <2>7, <2>8
<1> HIDE DEF S
<1>3. \A e \in Nat : e \in S
  BY <1>1, <1>2, Induction
<1>4. d \in Nat /\ d <= Depth
  BY HalfAsMany
<1> QED BY <1>3, <1>4 DEF S, Zero

\* What the decoder reads where the encoder has split a sum.
IsUnsplit(join, split, sums, b, s, d) ==
  \A k \in 1 .. Pow2[Depth - d] : \A at \in Nat :
    Holds(s, at, split[d][k])
    => join[d][<<sums[d][k], at>>] = [q |-> Piece(b, d, k), at |-> at + Len(split[d][k])]

\* If it reads the halves, it reads the sum.
LEMMA SumIsUnsplit ==
  ASSUME NEW b \in [1 .. Width -> Nat], NEW sums, IsSums(sums, b), NEW split, IsSplit(split, sums),
         NEW s, NEW join, IsJoin(join, s),
         NEW d \in 1 .. Depth, IsUnsplit(join, split, sums, b, s, d - 1)
  PROVE  IsUnsplit(join, split, sums, b, s, d)
<1> SUFFICES ASSUME NEW k \in 1 .. Pow2[Depth - d], NEW at \in Nat, Holds(s, at, split[d][k])
             PROVE  join[d][<<sums[d][k], at>>]
                    = [q |-> Piece(b, d, k), at |-> at + Len(split[d][k])]
  BY DEF IsUnsplit
<1> DEFINE x == 2 * k - 1
           y == 2 * k
           sum == sums[d][k]
           e == SplitSymbol(sums, d, k)
           u == split[d - 1][x]
           v == split[d - 1][y]
<1>1. /\ d \in 0 .. Depth /\ d - 1 \in 0 .. Depth
      /\ x \in 1 .. Pow2[Depth - (d - 1)] /\ y \in 1 .. Pow2[Depth - (d - 1)]
      /\ sum \in Nat /\ sums[d - 1][x] \in Nat /\ sums[d - 1][y] \in Nat
      /\ sum = sums[d - 1][x] + sums[d - 1][y]
  BY HalvesAre
<1>2. k \in Nat /\ k >= 1
  BY <1>1, HalfAsMany
<1>3. Piece(b, d - 1, x) \o Piece(b, d - 1, y) = Piece(b, d, k)
  BY <1>2, PiecesJoin
<1>4. Sequence(u) /\ Sequence(v) /\ split[d][k] = e \o u \o v
  BY <1>1 DEF IsSplit
<1>5. CASE sum = 0
  <2>1. split[d][k] = <<>> /\ Piece(b, d, k) = [j \in 1 .. Pow2[d] |-> 0]
    <3>1. sums[d][k] = 0 /\ d \in 0 .. Depth
      BY <1>1, <1>5
    <3> QED BY ONLY <3>1, k \in 1 .. Pow2[Depth - d], b \in [1 .. Width -> Nat],
                    IsSums(sums, b), IsSplit(split, sums), NothingIsSplit
  <2>2. join[d][<<sum, at>>] = NonePart(d, at)
    BY <1>5 DEF IsJoin
  <2>3. at + Len(split[d][k]) = at
    BY <2>1
  <2> QED BY <2>1, <2>2, <2>3 DEF NonePart
<1>6. CASE sum > 0
  <2> DEFINE symbol == Symbol(ShellTable(d, sum), sums[d - 1][x])
             child1 == Read(s, at, ShellTable(d, sum))
             one == join[d - 1][<<child1, at + 1>>]
             two == join[d - 1][<<sum - child1, one.at>>]
  <2>1. e = <<symbol>>
    BY <1>6 DEF SplitSymbol
  <2>2. Sequence(e) /\ Len(e) = 1 /\ e[1] = symbol
    BY <2>1 DEF Sequence
  <2>3. Sequence(e \o u)
    <3> HIDE DEF e, u
    <3> QED BY <1>4, <2>2, Concatenated
  <2>4. Len(e \o u) = 1 + Len(u)
    <3> HIDE DEF e, u
    <3> QED BY <1>4, <2>2, Concatenated
  <2>5. Holds(s, at, e \o u) /\ Holds(s, at + Len(e \o u), v)
    <3> HIDE DEF e, u, v
    <3> QED BY <1>4, <2>3, PartsHeld
  <2>6. Holds(s, at, e) /\ Holds(s, at + 1, u)
    <3> HIDE DEF e, u, v
    <3> QED BY <1>4, <2>2, <2>5, PartsHeld
  <2>7. child1 = sums[d - 1][x]
    <3>1. symbol.table = ShellTable(d, sum) /\ symbol.data = sums[d - 1][x]
      BY DEF Symbol
    <3>2. 1 \in 1 .. Len(e) /\ at + (1 - 1) = at
      BY <2>2
    <3>3. Read(s, at + (1 - 1), e[1].table) = e[1].data
      <4> HIDE DEF e
      <4> QED BY <2>6, <3>2, HeldIsRead
    <3> HIDE DEF e, symbol
    <3> QED BY <2>2, <3>1, <3>2, <3>3
  <2>8. Len(u) \in Nat /\ Len(v) \in Nat
    BY <1>4 DEF Sequence
  <2>9. one = [q |-> Piece(b, d - 1, x), at |-> (at + 1) + Len(u)]
    <3>1. at + 1 \in Nat /\ Holds(s, at + 1, split[d - 1][x]) /\ x \in 1 .. Pow2[Depth - (d - 1)]
      BY <1>1, <2>6
    <3> HIDE DEF x, child1
    <3>2. join[d - 1][<<sums[d - 1][x], at + 1>>]
          = [q |-> Piece(b, d - 1, x), at |-> (at + 1) + Len(split[d - 1][x])]
      BY <3>1 DEF IsUnsplit
    <3> QED BY <2>7, <3>2
  <2>10. sum - child1 = sums[d - 1][y]
    <3> HIDE DEF x, y, sum, child1
    <3> QED BY <1>1, <2>7
  <2>11. one.at = (at + 1) + Len(u) /\ one.q = Piece(b, d - 1, x)
    BY <2>9
  <2> HIDE DEF one, child1
  <2>12. one.at \in Nat /\ one.at = at + Len(e \o u)
    <3> DEFINE l == Len(u)
               m == Len(e \o u)
               w == one.at
    <3>1. at \in Nat /\ l \in Nat /\ m = 1 + l /\ w = (at + 1) + l
      BY <2>4, <2>8, <2>11
    <3> HIDE DEF l, m, w
    <3>2. w \in Nat /\ w = at + m
      BY ONLY <3>1
    <3> QED BY <3>2 DEF m, w
  <2>13. Holds(s, one.at, v)
    BY <2>5, <2>12
  <2>14. two = [q |-> Piece(b, d - 1, y), at |-> one.at + Len(v)]
    <3> HIDE DEF y
    <3> QED BY <1>1, <2>10, <2>12, <2>13 DEF IsUnsplit
  <2>15. two.at = one.at + Len(v) /\ two.q = Piece(b, d - 1, y)
    BY <2>14
  <2>16. join[d][<<sum, at>>] = [q |-> one.q \o two.q, at |-> two.at]
    <3>1. join[d][<<sum, at>>] = Joined(s, join[d - 1], d, sum, at)
      <4> HIDE DEF sum
      <4> QED BY <1>1, <1>6 DEF IsJoin
    <3> QED BY <3>1 DEF Joined, one, child1
  <2> HIDE DEF two
  <2>17. Len(split[d][k]) = (1 + Len(u)) + Len(v)
    <3> HIDE DEF e, u, v
    <3>1. Len((e \o u) \o v) = Len(e \o u) + Len(v)
      BY <1>4, <2>3, Concatenated
    <3> QED BY <1>4, <2>4, <3>1
  <2>18. two.at = at + Len(split[d][k])
    <3> HIDE DEF e, u, v
    <3>1. at \in Nat
      OBVIOUS
    <3> QED BY <2>8, <2>11, <2>15, <2>17, <3>1
  <2> HIDE DEF x, y, e, u, v, sum
  <2> QED BY <1>3, <2>11, <2>15, <2>16, <2>18 DEF sum
<1> HIDE DEF sum
<1>7. sum = 0 \/ sum > 0
  BY <1>1
<1> QED BY <1>5, <1>6, <1>7 DEF sum

\* A block is written and read.
LEMMA ShellReturns ==
  ASSUME NEW b \in [1 .. Width -> Nat], NEW s, HasData(s), NEW at,
         Holds(s, at, shell_encoder(Sums(b)))
  PROVE  /\ shell_decoder(s, at, Sums(b)[Depth][1])
            = [q |-> b, at |-> at + Len(shell_encoder(Sums(b)))]
         /\ Sequence(shell_encoder(Sums(b))) /\ Sums(b)[Depth][1] \in Nat
<1> DEFINE sums == Sums(b)
<1>1. IsSums(sums, b)
  BY SumsAre
<1> HIDE DEF sums
<1>2. PICK split : IsSplit(split, sums) /\ shell_encoder(sums) = split[Depth][1]
  BY <1>1, SplitIs
<1>3. PICK join : /\ IsJoin(join, s)
                 /\ \A p \in Int, n \in Nat : shell_decoder(s, n, p) = join[Depth][<<p, n>>]
  BY JoinIs
<1> DEFINE S == {d \in Nat : d <= Depth => IsUnsplit(join, split, sums, b, s, d)}
<1>4. 0 \in S
  <2>1. ASSUME NEW k \in 1 .. Pow2[Depth - 0], NEW n \in Nat
        PROVE  join[0][<<sums[0][k], n>>] = [q |-> Piece(b, 0, k), at |-> n + Len(split[0][k])]
    <3>1. k \in 1 .. Width /\ Pow2[0] = 1
      BY HalfAsMany
    <3>2. split[0][k] = <<>> /\ sums[0] = b
      BY <1>1, <1>2, <3>1 DEF IsSums, IsSplit
    <3>3. b[k] \in Int /\ n + Len(<<>>) = n /\ \A j \in 1 .. 1 : (k - 1) * 1 + j = k
      BY <3>1
    <3>4. join[0][<<b[k], n>>] = [q |-> <<b[k]>>, at |-> n]
      BY <1>3, <3>3 DEF IsJoin
    <3>5. Piece(b, 0, k) = <<b[k]>>
      BY <3>1, <3>3 DEF Piece
    <3> QED BY <3>2, <3>3, <3>4, <3>5
  <2> QED BY <2>1 DEF IsUnsplit
<1>5. ASSUME NEW d \in Nat, d \in S PROVE d + 1 \in S
  <2> SUFFICES ASSUME d + 1 <= Depth PROVE IsUnsplit(join, split, sums, b, s, d + 1)
    OBVIOUS
  <2> DEFINE e == d + 1
  <2>1. e \in 1 .. Depth /\ e - 1 = d /\ d <= Depth
    BY HalfAsMany
  <2>2. IsUnsplit(join, split, sums, b, s, e - 1)
    BY <1>5, <2>1
  <2> HIDE DEF e
  <2>3. IsUnsplit(join, split, sums, b, s, e)
    BY <1>1, <1>2, <1>3, <2>1, <2>2, SumIsUnsplit
  <2> QED BY <2>3 DEF e
<1> HIDE DEF S
<1>6. Depth \in Nat /\ Depth <= Depth
  BY HalfAsMany
<1>7. Depth \in S
  BY <1>4, <1>5, <1>6, Induction
<1>8. IsUnsplit(join, split, sums, b, s, Depth)
  BY <1>6, <1>7 DEF S
<1>9. 1 \in 1 .. Pow2[Depth - Depth] /\ Depth \in 0 .. Depth
  BY HalfAsMany
<1>10. at \in Nat
  BY DEF Holds
<1>11. Holds(s, at, split[Depth][1])
  BY <1>2 DEF sums
<1>12. join[Depth][<<sums[Depth][1], at>>]
       = [q |-> Piece(b, Depth, 1), at |-> at + Len(split[Depth][1])]
  BY <1>8, <1>9, <1>10, <1>11 DEF IsUnsplit
<1>13. sums[Depth][1] \in Nat
  BY <1>1, <1>9 DEF IsSums
<1>14. Piece(b, Depth, 1) = b
  <2>1. Pow2[Depth] = Width /\ Width \in Nat
    BY HalfAsMany
  <2>2. \A j \in 1 .. Width : (1 - 1) * Width + j = j
    BY <2>1
  <2> QED BY <2>1, <2>2 DEF Piece
<1>15. shell_decoder(s, at, sums[Depth][1]) = join[Depth][<<sums[Depth][1], at>>]
  BY <1>3, <1>10, <1>13
<1>16. Sequence(split[Depth][1])
  BY <1>2, <1>9 DEF IsSplit
<1> QED BY <1>2, <1>12, <1>13, <1>14, <1>15, <1>16 DEF sums

\* Every symbol of a block whose sums fit has an entry in its table.
LEMMA ShellHasEntries ==
  ASSUME NEW b \in [1 .. Width -> Nat], Fits(Sums(b))
  PROVE  /\ Sequence(shell_encoder(Sums(b))) /\ HaveEntries(shell_encoder(Sums(b)))
         /\ \A j \in 1 .. Len(shell_encoder(Sums(b))) : shell_encoder(Sums(b))[j].data \in Int
<1> DEFINE sums == Sums(b)
<1>1. IsSums(sums, b) /\ Fits(sums)
  BY SumsAre
<1> HIDE DEF sums
<1>2. PICK split : IsSplit(split, sums) /\ shell_encoder(sums) = split[Depth][1]
  BY <1>1, SplitIs
<1>3. ASSUME NEW d \in 1 .. Depth, NEW k \in 1 .. Pow2[Depth - d]
      PROVE  Sequence(SplitSymbol(sums, d, k)) /\ HaveEntries(SplitSymbol(sums, d, k))
  <2> DEFINE p == sums[d][k]
             child == sums[d - 1][2 * k - 1]
             symbol == Symbol(ShellTable(d, p), child)
  <2>1. d \in 0 .. Depth /\ p \in Nat /\ child \in Nat /\ child <= p
    <3>1. /\ d \in 0 .. Depth /\ p \in Nat /\ child \in Nat /\ sums[d - 1][2 * k] \in Nat
          /\ p = child + sums[d - 1][2 * k]
      BY <1>1, HalvesAre
    <3> HIDE DEF p, child
    <3> QED BY <3>1
  <2>2. CASE p > 0
    <3>1. k \in DOMAIN sums[d]
      BY <1>1, <2>1 DEF IsSums
    <3>2. p <= max_pulses_table[d] /\ max_pulses_table[d] \in Nat
      BY <1>1, <3>1, PulsesAssumption DEF Fits
    <3>3. SplitSymbol(sums, d, k) = <<symbol>>
      BY <2>2 DEF SplitSymbol
    <3>4. symbol.table = <<"shell", d, p>> /\ symbol.data = child
      BY DEF Symbol, ShellTable
    <3> HIDE DEF symbol, p, child
    <3>5. PulseAlphabet(<<"shell", d, p>>) = p + 1
      BY <2>1, <2>2, <3>2 DEF PulseAlphabet
    <3>6. HasEntry(symbol)
      BY <2>1, <3>4, <3>5 DEF HasEntry
    <3> QED BY <3>3, <3>6 DEF Sequence, HaveEntries
  <2>3. CASE ~(p > 0)
    <3>1. SplitSymbol(sums, d, k) = <<>>
      BY <2>3 DEF SplitSymbol
    <3> QED BY <3>1 DEF Sequence, HaveEntries
  <2> QED BY <2>2, <2>3
<1> DEFINE S == {d \in Nat : d <= Depth => \A k \in 1 .. Pow2[Depth - d] : HaveEntries(split[d][k])}
<1>4. 0 \in S
  <2>1. \A k \in 1 .. Pow2[Depth - 0] : split[0][k] = <<>>
    BY <1>2, HalfAsMany DEF IsSplit
  <2>2. HaveEntries(<<>>)
    BY DEF HaveEntries
  <2> QED BY <2>1, <2>2
<1>5. ASSUME NEW d \in Nat, d \in S PROVE d + 1 \in S
  <2> SUFFICES ASSUME d + 1 <= Depth, NEW k \in 1 .. Pow2[Depth - (d + 1)]
               PROVE  HaveEntries(split[d + 1][k])
    OBVIOUS
  <2> DEFINE n == d + 1
             x == 2 * k - 1
             y == 2 * k
             e == SplitSymbol(sums, n, k)
             u == split[d][x]
             v == split[d][y]
  <2>1. n \in 1 .. Depth /\ n - 1 = d /\ d <= Depth /\ d \in 0 .. Depth /\ k \in 1 .. Pow2[Depth - n]
    BY HalfAsMany
  <2> HIDE DEF n
  <2>2. x \in 1 .. Pow2[Depth - d] /\ y \in 1 .. Pow2[Depth - d]
    <3>1. x \in 1 .. Pow2[Depth - (n - 1)] /\ y \in 1 .. Pow2[Depth - (n - 1)]
      BY <1>1, <2>1, HalvesAre
    <3> QED BY <2>1, <3>1
  <2>3. split[n][k] = e \o u \o v
    <3>1. split[n][k] = e \o split[n - 1][x] \o split[n - 1][y]
      BY <1>2, <2>1 DEF IsSplit
    <3> QED BY <2>1, <3>1
  <2>4. Sequence(u) /\ Sequence(v) /\ HaveEntries(u) /\ HaveEntries(v)
    <3> HIDE DEF x, y
    <3> QED BY <1>2, <1>5, <2>1, <2>2 DEF IsSplit
  <2>5. Sequence(e) /\ HaveEntries(e)
    BY <1>3, <2>1
  <2> HIDE DEF e, u, v
  <2>6. Sequence(e \o u) /\ HaveEntries(e \o u)
    BY <2>4, <2>5, Concatenated, EntriesOfTwo
  <2>7. HaveEntries((e \o u) \o v)
    BY <2>4, <2>6, EntriesOfTwo
  <2> QED BY <2>3, <2>7 DEF n
<1> HIDE DEF S
<1>6. Depth \in Nat /\ Depth <= Depth /\ 1 \in 1 .. Pow2[Depth - Depth] /\ Depth \in 0 .. Depth
  BY HalfAsMany
<1>7. Depth \in S
  BY <1>4, <1>5, <1>6, Induction
<1>8. HaveEntries(split[Depth][1]) /\ Sequence(split[Depth][1])
  BY <1>2, <1>6, <1>7 DEF S, IsSplit
<1>9. \A j \in 1 .. Len(split[Depth][1]) : split[Depth][1][j].data \in Int
  BY <1>8 DEF HaveEntries, HasEntry
<1> QED BY <1>2, <1>8, <1>9 DEF sums

-----------------------------------------------------------------------------
(* The sum of a block, with the escapes before it.                         *)

\* The symbol at each place.
BlockSymbol(sum, shifts, level, j) ==
  Symbol(PulsesPerBlock(IF j = 1 THEN level ELSE N_RATE_LEVELS - 1),
         IF j <= shifts THEN Escape ELSE sum)

LEMMA BlockIs ==
  ASSUME NEW sum, NEW shifts \in Nat, NEW level
  PROVE  /\ Sequence(BlockSymbols(sum, shifts, level))
         /\ Len(BlockSymbols(sum, shifts, level)) = shifts + 1
         /\ \A j \in 1 .. shifts + 1 :
              BlockSymbols(sum, shifts, level)[j] = BlockSymbol(sum, shifts, level, j)
<1> DEFINE escaped == PulsesPerBlock(N_RATE_LEVELS - 1)
           a == <<Symbol(PulsesPerBlock(level), Escape)>>
           m == [n \in 1 .. shifts - 1 |-> Symbol(escaped, Escape)]
           z == <<Symbol(escaped, sum)>>
           all == BlockSymbols(sum, shifts, level)
<1>1. CASE shifts = 0
  <2>1. all = <<Symbol(PulsesPerBlock(level), sum)>>
    BY <1>1 DEF BlockSymbols
  <2>2. \A j \in 1 .. shifts + 1 : j = 1 /\ ~(j <= shifts)
    BY <1>1
  <2>3. Sequence(all) /\ Len(all) = shifts + 1 /\ all[1] = Symbol(PulsesPerBlock(level), sum)
    BY <1>1, <2>1 DEF Sequence
  <2> HIDE DEF all
  <2> QED BY <2>2, <2>3 DEF all, BlockSymbol
<1>2. CASE shifts # 0
  <2>1. all = a \o m \o z
    BY <1>2 DEF BlockSymbols
  <2>2. /\ Sequence(a) /\ Len(a) = 1 /\ a[1] = Symbol(PulsesPerBlock(level), Escape)
        /\ Sequence(z) /\ Len(z) = 1 /\ z[1] = Symbol(escaped, sum)
    BY DEF Sequence
  <2>3. shifts - 1 \in Nat /\ m = [n \in 1 .. shifts - 1 |-> m[n]]
    BY <1>2
  <2>4. \A n \in 1 .. shifts - 1 : m[n] = Symbol(escaped, Escape)
    OBVIOUS
  <2> HIDE DEF a, m, z, all, escaped
  <2>5. Sequence(m) /\ Len(m) = shifts - 1
    BY <2>3, FunctionIsSequence
  <2>6. /\ Sequence(a \o m) /\ Len(a \o m) = 1 + (shifts - 1)
        /\ \A j \in 1 .. 1 + (shifts - 1) : (a \o m)[j] = IF j <= 1 THEN a[j] ELSE m[j - 1]
    <3>1. /\ Sequence(a \o m) /\ Len(a \o m) = Len(a) + Len(m)
          /\ \A j \in 1 .. Len(a) + Len(m) :
               (a \o m)[j] = IF j <= Len(a) THEN a[j] ELSE m[j - Len(a)]
      BY <2>2, <2>5, Concatenated
    <3>2. Len(a) = 1 /\ Len(m) = shifts - 1
      BY <2>2, <2>5
    <3> QED BY <3>1, <3>2
  <2>7. Len(a \o m) = shifts
    BY <2>6
  <2>8. /\ Sequence((a \o m) \o z) /\ Len((a \o m) \o z) = shifts + 1
        /\ \A j \in 1 .. shifts + 1 :
             ((a \o m) \o z)[j] = IF j <= shifts THEN (a \o m)[j] ELSE z[j - shifts]
    <3>1. /\ Sequence((a \o m) \o z) /\ Len((a \o m) \o z) = Len(a \o m) + Len(z)
          /\ \A j \in 1 .. Len(a \o m) + Len(z) :
               ((a \o m) \o z)[j] = IF j <= Len(a \o m) THEN (a \o m)[j] ELSE z[j - Len(a \o m)]
      BY <2>2, <2>6, Concatenated
    <3>2. Len(a \o m) = shifts /\ Len(z) = 1
      BY <2>2, <2>7
    <3> QED BY <3>1, <3>2
  <2>9. ASSUME NEW j \in 1 .. shifts + 1 PROVE all[j] = BlockSymbol(sum, shifts, level, j)
    <3>1. CASE j = 1
      <4>1. j <= shifts /\ j \in 1 .. 1 + (shifts - 1) /\ j <= 1
        BY <1>2, <3>1
      <4>2. all[j] = a[1]
        BY <2>1, <2>6, <2>8, <3>1, <4>1
      <4> QED BY <2>2, <3>1, <4>1, <4>2 DEF BlockSymbol
    <3>2. CASE j # 1 /\ j <= shifts
      <4>1. j \in 1 .. 1 + (shifts - 1) /\ ~(j <= 1) /\ j - 1 \in 1 .. shifts - 1
        BY <3>2
      <4>2. all[j] = m[j - 1]
        BY <2>1, <2>6, <2>8, <3>2, <4>1
      <4> QED BY <2>4, <3>2, <4>1, <4>2 DEF BlockSymbol, escaped
    <3>3. CASE j # 1 /\ ~(j <= shifts)
      <4>1. j - shifts = 1
        BY <3>3
      <4>2. all[j] = z[1]
        BY <2>1, <2>8, <3>3, <4>1
      <4> QED BY <2>2, <3>3, <4>2 DEF BlockSymbol, escaped
    <3> QED BY <3>1, <3>2, <3>3
  <2> QED BY <2>1, <2>8, <2>9 DEF all
<1> QED BY <1>1, <1>2

\* The largest sum is a number, and no sum is an escape.
LEMMA LargestSum == MAX_PULSES \in Nat /\ Escape = MAX_PULSES + 1
<1>1. Depth \in 1 .. Depth
  BY PulsesAssumption
<1> QED BY <1>1, PulsesAssumption DEF MAX_PULSES, Escape

\* The decoder counts the escapes and reads the sum.
LEMMA SumReturns ==
  ASSUME NEW sum \in 0 .. MAX_PULSES, NEW shifts \in Nat, NEW level,
         NEW s, NEW at, Holds(s, at, BlockSymbols(sum, shifts, level))
  PROVE  SumDecoded(s, at, level) = [sum |-> sum, shifts |-> shifts, at |-> at + (shifts + 1)]
<1> DEFINE all == BlockSymbols(sum, shifts, level)
           At(n) == Read(s, at + n, PulsesPerBlock(IF n = 0 THEN level ELSE N_RATE_LEVELS - 1))
           EndsAt(n) == At(n) # Escape /\ \A m \in 0 .. n - 1 : At(m) = Escape
           found == CHOOSE n \in 0 .. Len(s) : EndsAt(n)
<1>1. /\ Sequence(all) /\ Len(all) = shifts + 1
      /\ \A j \in 1 .. shifts + 1 : all[j] = BlockSymbol(sum, shifts, level, j)
  BY BlockIs
<1>2. /\ Holds(s, at, all) /\ at \in Nat /\ at > 0 /\ at + Len(all) <= Len(s) + 1
      /\ Len(s) \in Nat
  BY DEF Holds, Sequence
<1> HIDE DEF all
<1>3. ASSUME NEW n \in 0 .. shifts PROVE At(n) = IF n < shifts THEN Escape ELSE sum
  <2> DEFINE j == n + 1
  <2>1. j \in 1 .. shifts + 1 /\ j \in 1 .. Len(all) /\ j - 1 = n /\ (j = 1) = (n = 0)
        /\ (j <= shifts) = (n < shifts)
    BY <1>1
  <2> HIDE DEF j
  <2>2. Read(s, at + (j - 1), all[j].table) = all[j].data
    BY <1>2, <2>1, HeldIsRead
  <2>3. all[j] = BlockSymbol(sum, shifts, level, j)
    BY <1>1, <2>1
  <2>4. /\ all[j].table = PulsesPerBlock(IF j = 1 THEN level ELSE N_RATE_LEVELS - 1)
        /\ all[j].data = IF j <= shifts THEN Escape ELSE sum
    BY <2>3 DEF BlockSymbol, Symbol
  <2> QED BY <2>1, <2>2, <2>4
<1>4. sum # Escape
  BY LargestSum
<1>5. shifts \in 0 .. Len(s)
  BY <1>1, <1>2
<1>6. At(shifts) = sum
  BY <1>3
<1>7. EndsAt(shifts)
  <2>1. \A m \in 0 .. shifts - 1 : m \in 0 .. shifts /\ m < shifts
    OBVIOUS
  <2> HIDE DEF At
  <2> QED BY <1>3, <1>4, <1>6, <2>1
<1>8. ASSUME NEW n \in 0 .. Len(s), EndsAt(n) PROVE n = shifts
  <2>1. CASE n < shifts
    <3>1. n \in 0 .. shifts
      BY <2>1
    <3>2. At(n) = Escape
      <4> HIDE DEF At
      <4> QED BY <1>3, <2>1, <3>1
    <3> QED BY <1>8, <3>2
  <2>2. CASE n > shifts
    <3>1. shifts \in 0 .. n - 1
      BY <2>2
    <3>2. At(shifts) = Escape
      <4> HIDE DEF At
      <4> QED BY <1>8, <3>1
    <3> QED BY <1>4, <1>6, <3>2
  <2> QED BY <2>1, <2>2
<1>9. found = shifts
  <2> HIDE DEF EndsAt
  <2>1. found \in 0 .. Len(s) /\ EndsAt(found)
    BY <1>5, <1>7
  <2> HIDE DEF found
  <2> QED BY <1>8, <2>1
<1>10. SumDecoded(s, at, level) = [sum |-> At(found), shifts |-> found, at |-> at + found + 1]
  BY DEF SumDecoded
<1>11. at + shifts + 1 = at + (shifts + 1)
  BY <1>2
<1> HIDE DEF found, At
<1> QED BY <1>6, <1>9, <1>10, <1>11

\* Each of its symbols has an entry in its table.
LEMMA BlockHasEntries ==
  ASSUME NEW sum \in 0 .. MAX_PULSES, NEW shifts \in Nat, NEW level
  PROVE  HaveEntries(BlockSymbols(sum, shifts, level))
<1>1. ASSUME NEW j \in 1 .. shifts + 1 PROVE HasEntry(BlockSymbol(sum, shifts, level, j))
  <2> DEFINE table == PulsesPerBlock(IF j = 1 THEN level ELSE N_RATE_LEVELS - 1)
             data == IF j <= shifts THEN Escape ELSE sum
  <2>1. PulseAlphabet(table) = MAX_PULSES + 2
    BY DEF PulsesPerBlock, PulseAlphabet
  <2>2. data \in 0 .. (MAX_PULSES + 2) - 1
    BY LargestSum
  <2>3. /\ BlockSymbol(sum, shifts, level, j).table = table
        /\ BlockSymbol(sum, shifts, level, j).data = data
    BY DEF BlockSymbol, Symbol
  <2> HIDE DEF table, data
  <2> QED BY <2>1, <2>2, <2>3 DEF HasEntry
<1> QED BY <1>1, BlockIs DEF HaveEntries

-----------------------------------------------------------------------------
(* The low bits of the pulses.                                             *)

\* Parts that are as long as each other: where they end, and what is where.
EvenlyEnding(all, n, m) == \A i \in 0 .. n : Len(all[i]) = i * m

LEMMA EvenlyLong ==
  ASSUME NEW n \in Nat, NEW m \in Nat, NEW all, NEW parts, IsFlat(all, parts, n),
         \A i \in 1 .. n : Len(parts[i]) = m
  PROVE  EvenlyEnding(all, n, m)
<1> DEFINE S == {i \in Nat : i <= n => Len(all[i]) = i * m}
<1>1. 0 \in S
  <2>1. all[0] = <<>> /\ 0 * m = 0
    BY DEF IsFlat
  <2> QED BY <2>1
<1>2. ASSUME NEW i \in Nat, i \in S PROVE i + 1 \in S
  <2> SUFFICES ASSUME i + 1 <= n PROVE Len(all[i + 1]) = (i + 1) * m
    OBVIOUS
  <2>1. i + 1 \in 1 .. n /\ (i + 1) - 1 = i /\ Len(all[i]) = i * m
    BY <1>2
  <2>2. Len(all[i + 1]) = Len(all[i]) + Len(parts[i + 1]) /\ Len(parts[i + 1]) = m
    BY <2>1 DEF IsFlat
  <2>3. (i + 1) * m = i * m + m
    OBVIOUS
  <2> QED BY <2>1, <2>2, <2>3
<1> HIDE DEF S
<1>3. \A i \in Nat : i \in S
  BY <1>1, <1>2, Induction
<1> QED BY <1>3 DEF S, EvenlyEnding

EvenParts(whole, parts, n, m) ==
  \A i \in 1 .. n, j \in 1 .. m : whole[(i - 1) * m + j] = parts[i][j]

LEMMA EvenlyPlaced ==
  ASSUME NEW n \in Nat, NEW m \in Nat, NEW all, NEW parts, IsFlat(all, parts, n),
         \A i \in 1 .. n : Len(parts[i]) = m
  PROVE  EvenParts(all[n], parts, n, m)
<1> SUFFICES ASSUME NEW i \in 1 .. n, NEW j \in 1 .. m
             PROVE  all[n][(i - 1) * m + j] = parts[i][j]
  BY DEF EvenParts
<1> DEFINE s == all[n]
           before == Len(all[i - 1])
<1>1. Sequence(s)
  BY DEF IsFlat
<1> HIDE DEF s
<1>2. Holds(s, 1, s)
  BY <1>1, AllHeld
<1>3. Holds(s, 1 + before, parts[i])
  <2>1. Holds(s, 1, all[n])
    BY <1>2 DEF s
  <2> QED BY <2>1, FlatHeld
<1>4. before = (i - 1) * m
  <2>1. i - 1 \in 0 .. n
    OBVIOUS
  <2>2. EvenlyEnding(all, n, m)
    BY EvenlyLong
  <2> QED BY <2>1, <2>2 DEF EvenlyEnding
<1> HIDE DEF before
<1>5. j \in 1 .. Len(parts[i])
  OBVIOUS
<1>6. s[(1 + before) + (j - 1)] = parts[i][j]
  BY <1>3, <1>5 DEF Holds
<1>7. before \in Int
  <2> DEFINE h == i - 1
  <2>1. h \in Int
    OBVIOUS
  <2> HIDE DEF h
  <2>2. h * m \in Int
    BY <2>1
  <2> QED BY <1>4, <2>2 DEF h
<1>8. (1 + before) + (j - 1) = before + j
  BY <1>7
<1> QED BY <1>4, <1>6, <1>8 DEF s

\* A number is twice its half and its low bit.
LEMMA OneBitMore ==
  ASSUME NEW x \in Nat, NEW n \in Nat
  PROVE  /\ x \div Pow2[n] = 2 * (x \div Pow2[n + 1]) + ((x \div Pow2[n]) % 2)
         /\ x \div Pow2[n] \in Nat /\ (x \div Pow2[n]) % 2 \in 0 .. 1
<1> DEFINE p == Pow2[n]
           y == x \div p
           r == x % p
           h == y \div 2
           e == y % 2
<1>1. p \in Nat /\ p > 0 /\ Pow2[n + 1] = 2 * p
  <2>1. p \in Nat \ {0} /\ Pow2[n + 1] = 2 * p
    BY PowersDouble
  <2> QED BY <2>1
<1> HIDE DEF p
<1>2. r \in Int /\ 0 <= r /\ r < p /\ y \in Int /\ x = y * p + r
  BY <1>1, Remainder
<1>3. y \in Nat
  <2> HIDE DEF y, r
  <2>1. CASE y < 0
    <3>1. y + 1 <= 0
      BY <1>2, <2>1
    <3>2. (y + 1) * p <= 0
      <4> DEFINE z == y + 1
      <4>1. z \in Int /\ z <= 0
        BY <1>2, <3>1
      <4> HIDE DEF z
      <4>2. z * p <= 0
        BY <1>1, <4>1
      <4> QED BY <4>2 DEF z
    <3>3. (y + 1) * p = y * p + p
      BY <1>1, <1>2
    <3> QED BY <1>1, <1>2, <3>2, <3>3
  <2> QED BY <1>2, <2>1
<1> HIDE DEF y, r
<1>4. h \in Int /\ e \in Int /\ 0 <= e /\ e < 2 /\ y = h * 2 + e
  BY <1>2, Remainder
<1> HIDE DEF h, e
<1>5. e \in 0 .. 1
  BY <1>4
<1> DEFINE q == 2 * p
           low == (e * p) + r
<1>6. q \in Int /\ q > 0 /\ low \in Int /\ 0 <= low /\ low < q
  <2>1. CASE e = 0
    BY <1>1, <1>2, <2>1
  <2>2. CASE e = 1
    BY <1>1, <1>2, <2>2
  <2> QED BY <1>5, <2>1, <2>2
<1>7. x = h * q + low
  BY <1>1, <1>2, <1>4
<1> HIDE DEF q, low
<1>8. x \div q = h
  BY <1>4, <1>6, <1>7, RemainderIs
<1>9. y = 2 * h + e
  BY <1>4
<1> QED BY <1>1, <1>3, <1>5, <1>8, <1>9 DEF p, y, h, e, q

\* The bit of a pulse at each place.
LsbSymbol(x, shifts, j) == Symbol(LsbTable, (x \div Pow2[shifts - j]) % 2)

LEMMA LsbAre ==
  ASSUME NEW block \in [1 .. Width -> Int], NEW shifts \in Nat
  PROVE  /\ Sequence(LsbSymbols(block, shifts)) /\ Len(LsbSymbols(block, shifts)) = Width * shifts
         /\ HaveEntries(LsbSymbols(block, shifts))
         /\ \A k \in 1 .. Width, j \in 1 .. shifts :
              LsbSymbols(block, shifts)[(k - 1) * shifts + j] = LsbSymbol(Size(block[k]), shifts, j)
<1> DEFINE parts == [k \in 1 .. Width |->
                      [j \in 1 .. shifts |-> LsbSymbol(Size(block[k]), shifts, j)]]
<1>1. LsbSymbols(block, shifts) = Flat(parts)
  BY DEF LsbSymbols, LsbSymbol
<1>2. Width \in Nat
  BY HalfAsMany
<1>3. ASSUME NEW k \in 1 .. Width
      PROVE  /\ Sequence(parts[k]) /\ Len(parts[k]) = shifts
             /\ \A j \in 1 .. shifts : parts[k][j] = LsbSymbol(Size(block[k]), shifts, j)
  <2> DEFINE f == [j \in 1 .. shifts |-> LsbSymbol(Size(block[k]), shifts, j)]
  <2>1. parts[k] = f
    OBVIOUS
  <2>2. \A j \in 1 .. shifts : f[j] = LsbSymbol(Size(block[k]), shifts, j)
    OBVIOUS
  <2>3. f = [j \in 1 .. shifts |-> f[j]]
    OBVIOUS
  <2> HIDE DEF f, parts
  <2>4. Sequence(f) /\ Len(f) = shifts
    BY <2>3, FunctionIsSequence
  <2> QED BY <2>1, <2>2, <2>4
<1>4. Len(parts) = Width
  BY <1>2, FunctionIsSequence
<1> HIDE DEF parts
<1>5. PICK all : IsFlat(all, parts, Width) /\ Flat(parts) = all[Width]
  BY <1>2, <1>3, <1>4, FlatIs
<1>6. Len(all[Width]) = Width * shifts
  <2>1. EvenlyEnding(all, Width, shifts)
    <3>1. \A k \in 1 .. Width : Len(parts[k]) = shifts
      BY <1>3
    <3>2. IsFlat(all, parts, Width)
      BY <1>5
    <3> QED BY ONLY <1>2, <3>1, <3>2, shifts \in Nat, EvenlyLong
  <2> QED BY <1>2, <2>1 DEF EvenlyEnding
<1>7. \A k \in 1 .. Width, j \in 1 .. shifts :
        all[Width][(k - 1) * shifts + j] = LsbSymbol(Size(block[k]), shifts, j)
  <2>1. EvenParts(all[Width], parts, Width, shifts)
    <3>1. \A k \in 1 .. Width : Len(parts[k]) = shifts
      BY <1>3
    <3>2. IsFlat(all, parts, Width)
      BY <1>5
    <3> QED BY ONLY <1>2, <3>1, <3>2, shifts \in Nat, EvenlyPlaced
  <2>2. \A k \in 1 .. Width, j \in 1 .. shifts : all[Width][(k - 1) * shifts + j] = parts[k][j]
    BY <2>1 DEF EvenParts
  <2> HIDE DEF parts
  <2>3. \A k \in 1 .. Width, j \in 1 .. shifts : parts[k][j] = LsbSymbol(Size(block[k]), shifts, j)
    BY <1>3
  <2> QED BY <2>2, <2>3
<1>8. ASSUME NEW x \in Nat, NEW j \in 1 .. shifts PROVE HasEntry(LsbSymbol(x, shifts, j))
  <2>1. shifts - j \in Nat
    OBVIOUS
  <2>2. (x \div Pow2[shifts - j]) % 2 \in 0 .. 1
    BY <2>1, OneBitMore
  <2>3. PulseAlphabet(LsbTable) = 2
    BY DEF LsbTable, PulseAlphabet
  <2> QED BY <2>2, <2>3 DEF HasEntry, LsbSymbol, Symbol
<1>9. \A k \in 1 .. Width : HaveEntries(parts[k])
  <2>1. \A k \in 1 .. Width : Size(block[k]) \in Nat
    BY DEF Size
  <2> QED BY <1>3, <1>8, <2>1 DEF HaveEntries
<1>10. HaveEntries(all[Width])
  BY <1>2, <1>5, <1>9, EntriesOfFlat
<1>11. Sequence(all[Width])
  BY <1>2, <1>5 DEF IsFlat
<1> QED BY <1>1, <1>5, <1>6, <1>7, <1>10, <1>11

\* The decoder puts the low bits back.
LEMMA LsbReturn ==
  ASSUME NEW block \in [1 .. Width -> Int], NEW shifts \in Nat, NEW s, NEW at,
         Holds(s, at, LsbSymbols(block, shifts))
  PROVE  LsbDecoded(s, at, Halved(block, shifts), shifts) = [k \in 1 .. Width |-> Size(block[k])]
<1> DEFINE lsb == LsbSymbols(block, shifts)
           half == Halved(block, shifts)
<1>1. /\ Len(lsb) = Width * shifts
      /\ \A k \in 1 .. Width, j \in 1 .. shifts :
           lsb[(k - 1) * shifts + j] = LsbSymbol(Size(block[k]), shifts, j)
  BY LsbAre
<1>2. /\ half = [k \in 1 .. Width |-> Size(block[k]) \div Pow2[shifts]]
      /\ \A k \in 1 .. Width : Size(block[k]) \in Nat
  BY HalvedIs
<1>3. Width \in Nat /\ at \in Nat /\ Holds(s, at, lsb)
  BY HalfAsMany DEF Holds
<1> HIDE DEF lsb, half
<1> DEFINE start(k) == at + (k - 1) * shifts
           value(k) == CHOOSE value : value = [j \in 0 .. shifts |->
                         IF j = 0 THEN half[k]
                         ELSE 2 * value[j - 1] + Read(s, at + (k - 1) * shifts + j - 1, LsbTable)]
<1>4. LsbDecoded(s, at, half, shifts) = [k \in DOMAIN half |-> value(k)[shifts]]
  BY DEF LsbDecoded
<1> HIDE DEF value
<1>5. ASSUME NEW k \in 1 .. Width PROVE value(k)[shifts] = Size(block[k])
  <2> DEFINE x == Size(block[k])
             bit(j) == Read(s, at + (k - 1) * shifts + j - 1, LsbTable)
             Solves(f) == f = [j \in 0 .. shifts |-> IF j = 0 THEN half[k] ELSE 2 * f[j - 1] + bit(j)]
             g == [j \in 0 .. shifts |-> x \div Pow2[shifts - j]]
  <2>1. x \in Nat
    BY <1>2
  <2> HIDE DEF x
  <2>2. ASSUME NEW j \in 1 .. shifts PROVE bit(j) = (x \div Pow2[shifts - j]) % 2
    <3> DEFINE i == (k - 1) * shifts + j
    <3>1. i \in 1 .. Width * shifts
      <4> DEFINE u == (k - 1) * shifts
      <4>1. u \in Nat
        OBVIOUS
      <4>2. u + shifts = k * shifts
        OBVIOUS
      <4>3. k * shifts <= Width * shifts
        <5> DEFINE w == Width - k
        <5>1. w \in Nat /\ Width = k + w
          BY <1>3
        <5> HIDE DEF w
        <5>2. w * shifts \in Nat /\ (k + w) * shifts = k * shifts + w * shifts /\ k * shifts \in Nat
          BY <5>1
        <5> QED BY <5>1, <5>2
      <4>4. k * shifts \in Int /\ Width * shifts \in Int
        BY <1>3
      <4> HIDE DEF u
      <4>5. u + j \in 1 .. Width * shifts
        BY <4>1, <4>2, <4>3, <4>4
      <4> QED BY <4>5 DEF u
    <3>2. lsb[i] = LsbSymbol(x, shifts, j)
      BY <1>1 DEF x
    <3>3. at + (k - 1) * shifts + j - 1 = at + (i - 1)
      <4> DEFINE u == (k - 1) * shifts
      <4>1. u \in Int
        OBVIOUS
      <4> HIDE DEF u
      <4>2. at + u + j - 1 = at + ((u + j) - 1)
        BY <1>3, <4>1
      <4> QED BY <4>2 DEF u
    <3> HIDE DEF i
    <3>4. Read(s, at + (i - 1), lsb[i].table) = lsb[i].data
      <4>1. i \in 1 .. Len(lsb)
        BY <1>1, <3>1
      <4> QED BY ONLY <1>3, <4>1, HeldIsRead
    <3> QED BY <3>2, <3>3, <3>4 DEF LsbSymbol, Symbol
  <2> HIDE DEF bit
  <2>3. Solves(g)
    <3>1. ASSUME NEW j \in 0 .. shifts
          PROVE  g[j] = IF j = 0 THEN half[k] ELSE 2 * g[j - 1] + bit(j)
      <4>1. CASE j = 0
        <5>1. g[j] = x \div Pow2[shifts]
          BY <4>1
        <5>2. half[k] = x \div Pow2[shifts]
          BY <1>2 DEF x
        <5> QED BY <4>1, <5>1, <5>2
      <4>2. CASE j # 0
        <5>1. /\ j \in 1 .. shifts /\ j - 1 \in 0 .. shifts /\ shifts - j \in Nat
              /\ shifts - (j - 1) = (shifts - j) + 1
          BY <4>2
        <5>2. x \div Pow2[shifts - j]
              = 2 * (x \div Pow2[(shifts - j) + 1]) + ((x \div Pow2[shifts - j]) % 2)
          BY <2>1, <5>1, OneBitMore
        <5>3. g[j] = x \div Pow2[shifts - j] /\ g[j - 1] = x \div Pow2[shifts - (j - 1)]
          BY <5>1
        <5> HIDE DEF g
        <5>4. g[j] = 2 * g[j - 1] + bit(j)
          BY <2>2, <5>1, <5>2, <5>3
        <5> QED BY <4>2, <5>4
      <4> QED BY <4>1, <4>2
    <3>2. g = [j \in 0 .. shifts |-> g[j]]
      OBVIOUS
    <3> HIDE DEF g
    <3> QED BY <3>1, <3>2
  <2> DEFINE f == CHOOSE h : Solves(h)
  <2>4. Solves(f)
    <3> HIDE DEF Solves, g
    <3> QED BY <2>3
  <2>5. value(k) = f
    BY DEF value, bit
  <2> HIDE DEF f
  <2>6. f[0] = g[0] /\ \A j \in 1 .. shifts : f[j - 1] = g[j - 1] => f[j] = g[j]
    <3> HIDE DEF g
    <3>1. f[0] = half[k] /\ g[0] = half[k]
      BY <2>3, <2>4
    <3>2. ASSUME NEW j \in 1 .. shifts, f[j - 1] = g[j - 1] PROVE f[j] = g[j]
      <4>1. j \in 0 .. shifts /\ j # 0
        OBVIOUS
      <4>2. f[j] = 2 * f[j - 1] + bit(j) /\ g[j] = 2 * g[j - 1] + bit(j)
        BY <2>3, <2>4, <4>1
      <4> QED BY <3>2, <4>2
    <3> QED BY <3>1, <3>2
  <2>7. f[shifts] = g[shifts]
    <3> HIDE DEF g, Solves
    <3>1. \A j \in 0 .. shifts : f[j] = g[j]
      <4>1. Alike(f, g, shifts)
        BY <2>6 DEF Alike
      <4> QED BY <4>1, AlikeIsSame
    <3> QED BY <3>1
  <2>8. g[shifts] = x
    <3>1. shifts - shifts = 0 /\ shifts \in 0 .. shifts /\ Pow2[0] = 1
      BY PowersDouble
    <3>2. x \div 1 = x
      BY <2>1
    <3> QED BY <3>1, <3>2
  <2> QED BY <2>5, <2>7, <2>8 DEF x
<1>6. DOMAIN half = 1 .. Width
  BY <1>2
<1> QED BY <1>4, <1>5, <1>6 DEF half

-----------------------------------------------------------------------------
(* The signs.                                                              *)

\* The first of a sequence's elements.
FirstOf(q, k) == [j \in 1 .. k |-> q[j]]

LEMMA OneMore ==
  ASSUME NEW q, NEW k \in Nat, k > 0
  PROVE  Append(FirstOf(q, k - 1), q[k]) = FirstOf(q, k)
<1> DEFINE f == FirstOf(q, k - 1)
           g == Append(f, q[k])
<1>1. k - 1 \in Nat /\ f = [j \in 1 .. k - 1 |-> f[j]] /\ \A j \in 1 .. k - 1 : f[j] = q[j]
  BY DEF FirstOf
<1> HIDE DEF f
<1>2. Sequence(f) /\ Len(f) = k - 1
  BY <1>1, FunctionIsSequence
<1>3. /\ Sequence(g) /\ Len(g) = Len(f) + 1 /\ \A j \in 1 .. Len(f) : g[j] = f[j]
      /\ g[Len(f) + 1] = q[k]
  BY <1>2, Appended
<1> HIDE DEF g
<1>4. Len(g) = k /\ (\A j \in 1 .. k - 1 : g[j] = f[j]) /\ g[k] = q[k]
  <2>1. (k - 1) + 1 = k
    OBVIOUS
  <2> QED BY <1>2, <1>3, <2>1
<1>5. \A j \in 1 .. k : g[j] = q[j]
  <2> SUFFICES ASSUME NEW j \in 1 .. k PROVE g[j] = q[j]
    OBVIOUS
  <2>1. j = k \/ j \in 1 .. k - 1
    OBVIOUS
  <2> QED BY <1>1, <1>4, <2>1
<1>6. g = [j \in 1 .. k |-> g[j]]
  BY <1>3, <1>4 DEF Sequence
<1> QED BY <1>5, <1>6 DEF FirstOf, f, g

\* The symbol of a pulse that has a sign.
SignPart(x, table) == IF x = 0 THEN <<>> ELSE <<Symbol(table, IF x < 0 THEN 0 ELSE 1)>>

LEMMA SignPartIs ==
  ASSUME NEW x, NEW sigtype, NEW offset, NEW level
  PROVE  /\ Sequence(SignPart(x, SignTable(sigtype, offset, level)))
         /\ HaveEntries(SignPart(x, SignTable(sigtype, offset, level)))
<1> DEFINE table == SignTable(sigtype, offset, level)
           symbol == Symbol(table, IF x < 0 THEN 0 ELSE 1)
<1>1. PulseAlphabet(table) = 2
  BY DEF SignTable, PulseAlphabet
<1> HIDE DEF table
<1>2. symbol.table = table /\ symbol.data \in 0 .. 1
  BY DEF Symbol
<1> HIDE DEF symbol
<1>3. HasEntry(symbol)
  BY <1>1, <1>2 DEF HasEntry
<1>4. CASE x = 0
  <2>1. SignPart(x, table) = <<>>
    BY <1>4 DEF SignPart
  <2> QED BY <2>1 DEF Sequence, HaveEntries, table
<1>5. CASE x # 0
  <2>1. SignPart(x, table) = <<symbol>>
    BY <1>5 DEF SignPart, symbol
  <2>2. Sequence(<<symbol>>) /\ HaveEntries(<<symbol>>)
    BY <1>3 DEF Sequence, HaveEntries
  <2> QED BY <2>1, <2>2 DEF table
<1> QED BY <1>4, <1>5

LEMMA SignsAre ==
  ASSUME NEW n \in Nat, NEW q \in [1 .. n -> Int], NEW sigtype, NEW offset, NEW level
  PROVE  /\ Sequence(encode_signs(q, sigtype, offset, level))
         /\ HaveEntries(encode_signs(q, sigtype, offset, level))
         /\ \E all : /\ IsFlat(all, [k \in 1 .. n |->
                                     SignPart(q[k], SignTable(sigtype, offset, level))], n)
                     /\ encode_signs(q, sigtype, offset, level) = all[n]
<1> DEFINE parts == [k \in 1 .. n |-> SignPart(q[k], SignTable(sigtype, offset, level))]
<1>1. encode_signs(q, sigtype, offset, level) = Flat(parts)
  BY DEF encode_signs, SignPart
<1>2. \A k \in 1 .. n : Sequence(parts[k]) /\ HaveEntries(parts[k])
  BY SignPartIs
<1>3. Len(parts) = n
  BY FunctionIsSequence
<1> HIDE DEF parts
<1>4. PICK all : IsFlat(all, parts, n) /\ Flat(parts) = all[n]
  BY <1>2, <1>3, FlatIs
<1>5. HaveEntries(all[n])
  BY <1>2, <1>4, EntriesOfFlat
<1>6. Sequence(all[n])
  BY <1>4 DEF IsFlat
<1> QED BY <1>1, <1>4, <1>5, <1>6 DEF parts

\* The decoder gives the pulses their signs.
Sizes(q, n) == [k \in 1 .. n |-> Size(q[k])]

LEMMA SignsReturn ==
  ASSUME NEW n \in Nat, NEW q \in [1 .. n -> Int], NEW sigtype, NEW offset, NEW level,
         NEW s, NEW at, Holds(s, at, encode_signs(q, sigtype, offset, level))
  PROVE  decode_signs(s, at, Sizes(q, n), sigtype, offset, level)
         = [q |-> q, at |-> at + Len(encode_signs(q, sigtype, offset, level))]
<1> DEFINE table == SignTable(sigtype, offset, level)
           parts == [k \in 1 .. n |-> SignPart(q[k], table)]
           sizes == [k \in 1 .. n |-> Size(q[k])]
           Further(r, k) == IF sizes[k] <= 0 THEN [r EXCEPT !.q = Append(@, sizes[k])]
                            ELSE LET data == Read(s, r.at, table)
                                 IN [q |-> Append(r.q, sizes[k] * (2 * data - 1)),
                                     at |-> r.at + 1]
           first == [q |-> <<>>, at |-> at]
           Solves(f) == f = [k \in 0 .. n |-> IF k = 0 THEN first ELSE Further(f[k - 1], k)]
<1>1. PICK all : IsFlat(all, parts, n) /\ encode_signs(q, sigtype, offset, level) = all[n]
  BY SignsAre
<1> DEFINE g == [k \in 0 .. n |-> [q |-> FirstOf(q, k), at |-> at + Len(all[k])]]
<1>2. at \in Nat /\ Holds(s, at, all[n])
  BY <1>1 DEF Holds
<1>3. \A k \in 1 .. n : Holds(s, at + Len(all[k - 1]), parts[k])
  <2>1. IsFlat(all, parts, n)
    BY <1>1
  <2> HIDE DEF parts
  <2> QED BY <1>2, <2>1, FlatHeld
<1>4. ASSUME NEW k \in 1 .. n PROVE g[k] = Further(g[k - 1], k)
  <2> DEFINE before == at + Len(all[k - 1])
             x == q[k]
             part == SignPart(x, table)
  <2>1. /\ k - 1 \in 0 .. n /\ k \in Nat /\ k > 0 /\ parts[k] = part
        /\ Len(all[k]) = Len(all[k - 1]) + Len(part) /\ sizes[k] = Size(x) /\ x \in Int
        /\ Len(all[k - 1]) \in Nat
    <3>1. k - 1 \in 0 .. n /\ k \in Nat /\ k > 0 /\ parts[k] = part
      OBVIOUS
    <3>2. Len(all[k]) = Len(all[k - 1]) + Len(parts[k]) /\ Sequence(all[k - 1])
      <4> HIDE DEF parts
      <4> QED BY <1>1, <3>1 DEF IsFlat
    <3>3. Len(all[k - 1]) \in Nat
      BY <3>2 DEF Sequence
    <3>4. sizes[k] = Size(x) /\ x \in Int
      OBVIOUS
    <3> HIDE DEF part, sizes, x, parts
    <3> QED BY <3>1, <3>2, <3>3, <3>4
  <2>2. g[k - 1] = [q |-> FirstOf(q, k - 1), at |-> before]
        /\ g[k] = [q |-> FirstOf(q, k), at |-> at + Len(all[k])]
    BY <2>1
  <2>3. Append(FirstOf(q, k - 1), x) = FirstOf(q, k)
    BY <2>1, OneMore
  <2>4. Holds(s, before, part) /\ before \in Nat
    <3>1. Holds(s, before, parts[k])
      <4> HIDE DEF parts
      <4> QED BY <1>3
    <3> HIDE DEF parts, part
    <3> QED BY <1>2, <2>1, <3>1
  <2> HIDE DEF g, sizes, parts, before, table
  <2>5. CASE x = 0
    <3>1. part = <<>> /\ sizes[k] = 0
      BY <2>1, <2>5 DEF SignPart, Size
    <3>2. at + Len(all[k]) = before
      <4>1. Len(part) = 0
        BY <3>1
      <4> HIDE DEF part, x
      <4> QED BY <1>2, <2>1, <4>1 DEF before
    <3>3. Further(g[k - 1], k) = [g[k - 1] EXCEPT !.q = Append(g[k - 1].q, sizes[k])]
      BY <3>1
    <3>4. [g[k - 1] EXCEPT !.q = Append(g[k - 1].q, sizes[k])]
          = [q |-> Append(FirstOf(q, k - 1), 0), at |-> before]
      <4> DEFINE r == g[k - 1]
                 c == Append(FirstOf(q, k - 1), sizes[k])
      <4>1. r = [q |-> FirstOf(q, k - 1), at |-> before]
        BY <2>2
      <4> HIDE DEF r, c
      <4>2. [r EXCEPT !.q = c] = [q |-> c, at |-> before]
        BY <4>1
      <4>3. c = Append(FirstOf(q, k - 1), 0)
        BY <3>1 DEF c
      <4>4. Append(g[k - 1].q, sizes[k]) = c
        <5>1. g[k - 1].q = FirstOf(q, k - 1)
          BY <2>2
        <5> QED BY <5>1 DEF c
      <4>5. [g[k - 1] EXCEPT !.q = c] = [q |-> c, at |-> before]
        BY <4>2 DEF r
      <4> QED BY ONLY <4>3, <4>4, <4>5
    <3>5. g[k] = [q |-> FirstOf(q, k), at |-> before]
      BY <2>2, <3>2
    <3>6. Append(FirstOf(q, k - 1), 0) = FirstOf(q, k)
      BY <2>3, <2>5
    <3> HIDE DEF Further
    <3> QED BY <3>3, <3>4, <3>5, <3>6
  <2>6. CASE x # 0
    <3> DEFINE data == IF x < 0 THEN 0 ELSE 1
    <3>1. part = <<Symbol(table, data)>>
      BY <2>6 DEF SignPart
    <3>2. /\ Len(part) = 1 /\ 1 \in 1 .. Len(part) /\ part[1].table = table /\ part[1].data = data
          /\ before + (1 - 1) = before
      <4>1. part[1] = Symbol(table, data) /\ Len(part) = 1
        BY <3>1
      <4>2. before + (1 - 1) = before
        BY <2>4
      <4> HIDE DEF part, data
      <4> QED BY <4>1, <4>2 DEF Symbol
    <3>3. Read(s, before, table) = data
      <4>1. Read(s, before + (1 - 1), part[1].table) = part[1].data
        <5>1. Holds(s, before, part) /\ 1 \in 1 .. Len(part)
          BY <2>4, <3>2
        <5> HIDE DEF part, data
        <5> QED BY ONLY <5>1, HeldIsRead
      <4> HIDE DEF part, data
      <4> QED BY <3>2, <4>1
    <3>4. sizes[k] > 0 /\ sizes[k] * (2 * data - 1) = x
      BY <2>1, <2>6 DEF Size
    <3>5. at + Len(all[k]) = before + 1
      <4> HIDE DEF part, x, data
      <4> QED BY <1>2, <2>1, <3>2 DEF before
    <3> HIDE DEF data
    <3>6. ~(sizes[k] <= 0)
      <4>1. sizes[k] \in Int
        BY <2>1 DEF Size
      <4> QED BY <3>4, <4>1
    <3>7. g[k - 1].q = FirstOf(q, k - 1) /\ g[k - 1].at = before
      BY <2>2
    <3>8. Further(g[k - 1], k) = [q |-> Append(FirstOf(q, k - 1), sizes[k] * (2 * data - 1)),
                                  at |-> before + 1]
      BY <3>3, <3>6, <3>7
    <3>9. g[k] = [q |-> FirstOf(q, k), at |-> before + 1]
      BY <2>2, <3>5
    <3> HIDE DEF Further, x
    <3> QED BY <2>3, <3>4, <3>8, <3>9
  <2> QED BY <2>5, <2>6
<1>5. g[0] = first
  <2>1. FirstOf(q, 0) = <<>> /\ all[0] = <<>>
    BY <1>1 DEF FirstOf, IsFlat
  <2>2. at + Len(all[0]) = at
    BY <1>2, <2>1
  <2> QED BY <2>1, <2>2
<1> HIDE DEF Further, first
<1>6. Solves(g)
  <2>1. \A k \in 0 .. n : g[k] = IF k = 0 THEN first ELSE Further(g[k - 1], k)
    <3> HIDE DEF g
    <3> QED BY <1>4, <1>5
  <2>2. g = [k \in 0 .. n |-> g[k]]
    OBVIOUS
  <2> HIDE DEF g
  <2> QED BY <2>1, <2>2
<1> DEFINE f == CHOOSE h : Solves(h)
<1>7. Solves(f)
  <2> HIDE DEF Solves, g
  <2> QED BY <1>6
<1>8. decode_signs(s, at, sizes, sigtype, offset, level) = f[n]
  <2>1. Len(sizes) = n
    BY FunctionIsSequence
  <2>2. decode_signs(s, at, sizes, sigtype, offset, level)
        = (CHOOSE h : h = [k \in 0 .. Len(sizes) |->
                            IF k = 0 THEN first ELSE Further(h[k - 1], k)])[Len(sizes)]
    BY DEF decode_signs, Further, first
  <2> HIDE DEF sizes
  <2> QED BY <2>1, <2>2
<1> HIDE DEF f
<1>9. f[0] = g[0] /\ \A k \in 1 .. n : f[k - 1] = g[k - 1] => f[k] = g[k]
  <2> HIDE DEF g
  <2>1. f[0] = first /\ g[0] = first
    BY <1>6, <1>7
  <2>2. ASSUME NEW k \in 1 .. n, f[k - 1] = g[k - 1] PROVE f[k] = g[k]
    <3>1. k \in 0 .. n /\ k # 0
      OBVIOUS
    <3>2. f[k] = Further(f[k - 1], k) /\ g[k] = Further(g[k - 1], k)
      BY <1>6, <1>7, <3>1
    <3> QED BY <2>2, <3>2
  <2> QED BY <2>1, <2>2
<1>10. f[n] = g[n]
  <2>1. \A k \in 0 .. n : f[k] = g[k]
    <3> HIDE DEF g
    <3>1. Alike(f, g, n)
      BY <1>9 DEF Alike
    <3> QED BY <3>1, AlikeIsSame
  <2> QED BY <2>1
<1>11. g[n] = [q |-> q, at |-> at + Len(all[n])]
  <2>1. FirstOf(q, n) = q
    BY DEF FirstOf
  <2> QED BY <2>1
<1> QED BY <1>1, <1>8, <1>10, <1>11 DEF sizes, Sizes

-----------------------------------------------------------------------------
(* The blocks of a frame, one after the other.                             *)

\* A block is a part of the frame.
LEMMA BlockOf ==
  ASSUME NEW n \in Nat, NEW q \in [1 .. n * Width -> Int], NEW i \in 1 .. n
  PROVE  /\ Block(q, i) \in [1 .. Width -> Int]
         /\ \A k \in 1 .. Width : Block(q, i)[k] = q[(i - 1) * Width + k]
<1> DEFINE first == (i - 1) * Width + 1
           last == i * Width
           b == SubSeq(q, first, last)
<1>1. Width \in Nat /\ Width > 0
  BY HalfAsMany
<1>2. (i - 1) * Width \in Nat /\ i * Width = (i - 1) * Width + Width /\ i * Width <= n * Width
  <2>1. i * Width <= n * Width
    <3> DEFINE w == n - i
    <3>1. w \in Nat /\ n = i + w
      OBVIOUS
    <3> HIDE DEF w
    <3>2. w * Width \in Nat /\ (i + w) * Width = i * Width + w * Width /\ i * Width \in Nat
      BY <1>1, <3>1
    <3> QED BY <3>1, <3>2
  <2>2. (i - 1) * Width \in Nat
    <3> DEFINE h == i - 1
    <3>1. h \in Nat
      OBVIOUS
    <3> HIDE DEF h
    <3>2. h * Width \in Nat
      BY <1>1, <3>1
    <3> QED BY <3>2 DEF h
  <2>3. i * Width = (i - 1) * Width + Width
    BY <1>1
  <2> QED BY <2>1, <2>2, <2>3
<1> DEFINE before == (i - 1) * Width
           end == n * Width
<1>3. /\ first = before + 1 /\ last = before + Width /\ before \in Nat /\ last <= end
      /\ q \in [1 .. end -> Int] /\ end \in Int
  BY <1>1, <1>2
<1> HIDE DEF before, end, first, last
<1>4. first \in Int /\ last \in Int /\ \A j \in first .. last : q[j] \in Int
  BY <1>1, <1>3
<1>5. /\ b \in Seq(Int) /\ Len(b) = IF first <= last THEN last - first + 1 ELSE 0
      /\ \A k \in 1 .. last - first + 1 : b[k] = q[first + k - 1]
  BY <1>4, SubSeqProperties
<1> HIDE DEF b
<1>6. first <= last /\ last - first + 1 = Width
  BY <1>1, <1>3
<1>7. Len(b) = Width /\ \A k \in 1 .. Width : b[k] = q[first + k - 1]
  BY <1>5, <1>6
<1>8. \A k \in 1 .. Width : first + k - 1 = before + k
  BY <1>1, <1>3
<1>9. b \in [1 .. Width -> Int]
  BY <1>5, <1>7, LenProperties
<1>10. \A k \in 1 .. Width : b[k] = q[before + k]
  BY <1>7, <1>8
<1> QED BY <1>9, <1>10 DEF Block, b, first, last, before

\* Shifted as it must be, the sums of a block have entries in their tables.
LEMMA OneBlock ==
  ASSUME NEW block \in [1 .. Width -> Int]
  PROVE  /\ nRshifts(block) \in Nat
         /\ Halved(block, nRshifts(block)) \in [1 .. Width -> Nat]
         /\ Fits(Sums(Halved(block, nRshifts(block))))
         /\ Sums(Halved(block, nRshifts(block)))[Depth][1] \in 0 .. MAX_PULSES
<1> DEFINE n == nRshifts(block)
           b == Halved(block, n)
<1>1. n \in Nat /\ Fits(Sums(b))
  BY ShiftsFit
<1> HIDE DEF n
<1>2. b \in [1 .. Width -> Nat]
  BY <1>1, HalvedIs
<1> HIDE DEF b
<1>3. IsSums(Sums(b), b)
  BY <1>2, SumsAre
<1>4. Depth \in 0 .. Depth /\ Depth \in 1 .. Depth /\ 1 \in 1 .. Pow2[Depth - Depth]
  BY HalfAsMany
<1>5. Sums(b)[Depth] \in [1 .. Pow2[Depth - Depth] -> Nat]
  BY <1>3, <1>4 DEF IsSums
<1>6. Sums(b)[Depth][1] \in Nat /\ 1 \in DOMAIN Sums(b)[Depth]
  BY <1>4, <1>5
<1>7. Sums(b)[Depth][1] <= MAX_PULSES
  BY <1>1, <1>4, <1>6 DEF Fits, MAX_PULSES
<1> QED BY <1>1, <1>2, <1>6, <1>7, LargestSum DEF n, b

\* The loops of the decoder: over the sums,
SumsDecoded(s, start, iter, level) ==
  LET sum[i \in 0 .. iter] ==
        IF i = 0 THEN [sum |-> 0, shifts |-> 0, at |-> start + 1]
        ELSE SumDecoded(s, sum[i - 1].at, level)
  IN sum

\* over the splits,
ShellsDecoded(s, iter, sum) ==
  LET shell[i \in 0 .. iter] ==
        IF i = 0 THEN [q |-> <<>>, at |-> sum[iter].at]
        ELSE shell_decoder(s, shell[i - 1].at, sum[i].sum)
  IN shell

\* and over the low bits.
LsbsDecoded(s, iter, sum, shell) ==
  LET lsb[i \in 0 .. iter] ==
        IF i = 0 THEN [q |-> <<>>, at |-> shell[iter].at]
        ELSE [q |-> LsbDecoded(s, lsb[i - 1].at, shell[i].q, sum[i].shifts),
              at |-> lsb[i - 1].at + sum[i].shifts * Width]
  IN lsb

\* The sums are read.
SumsHeld(iter, total, shifts, level, s, start, all, parts) ==
  /\ iter \in Nat /\ start \in Nat /\ IsFlat(all, parts, iter) /\ Holds(s, start + 1, all[iter])
  /\ \A i \in 1 .. iter : /\ total[i] \in 0 .. MAX_PULSES /\ shifts[i] \in Nat
                          /\ parts[i] = BlockSymbols(total[i], shifts[i], level)
SumsGiven(iter, total, shifts, sum, at) ==
  (\A i \in 1 .. iter : sum[i].sum = total[i] /\ sum[i].shifts = shifts[i]) /\ sum[iter].at = at

LEMMA SumsReturn ==
  ASSUME NEW iter, NEW total, NEW shifts, NEW level, NEW s, NEW start, NEW all, NEW parts,
         SumsHeld(iter, total, shifts, level, s, start, all, parts)
  PROVE  SumsGiven(iter, total, shifts, SumsDecoded(s, start, iter, level),
                   (start + 1) + Len(all[iter]))
<1> SUFFICES
      ASSUME iter \in Nat, start \in Nat, IsFlat(all, parts, iter), Holds(s, start + 1, all[iter]),
             \A i \in 1 .. iter : /\ total[i] \in 0 .. MAX_PULSES /\ shifts[i] \in Nat
                                  /\ parts[i] = BlockSymbols(total[i], shifts[i], level)
      PROVE  /\ \A i \in 1 .. iter : /\ SumsDecoded(s, start, iter, level)[i].sum = total[i]
                                     /\ SumsDecoded(s, start, iter, level)[i].shifts = shifts[i]
             /\ SumsDecoded(s, start, iter, level)[iter].at = (start + 1) + Len(all[iter])
  BY DEF SumsHeld, SumsGiven
<1> DEFINE first == [sum |-> 0, shifts |-> 0, at |-> start + 1]
           at == start + 1
           Solves(f) == f = [i \in 0 .. iter |-> IF i = 0 THEN first
                                                 ELSE SumDecoded(s, f[i - 1].at, level)]
           g == [i \in 0 .. iter |-> IF i = 0 THEN first
                 ELSE [sum |-> total[i], shifts |-> shifts[i], at |-> at + Len(all[i])]]
<1>1. at \in Nat /\ Holds(s, at, all[iter])
  OBVIOUS
<1>2. \A i \in 1 .. iter : Holds(s, at + Len(all[i - 1]), parts[i])
  <2> HIDE DEF at
  <2> QED BY <1>1, FlatHeld
<1>3. \A i \in 0 .. iter : g[i].at = at + Len(all[i])
  <2>1. all[0] = <<>>
    BY DEF IsFlat
  <2>2. at + Len(all[0]) = at
    BY <1>1, <2>1
  <2> QED BY <2>2
<1>4. ASSUME NEW i \in 1 .. iter PROVE g[i] = SumDecoded(s, g[i - 1].at, level)
  <2> DEFINE before == at + Len(all[i - 1])
  <2>1. i - 1 \in 0 .. iter /\ i # 0 /\ i \in 0 .. iter
    OBVIOUS
  <2>2. g[i - 1].at = before
    BY <1>3, <2>1
  <2>3. Len(all[i - 1]) \in Nat /\ Len(all[i]) = Len(all[i - 1]) + Len(parts[i])
    BY <2>1 DEF IsFlat, Sequence
  <2>4. /\ total[i] \in 0 .. MAX_PULSES /\ shifts[i] \in Nat
        /\ parts[i] = BlockSymbols(total[i], shifts[i], level)
    OBVIOUS
  <2>5. Holds(s, before, BlockSymbols(total[i], shifts[i], level))
    BY <1>2, <2>4
  <2>6. Len(parts[i]) = shifts[i] + 1
    <3> DEFINE sum == total[i]
               n == shifts[i]
    <3>1. n \in Nat /\ parts[i] = BlockSymbols(sum, n, level)
      BY <2>4
    <3> HIDE DEF sum, n
    <3>2. Len(BlockSymbols(sum, n, level)) = n + 1
      BY ONLY <3>1, BlockIs
    <3> QED BY <3>1, <3>2 DEF n
  <2>7. at + Len(all[i]) = before + (shifts[i] + 1)
    <3>1. shifts[i] \in Nat
      BY <2>4
    <3> HIDE DEF at
    <3> QED BY <1>1, <2>3, <2>6, <3>1
  <2> HIDE DEF before
  <2>8. SumDecoded(s, before, level)
        = [sum |-> total[i], shifts |-> shifts[i], at |-> before + (shifts[i] + 1)]
    BY <2>4, <2>5, SumReturns
  <2>9. g[i] = [sum |-> total[i], shifts |-> shifts[i], at |-> at + Len(all[i])]
    BY <2>1
  <2> HIDE DEF g
  <2> QED BY <2>2, <2>7, <2>8, <2>9
<1>5. g[0] = first
  OBVIOUS
<1>6. Solves(g)
  <2>1. \A i \in 0 .. iter : g[i] = IF i = 0 THEN first ELSE SumDecoded(s, g[i - 1].at, level)
    <3> HIDE DEF g, first
    <3> QED BY <1>4, <1>5
  <2>2. g = [i \in 0 .. iter |-> g[i]]
    OBVIOUS
  <2> HIDE DEF g, first
  <2> QED BY <2>1, <2>2
<1> DEFINE f == CHOOSE h : Solves(h)
<1>7. Solves(f)
  <2> HIDE DEF Solves, g
  <2> QED BY <1>6
<1>8. SumsDecoded(s, start, iter, level) = f
  BY DEF SumsDecoded
<1> HIDE DEF f, first
<1>9. Alike(f, g, iter)
  <2> HIDE DEF g
  <2>1. f[0] = first /\ g[0] = first
    BY <1>6, <1>7
  <2>2. ASSUME NEW i \in 1 .. iter, f[i - 1] = g[i - 1] PROVE f[i] = g[i]
    <3>1. i \in 0 .. iter /\ i # 0
      OBVIOUS
    <3>2. f[i] = SumDecoded(s, f[i - 1].at, level) /\ g[i] = SumDecoded(s, g[i - 1].at, level)
      BY <1>6, <1>7, <3>1
    <3> QED BY <2>2, <3>2
  <2> QED BY <2>1, <2>2 DEF Alike
<1>10. \A i \in 0 .. iter : f[i] = g[i]
  <2> HIDE DEF g
  <2> QED BY <1>9, AlikeIsSame
<1>11. \A i \in 1 .. iter : g[i].sum = total[i] /\ g[i].shifts = shifts[i]
  OBVIOUS
<1>12. iter \in 0 .. iter /\ \A i \in 1 .. iter : i \in 0 .. iter
  OBVIOUS
<1> HIDE DEF g
<1> QED BY <1>3, <1>8, <1>10, <1>11, <1>12

\* The splits are read.
LEMMA ShellsReturn ==
  ASSUME NEW iter \in Nat, NEW blocks, NEW s, HasData(s), NEW sum, NEW at, at = sum[iter].at,
         NEW all, NEW parts, IsFlat(all, parts, iter), Holds(s, at, all[iter]),
         \A i \in 1 .. iter : /\ blocks[i] \in [1 .. Width -> Nat]
                              /\ sum[i].sum = Sums(blocks[i])[Depth][1]
                              /\ parts[i] = shell_encoder(Sums(blocks[i]))
  PROVE  /\ \A i \in 1 .. iter : ShellsDecoded(s, iter, sum)[i].q = blocks[i]
         /\ ShellsDecoded(s, iter, sum)[iter].at = at + Len(all[iter])
<1> DEFINE first == [q |-> <<>>, at |-> at]
           Solves(f) == f = [i \in 0 .. iter |-> IF i = 0 THEN first
                                                 ELSE shell_decoder(s, f[i - 1].at, sum[i].sum)]
           g == [i \in 0 .. iter |-> IF i = 0 THEN first
                                     ELSE [q |-> blocks[i], at |-> at + Len(all[i])]]
<1>1. at \in Nat
  BY DEF Holds
<1>2. \A i \in 1 .. iter : Holds(s, at + Len(all[i - 1]), parts[i])
  BY FlatHeld
<1>3. \A i \in 0 .. iter : g[i].at = at + Len(all[i])
  <2>1. all[0] = <<>>
    BY DEF IsFlat
  <2>2. at + Len(all[0]) = at
    BY <1>1, <2>1
  <2> QED BY <2>2
<1>4. ASSUME NEW i \in 1 .. iter PROVE g[i] = shell_decoder(s, g[i - 1].at, sum[i].sum)
  <2> DEFINE before == at + Len(all[i - 1])
             b == blocks[i]
             part == shell_encoder(Sums(b))
  <2>1. i - 1 \in 0 .. iter /\ i # 0 /\ i \in 0 .. iter
    OBVIOUS
  <2>2. g[i - 1].at = before
    BY <1>3, <2>1
  <2>3. Len(all[i - 1]) \in Nat /\ Len(all[i]) = Len(all[i - 1]) + Len(parts[i])
        /\ Len(parts[i]) \in Nat
    BY <2>1 DEF IsFlat, Sequence
  <2>4. b \in [1 .. Width -> Nat] /\ sum[i].sum = Sums(b)[Depth][1] /\ parts[i] = part
    OBVIOUS
  <2>5. Holds(s, before, part)
    BY <1>2, <2>4
  <2>6. at + Len(all[i]) = before + Len(part)
    <3> HIDE DEF part
    <3> QED BY <1>1, <2>3, <2>4
  <2>7. g[i] = [q |-> b, at |-> at + Len(all[i])]
    BY <2>1
  <2> HIDE DEF before, b
  <2>8. shell_decoder(s, before, Sums(b)[Depth][1]) = [q |-> b, at |-> before + Len(part)]
    BY <2>4, <2>5, ShellReturns
  <2> HIDE DEF g, part
  <2> QED BY <2>2, <2>4, <2>6, <2>7, <2>8
<1>5. g[0] = first
  OBVIOUS
<1>6. Solves(g)
  <2>1. \A i \in 0 .. iter : g[i] = IF i = 0 THEN first ELSE shell_decoder(s, g[i - 1].at, sum[i].sum)
    <3> HIDE DEF g, first
    <3> QED BY <1>4, <1>5
  <2>2. g = [i \in 0 .. iter |-> g[i]]
    OBVIOUS
  <2> HIDE DEF g, first
  <2> QED BY <2>1, <2>2
<1> DEFINE f == CHOOSE h : Solves(h)
<1>7. Solves(f)
  <2> HIDE DEF Solves, g
  <2> QED BY <1>6
<1>8. ShellsDecoded(s, iter, sum) = f
  BY DEF ShellsDecoded
<1> HIDE DEF f, first
<1>9. Alike(f, g, iter)
  <2> HIDE DEF g
  <2>1. f[0] = first /\ g[0] = first
    BY <1>6, <1>7
  <2>2. ASSUME NEW i \in 1 .. iter, f[i - 1] = g[i - 1] PROVE f[i] = g[i]
    <3>1. i \in 0 .. iter /\ i # 0
      OBVIOUS
    <3>2. /\ f[i] = shell_decoder(s, f[i - 1].at, sum[i].sum)
          /\ g[i] = shell_decoder(s, g[i - 1].at, sum[i].sum)
      BY <1>6, <1>7, <3>1
    <3> QED BY <2>2, <3>2
  <2> QED BY <2>1, <2>2 DEF Alike
<1>10. \A i \in 0 .. iter : f[i] = g[i]
  <2> HIDE DEF g
  <2> QED BY <1>9, AlikeIsSame
<1>11. \A i \in 1 .. iter : g[i].q = blocks[i]
  OBVIOUS
<1>12. iter \in 0 .. iter /\ \A i \in 1 .. iter : i \in 0 .. iter
  OBVIOUS
<1> HIDE DEF g
<1> QED BY <1>3, <1>8, <1>10, <1>11, <1>12

\* The low bits are read.
LsbsHeld(iter, blocks, shifts, s, sum, shell, at, all, parts) ==
  /\ iter \in Nat /\ at = shell[iter].at /\ IsFlat(all, parts, iter) /\ Holds(s, at, all[iter])
  /\ \A i \in 1 .. iter : /\ blocks[i] \in [1 .. Width -> Int] /\ shifts[i] \in Nat
                          /\ sum[i].shifts = shifts[i]
                          /\ shell[i].q = Halved(blocks[i], shifts[i])
                          /\ parts[i] = LsbSymbols(blocks[i], shifts[i])
LsbsGiven(iter, blocks, lsb, at) ==
  /\ \A i \in 1 .. iter : lsb[i].q = [k \in 1 .. Width |-> Size(blocks[i][k])]
  /\ lsb[iter].at = at

LEMMA LsbsReturn ==
  ASSUME NEW iter, NEW blocks, NEW shifts, NEW s, NEW sum, NEW shell, NEW at, NEW all, NEW parts,
         LsbsHeld(iter, blocks, shifts, s, sum, shell, at, all, parts)
  PROVE  LsbsGiven(iter, blocks, LsbsDecoded(s, iter, sum, shell), at + Len(all[iter]))
<1> SUFFICES
      ASSUME iter \in Nat, at = shell[iter].at, IsFlat(all, parts, iter), Holds(s, at, all[iter]),
             \A i \in 1 .. iter : /\ blocks[i] \in [1 .. Width -> Int] /\ shifts[i] \in Nat
                                  /\ sum[i].shifts = shifts[i]
                                  /\ shell[i].q = Halved(blocks[i], shifts[i])
                                  /\ parts[i] = LsbSymbols(blocks[i], shifts[i])
      PROVE  /\ \A i \in 1 .. iter : LsbsDecoded(s, iter, sum, shell)[i].q
                                      = [k \in 1 .. Width |-> Size(blocks[i][k])]
             /\ LsbsDecoded(s, iter, sum, shell)[iter].at = at + Len(all[iter])
  BY DEF LsbsHeld, LsbsGiven
<1> DEFINE first == [q |-> <<>>, at |-> at]
           Further(r, i) == [q |-> LsbDecoded(s, r.at, shell[i].q, sum[i].shifts),
                             at |-> r.at + sum[i].shifts * Width]
           Solves(f) == f = [i \in 0 .. iter |-> IF i = 0 THEN first ELSE Further(f[i - 1], i)]
           sizes(i) == [k \in 1 .. Width |-> Size(blocks[i][k])]
           g == [i \in 0 .. iter |-> IF i = 0 THEN first
                                     ELSE [q |-> sizes(i), at |-> at + Len(all[i])]]
<1>1. at \in Nat
  BY DEF Holds
<1>2. \A i \in 1 .. iter : Holds(s, at + Len(all[i - 1]), parts[i])
  BY FlatHeld
<1>3. \A i \in 0 .. iter : g[i].at = at + Len(all[i])
  <2>1. all[0] = <<>>
    BY DEF IsFlat
  <2>2. at + Len(all[0]) = at
    BY <1>1, <2>1
  <2> QED BY <2>2
<1>4. ASSUME NEW i \in 1 .. iter PROVE g[i] = Further(g[i - 1], i)
  <2> DEFINE before == at + Len(all[i - 1])
             b == blocks[i]
             n == shifts[i]
             part == LsbSymbols(b, n)
  <2>1. i - 1 \in 0 .. iter /\ i # 0 /\ i \in 0 .. iter
    OBVIOUS
  <2>2. g[i - 1].at = before
    BY <1>3, <2>1
  <2>3. Len(all[i - 1]) \in Nat /\ Len(all[i]) = Len(all[i - 1]) + Len(parts[i])
    BY <2>1 DEF IsFlat, Sequence
  <2>4. /\ b \in [1 .. Width -> Int] /\ n \in Nat /\ sum[i].shifts = n
        /\ shell[i].q = Halved(b, n) /\ parts[i] = part
    OBVIOUS
  <2>5. Holds(s, before, part)
    BY <1>2, <2>4
  <2>6. g[i] = [q |-> sizes(i), at |-> at + Len(all[i])]
    BY <2>1
  <2>7. sizes(i) = [k \in 1 .. Width |-> Size(b[k])]
    OBVIOUS
  <2> HIDE DEF b, n, sizes
  <2>8. Len(part) = Width * n
    BY <2>4, LsbAre
  <2>9. Width \in Nat
    BY HalfAsMany
  <2>10. at + Len(all[i]) = before + n * Width
    <3> HIDE DEF part
    <3>1. Width * n = n * Width
      BY <2>4, <2>9
    <3>2. n * Width \in Int
      BY <2>4, <2>9
    <3> QED BY <1>1, <2>3, <2>4, <2>8, <3>1, <3>2
  <2> HIDE DEF before
  <2>11. LsbDecoded(s, before, Halved(b, n), n) = sizes(i)
    <3>1. LsbDecoded(s, before, Halved(b, n), n) = [k \in 1 .. Width |-> Size(b[k])]
      <4>1. b \in [1 .. Width -> Int] /\ n \in Nat /\ Holds(s, before, LsbSymbols(b, n))
        BY <2>4, <2>5
      <4> QED BY ONLY <4>1, LsbReturn
    <3> QED BY <2>7, <3>1
  <2> HIDE DEF g, part
  <2> QED BY <2>2, <2>4, <2>6, <2>10, <2>11
<1>5. g[0] = first
  OBVIOUS
<1> HIDE DEF Further
<1>6. Solves(g)
  <2>1. \A i \in 0 .. iter : g[i] = IF i = 0 THEN first ELSE Further(g[i - 1], i)
    <3> HIDE DEF g, first
    <3> QED BY <1>4, <1>5
  <2>2. g = [i \in 0 .. iter |-> g[i]]
    OBVIOUS
  <2> HIDE DEF g, first
  <2> QED BY <2>1, <2>2
<1> DEFINE f == CHOOSE h : Solves(h)
<1>7. Solves(f)
  <2> HIDE DEF Solves, g
  <2> QED BY <1>6
<1>8. LsbsDecoded(s, iter, sum, shell) = f
  BY DEF LsbsDecoded, Further
<1> HIDE DEF f, first
<1>9. Alike(f, g, iter)
  <2> HIDE DEF g
  <2>1. f[0] = first /\ g[0] = first
    BY <1>6, <1>7
  <2>2. ASSUME NEW i \in 1 .. iter, f[i - 1] = g[i - 1] PROVE f[i] = g[i]
    <3>1. i \in 0 .. iter /\ i # 0
      OBVIOUS
    <3>2. f[i] = Further(f[i - 1], i) /\ g[i] = Further(g[i - 1], i)
      BY <1>6, <1>7, <3>1
    <3> QED BY <2>2, <3>2
  <2> QED BY <2>1, <2>2 DEF Alike
<1>10. \A i \in 0 .. iter : f[i] = g[i]
  <2> HIDE DEF g
  <2> QED BY <1>9, AlikeIsSame
<1>11. \A i \in 1 .. iter : g[i].q = sizes(i)
  OBVIOUS
<1>12. iter \in 0 .. iter /\ \A i \in 1 .. iter : i \in 0 .. iter
  OBVIOUS
<1> HIDE DEF g
<1> QED BY <1>3, <1>8, <1>10, <1>11, <1>12

-----------------------------------------------------------------------------
(* The frame.                                                              *)

\* The sizes of the blocks are those of the frame.
LEMMA SizesReturn ==
  ASSUME NEW iter \in Nat, NEW m, m = iter * Width, NEW q \in [1 .. m -> Int],
         NEW parts, Len(parts) = iter,
         \A i \in 1 .. iter : parts[i] = [k \in 1 .. Width |-> Size(Block(q, i)[k])]
  PROVE  Flat(parts) = Sizes(q, m)
<1> SUFFICES ASSUME q \in [1 .. iter * Width -> Int]
             PROVE  Flat(parts) = [x \in 1 .. iter * Width |-> Size(q[x])]
  BY DEF Sizes
<1>1. Width \in Nat /\ Width > 0
  BY HalfAsMany
<1>2. ASSUME NEW i \in 1 .. iter PROVE Sequence(parts[i]) /\ Len(parts[i]) = Width
  <2> DEFINE f == [k \in 1 .. Width |-> Size(Block(q, i)[k])]
  <2>1. parts[i] = f /\ f = [k \in 1 .. Width |-> f[k]]
    OBVIOUS
  <2> HIDE DEF f
  <2>2. Sequence(f) /\ Len(f) = Width
    BY <1>1, <2>1, FunctionIsSequence
  <2> QED BY <2>1, <2>2
<1>3. PICK all : IsFlat(all, parts, iter) /\ Flat(parts) = all[iter]
  BY <1>2, FlatIs
<1>4. Sequence(all[iter])
  BY <1>3 DEF IsFlat
<1>5. Len(all[iter]) = iter * Width
  <2>1. EvenlyEnding(all, iter, Width)
    <3>1. \A i \in 1 .. iter : Len(parts[i]) = Width
      BY <1>2
    <3> QED BY ONLY <1>1, <1>3, <3>1, iter \in Nat, EvenlyLong
  <2> QED BY <2>1 DEF EvenlyEnding
<1>6. EvenParts(all[iter], parts, iter, Width)
  BY <1>1, <1>2, <1>3, EvenlyPlaced
<1>7. ASSUME NEW x \in 1 .. iter * Width PROVE all[iter][x] = Size(q[x])
  <2> DEFINE h == (x - 1) \div Width
             r == (x - 1) % Width
             i == h + 1
             k == r + 1
  <2>1. x - 1 \in Int /\ Width \in Int /\ Width > 0
    BY <1>1
  <2>2. r \in Int /\ 0 <= r /\ r < Width /\ h \in Int /\ x - 1 = h * Width + r
    BY <2>1, Remainder
  <2> HIDE DEF h, r
  <2>3. h >= 0
    <3>1. CASE h < 0
      <4> DEFINE w == h + 1
      <4>1. w \in Int /\ w <= 0 /\ h = w - 1
        BY <2>2, <3>1
      <4> HIDE DEF w
      <4>2. w * Width <= 0 /\ (w - 1) * Width = w * Width - Width /\ w * Width \in Int
        BY <1>1, <4>1
      <4>3. h * Width = w * Width - Width
        BY <4>1, <4>2
      <4>4. x - 1 < 0
        <5> DEFINE u == w * Width
        <5>1. x - 1 = (u - Width) + r /\ u <= 0 /\ u \in Int
          BY <2>2, <4>2, <4>3
        <5> HIDE DEF u
        <5> QED BY <1>1, <2>2, <5>1
      <4> QED BY <4>4
    <3> QED BY <2>2, <3>1
  <2>4. h < iter
    <3>1. CASE h >= iter
      <4> DEFINE w == h - iter
      <4>1. w \in Nat /\ h = iter + w
        BY <2>2, <3>1
      <4> HIDE DEF w
      <4>2. w * Width \in Nat /\ (iter + w) * Width = iter * Width + w * Width /\ iter * Width \in Nat
        BY <1>1, <4>1
      <4>3. x - 1 >= iter * Width
        BY <2>2, <4>1, <4>2
      <4> QED BY <4>2, <4>3
    <3> QED BY <2>2, <3>1
  <2>5. i \in 1 .. iter /\ k \in 1 .. Width /\ i - 1 = h
    <3>1. h \in Int /\ r \in Int /\ 0 <= r /\ r < Width
      BY <2>2
    <3> QED BY ONLY <1>1, <2>3, <2>4, <3>1, iter \in Nat DEF i, k
  <2>6. (i - 1) * Width + k = x
    <3>1. (i - 1) * Width = h * Width
      BY <2>5
    <3>2. h * Width \in Int
      BY <1>1, <2>2
    <3> HIDE DEF i
    <3> QED BY <2>2, <3>1, <3>2
  <2> HIDE DEF i, k
  <2>7. all[iter][(i - 1) * Width + k] = parts[i][k]
    BY <1>6, <2>5 DEF EvenParts
  <2>8. parts[i][k] = Size(Block(q, i)[k])
    BY <2>5
  <2>9. Block(q, i)[k] = q[(i - 1) * Width + k]
    BY <2>5, BlockOf
  <2> QED BY <2>6, <2>7, <2>8, <2>9
<1>8. all[iter] = [x \in 1 .. iter * Width |-> all[iter][x]]
  BY <1>4, <1>5 DEF Sequence
<1> QED BY <1>3, <1>7, <1>8

\* What consists of five parts holds them one after the other.
FiveParts(s, a, b, c, d, e, at2, at3, at4, at5) ==
  /\ Sequence(s) /\ at2 = 1 + Len(a) /\ at3 = at2 + Len(b) /\ at4 = at3 + Len(c)
  /\ at5 = at4 + Len(d) /\ Len(s) + 1 = at5 + Len(e)
  /\ Holds(s, 1, a) /\ Holds(s, at2, b) /\ Holds(s, at3, c) /\ Holds(s, at4, d) /\ Holds(s, at5, e)

LEMMA FivePartsHeld ==
  ASSUME NEW a, NEW b, NEW c, NEW d, NEW e,
         Sequence(a), Sequence(b), Sequence(c), Sequence(d), Sequence(e)
  PROVE  \E at2, at3, at4, at5 :
           FiveParts(a \o b \o c \o d \o e, a, b, c, d, e, at2, at3, at4, at5)
<1> DEFINE ab == a \o b
           abc == ab \o c
           abcd == abc \o d
           s == abcd \o e
<1>1. Sequence(ab) /\ Len(ab) = Len(a) + Len(b)
  BY Concatenated
<1> HIDE DEF ab
<1>2. Sequence(abc) /\ Len(abc) = Len(ab) + Len(c)
  BY <1>1, Concatenated
<1> HIDE DEF abc
<1>3. Sequence(abcd) /\ Len(abcd) = Len(abc) + Len(d)
  BY <1>2, Concatenated
<1> HIDE DEF abcd
<1>4. Sequence(s) /\ Len(s) = Len(abcd) + Len(e)
  BY <1>3, Concatenated
<1>5. Holds(s, 1, abcd) /\ Holds(s, 1 + Len(abcd), e)
  <2>1. Holds(s, 1, s)
    BY <1>4, AllHeld
  <2> QED BY <1>3, <2>1, PartsHeld
<1> HIDE DEF s
<1>6. Holds(s, 1, abc) /\ Holds(s, 1 + Len(abc), d)
  BY <1>2, <1>5, PartsHeld DEF abcd
<1>7. Holds(s, 1, ab) /\ Holds(s, 1 + Len(ab), c)
  BY <1>1, <1>6, PartsHeld DEF abc
<1>8. Holds(s, 1, a) /\ Holds(s, 1 + Len(a), b)
  BY <1>7, PartsHeld DEF ab
<1>9. Len(a) \in Nat /\ Len(b) \in Nat /\ Len(c) \in Nat /\ Len(d) \in Nat /\ Len(e) \in Nat
  BY DEF Sequence
<1>10. /\ 1 + Len(ab) = (1 + Len(a)) + Len(b) /\ 1 + Len(abc) = (1 + Len(ab)) + Len(c)
       /\ 1 + Len(abcd) = (1 + Len(abc)) + Len(d) /\ Len(s) + 1 = (1 + Len(abcd)) + Len(e)
  BY <1>1, <1>2, <1>3, <1>4, <1>9
<1>11. FiveParts(s, a, b, c, d, e, 1 + Len(a), 1 + Len(ab), 1 + Len(abc), 1 + Len(abcd))
  BY <1>4, <1>5, <1>6, <1>7, <1>8, <1>10 DEF FiveParts
<1> QED BY <1>11 DEF s, abcd, abc, ab

LEMMA FivePartsHaveEntries ==
  ASSUME NEW a, NEW b, NEW c, NEW d, NEW e,
         Sequence(a), Sequence(b), Sequence(c), Sequence(d), Sequence(e),
         HaveEntries(a), HaveEntries(b), HaveEntries(c), HaveEntries(d), HaveEntries(e)
  PROVE  HaveEntries(a \o b \o c \o d \o e)
<1> DEFINE ab == a \o b
           abc == ab \o c
           abcd == abc \o d
<1>1. Sequence(ab) /\ HaveEntries(ab)
  BY Concatenated, EntriesOfTwo
<1> HIDE DEF ab
<1>2. Sequence(abc) /\ HaveEntries(abc)
  BY <1>1, Concatenated, EntriesOfTwo
<1> HIDE DEF abc
<1>3. Sequence(abcd) /\ HaveEntries(abcd)
  BY <1>2, Concatenated, EntriesOfTwo
<1> HIDE DEF abcd
<1>4. HaveEntries(abcd \o e)
  BY <1>3, EntriesOfTwo
<1> QED BY <1>4 DEF abcd, abc, ab

\* Symbols that have entries are numbers.
LEMMA EntriesAreData ==
  ASSUME NEW s, Sequence(s), HaveEntries(s)
  PROVE  HasData(s)
BY DEF HaveEntries, HasEntry, HasData

\* For every frame that consists of blocks, and each rate level the encoder may choose
\* (the last one is that of the escapes): SKP_Silk_decode_pulses() returns the pulses that
\* SKP_Silk_encode_pulses() was given and takes the symbols it wrote, all of them, and
\* every symbol has an entry in its table.
THEOREM PulsesAreDecoded ==
  ASSUME NEW n \in Nat, NEW q \in [1 .. n * Width -> Int], NEW sigtype, NEW offset,
         NEW level \in 0 .. N_RATE_LEVELS - 2
  PROVE  PulsesSurvive(q, sigtype, offset, level)
<1> DEFINE blocks == [i \in 1 .. n |-> Block(q, i)]
           shifts == [i \in 1 .. n |-> nRshifts(Block(q, i))]
           sums == [i \in 1 .. n |-> Sums(Halved(Block(q, i), shifts[i]))]
           halves == [i \in 1 .. n |-> Halved(Block(q, i), shifts[i])]
           total == [i \in 1 .. n |-> sums[i][Depth][1]]
           rate == <<Symbol(RateLevels(sigtype), level)>>
           p1 == [i \in 1 .. n |-> BlockSymbols(sums[i][Depth][1], shifts[i], level)]
           p2 == [i \in 1 .. n |-> shell_encoder(sums[i])]
           p3 == [i \in 1 .. n |-> LsbSymbols(Block(q, i), shifts[i])]
           signs == encode_signs(q, sigtype, offset, level)
           s == rate \o Flat(p1) \o Flat(p2) \o Flat(p3) \o signs
<1>1. Width \in Nat /\ Width > 0 /\ n * Width \in Nat
  BY HalfAsMany
<1>2. Len(q) \div Width = n
  <2>1. Len(q) = n * Width
    BY <1>1, LenProperties
  <2>2. n * Width = n * Width + 0
    BY <1>1
  <2> DEFINE x == n * Width
  <2> HIDE DEF x
  <2>3. x = n * Width + 0 /\ x \in Int
    BY <1>1, <2>2 DEF x
  <2>4. x \div Width = n
    BY <1>1, <2>3, RemainderIs
  <2> QED BY <2>1, <2>4 DEF x
<1>3. encode_pulses(q, sigtype, offset, level) = s
  BY <1>2 DEF encode_pulses
<1>4. ASSUME NEW i \in 1 .. n
      PROVE  /\ blocks[i] \in [1 .. Width -> Int] /\ shifts[i] \in Nat
             /\ halves[i] = Halved(blocks[i], shifts[i]) /\ halves[i] \in [1 .. Width -> Nat]
             /\ sums[i] = Sums(halves[i]) /\ Fits(sums[i]) /\ total[i] \in 0 .. MAX_PULSES
             /\ total[i] = Sums(halves[i])[Depth][1]
             /\ p1[i] = BlockSymbols(total[i], shifts[i], level)
             /\ p2[i] = shell_encoder(sums[i])
             /\ p3[i] = LsbSymbols(blocks[i], shifts[i])
             /\ blocks[i] = Block(q, i)
  <2> DEFINE block == Block(q, i)
  <2>1. block \in [1 .. Width -> Int]
    BY BlockOf
  <2>2. /\ blocks[i] = block /\ shifts[i] = nRshifts(block)
        /\ halves[i] = Halved(block, nRshifts(block)) /\ sums[i] = Sums(Halved(block, nRshifts(block)))
        /\ total[i] = Sums(Halved(block, nRshifts(block)))[Depth][1]
        /\ p1[i] = BlockSymbols(total[i], shifts[i], level)
        /\ p2[i] = shell_encoder(sums[i])
        /\ p3[i] = LsbSymbols(block, shifts[i])
    OBVIOUS
  <2> HIDE DEF block, blocks, shifts, halves, sums, total, p1, p2, p3
  <2>3. /\ nRshifts(block) \in Nat /\ Halved(block, nRshifts(block)) \in [1 .. Width -> Nat]
        /\ Fits(Sums(Halved(block, nRshifts(block))))
        /\ Sums(Halved(block, nRshifts(block)))[Depth][1] \in 0 .. MAX_PULSES
    BY <2>1, OneBlock
  <2> QED BY <2>1, <2>2, <2>3 DEF block
<1>5. Len(p1) = n /\ Len(p2) = n /\ Len(p3) = n
  <2>1. \A f : f = [i \in 1 .. n |-> f[i]] => Len(f) = n
    BY FunctionIsSequence
  <2> DEFINE a(i) == BlockSymbols(sums[i][Depth][1], shifts[i], level)
             b(i) == shell_encoder(sums[i])
             c(i) == LsbSymbols(Block(q, i), shifts[i])
  <2> HIDE DEF a, b, c
  <2>2. Len([i \in 1 .. n |-> a(i)]) = n
    BY <2>1
  <2>3. Len([i \in 1 .. n |-> b(i)]) = n
    BY <2>1
  <2>4. Len([i \in 1 .. n |-> c(i)]) = n
    BY <2>1
  <2> QED BY <2>2, <2>3, <2>4 DEF a, b, c
<1> HIDE DEF blocks, shifts, sums, halves, total, rate, p1, p2, p3, signs, s
<1>6. \A i \in 1 .. n : Sequence(p1[i]) /\ HaveEntries(p1[i])
  <2> SUFFICES ASSUME NEW i \in 1 .. n PROVE Sequence(p1[i]) /\ HaveEntries(p1[i])
    OBVIOUS
  <2> DEFINE x == total[i]
             m == shifts[i]
  <2>1. x \in 0 .. MAX_PULSES /\ m \in Nat /\ p1[i] = BlockSymbols(x, m, level)
    BY <1>4
  <2> HIDE DEF x, m
  <2>2. Sequence(BlockSymbols(x, m, level))
    BY ONLY <2>1, BlockIs
  <2>3. HaveEntries(BlockSymbols(x, m, level))
    BY ONLY <2>1, BlockHasEntries
  <2> QED BY <2>1, <2>2, <2>3
<1>7. \A i \in 1 .. n : Sequence(p2[i]) /\ HaveEntries(p2[i])
  <2> SUFFICES ASSUME NEW i \in 1 .. n PROVE Sequence(p2[i]) /\ HaveEntries(p2[i])
    OBVIOUS
  <2> DEFINE b == halves[i]
  <2>1. b \in [1 .. Width -> Nat] /\ Fits(Sums(b)) /\ p2[i] = shell_encoder(Sums(b))
    BY <1>4
  <2> HIDE DEF b
  <2>2. Sequence(shell_encoder(Sums(b))) /\ HaveEntries(shell_encoder(Sums(b)))
    BY ONLY <2>1, ShellHasEntries
  <2> QED BY <2>1, <2>2
<1>8. \A i \in 1 .. n : Sequence(p3[i]) /\ HaveEntries(p3[i])
  <2> SUFFICES ASSUME NEW i \in 1 .. n PROVE Sequence(p3[i]) /\ HaveEntries(p3[i])
    OBVIOUS
  <2> DEFINE b == blocks[i]
             m == shifts[i]
  <2>1. b \in [1 .. Width -> Int] /\ m \in Nat /\ p3[i] = LsbSymbols(b, m)
    BY <1>4
  <2> HIDE DEF b, m
  <2>2. Sequence(LsbSymbols(b, m)) /\ HaveEntries(LsbSymbols(b, m))
    BY ONLY <2>1, LsbAre
  <2> QED BY <2>1, <2>2
<1>9. PICK all1 : IsFlat(all1, p1, n) /\ Flat(p1) = all1[n]
  BY <1>5, <1>6, FlatIs
<1>10. PICK all2 : IsFlat(all2, p2, n) /\ Flat(p2) = all2[n]
  BY <1>5, <1>7, FlatIs
<1>11. PICK all3 : IsFlat(all3, p3, n) /\ Flat(p3) = all3[n]
  BY <1>5, <1>8, FlatIs
<1>12. Sequence(all1[n]) /\ Sequence(all2[n]) /\ Sequence(all3[n])
  BY <1>9, <1>10, <1>11 DEF IsFlat
<1>13. HaveEntries(all1[n]) /\ HaveEntries(all2[n]) /\ HaveEntries(all3[n])
  <2>1. HaveEntries(all1[n])
    BY <1>6, <1>9, EntriesOfFlat
  <2>2. HaveEntries(all2[n])
    BY <1>7, <1>10, EntriesOfFlat
  <2>3. HaveEntries(all3[n])
    BY <1>8, <1>11, EntriesOfFlat
  <2> QED BY <2>1, <2>2, <2>3
<1>14. /\ Sequence(rate) /\ Len(rate) = 1 /\ rate[1].table = RateLevels(sigtype)
       /\ rate[1].data = level /\ HaveEntries(rate)
  <2> DEFINE symbol == Symbol(RateLevels(sigtype), level)
  <2>1. symbol.table = RateLevels(sigtype) /\ symbol.data = level
    BY DEF Symbol
  <2>2. PulseAlphabet(RateLevels(sigtype)) = N_RATE_LEVELS - 1
    BY DEF RateLevels, PulseAlphabet
  <2> HIDE DEF symbol
  <2>3. HasEntry(symbol)
    BY <2>1, <2>2, PulsesAssumption DEF HasEntry
  <2>4. rate = <<symbol>>
    BY DEF rate, symbol
  <2> QED BY <2>1, <2>3, <2>4 DEF Sequence, HaveEntries
<1>15. Sequence(signs) /\ HaveEntries(signs)
  BY <1>1, SignsAre DEF signs
<1>16. s = rate \o all1[n] \o all2[n] \o all3[n] \o signs
  BY <1>9, <1>10, <1>11 DEF s
<1>17. HaveEntries(s)
  <2>1. HaveEntries(rate \o all1[n] \o all2[n] \o all3[n] \o signs)
    BY <1>12, <1>13, <1>14, <1>15, FivePartsHaveEntries
  <2> QED BY <1>16, <2>1
<1>18. PICK at2, at3, at4, at5 : FiveParts(s, rate, all1[n], all2[n], all3[n], signs, at2, at3, at4, at5)
  <2>1. \E at2, at3, at4, at5 :
          FiveParts(rate \o all1[n] \o all2[n] \o all3[n] \o signs,
                    rate, all1[n], all2[n], all3[n], signs, at2, at3, at4, at5)
    BY <1>12, <1>14, <1>15, FivePartsHeld
  <2> QED BY <1>16, <2>1
<1>19. /\ Sequence(s) /\ at2 = 1 + 1 /\ at3 = at2 + Len(all1[n]) /\ at4 = at3 + Len(all2[n])
       /\ at5 = at4 + Len(all3[n]) /\ Len(s) + 1 = at5 + Len(signs)
       /\ Holds(s, 1, rate) /\ Holds(s, at2, all1[n]) /\ Holds(s, at3, all2[n])
       /\ Holds(s, at4, all3[n]) /\ Holds(s, at5, signs)
  BY <1>14, <1>18 DEF FiveParts
<1>20. Read(s, 1, RateLevels(sigtype)) = level
  <2>1. 1 \in 1 .. Len(rate) /\ 1 + (1 - 1) = 1
    BY <1>14
  <2>2. Read(s, 1 + (1 - 1), rate[1].table) = rate[1].data
    <3>1. Holds(s, 1, rate)
      BY <1>19
    <3> QED BY ONLY <2>1, <3>1, HeldIsRead
  <2> QED BY <1>14, <2>1, <2>2
<1> DEFINE sum == SumsDecoded(s, 1, n, level)
           shell == ShellsDecoded(s, n, sum)
           lsb == LsbsDecoded(s, n, sum, shell)
           sizes == [i \in 1 .. n |-> lsb[i].q]
<1>21. decode_pulses(s, 1, n, sigtype, offset)
       = decode_signs(s, lsb[n].at, Flat(sizes), sigtype, offset, level)
  <2> DEFINE read == Read(s, 1, RateLevels(sigtype))
             sum1 == SumsDecoded(s, 1, n, read)
             shell1 == ShellsDecoded(s, n, sum1)
             lsb1 == LsbsDecoded(s, n, sum1, shell1)
  <2>1. decode_pulses(s, 1, n, sigtype, offset)
        = decode_signs(s, lsb1[n].at, Flat([i \in 1 .. n |-> lsb1[i].q]), sigtype, offset, read)
    BY DEF decode_pulses, SumsDecoded, ShellsDecoded, LsbsDecoded
  <2>2. read = level
    BY <1>20
  <2> HIDE DEF read
  <2> QED BY <2>1, <2>2
<1>22. (\A i \in 1 .. n : sum[i].sum = total[i] /\ sum[i].shifts = shifts[i]) /\ sum[n].at = at3
  <2>1. \A i \in 1 .. n : /\ total[i] \in 0 .. MAX_PULSES /\ shifts[i] \in Nat
                          /\ p1[i] = BlockSymbols(total[i], shifts[i], level)
    BY <1>4
  <2>2. Holds(s, 1 + 1, all1[n]) /\ 1 \in Nat
    BY <1>19
  <2>3. SumsHeld(n, total, shifts, level, s, 1, all1, p1)
    BY <1>9, <2>1, <2>2 DEF SumsHeld
  <2>4. SumsGiven(n, total, shifts, sum, (1 + 1) + Len(all1[n]))
    BY ONLY <2>3, SumsReturn
  <2> HIDE DEF sum
  <2> QED BY <1>19, <2>4 DEF SumsGiven
<1> HIDE DEF sum
<1>23. (\A i \in 1 .. n : shell[i].q = halves[i]) /\ shell[n].at = at4
  <2>1. \A i \in 1 .. n : /\ halves[i] \in [1 .. Width -> Nat]
                          /\ sum[i].sum = Sums(halves[i])[Depth][1]
                          /\ p2[i] = shell_encoder(Sums(halves[i]))
    BY <1>4, <1>22
  <2>2. HasData(s)
    BY <1>17, <1>19, EntriesAreData
  <2>3. Holds(s, at3, all2[n]) /\ at3 = sum[n].at
    BY <1>19, <1>22
  <2>4. (\A i \in 1 .. n : shell[i].q = halves[i]) /\ shell[n].at = at3 + Len(all2[n])
    BY ONLY <1>10, <2>1, <2>2, <2>3, n \in Nat, ShellsReturn
  <2> HIDE DEF shell
  <2> QED BY <1>19, <2>4
<1> HIDE DEF shell
<1>24. /\ \A i \in 1 .. n : lsb[i].q = [k \in 1 .. Width |-> Size(blocks[i][k])]
       /\ lsb[n].at = at5
  <2>1. \A i \in 1 .. n : /\ blocks[i] \in [1 .. Width -> Int] /\ shifts[i] \in Nat
                          /\ sum[i].shifts = shifts[i]
                          /\ shell[i].q = Halved(blocks[i], shifts[i])
                          /\ p3[i] = LsbSymbols(blocks[i], shifts[i])
    BY <1>4, <1>22, <1>23
  <2>2. Holds(s, at4, all3[n]) /\ at4 = shell[n].at
    BY <1>19, <1>23
  <2>3. LsbsHeld(n, blocks, shifts, s, sum, shell, at4, all3, p3)
    BY <1>11, <2>1, <2>2 DEF LsbsHeld
  <2>4. LsbsGiven(n, blocks, lsb, at4 + Len(all3[n]))
    BY ONLY <2>3, LsbsReturn
  <2> HIDE DEF lsb
  <2> QED BY <1>19, <2>4 DEF LsbsGiven
<1> HIDE DEF lsb
<1>25. Flat(sizes) = Sizes(q, n * Width)
  <2>1. Len(sizes) = n
    BY FunctionIsSequence
  <2>2. \A i \in 1 .. n : sizes[i] = [k \in 1 .. Width |-> Size(Block(q, i)[k])]
    BY <1>4, <1>24
  <2> DEFINE m == n * Width
  <2>3. m = n * Width /\ q \in [1 .. m -> Int]
    OBVIOUS
  <2> HIDE DEF sizes, m
  <2>4. Flat(sizes) = Sizes(q, m)
    BY ONLY <2>1, <2>2, <2>3, n \in Nat, SizesReturn
  <2> QED BY <2>4 DEF m
<1>26. decode_pulses(s, 1, n, sigtype, offset) = [q |-> q, at |-> Len(s) + 1]
  <2> DEFINE m == n * Width
  <2>1. m \in Nat /\ q \in [1 .. m -> Int]
    BY <1>1
  <2>2. decode_pulses(s, 1, n, sigtype, offset)
        = decode_signs(s, at5, Sizes(q, m), sigtype, offset, level)
    BY <1>21, <1>24, <1>25
  <2> HIDE DEF m
  <2>3. Holds(s, at5, encode_signs(q, sigtype, offset, level))
    BY <1>19 DEF signs
  <2>4. decode_signs(s, at5, Sizes(q, m), sigtype, offset, level)
        = [q |-> q, at |-> at5 + Len(encode_signs(q, sigtype, offset, level))]
    BY ONLY <2>1, <2>3, SignsReturn
  <2> QED BY <1>19, <2>2, <2>4 DEF signs
<1>27. \A i \in DOMAIN s : s[i].data \in 0 .. PulseAlphabet(s[i].table) - 1
  BY <1>17, <1>19 DEF Sequence, HaveEntries, HasEntry
<1> QED BY <1>2, <1>3, <1>26, <1>27 DEF PulsesSurvive

\* So it is for the frames of one block and of two whose pulses are small, at every rate
\* level, whatever the number of pulses in a block: what was encoded is decoded.
THEOREM PulsesReturnAlways == Spec => []PulsesReturn
<1> DEFINE Inv == subject = "pulses" /\ case # <<>> => case \in Excitations
<1>1. Init => Inv
  BY DEF Init
<1>2. Inv /\ [Next]_allVars => Inv'
  <2> SUFFICES ASSUME Inv, [Next]_allVars, subject' = "pulses", case' # <<>>
               PROVE  case' \in Excitations
    OBVIOUS
  <2>1. CASE UNCHANGED <<subject, case>>
    BY <2>1
  <2>2. CASE Pick("pulses", Excitations)
    BY <2>2 DEF Pick
  <2>3. CASE Pick("operators", Operands)
    BY <2>3 DEF Pick
  <2> QED BY <2>1, <2>2, <2>3 DEF Next, allVars
<1>3. Inv => PulsesReturn
  <2> SUFFICES ASSUME case \in Excitations, NEW level \in 0 .. N_RATE_LEVELS - 2
               PROVE  PulsesSurvive(case, 1, 0, level)
    BY DEF PulsesReturn
  <2>1. CASE case \in [1 .. Width -> -4 .. 5]
    <3>1. 1 * Width = Width
      BY HalfAsMany
    <3>2. case \in [1 .. 1 * Width -> Int]
      BY <2>1, <3>1
    <3> QED BY <3>2, PulsesAreDecoded
  <2>2. CASE case \in [1 .. 2 * Width -> {-5, 0, 1}]
    <3>1. case \in [1 .. 2 * Width -> Int]
      BY <2>2
    <3> QED BY <3>1, PulsesAreDecoded
  <2> QED BY <2>1, <2>2 DEF Excitations
<1>4. QED BY <1>1, <1>2, <1>3, PTL DEF Spec
=============================================================================
