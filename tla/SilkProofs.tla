------------------------------ MODULE SilkProofs ------------------------------
(***************************************************************************)
(* The SILK codec, in two parts.                                           *)
(*                                                                         *)
(* The range coder, for any width of a byte, any tables and any number of  *)
(* symbols: the decoder returns what was encoded.  The code works on       *)
(* truncated bases and widths; beside it stands the exact interval that    *)
(* the symbols lead to.  What the encoder has written and its base are the *)
(* low end of it; the wrap-up writes bits that settle it; what settles the *)
(* last interval lies in all those before it, in the part of the symbol    *)
(* that came next, and this is the one the decoder's search ends at.       *)
(*                                                                         *)
(* The stream, for any rates, frames and packet sizes, and whatever the    *)
(* bytes of the packets are: a call decodes nothing older than four calls, *)
(* and a packet that arrives as it was sent is decoded to the frames that  *)
(* were sent.  The second theorem rests on what a packet of given frames   *)
(* looks like: at each place of each frame one table, chosen from the      *)
(* frame and the one before it, and one index.  The encoder writes that    *)
(* (gains by induction over the subframes), and the decoder, in the state  *)
(* it has after reading some of it, asks for the table of the next place.  *)
(***************************************************************************)
EXTENDS CodecsProofs

-----------------------------------------------------------------------------
(* Bytes and their powers.                                                 *)

\* What an iteration gives.
Iteration(D, first, step) ==
  \E f \in [Nat -> D] : f[0] = first /\ \A n \in Nat : f[n + 1] = step[f[n]]

\* A function can be iterated.
LEMMA IterationIs ==
  ASSUME NEW D, NEW first \in D, NEW step \in [D -> D]
  PROVE  Iteration(D, first, step)
BY Iterates DEF Iteration

\* A value for every number, each from the one before and its place.
IterationAlong(C, start, along) ==
  \E f \in [Nat -> C] : f[0] = start /\ \A n \in Nat : f[n + 1] = along[<<n, f[n]>>]

\* There is such a function too.
LEMMA IterationAlongIs ==
  ASSUME NEW C, NEW start \in C, NEW along \in [Nat \X C -> C]
  PROVE  IterationAlong(C, start, along)
<1> DEFINE E == Nat \X C
           begin == <<0, start>>
           next == [p \in E |-> <<p[1] + 1, along[p]>>]
<1>1. begin \in E /\ next \in [E -> E]
  <2>1. ASSUME NEW p \in E PROVE <<p[1] + 1, along[p]>> \in E
    <3>1. p[1] \in Nat /\ along[p] \in C
      OBVIOUS
    <3> QED BY <3>1
  <2> QED BY <2>1
<1>2. PICK g \in [Nat -> E] : g[0] = begin /\ \A n \in Nat : g[n + 1] = next[g[n]]
  <2> HIDE DEF E, begin, next
  <2>1. Iteration(E, begin, next)
    BY <1>1, IterationIs
  <2> QED BY <2>1 DEF Iteration
<1>3. \A n \in Nat : g[n] \in E /\ g[n + 1] = <<g[n][1] + 1, along[g[n]]>>
  BY <1>2
<1> DEFINE S == {n \in Nat : g[n][1] = n}
<1>4. 0 \in S /\ \A n \in Nat : n \in S => n + 1 \in S
  BY <1>2, <1>3
<1>5. \A n \in Nat : n \in S
  <2> HIDE DEF S
  <2> QED BY <1>4, Induction
<1> DEFINE f == [n \in Nat |-> g[n][2]]
<1>6. f \in [Nat -> C] /\ f[0] = start
  BY <1>2, <1>3
<1>7. ASSUME NEW n \in Nat PROVE f[n + 1] = along[<<n, f[n]>>]
  <2>1. g[n] \in E /\ g[n][1] = n
    BY <1>3, <1>5
  <2>2. g[n] = <<n, g[n][2]>>
    BY <2>1
  <2>3. g[n + 1][2] = along[g[n]]
    BY <1>3
  <2>4. f[n + 1] = g[n + 1][2] /\ f[n] = g[n][2]
    OBVIOUS
  <2> QED BY <2>2, <2>3, <2>4
<1> HIDE DEF f
<1> QED BY <1>6, <1>7 DEF IterationAlong

\* Powers of a byte.
LEMMA BytePowers ==
  /\ Byte \in Nat /\ Byte >= 4
  /\ Pow \in [Nat -> Nat \ {0}] /\ Pow[0] = 1
  /\ \A n \in Nat : Pow[n + 1] = Byte * Pow[n]
<1>1. Byte \in Nat /\ Byte >= 4
  <2>1. B \in Nat /\ 2 \in Nat /\ 2 <= B
    BY CoderAssumption
  <2>2. Pow2[2] = 4
    <3>1. Pow2[0] = 1 /\ Pow2[0 + 1] = 2 * Pow2[0] /\ Pow2[1 + 1] = 2 * Pow2[1]
      BY PowersDouble
    <3> QED BY <3>1
  <2> QED BY <2>1, <2>2, PowersGrow DEF Byte
<1> DEFINE D == Nat \ {0}
           step == [x \in D |-> Byte * x]
           Solves(f) == f = [n \in Nat |-> IF n = 0 THEN 1 ELSE Byte * f[n - 1]]
<1>2. step \in [D -> D]
  <2>1. \A x, y \in Nat : x >= 1 /\ y >= 1 => x * y \in Nat /\ x * y >= 1
    OBVIOUS
  <2> HIDE DEF D
  <2>2. ASSUME NEW x \in D PROVE Byte * x \in D
    BY <1>1, <2>1 DEF D
  <2> QED BY <2>2
<1>3. PICK f \in [Nat -> D] : f[0] = 1 /\ \A n \in Nat : f[n + 1] = step[f[n]]
  <2> DEFINE first == 1
  <2>1. first \in D /\ step \in [D -> D]
    BY <1>2
  <2> HIDE DEF D, step, first
  <2>2. \E f \in [Nat -> D] : f[0] = first /\ \A n \in Nat : f[n + 1] = step[f[n]]
    BY <2>1, Iterates
  <2> QED BY <2>2 DEF first
<1>4. ASSUME NEW n \in Nat PROVE f[n] = IF n = 0 THEN 1 ELSE Byte * f[n - 1]
  <2>1. CASE n = 0
    BY <1>3, <2>1
  <2>2. CASE n # 0
    <3>1. n - 1 \in Nat /\ (n - 1) + 1 = n
      BY <2>2
    <3>2. f[n] = step[f[n - 1]] /\ f[n - 1] \in D
      BY <1>3, <3>1
    <3>3. step[f[n - 1]] = Byte * f[n - 1]
      BY <3>2
    <3> QED BY <2>2, <3>2, <3>3
  <2> QED BY <2>1, <2>2
<1>5. Solves(f)
  BY <1>3, <1>4
<1>6. Pow = CHOOSE g : Solves(g)
  BY DEF Pow
<1>7. Solves(Pow)
  <2> HIDE DEF Solves
  <2> QED BY <1>5, <1>6
<1>8. Pow[0] = 1 /\ \A n \in Nat : Pow[n + 1] = Byte * Pow[n]
  <2>1. Pow[0] = 1
    BY <1>7
  <2>2. ASSUME NEW n \in Nat PROVE Pow[n + 1] = Byte * Pow[n]
    <3>1. n + 1 \in Nat /\ n + 1 # 0 /\ (n + 1) - 1 = n
      OBVIOUS
    <3> QED BY <1>7, <3>1
  <2> QED BY <2>1, <2>2
<1>9. \A n \in Nat : Pow[n] \in D
  <2> DEFINE S == {n \in Nat : Pow[n] \in D}
  <2>1. 0 \in S
    BY <1>8
  <2>2. ASSUME NEW n \in Nat, n \in S PROVE n + 1 \in S
    <3>1. Pow[n] \in D /\ Pow[n + 1] = Byte * Pow[n]
      BY <1>8, <2>2
    <3>2. \A x, y \in Nat : x >= 1 /\ y >= 1 => x * y \in Nat /\ x * y >= 1
      OBVIOUS
    <3> QED BY <1>1, <3>1, <3>2
  <2> HIDE DEF S
  <2>3. \A n \in Nat : n \in S
    BY <2>1, <2>2, Induction
  <2> QED BY <2>3 DEF S
<1>10. Pow = [n \in Nat |-> Pow[n]]
  BY <1>7
<1> QED BY <1>1, <1>8, <1>9, <1>10

\* The powers the code has: a byte, two, three and four.
LEMMA FourBytes ==
  /\ Byte \in Int /\ Byte >= 4 /\ Pow[0] = 1 /\ Pow[1] = Byte
  /\ Pow[2] = Byte * Byte /\ Pow[3] = Byte * Pow[2] /\ Pow[4] = Byte * Pow[3]
  /\ Pow[3] = Pow[2] * Byte /\ Pow[4] = Pow[3] * Byte /\ Pow[4] = Pow[2] * Pow[2]
  /\ Pow[2] \in Int /\ Pow[3] \in Int /\ Pow[4] \in Int
  /\ Pow[2] >= 4 * Byte /\ Pow[3] >= 4 * Pow[2] /\ Pow[4] >= 4 * Pow[3]
<1>1. Byte \in Int /\ Byte >= 4
  BY BytePowers
<1>2. /\ Pow[0] = 1 /\ Pow[0 + 1] = Byte * Pow[0] /\ Pow[1 + 1] = Byte * Pow[1]
      /\ Pow[2 + 1] = Byte * Pow[2] /\ Pow[3 + 1] = Byte * Pow[3]
  BY BytePowers
<1>3. Pow[1] = Byte /\ Pow[2] = Byte * Byte /\ Pow[3] = Byte * Pow[2] /\ Pow[4] = Byte * Pow[3]
  BY <1>1, <1>2
<1>4. Pow[2] \in Int /\ Pow[3] \in Int /\ Pow[4] \in Int /\ Pow[2] >= 1 /\ Pow[3] >= 1
  BY BytePowers
<1>5. \A x, y \in Int : x >= 4 /\ y >= 1 => x * y >= 4 * y
  OBVIOUS
<1>6. Pow[2] >= 4 * Byte /\ Pow[3] >= 4 * Pow[2] /\ Pow[4] >= 4 * Pow[3]
  BY <1>1, <1>3, <1>4, <1>5
<1>7. \A x \in Int : x * (x * x) = (x * x) * x /\ x * (x * (x * x)) = (x * x) * (x * x)
  OBVIOUS
<1>8. \A x, y \in Int : x * y = y * x
  OBVIOUS
<1>9. Pow[4] = Pow[2] * Pow[2]
  <2>1. Pow[4] = Byte * (Byte * (Byte * Byte))
    BY <1>3
  <2> QED BY <1>1, <1>3, <1>7, <2>1
<1> QED BY <1>1, <1>2, <1>3, <1>4, <1>6, <1>8, <1>9

-----------------------------------------------------------------------------
(* The smaller and the larger of two numbers.                              *)

\* Min() and Max() of a pair.
LEMMA OfTwo ==
  ASSUME NEW x \in Int, NEW y \in Int
  PROVE  /\ Min({x, y}) = IF x <= y THEN x ELSE y
         /\ Max({x, y}) = IF x <= y THEN y ELSE x
<1>1. \E z \in {x, y} : \A m \in {x, y} : z <= m
  OBVIOUS
<1>2. \E z \in {x, y} : \A m \in {x, y} : z >= m
  OBVIOUS
<1>3. Min({x, y}) \in {x, y} /\ \A m \in {x, y} : Min({x, y}) <= m
  BY <1>1 DEF Min
<1>4. Max({x, y}) \in {x, y} /\ \A m \in {x, y} : Max({x, y}) >= m
  BY <1>2 DEF Max
<1> QED BY <1>3, <1>4

-----------------------------------------------------------------------------
(* What bytes in a row are worth.                                          *)

\* The number that the first bytes of a memory make, for each count of them.
Number(m) ==
  LET number[i \in Nat] ==
        IF i = 0 THEN 0
        ELSE number[i - 1] * Byte + (IF i - 1 \in Memory THEN m[i - 1] ELSE 0)
  IN number

\* A further byte multiplies by its range.
LEMMA NumberIs ==
  ASSUME NEW m \in [Memory -> Digits]
  PROVE  /\ Number(m) \in [Nat -> Nat] /\ Number(m)[0] = 0
         /\ \A i \in Memory : /\ i \in Nat /\ m[i] \in Int /\ 0 <= m[i] /\ m[i] <= Byte - 1
                              /\ Number(m)[i + 1] = Number(m)[i] * Byte + m[i]
<1>1. Byte \in Nat /\ Byte >= 4 /\ MaxBytes \in Nat
  BY BytePowers, CoderAssumption
<1>2. \A i \in Memory : i \in Nat /\ m[i] \in Nat /\ m[i] <= Byte - 1
  BY <1>1 DEF Memory, Digits
<1> DEFINE digit(i) == IF i \in Memory THEN m[i] ELSE 0
           along == [p \in Nat \X Nat |-> p[2] * Byte + digit(p[1])]
           Solves(f) == f = [i \in Nat |-> IF i = 0 THEN 0 ELSE f[i - 1] * Byte + digit(i - 1)]
<1>3. along \in [Nat \X Nat -> Nat]
  <2>1. ASSUME NEW p \in Nat \X Nat PROVE p[2] * Byte + digit(p[1]) \in Nat
    <3>1. p[2] \in Nat /\ digit(p[1]) \in Nat
      BY <1>2
    <3> HIDE DEF digit
    <3>2. \A x, y, z \in Nat : x * y + z \in Nat
      OBVIOUS
    <3> QED BY <1>1, <3>1, <3>2
  <2> HIDE DEF digit
  <2> QED BY <2>1
<1>4. PICK f \in [Nat -> Nat] : f[0] = 0 /\ \A n \in Nat : f[n + 1] = along[<<n, f[n]>>]
  <2> DEFINE start == 0
             C == Nat
  <2>1. start \in C /\ along \in [Nat \X C -> C]
    BY <1>3
  <2> HIDE DEF along, start, C
  <2>2. IterationAlong(C, start, along)
    BY <2>1, IterationAlongIs
  <2> QED BY <2>2 DEF IterationAlong, start, C
<1>5. ASSUME NEW n \in Nat PROVE f[n] = IF n = 0 THEN 0 ELSE f[n - 1] * Byte + digit(n - 1)
  <2> HIDE DEF digit
  <2>1. CASE n = 0
    BY <1>4, <2>1
  <2>2. CASE n # 0
    <3>1. n - 1 \in Nat /\ (n - 1) + 1 = n
      BY <2>2
    <3>2. f[n] = along[<<n - 1, f[n - 1]>>] /\ <<n - 1, f[n - 1]>> \in Nat \X Nat
      BY <1>4, <3>1
    <3>3. along[<<n - 1, f[n - 1]>>] = f[n - 1] * Byte + digit(n - 1)
      BY <3>2
    <3> QED BY <2>2, <3>2, <3>3
  <2> QED BY <2>1, <2>2
<1>6. Solves(f)
  <2> HIDE DEF digit
  <2> QED BY <1>4, <1>5
<1>7. Number(m) = CHOOSE g : Solves(g)
  BY DEF Number
<1>8. Solves(Number(m))
  <2> HIDE DEF Solves
  <2> QED BY <1>6, <1>7
<1> DEFINE N == Number(m)
<1>9. N = [i \in Nat |-> N[i]]
  <2> HIDE DEF digit
  <2> QED BY <1>8
<1>10. N[0] = 0
  <2> HIDE DEF digit
  <2> QED BY <1>8
<1>11. ASSUME NEW i \in Nat PROVE N[i + 1] = N[i] * Byte + digit(i)
  <2>1. i + 1 \in Nat /\ i + 1 # 0 /\ (i + 1) - 1 = i
    OBVIOUS
  <2> HIDE DEF digit
  <2> QED BY <1>8, <2>1
<1> HIDE DEF N
<1>12. \A i \in Nat : N[i] \in Nat
  <2> DEFINE S == {i \in Nat : N[i] \in Nat}
  <2>1. 0 \in S
    BY <1>10
  <2>2. ASSUME NEW i \in Nat, i \in S PROVE i + 1 \in S
    <3>1. digit(i) \in Nat /\ N[i] \in Nat
      BY <1>2, <2>2
    <3> HIDE DEF digit
    <3>2. \A x, y, z \in Nat : x * y + z \in Nat
      OBVIOUS
    <3>3. N[i] * Byte + digit(i) \in Nat
      BY <1>1, <3>1, <3>2
    <3>4. N[i + 1] \in Nat
      BY <1>11, <3>3
    <3> QED BY <3>4
  <2> HIDE DEF S
  <2>3. \A i \in Nat : i \in S
    BY <2>1, <2>2, Induction
  <2> QED BY <2>3 DEF S
<1>13. N \in [Nat -> Nat]
  BY <1>9, <1>12
<1>14. \A i \in Memory : N[i + 1] = N[i] * Byte + m[i]
  BY <1>2, <1>11
<1> QED BY <1>2, <1>10, <1>13, <1>14 DEF N

\* The first bytes do not depend on those after them.
LEMMA SameNumbers ==
  ASSUME NEW m \in [Memory -> Digits], NEW n \in [Memory -> Digits],
         NEW k \in 0 .. MaxBytes + 4, \A i \in 0 .. k - 1 : m[i] = n[i]
  PROVE  \A i \in 0 .. k : Number(m)[i] = Number(n)[i]
<1>1. MaxBytes \in Nat /\ Memory = 0 .. MaxBytes + 3
  BY CoderAssumption DEF Memory
<1> DEFINE M == Number(m)
           N == Number(n)
           S == {i \in Nat : i <= k => M[i] = N[i]}
<1>2. M[0] = 0 /\ \A i \in Memory : M[i + 1] = M[i] * Byte + m[i]
  BY NumberIs
<1>3. N[0] = 0 /\ \A i \in Memory : N[i + 1] = N[i] * Byte + n[i]
  BY NumberIs
<1> HIDE DEF M, N
<1>4. 0 \in S
  BY <1>2, <1>3
<1>5. ASSUME NEW i \in Nat, i \in S PROVE i + 1 \in S
  <2> SUFFICES ASSUME i + 1 <= k PROVE M[i + 1] = N[i + 1]
    OBVIOUS
  <2>1. i \in Memory /\ i \in 0 .. k - 1 /\ M[i] = N[i]
    BY <1>1, <1>5
  <2> QED BY <1>2, <1>3, <2>1
<1> HIDE DEF S
<1>6. \A i \in Nat : i \in S
  BY <1>4, <1>5, Induction
<1> QED BY <1>1, <1>6 DEF S, M, N

\* A number with its last k bytes full, one byte less than that, and the place of the carry.
LEMMA CarryAdds ==
  ASSUME NEW m \in [Memory -> Digits], NEW k \in 0 .. MaxBytes, NEW s \in 0 .. k - 1,
         m[s] # Byte - 1, \A i \in s + 1 .. k - 1 : m[i] = Byte - 1,
         NEW n, n = [i \in Memory |-> IF i = s THEN m[i] + 1
                                      ELSE IF i \in s + 1 .. k - 1 THEN 0 ELSE m[i]]
  PROVE  n \in [Memory -> Digits] /\ Number(n)[k] = Number(m)[k] + 1
<1>1. MaxBytes \in Nat /\ Memory = 0 .. MaxBytes + 3 /\ Byte \in Int /\ Byte >= 4
  BY CoderAssumption, BytePowers DEF Memory
<1>2. s \in Memory /\ s \in Nat /\ k \in Nat /\ s < k /\ s + 1 <= k
  BY <1>1
<1>3. \A i \in Memory : i \in Nat /\ m[i] \in Int /\ 0 <= m[i] /\ m[i] <= Byte - 1
  BY NumberIs
<1>4. n \in [Memory -> Digits]
  <2>1. ASSUME NEW i \in Memory
        PROVE  (IF i = s THEN m[i] + 1 ELSE IF i \in s + 1 .. k - 1 THEN 0 ELSE m[i]) \in Digits
    <3>1. i = s => m[i] <= Byte - 2
      BY <1>1, <1>3
    <3> QED BY <1>1, <1>3, <3>1 DEF Digits
  <2> QED BY <2>1
<1> DEFINE M == Number(m)
           N == Number(n)
<1>5. /\ M[0] = 0 /\ \A i \in Memory : M[i + 1] = M[i] * Byte + m[i]
      /\ \A i \in Nat : M[i] \in Nat
  BY NumberIs
<1>6. /\ N[0] = 0 /\ \A i \in Memory : N[i + 1] = N[i] * Byte + n[i]
      /\ \A i \in Nat : N[i] \in Nat
  BY <1>4, NumberIs
<1>7. N[s] = M[s]
  <2>1. \A i \in 0 .. s - 1 : n[i] = m[i]
    BY <1>1, <1>2
  <2>2. s \in 0 .. MaxBytes + 4 /\ s \in 0 .. s
    BY <1>1, <1>2
  <2> QED BY <1>4, <2>1, <2>2, SameNumbers
<1> HIDE DEF M, N
<1>8. N[s + 1] = M[s + 1] + 1
  <2>1. n[s] = m[s] + 1
    BY <1>2
  <2> DEFINE x == M[s] * Byte
  <2>2. x \in Int
    <3>1. s \in Nat /\ Byte \in Int
      BY <1>1, <1>2
    <3>2. M[s] \in Nat
      BY <1>5, <3>1
    <3> QED BY <3>1, <3>2
  <2>3. M[s + 1] = x + m[s] /\ N[s + 1] = x + n[s]
    BY <1>2, <1>5, <1>6, <1>7
  <2> HIDE DEF x
  <2> QED BY <1>2, <1>3, <2>1, <2>2, <2>3
<1> DEFINE S == {j \in Nat : s + 1 + j <= k => N[s + 1 + j] = M[s + 1 + j] + 1}
<1>9. 0 \in S
  BY <1>2, <1>8
<1>10. ASSUME NEW j \in Nat, j \in S PROVE j + 1 \in S
  <2> DEFINE i == s + 1 + j
  <2> SUFFICES ASSUME i + 1 <= k PROVE N[i + 1] = M[i + 1] + 1
    BY <1>2
  <2>1. i \in Memory /\ i \in s + 1 .. k - 1 /\ i # s /\ N[i] = M[i] + 1 /\ i \in Nat
    BY <1>1, <1>2, <1>10
  <2> HIDE DEF i
  <2>2. m[i] = Byte - 1 /\ n[i] = 0
    BY <2>1
  <2>3. N[i + 1] = (M[i] + 1) * Byte /\ M[i + 1] = M[i] * Byte + (Byte - 1) /\ M[i] \in Int
    <3>1. N[i + 1] = N[i] * Byte + n[i] /\ M[i + 1] = M[i] * Byte + m[i] /\ M[i] \in Int
      BY <1>5, <1>6, <2>1
    <3>2. N[i + 1] = (M[i] + 1) * Byte + 0
      BY <2>1, <2>2, <3>1
    <3>3. (M[i] + 1) * Byte \in Int
      BY <1>1, <3>1
    <3> QED BY <2>2, <3>1, <3>2, <3>3
  <2>4. \A x, y \in Int : (x + 1) * y = (x * y + (y - 1)) + 1
    OBVIOUS
  <2> QED BY <1>1, <2>3, <2>4
<1> HIDE DEF S
<1>11. \A j \in Nat : j \in S
  BY <1>9, <1>10, Induction
<1>12. N[k] = M[k] + 1
  <2>1. k - (s + 1) \in Nat /\ s + 1 + (k - (s + 1)) = k
    BY <1>2
  <2>2. k - (s + 1) \in S
    BY <1>11, <2>1
  <2> QED BY <1>2, <2>1, <2>2 DEF S
<1> QED BY <1>4, <1>12 DEF M, N

\* All bytes are full: the largest number there is.
LEMMA AllFull ==
  ASSUME NEW m \in [Memory -> Digits], NEW k \in 0 .. MaxBytes, \A i \in 0 .. k - 1 : m[i] = Byte - 1
  PROVE  Number(m)[k] = Pow[k] - 1
<1>1. MaxBytes \in Nat /\ Memory = 0 .. MaxBytes + 3 /\ Byte \in Int
  BY CoderAssumption, BytePowers DEF Memory
<1> DEFINE M == Number(m)
           S == {i \in Nat : i <= k => M[i] = Pow[i] - 1}
<1>2. M[0] = 0 /\ \A i \in Memory : M[i + 1] = M[i] * Byte + m[i]
  BY NumberIs
<1>3. Pow[0] = 1 /\ \A i \in Nat : Pow[i + 1] = Byte * Pow[i] /\ Pow[i] \in Int
  BY BytePowers
<1> HIDE DEF M
<1>4. 0 \in S
  BY <1>2, <1>3
<1>5. ASSUME NEW i \in Nat, i \in S PROVE i + 1 \in S
  <2> SUFFICES ASSUME i + 1 <= k PROVE M[i + 1] = Pow[i + 1] - 1
    OBVIOUS
  <2>1. i \in Memory /\ i \in 0 .. k - 1 /\ M[i] = Pow[i] - 1
    BY <1>1, <1>5
  <2>2. M[i + 1] = (Pow[i] - 1) * Byte + (Byte - 1) /\ Pow[i + 1] = Byte * Pow[i]
    BY <1>2, <1>3, <2>1
  <2>3. \A x, y \in Int : (x - 1) * y + (y - 1) = y * x - 1
    OBVIOUS
  <2> QED BY <1>1, <1>3, <2>2, <2>3
<1> HIDE DEF S
<1>6. \A i \in Nat : i \in S
  BY <1>4, <1>5, Induction
<1>7. k \in Nat /\ k \in S
  BY <1>1, <1>6
<1> QED BY <1>7 DEF S, M

-----------------------------------------------------------------------------
(* The encoder's and the decoder's state.                                  *)

Coder ==
  [base : Int, range : Int, ix : Int, length : Int, buffer : [Memory -> Digits],
   error : BOOLEAN, wild : BOOLEAN]

\* A carry adds 1 to what is written, if there is a byte that takes it.
LEMMA CarriedIs ==
  ASSUME NEW rc \in Coder, rc.ix \in 0 .. MaxBytes
  PROVE  /\ Number(rc.buffer)[rc.ix] \in Nat
         /\ \/ Number(rc.buffer)[rc.ix] = Pow[rc.ix] - 1
            \/ /\ Carried(rc) \in Coder
               /\ \E n \in [Memory -> Digits] :
                    /\ Carried(rc) = [rc EXCEPT !.buffer = n]
                    /\ Number(n)[rc.ix] = Number(rc.buffer)[rc.ix] + 1
<1> DEFINE m == rc.buffer
           k == rc.ix
           stops == {i \in 0 .. k - 1 : m[i] # Byte - 1}
           s == Max(stops)
           n == [i \in Memory |-> IF i = s THEN m[i] + 1
                                  ELSE IF i \in s + 1 .. k - 1 THEN 0 ELSE m[i]]
<1>1. m \in [Memory -> Digits] /\ k \in 0 .. MaxBytes /\ k \in Nat
  BY CoderAssumption DEF Coder
<1>2. Number(m)[k] \in Nat
  BY <1>1, NumberIs
<1>3. CASE stops = {}
  <2>1. \A i \in 0 .. k - 1 : m[i] = Byte - 1
    BY <1>3
  <2> HIDE DEF m, k
  <2> QED BY <1>1, <1>2, <2>1, AllFull DEF m, k
<1>4. CASE stops # {}
  <2>1. stops \subseteq Nat /\ \A i \in stops : i <= k
    BY <1>1
  <2>2. s \in stops /\ \A i \in stops : i <= s
    <3>1. stops \subseteq Nat /\ stops # {} /\ k \in Int /\ \A i \in stops : i <= k
      BY <1>1, <1>4, <2>1
    <3> HIDE DEF stops, k
    <3> QED BY <3>1, MaxIs
  <2>3. /\ s \in 0 .. k - 1 /\ m[s] # Byte - 1
        /\ \A i \in s + 1 .. k - 1 : m[i] = Byte - 1
    <3> HIDE DEF s
    <3>1. s \in 0 .. k - 1 /\ m[s] # Byte - 1
      BY <2>2
    <3>2. ASSUME NEW i \in s + 1 .. k - 1 PROVE m[i] = Byte - 1
      <4>1. i \in 0 .. k - 1 /\ ~(i <= s)
        BY <1>1, <3>1
      <4> QED BY <2>2, <4>1
    <3> QED BY <3>1, <3>2
  <2>4. Carried(rc) = [rc EXCEPT !.buffer = n]
    <3>1. Carried(rc) = [rc EXCEPT !.buffer = [i \in Memory |->
            IF i = s THEN @[i] + 1 ELSE IF i \in s + 1 .. k - 1 THEN 0 ELSE @[i]]]
      BY <1>4 DEF Carried
    <3> QED BY <3>1
  <2> DEFINE nn == n
  <2>5. nn \in [Memory -> Digits] /\ Number(nn)[k] = Number(m)[k] + 1
    <3>1. nn = [i \in Memory |-> IF i = s THEN m[i] + 1
                                 ELSE IF i \in s + 1 .. k - 1 THEN 0 ELSE m[i]]
      OBVIOUS
    <3> HIDE DEF nn, n, s, m, k
    <3> QED BY <1>1, <2>3, <3>1, CarryAdds
  <2> HIDE DEF nn
  <2>6. Carried(rc) = [rc EXCEPT !.buffer = nn]
    BY <2>4 DEF nn
  <2>7. Carried(rc) \in Coder
    BY <2>5, <2>6 DEF Coder
  <2> HIDE DEF n, s, stops
  <2> QED BY <1>2, <2>5, <2>6, <2>7
<1> QED BY <1>3, <1>4

-----------------------------------------------------------------------------
(* The interval that symbols leave, as exact numbers: its low end and its  *)
(* width, as far as the code keeps it.                                     *)

Start == [low |-> 0, range |-> Pow[2] - 1, ix |-> 0]

Wide(t, symbol) ==
  t.range * (symbol.table.prob[symbol.data + 1] - symbol.table.prob[symbol.data])

Offset(t, symbol) == t.range * symbol.table.prob[symbol.data]

Widening(t, symbol) == Normalization(Wide(t, symbol))

Narrowed(t, symbol) ==
  [low |-> (t.low + Offset(t, symbol)) * Pow[Widening(t, symbol)],
   range |-> Normalized(Wide(t, symbol)),
   ix |-> t.ix + Widening(t, symbol)]

\* The width never falls below a byte, and the interval is one of the numbers of its length.
IsInterval(t) ==
  /\ t.low \in Nat /\ t.range \in Int /\ Byte <= t.range /\ t.range <= Pow[2] - 1 /\ t.ix \in Nat
  /\ t.low + t.range * Pow[2] <= Pow[t.ix] * Pow[4]

Symbols == {s \in [table : Tables, data : Nat] : s.data < Last(s.table)}

\* Normalization leaves a width of two bytes, and never widens.
LEMMA NormalizedIs ==
  ASSUME NEW wide \in Int, Byte <= wide, wide < Pow[4]
  PROVE  LET b == Normalization(wide)
             n == Normalized(wide) IN
         /\ b \in {0, 1, 2} /\ n \in Int /\ Byte <= n /\ n <= Pow[2] - 1
         /\ n * Pow[2] <= wide * Pow[b]
         /\ (b = 1 => wide < Pow[3]) /\ (b = 2 => wide < Pow[2])
<1> DEFINE F == Pow[2]
           G == Pow[3]
           H == Pow[4]
           y == Byte
<1>1. /\ y \in Int /\ y >= 4 /\ F = y * y /\ G = F * y /\ G = y * F /\ H = F * F
      /\ F \in Int /\ G \in Int /\ H \in Int /\ F >= 4 * y /\ G >= 4 * F /\ H >= 4 * G
      /\ Pow[0] = 1 /\ Pow[1] = y
  BY FourBytes
<1> DEFINE n0 == wide \div F
           n1 == wide \div y
           b == Normalization(wide)
           n == Normalized(wide)
<1>2. b = IF wide >= G THEN 0 ELSE IF wide >= F THEN 1 ELSE 2
  BY DEF Normalization
<1>3. n = wide \div Pow[2 - b]
  BY DEF Normalized
<1> HIDE DEF F, G, H, y, b, n
<1>4. CASE wide >= G
  <2>1. b = 0 /\ n = n0
    BY <1>2, <1>3, <1>4 DEF F
  <2>2. n0 \in Int /\ n0 * F <= wide
    BY <1>1, Division
  <2>3. y <= n0 <=> y * F <= wide
    BY <1>1, QuotientBound
  <2>4. F <= n0 <=> F * F <= wide
    BY <1>1, QuotientBound
  <2>5. y <= n0 /\ ~(F <= n0) /\ wide * 1 = wide
    BY <1>1, <1>4, <2>3, <2>4 DEF H
  <2> HIDE DEF n0
  <2>6. n * F <= wide * Pow[b]
    BY <1>1, <2>1, <2>2, <2>5
  <2>7. n \in Int /\ y <= n /\ n <= F - 1
    BY <1>1, <2>1, <2>2, <2>5
  <2> QED BY <2>1, <2>6, <2>7 DEF F, y, b, n
<1>5. CASE ~(wide >= G) /\ wide >= F
  <2>1. b = 1 /\ n = n1
    BY <1>1, <1>2, <1>3, <1>5
  <2>2. n1 \in Int /\ n1 * y <= wide
    BY <1>1, Division
  <2>3. y <= n1 <=> y * y <= wide
    BY <1>1, QuotientBound
  <2>4. F <= n1 <=> F * y <= wide
    BY <1>1, QuotientBound
  <2>5. y <= n1 /\ ~(F <= n1)
    BY <1>1, <1>5, <2>3, <2>4
  <2> HIDE DEF n1
  <2>6. n * F <= wide * Pow[b]
    <3>1. (n1 * y) * y <= wide * y
      <4>1. n1 * y \in Int
        BY <1>1, <2>2
      <4> DEFINE ny == n1 * y
      <4> HIDE DEF ny
      <4>2. ny \in Int /\ ny <= wide
        BY <2>2, <4>1 DEF ny
      <4> QED BY <1>1, <4>2, WeaklyMonotone DEF ny
    <3>2. (n1 * y) * y = n1 * (y * y)
      <4>1. \A p, q \in Int : (p * q) * q = p * (q * q)
        OBVIOUS
      <4> QED BY <1>1, <2>2, <4>1
    <3> QED BY <1>1, <2>1, <3>1, <3>2
  <2>7. n \in Int /\ y <= n /\ n <= F - 1
    BY <1>1, <2>1, <2>2, <2>5
  <2>8. wide < G
    BY <1>1, <1>5
  <2> QED BY <2>1, <2>6, <2>7, <2>8 DEF F, G, y, b, n
<1>6. CASE ~(wide >= G) /\ ~(wide >= F)
  <2>1. b = 2 /\ n = wide
    <3>1. wide \div 1 = wide
      OBVIOUS
    <3> QED BY <1>1, <1>2, <1>3, <1>6, <3>1
  <2>2. n * F <= wide * Pow[b] /\ wide <= F - 1
    <3>1. wide * F \in Int
      BY <1>1
    <3> QED BY <1>1, <1>6, <2>1, <3>1 DEF F
  <2> QED BY <1>1, <2>1, <2>2 DEF F, y, b, n
<1> QED BY <1>4, <1>5, <1>6

\* An entry of a table, and the next.
LEMMA EntriesRise ==
  ASSUME NEW s \in Symbols
  PROVE  LET p == s.table.prob[s.data]
             q == s.table.prob[s.data + 1] IN
         /\ s.data \in Nat /\ s.table \in Tables
         /\ p \in Int /\ q \in Int /\ 0 <= p /\ p < q /\ q <= Pow[2] - 1
<1>1. s.table \in Tables /\ s.data \in Nat /\ s.data < Last(s.table)
  BY DEF Symbols
<1> DEFINE t == s.table
           n == Last(t)
           d == s.data
<1>2. /\ n \in Nat /\ t.prob \in [0 .. n -> 0 .. Pow[2] - 1]
      /\ \A i \in 1 .. n : t.prob[i - 1] < t.prob[i]
  <2>1. IsTable(t)
    BY <1>1, CoderAssumption
  <2> QED BY <2>1 DEF IsTable
<1>3. Pow[2] \in Int
  BY FourBytes
<1> HIDE DEF t, n, d
<1>4. d \in Nat /\ d < n
  BY <1>1 DEF d, n, t
<1>5. d \in 0 .. n /\ d + 1 \in 0 .. n /\ d + 1 \in 1 .. n /\ (d + 1) - 1 = d
  BY <1>2, <1>4
<1>6. t.prob[d] \in 0 .. Pow[2] - 1 /\ t.prob[d + 1] \in 0 .. Pow[2] - 1 /\ t.prob[d] < t.prob[d + 1]
  BY <1>2, <1>5
<1> QED BY <1>1, <1>3, <1>6 DEF t, d

\* A symbol narrows the interval.
LEMMA NarrowedIs ==
  ASSUME NEW t, IsInterval(t), NEW s \in Symbols
  PROVE  /\ Offset(t, s) \in Int /\ 0 <= Offset(t, s) /\ Wide(t, s) \in Int /\ Byte <= Wide(t, s)
         /\ t.range * s.table.prob[s.data + 1] = Offset(t, s) + Wide(t, s)
         /\ Offset(t, s) + Wide(t, s) < t.range * Pow[2] /\ t.range * Pow[2] \in Int
         /\ t.range * Pow[2] < Pow[4]
         /\ Widening(t, s) \in {0, 1, 2}
         /\ (Widening(t, s) = 1 => Wide(t, s) < Pow[3])
         /\ (Widening(t, s) = 2 => Wide(t, s) < Pow[2])
         /\ IsInterval(Narrowed(t, s))
         /\ Narrowed(t, s).range * Pow[2] <= Wide(t, s) * Pow[Widening(t, s)]
<1> DEFINE r == t.range
           x == s.table.prob[s.data]
           z == s.table.prob[s.data + 1]
           p == Offset(t, s)
           q == r * z
           wide == Wide(t, s)
           b == Widening(t, s)
           u == Narrowed(t, s)
           F == Pow[2]
           H == Pow[4]
           rF == r * F
<1>1. /\ F \in Int /\ H \in Int /\ H = F * F /\ Byte \in Int /\ Byte >= 4 /\ F >= 4 * Byte
  BY FourBytes
<1>2. r \in Int /\ Byte <= r /\ r <= F - 1 /\ t.low \in Nat /\ t.ix \in Nat
  BY DEF IsInterval
<1>3. x \in Int /\ z \in Int /\ 0 <= x /\ x < z /\ z <= F - 1
  BY EntriesRise
<1>4. wide = r * (z - x) /\ p = r * x
  BY DEF Wide, Offset
<1> HIDE DEF r, x, z, p, F, H
<1>5. wide \in Int /\ q = p + wide /\ p \in Int /\ q \in Int
  <2>1. \A i, j, k \in Int : i * k = i * j + i * (k - j) /\ i * j \in Int
    OBVIOUS
  <2>2. z - x \in Int
    BY <1>3
  <2>3. r * x \in Int /\ r * z = r * x + r * (z - x) /\ r * (z - x) \in Int
    BY <1>2, <1>3, <2>1, <2>2
  <2> QED BY <1>4, <2>3
<1>6. r <= wide
  <2> DEFINE y == z - x
  <2>1. y \in Int /\ y >= 1
    BY <1>3
  <2>2. \A i, j \in Int : i >= 0 /\ j >= 1 => i <= i * j
    OBVIOUS
  <2> HIDE DEF y
  <2>3. r <= r * y
    BY <1>1, <1>2, <2>1, <2>2
  <2> QED BY <1>4, <2>3 DEF y
<1>7. 0 <= p
  <2>1. \A i, j \in Int : i >= 0 /\ j >= 0 => i * j >= 0
    OBVIOUS
  <2> QED BY <1>1, <1>2, <1>3, <1>4, <2>1
<1>8. q < rF /\ rF < H /\ rF \in Int
  <2>1. z < F /\ r < F /\ r > 0 /\ F > 0
    BY <1>1, <1>2, <1>3
  <2>2. z * r < F * r /\ r * F < F * F
    BY <1>1, <1>2, <1>3, <2>1, Monotone
  <2>3. z * r = q /\ F * r = rF /\ rF \in Int
    BY <1>1, <1>2, <1>3
  <2> QED BY <1>1, <2>2, <2>3
<1> HIDE DEF p, q, wide, rF
<1>9. wide < H /\ Byte <= wide
  BY <1>1, <1>2, <1>5, <1>6, <1>7, <1>8
<1> DEFINE n == Normalized(wide)
<1>10. /\ b \in {0, 1, 2} /\ n \in Int /\ Byte <= n /\ n <= F - 1 /\ n * F <= wide * Pow[b]
       /\ (b = 1 => wide < Pow[3]) /\ (b = 2 => wide < F)
  BY <1>5, <1>9, NormalizedIs DEF F, H, b, Widening, wide
<1>11. u.low = (t.low + p) * Pow[b] /\ u.range = n /\ u.ix = t.ix + b
  BY DEF Narrowed, p, wide, n
<1>12. Pow[b] \in Nat /\ Pow[b] > 0 /\ b \in Nat
  BY <1>10, BytePowers
<1> HIDE DEF b, n, u
<1>13. u.low \in Nat
  <2>1. \A i, j \in Nat : i * j \in Nat
    OBVIOUS
  <2>2. t.low + p \in Nat
    BY <1>2, <1>5, <1>7
  <2> QED BY <1>11, <1>12, <2>1, <2>2
<1>14. Pow[u.ix] = Pow[t.ix] * Pow[b]
  <2>1. \A i \in Nat : Pow[i] \in Int /\ Pow[i + 1] = Byte * Pow[i]
    BY BytePowers
  <2>2. Pow[t.ix + 0] = Pow[t.ix] * 1
    BY <1>2, <2>1
  <2>3. Pow[t.ix + 1] = Pow[t.ix] * Byte
    <3>1. \A i, j \in Int : i * j = j * i
      OBVIOUS
    <3> QED BY <1>1, <1>2, <2>1, <3>1
  <2>4. Pow[t.ix + 2] = Pow[t.ix] * F
    <3>1. \A i, j \in Int : j * (i * j) = i * (j * j)
      OBVIOUS
    <3>2. (t.ix + 1) + 1 = t.ix + 2 /\ t.ix + 1 \in Nat
      BY <1>2
    <3>3. Pow[t.ix + 2] = Byte * (Pow[t.ix] * Byte)
      BY <2>1, <2>3, <3>2
    <3>4. F = Byte * Byte
      BY FourBytes DEF F
    <3> QED BY <1>1, <1>2, <2>1, <3>1, <3>3, <3>4
  <2>5. Pow[0] = 1 /\ Pow[1] = Byte
    BY FourBytes
  <2> QED BY <1>10, <1>11, <2>2, <2>3, <2>4, <2>5 DEF F
<1>15. u.low + u.range * F <= Pow[u.ix] * H
  <2> DEFINE v == t.low + p
             nF == n * F
             wb == wide * Pow[b]
             vb == v * Pow[b]
             top == Pow[t.ix] * H
             e == v + wide
  <2>1. v \in Int /\ nF \in Int /\ wb \in Int /\ vb \in Int /\ e \in Int /\ top \in Int
    <3>1. v \in Int /\ e \in Int /\ Pow[t.ix] \in Int
      BY <1>2, <1>5, BytePowers
    <3> HIDE DEF v, e
    <3> QED BY <1>1, <1>5, <1>10, <1>12, <3>1
  <2>2. e <= top
    <3>1. t.low + rF <= top
      BY DEF IsInterval, rF, r, F, H
    <3> HIDE DEF top
    <3> QED BY <1>2, <1>5, <1>8, <2>1, <3>1
  <2>3. e * Pow[b] <= top * Pow[b]
    <3> HIDE DEF e, top
    <3> QED BY <1>12, <2>1, <2>2, WeaklyMonotone
  <2>4. e * Pow[b] = vb + wb
    <3>1. \A i, j, k \in Int : (i + j) * k = i * k + j * k
      OBVIOUS
    <3> HIDE DEF v
    <3> QED BY <1>5, <1>12, <2>1, <3>1
  <2>5. top * Pow[b] = Pow[u.ix] * H
    <3>1. \A i, j, k \in Int : (i * j) * k = (i * k) * j
      OBVIOUS
    <3>2. Pow[t.ix] \in Int
      BY <1>2, BytePowers
    <3> QED BY <1>1, <1>12, <1>14, <3>1, <3>2
  <2>6. u.low = vb /\ u.range * F = nF /\ nF <= wb
    BY <1>10, <1>11
  <2> DEFINE top2 == Pow[u.ix] * H
             eb == e * Pow[b]
  <2>7. eb \in Int /\ top2 \in Int
    <3>1. eb = vb + wb
      BY <2>4
    <3>2. top2 = top * Pow[b]
      BY <2>5
    <3> HIDE DEF eb, top2, vb, wb, top
    <3> QED BY <1>12, <2>1, <3>1, <3>2
  <2> HIDE DEF eb, top2, vb, wb, nF, top, e
  <2>8. vb + nF <= top2
    BY <2>1, <2>3, <2>4, <2>5, <2>6, <2>7 DEF eb, top2
  <2> QED BY <2>6, <2>8 DEF top2
<1>16. IsInterval(u)
  BY <1>2, <1>10, <1>11, <1>12, <1>13, <1>15 DEF IsInterval, F, H
<1>17. r * F = rF /\ rF \in Int
  BY <1>8 DEF rF
<1>18. p + wide < r * F /\ r * F \in Int /\ r * F < H /\ r * z = p + wide
  BY <1>5, <1>8, <1>17 DEF q
<1>19. u.range * F <= wide * Pow[b]
  BY <1>10, <1>11
<1> QED BY <1>5, <1>7, <1>9, <1>10, <1>16, <1>18, <1>19 DEF p, wide, b, u, F, H, r, z

-----------------------------------------------------------------------------
(* The encoder: the bytes written and the base are the interval's low end. *)

Writes(w, t) ==
  /\ w \in Coder /\ w.length = MaxBytes /\ w.error = FALSE /\ w.wild = FALSE
  /\ w.base \in Int /\ 0 <= w.base /\ w.base < Pow[4]
  /\ w.range = t.range /\ w.ix = t.ix /\ w.ix \in 0 .. MaxBytes
  /\ t.low = Number(w.buffer)[w.ix] * Pow[4] + w.base

\* A number that is added to the low end: the carry finds a byte that takes it.
Added(w, t, sum) ==
  \E n \in [Memory -> Digits] :
     /\ (IF sum >= Pow[4] THEN Carried(w) ELSE w) = [w EXCEPT !.buffer = n]
     /\ t.low + (sum - w.base) = Number(n)[w.ix] * Pow[4] + (sum % Pow[4])

LEMMA AddedIs ==
  ASSUME NEW t, IsInterval(t), NEW w, Writes(w, t), NEW sum \in Int,
         w.base <= sum, sum < w.base + t.range * Pow[2],
         t.range * Pow[2] \in Int, t.range * Pow[2] < Pow[4]
  PROVE  Added(w, t, sum)
<1> DEFINE H == Pow[4]
           m == w.buffer
           k == w.ix
           b == w.base
           rF == t.range * Pow[2]
           M == Number(m)[k]
           MH == M * H
           K == Pow[k]
           KH == K * H
<1>1. H \in Int /\ H > 0
  BY FourBytes
<1>2. /\ w \in Coder /\ m \in [Memory -> Digits] /\ k \in 0 .. MaxBytes /\ b \in Int /\ 0 <= b /\ b < H
      /\ t.low = MH + b /\ k = t.ix
  BY DEF Writes, Coder
<1>3. k \in Nat /\ K \in Int /\ K >= 1
  BY <1>2, BytePowers, CoderAssumption
<1>4. M \in Int
  BY <1>2, <1>3, NumberIs
<1>5. MH \in Int /\ KH \in Int
  BY <1>1, <1>3, <1>4
<1>6. t.low + rF <= KH
  BY <1>2 DEF IsInterval
<1>7. rF \in Int /\ rF < H /\ b <= sum /\ sum < b + rF
  OBVIOUS
<1> HIDE DEF H, m, k, b, rF, MH, KH
<1>8. CASE sum < H
  <2>1. sum = 0 * H + sum /\ 0 <= sum
    BY <1>1, <1>2, <1>7
  <2>2. sum % H = sum
    BY <1>1, <1>8, <2>1, RemainderIs
  <2>3. w = [w EXCEPT !.buffer = m]
    BY <1>2 DEF Coder, m
  <2>4. t.low + (sum - b) = MH + sum
    BY <1>2, <1>5, <1>7
  <2>5. ~(sum >= H)
    BY <1>1, <1>8
  <2> DEFINE r == sum % H
  <2> HIDE DEF r
  <2>6. /\ (IF sum >= H THEN Carried(w) ELSE w) = [w EXCEPT !.buffer = m]
        /\ t.low + (sum - b) = Number(m)[k] * H + r
    BY <2>2, <2>3, <2>4, <2>5 DEF MH, r
  <2> QED BY <1>2, <2>6 DEF Added, H, b, k, r
<1>9. CASE sum >= H
  <2>1. sum % H = sum - H
    <3>1. sum = 1 * H + (sum - H) /\ 0 <= sum - H /\ sum - H < H /\ sum - H \in Int
      BY <1>1, <1>2, <1>7, <1>9
    <3> QED BY <1>1, <3>1, RemainderIs
  <2>2. M # K - 1
    <3> SUFFICES ASSUME M = K - 1 PROVE FALSE
      OBVIOUS
    <3>1. MH = KH - H
      <4>1. \A i, j \in Int : (i - 1) * j = i * j - j
        OBVIOUS
      <4> HIDE DEF M, K
      <4> QED BY <1>1, <1>3, <4>1 DEF MH, KH
    <3> QED BY <1>1, <1>2, <1>5, <1>6, <1>7, <1>9, <3>1
  <2>3. PICK n \in [Memory -> Digits] : /\ Carried(w) = [w EXCEPT !.buffer = n]
                                        /\ Number(n)[k] = M + 1
    BY <1>2, <2>2, CarriedIs DEF k, m
  <2>4. t.low + (sum - b) = Number(n)[k] * H + (sum % H)
    <3>1. (M + 1) * H = MH + H
      <4>1. \A i, j \in Int : (i + 1) * j = i * j + j
        OBVIOUS
      <4> HIDE DEF M
      <4> QED BY <1>1, <1>4, <4>1 DEF MH
    <3>2. Number(n)[k] * H = MH + H
      BY <2>3, <3>1
    <3> DEFINE r == sum % H
               N == Number(n)[k] * H
    <3>3. r = sum - H /\ N = MH + H
      BY <2>1, <3>2
    <3> HIDE DEF r, N
    <3>4. t.low + (sum - b) = N + r
      BY <1>1, <1>2, <1>5, <1>7, <3>3
    <3> QED BY <3>4 DEF r, N
  <2>5. /\ (IF sum >= H THEN Carried(w) ELSE w) = [w EXCEPT !.buffer = n]
        /\ t.low + (sum - b) = Number(n)[k] * H + (sum % H)
    BY <1>9, <2>3, <2>4
  <2> QED BY <2>5 DEF Added, H, b, k
<1> QED BY <1>1, <1>7, <1>8, <1>9

\* The first bytes of a base, and what is left when they are shifted out.
LEMMA BytesShiftedOut ==
  ASSUME NEW base \in Int, 0 <= base, base < Pow[4]
  PROVE  /\ (base \div Pow[3]) % Byte \in Digits /\ (base \div Pow[2]) % Byte \in Digits
         /\ (base * Byte) % Pow[4] \in Int
         /\ 0 <= (base * Byte) % Pow[4] /\ (base * Byte) % Pow[4] < Pow[4]
         /\ base * Byte = ((base \div Pow[3]) % Byte) * Pow[4] + ((base * Byte) % Pow[4])
         /\ (base * Pow[2]) % Pow[4] \in Int
         /\ 0 <= (base * Pow[2]) % Pow[4] /\ (base * Pow[2]) % Pow[4] < Pow[4]
         /\ base * Pow[2] = (((base \div Pow[3]) % Byte) * Byte + ((base \div Pow[2]) % Byte)) * Pow[4]
                            + ((base * Pow[2]) % Pow[4])
<1> DEFINE y == Byte
           F == Pow[2]
           G == Pow[3]
           H == Pow[4]
<1> DEFINE q3 == base \div G
           r3 == base % G
           q2 == base \div F
           r2 == base % F
           a == q2 \div y
           d == q2 % y
<1>1. /\ y \in Int /\ y >= 4 /\ F = y * y /\ G = F * y /\ G = y * F /\ H = F * F /\ H = y * G
      /\ F \in Int /\ G \in Int /\ H \in Int /\ F >= 4 * y /\ G >= 4 * F /\ H >= 4 * G
  BY FourBytes
<1> HIDE DEF y, F, G, H
<1>2. q3 \in Int /\ r3 \in Int /\ base = q3 * G + r3 /\ 0 <= r3 /\ r3 < G
  BY <1>1, Remainder
<1>3. q2 \in Int /\ r2 \in Int /\ base = q2 * F + r2 /\ 0 <= r2 /\ r2 < F
  BY <1>1, Remainder
<1>4. base < H
  BY DEF H
<1>5. 0 <= q3 /\ q3 < y
  <2>1. 0 <= q3 <=> 0 * G <= base
    BY <1>1, QuotientBound
  <2>2. y <= q3 <=> y * G <= base
    BY <1>1, QuotientBound
  <2> QED BY <1>1, <1>2, <1>4, <2>1, <2>2
<1>6. q3 % y = q3
  <2>1. q3 = 0 * y + q3
    BY <1>1, <1>2
  <2> QED BY <1>1, <1>2, <1>5, <2>1, RemainderIs
<1> HIDE DEF q3, r3, q2, r2
<1>7. a \in Int /\ d \in Int /\ q2 = a * y + d /\ 0 <= d /\ d < y
  BY <1>1, <1>3, Remainder
<1> HIDE DEF a, d
<1>8. a = q3
  <2> DEFINE dF == d * F
             e == dF + r2
             aG == a * G
  <2>1. dF \in Int /\ 0 <= dF /\ dF <= (y - 1) * F /\ (y - 1) * F = G - F
    <3>1. dF \in Int /\ (y - 1) * F = G - F
      BY <1>1, <1>7
    <3>2. 0 <= d /\ d <= y - 1 /\ F >= 0 /\ y - 1 \in Int
      BY <1>1, <1>7
    <3>3. 0 * F <= d * F /\ d * F <= (y - 1) * F
      BY <1>1, <1>7, <3>2, WeaklyMonotone
    <3> QED BY <1>1, <3>1, <3>3
  <2>2. q2 * F = aG + dF /\ aG \in Int
    <3>1. \A i, j, k, l \in Int : (i * j + k) * l = i * (j * l) + k * l
      OBVIOUS
    <3>2. (a * y + d) * F = a * (y * F) + d * F
      BY <1>1, <1>7, <3>1
    <3> QED BY <1>1, <1>7, <3>2
  <2> HIDE DEF dF, aG
  <2>3. base = aG + e /\ e \in Int /\ 0 <= e /\ e < G
    BY <1>1, <1>3, <2>1, <2>2
  <2> HIDE DEF e
  <2> QED BY <1>1, <1>7, <2>3, RemainderIs DEF aG, q3
<1>9. q3 % y \in Digits /\ q2 % y \in Digits
  BY <1>1, <1>2, <1>5, <1>6, <1>7 DEF Digits, y, d
<1>10. /\ base * y = (q3 % y) * H + ((base * y) % H)
       /\ (base * y) % H \in Int /\ 0 <= (base * y) % H /\ (base * y) % H < H
  <2> DEFINE x == base * y
             r == r3 * y
  <2>1. x = q3 * H + r
    <3>1. \A i, j, k, l \in Int : (i * j + k) * l = i * (l * j) + k * l
      OBVIOUS
    <3>2. (q3 * G + r3) * y = q3 * (y * G) + r3 * y
      BY <1>1, <1>2, <3>1
    <3> QED BY <1>1, <1>2, <3>2
  <2>2. x \in Int /\ r \in Int
    BY <1>1, <1>2
  <2>3. 0 <= r /\ r < H
    <3>1. \A i, j, k \in Int : 0 <= i /\ i < j /\ k > 0 => 0 <= i * k /\ i * k < j * k
      OBVIOUS
    <3>2. G * y = H
      BY <1>1
    <3> QED BY <1>1, <1>2, <3>1, <3>2
  <2> HIDE DEF x, r
  <2>4. x % H = r
    <3>1. H \in Int /\ H > 0 /\ q3 \in Int
      BY <1>1, <1>2
    <3> QED BY <2>1, <2>2, <2>3, <3>1, RemainderIs
  <2> QED BY <1>6, <2>1, <2>2, <2>3, <2>4 DEF x
<1>11. /\ base * F = ((q3 % y) * y + (q2 % y)) * H + ((base * F) % H)
       /\ (base * F) % H \in Int /\ 0 <= (base * F) % H /\ (base * F) % H < H
  <2> DEFINE x == base * F
             r == r2 * F
  <2>1. x = q2 * H + r
    <3>1. \A i, j, k \in Int : (i * j + k) * j = i * (j * j) + k * j
      OBVIOUS
    <3>2. (q2 * F + r2) * F = q2 * (F * F) + r2 * F
      BY <1>1, <1>3, <3>1
    <3> QED BY <1>1, <1>3, <3>2
  <2>2. x \in Int /\ r \in Int
    BY <1>1, <1>3
  <2>3. 0 <= r /\ r < H
    <3>1. \A i, j, k \in Int : 0 <= i /\ i < j /\ k > 0 => 0 <= i * k /\ i * k < j * k
      OBVIOUS
    <3> QED BY <1>1, <1>3, <3>1
  <2> HIDE DEF x, r
  <2>4. x % H = r
    <3>1. H \in Int /\ H > 0 /\ q2 \in Int
      BY <1>1, <1>3
    <3> QED BY <2>1, <2>2, <2>3, <3>1, RemainderIs
  <2>5. (q3 % y) * y + (q2 % y) = q2
    BY <1>6, <1>7, <1>8 DEF d
  <2> QED BY <2>1, <2>2, <2>3, <2>4, <2>5 DEF x
<1> QED BY <1>9, <1>10, <1>11 DEF q3, q2, y, F, G, H

\* What a call leaves: an error, or the bytes of the narrower interval.
EncodedTo(v, u) == v.wild = FALSE /\ (v.error = TRUE \/ Writes(v, u))

\* Bytes that are written behind others.
LEMMA AppendedIs ==
  ASSUME NEW m \in [Memory -> Digits], NEW n \in [Memory -> Digits], NEW k \in 0 .. MaxBytes,
         \A i \in 0 .. k - 1 : n[i] = m[i]
  PROVE  /\ Number(n)[k] = Number(m)[k] /\ Number(m)[k] \in Int
         /\ n[k] \in Int /\ n[k + 1] \in Int
         /\ Number(n)[k + 1] = Number(m)[k] * Byte + n[k]
         /\ Number(n)[k + 2] = (Number(m)[k] * Byte + n[k]) * Byte + n[k + 1]
<1>1. MaxBytes \in Nat /\ Memory = 0 .. MaxBytes + 3 /\ k \in Nat
  BY CoderAssumption DEF Memory
<1>2. k \in 0 .. MaxBytes + 4 /\ k \in 0 .. k /\ k \in Memory /\ k + 1 \in Memory /\ (k + 1) + 1 = k + 2
  BY <1>1
<1>3. Number(n)[k] = Number(m)[k]
  BY <1>2, SameNumbers
<1>4. \A i \in Memory : n[i] \in Int /\ Number(n)[i + 1] = Number(n)[i] * Byte + n[i]
  BY NumberIs
<1>5. Number(m)[k] \in Int
  BY <1>1, NumberIs
<1>6. Number(n)[k + 1] = Number(m)[k] * Byte + n[k]
  BY <1>2, <1>3, <1>4
<1>7. Number(n)[k + 2] = Number(n)[k + 1] * Byte + n[k + 1]
  BY <1>2, <1>4
<1> QED BY <1>2, <1>3, <1>4, <1>5, <1>6, <1>7

\* The encoder keeps the interval.
LEMMA EncoderIs ==
  ASSUME NEW t, IsInterval(t), NEW w, Writes(w, t), NEW s \in Symbols
  PROVE  EncodedTo(range_encoder(w, s.data, s.table), Narrowed(t, s))
<1> DEFINE H == Pow[4]
           F == Pow[2]
           y == Byte
           k == w.ix
           p == Offset(t, s)
           wide == Wide(t, s)
           b == Widening(t, s)
           u == Narrowed(t, s)
           sum == w.base + p
           base == sum % H
           fit == Min({b, w.length - k})
           carried == IF sum >= H THEN Carried(w) ELSE w
           written == [carried EXCEPT !.buffer = [i \in Memory |->
                         IF i \in k .. k + fit - 1
                         THEN (base \div Pow[3 - (i - k)]) % Byte ELSE @[i]]]
           v == range_encoder(w, s.data, s.table)
<1>1. v = IF fit < b THEN [written EXCEPT !.error = TRUE]
          ELSE [written EXCEPT !.base = (base * Pow[b]) % H, !.range = Normalized(wide), !.ix = @ + b]
  <2>1. w.range = t.range /\ w.error = FALSE
    BY DEF Writes
  <2>2. w.base + w.range * s.table.prob[s.data] = sum
    BY <2>1 DEF Offset
  <2>3. w.range * (s.table.prob[s.data + 1] - s.table.prob[s.data]) = wide
    BY <2>1 DEF Wide
  <2>4. Normalization(wide) = b
    BY DEF Widening
  <2> QED BY <2>1, <2>2, <2>3, <2>4, Zenon DEF range_encoder
<1>2. /\ y \in Int /\ y >= 4 /\ H \in Int /\ H >= 4 /\ F \in Int
      /\ Pow[0] = 1 /\ Pow[1] = y /\ F = y * y
  BY FourBytes
<1>3. /\ p \in Int /\ 0 <= p /\ p < t.range * Pow[2] /\ t.range * Pow[2] \in Int
      /\ t.range * Pow[2] < H
      /\ b \in {0, 1, 2}
  <2>1. /\ Offset(t, s) \in Int /\ 0 <= Offset(t, s) /\ Wide(t, s) \in Int /\ Byte <= Wide(t, s)
        /\ Offset(t, s) + Wide(t, s) < t.range * Pow[2] /\ t.range * Pow[2] \in Int
        /\ t.range * Pow[2] < Pow[4]
        /\ Widening(t, s) \in {0, 1, 2}
    BY NarrowedIs
  <2> HIDE DEF y, b
  <2> QED BY <1>2, <2>1 DEF p, b, y
<1>4. /\ w \in Coder /\ w.length = MaxBytes /\ w.error = FALSE /\ w.wild = FALSE
      /\ w.base \in Int /\ 0 <= w.base /\ k = t.ix /\ k \in 0 .. MaxBytes
  BY DEF Writes
<1>5. u.low = (t.low + p) * Pow[b] /\ u.range = Normalized(wide) /\ u.ix = k + b
  BY <1>4 DEF Narrowed
<1>6. MaxBytes \in Nat /\ k \in Nat /\ Memory = 0 .. MaxBytes + 3
  BY <1>4, CoderAssumption DEF Memory
<1>7. PICK n \in [Memory -> Digits] : carried = [w EXCEPT !.buffer = n]
                                      /\ t.low + p = Number(n)[k] * H + base
  <2>1. sum \in Int /\ w.base <= sum /\ sum < w.base + t.range * Pow[2] /\ sum - w.base = p
    BY <1>3, <1>4
  <2> HIDE DEF sum
  <2>2. Added(w, t, sum)
    BY <1>3, <2>1, AddedIs
  <2> QED BY <2>1, <2>2 DEF Added
<1>8. base \in Int /\ 0 <= base /\ base < H
  <2>1. sum \in Int
    BY <1>3, <1>4
  <2> HIDE DEF sum
  <2> QED BY <1>2, <2>1, Remainder
<1>9. t.low \in Int
  BY DEF IsInterval
<1> HIDE DEF H, F, y, p, wide, b, u, sum, base, carried, v
<1> DEFINE nn == [i \in Memory |-> IF i \in k .. k + fit - 1
                                   THEN (base \div Pow[3 - (i - k)]) % Byte ELSE n[i]]
<1>10. written = [w EXCEPT !.buffer = nn]
  <2>1. carried.buffer = n
    BY <1>4, <1>7 DEF Coder
  <2> QED BY <1>4, <1>7, <2>1 DEF Coder
<1>11. CASE fit < b
  <2> HIDE DEF nn, written, fit
  <2>1. v = [written EXCEPT !.error = TRUE]
    BY <1>1, <1>11
  <2>2. v.wild = w.wild /\ v.error = TRUE
    BY <1>4, <1>10, <2>1 DEF Coder
  <2> QED BY <1>4, <2>2 DEF EncodedTo, v
<1>12. CASE ~(fit < b)
  <2>1. fit = b /\ k + b <= MaxBytes
    <3>1. b \in Int /\ w.length - k \in Int
      BY <1>3, <1>4, <1>6
    <3>2. fit = IF b <= w.length - k THEN b ELSE w.length - k
      BY <3>1, OfTwo
    <3> QED BY <1>4, <1>6, <1>12, <3>1, <3>2
  <2> HIDE DEF fit
  <2>2. v = [w EXCEPT !.buffer = nn, !.base = (base * Pow[b]) % H, !.range = Normalized(wide),
                      !.ix = k + b]
    <3> HIDE DEF nn, written
    <3>1. v = [written EXCEPT !.base = (base * Pow[b]) % H, !.range = Normalized(wide), !.ix = @ + b]
      BY <1>1, <1>12
    <3> QED BY <1>4, <1>10, <3>1 DEF Coder
  <2>3. /\ \A i \in 0 .. k - 1 : nn[i] = n[i]
        /\ b >= 1 => nn[k] = (base \div Pow[3]) % Byte
        /\ b = 2 => nn[k + 1] = (base \div Pow[2]) % Byte
    <3>1. \A i \in 0 .. k - 1 : i \in Memory /\ i \notin k .. k + fit - 1
      <4>1. fit \in Int
        BY <1>3, <2>1
      <4> QED BY <1>4, <1>6, <4>1
    <3>2. k \in Memory /\ k + 1 \in Memory
      BY <1>4, <1>6
    <3>3. b >= 1 => k \in k .. k + fit - 1 /\ 3 - (k - k) = 3
      BY <1>3, <1>6, <2>1
    <3>4. b = 2 => k + 1 \in k .. k + fit - 1 /\ 3 - ((k + 1) - k) = 2
      BY <1>6, <2>1
    <3> QED BY <3>1, <3>2, <3>3, <3>4
  <2>4. nn \in [Memory -> Digits]
    <3>1. (base \div Pow[3]) % Byte \in Digits /\ (base \div Pow[2]) % Byte \in Digits
      BY <1>8, BytesShiftedOut DEF H
    <3>2. ASSUME NEW i \in Memory PROVE nn[i] \in Digits
      <4>1. CASE i \in k .. k + fit - 1
        <5>1. nn[i] = (base \div Pow[3 - (i - k)]) % Byte
          BY <4>1
        <5>2. 3 - (i - k) \in {2, 3}
          BY <1>3, <1>6, <2>1, <4>1
        <5> HIDE DEF nn
        <5>3. CASE 3 - (i - k) = 3
          BY <3>1, <5>1, <5>3
        <5>4. CASE 3 - (i - k) = 2
          BY <3>1, <5>1, <5>4
        <5> QED BY <5>2, <5>3, <5>4
      <4>2. CASE ~(i \in k .. k + fit - 1)
        BY <4>2
      <4> QED BY <4>1, <4>2
    <3>3. nn = [i \in Memory |-> nn[i]]
      OBVIOUS
    <3> HIDE DEF nn
    <3> QED BY <3>2, <3>3
  <2> HIDE DEF nn
  <2> DEFINE N == Number(n)[k]
             low == base * Pow[b]
             r == low % H
             M == Number(nn)[k + b]
             z == N * H
             d0 == nn[k]
             d1 == nn[k + 1]
  <2>5. /\ N \in Int /\ Number(nn)[k + 0] = N /\ d0 \in Int /\ d1 \in Int
        /\ Number(nn)[k + 1] = N * y + d0
        /\ Number(nn)[k + 2] = (N * y + d0) * y + d1
    <3>1. k + 0 = k
      BY <1>6
    <3> HIDE DEF N, d0, d1
    <3> QED BY <1>4, <2>3, <2>4, <3>1, AppendedIs DEF N, d0, d1, y
  <2>6. r \in Int /\ 0 <= r /\ r < H /\ u.low = M * H + r
    <3>1. u.low = (z + base) * Pow[b] /\ z \in Int
      BY <1>2, <1>5, <1>7, <2>5
    <3>2. CASE b = 0
      <4>1. base * 1 = base /\ base = 0 * H + base
        BY <1>2, <1>8
      <4>2. base % H = base
        BY <1>2, <1>8, <4>1, RemainderIs
      <4>3. r = base
        BY <1>2, <3>2, <4>1, <4>2
      <4>4. M = N
        BY <2>5, <3>2
      <4>5. u.low = z + base
        BY <1>2, <1>8, <3>1, <3>2
      <4> HIDE DEF r, M
      <4>6. u.low = M * H + r
        BY <4>3, <4>4, <4>5
      <4> QED BY <1>8, <4>3, <4>6
    <3>3. CASE b = 1
      <4>1. r = (base * y) % H
        BY <1>2, <3>3
      <4>2. /\ r \in Int /\ 0 <= r /\ r < H
            /\ base * y = d0 * H + r
        BY <1>8, <2>3, <3>3, <4>1, BytesShiftedOut DEF H, y
      <4>3. M = N * y + d0
        BY <2>5, <3>3
      <4>4. u.low = (z + base) * y
        BY <1>2, <3>1, <3>3
      <4> HIDE DEF r, M, N, d0
      <4>5. \A i, j, g, h, q, o \in Int : j * g = h * q + o => (i * q + j) * g = (i * g + h) * q + o
        <5> SUFFICES ASSUME NEW i \in Int, NEW j \in Int, NEW g \in Int, NEW h \in Int, NEW q \in Int,
                            NEW o \in Int, j * g = h * q + o
                     PROVE  (i * q + j) * g = (i * g + h) * q + o
          OBVIOUS
        <5>1. (i * q + j) * g = i * q * g + j * g
          OBVIOUS
        <5>2. (i * g + h) * q = i * q * g + h * q
          OBVIOUS
        <5>3. i * q * g \in Int /\ h * q \in Int
          OBVIOUS
        <5> QED BY <5>1, <5>2, <5>3
      <4>6. (N * H + base) * y = (N * y + d0) * H + r
        BY <1>2, <1>8, <2>5, <4>2, <4>5
      <4> QED BY <4>2, <4>3, <4>4, <4>6
    <3>4. CASE b = 2
      <4>1. r = (base * F) % H
        BY <3>4 DEF F
      <4>2. /\ r \in Int /\ 0 <= r /\ r < H
            /\ base * F = (d0 * y + d1) * H + r
        BY <1>2, <1>8, <2>3, <3>4, <4>1, BytesShiftedOut DEF H, y, F
      <4>3. M = (N * y + d0) * y + d1
        BY <2>5, <3>4
      <4>4. u.low = (z + base) * F
        BY <1>2, <3>1, <3>4 DEF F
      <4> HIDE DEF r, M, N, d0, d1
      <4> DEFINE d == d0 * y + d1
      <4>5. \A i, j, g, h, q, o \in Int : j * g = h * q + o => (i * q + j) * g = (i * g + h) * q + o
        <5> SUFFICES ASSUME NEW i \in Int, NEW j \in Int, NEW g \in Int, NEW h \in Int, NEW q \in Int,
                            NEW o \in Int, j * g = h * q + o
                     PROVE  (i * q + j) * g = (i * g + h) * q + o
          OBVIOUS
        <5>1. (i * q + j) * g = i * q * g + j * g
          OBVIOUS
        <5>2. (i * g + h) * q = i * q * g + h * q
          OBVIOUS
        <5>3. i * q * g \in Int /\ h * q \in Int
          OBVIOUS
        <5> QED BY <5>1, <5>2, <5>3
      <4>6. d \in Int
        BY <1>2, <2>5
      <4>7. (N * y + d0) * y + d1 = N * F + d
        <5>1. \A i, j, g, h \in Int : (i * j + g) * j + h = i * (j * j) + (g * j + h)
          OBVIOUS
        <5> QED BY <1>2, <2>5, <5>1
      <4> HIDE DEF d
      <4>8. base * F = d * H + r
        BY <4>2 DEF d
      <4>9. (N * H + base) * F = (N * F + d) * H + r
        BY <1>2, <1>8, <2>5, <4>2, <4>5, <4>6, <4>8
      <4> QED BY <4>2, <4>3, <4>4, <4>7, <4>9
    <3> QED BY <1>3, <3>2, <3>3, <3>4
  <2> HIDE DEF low, r, M, N, z, d0, d1
  <2>7. v = [w EXCEPT !.buffer = nn, !.base = r, !.range = Normalized(wide), !.ix = k + b]
    BY <2>2 DEF low, r
  <2>8. IsInterval(u)
    BY NarrowedIs DEF u
  <2>9. Normalized(wide) \in Int
    BY <1>5, <2>8 DEF IsInterval
  <2>10. k + b \in Int /\ k + b \in 0 .. MaxBytes
    BY <1>3, <1>6, <2>1
  <2>11. v \in Coder
    BY <1>4, <2>4, <2>6, <2>7, <2>9, <2>10 DEF Coder
  <2>12. /\ v.length = MaxBytes /\ v.error = FALSE /\ v.wild = FALSE /\ v.base = r
         /\ v.range = u.range /\ v.ix = k + b /\ v.buffer = nn
    BY <1>4, <1>5, <2>7 DEF Coder
  <2>13. Writes(v, u)
    BY <1>5, <2>6, <2>10, <2>11, <2>12 DEF Writes, H, M
  <2> QED BY <2>12, <2>13 DEF EncodedTo, v, u
<1> QED BY <1>11, <1>12

-----------------------------------------------------------------------------
(* The decoder: what is read lies in the interval, and its base is what is *)
(* read beyond the interval's low end.                                     *)

\* Further bytes multiply a number, and add less than one of what it was made of.
LEMMA FurtherBytes ==
  ASSUME NEW m \in [Memory -> Digits], NEW k \in Nat
  PROVE  \A j \in Nat : k + j <= MaxBytes + 4
           => /\ Number(m)[k] \in Int /\ Number(m)[k + j] \in Int /\ Pow[j] \in Int
              /\ Number(m)[k] * Pow[j] <= Number(m)[k + j]
              /\ Number(m)[k + j] < Number(m)[k] * Pow[j] + Pow[j]
<1> DEFINE M == Number(m)
           S == {j \in Nat : k + j <= MaxBytes + 4
                   => M[k] * Pow[j] <= M[k + j] /\ M[k + j] < M[k] * Pow[j] + Pow[j]}
<1>1. MaxBytes \in Nat /\ Memory = 0 .. MaxBytes + 3 /\ Byte \in Int /\ Byte >= 4
  BY CoderAssumption, BytePowers DEF Memory
<1>2. \A i \in Memory : i \in Nat /\ m[i] \in Int /\ 0 <= m[i] /\ m[i] <= Byte - 1
                        /\ M[i + 1] = M[i] * Byte + m[i]
  BY NumberIs
<1>3. \A i \in Nat : M[i] \in Int /\ Pow[i] \in Int /\ Pow[i] >= 1 /\ Pow[i + 1] = Byte * Pow[i]
  BY NumberIs, BytePowers
<1>4. Pow[0] = 1
  BY BytePowers
<1> HIDE DEF M
<1>5. 0 \in S
  <2>1. k + 0 = k /\ M[k] * Pow[0] = M[k] /\ M[k] \in Int
    BY <1>3, <1>4
  <2> QED BY <1>4, <2>1
<1>6. ASSUME NEW j \in Nat, j \in S PROVE j + 1 \in S
  <2> DEFINE z == M[k] * Pow[j]
             q == M[k + j]
             d == m[k + j]
             P == Pow[j]
  <2> SUFFICES ASSUME k + (j + 1) <= MaxBytes + 4
               PROVE  /\ M[k] * Pow[j + 1] <= M[k + (j + 1)]
                      /\ M[k + (j + 1)] < M[k] * Pow[j + 1] + Pow[j + 1]
    OBVIOUS
  <2>1. k + j \in Memory /\ k + j \in Nat /\ k + j <= MaxBytes + 4 /\ k + (j + 1) = (k + j) + 1
    BY <1>1
  <2>2. z <= q /\ q < z + P /\ z \in Int /\ q \in Int /\ P \in Int
    <3>1. M[k] \in Int /\ P \in Int /\ q \in Int
      BY <1>3, <2>1
    <3> QED BY <1>6, <2>1, <3>1
  <2>3. M[k + (j + 1)] = q * Byte + d /\ d \in Int /\ 0 <= d /\ d <= Byte - 1
    BY <1>2, <2>1
  <2>4. Pow[j + 1] = Byte * P /\ M[k] * Pow[j + 1] = z * Byte
    <3>1. \A g, h, i \in Int : g * (h * i) = (g * i) * h
      OBVIOUS
    <3>2. M[k] \in Int /\ P \in Int /\ Pow[j + 1] = Byte * P
      BY <1>3
    <3> HIDE DEF P
    <3>3. M[k] * (Byte * P) = (M[k] * P) * Byte
      BY <1>1, <3>1, <3>2
    <3> QED BY <3>2, <3>3 DEF P
  <2> HIDE DEF z, q, d, P
  <2>5. z * Byte <= q * Byte
    BY <1>1, <2>2, WeaklyMonotone
  <2>6. (q + 1) * Byte <= (z + P) * Byte
    <3>1. q + 1 \in Int /\ z + P \in Int /\ q + 1 <= z + P /\ Byte >= 0
      BY <1>1, <2>2
    <3> QED BY <1>1, <3>1, WeaklyMonotone
  <2>7. (q + 1) * Byte = q * Byte + Byte /\ (z + P) * Byte = z * Byte + Byte * P
    BY <1>1, <2>2
  <2>8. q * Byte \in Int /\ z * Byte \in Int /\ Byte * P \in Int
    BY <1>1, <2>2
  <2> DEFINE qb == q * Byte
             zb == z * Byte
             bP == Byte * P
             more == M[k + (j + 1)]
  <2>9. zb <= qb /\ qb + Byte <= zb + bP /\ qb \in Int /\ zb \in Int /\ bP \in Int /\ more = qb + d
    BY <2>3, <2>5, <2>6, <2>7, <2>8
  <2> HIDE DEF qb, zb, bP, more
  <2>10. zb <= more /\ more < zb + bP
    BY <1>1, <2>3, <2>9
  <2> QED BY <2>4, <2>10 DEF zb, bP, more
<1> HIDE DEF S
<1>7. \A j \in Nat : j \in S
  BY <1>5, <1>6, Induction
<1>8. \A j \in Nat : k + j \in Nat
  OBVIOUS
<1> QED BY <1>3, <1>7, <1>8 DEF S, M

\* What the memory holds lies in the interval.
Within(m, t) ==
  /\ t.low <= Number(m)[t.ix + 4] /\ Number(m)[t.ix + 4] < t.low + t.range * Pow[2]

\* ... and in the part of it that is a symbol's.
WithinSymbol(m, t, s) ==
  /\ t.low + Offset(t, s) <= Number(m)[t.ix + 4]
  /\ Number(m)[t.ix + 4] < (t.low + Offset(t, s)) + Wide(t, s)

\* What lies in the narrower interval lies in the wider one, in the symbol's part.
LEMMA Widened ==
  ASSUME NEW t, IsInterval(t), NEW s \in Symbols, NEW m \in [Memory -> Digits],
         Within(m, Narrowed(t, s)), Narrowed(t, s).ix <= MaxBytes
  PROVE  WithinSymbol(m, t, s) /\ Within(m, t)
<1> DEFINE p == Offset(t, s)
           wide == Wide(t, s)
           b == Widening(t, s)
           u == Narrowed(t, s)
           k == t.ix + 4
           M == Number(m)
           P == Pow[b]
           F == Pow[2]
           uF == u.range * F
           tF == t.range * F
           wP == wide * P
           v == t.low + p
           vP == v * P
           N == M[k]
           N2 == M[k + b]
           NP == N * P
<1>1. /\ p \in Int /\ 0 <= p /\ wide \in Int /\ p + wide < tF /\ tF \in Int
      /\ b \in {0, 1, 2} /\ IsInterval(u) /\ uF <= wP
  BY NarrowedIs
<1>2. u.low = vP /\ u.ix = t.ix + b
  BY DEF Narrowed
<1>3. t.low \in Int /\ t.ix \in Nat /\ u.range \in Int
  BY <1>1 DEF IsInterval
<1>4. u.ix + 4 = k + b /\ k \in Nat /\ b \in Nat /\ k + b <= MaxBytes + 4
  <2> HIDE DEF u, b
  <2> QED BY <1>1, <1>2, <1>3, CoderAssumption DEF u
<1>5. u.low <= M[u.ix + 4] /\ M[u.ix + 4] < u.low + uF
  BY DEF Within
<1>6. N \in Int /\ N2 \in Int /\ P \in Int /\ P >= 1 /\ NP <= N2 /\ N2 < NP + P
  <2>1. P \in Int /\ P >= 1
    BY <1>1, BytePowers
  <2> HIDE DEF k, b
  <2>2. N \in Int /\ N2 \in Int /\ NP <= N2 /\ N2 < NP + P
    BY <1>4, FurtherBytes
  <2> QED BY <2>1, <2>2
<1>7. F \in Int
  BY FourBytes
<1>8. v \in Int /\ uF \in Int /\ wP \in Int /\ vP \in Int /\ NP \in Int
  <2>1. v \in Int
    BY <1>1, <1>3
  <2> HIDE DEF v, F, P, u, N, wide
  <2> QED BY <1>1, <1>3, <1>6, <1>7, <2>1
<1>9. vP <= N2 /\ N2 < vP + uF
  BY <1>2, <1>4, <1>5
<1> HIDE DEF uF, tF, wP, vP, NP, N, N2, P, wide, p
<1>10. vP < NP + P /\ NP < vP + wP
  BY <1>1, <1>6, <1>8, <1>9
<1> HIDE DEF v
<1>11. v <= N
  <2>1. NP + P = (N + 1) * P
    BY <1>6 DEF NP
  <2>2. v * P < (N + 1) * P /\ N + 1 \in Int
    BY <1>6, <1>10, <2>1 DEF vP
  <2>3. v < N + 1
    BY <1>6, <1>8, <2>2, Monotone
  <2> QED BY <1>6, <1>8, <2>3
<1>12. N < v + wide
  <2>1. vP + wP = (v + wide) * P
    BY <1>1, <1>6, <1>8 DEF vP, wP
  <2>2. N * P < (v + wide) * P /\ v + wide \in Int
    BY <1>1, <1>8, <1>10, <2>1 DEF NP
  <2> QED BY <1>6, <2>2, Monotone
<1>13. t.low <= N /\ N < t.low + tF
  BY <1>1, <1>3, <1>6, <1>11, <1>12 DEF v
<1> QED BY <1>11, <1>12, <1>13 DEF WithinSymbol, Within, v, p, wide, N, tF

\* The entries of a table rise.
LEMMA TablesRise ==
  ASSUME NEW table \in Tables
  PROVE  /\ Last(table) \in Nat \ {0} /\ table.middle \in 0 .. Last(table)
         /\ \A i \in 0 .. Last(table) : table.prob[i] \in Int
         /\ \A i, j \in 0 .. Last(table) : i <= j => table.prob[i] <= table.prob[j]
<1> DEFINE n == Last(table)
           f == table.prob
           S == {j \in Nat : j <= n => \A i \in 0 .. j : f[i] <= f[j]}
<1>1. /\ n \in Nat \ {0} /\ table.middle \in 0 .. n
      /\ \A i \in 0 .. n : f[i] \in Int
      /\ \A i \in 1 .. n : f[i - 1] < f[i]
  <2>1. IsTable(table) /\ Pow[2] \in Int
    BY CoderAssumption, FourBytes
  <2> QED BY <2>1 DEF IsTable
<1> HIDE DEF n, f
<1>2. 0 \in S
  BY <1>1
<1>3. ASSUME NEW j \in Nat, j \in S PROVE j + 1 \in S
  <2> SUFFICES ASSUME j + 1 <= n, NEW i \in 0 .. j + 1 PROVE f[i] <= f[j + 1]
    OBVIOUS
  <2>1. j + 1 \in 1 .. n /\ (j + 1) - 1 = j /\ j \in 0 .. n /\ j + 1 \in 0 .. n /\ i \in 0 .. n
    BY <1>1
  <2>2. f[j] < f[j + 1] /\ f[j] \in Int /\ f[j + 1] \in Int /\ f[i] \in Int
    BY <1>1, <2>1
  <2>3. CASE i = j + 1
    BY <2>2, <2>3
  <2>4. CASE i # j + 1
    <3>1. i \in 0 .. j /\ j <= n
      BY <1>1, <2>4
    <3>2. f[i] <= f[j]
      BY <1>3, <3>1
    <3> QED BY <2>2, <3>2
  <2> QED BY <2>3, <2>4
<1> HIDE DEF S
<1>4. \A j \in Nat : j \in S
  BY <1>2, <1>3, Induction
<1>5. \A i, j \in 0 .. n : i <= j => f[i] <= f[j]
  <2> SUFFICES ASSUME NEW i \in 0 .. n, NEW j \in 0 .. n, i <= j PROVE f[i] <= f[j]
    OBVIOUS
  <2>1. j \in Nat /\ j <= n /\ i \in 0 .. j
    BY <1>1
  <2> QED BY <1>4, <2>1 DEF S
<1> QED BY <1>1, <1>5 DEF n, f

\* The search ends at the symbol.
LEMMA FoundIs ==
  ASSUME NEW t, IsInterval(t), NEW s \in Symbols, NEW r, r.range = t.range, r.base \in Int,
         Offset(t, s) <= r.base, r.base < Offset(t, s) + Wide(t, s)
  PROVE  Found(r, s.table) = {s.data}
<1> DEFINE table == s.table
           f == table.prob
           n == Last(table)
           e == s.data
           z == t.range
           At(i) == z * f[i]
           x == r.base
           c == table.middle
           downs == {i \in 0 .. c - 1 : At(i) <= x}
           ups == {i \in c + 1 .. n : At(i) > x}
<1>1. table \in Tables /\ e \in Nat /\ e < n
  BY DEF Symbols
<1>2. /\ n \in Nat \ {0} /\ c \in 0 .. n /\ \A i \in 0 .. n : f[i] \in Int
      /\ \A i, j \in 0 .. n : i <= j => f[i] <= f[j]
  <2> HIDE DEF table
  <2> QED BY <1>1, TablesRise
<1>3. z \in Int /\ z > 0 /\ x \in Int
  BY BytePowers DEF IsInterval
<1>4. At(e) <= x /\ x < At(e + 1)
  <2>1. At(e + 1) = Offset(t, s) + Wide(t, s)
    BY NarrowedIs
  <2>2. At(e) = Offset(t, s)
    BY DEF Offset
  <2> QED BY <2>1, <2>2
<1>5. Found(r, table) =
        IF At(c) > x THEN {Max(downs)} ELSE IF ups = {} THEN {} ELSE {Min(ups) - 1}
  BY DEF Found
<1>6. \A i \in 0 .. n : At(i) \in Int
  <2> HIDE DEF f, z
  <2> QED BY <1>2, <1>3
<1>7. \A i, j \in 0 .. n : i <= j => At(i) <= At(j)
  <2> HIDE DEF f, z
  <2> QED BY <1>2, <1>3, WeaklyMonotone
<1>8. e \in 0 .. n /\ e + 1 \in 0 .. n
  BY <1>1, <1>2
<1> HIDE DEF At, n, e, x, c, f, z
<1>9. \A i \in 0 .. n : At(i) <= x <=> i <= e
  <2> TAKE i \in 0 .. n
  <2>1. i <= e => At(i) <= x
    BY <1>3, <1>4, <1>6, <1>7, <1>8
  <2>2. ~(i <= e) => ~(At(i) <= x)
    <3>1. ~(i <= e) => e + 1 <= i
      BY <1>1, <1>2
    <3> QED BY <1>3, <1>4, <1>6, <1>7, <1>8, <3>1
  <2> QED BY <2>1, <2>2
<1>10. CASE At(c) > x
  <2>1. ~(c <= e)
    BY <1>2, <1>3, <1>6, <1>9, <1>10
  <2>2. e \in 0 .. c - 1 /\ \A i \in 0 .. c - 1 : i \in 0 .. n
    BY <1>1, <1>2, <2>1
  <2>3. e \in downs /\ \A i \in downs : i <= e
    BY <1>9, <1>8, <2>2
  <2>4. downs \subseteq Nat /\ downs # {}
    BY <1>2, <2>3
  <2> DEFINE D == downs
  <2>5. e \in D /\ D \subseteq Nat /\ D # {} /\ e \in Int /\ \A i \in D : i <= e
    BY <1>1, <2>3, <2>4
  <2> HIDE DEF D
  <2>6. Max(D) \in D /\ \A i \in D : i <= Max(D)
    BY <2>5, MaxIs
  <2>7. Max(D) = e
    <3> DEFINE g == Max(D)
    <3>1. g \in Nat /\ g <= e /\ e <= g
      BY <2>5, <2>6
    <3> HIDE DEF g
    <3>2. g = e
      BY <2>5, <3>1
    <3> QED BY <3>2 DEF g
  <2> QED BY <1>5, <1>10, <2>7 DEF D, e
<1>11. CASE ~(At(c) > x)
  <2>1. c <= e
    BY <1>2, <1>3, <1>6, <1>9, <1>11
  <2>2. e + 1 \in c + 1 .. n /\ \A i \in c + 1 .. n : i \in 0 .. n /\ i \in Nat
    BY <1>1, <1>2, <2>1
  <2>3. e + 1 \in ups /\ \A i \in ups : i \in Nat /\ e + 1 <= i
    <3>1. \A i \in c + 1 .. n : At(i) > x <=> e + 1 <= i
      BY <1>1, <1>2, <1>3, <1>6, <1>9, <2>2
    <3>2. e + 1 <= e + 1
      BY <1>1
    <3> QED BY <2>2, <3>1, <3>2
  <2> DEFINE U == ups
  <2>4. e + 1 \in U /\ U \subseteq Nat /\ U # {} /\ \A i \in U : e + 1 <= i
    BY <2>3
  <2> HIDE DEF U
  <2>5. Min(U) \in U /\ \A i \in U : Min(U) <= i
    BY <2>4, MinIs
  <2>6. Min(U) = e + 1
    <3> DEFINE g == Min(U)
    <3>1. g \in Nat /\ g <= e + 1 /\ e + 1 <= g
      BY <2>4, <2>5
    <3> HIDE DEF g
    <3>2. g = e + 1
      BY <1>1, <3>1
    <3> QED BY <3>2 DEF g
  <2>7. Min(U) - 1 = e
    BY <1>1, <2>6
  <2> QED BY <1>5, <1>11, <2>4, <2>7 DEF U, e
<1> QED BY <1>10, <1>11

\* What is shifted in are the next bytes.
LEMMA ShiftedInIs ==
  ASSUME NEW r, NEW base, NEW b \in {0, 1, 2},
         NEW m \in [Memory -> Digits], r.buffer = m, r.ix \in Nat, r.length \in Int,
         r.ix + b <= r.length
  PROVE  ShiftedIn(r, base, b) =
           IF b = 0 THEN base ELSE IF b = 1 THEN base * Byte + m[r.ix + 4]
           ELSE (base * Byte + m[r.ix + 4]) * Byte + m[(r.ix + 4) + 1]
<1> DEFINE digit(i) == IF r.ix + i - 1 < r.length THEN r.buffer[4 + r.ix + i - 1] ELSE 0
           Solves(f) == f = [i \in 0 .. b |-> IF i = 0 THEN base ELSE f[i - 1] * Byte + digit(i)]
           first == base * Byte + digit(1)
           second == first * Byte + digit(2)
           g == [i \in 0 .. b |-> IF i = 0 THEN base ELSE IF i = 1 THEN first ELSE second]
           h == CHOOSE f : Solves(f)
<1>1. ShiftedIn(r, base, b) = h[b]
  BY DEF ShiftedIn
<1> HIDE DEF digit
<1>2. Solves(g)
  <2>1. ASSUME NEW i \in 0 .. b PROVE g[i] = IF i = 0 THEN base ELSE g[i - 1] * Byte + digit(i)
    <3>1. CASE i = 0
      BY <3>1
    <3>2. CASE i = 1
      <4>1. i - 1 = 0 /\ 0 \in 0 .. b
        BY <3>2
      <4>2. g[i] = first /\ g[0] = base
        BY <3>2, <4>1
      <4> QED BY <3>2, <4>1, <4>2
    <3>3. CASE i = 2
      <4>1. i - 1 = 1 /\ 1 \in 0 .. b
        BY <3>3
      <4>2. g[i] = second /\ g[1] = first
        BY <3>3, <4>1
      <4> QED BY <3>3, <4>1, <4>2
    <3> QED BY <3>1, <3>2, <3>3
  <2> QED BY <2>1
<1> HIDE DEF g
<1>3. Solves(h)
  <2> HIDE DEF Solves
  <2> QED BY <1>2
<1> HIDE DEF h
<1>4. \A i \in 0 .. b : h[i] = IF i = 0 THEN base ELSE h[i - 1] * Byte + digit(i)
  BY <1>3
<1>5. h[0] = base
  <2>1. 0 \in 0 .. b
    OBVIOUS
  <2> HIDE DEF Solves
  <2> QED BY <1>4, <2>1
<1>6. b >= 1 => h[1] = base * Byte + digit(1)
  <2>1. b >= 1 => 1 \in 0 .. b /\ 1 - 1 = 0
    OBVIOUS
  <2> HIDE DEF Solves
  <2> QED BY <1>4, <1>5, <2>1
<1>7. b = 2 => h[2] = (base * Byte + digit(1)) * Byte + digit(2)
  <2>1. b = 2 => 2 \in 0 .. b /\ 2 - 1 = 1 /\ b >= 1
    OBVIOUS
  <2> HIDE DEF Solves
  <2> QED BY <1>4, <1>6, <2>1
<1>8. b >= 1 => digit(1) = m[r.ix + 4]
  <2>1. b >= 1 => r.ix + 1 - 1 < r.length /\ 4 + r.ix + 1 - 1 = r.ix + 4
    OBVIOUS
  <2> QED BY <2>1 DEF digit
<1>9. b = 2 => digit(2) = m[(r.ix + 4) + 1]
  <2>1. b = 2 => r.ix + 2 - 1 < r.length /\ 4 + r.ix + 2 - 1 = (r.ix + 4) + 1
    OBVIOUS
  <2> QED BY <2>1 DEF digit
<1>10. b = 0 \/ b = 1 \/ b = 2
  OBVIOUS
<1> HIDE DEF Solves
<1> QED BY <1>1, <1>5, <1>6, <1>7, <1>8, <1>9, <1>10

\* The decoder's state after the symbols that lead to an interval.
Reads(r, m, t, n) ==
  /\ r \in Coder /\ r.buffer = m /\ r.length = n /\ r.error = FALSE
  /\ r.range = t.range /\ r.ix = t.ix
  /\ r.base = Number(m)[t.ix + 4] - t.low

\* The decoder returns the symbol and keeps to the interval.
LEMMA DecoderIs ==
  ASSUME NEW t, IsInterval(t), NEW s \in Symbols, NEW m \in [Memory -> Digits],
         NEW n \in 0 .. MaxBytes, NEW r, Reads(r, m, t, n), WithinSymbol(m, t, s),
         Narrowed(t, s).ix <= n
  PROVE  /\ range_decoder(r, s.table).data = s.data
         /\ Reads(range_decoder(r, s.table).rc, m, Narrowed(t, s), n)
<1> DEFINE p == Offset(t, s)
           wide == Wide(t, s)
           b == Widening(t, s)
           u == Narrowed(t, s)
           k == t.ix + 4
           N == Number(m)[k]
           y == Byte
           x == r.base
           base == x - p
           d == range_decoder(r, s.table)
           more == ShiftedIn(r, base, b)
           next == [r EXCEPT !.base = more, !.range = Normalized(wide), !.ix = u.ix]
<1>1. /\ p \in Int /\ 0 <= p /\ wide \in Int
      /\ b \in {0, 1, 2} /\ (b = 1 => wide < Pow[3]) /\ (b = 2 => wide < Pow[2]) /\ IsInterval(u)
  BY NarrowedIs
<1>2. /\ r \in Coder /\ r.buffer = m /\ r.length = n /\ r.error = FALSE
      /\ r.range = t.range /\ r.ix = t.ix /\ x = N - t.low
  BY DEF Reads
<1>3. t.low \in Int /\ t.ix \in Nat /\ k \in Nat
  BY DEF IsInterval
<1>4. u.low = (t.low + p) * Pow[b] /\ u.ix = t.ix + b /\ u.range = Normalized(wide)
  BY DEF Narrowed
<1>5. Normalized(wide) \in Int /\ Byte <= Normalized(wide)
  <2> HIDE DEF wide, u
  <2>1. u.range \in Int /\ Byte <= u.range
    BY <1>1 DEF IsInterval
  <2> QED BY <1>4, <2>1
<1>6. N \in Int
  <2> HIDE DEF k
  <2> QED BY <1>3, NumberIs
<1>7. t.low + p <= N /\ N < (t.low + p) + wide
  BY DEF WithinSymbol
<1>8. x \in Int /\ p <= x /\ x < p + wide /\ base \in Int /\ 0 <= base /\ base < wide
  <2> HIDE DEF p, wide, N, x
  <2> QED BY <1>1, <1>2, <1>3, <1>6, <1>7
<1>9. Found(r, s.table) = {s.data}
  BY <1>2, <1>8, FoundIs
<1>10. Max({s.data}) = s.data
  <2>1. s.data \in Int /\ {s.data, s.data} = {s.data}
    BY EntriesRise
  <2>2. Max({s.data, s.data}) = s.data
    BY <2>1, OfTwo
  <2> QED BY <2>1, <2>2
<1>11. d = IF (b > 0 /\ base >= Pow[4 - b]) \/ Normalized(wide) = 0 THEN Failed(r)
           ELSE [rc |-> [r EXCEPT !.base = ShiftedIn(r, base, b), !.range = Normalized(wide),
                                  !.ix = Min({@ + b, Max({@, r.length})})],
                 data |-> s.data]
  <2>1. Found(r, s.table) # {}
    BY <1>9
  <2>2. r.range = t.range
    BY <1>2
  <2> QED BY <1>2, <1>9, <1>10, <2>1 DEF range_decoder, Wide, Offset, Widening
<1>12. ~(b > 0 /\ base >= Pow[4 - b]) /\ Normalized(wide) # 0
  <2>1. Normalized(wide) # 0
    BY <1>5, BytePowers
  <2>2. b = 1 => ~(base >= Pow[4 - b])
    <3>1. Pow[3] \in Int
      BY FourBytes
    <3> HIDE DEF base, wide
    <3> QED BY <1>1, <1>8, <3>1
  <2>3. b = 2 => ~(base >= Pow[4 - b])
    <3>1. Pow[2] \in Int
      BY FourBytes
    <3> HIDE DEF base, wide
    <3> QED BY <1>1, <1>8, <3>1
  <2> HIDE DEF base, b
  <2> QED BY <1>1, <2>1, <2>2, <2>3
<1>13. Min({r.ix + b, Max({r.ix, r.length})}) = u.ix
  <2> HIDE DEF b, u
  <2>1. n \in Int /\ r.ix \in Int /\ r.ix + b = u.ix /\ u.ix \in Int /\ u.ix <= n /\ r.ix <= n /\ r.length = n
    <3>1. u.ix <= n
      BY DEF u
    <3> QED BY <1>1, <1>2, <1>3, <1>4, <3>1, CoderAssumption
  <2>2. Max({r.ix, r.length}) = n
    BY <2>1, OfTwo
  <2>3. Min({u.ix, n}) = u.ix
    BY <2>1, OfTwo
  <2> QED BY <2>1, <2>2, <2>3
<1>14. d = [rc |-> next, data |-> s.data]
  <2> HIDE DEF d, base, b, u, wide
  <2>1. d = [rc |-> [r EXCEPT !.base = ShiftedIn(r, base, b), !.range = Normalized(wide),
                              !.ix = Min({@ + b, Max({@, r.length})})],
             data |-> s.data]
    BY <1>11, <1>12
  <2> QED BY <1>2, <1>13, <2>1 DEF Coder
<1> HIDE DEF d, u, p, wide, b, k, N, x, base
<1>15. more = IF b = 0 THEN base ELSE IF b = 1 THEN base * Byte + m[k]
              ELSE (base * Byte + m[k]) * Byte + m[k + 1]
  <2>1. r.ix + b <= r.length /\ r.length \in Int /\ r.ix \in Nat /\ r.ix + 4 = k
    <3>1. u.ix <= n
      BY DEF u
    <3> QED BY <1>1, <1>2, <1>3, <1>4, <3>1, CoderAssumption DEF k
  <2>2. ShiftedIn(r, base, b) = IF b = 0 THEN base ELSE IF b = 1 THEN base * Byte + m[r.ix + 4]
              ELSE (base * Byte + m[r.ix + 4]) * Byte + m[(r.ix + 4) + 1]
    BY <1>1, <1>2, <2>1, ShiftedInIs
  <2> HIDE DEF more
  <2> QED BY <2>1, <2>2 DEF more
<1>16. /\ y \in Int /\ Pow[0] = 1 /\ Pow[1] = y /\ Pow[2] = y * y
       /\ Number(m)[k + 0] = N
       /\ b >= 1 => Number(m)[k + 1] = N * y + m[k] /\ m[k] \in Int
       /\ b = 2 => Number(m)[k + 2] = (N * y + m[k]) * y + m[k + 1] /\ m[k + 1] \in Int
  <2>1. \A i \in Memory : m[i] \in Int /\ Number(m)[i + 1] = Number(m)[i] * y + m[i]
    BY NumberIs
  <2>2. k + 0 = k /\ (k + 1) + 1 = k + 2
    BY <1>3
  <2>3. u.ix <= n /\ n <= MaxBytes /\ MaxBytes \in Nat /\ n \in Int
    BY CoderAssumption DEF u
  <2>4. b >= 1 => k \in Memory
    BY <1>1, <1>3, <1>4, <2>3 DEF Memory, k
  <2>5. b = 2 => k + 1 \in Memory /\ k \in Memory
    BY <1>1, <1>3, <1>4, <2>3 DEF Memory, k
  <2>6. b >= 1 => Number(m)[k + 1] = N * y + m[k] /\ m[k] \in Int
    <3> HIDE DEF y
    <3> QED BY <2>1, <2>4 DEF N
  <2>7. b = 2 => Number(m)[k + 2] = (N * y + m[k]) * y + m[k + 1] /\ m[k + 1] \in Int
    <3> HIDE DEF y
    <3> QED BY <2>1, <2>2, <2>5, <2>6
  <2> HIDE DEF y
  <2>8. y \in Int /\ Pow[0] = 1 /\ Pow[1] = y /\ Pow[2] = y * y
    BY FourBytes DEF y
  <2> QED BY <2>2, <2>6, <2>7, <2>8 DEF N
<1> HIDE DEF more, y
<1>17. more \in Int /\ more = Number(m)[k + b] - u.low
  <2> DEFINE v == t.low + p
  <2>1. v \in Int /\ base = N - v
    BY <1>1, <1>2, <1>3, <1>6 DEF base
  <2> HIDE DEF v
  <2>2. u.low = v * Pow[b]
    BY <1>4 DEF v
  <2>3. CASE b = 0
    <3>1. v * 1 = v
      BY <2>1
    <3>2. more = base /\ u.low = v /\ Number(m)[k + b] = N
      BY <1>15, <1>16, <2>2, <2>3, <3>1
    <3> QED BY <1>8, <2>1, <3>2
  <2>4. CASE b = 1
    <3>1. more = base * y + m[k] /\ u.low = v * y /\ Number(m)[k + b] = N * y + m[k] /\ m[k] \in Int
      BY <1>15, <1>16, <2>2, <2>4 DEF y
    <3>2. base * y = N * y - v * y /\ N * y \in Int /\ v * y \in Int
      BY <1>6, <1>16, <2>1
    <3> DEFINE Ny == N * y
               vy == v * y
               by == base * y
               q == Number(m)[k + b]
               dg == m[k]
    <3>3. by = Ny - vy /\ Ny \in Int /\ vy \in Int /\ dg \in Int /\ more = by + dg /\ q = Ny + dg /\ u.low = vy
      BY <3>1, <3>2
    <3> HIDE DEF Ny, vy, by, q, dg
    <3>4. more \in Int /\ more = q - u.low
      BY <3>3
    <3> QED BY <3>4 DEF q
  <2>5. CASE b = 2
    <3> DEFINE e1 == m[k]
               e2 == m[k + 1]
               q == Number(m)[k + b]
               vyy == v * (y * y)
    <3>1. /\ more = (base * y + e1) * y + e2 /\ u.low = vyy
          /\ q = (N * y + e1) * y + e2 /\ e1 \in Int /\ e2 \in Int
      BY <1>15, <1>16, <2>2, <2>5 DEF y
    <3> HIDE DEF e1, e2, q
    <3>2. \A g, h, i, j \in Int : ((g - h) * i + j) * i = (g * i + j) * i - h * (i * i)
      OBVIOUS
    <3>3. (base * y + e1) * y = (N * y + e1) * y - vyy
      BY <1>6, <1>16, <2>1, <3>1, <3>2
    <3> DEFINE big == (N * y + e1) * y
    <3>4. big \in Int /\ vyy \in Int
      BY <1>6, <1>16, <2>1, <3>1
    <3>5. more = (big - vyy) + e2 /\ q = big + e2 /\ u.low = vyy
      BY <3>1, <3>3
    <3> HIDE DEF big, vyy
    <3>6. more \in Int /\ more = q - u.low
      BY <3>1, <3>4, <3>5
    <3> QED BY <3>6 DEF q
  <2> QED BY <1>1, <2>3, <2>4, <2>5
<1>18. u.ix + 4 = k + b /\ u.ix \in Int
  BY <1>1, <1>3, <1>4 DEF k
<1>19. next \in Coder
  BY <1>2, <1>5, <1>17, <1>18 DEF Coder
<1>20. /\ next.buffer = m /\ next.length = n /\ next.error = FALSE
       /\ next.range = u.range /\ next.ix = u.ix /\ next.base = more
  BY <1>2, <1>4 DEF Coder
<1> HIDE DEF next
<1>21. Reads(next, m, u, n)
  BY <1>17, <1>18, <1>19, <1>20 DEF Reads
<1> QED BY <1>14, <1>21 DEF d, u

\* How the last byte of a packet ends.
Ended(m, n, t) ==
  /\ n = BytesOf(range_coder_get_length(t))
  /\ range_coder_get_length(t) % B # 0
     => m[n - 1] = Filled(m[n - 1], range_coder_get_length(t) % B)

\* The check after the last symbol passes.
LEMMA CheckIs ==
  ASSUME NEW m, NEW n \in Int, NEW t, NEW r, Reads(r, m, t, n), Ended(m, n, t)
  PROVE  range_coder_check_after_decoding(r) = r
<1>1. r \in Coder /\ r.buffer = m /\ r.length = n /\ r.error = FALSE /\ r.range = t.range /\ r.ix = t.ix
  BY DEF Reads
<1>2. range_coder_get_length(r) = range_coder_get_length(t)
  BY <1>1 DEF range_coder_get_length, ExtraBits
<1> DEFINE bits == range_coder_get_length(r)
           last == BytesOf(bits) - 1
           wrong == \/ last >= r.length
                    \/ bits % B # 0 /\ r.buffer[last] # Filled(r.buffer[last], bits % B)
<1>3. range_coder_check_after_decoding(r) = [r EXCEPT !.error = wrong]
  BY DEF range_coder_check_after_decoding
<1>4. BytesOf(bits) = n /\ last = n - 1
  BY <1>2 DEF Ended
<1>5. wrong = FALSE
  <2> HIDE DEF bits
  <2>1. ~(last >= r.length)
    BY <1>1, <1>4
  <2>2. bits % B # 0 => r.buffer[last] = Filled(r.buffer[last], bits % B)
    BY <1>1, <1>2, <1>4 DEF Ended, bits
  <2> HIDE DEF last
  <2> QED BY <2>1, <2>2
<1> HIDE DEF wrong
<1> QED BY <1>1, <1>3, <1>5 DEF Coder

-----------------------------------------------------------------------------
(* The wrap-up: the bits that settle the interval.                         *)

\* The powers of a byte are powers of two.
LEMMA BytesAreBits ==
  /\ B \in Nat /\ B >= 2 /\ Pow[0] = Pow2[0] /\ Pow[1] = Pow2[B] /\ Pow[2] = Pow2[2 * B]
  /\ Pow[3] = Pow2[3 * B]
<1>1. B \in Nat /\ B >= 2 /\ 2 * B \in Nat /\ B + B = 2 * B /\ B + 2 * B = 3 * B
  BY CoderAssumption
<1>2. Pow2[B + B] = Pow2[B] * Pow2[B] /\ Pow2[B + 2 * B] = Pow2[B] * Pow2[2 * B]
  BY <1>1, PowersAdd
<1>3. Byte = Pow2[B]
  BY DEF Byte
<1>4. Pow[2] = Pow2[2 * B]
  BY <1>1, <1>2, <1>3, FourBytes
<1>5. Pow[3] = Pow2[3 * B]
  BY <1>1, <1>2, <1>3, <1>4, FourBytes
<1> QED BY <1>1, <1>3, <1>4, <1>5, FourBytes, PowersDouble

\* The bits of a number of one byte or two.
LEMMA BitLengthIs ==
  ASSUME NEW n \in Int, Byte - 1 <= n, n < Pow[2]
  PROVE  LET k == BitLength(n) IN k \in Nat /\ B <= k /\ k <= 2 * B /\ Pow2[k - 1] <= n
<1>1. /\ B \in Nat /\ B >= 2 /\ Byte = Pow2[B] /\ Pow[2] = Pow2[2 * B] /\ 2 * B \in Nat
      /\ Byte \in Int /\ Byte >= 4
  BY BytesAreBits, FourBytes
<1>2. \A i \in Nat : Pow2[i] \in Nat
  BY PowersDouble
<1> DEFINE S == {i \in Nat : n < Pow2[i]}
           T == 1 .. 2 * B
           Is(k) == Pow2[k - 1] <= n /\ n < Pow2[k]
           k == CHOOSE i \in T : Is(i)
<1>3. PICK i \in S : \A j \in S : i <= j
  <2>1. S \subseteq Nat /\ S # {}
    BY <1>1
  <2> HIDE DEF S
  <2> QED BY <2>1, LeastIs
<1>4. i \in Nat /\ n < Pow2[i] /\ i <= 2 * B /\ i # 0
  <2>1. 2 * B \in S
    BY <1>1
  <2>2. Pow2[0] = 1
    BY PowersDouble
  <2> QED BY <1>1, <1>3, <2>1, <2>2
<1>5. i \in T /\ Is(i)
  <2>1. i - 1 \in Nat /\ ~(i <= i - 1)
    BY <1>4
  <2>2. i - 1 \notin S
    BY <1>3, <2>1
  <2>3. Pow2[i - 1] <= n
    BY <1>2, <2>1, <2>2
  <2> QED BY <1>1, <1>4, <2>3
<1> HIDE DEF Is, T
<1>6. k \in T /\ Is(k)
  BY <1>5
<1>7. BitLength(n) = k
  <2>1. n # 0
    BY <1>1
  <2> QED BY <2>1 DEF BitLength, Is, T
<1> HIDE DEF k
<1>8. k \in Nat /\ k >= 1 /\ k <= 2 * B /\ Pow2[k - 1] <= n /\ n < Pow2[k]
  BY <1>1, <1>6 DEF Is, T
<1>9. B <= k
  <2> SUFFICES ASSUME k < B PROVE FALSE
    BY <1>1, <1>8
  <2>1. 2 * Pow2[k] <= Pow2[B] /\ Pow2[k] \in Nat /\ Pow2[k] >= 1
    BY <1>1, <1>8, PowersGrow
  <2> QED BY <1>1, <1>8, <2>1
<1> QED BY <1>7, <1>8, <1>9

\* The bits that are left over of the packet's bytes: it has c bytes more than are written, and
\* the last q bits of them are not used.
Ending(t, c, q) ==
  /\ c \in {1, 2} /\ q \in Nat /\ q <= B - 1
  /\ (IF ExtraBits(t) > B THEN 2 ELSE 1) = c
  /\ BytesOf(range_coder_get_length(t)) = t.ix + c
  /\ range_coder_get_length(t) % B = IF q = 0 THEN 0 ELSE B - q
  /\ Pow2[3 * B - ExtraBits(t)] = Pow2[q] * Pow[3 - c]
  /\ 2 * (Pow2[q] * Pow[4 - c]) <= t.range * Pow[2]

LEMMA EndingIs ==
  ASSUME NEW t, IsInterval(t)
  PROVE  \E c, q \in Nat : Ending(t, c, q)
<1> DEFINE k == BitLength(t.range - 1)
           E == ExtraBits(t)
           c == IF E > B THEN 2 ELSE 1
           q == c * B - E
           i == t.ix
           r == t.range
           F == Pow[2]
           bits == range_coder_get_length(t)
<1>1. /\ B \in Nat /\ B >= 2 /\ Pow[0] = Pow2[0] /\ Pow[1] = Pow2[B] /\ F = Pow2[2 * B] /\ Pow[3] = Pow2[3 * B]
      /\ Pow2[0] = 1
  BY BytesAreBits, PowersDouble
<1>2. i \in Nat /\ r \in Int /\ Byte <= r /\ r <= F - 1 /\ F \in Int /\ Byte \in Int /\ F >= 1
  BY FourBytes DEF IsInterval
<1>3. k \in Nat /\ B <= k /\ k <= 2 * B /\ Pow2[k - 1] <= r - 1
  <2>1. r - 1 \in Int /\ Byte - 1 <= r - 1 /\ r - 1 < F
    BY <1>2
  <2> HIDE DEF r
  <2> QED BY <2>1, BitLengthIs DEF r
<1>4. E = 2 * B + 2 - k /\ bits = B * i + E
  BY DEF ExtraBits, range_coder_get_length
<1> HIDE DEF E, k, bits, i, r, F
<1>5. E \in Int /\ 2 <= E /\ E <= B + 2 /\ E <= 2 * B
  BY <1>1, <1>3, <1>4
<1>6. c \in {1, 2} /\ q \in Nat /\ q <= B - 1
  BY <1>1, <1>5
<1>7. c * B = E + q /\ (c = 1 \/ c = 2)
  <2>1. c * B \in Int
    BY <1>1
  <2> DEFINE cB == c * B
  <2>2. cB \in Int /\ q = cB - E
    BY <2>1
  <2> HIDE DEF cB, q
  <2>3. cB = E + q
    BY <1>5, <2>2
  <2> QED BY <2>3 DEF cB
<1>8. (IF E > B THEN 2 ELSE 1) = c
  OBVIOUS
<1> HIDE DEF c, q
<1> DEFINE iB == B * i
           top == (i + c) * B
<1>9. iB \in Int /\ top \in Int /\ top = iB + c * B /\ c * B \in Int
  <2>1. \A g, h, j \in Int : (g + h) * j = j * g + h * j
    OBVIOUS
  <2> QED BY <1>1, <1>2, <1>6, <2>1
<1>10. bits = top - q
  <2> HIDE DEF iB, top
  <2> QED BY <1>4, <1>5, <1>6, <1>7, <1>9 DEF iB
<1>11. BytesOf(bits) = i + c
  <2> DEFINE x == bits + B - 1
  <2>1. x \in Int /\ top <= x /\ x < top + B /\ i + c \in Int
    <3>1. i + c \in Int
      BY <1>2, <1>6
    <3> HIDE DEF top
    <3> QED BY <1>1, <1>6, <1>9, <1>10, <3>1
  <2> DEFINE j == i + c
  <2> HIDE DEF x, j
  <2>2. x \div B = j
    <3>1. j \in Int /\ j * B <= x /\ x < j * B + B /\ B \in Int /\ B > 0
      BY <1>1, <2>1 DEF j
    <3> QED BY <2>1, <3>1, QuotientIs
  <2> QED BY <2>2 DEF BytesOf, x, j
<1>12. bits % B = IF q = 0 THEN 0 ELSE B - q
  <2>1. CASE q = 0
    <3>1. bits = (i + c) * B + 0 /\ bits \in Int /\ i + c \in Int
      BY <1>2, <1>6, <1>9, <1>10, <2>1
    <3> DEFINE j == i + c
    <3> HIDE DEF j
    <3>2. bits % B = 0
      <4> DEFINE rest == 0
      <4>1. /\ j \in Int /\ bits = j * B + rest /\ B \in Int /\ 0 < B /\ bits \in Int
            /\ rest \in Int /\ 0 <= rest /\ rest < B
        BY <1>1, <3>1 DEF j
      <4> HIDE DEF rest
      <4>2. bits % B = rest
        BY <4>1, RemainderIs
      <4> QED BY <4>2 DEF rest
    <3> QED BY <2>1, <3>2
  <2>2. CASE q # 0
    <3> DEFINE j == (i + c) - 1
               rest == B - q
    <3>1. j * B = top - B
      <4>1. \A g, h \in Int : (g - 1) * h = g * h - h
        OBVIOUS
      <4>2. i + c \in Int
        BY <1>2, <1>6
      <4> QED BY <1>1, <4>1, <4>2
    <3>2. j \in Int /\ rest \in Int /\ 0 <= rest /\ rest < B /\ bits \in Int
      <4> HIDE DEF top
      <4> QED BY <1>1, <1>2, <1>6, <1>9, <1>10, <2>2
    <3>3. bits = j * B + rest
      <4> DEFINE jB == j * B
      <4>1. jB = top - B
        BY <3>1
      <4> HIDE DEF jB, top, j
      <4>2. bits = jB + rest
        BY <1>1, <1>6, <1>9, <1>10, <4>1
      <4> QED BY <4>2 DEF jB
    <3> HIDE DEF j, rest
    <3>4. bits % B = rest
      BY <1>1, <3>2, <3>3, RemainderIs
    <3> QED BY <2>2, <3>4 DEF rest
  <2> QED BY <2>1, <2>2
<1>13. Pow2[3 * B - E] = Pow2[q] * Pow[3 - c] /\ Pow2[4 * B - E] = Pow2[q] * Pow[4 - c]
  <2>1. CASE c = 1
    <3>1. 3 * B - E = q + 2 * B /\ 4 * B - E = q + 3 * B /\ 2 * B \in Nat /\ 3 * B \in Nat
      BY <1>1, <1>5, <1>6, <1>7, <2>1
    <3>2. Pow2[q + 2 * B] = Pow2[q] * Pow2[2 * B] /\ Pow2[q + 3 * B] = Pow2[q] * Pow2[3 * B]
      BY <1>6, <3>1, PowersAdd
    <3> QED BY <1>1, <2>1, <3>1, <3>2 DEF F
  <2>2. CASE c = 2
    <3>1. 3 * B - E = q + B /\ 4 * B - E = q + 2 * B /\ 2 * B \in Nat
      BY <1>1, <1>5, <1>6, <1>7, <2>2
    <3>2. Pow2[q + 2 * B] = Pow2[q] * Pow2[2 * B] /\ Pow2[q + B] = Pow2[q] * Pow2[B]
      BY <1>1, <1>6, <3>1, PowersAdd
    <3> QED BY <1>1, <2>2, <3>1, <3>2 DEF F
  <2> QED BY <1>7, <2>1, <2>2
<1>14. 2 * (Pow2[q] * Pow[4 - c]) <= r * F
  <2>1. 4 * B - E \in Nat /\ (4 * B - E) + 1 = (k - 1) + 2 * B /\ k - 1 \in Nat /\ 2 * B \in Nat
    BY <1>1, <1>3, <1>4, <1>5
  <2>2. Pow2[(4 * B - E) + 1] = 2 * Pow2[4 * B - E]
    BY <2>1, PowersDouble
  <2>3. Pow2[(k - 1) + 2 * B] = Pow2[k - 1] * Pow2[2 * B]
    BY <2>1, PowersAdd
  <2>4. 2 * Pow2[4 * B - E] = Pow2[k - 1] * F
    BY <1>1, <2>1, <2>2, <2>3
  <2>5. Pow2[k - 1] \in Int /\ Pow2[k - 1] <= r /\ F >= 0
    BY <1>2, <1>3, <2>1, PowersDouble
  <2>6. Pow2[k - 1] * F <= r * F
    BY <1>2, <2>5, WeaklyMonotone
  <2> QED BY <1>13, <2>4, <2>6
<1>15. Ending(t, c, q)
  BY <1>6, <1>8, <1>11, <1>12, <1>13, <1>14 DEF Ending, E, bits, i, r, F
<1>16. c \in Nat /\ q \in Nat
  BY <1>6
<1> QED BY <1>15, <1>16

\* What is filled up with ones ends in them, and is not changed by it again.
LEMMA FilledIs ==
  ASSUME NEW q \in Nat, q <= B - 1, NEW x \in Digits, NEW e \in Int, x = e * Pow2[q]
  PROVE  /\ x + (Pow2[q] - 1) \in Digits
         /\ Filled(x, B - q) = x + (Pow2[q] - 1)
         /\ Filled(x + (Pow2[q] - 1), B - q) = x + (Pow2[q] - 1)
<1> DEFINE U == Pow2[q]
           V == Pow2[B - q]
           y == Byte
<1>1. B - q \in Nat /\ B - (B - q) = q /\ (B - q) + q = B
  BY CoderAssumption
<1>2. U \in Int /\ U >= 1 /\ V \in Int /\ y = V * U /\ y \in Int
  <2>1. Pow2[(B - q) + q] = Pow2[B - q] * Pow2[q]
    BY <1>1, PowersAdd
  <2>2. Pow2[q] \in Int /\ Pow2[q] >= 1 /\ Pow2[B - q] \in Int
    BY <1>1, PowersDouble
  <2> QED BY <1>1, <2>1, <2>2 DEF Byte
<1>3. \A z \in Int : Filled(z, B - q) = (z \div U) * U + U - 1
  BY <1>1 DEF Filled
<1>4. x \in Int /\ 0 <= x /\ x < y /\ x = e * U
  BY <1>2 DEF Digits
<1> HIDE DEF U, V, y
<1>5. x + U <= y
  <2>1. e < V
    BY <1>2, <1>4, Monotone
  <2>2. e + 1 \in Int /\ e + 1 <= V
    BY <1>2, <2>1
  <2>3. (e + 1) * U <= V * U
    BY <1>2, <2>2, WeaklyMonotone
  <2>4. (e + 1) * U = e * U + U
    BY <1>2
  <2> QED BY <1>2, <1>4, <2>3, <2>4
<1> DEFINE z == x + (U - 1)
           eU == e * U
<1>6. z \in Int /\ 0 <= z /\ z < y /\ eU \in Int /\ x = eU
  BY <1>2, <1>4, <1>5
<1>7. eU <= x /\ x < eU + U /\ eU <= z /\ z < eU + U
  <2> HIDE DEF eU
  <2> QED BY <1>2, <1>4, <1>6
<1> HIDE DEF z
<1>8. x \div U = e /\ z \div U = e
  BY <1>2, <1>4, <1>6, <1>7, QuotientIs
<1>9. Filled(x, B - q) = eU + U - 1 /\ Filled(z, B - q) = eU + U - 1
  BY <1>3, <1>4, <1>6, <1>8
<1>10. eU + U - 1 = z
  <2> HIDE DEF eU
  <2> QED BY <1>2, <1>4, <1>6 DEF z
<1>11. Filled(x, B - q) = z /\ Filled(z, B - q) = z
  BY <1>9, <1>10
<1>12. z \in Digits
  BY <1>2, <1>6 DEF y, Digits
<1> QED BY <1>11, <1>12 DEF z, U

\* A multiple is a multiple in its last byte, too.
LEMMA LastByteIsMultiple ==
  ASSUME NEW q \in Nat, q <= B - 1, NEW j \in Int, NEW g \in Int, g = j * Pow2[q]
  PROVE  \E e \in Int : g % Byte = e * Pow2[q]
<1> DEFINE U == Pow2[q]
           V == Pow2[B - q]
           h == g \div Byte
           e == j - h * V
<1>1. B - q \in Nat /\ (B - q) + q = B
  BY CoderAssumption
<1>2. U \in Int /\ V \in Int /\ Byte = V * U /\ Byte \in Int /\ Byte > 0
  <2>1. Pow2[(B - q) + q] = Pow2[B - q] * Pow2[q]
    BY <1>1, PowersAdd
  <2>2. Pow2[q] \in Int /\ Pow2[B - q] \in Int
    BY <1>1, PowersDouble
  <2> QED BY <1>1, <2>1, <2>2, BytePowers DEF Byte
<1>3. h \in Int /\ g % Byte \in Int /\ g = h * Byte + (g % Byte)
  BY <1>2, Remainder
<1> HIDE DEF U, V, h
<1>4. e \in Int
  BY <1>2, <1>3
<1>5. e * U = j * U - h * Byte
  <2>1. \A i, k, l, m \in Int : (i - k * l) * m = i * m - k * (l * m)
    OBVIOUS
  <2> QED BY <1>2, <1>3, <2>1
<1>6. g % Byte = e * U
  <2> DEFINE r == g % Byte
             hB == h * Byte
             eU == e * U
  <2>1. r \in Int /\ hB \in Int /\ eU \in Int /\ g = hB + r /\ eU = g - hB
    BY <1>2, <1>3, <1>4, <1>5 DEF U
  <2> HIDE DEF r, hB, eU
  <2>2. r = eU
    BY <2>1
  <2> QED BY <2>2 DEF r, eU
<1> QED BY <1>4, <1>6 DEF U

\* The first byte of three, and what a number of them is beyond four bytes.
LEMMA FirstByteIs ==
  ASSUME NEW g \in Int, NEW base \in Int, base = g * Pow[2]
  PROVE  /\ (base \div Pow[2]) % Byte = g % Byte /\ g % Byte \in Digits
         /\ (base * Byte) % Pow[4] = (g % Byte) * Pow[3]
<1> DEFINE y == Byte
           F == Pow[2]
           G == Pow[3]
           H == Pow[4]
           h == g \div y
           d == g % y
<1>1. /\ y \in Int /\ y >= 4 /\ G = F * y /\ H = y * G
      /\ F \in Int /\ G \in Int /\ H \in Int /\ F >= 4 * y /\ G >= 4 * F /\ H >= 4 * G
  BY FourBytes
<1> HIDE DEF y, F, G, H
<1>2. h \in Int /\ d \in Int /\ g = h * y + d /\ 0 <= d /\ d < y
  BY <1>1, Remainder
<1>3. base \div F = g
  <2>1. g * F <= base /\ base < g * F + F
    BY <1>1 DEF F
  <2> QED BY <1>1, <2>1, QuotientIs
<1> HIDE DEF h, d
<1>4. (base * y) % H = d * G
  <2> DEFINE x == base * y
             r == d * G
  <2>1. x = h * H + r
    <3>1. \A i, j, k, l, m \in Int : ((i * j + k) * l) * j = i * (j * (l * j)) + k * (l * j)
      OBVIOUS
    <3>2. ((h * y + d) * F) * y = h * (y * (F * y)) + d * (F * y)
      BY <1>1, <1>2, <3>1
    <3>3. base = (h * y + d) * F
      BY <1>2 DEF F
    <3> QED BY <1>1, <3>2, <3>3
  <2>2. x \in Int /\ r \in Int /\ 0 <= r /\ r < H /\ H > 0
    <3>1. \A i, j, k \in Int : 0 <= i /\ i < j /\ k > 0 => 0 <= i * k /\ i * k < j * k
      OBVIOUS
    <3>2. x \in Int /\ r \in Int
      BY <1>1, <1>2
    <3> QED BY <1>1, <1>2, <3>1, <3>2
  <2> HIDE DEF x, r
  <2>3. x % H = r
    BY <1>1, <1>2, <2>1, <2>2, RemainderIs
  <2> QED BY <2>3 DEF x, r
<1>5. d \in Digits
  BY <1>1, <1>2 DEF Digits, y
<1> QED BY <1>3, <1>4, <1>5 DEF d, y, F, G, H

\* The first two bytes of three.
LEMMA FirstBytesAre ==
  ASSUME NEW g \in Int, NEW base \in Int, base = g * Byte
  PROVE  /\ (base \div Pow[2]) % Byte \in Digits
         /\ (base \div Byte) % Byte = g % Byte /\ g % Byte \in Digits
         /\ (base * Byte) % Pow[4] = (((base \div Pow[2]) % Byte) * Byte + (g % Byte)) * Pow[2]
<1> DEFINE y == Byte
           F == Pow[2]
           H == Pow[4]
           h == g \div y
           d == g % y
           top == h \div y
           a == h % y
<1>1. /\ y \in Int /\ y >= 4 /\ F = y * y /\ H = F * F
      /\ F \in Int /\ H \in Int /\ F >= 4 * y /\ H > 0
  BY FourBytes
<1> HIDE DEF y, F, H
<1>2. h \in Int /\ d \in Int /\ g = h * y + d /\ 0 <= d /\ d < y
  BY <1>1, Remainder
<1> HIDE DEF h, d
<1>3. top \in Int /\ a \in Int /\ h = top * y + a /\ 0 <= a /\ a < y
  BY <1>1, <1>2, Remainder
<1> HIDE DEF top, a
<1>4. base \div y = g
  <2>1. g * y <= base /\ base < g * y + y
    BY <1>1 DEF y
  <2> QED BY <1>1, <2>1, QuotientIs
<1>5. \A i, j, k \in Int : 0 <= i /\ i < j /\ k > 0 => 0 <= i * k /\ i * k < j * k
  OBVIOUS
<1>6. base = (h * y + d) * y
  BY <1>2 DEF y
<1>7. base \div F = h
  <2> DEFINE r == d * y
  <2>1. base = h * F + r
    <3>1. \A i, j, k \in Int : (i * j + k) * j = i * (j * j) + k * j
      OBVIOUS
    <3>2. (h * y + d) * y = h * (y * y) + d * y
      BY <1>1, <1>2, <3>1
    <3> QED BY <1>1, <1>6, <3>2
  <2>2. r \in Int /\ 0 <= r /\ r < F /\ F > 0
    <3>1. r \in Int
      BY <1>1, <1>2
    <3> QED BY <1>1, <1>2, <1>5, <3>1
  <2> HIDE DEF r
  <2> QED BY <1>1, <1>2, <2>1, <2>2, RemainderIs
<1> DEFINE z == a * y + d
<1>8. z \in Int /\ 0 <= z /\ z < F
  <2> DEFINE ay == a * y
             a1y == (a + 1) * y
  <2>1. ay \in Int /\ 0 <= ay
    <3>1. ay \in Int
      BY <1>1, <1>3
    <3> QED BY <1>1, <1>3, <1>5, <3>1
  <2>2. a1y <= y * y
    <3>1. a + 1 \in Int /\ a + 1 <= y /\ y >= 0
      BY <1>1, <1>3
    <3> QED BY <1>1, <3>1, WeaklyMonotone
  <2>3. a1y = ay + y
    BY <1>1, <1>3
  <2> HIDE DEF ay, a1y
  <2>4. z = ay + d
    BY DEF ay
  <2> HIDE DEF z
  <2> QED BY <1>1, <1>2, <2>1, <2>2, <2>3, <2>4
<1>9. (base * y) % H = z * F
  <2> DEFINE x == base * y
             r == z * F
  <2>1. x = top * H + r
    <3>1. h * y + d = top * F + z
      <4>1. \A i, j, k, l \in Int : (i * j + k) * j + l = i * (j * j) + (k * j + l)
        OBVIOUS
      <4>2. (top * y + a) * y + d = top * (y * y) + (a * y + d)
        BY <1>1, <1>2, <1>3, <4>1
      <4> QED BY <1>1, <1>3, <4>2
    <3> HIDE DEF z
    <3>2. \A i, j, k, l \in Int : ((i * j + k) * l) * l = (i * j + k) * (l * l)
      OBVIOUS
    <3>3. ((top * F + z) * y) * y = (top * F + z) * (y * y)
      BY <1>1, <1>3, <1>8, <3>2
    <3>4. (top * F + z) * F = top * (F * F) + z * F
      <4>1. \A i, j, k \in Int : (i * j + k) * j = i * (j * j) + k * j
        OBVIOUS
      <4> QED BY <1>1, <1>3, <1>8, <4>1
    <3>5. x = ((top * F + z) * y) * y
      BY <1>6, <3>1
    <3> HIDE DEF x
    <3> QED BY <1>1, <3>3, <3>4, <3>5
  <2>2. x \in Int /\ r \in Int /\ 0 <= r /\ r < H
    <3> HIDE DEF z
    <3>1. x \in Int /\ r \in Int
      BY <1>1, <1>8
    <3> QED BY <1>1, <1>5, <1>8, <3>1
  <2> HIDE DEF x, r, z
  <2>3. x % H = r
    BY <1>1, <1>3, <2>1, <2>2, RemainderIs
  <2> QED BY <2>3 DEF x, r
<1>10. d \in Digits /\ a \in Digits
  BY <1>1, <1>2, <1>3 DEF Digits, y
<1>11. (base \div F) % y = a
  BY <1>7 DEF a
<1>12. (base \div y) % y = d
  BY <1>4 DEF d
<1> QED BY <1>9, <1>10, <1>11, <1>12 DEF z, d, y, F, H

\* What is written settles the interval: whatever follows it, the number lies in it.
Settled(m, t, c) ==
  /\ t.low <= Number(m)[t.ix + c] * Pow[4 - c]
  /\ (Number(m)[t.ix + c] + 1) * Pow[4 - c] <= t.low + t.range * Pow[2]

WrappedUp(v, t, n) ==
  /\ v.wild = FALSE /\ v.buffer \in [Memory -> Digits] /\ Ended(v.buffer, n, t)
  /\ \E c \in {1, 2} : n = t.ix + c /\ Settled(v.buffer, t, c)

\* Where the wrap-up rounds the base up to, in the middle of the interval.
LEMMA RoundedUp ==
  ASSUME NEW t, IsInterval(t), NEW w, Writes(w, t), NEW c \in Nat, NEW q \in Nat, Ending(t, c, q)
  PROVE  LET unit == Pow2[q] * Pow[3 - c]
             j == (((w.base \div Byte) + unit) \div unit)
             sum == (j * unit) * Byte
             A == Pow2[q] * Pow[4 - c] IN
         /\ unit \in Int /\ unit > 0 /\ j \in Int /\ sum \in Int /\ A \in Int
         /\ w.base <= sum /\ sum <= w.base + A /\ 2 * A <= t.range * Pow[2]
<1> DEFINE y == Byte
           P == Pow[3 - c]
           U == Pow2[q]
           unit == U * P
           wb == w.base
           b24 == wb \div y
           x == b24 + unit
           j == x \div unit
           ju == j * unit
           sum == ju * y
           A == U * Pow[4 - c]
<1>1. y \in Int /\ y >= 4 /\ \A i \in Nat : Pow[i] \in Int /\ Pow[i] >= 1 /\ Pow[i + 1] = y * Pow[i]
  BY BytePowers
<1>2. c \in {1, 2} /\ 2 * A <= t.range * Pow[2]
  BY DEF Ending
<1>3. U \in Int /\ U >= 1
  BY PowersDouble
<1>4. 3 - c \in Nat /\ (3 - c) + 1 = 4 - c
  BY <1>2
<1>5. P \in Int /\ P >= 1 /\ Pow[4 - c] = y * P
  BY <1>1, <1>4
<1> HIDE DEF y, P, U
<1>6. unit \in Int /\ unit >= 1
  <2>1. \A g, h \in Int : g >= 1 /\ h >= 1 => g * h \in Int /\ g * h >= 1
    OBVIOUS
  <2> QED BY <1>3, <1>5, <2>1
<1>7. A = unit * y /\ A \in Int
  <2>1. \A g, h, i \in Int : g * (h * i) = (g * i) * h
    OBVIOUS
  <2>2. U * (y * P) = (U * P) * y
    BY <1>1, <1>3, <1>5, <2>1
  <2> HIDE DEF unit
  <2>3. unit * y \in Int
    BY <1>1, <1>6
  <2> QED BY <1>5, <2>2, <2>3 DEF unit
<1>8. wb \in Int
  BY DEF Writes
<1> HIDE DEF wb
<1>9. b24 \in Int /\ b24 * y <= wb /\ wb < b24 * y + y
  BY <1>1, <1>8, Division
<1> HIDE DEF unit, b24
<1>10. j \in Int /\ ju <= x /\ x < ju + unit /\ x \in Int
  <2>1. x \in Int
    BY <1>6, <1>9
  <2> HIDE DEF x
  <2> QED BY <1>6, <2>1, Division
<1>11. ju \in Int
  <2> HIDE DEF j
  <2> QED BY <1>6, <1>10
<1> HIDE DEF j, ju
<1>12. b24 + 1 <= ju /\ ju <= b24 + unit
  BY <1>6, <1>9, <1>10, <1>11
<1>13. (b24 + 1) * y <= ju * y /\ ju * y <= (b24 + unit) * y
  <2>1. b24 + 1 \in Int /\ b24 + unit \in Int /\ y >= 0
    BY <1>1, <1>6, <1>9
  <2> QED BY <1>1, <1>11, <1>12, <2>1, WeaklyMonotone
<1>14. (b24 + 1) * y = b24 * y + y /\ (b24 + unit) * y = b24 * y + unit * y
  BY <1>1, <1>6, <1>9
<1>15. sum \in Int
  BY <1>1, <1>11
<1> DEFINE by == b24 * y
<1>16. by \in Int
  BY <1>1, <1>9
<1> HIDE DEF by, A, sum
<1>17. /\ by + y <= sum /\ sum <= by + A /\ by <= wb /\ wb < by + y
  BY <1>7, <1>9, <1>13, <1>14 DEF by, sum
<1>18. wb <= sum /\ sum <= wb + A
  BY <1>1, <1>7, <1>8, <1>15, <1>16, <1>17
<1>19. unit > 0
  BY <1>6
<1> QED BY <1>2, <1>6, <1>7, <1>10, <1>15, <1>18, <1>19
       DEF y, P, U, unit, b24, x, j, ju, sum, A, wb

\* The bytes that are written settle the interval.
LEMMA BytesSettle ==
  ASSUME NEW t, IsInterval(t), NEW c \in {1, 2}, NEW U \in Int, U >= 1,
         NEW N \in Int, NEW g \in Int, NEW low \in Int, NEW d \in Int, NEW A \in Int,
         0 <= d, d <= A, A = U * Pow[4 - c], 2 * A <= t.range * Pow[2],
         t.low + d = N * Pow[4] + g * Pow[4 - c],
         NEW m, Number(m)[t.ix + c] = (N * Pow[c] + g) + (U - 1)
  PROVE  Settled(m, t, c)
<1> DEFINE P == Pow[4 - c]
           H == Pow[4]
           Q == Pow[c]
           rF == t.range * Pow[2]
           NH == N * H
           gP == g * P
           M == Number(m)[t.ix + c]
<1>1. P \in Int /\ P >= 1 /\ H \in Int /\ Q \in Int /\ H = Q * P /\ Pow[2] \in Int
  <2>1. Pow[1] = Byte /\ Pow[4] = Byte * Pow[3] /\ Pow[4] = Pow[2] * Pow[2]
    BY FourBytes
  <2>2. \A i \in Nat : Pow[i] \in Int /\ Pow[i] >= 1
    BY BytePowers
  <2>3. CASE c = 1
    BY <2>1, <2>2, <2>3
  <2>4. CASE c = 2
    BY <2>1, <2>2, <2>4
  <2> QED BY <2>3, <2>4
<1>2. t.low \in Int /\ rF \in Int
  <2>1. t.range \in Int /\ t.low \in Int
    BY DEF IsInterval
  <2> QED BY <1>1, <2>1
<1> HIDE DEF P, H, Q, rF
<1>3. NH \in Int /\ gP \in Int
  BY <1>1
<1>4. M * P = (NH + gP) + (A - P)
  <2>1. \A i, j, k, l, p \in Int : ((i * j + k) + (l - 1)) * p = (i * (j * p) + k * p) + (l * p - p)
    OBVIOUS
  <2>2. ((N * Q + g) + (U - 1)) * P = (N * (Q * P) + g * P) + (U * P - P)
    BY <1>1, <2>1
  <2> QED BY <1>1, <2>2 DEF P, Q, H
<1>5. (M + 1) * P = (NH + gP) + A
  <2>1. M \in Int
    <3>1. M = (N * Q + g) + (U - 1)
      BY DEF Q
    <3>2. N * Q \in Int
      BY <1>1
    <3> HIDE DEF M
    <3> QED BY <3>1, <3>2
  <2> HIDE DEF M, NH, gP
  <2>2. (M + 1) * P = M * P + P /\ M * P \in Int
    BY <1>1, <2>1
  <2> QED BY <1>1, <1>3, <1>4, <2>2
<1>6. t.low + d = NH + gP /\ 2 * A <= rF
  BY DEF H, P, rF
<1>7. A >= P
  <2>1. \A i, j \in Int : i >= 1 /\ j >= 1 => i * j >= j
    OBVIOUS
  <2>2. U * P >= P
    BY <1>1, <2>1
  <2> QED BY <2>2 DEF P
<1> DEFINE MP == M * P
           M1P == (M + 1) * P
<1> HIDE DEF NH, gP
<1>8. MP = (NH + gP) + (A - P) /\ M1P = (NH + gP) + A
  BY <1>4, <1>5
<1> HIDE DEF MP, M1P
<1>9. t.low <= MP /\ M1P <= t.low + rF
  BY <1>1, <1>2, <1>3, <1>6, <1>7, <1>8
<1> QED BY <1>9 DEF Settled, MP, M1P, M, P, rF

\* The wrap-up leaves a packet that settles the interval and ends in ones.
LEMMA WrapUpIs ==
  ASSUME NEW t, IsInterval(t), NEW w, Writes(w, t),
         BytesOf(range_coder_get_length(w)) <= MaxBytes
  PROVE  /\ BytesOf(range_coder_get_length(w)) \in 1 .. MaxBytes
         /\ WrappedUp(range_enc_wrap_up(w), t, BytesOf(range_coder_get_length(w)))
<1> DEFINE k == w.ix
           y == Byte
           H == Pow[4]
           bits == range_coder_get_length(w)
           last == BytesOf(bits) - 1
           unit == Pow2[3 * B - ExtraBits(w)]
           j == ((w.base \div y) + unit) \div unit
           base == j * unit
           sum == base * y
           v == range_enc_wrap_up(w)
           carried == IF base >= Pow[3] THEN Carried(w) ELSE w
           bytes == Min({IF ExtraBits(w) > B THEN 2 ELSE 1, w.length - k})
           stored == [carried EXCEPT !.ix = @ + bytes, !.buffer = [i \in Memory |->
                        IF i \in k .. k + bytes - 1
                        THEN (base \div Pow[2 - (i - k)]) % y ELSE @[i]]]
<1>1. /\ w \in Coder /\ w.length = MaxBytes /\ w.wild = FALSE
      /\ w.base \in Int /\ k = t.ix /\ k \in 0 .. MaxBytes /\ w.range = t.range
  BY DEF Writes
<1>2. v = IF bits % B # 0 /\ last < w.length
          THEN [stored EXCEPT !.buffer[last] = Filled(@, bits % B)] ELSE stored
  BY DEF range_enc_wrap_up
<1>3. ExtraBits(w) = ExtraBits(t) /\ bits = range_coder_get_length(t)
  BY <1>1 DEF range_coder_get_length, ExtraBits
<1>4. PICK c \in Nat, q \in Nat : Ending(t, c, q)
  BY EndingIs
<1> DEFINE U == Pow2[q]
           A == U * Pow[4 - c]
           P == Pow[3 - c]
<1>5. /\ c \in {1, 2} /\ q <= B - 1
      /\ (IF ExtraBits(w) > B THEN 2 ELSE 1) = c
      /\ BytesOf(bits) = k + c
      /\ bits % B = (IF q = 0 THEN 0 ELSE B - q)
      /\ unit = U * P
  <2>1. (IF ExtraBits(t) > B THEN 2 ELSE 1) = c
    BY <1>4 DEF Ending
  <2>2. (IF ExtraBits(w) > B THEN 2 ELSE 1) = c
    BY <1>3, <2>1
  <2> HIDE DEF bits
  <2> QED BY <1>1, <1>3, <1>4, <2>2 DEF Ending
<1>6. MaxBytes \in Nat /\ k \in Nat /\ Memory = 0 .. MaxBytes + 3 /\ B \in Nat /\ B >= 2
  BY <1>1, CoderAssumption DEF Memory
<1>7. y \in Int /\ y >= 4 /\ H \in Int /\ Pow[1] = y /\ Pow[3] \in Int /\ H = Pow[3] * y
  BY FourBytes
<1>8. U \in Int /\ U >= 1
  BY PowersDouble
<1>9. /\ unit \in Int /\ unit > 0 /\ j \in Int /\ sum \in Int /\ A \in Int
      /\ w.base <= sum /\ sum <= w.base + A /\ 2 * A <= t.range * Pow[2]
  <2> DEFINE un == U * P
             jj == ((w.base \div y) + un) \div un
             su == (jj * un) * y
  <2>1. /\ un \in Int /\ un > 0 /\ jj \in Int /\ su \in Int /\ A \in Int
        /\ w.base <= su /\ su <= w.base + A /\ 2 * A <= t.range * Pow[2]
    BY <1>4, RoundedUp
  <2> HIDE DEF un
  <2>2. unit = un
    BY <1>5 DEF un
  <2> HIDE DEF unit, A
  <2> QED BY <2>1, <2>2
<1> HIDE DEF bits, unit
<1>10. base \in Int
  <2> HIDE DEF j
  <2> QED BY <1>9
<1> HIDE DEF j
<1>11. base >= Pow[3] <=> sum >= H
  <2> HIDE DEF base
  <2> QED BY <1>7, <1>10, Monotone
<1>12. PICK m \in [Memory -> Digits] : /\ carried = [w EXCEPT !.buffer = m]
                                       /\ t.low + (sum - w.base) = Number(m)[k] * H + (sum % H)
  <2> DEFINE s == sum
  <2>1. s \in Int /\ w.base <= s /\ s < w.base + t.range * Pow[2]
        /\ t.range * Pow[2] \in Int /\ t.range * Pow[2] < Pow[4]
    <3>1. t.range * Pow[2] \in Int /\ t.range * Pow[2] < Pow[4]
      <4>1. t.range \in Int /\ t.range <= Pow[2] - 1
        BY DEF IsInterval
      <4>2. Pow[2] \in Int /\ Pow[2] > 0 /\ Pow[4] = Pow[2] * Pow[2]
        BY FourBytes
      <4> DEFINE F == Pow[2]
                 r == t.range
      <4>3. r \in Int /\ F \in Int /\ F > 0 /\ r < F
        BY <4>1, <4>2
      <4> HIDE DEF F, r
      <4>4. r * F < F * F /\ r * F \in Int
        BY <4>3, Monotone
      <4> QED BY <4>2, <4>4 DEF F, r
    <3>2. A >= 1
      <4>1. Pow[4 - c] \in Int /\ Pow[4 - c] >= 1
        BY <1>5, BytePowers
      <4>2. \A g, h \in Int : g >= 1 /\ h >= 1 => g * h >= 1
        OBVIOUS
      <4> HIDE DEF U
      <4> QED BY <1>8, <4>1, <4>2
    <3> DEFINE rF == t.range * Pow[2]
    <3> HIDE DEF A, s, rF
    <3>3. rF \in Int /\ 2 * A <= rF
      BY <1>9, <3>1 DEF rF
    <3>4. s \in Int /\ w.base <= s /\ s <= w.base + A /\ A \in Int
      BY <1>9 DEF s
    <3>5. s < w.base + rF
      BY <1>1, <3>2, <3>3, <3>4
    <3> QED BY <3>1, <3>4, <3>5 DEF rF
  <2>2. (IF s >= H THEN Carried(w) ELSE w) = carried
    BY <1>11
  <2> HIDE DEF s
  <2>3. Added(w, t, s)
    BY <2>1, AddedIs
  <2>4. PICK m \in [Memory -> Digits] :
           /\ (IF s >= H THEN Carried(w) ELSE w) = [w EXCEPT !.buffer = m]
           /\ t.low + (s - w.base) = Number(m)[k] * H + (s % H)
    BY <2>3 DEF Added
  <2>5. carried = [w EXCEPT !.buffer = m]
    BY <2>2, <2>4
  <2> HIDE DEF carried
  <2> QED BY <2>4, <2>5 DEF s
<1> HIDE DEF carried
<1>13. last = (k + c) - 1 /\ k + c \in Int /\ k + c <= MaxBytes /\ last \in Memory /\ last < w.length
       /\ last \in Int
  <2>1. k + c <= MaxBytes /\ k + c \in Int
    BY <1>5, <1>6 DEF bits
  <2>2. last = (k + c) - 1
    BY <1>5
  <2> HIDE DEF last
  <2> QED BY <1>1, <1>5, <1>6, <2>1, <2>2
<1>14. bytes = c
  <2>1. c \in Int /\ w.length - k \in Int /\ c <= w.length - k
    BY <1>1, <1>5, <1>6, <1>13
  <2>2. Min({c, w.length - k}) = c
    BY <2>1, OfTwo
  <2> QED BY <1>5, <2>2
<1> HIDE DEF last, bytes
<1> DEFINE mm == [i \in Memory |-> IF i \in k .. k + bytes - 1
                                   THEN (base \div Pow[2 - (i - k)]) % y ELSE m[i]]
<1>15. stored = [w EXCEPT !.ix = @ + bytes, !.buffer = mm]
  <2>1. carried.buffer = m /\ carried.ix = k
    BY <1>1, <1>12 DEF Coder
  <2> QED BY <1>1, <1>12, <2>1 DEF Coder
<1> DEFINE g == j * U
           N == Number(m)[k]
           D0 == (base \div Pow[2]) % y
           D1 == (base \div y) % y
           d == g % y
           G == IF c = 1 THEN d ELSE D0 * y + d
<1>16. g \in Int /\ base = g * P
  <2>1. P \in Int
    BY <1>5, BytePowers
  <2>2. \A h, i, l \in Int : h * (i * l) = (h * i) * l
    OBVIOUS
  <2>3. base = j * (U * P)
    BY <1>5
  <2> HIDE DEF U, P, base
  <2>4. j * (U * P) = (j * U) * P /\ j * U \in Int
    BY <1>8, <1>9, <2>1, <2>2
  <2> QED BY <2>3, <2>4
<1> HIDE DEF base
<1>17. PICK e \in Int : d = e * U
  <2> HIDE DEF g
  <2>1. g = j * Pow2[q] /\ j \in Int /\ g \in Int
    BY <1>9, <1>16 DEF g
  <2>2. \E e \in Int : g % Byte = e * Pow2[q]
    BY <1>5, <2>1, LastByteIsMultiple
  <2> QED BY <2>2
<1>18. /\ d \in Digits /\ D0 \in Digits
       /\ c = 1 => D0 = d
       /\ c = 2 => D1 = d
       /\ sum % H = G * Pow[4 - c]
  <2>1. CASE c = 1
    <3>1. base = g * Pow[2] /\ 4 - c = 3
      BY <1>16, <2>1
    <3> HIDE DEF g
    <3>2. /\ (base \div Pow[2]) % Byte = g % Byte /\ g % Byte \in Digits
          /\ (base * Byte) % Pow[4] = (g % Byte) * Pow[3]
      BY <1>10, <1>16, <3>1, FirstByteIs
    <3> QED BY <2>1, <3>1, <3>2
  <2>2. CASE c = 2
    <3>1. base = g * Byte /\ 4 - c = 2
      BY <1>7, <1>16, <2>2
    <3> HIDE DEF g
    <3>2. /\ (base \div Pow[2]) % Byte \in Digits
          /\ (base \div Byte) % Byte = g % Byte /\ g % Byte \in Digits
          /\ (base * Byte) % Pow[4] = (((base \div Pow[2]) % Byte) * Byte + (g % Byte)) * Pow[2]
      BY <1>10, <1>16, <3>1, FirstBytesAre
    <3> QED BY <2>2, <3>1, <3>2
  <2> QED BY <1>5, <2>1, <2>2
<1> HIDE DEF D0, D1, d, G, g, U, P, A
<1>19. d + (U - 1) \in Digits /\ Filled(d, B - q) = d + (U - 1) /\ Filled(d + (U - 1), B - q) = d + (U - 1)
  <2>1. q <= B - 1 /\ d \in Digits /\ e \in Int /\ d = e * Pow2[q]
    BY <1>5, <1>17, <1>18 DEF U
  <2> QED BY <2>1, FilledIs DEF U
<1>20. /\ \A i \in 0 .. k - 1 : mm[i] = m[i] /\ i \in Memory
       /\ mm[last] = d /\ (c = 2 => mm[k] = D0)
  <2>1. \A i \in 0 .. k - 1 : i \in Memory /\ i \notin k .. k + bytes - 1
    BY <1>1, <1>5, <1>6, <1>14
  <2>2. k \in Memory /\ k \in k .. k + bytes - 1 /\ 2 - (k - k) = 2
    BY <1>1, <1>5, <1>6, <1>14
  <2>3. mm[k] = D0
    BY <2>2 DEF D0
  <2>4. c = 2 => k + 1 \in Memory /\ k + 1 \in k .. k + bytes - 1 /\ 2 - ((k + 1) - k) = 1
    BY <1>1, <1>5, <1>6, <1>14
  <2>5. c = 2 => mm[k + 1] = D1
    BY <1>7, <2>4 DEF D1
  <2> HIDE DEF D0, D1
  <2>6. (c = 1 => last = k) /\ (c = 2 => last = k + 1)
    BY <1>6, <1>13
  <2>7. mm[last] = d
    <3> HIDE DEF mm
    <3> QED BY <1>5, <1>18, <2>3, <2>5, <2>6
  <2> QED BY <2>1, <2>3, <2>7
<1>21. mm \in [Memory -> Digits]
  <2>1. ASSUME NEW i \in Memory PROVE mm[i] \in Digits
    <3>1. CASE i \in k .. k + bytes - 1
      <4>1. i = k \/ (c = 2 /\ i = k + 1)
        <5>1. i \in Int /\ k <= i /\ i <= (k + c) - 1
          <6>1. c \in Int /\ (k + bytes) - 1 = (k + c) - 1
            BY <1>5, <1>14
          <6> HIDE DEF k, mm
          <6> QED BY <1>6, <1>14, <3>1, <6>1
        <5> HIDE DEF k, mm
        <5>2. CASE c = 1
          BY <1>6, <5>1, <5>2
        <5>3. CASE c = 2
          BY <1>6, <5>1, <5>3
        <5> QED BY <1>5, <5>2, <5>3
      <4>2. last = IF c = 1 THEN k ELSE k + 1
        BY <1>5, <1>6, <1>13
      <4> HIDE DEF mm
      <4>3. CASE c = 1
        BY <1>18, <1>20, <4>1, <4>2, <4>3
      <4>4. CASE c = 2
        BY <1>18, <1>20, <4>1, <4>2, <4>4
      <4> QED BY <1>5, <4>3, <4>4
    <3>2. CASE ~(i \in k .. k + bytes - 1)
      <4>1. mm[i] = m[i]
        BY <3>2
      <4> HIDE DEF mm
      <4> QED BY <4>1
    <3> QED BY <3>1, <3>2
  <2>2. mm = [i \in Memory |-> mm[i]]
    OBVIOUS
  <2> HIDE DEF mm
  <2> QED BY <2>1, <2>2
<1> HIDE DEF mm
<1> DEFINE nn == [mm EXCEPT ![last] = d + (U - 1)]
<1>22. nn \in [Memory -> Digits]
  BY <1>13, <1>19, <1>21
<1>23. v.wild = FALSE /\ v.buffer = nn
  <2> HIDE DEF stored
  <2>1. stored.buffer = mm /\ stored.wild = FALSE /\ stored = [stored EXCEPT !.buffer = mm]
        /\ stored \in [base : Int, range : Int, ix : Int, length : Int, buffer : [Memory -> Digits],
                       error : BOOLEAN, wild : BOOLEAN]
    <3>1. k + bytes \in Int
      BY <1>5, <1>6, <1>14
    <3> QED BY <1>1, <1>15, <1>21, <3>1 DEF Coder
  <2>2. CASE q = 0
    <3>1. ~(bits % B # 0)
      BY <1>5, <2>2
    <3>2. v = stored
      BY <1>2, <3>1
    <3>3. U = 1
      BY <2>2, PowersDouble DEF U
    <3>4. d + (U - 1) = d
      <4>1. d \in Int
        BY <1>18, <1>7 DEF Digits
      <4> QED BY <3>3, <4>1
    <3>5. nn = mm
      BY <1>13, <1>20, <1>21, <3>4
    <3> HIDE DEF v, nn
    <3> QED BY <2>1, <3>2, <3>5
  <2>3. CASE q # 0
    <3>1. bits % B = B - q /\ B - q # 0 /\ last < w.length
      BY <1>5, <1>6, <1>13, <2>3
    <3>2. v = [stored EXCEPT !.buffer[last] = Filled(@, bits % B)]
      BY <1>2, <3>1
    <3>3. Filled(mm[last], bits % B) = d + (U - 1)
      BY <1>19, <1>20, <3>1
    <3> HIDE DEF v
    <3>4. v.wild = stored.wild /\ v.buffer = [stored.buffer EXCEPT ![last] = Filled(@, bits % B)]
      BY <2>1, <3>2
    <3> QED BY <2>1, <3>3, <3>4
  <2> QED BY <2>2, <2>3
<1>24. /\ \A i \in 0 .. k - 1 : nn[i] = m[i]
       /\ nn[last] = d + (U - 1)
       /\ c = 2 => nn[k] = D0
  <2>1. \A i \in 0 .. k - 1 : i # last /\ i \in Memory
    BY <1>5, <1>6, <1>13, <1>20
  <2>2. c = 2 => k # last /\ k \in Memory
    BY <1>1, <1>6, <1>13
  <2> QED BY <1>13, <1>20, <1>21, <2>1, <2>2
<1> HIDE DEF nn, v
<1>25. Ended(nn, k + c, t)
  <2>1. k + c = BytesOf(range_coder_get_length(t))
    BY <1>3, <1>5
  <2>2. bits % B # 0 => bits % B = B - q
    BY <1>5
  <2>3. nn[(k + c) - 1] = d + (U - 1)
    BY <1>13, <1>24
  <2>4. bits % B # 0 => nn[(k + c) - 1] = Filled(nn[(k + c) - 1], bits % B)
    BY <1>19, <2>2, <2>3
  <2> QED BY <1>3, <2>1, <2>4 DEF Ended
<1>26. N \in Int /\ Number(nn)[k + c] = (N * Pow[c] + G) + (U - 1) /\ G \in Int
  <2>1. /\ N \in Int /\ nn[k] \in Int /\ nn[k + 1] \in Int
        /\ Number(nn)[k + 1] = N * y + nn[k]
        /\ Number(nn)[k + 2] = (N * y + nn[k]) * y + nn[k + 1]
    BY <1>1, <1>22, <1>24, AppendedIs DEF N
  <2>2. d \in Int /\ D0 \in Int
    BY <1>7, <1>18 DEF Digits
  <2> HIDE DEF N
  <2>3. CASE c = 1
    <3>1. last = k
      BY <1>6, <1>13, <2>3
    <3>2. Number(nn)[k + c] = N * y + (d + (U - 1)) /\ G = d
      BY <1>24, <2>1, <2>3, <3>1 DEF G
    <3>3. Number(nn)[k + c] = (N * y + d) + (U - 1)
      <4> DEFINE Ny == N * y
      <4>1. Ny \in Int
        BY <1>7, <2>1
      <4> HIDE DEF Ny
      <4>2. Ny + (d + (U - 1)) = (Ny + d) + (U - 1)
        BY <1>8, <2>2, <4>1
      <4> QED BY <3>2, <4>2 DEF Ny
    <3> QED BY <1>7, <2>1, <2>2, <2>3, <3>2, <3>3
  <2>4. CASE c = 2
    <3>1. last = k + 1
      BY <1>6, <1>13, <2>4
    <3>2. Number(nn)[k + c] = (N * y + D0) * y + (d + (U - 1)) /\ G = D0 * y + d
      BY <1>24, <2>1, <2>4, <3>1 DEF G
    <3>3. \A f, h, i, l, o \in Int : (f * h + i) * h + (l + (o - 1)) = (f * (h * h) + (i * h + l)) + (o - 1)
      OBVIOUS
    <3>4. (N * y + D0) * y + (d + (U - 1)) = (N * (y * y) + (D0 * y + d)) + (U - 1)
      BY <1>7, <1>8, <2>1, <2>2, <3>3
    <3>5. Pow[c] = y * y
      BY <2>4, FourBytes
    <3>6. G \in Int
      BY <1>7, <2>2, <3>2
    <3> QED BY <2>1, <3>2, <3>4, <3>5, <3>6
  <2> QED BY <1>5, <2>3, <2>4
<1>27. Settled(nn, t, c)
  <2> DEFINE dd == sum - w.base
             low == w.base
  <2>1. dd \in Int /\ 0 <= dd /\ dd <= A
    <3> HIDE DEF sum
    <3> QED BY <1>1, <1>9
  <2>2. t.low + dd = N * Pow[4] + G * Pow[4 - c]
    BY <1>12, <1>18 DEF N
  <2>3. A = U * Pow[4 - c] /\ 2 * A <= t.range * Pow[2] /\ A \in Int
    BY <1>9 DEF A
  <2>4. Number(nn)[t.ix + c] = (N * Pow[c] + G) + (U - 1)
    BY <1>1, <1>26
  <2> HIDE DEF dd, N
  <2> QED BY <1>1, <1>5, <1>8, <1>26, <2>1, <2>2, <2>3, <2>4, BytesSettle
<1>28. WrappedUp(v, t, k + c)
  BY <1>1, <1>5, <1>22, <1>23, <1>25, <1>27 DEF WrappedUp
<1>29. k + c \in 1 .. MaxBytes
  BY <1>5, <1>6, <1>13
<1> QED BY <1>5, <1>28, <1>29 DEF bits, v

-----------------------------------------------------------------------------
(* A packet: the intervals its symbols lead to, and what is read of it.    *)

Traced(tr, symbols) ==
  /\ tr[0] = Start
  /\ \A i \in 1 .. Len(symbols) : tr[i] = Narrowed(tr[i - 1], symbols[i])
  /\ \A i \in 0 .. Len(symbols) : IsInterval(tr[i])

Packet(m, n, tr, symbols) ==
  /\ m \in [Memory -> Digits] /\ n \in 1 .. MaxBytes /\ Ended(m, n, tr[Len(symbols)])
  /\ \A i \in 0 .. Len(symbols) : tr[i].ix <= n
  /\ \A i \in 1 .. Len(symbols) : WithinSymbol(m, tr[i - 1], symbols[i])

\* The empty packet's only interval.
LEMMA StartIs == IsInterval(Start) /\ Start.low = 0 /\ Start.ix = 0
<1>1. Start.low = 0 /\ Start.ix = 0 /\ Start.range = Pow[2] - 1
  BY DEF Start
<1> DEFINE F == Pow[2]
<1>2. /\ F \in Int /\ F >= 4 * Byte /\ Byte \in Int /\ Byte >= 4
      /\ Pow[4] = F * F /\ Pow[0] = 1
  BY FourBytes
<1> HIDE DEF F
<1>3. (F - 1) * F <= F * F
  <2>1. F - 1 \in Int /\ F - 1 <= F /\ F >= 0
    BY <1>2
  <2> QED BY <1>2, <2>1, WeaklyMonotone
<1>4. 0 + (F - 1) * F = (F - 1) * F /\ 1 * (F * F) = F * F
  BY <1>2
<1>5. Start.low + Start.range * F <= Pow[Start.ix] * Pow[4]
  BY <1>1, <1>2, <1>3, <1>4 DEF F
<1>6. Byte <= Start.range /\ Start.range \in Int
  BY <1>1, <1>2 DEF F
<1> QED BY <1>1, <1>5, <1>6 DEF IsInterval, F

\* What settles the last interval lies in all of them, in the part of each symbol.
LEMMA AllSymbolsWithin ==
  ASSUME NEW symbols \in Seq(Symbols), NEW tr, Traced(tr, symbols), NEW m \in [Memory -> Digits],
         NEW n \in 1 .. MaxBytes, Within(m, tr[Len(symbols)]), tr[Len(symbols)].ix <= n,
         Ended(m, n, tr[Len(symbols)])
  PROVE  Packet(m, n, tr, symbols)
<1> DEFINE L == Len(symbols)
           Is(i) == Within(m, tr[i]) /\ tr[i].ix <= n
           S == {j \in Nat : j <= L =>
                   Is(L - j) /\ (j >= 1 => WithinSymbol(m, tr[L - j], symbols[(L - j) + 1]))}
<1>1. L \in Nat /\ MaxBytes \in Nat /\ n \in Int /\ n <= MaxBytes
  BY CoderAssumption
<1>2. 0 \in S
  <2>1. L - 0 = L
    BY <1>1
  <2> QED BY <2>1
<1>3. ASSUME NEW j \in Nat, j \in S PROVE j + 1 \in S
  <2> SUFFICES ASSUME j + 1 <= L
               PROVE  /\ Is(L - (j + 1))
                      /\ WithinSymbol(m, tr[L - (j + 1)], symbols[(L - (j + 1)) + 1])
    OBVIOUS
  <2> DEFINE i == L - (j + 1)
             s == symbols[i + 1]
  <2>1. i \in Nat /\ i + 1 = L - j /\ i \in 0 .. L /\ i + 1 \in 1 .. L /\ (i + 1) - 1 = i
    BY <1>1
  <2>2. Is(i + 1)
    BY <1>1, <1>3, <2>1
  <2> HIDE DEF L, i
  <2>3. s \in Symbols /\ IsInterval(tr[i]) /\ tr[i + 1] = Narrowed(tr[i], s)
    <3>1. s \in Symbols
      BY <2>1 DEF L
    <3> HIDE DEF s
    <3>2. IsInterval(tr[i]) /\ tr[i + 1] = Narrowed(tr[i], symbols[i + 1])
      BY <2>1 DEF Traced, L
    <3> QED BY <3>1, <3>2 DEF s
  <2> DEFINE t == tr[i]
             u == Narrowed(t, s)
  <2> HIDE DEF s, t
  <2>4. /\ IsInterval(t) /\ s \in Symbols /\ Within(m, u) /\ u.ix <= n
    BY <2>2, <2>3 DEF t
  <2>5. u.ix \in Nat /\ u.ix <= MaxBytes /\ t.ix \in Nat
    <3>1. IsInterval(u)
      BY <2>4, NarrowedIs
    <3> HIDE DEF u
    <3> QED BY <1>1, <2>4, <3>1 DEF IsInterval
  <2>6. WithinSymbol(m, t, s) /\ Within(m, t)
    BY <2>4, <2>5, Widened
  <2>7. t.ix <= n
    <3>1. Widening(t, s) \in {0, 1, 2}
      BY <2>4, NarrowedIs
    <3>2. u.ix = t.ix + Widening(t, s)
      BY DEF Narrowed
    <3> HIDE DEF u
    <3> QED BY <1>1, <2>4, <2>5, <3>1, <3>2
  <2> QED BY <2>6, <2>7 DEF i, t, s
<1> HIDE DEF S
<1>4. \A j \in Nat : j \in S
  BY <1>2, <1>3, Induction
<1>5. ASSUME NEW i \in 0 .. L PROVE tr[i].ix <= n
  <2>1. L - i \in Nat /\ L - i <= L /\ L - (L - i) = i
    BY <1>1
  <2> QED BY <1>4, <2>1 DEF S
<1>6. ASSUME NEW i \in 1 .. L PROVE WithinSymbol(m, tr[i - 1], symbols[i])
  <2> DEFINE j == L - (i - 1)
  <2>1. j \in Nat /\ j >= 1 /\ j <= L /\ L - j = i - 1 /\ (L - j) + 1 = i
    BY <1>1
  <2>2. j \in S
    BY <1>4, <2>1
  <2> HIDE DEF j
  <2>3. WithinSymbol(m, tr[L - j], symbols[(L - j) + 1])
    BY <2>1, <2>2 DEF S
  <2> QED BY <2>1, <2>3
<1> QED BY <1>5, <1>6 DEF Packet

\* The decoder starts at the packet's first interval.
LEMMA DecoderStarts ==
  ASSUME NEW m \in [Memory -> Digits], NEW n \in 1 .. MaxBytes, NEW payload, NEW junk,
         m = [i \in Memory |-> IF i < n THEN payload[i] ELSE junk]
  PROVE  Reads(range_dec_init(payload, n, junk), m, Start, n)
<1> DEFINE r == range_dec_init(payload, n, junk)
           M == Number(m)
           y == Byte
<1>1. MaxBytes \in Nat /\ n \in Int /\ Memory = 0 .. MaxBytes + 3
  BY CoderAssumption DEF Memory
<1>2. r = [base |-> m[0] * Pow[3] + m[1] * Pow[2] + m[2] * Byte + m[3],
           range |-> Pow[2] - 1, ix |-> 0, length |-> n, buffer |-> m,
           error |-> FALSE, wild |-> FALSE]
  BY DEF range_dec_init
<1>3. 0 \in Memory /\ 1 \in Memory /\ 2 \in Memory /\ 3 \in Memory
  BY <1>1
<1>4. \A i \in Memory : m[i] \in Int /\ M[i + 1] = M[i] * y + m[i]
  BY NumberIs
<1>5. M[0] = 0
  BY NumberIs
<1>6. y \in Int /\ Pow[2] = y * y /\ Pow[3] = y * (y * y) /\ Pow[2] \in Int
  BY FourBytes
<1> HIDE DEF M, y
<1>7. M[1] = m[0] /\ M[2] = m[0] * y + m[1] /\ M[3] = (m[0] * y + m[1]) * y + m[2]
      /\ M[4] = ((m[0] * y + m[1]) * y + m[2]) * y + m[3]
  <2>1. M[0 + 1] = M[0] * y + m[0] /\ M[1 + 1] = M[1] * y + m[1] /\ M[2 + 1] = M[2] * y + m[2]
        /\ M[3 + 1] = M[3] * y + m[3]
    BY <1>3, <1>4
  <2>2. 0 * y = 0 /\ m[0] \in Int
    BY <1>3, <1>4, <1>6
  <2>3. M[1] = m[0]
    BY <1>5, <2>1, <2>2
  <2> QED BY <2>1, <2>3
<1> DEFINE base == m[0] * Pow[3] + m[1] * Pow[2] + m[2] * y + m[3]
<1>8. base = M[4] /\ base \in Int
  <2>1. \A a, b, c, d, z \in Int :
          a * (z * (z * z)) + b * (z * z) + c * z + d = ((a * z + b) * z + c) * z + d
    OBVIOUS
  <2>2. m[0] \in Int /\ m[1] \in Int /\ m[2] \in Int /\ m[3] \in Int
    BY <1>3, <1>4
  <2> DEFINE a == m[0]
             b == m[1]
             c == m[2]
             d == m[3]
  <2>3. a \in Int /\ b \in Int /\ c \in Int /\ d \in Int
    BY <2>2
  <2>4. base = a * (y * (y * y)) + b * (y * y) + c * y + d
    BY <1>6
  <2>5. M[4] = ((a * y + b) * y + c) * y + d
    BY <1>7
  <2> HIDE DEF a, b, c, d, base
  <2>6. ((a * y + b) * y + c) * y + d \in Int
    BY <1>6, <2>3
  <2> QED BY <1>6, <2>1, <2>3, <2>4, <2>5, <2>6
<1>9. r.base = base
  BY <1>2 DEF y
<1> HIDE DEF base
<1>10. r = [base |-> base, range |-> Pow[2] - 1, ix |-> 0, length |-> n, buffer |-> m,
            error |-> FALSE, wild |-> FALSE]
  BY <1>2 DEF base, y
<1>11. r \in Coder
  BY <1>1, <1>6, <1>8, <1>10 DEF Coder
<1>12. Start.range = Pow[2] - 1 /\ Start.ix = 0 /\ Start.low = 0
  BY DEF Start
<1> HIDE DEF r
<1>13. r.base = M[Start.ix + 4] - Start.low
  <2>1. 0 + 4 = 4
    OBVIOUS
  <2> QED BY <1>8, <1>9, <1>12, <2>1
<1> QED BY <1>10, <1>11, <1>12, <1>13 DEF Reads, M, r

\* What is received starts the decoder inside all the intervals.
LEMMA ReceivedIs ==
  ASSUME NEW symbols \in Seq(Symbols), NEW tr, Traced(tr, symbols), NEW w,
         Writes(w, tr[Len(symbols)]), BytesOf(range_coder_get_length(w)) <= MaxBytes,
         NEW junk \in Junk
  PROVE  \E n \in 1 .. MaxBytes : \E m \in [Memory -> Digits] :
           /\ n = BytesOf(range_coder_get_length(w))
           /\ Packet(m, n, tr, symbols)
           /\ Reads(range_dec_init(range_enc_wrap_up(w).buffer, n, junk), m, Start, n)
<1> DEFINE L == Len(symbols)
           t == tr[L]
           n == BytesOf(range_coder_get_length(w))
           payload == range_enc_wrap_up(w).buffer
           m == [i \in Memory |-> IF i < n THEN payload[i] ELSE junk]
<1>1. L \in Nat /\ IsInterval(t) /\ MaxBytes \in Nat /\ Memory = 0 .. MaxBytes + 3
  <2>1. L \in Nat /\ L \in 0 .. L
    OBVIOUS
  <2> QED BY <2>1, CoderAssumption DEF Traced, Memory
<1>2. n \in 1 .. MaxBytes /\ WrappedUp(range_enc_wrap_up(w), t, n)
  BY <1>1, WrapUpIs
<1> HIDE DEF n, t
<1>3. payload \in [Memory -> Digits] /\ Ended(payload, n, t)
  BY <1>2 DEF WrappedUp
<1>4. PICK c \in {1, 2} : n = t.ix + c /\ Settled(payload, t, c)
  BY <1>2 DEF WrappedUp
<1> HIDE DEF payload
<1>5. junk \in Digits /\ n \in Nat /\ n <= MaxBytes /\ n >= 1
  BY <1>1, <1>2, CoderAssumption
<1>6. m \in [Memory -> Digits]
  BY <1>3, <1>5
<1>7. \A i \in 0 .. n - 1 : m[i] = payload[i] /\ i \in Memory
  BY <1>1, <1>5
<1>8. m = [i \in Memory |-> IF i < n THEN payload[i] ELSE junk]
  OBVIOUS
<1> HIDE DEF m
<1>9. Number(m)[n] = Number(payload)[n]
  <2>1. n \in 0 .. MaxBytes + 4 /\ n \in 0 .. n
    BY <1>1, <1>5
  <2> QED BY <1>3, <1>6, <1>7, <2>1, SameNumbers
<1>10. Within(m, t)
  <2> DEFINE P == Pow[4 - c]
             N == Number(m)[n]
             more == Number(m)[t.ix + 4]
             rF == t.range * Pow[2]
  <2>1. 4 - c \in Nat /\ n + (4 - c) = t.ix + 4 /\ n + (4 - c) <= MaxBytes + 4 /\ t.ix \in Nat
        /\ t.low \in Int /\ rF \in Int
    <3>1. t.ix \in Nat /\ t.low \in Int /\ t.range \in Int /\ Pow[2] \in Int
      BY <1>1, FourBytes DEF IsInterval
    <3>2. rF \in Int
      BY <3>1
    <3> HIDE DEF rF
    <3> QED BY <1>1, <1>4, <1>5, <3>1, <3>2
  <2>2. /\ N \in Int /\ more \in Int /\ P \in Int /\ N * P <= more /\ more < N * P + P
    <3>1. /\ Number(m)[n] \in Int /\ Number(m)[n + (4 - c)] \in Int /\ Pow[4 - c] \in Int
          /\ Number(m)[n] * Pow[4 - c] <= Number(m)[n + (4 - c)]
          /\ Number(m)[n + (4 - c)] < Number(m)[n] * Pow[4 - c] + Pow[4 - c]
      BY <1>5, <1>6, <2>1, FurtherBytes
    <3> QED BY <2>1, <3>1
  <2>3. t.low <= N * P /\ (N + 1) * P <= t.low + rF
    <3>1. t.low <= Number(payload)[n] * P /\ (Number(payload)[n] + 1) * P <= t.low + rF
      BY <1>4 DEF Settled
    <3> QED BY <1>9, <3>1
  <2> HIDE DEF P, N, more, rF
  <2> DEFINE NP == N * P
  <2>4. (N + 1) * P = NP + P /\ NP \in Int
    BY <2>2
  <2>5. NP <= more /\ more < NP + P /\ t.low <= NP /\ NP + P <= t.low + rF
    BY <2>2, <2>3, <2>4
  <2> HIDE DEF NP
  <2>6. t.low <= more /\ more < t.low + rF
    BY <2>1, <2>2, <2>4, <2>5
  <2> QED BY <2>6 DEF Within, more, rF
<1>11. Ended(m, n, t)
  <2>1. n - 1 \in 0 .. n - 1
    BY <1>5
  <2>2. m[n - 1] = payload[n - 1]
    BY <1>7, <2>1
  <2> QED BY <1>3, <2>2 DEF Ended
<1>12. t.ix <= n
  <2>1. t.ix \in Nat
    BY <1>1 DEF IsInterval
  <2> QED BY <1>4, <2>1
<1>13. Packet(m, n, tr, symbols)
  BY <1>2, <1>6, <1>10, <1>11, <1>12, AllSymbolsWithin DEF t
<1>14. Reads(range_dec_init(payload, n, junk), m, Start, n)
  BY <1>2, <1>6, <1>8, DecoderStarts
<1> QED BY <1>2, <1>6, <1>13, <1>14 DEF n, payload

-----------------------------------------------------------------------------
(* What holds of a packet that is written, sent and read.                  *)

Writing(tr) ==
  /\ reader = NoDecoder /\ got = <<>>
  /\ EncodedTo(writer, tr[Len(given)])

Reading(tr) ==
  \E n \in 1 .. MaxBytes : \E m \in [Memory -> Digits] :
    Packet(m, n, tr, given) /\ Reads(reader, m, tr[Len(got)], n)

CoderInv ==
  /\ given \in Seq(Symbols) /\ got \in Seq(Nat) /\ Len(got) <= Len(given)
  /\ writer.wild = FALSE
  /\ \A i \in 1 .. Len(got) : got[i] = given[i].data
  /\ \E tr : Traced(tr, given) /\ (Writing(tr) \/ Reading(tr))

\* A decoder that reads a packet is one.
LEMMA ReadsOne ==
  ASSUME NEW r, NEW m, NEW t, NEW n \in 1 .. MaxBytes, Reads(r, m, t, n)
  PROVE  r # NoDecoder
<1>1. NoDecoder.length = 0
  BY DEF NoDecoder, range_enc_init
<1>2. r.length = n /\ n # 0
  BY CoderAssumption DEF Reads
<1> QED BY <1>1, <1>2

\* It holds in the beginning.
LEMMA CoderInvStarts == CoderInit => CoderInv
<1> SUFFICES ASSUME CoderInit PROVE CoderInv
  OBVIOUS
<1>1. writer = range_enc_init /\ given = <<>> /\ reader = NoDecoder /\ got = <<>>
  BY DEF CoderInit
<1>2. Len(given) = 0 /\ Len(got) = 0 /\ given \in Seq(Symbols) /\ got \in Seq(Nat)
  BY <1>1
<1> DEFINE tr == [i \in {0} |-> Start]
<1>3. tr[0] = Start
  OBVIOUS
<1>4. Traced(tr, given)
  BY <1>2, <1>3, StartIs DEF Traced
<1>5. Writes(writer, Start)
  <2>1. writer = [base |-> 0, range |-> Pow[2] - 1, ix |-> 0, length |-> MaxBytes,
                  buffer |-> [i \in Memory |-> 0], error |-> FALSE, wild |-> FALSE]
    BY <1>1 DEF range_enc_init
  <2>2. Pow[2] \in Int /\ Pow[4] \in Int /\ Pow[4] > 0 /\ Byte \in Int /\ Byte >= 4
    BY FourBytes
  <2>3. MaxBytes \in Nat
    BY CoderAssumption
  <2> DEFINE zero == [i \in Memory |-> 0]
  <2>4. zero \in [Memory -> Digits]
    BY <2>2 DEF Digits
  <2>5. Number(zero)[0] = 0
    BY <2>4, NumberIs
  <2> HIDE DEF zero
  <2>6. writer = [base |-> 0, range |-> Pow[2] - 1, ix |-> 0, length |-> MaxBytes,
                  buffer |-> zero, error |-> FALSE, wild |-> FALSE]
    BY <2>1 DEF zero
  <2>7. writer \in Coder
    BY <2>2, <2>3, <2>4, <2>6 DEF Coder
  <2>8. Start.low = 0 /\ Start.ix = 0 /\ Start.range = Pow[2] - 1
    BY DEF Start
  <2>9. Start.low = Number(writer.buffer)[writer.ix] * Pow[4] + writer.base
    BY <2>2, <2>5, <2>6, <2>8
  <2> QED BY <2>2, <2>3, <2>6, <2>7, <2>8, <2>9 DEF Writes
<1>6. writer.wild = FALSE
  BY <1>5 DEF Writes
<1> HIDE DEF tr
<1>7. Writing(tr)
  BY <1>1, <1>2, <1>3, <1>5, <1>6 DEF Writing, EncodedTo
<1> QED BY <1>2, <1>4, <1>6, <1>7 DEF CoderInv

\* A further symbol leads to a further interval.
LEMMA TracedFurther ==
  ASSUME NEW symbols \in Seq(Symbols), NEW tr, Traced(tr, symbols), NEW s \in Symbols
  PROVE  \E more : /\ Traced(more, Append(symbols, s))
                   /\ more[Len(symbols) + 1] = Narrowed(tr[Len(symbols)], s)
<1> DEFINE L == Len(symbols)
           longer == Append(symbols, s)
           more == [i \in 0 .. L + 1 |-> IF i <= L THEN tr[i] ELSE Narrowed(tr[L], s)]
<1>1. L \in Nat /\ Len(longer) = L + 1 /\ longer[L + 1] = s /\ \A i \in 1 .. L : longer[i] = symbols[i]
  OBVIOUS
<1> HIDE DEF longer, L
<1>2. \A i \in 0 .. L : more[i] = tr[i]
  BY <1>1
<1>3. more[L + 1] = Narrowed(tr[L], s)
  BY <1>1
<1> HIDE DEF more
<1>4. IsInterval(tr[L])
  <2>1. L \in 0 .. L
    BY <1>1
  <2> QED BY <2>1 DEF Traced, L
<1>5. more[0] = Start
  <2>1. 0 \in 0 .. L
    BY <1>1
  <2> QED BY <1>2, <2>1 DEF Traced
<1>6. ASSUME NEW i \in 1 .. L + 1 PROVE more[i] = Narrowed(more[i - 1], longer[i])
  <2>1. CASE i = L + 1
    <3>1. i - 1 = L /\ L \in 0 .. L
      BY <1>1, <2>1
    <3> QED BY <1>1, <1>2, <1>3, <2>1, <3>1
  <2>2. CASE i # L + 1
    <3>1. i \in 1 .. L /\ i \in 0 .. L /\ i - 1 \in 0 .. L
      BY <1>1, <2>2
    <3>2. tr[i] = Narrowed(tr[i - 1], symbols[i])
      BY <3>1 DEF Traced, L
    <3> QED BY <1>1, <1>2, <3>1, <3>2
  <2> QED BY <2>1, <2>2
<1>7. ASSUME NEW i \in 0 .. L + 1 PROVE IsInterval(more[i])
  <2>1. CASE i = L + 1
    BY <1>3, <1>4, <2>1, NarrowedIs
  <2>2. CASE i # L + 1
    <3>1. i \in 0 .. L
      BY <1>1, <2>2
    <3> QED BY <1>2, <3>1 DEF Traced, L
  <2> QED BY <2>1, <2>2
<1>8. Traced(more, longer)
  BY <1>1, <1>5, <1>6, <1>7 DEF Traced
<1> QED BY <1>3, <1>8 DEF L, longer

\* Encode() keeps it.
LEMMA EncodeKeeps ==
  ASSUME CoderInv, NEW table \in Tables, NEW data \in 0 .. Last(table) - 1, Encode(table, data)
  PROVE  CoderInv'
<1> DEFINE s == [table |-> table, data |-> data]
           L == Len(given)
<1>1. /\ reader = NoDecoder /\ writer' = range_encoder(writer, data, table)
      /\ given' = Append(given, s) /\ reader' = reader /\ got' = got
  BY DEF Encode
<1>2. s \in Symbols
  <2>1. Last(table) \in Nat
    BY TablesRise
  <2> QED BY <2>1 DEF Symbols
<1>3. /\ given \in Seq(Symbols) /\ writer.wild = FALSE
  BY DEF CoderInv
<1>4. PICK tr : Traced(tr, given) /\ (Writing(tr) \/ Reading(tr))
  BY DEF CoderInv
<1>5. Writing(tr)
  <2>1. ~Reading(tr)
    BY <1>1, ReadsOne DEF Reading
  <2> QED BY <1>4, <2>1
<1>6. s.table = table /\ s.data = data
  OBVIOUS
<1> HIDE DEF s
<1>7. PICK more : Traced(more, Append(given, s)) /\ more[L + 1] = Narrowed(tr[L], s)
  BY <1>2, <1>3, <1>4, TracedFurther
<1>8. L \in Nat /\ Len(given') = L + 1 /\ given' \in Seq(Symbols)
  BY <1>1, <1>2, <1>3
<1>9. EncodedTo(writer', more[L + 1])
  <2>1. CASE writer.error = TRUE
    <3>1. writer' = writer
      BY <1>1, <2>1 DEF range_encoder
    <3> QED BY <1>3, <2>1, <3>1 DEF EncodedTo
  <2>2. CASE ~(writer.error = TRUE)
    <3>1. Writes(writer, tr[L])
      BY <1>5, <2>2 DEF Writing, EncodedTo
    <3>2. IsInterval(tr[L])
      <4>1. L \in 0 .. L
        BY <1>8
      <4> QED BY <1>4, <4>1 DEF Traced
    <3>3. EncodedTo(range_encoder(writer, s.data, s.table), Narrowed(tr[L], s))
      BY <1>2, <3>1, <3>2, EncoderIs
    <3> QED BY <1>1, <1>6, <1>7, <3>3
  <2> QED BY <2>1, <2>2
<1>10. Traced(more, given')
  BY <1>1, <1>7
<1>11. writer'.wild = FALSE
  BY <1>9 DEF EncodedTo
<1>12. reader' = NoDecoder /\ got' = <<>> /\ Len(got') = 0
  BY <1>1, <1>5 DEF Writing
<1>13. EncodedTo(writer', more[Len(given')])
  BY <1>8, <1>9
<1> HIDE DEF L
<1>14. reader' = NoDecoder /\ got' = <<>> /\ EncodedTo(writer', more[Len(given')])
  BY <1>12, <1>13
<1>15. \E any : /\ Traced(any, given')
                /\ \/ reader' = NoDecoder /\ got' = <<>> /\ EncodedTo(writer', any[Len(given')])
                   \/ \E n \in 1 .. MaxBytes : \E m \in [Memory -> Digits] :
                        Packet(m, n, any, given') /\ Reads(reader', m, any[Len(got')], n)
  BY <1>10, <1>14
<1>16. /\ got' \in Seq(Nat) /\ Len(got') <= Len(given')
       /\ \A i \in 1 .. Len(got') : got'[i] = given'[i].data
  <2>1. \A i \in 1 .. 0 : FALSE
    OBVIOUS
  <2> QED BY <1>8, <1>12, <2>1
<1> QED BY <1>8, <1>11, <1>15, <1>16 DEF CoderInv, Writing, Reading

\* WrapUpAndReceive() keeps it.
LEMMA WrapUpKeeps ==
  ASSUME CoderInv, NEW junk \in Junk, WrapUpAndReceive(junk)
  PROVE  CoderInv'
<1> DEFINE bytes == BytesOf(range_coder_get_length(writer))
<1>1. /\ reader = NoDecoder /\ writer.error # TRUE /\ bytes <= MaxBytes
      /\ writer' = range_enc_wrap_up(writer)
      /\ reader' = range_dec_init(writer'.buffer, bytes, junk)
      /\ given' = given /\ got' = got
  BY DEF WrapUpAndReceive
<1>2. given \in Seq(Symbols)
  BY DEF CoderInv
<1>3. PICK tr : Traced(tr, given) /\ (Writing(tr) \/ Reading(tr))
  BY DEF CoderInv
<1>4. Writing(tr)
  <2>1. ~Reading(tr)
    BY <1>1, ReadsOne DEF Reading
  <2> QED BY <1>3, <2>1
<1>5. Writes(writer, tr[Len(given)])
  BY <1>1, <1>4 DEF Writing, EncodedTo
<1>6. PICK n \in 1 .. MaxBytes, m \in [Memory -> Digits] :
        /\ n = bytes
        /\ Packet(m, n, tr, given)
        /\ Reads(range_dec_init(range_enc_wrap_up(writer).buffer, n, junk), m, Start, n)
  BY <1>1, <1>2, <1>3, <1>5, ReceivedIs
<1>7. Len(given) \in Nat /\ IsInterval(tr[Len(given)]) /\ tr[0] = Start
  <2>1. Len(given) \in Nat /\ Len(given) \in 0 .. Len(given)
    BY <1>2
  <2> QED BY <1>3, <2>1 DEF Traced
<1>8. writer'.wild = FALSE
  <2>1. WrappedUp(range_enc_wrap_up(writer), tr[Len(given)], bytes)
    BY <1>1, <1>5, <1>7, WrapUpIs
  <2> QED BY <1>1, <2>1 DEF WrappedUp
<1> HIDE DEF bytes
<1>9. Len(got') = 0 /\ got' = <<>>
  BY <1>1, <1>4 DEF Writing
<1>10. Reads(reader', m, tr[Len(got')], n)
  BY <1>1, <1>6, <1>7, <1>9
<1>11. \E any : /\ Traced(any, given')
                /\ \/ reader' = NoDecoder /\ got' = <<>> /\ EncodedTo(writer', any[Len(given')])
                   \/ \E k \in 1 .. MaxBytes : \E mm \in [Memory -> Digits] :
                        Packet(mm, k, any, given') /\ Reads(reader', mm, any[Len(got')], k)
  BY <1>1, <1>3, <1>6, <1>10
<1>12. /\ given' \in Seq(Symbols) /\ got' \in Seq(Nat) /\ Len(got') <= Len(given')
       /\ \A i \in 1 .. Len(got') : got'[i] = given'[i].data
  <2>1. \A i \in 1 .. 0 : FALSE
    OBVIOUS
  <2> QED BY <1>1, <1>2, <1>7, <1>9, <2>1
<1> QED BY <1>8, <1>11, <1>12 DEF CoderInv, Writing, Reading

\* Decode() keeps it, and returns the next symbol.
LEMMA DecodeKeeps ==
  ASSUME CoderInv, Decode
  PROVE  CoderInv'
<1> DEFINE k == Len(got)
           s == given[k + 1]
           read == range_decoder(reader, s.table)
           checked == IF k + 1 = Len(given) THEN range_coder_check_after_decoding(read.rc) ELSE read.rc
<1>1. /\ reader # NoDecoder /\ k < Len(given)
      /\ reader' = checked /\ got' = Append(got, read.data)
      /\ given' = given /\ writer' = writer
  BY DEF Decode
<1>2. /\ given \in Seq(Symbols) /\ got \in Seq(Nat) /\ writer.wild = FALSE
      /\ \A i \in 1 .. Len(got) : got[i] = given[i].data
  BY DEF CoderInv
<1>3. PICK tr : Traced(tr, given) /\ (Writing(tr) \/ Reading(tr))
  BY DEF CoderInv
<1>4. Reading(tr)
  BY <1>1, <1>3 DEF Writing
<1>5. PICK n \in 1 .. MaxBytes, m \in [Memory -> Digits] :
        Packet(m, n, tr, given) /\ Reads(reader, m, tr[k], n)
  BY <1>4 DEF Reading
<1>6. /\ k \in Nat /\ k \in 0 .. Len(given) /\ k + 1 \in 1 .. Len(given) /\ (k + 1) - 1 = k
      /\ k + 1 \in 0 .. Len(given) /\ n \in 0 .. MaxBytes /\ n \in Int /\ Len(given) \in Nat
  BY <1>1, <1>2, CoderAssumption
<1>7. s \in Symbols
  BY <1>2, <1>6
<1> HIDE DEF k, s
<1>8. /\ IsInterval(tr[k]) /\ tr[k + 1] = Narrowed(tr[k], s) /\ tr[k + 1].ix <= n
      /\ WithinSymbol(m, tr[k], s)
  <2>1. IsInterval(tr[k]) /\ tr[k + 1] = Narrowed(tr[(k + 1) - 1], given[k + 1])
    BY <1>3, <1>6 DEF Traced
  <2>2. tr[k + 1].ix <= n /\ WithinSymbol(m, tr[(k + 1) - 1], given[k + 1])
    BY <1>5, <1>6 DEF Packet
  <2> QED BY <1>6, <2>1, <2>2 DEF s
<1>9. read.data = s.data /\ Reads(read.rc, m, tr[k + 1], n)
  <2>1. Narrowed(tr[k], s).ix <= n
    BY <1>8
  <2>2. /\ range_decoder(reader, s.table).data = s.data
        /\ Reads(range_decoder(reader, s.table).rc, m, Narrowed(tr[k], s), n)
    BY <1>5, <1>6, <1>7, <1>8, <2>1, DecoderIs
  <2> QED BY <1>8, <2>2
<1> HIDE DEF read
<1>10. Reads(checked, m, tr[k + 1], n)
  <2>1. CASE k + 1 = Len(given)
    <3>1. Ended(m, n, tr[k + 1])
      BY <1>5, <2>1 DEF Packet
    <3>2. range_coder_check_after_decoding(read.rc) = read.rc
      BY <1>6, <1>9, <3>1, CheckIs
    <3> QED BY <1>9, <2>1, <3>2
  <2>2. CASE k + 1 # Len(given)
    BY <1>9, <2>2
  <2> QED BY <2>1, <2>2
<1>11. s.data \in Nat
  BY <1>7 DEF Symbols
<1>12. got' = Append(got, s.data) /\ got' \in Seq(Nat) /\ Len(got') = k + 1
  <2>1. got' = Append(got, s.data)
    BY <1>1, <1>9
  <2> QED BY <1>2, <1>11, <2>1 DEF k
<1>13. \A i \in 1 .. Len(got') : got'[i] = given'[i].data
  <2> SUFFICES ASSUME NEW i \in 1 .. k + 1 PROVE got'[i] = given[i].data
    BY <1>1, <1>12
  <2>1. CASE i = k + 1
    <3>1. got'[k + 1] = s.data
      BY <1>2, <1>11, <1>12 DEF k
    <3> QED BY <2>1, <3>1 DEF s
  <2>2. CASE i # k + 1
    <3>1. i \in 1 .. k
      BY <1>6, <2>2
    <3>2. got'[i] = got[i]
      BY <1>2, <1>11, <1>12, <3>1 DEF k
    <3> QED BY <1>2, <3>1, <3>2 DEF k
  <2> QED BY <2>1, <2>2
<1> HIDE DEF checked
<1>14. Reads(reader', m, tr[Len(got')], n)
  BY <1>1, <1>10, <1>12
<1>15. \E any : /\ Traced(any, given')
                /\ \/ reader' = NoDecoder /\ got' = <<>> /\ EncodedTo(writer', any[Len(given')])
                   \/ \E nn \in 1 .. MaxBytes : \E mm \in [Memory -> Digits] :
                        Packet(mm, nn, any, given') /\ Reads(reader', mm, any[Len(got')], nn)
  BY <1>1, <1>3, <1>5, <1>14
<1>16. /\ given' \in Seq(Symbols) /\ got' \in Seq(Nat) /\ Len(got') <= Len(given')
       /\ writer'.wild = FALSE
  BY <1>1, <1>2, <1>6, <1>12 DEF k
<1> QED BY <1>13, <1>15, <1>16 DEF CoderInv, Writing, Reading

(* The decoder returns the symbols that were encoded: whatever the symbols *)
(* and their tables are, and whatever the memory behind the packet holds,  *)
(* for every width of a byte (range_encoder(), range_enc_wrap_up(),        *)
(* range_decoder(), range_coder_check_after_decoding()).                   *)
THEOREM PacketsAreDecoded == CoderSpec => []DecodesWhatWasSent
<1>1. CoderInv /\ [CoderNext]_coderVars => CoderInv'
  <2> SUFFICES ASSUME CoderInv, [CoderNext]_coderVars PROVE CoderInv'
    OBVIOUS
  <2>1. ASSUME NEW table \in Tables, NEW data \in 0 .. Last(table) - 1, Encode(table, data)
        PROVE  CoderInv'
    BY <2>1, EncodeKeeps
  <2>2. ASSUME NEW junk \in Junk, WrapUpAndReceive(junk) PROVE CoderInv'
    BY <2>2, WrapUpKeeps
  <2>3. CASE Decode
    BY <2>3, DecodeKeeps
  <2>4. CASE UNCHANGED coderVars
    <3>1. writer' = writer /\ given' = given /\ reader' = reader /\ got' = got
      BY <2>4 DEF coderVars
    <3> QED BY <3>1 DEF CoderInv, Writing, Reading
  <2> QED BY <2>1, <2>2, <2>3, <2>4 DEF CoderNext
<1>2. CoderInv => DecodesWhatWasSent
  <2> SUFFICES ASSUME CoderInv PROVE DecodesWhatWasSent
    OBVIOUS
  <2>1. /\ writer.wild = FALSE /\ got \in Seq(Nat)
        /\ \A i \in 1 .. Len(got) : got[i] = given[i].data
    BY DEF CoderInv
  <2>2. got = [i \in 1 .. Len(got) |-> given[i].data]
    BY <2>1
  <2>3. reader.error = FALSE
    <3>1. PICK tr : Writing(tr) \/ Reading(tr)
      BY DEF CoderInv
    <3>2. CASE Writing(tr)
      BY <3>2 DEF Writing, NoDecoder, range_enc_init
    <3>3. CASE Reading(tr)
      BY <3>3 DEF Reading, Reads
    <3> QED BY <3>1, <3>2, <3>3
  <2> QED BY <2>1, <2>2, <2>3 DEF DecodesWhatWasSent
<1> QED BY <1>1, <1>2, CoderInvStarts, PTL DEF CoderSpec

-----------------------------------------------------------------------------
(* The inductive invariant.  While a packet is decoded, every call since   *)
(* it came has decoded one frame of it: the frames counted are the calls   *)
(* the next one is behind, and the code stops counting at MaxFrames.       *)

Decoder ==
  {"rate", "codebook", "LastGainIndex", "first_frame_after_reset", "typeOffsetPrev",
   "nFramesDecoded", "moreInternalDecoderFrames", "error", "oldRate", "call", "stream",
   "sent", "done", "frame", "behind"}

IsDecoder(d) == d = [f \in Decoder |-> d[f]]

CountsCalls(d) ==
  /\ d.nFramesDecoded \in Nat /\ d.behind \in Nat /\ d.behind < MaxFrames
  /\ d.call = "decoding" => d.behind = d.nFramesDecoded
  /\ d.call # "decoding" /\ d.moreInternalDecoderFrames =>
       d.behind + 1 = d.nFramesDecoded /\ d.nFramesDecoded < MaxFrames

StreamInv == IsDecoder(dec) /\ CountsCalls(dec)

\* What reading a symbol leaves alone.
SameCall(d, e) ==
  /\ e.nFramesDecoded = d.nFramesDecoded
  /\ e.behind = d.behind
  /\ e.call = d.call
  /\ e.sent = d.sent

\* A decoder that takes data is still in the same call.
LEMMA TakenIsSameCall ==
  ASSUME NEW d, NEW data, IsDecoder(d)
  PROVE  IsDecoder(Taken(d, data)) /\ SameCall(d, Taken(d, data))
<1> DEFINE next == [d EXCEPT !.done = @ + 1]
<1>1. IsDecoder(next) /\ SameCall(d, next)
  BY DEF IsDecoder, SameCall, Decoder
<1> HIDE DEF next
<1>2. ASSUME NEW e, e = decoder_set_fs(next, data)
      PROVE  IsDecoder(e) /\ SameCall(d, e)
  BY <1>1, <1>2 DEF decoder_set_fs, IsDecoder, SameCall, Decoder
<1>3. ASSUME Field(d) = "rate"
      PROVE  IsDecoder(Taken(d, data)) /\ SameCall(d, Taken(d, data))
  <2> DEFINE e == decoder_set_fs(next, data)
  <2>1. IsDecoder(e) /\ SameCall(d, e)
    BY <1>2
  <2>2. Taken(d, data) = [e EXCEPT !.frame.rate = data]
    BY <1>3 DEF Taken, next
  <2> HIDE DEF e
  <2> QED BY <2>1, <2>2 DEF IsDecoder, SameCall, Decoder
<1>4. ASSUME Field(d) = "type"
      PROVE  IsDecoder(Taken(d, data)) /\ SameCall(d, Taken(d, data))
  <2>1. Taken(d, data) =
          [next EXCEPT !.frame.sigtype = data \div 2, !.frame.offset = data % 2,
                       !.typeOffsetPrev = data]
    BY <1>4 DEF Taken, next
  <2> QED BY <1>1, <2>1 DEF IsDecoder, SameCall, Decoder
<1>5. ASSUME Field(d) = "gain"
      PROVE  IsDecoder(Taken(d, data)) /\ SameCall(d, Taken(d, data))
  <2> DEFINE level == GainDequantized(d, data)
  <2>1. Taken(d, data) =
          [next EXCEPT !.LastGainIndex = level, !.frame.levels = Append(@, level)]
    BY <1>5 DEF Taken, next
  <2> HIDE DEF level
  <2> QED BY <1>1, <2>1 DEF IsDecoder, SameCall, Decoder
<1>6. ASSUME Field(d) = "interp"
      PROVE  IsDecoder(Taken(d, data)) /\ SameCall(d, Taken(d, data))
  <2>1. Taken(d, data) =
          [next EXCEPT !.frame.interp = IF d.first_frame_after_reset THEN 4 ELSE data]
    BY <1>6 DEF Taken, next
  <2> QED BY <1>1, <2>1 DEF IsDecoder, SameCall, Decoder
<1>7. ASSUME Field(d) = "per"
      PROVE  IsDecoder(Taken(d, data)) /\ SameCall(d, Taken(d, data))
  <2>1. Taken(d, data) = [next EXCEPT !.frame.per = data]
    BY <1>7 DEF Taken, next
  <2> QED BY <1>1, <2>1 DEF IsDecoder, SameCall, Decoder
<1>8. ASSUME Field(d) \notin {"rate", "type", "gain", "interp", "per"}
      PROVE  IsDecoder(Taken(d, data)) /\ SameCall(d, Taken(d, data))
  <2>1. Taken(d, data) = next
    BY <1>8 DEF Taken, next
  <2> QED BY <1>1, <2>1
<1> QED BY <1>3, <1>4, <1>5, <1>6, <1>7, <1>8

\* So is one that reads a frame.
LEMMA ReadingIsSameCall ==
  ASSUME NEW d, IsDecoder(d), NEW e \in Readings(d)
  PROVE  IsDecoder(e) /\ SameCall(d, e)
<1>1. CASE d.error
  BY <1>1, TakenIsSameCall DEF Readings
<1>2. CASE ~d.error /\ InStep(d)
  <2> DEFINE f == [d EXCEPT !.stream = Tail(@)]
  <2>1. IsDecoder(f) /\ SameCall(d, f)
    BY DEF IsDecoder, SameCall, Decoder
  <2>2. e = Taken(f, Head(d.stream).data)
    BY <1>2 DEF Readings
  <2> HIDE DEF f
  <2> QED BY <2>1, <2>2, TakenIsSameCall DEF SameCall
<1>3. CASE ~d.error /\ ~InStep(d)
  <2> DEFINE lost == [d EXCEPT !.stream = Noise]
             failed == [lost EXCEPT !.error = TRUE]
  <2>1. IsDecoder(lost) /\ SameCall(d, lost) /\ IsDecoder(failed) /\ SameCall(d, failed)
    BY DEF IsDecoder, SameCall, Decoder
  <2>2. \/ \E data \in Alphabet(TableOf(d)) : e = Taken(lost, data)
        \/ e = Taken(failed, 0)
    BY <1>3 DEF Readings
  <2> HIDE DEF lost, failed
  <2> QED BY <2>1, <2>2, TakenIsSameCall DEF SameCall
<1> QED BY <1>1, <1>2, <1>3

-----------------------------------------------------------------------------
(* The calls.                                                              *)

\* A concealed frame is counted.
LEMMA ConcealedCounts ==
  ASSUME NEW d, IsDecoder(d), CountsCalls(d)
  PROVE  IsDecoder(Concealed(d)) /\ CountsCalls(Concealed(d))
BY DEF Concealed, IsDecoder, CountsCalls, Decoder, MaxFrames

\* So is a decoded one.
LEMMA DecodedCounts ==
  ASSUME NEW d, NEW termination, NEW left, IsDecoder(d), CountsCalls(d), d.call = "decoding"
  PROVE  IsDecoder(Decoded(d, termination, left)) /\ CountsCalls(Decoded(d, termination, left))
<1> DEFINE counted == [d EXCEPT !.call = "decoded", !.nFramesDecoded = @ + 1, !.done = 0,
                                !.first_frame_after_reset = FALSE]
           more == MoreFollow(counted, termination, left)
           e == Decoded(d, termination, left)
<1>1. /\ IsDecoder(counted) /\ counted.call = "decoded" /\ counted.behind = d.behind
      /\ counted.nFramesDecoded = d.nFramesDecoded + 1
  BY DEF IsDecoder, Decoder
<1>2. e = [counted EXCEPT !.moreInternalDecoderFrames = more,
                          !.frame = IF d.stream = Noise /\ d.sent = <<>> THEN NoFrame ELSE @]
  BY DEF Decoded
<1>3. more => counted.nFramesDecoded < MaxFrames
  BY DEF MoreFollow
<1> HIDE DEF counted, more, e
<1>4. /\ IsDecoder(e) /\ e.call = "decoded" /\ e.behind = d.behind
      /\ e.nFramesDecoded = d.nFramesDecoded + 1 /\ e.moreInternalDecoderFrames = more
  BY <1>1, <1>2 DEF IsDecoder, Decoder
<1>5. CountsCalls(e)
  BY <1>1, <1>3, <1>4 DEF CountsCalls
<1> QED BY <1>4, <1>5 DEF e

\* A packet that is received keeps the invariant.
LEMMA ReceiveCounts ==
  ASSUME NEW symbols, NEW frames, StreamInv, Receive(symbols, frames)
  PROVE  StreamInv'
<1>1. CASE dec.moreInternalDecoderFrames
  BY <1>1 DEF StreamInv, Receive, IsDecoder, CountsCalls, Decoder, MaxFrames
<1>2. CASE ~dec.moreInternalDecoderFrames
  <2>1. PICK sent : dec' = [dec EXCEPT !.call = "decoding", !.done = 0, !.behind = 0,
                                       !.frame = NoFrame, !.oldRate = dec.rate,
                                       !.nFramesDecoded = 0, !.error = FALSE,
                                       !.stream = symbols, !.sent = sent]
    BY <1>2, Zenon DEF Receive
  <2>2. IsDecoder(dec)'
    BY <2>1 DEF StreamInv, IsDecoder, Decoder
  <2>3. dec'.call = "decoding" /\ dec'.behind = 0 /\ dec'.nFramesDecoded = 0
    BY <2>1 DEF StreamInv, IsDecoder, Decoder
  <2> QED BY <2>2, <2>3 DEF StreamInv, CountsCalls, MaxFrames
<1> QED BY <1>1, <1>2

\* So does the end of a frame.
LEMMA EndFrameCounts == StreamInv /\ EndFrame => StreamInv'
<1> SUFFICES ASSUME StreamInv, EndFrame PROVE StreamInv'
  OBVIOUS
<1> DEFINE tail == [dec EXCEPT !.stream = Tail(@)]
           noise == [dec EXCEPT !.stream = Noise]
<1>1. /\ IsDecoder(tail) /\ CountsCalls(tail) /\ tail.call = "decoding"
      /\ IsDecoder(noise) /\ CountsCalls(noise) /\ noise.call = "decoding"
  BY DEF StreamInv, EndFrame, IsDecoder, CountsCalls, Decoder
<1>2. \/ dec' = Concealed(dec)
      \/ dec' = Decoded(tail, Head(dec.stream).data, Len(dec.stream) > 1)
      \/ \E termination, left : dec' = Decoded(noise, termination, left)
  BY DEF EndFrame
<1> HIDE DEF tail, noise
<1> QED BY <1>1, <1>2, ConcealedCounts, DecodedCounts DEF StreamInv

\* Every step keeps the count.
LEMMA StreamInvKept == ASSUME StreamInv, [StreamNext]_streamVars PROVE StreamInv'
<1>1. CASE UNCHANGED dec
  BY <1>1 DEF StreamInv, IsDecoder, CountsCalls
<1>2. CASE ReceiveIntact \/ ReceiveNoise
  BY <1>2, ReceiveCounts DEF ReceiveIntact, ReceiveNoise
<1>3. CASE ReadSymbol
  BY <1>3, ReadingIsSameCall DEF ReadSymbol, StreamInv, CountsCalls, SameCall
<1>4. CASE EndFrame
  BY <1>4, EndFrameCounts
<1> QED
  BY <1>1, <1>2, <1>3, <1>4
     DEF StreamNext, streamVars, EncodeFrame, EncodeFails, ChangeRate, Lose

-----------------------------------------------------------------------------
(* However packets are damaged, and whatever number of frames they claim   *)
(* to hold, what a call of SILK8.decode() decodes is at most four calls    *)
(* old: `nFramesDecoded < 5' ends the packet.                              *)
THEOREM NeverFarBehind == StreamSpec => []BehindIsBounded
<1>1. StreamInit => StreamInv
  BY DEF StreamInit, StreamInv, IsDecoder, CountsCalls, Decoder, MaxFrames
<1>2. StreamInv /\ [StreamNext]_streamVars => StreamInv'
  BY StreamInvKept
<1>3. StreamInv => BehindIsBounded
  BY DEF StreamInv, CountsCalls, BehindIsBounded
<1> QED BY <1>1, <1>2, <1>3, PTL DEF StreamSpec

-----------------------------------------------------------------------------
(* The gains of a frame.                                                   *)

\* k gains after prev: each index is one of its table, and stands for its level.
QuantizedTo(q, prev, conditional, k) ==
  /\ q.last \in Levels
  /\ Sequence(q.ind) /\ Len(q.ind) = k
  /\ Sequence(q.levels) /\ Len(q.levels) = k
  /\ q.last = IF k = 0 THEN prev ELSE q.levels[k]
  /\ \A i \in 1 .. k :
       /\ q.levels[i] \in Int
       /\ IF i = 1 /\ ~conditional
          THEN q.ind[i] \in 0 .. N_LEVELS_QGAIN - 1 /\ q.levels[i] = q.ind[i]
          ELSE /\ q.ind[i] \in 0 .. MAX_DELTA_GAIN_QUANT - MIN_DELTA_GAIN_QUANT
               /\ q.levels[i] = (IF i = 1 THEN prev ELSE q.levels[i - 1])
                                + q.ind[i] + MIN_DELTA_GAIN_QUANT

\* One index.
LEMMA OneQuantized ==
  ASSUME NEW levels \in [1 .. NB_SUBFR -> Levels], NEW last \in Levels,
         NEW conditional \in BOOLEAN, NEW k \in 1 .. NB_SUBFR
  PROVE  LET q == Quantized(levels, last, conditional, k) IN
         /\ q.prev \in Levels
         /\ IF k = 1 /\ ~conditional
            THEN q.ind \in 0 .. N_LEVELS_QGAIN - 1 /\ q.prev = q.ind
            ELSE /\ q.ind \in 0 .. MAX_DELTA_GAIN_QUANT - MIN_DELTA_GAIN_QUANT
                 /\ q.prev = last + q.ind + MIN_DELTA_GAIN_QUANT
<1> DEFINE level == IF levels[k] < last THEN levels[k] + 1 ELSE levels[k]
           full == Larger(Limit(level, 0, N_LEVELS_QGAIN - 1), last + MIN_DELTA_GAIN_QUANT)
           delta == Limit(level - last, MIN_DELTA_GAIN_QUANT, MAX_DELTA_GAIN_QUANT)
           q == Quantized(levels, last, conditional, k)
<1>1. /\ level \in Int /\ last \in Int /\ last + MIN_DELTA_GAIN_QUANT < N_LEVELS_QGAIN
      /\ level <= last \/ level + MIN_DELTA_GAIN_QUANT < N_LEVELS_QGAIN
  BY StreamAssumption DEF Levels
<1>2. full \in 0 .. N_LEVELS_QGAIN - 1
  BY <1>1, StreamAssumption DEF Limit, Larger
<1>3. /\ delta \in MIN_DELTA_GAIN_QUANT .. MAX_DELTA_GAIN_QUANT
      /\ last + delta <= last \/ last + delta <= level
  BY <1>1, StreamAssumption, SMTT(30) DEF Limit
<1>4. q = IF k = 1 /\ ~conditional THEN [prev |-> full, ind |-> full]
          ELSE [prev |-> last + delta, ind |-> delta - MIN_DELTA_GAIN_QUANT]
  BY DEF Quantized
<1> HIDE DEF level, full, delta, q
<1>5. CASE k = 1 /\ ~conditional
  BY <1>2, <1>4, <1>5, StreamAssumption DEF Levels, q
<1>6. CASE ~(k = 1 /\ ~conditional)
  <2>1. q.prev = last + delta /\ q.ind = delta - MIN_DELTA_GAIN_QUANT
    BY <1>4, <1>6
  <2>2. q.prev \in Levels
    BY <1>1, <1>3, <2>1, StreamAssumption DEF Levels
  <2>3. /\ q.ind \in 0 .. MAX_DELTA_GAIN_QUANT - MIN_DELTA_GAIN_QUANT
        /\ q.prev = last + q.ind + MIN_DELTA_GAIN_QUANT
    BY <1>1, <1>3, <2>1, StreamAssumption
  <2> QED BY <1>6, <2>2, <2>3 DEF q
<1> QED BY <1>5, <1>6

\* SKP_Silk_gains_quant(): all of them, by induction over the subframes.
LEMMA GainsQuantized ==
  ASSUME NEW levels \in [1 .. NB_SUBFR -> Levels], NEW prev \in Levels,
         NEW conditional \in BOOLEAN
  PROVE  QuantizedTo(gains_quant(levels, prev, conditional), prev, conditional, NB_SUBFR)
<1> DEFINE Following(q, k) == 
             LET r == Quantized(levels, q.last, conditional, k)
             IN [last |-> r.prev, ind |-> Append(q.ind, r.ind),
                 levels |-> Append(q.levels, r.prev)]
           First == [last |-> prev, ind |-> <<>>, levels |-> <<>>]
           from == CHOOSE f : f = [k \in 0 .. NB_SUBFR |-> IF k = 0 THEN First ELSE Following(f[k - 1], k)]
           Upto(n) == \E f : f = [k \in 0 .. n |-> IF k = 0 THEN First ELSE Following(f[k - 1], k)]
<1>1. gains_quant(levels, prev, conditional) = from[NB_SUBFR]
  BY DEF gains_quant
<1> HIDE DEF Following, First
<1>2. Upto(0)
  <2>1. [k \in 0 .. 0 |-> First]
          = [k \in 0 .. 0 |-> IF k = 0 THEN First ELSE Following([j \in 0 .. 0 |-> First][k - 1], k)]
    OBVIOUS
  <2> QED BY <2>1
<1>3. ASSUME NEW n \in Nat, Upto(n)
      PROVE  Upto(n + 1)
  <2>1. PICK f : f = [k \in 0 .. n |-> IF k = 0 THEN First ELSE Following(f[k - 1], k)]
    BY <1>3
  <2> DEFINE g == [k \in 0 .. n + 1 |-> IF k <= n THEN f[k] ELSE Following(f[n], n + 1)]
  <2>2. ASSUME NEW k \in 0 .. n + 1
        PROVE  g[k] = IF k = 0 THEN First ELSE Following(g[k - 1], k)
    <3>1. CASE k <= n
      <4>1. f[k] = IF k = 0 THEN First ELSE Following(f[k - 1], k)
        BY <2>1, <3>1
      <4>2. g[k] = f[k] /\ (k # 0 => g[k - 1] = f[k - 1])
        BY <3>1
      <4> QED BY <4>1, <4>2
    <3>2. CASE k = n + 1
      BY <3>2
    <3> QED BY <3>1, <3>2
  <2>3. g = [k \in 0 .. n + 1 |-> IF k = 0 THEN First ELSE Following(g[k - 1], k)]
    BY <2>2
  <2> QED BY <2>3
<1>4. Upto(NB_SUBFR)
  <2> DEFINE S == {n \in Nat : Upto(n)}
  <2> HIDE DEF Upto
  <2>1. 0 \in S /\ \A n \in Nat : n \in S => n + 1 \in S
    BY <1>2, <1>3
  <2> HIDE DEF S
  <2>2. NB_SUBFR \in S
    BY <2>1, Induction, StreamAssumption
  <2> QED BY <2>2 DEF S
<1>5. from = [k \in 0 .. NB_SUBFR |-> IF k = 0 THEN First ELSE Following(from[k - 1], k)]
  BY <1>4
<1> HIDE DEF from
<1>6. from[0] = First /\ \A k \in 1 .. NB_SUBFR : from[k] = Following(from[k - 1], k)
  BY <1>5, StreamAssumption
<1> DEFINE S == {n \in Nat : n <= NB_SUBFR => QuantizedTo(from[n], prev, conditional, n)}
<1>7. 0 \in S
  <2>1. Sequence(<<>>) /\ Len(<<>>) = 0
    BY DEF Sequence
  <2> QED BY <1>6, <2>1, StreamAssumption DEF QuantizedTo, First
<1>8. ASSUME NEW n \in Nat, n \in S
      PROVE  n + 1 \in S
  <2> SUFFICES ASSUME n + 1 <= NB_SUBFR
               PROVE  QuantizedTo(from[n + 1], prev, conditional, n + 1)
    OBVIOUS
  <2> DEFINE q == from[n]
             r == Quantized(levels, q.last, conditional, n + 1)
             p == from[n + 1]
  <2>1. QuantizedTo(q, prev, conditional, n) /\ n + 1 \in 1 .. NB_SUBFR
    BY <1>8, StreamAssumption
  <2>2. p = [last |-> r.prev, ind |-> Append(q.ind, r.ind), levels |-> Append(q.levels, r.prev)]
    <3>1. p = Following(from[(n + 1) - 1], n + 1)
      BY <1>6, <2>1
    <3>2. p = Following(q, n + 1)
      BY <3>1
    <3> QED BY <3>2 DEF Following
  <2> HIDE DEF q, r, p
  <2>3. /\ r.prev \in Levels
        /\ IF n + 1 = 1 /\ ~conditional
           THEN r.ind \in 0 .. N_LEVELS_QGAIN - 1 /\ r.prev = r.ind
           ELSE /\ r.ind \in 0 .. MAX_DELTA_GAIN_QUANT - MIN_DELTA_GAIN_QUANT
                /\ r.prev = q.last + r.ind + MIN_DELTA_GAIN_QUANT
    <3>1. q.last \in Levels
      BY <2>1 DEF QuantizedTo
    <3> QED BY <2>1, <3>1, OneQuantized, Zenon DEF r
  <2>4. /\ Sequence(p.ind) /\ Len(p.ind) = n + 1 /\ p.ind[n + 1] = r.ind
        /\ \A i \in 1 .. n : p.ind[i] = q.ind[i]
    BY <2>1, <2>2, Appended DEF QuantizedTo
  <2>5. /\ Sequence(p.levels) /\ Len(p.levels) = n + 1 /\ p.levels[n + 1] = r.prev
        /\ \A i \in 1 .. n : p.levels[i] = q.levels[i]
    BY <2>1, <2>2, Appended DEF QuantizedTo
  <2>6. p.last = r.prev
    BY <2>2
  <2>7. ASSUME NEW i \in 1 .. n + 1
        PROVE  /\ p.levels[i] \in Int
               /\ IF i = 1 /\ ~conditional
                  THEN p.ind[i] \in 0 .. N_LEVELS_QGAIN - 1 /\ p.levels[i] = p.ind[i]
                  ELSE /\ p.ind[i] \in 0 .. MAX_DELTA_GAIN_QUANT - MIN_DELTA_GAIN_QUANT
                       /\ p.levels[i] = (IF i = 1 THEN prev ELSE p.levels[i - 1])
                                        + p.ind[i] + MIN_DELTA_GAIN_QUANT
    <3>1. CASE i \in 1 .. n
      <4>1. /\ p.levels[i] = q.levels[i] /\ p.ind[i] = q.ind[i]
        BY <2>4, <2>5, <3>1
      <4>2. ASSUME i # 1
            PROVE  p.levels[i - 1] = q.levels[i - 1]
        <5>1. i - 1 \in 1 .. n
          BY <3>1, <4>2
        <5> QED BY <2>5, <5>1
      <4> QED BY <2>1, <3>1, <4>1, <4>2 DEF QuantizedTo
    <3>2. CASE i = n + 1
      <4>1. n # 0 => p.levels[n] = q.levels[n]
        BY <2>5
      <4>2. q.last = IF n = 0 THEN prev ELSE q.levels[n]
        BY <2>1 DEF QuantizedTo
      <4> QED BY <2>3, <2>4, <2>5, <3>2, <4>1, <4>2 DEF Levels
    <3> QED BY <3>1, <3>2
  <2> QED BY <2>3, <2>4, <2>5, <2>6, <2>7 DEF QuantizedTo, p
<1> HIDE DEF S
<1>9. NB_SUBFR \in S
  BY <1>7, <1>8, Induction, StreamAssumption
<1> QED BY <1>1, <1>9, StreamAssumption DEF S

-----------------------------------------------------------------------------
(* The symbols of a packet, each at its place.                             *)

\* The rate is the first symbol of the first frame.
Lead(n) == IF n = 1 THEN 1 ELSE 0
VoicedLength(sigtype) == IF sigtype = VOICED THEN NB_SUBFR + 4 ELSE 0
BlockLength(n, sigtype) == Lead(n) + NB_SUBFR + 7 + VoicedLength(sigtype)

\* What the i-th symbol of the n-th frame of a packet is about.
Place(n, sigtype, i) ==
  LET j == i - Lead(n)
      v == VoicedLength(sigtype)
  IN IF j < 1 THEN "rate" ELSE IF j = 1 THEN "type" ELSE IF j <= NB_SUBFR + 1 THEN "gain"
     ELSE IF j = NB_SUBFR + 2 THEN "NLSF" ELSE IF j = NB_SUBFR + 3 THEN "interp"
     ELSE IF j <= NB_SUBFR + 3 + v
     THEN IF j = NB_SUBFR + 4 THEN "lag" ELSE IF j = NB_SUBFR + 5 THEN "contour"
          ELSE IF j = NB_SUBFR + 6 THEN "per" ELSE IF j <= 2 * NB_SUBFR + 6 THEN "LTP"
          ELSE "scale"
     ELSE IF j = NB_SUBFR + 4 + v THEN "seed" ELSE IF j = NB_SUBFR + 5 + v THEN "pulses"
     ELSE IF j = NB_SUBFR + 6 + v THEN "VAD" ELSE "termination"

\* What encode_parameters() may have been given for a frame.
SentFrames ==
  {x \in [rate : 0 .. Len(SamplingRates) - 1, sigtype : {0, 1}, offset : {0, 1},
          interp : Interps, per : PerIndices \cup {0}, levels : [1 .. NB_SUBFR -> Int]] :
     x.sigtype # VOICED => x.per = 0}

\* The index of the signal type and the quantizer offset.
TypeOf(x) == 2 * x.sigtype + x.offset

\* The first gain of a packet is a level, the others are differences.
GainIndex(frames, n, k) ==
  IF n = 1 /\ k = 1 THEN frames[n].levels[k]
  ELSE frames[n].levels[k] - MIN_DELTA_GAIN_QUANT
       - (IF k = 1 THEN frames[n - 1].levels[NB_SUBFR] ELSE frames[n].levels[k - 1])

\* The symbol a packet of these frames has there.
TableAt(frames, n, i) ==
  LET x == frames[n]
      rate == SamplingRates[x.rate + 1]
      place == Place(n, x.sigtype, i)
  IN CASE place = "rate" -> RateTable
       [] place = "type" -> TypeTable(n - 1, IF n = 1 THEN 0 ELSE TypeOf(frames[n - 1]))
       [] place = "gain" -> GainTable(n - 1, i - Lead(n) - 1, x.sigtype)
       [] place = "NLSF" -> NLSFTable(Codebook(rate), x.sigtype)
       [] place = "interp" -> <<"NLSF_interpolation_factor">>
       [] place = "lag" -> LagTable(rate)
       [] place = "contour" -> ContourTable(rate)
       [] place = "per" -> <<"LTP_per_index">>
       [] place = "LTP" -> LTPTable(x.per)
       [] place = "scale" -> <<"LTPscale">>
       [] place = "seed" -> <<"Seed">>
       [] place = "pulses" -> PulseTable(x.sigtype, x.offset, rate)
       [] place = "VAD" -> <<"vadflag">>
       [] place = "termination" -> TerminationTable

\* And its index, as far as the frame determines it.
IsDataAt(data, frames, n, i) ==
  LET x == frames[n]
      place == Place(n, x.sigtype, i)
  IN CASE place = "rate" -> data = x.rate
       [] place = "type" -> data = TypeOf(x)
       [] place = "gain" -> data = GainIndex(frames, n, i - Lead(n) - 1)
       [] place = "interp" -> data = x.interp
       [] place = "per" -> data = x.per
       [] place = "termination" -> n < Len(frames) => data = MORE_FRAMES
       [] OTHER -> TRUE

IsSymbolAt(s, frames, n, i) ==
  s.table = TableAt(frames, n, i) /\ IsDataAt(s.data, frames, n, i)

\* The symbols left of a packet of these frames, of which done have been read.  The n-th
\* frame ends at cut[n].
Layout(symbols, done, frames, cut) ==
  /\ Sequence(frames) /\ Len(frames) <= MaxFrames
  /\ \A n \in 1 .. Len(frames) : frames[n] \in SentFrames /\ frames[n].rate = frames[1].rate
  /\ cut \in [0 .. Len(frames) -> Nat] /\ cut[0] = 0
  /\ \A n \in 1 .. Len(frames) : cut[n] = cut[n - 1] + BlockLength(n, frames[n].sigtype)
  /\ \A m, n \in 0 .. Len(frames) : m < n => cut[m] < cut[n]
  /\ Sequence(symbols) /\ Len(symbols) = cut[Len(frames)] - done
  /\ \A n \in 1 .. Len(frames) : \A i \in 1 .. BlockLength(n, frames[n].sigtype) :
       cut[n - 1] + i > done => IsSymbolAt(symbols[cut[n - 1] + i - done], frames, n, i)

-----------------------------------------------------------------------------
(* The inductive invariant of the contents.                                *)

Encoder == {"rate", "LastGainIndex", "typeOffsetPrev", "nFramesInPayloadBuf", "symbols", "frames"}
IsEncoder(e) == e = [f \in Encoder |-> e[f]]

InAlphabet(symbols) ==
  \A i \in 1 .. Len(symbols) : symbols[i].data \in Alphabet(symbols[i].table)

\* The packet being written.
EncoderInv(e) ==
  LET n == Len(e.frames) IN
  /\ IsEncoder(e)
  /\ e.rate \in 0 .. Len(SamplingRates) - 1 /\ e.LastGainIndex \in Levels
  /\ e.typeOffsetPrev \in 0 .. 3
  /\ \E cut : Layout(e.symbols, 0, e.frames, cut)
  /\ InAlphabet(e.symbols)
  /\ n = e.nFramesInPayloadBuf /\ n < size
  /\ n > 0 => /\ e.rate = e.frames[1].rate
              /\ e.typeOffsetPrev = TypeOf(e.frames[n])
              /\ e.LastGainIndex = e.frames[n].levels[NB_SUBFR]
              /\ e.symbols[Len(e.symbols)].data = MORE_FRAMES

\* The packet under way.
WireInv(w) ==
  /\ Sequence(w.symbols) /\ InAlphabet(w.symbols)
  /\ \E cut : Layout(w.symbols, 0, w.frames, cut)

FrameFields == {"rate", "sigtype", "offset", "levels", "interp", "per"}
IsFrame(x) == x = [f \in FrameFields |-> x[f]]

\* The decoder has the states the encoder had when it wrote the next symbol.
InStepWithPeer(d) ==
  LET n == d.nFramesDecoded + 1
      x == d.sent[n]
      j == d.done - Lead(n)
  IN /\ n \in 1 .. Len(d.sent)
     /\ \E cut : Layout(d.stream, cut[n - 1] + d.done, d.sent, cut)
     /\ d.done \in 0 .. BlockLength(n, x.sigtype) - 1
     /\ d.error = FALSE
     /\ d.codebook = Codebook(SamplingRates[d.rate + 1])
     /\ j >= 0 => d.rate = x.rate
     /\ IF j >= 1 THEN d.typeOffsetPrev = TypeOf(x)
        ELSE n > 1 => d.typeOffsetPrev = TypeOf(d.sent[n - 1])
     /\ IF j >= 2 THEN d.LastGainIndex = x.levels[Limit(j - 1, 1, NB_SUBFR)]
        ELSE n > 1 => d.LastGainIndex = d.sent[n - 1].levels[NB_SUBFR]

\* What has been read of a frame is what was sent.
ReadSoFar(d) ==
  LET n == d.nFramesDecoded + 1
      x == d.sent[n]
      j == d.done - Lead(n)
      frame == d.frame
  IN /\ IsFrame(frame)
     /\ j >= 0 => frame.rate = x.rate
     /\ j >= 1 => frame.sigtype = x.sigtype /\ frame.offset = x.offset
     /\ Sequence(frame.levels) /\ Len(frame.levels) = Limit(j - 1, 0, NB_SUBFR)
     /\ \A k \in 1 .. Len(frame.levels) : frame.levels[k] = x.levels[k]
     /\ frame.interp \in {x.interp, 4}
     /\ frame.per = IF x.sigtype = VOICED /\ j >= NB_SUBFR + 6 THEN x.per ELSE 0

\* Between two calls the last frame decoded is one that was sent, and the next call, if
\* one is left, is in step.
FrameDecoded(d) ==
  /\ d.call = "decoded"
  /\ d.nFramesDecoded \in 1 .. Len(d.sent)
  /\ d.frame \in {d.sent[d.nFramesDecoded], [d.sent[d.nFramesDecoded] EXCEPT !.interp = 4]}
  /\ d.moreInternalDecoderFrames = (d.nFramesDecoded < Len(d.sent))
  /\ d.moreInternalDecoderFrames => d.done = 0 /\ InStepWithPeer(d)

DecoderInv(d) ==
  /\ IsDecoder(d) /\ d.nFramesDecoded \in Nat
  /\ Sequence(d.sent)
  /\ d.sent # <<>> => IF d.call = "decoding" THEN InStepWithPeer(d) /\ ReadSoFar(d)
                      ELSE FrameDecoded(d)

ContentInv ==
  /\ size \in PacketSizes
  /\ EncoderInv(enc)
  /\ WireInv(wire)
  /\ DecoderInv(dec)

-----------------------------------------------------------------------------
(* Symbols and fields come in the same order.                              *)

IsThree(s, a, b, c) ==
  Sequence(a) /\ Sequence(b) /\ Sequence(c) /\ s = a \o b \o c

IsSix(s, a, b, c, d, e, f) ==
  /\ Sequence(a) /\ Sequence(b) /\ Sequence(c) /\ Sequence(d) /\ Sequence(e) /\ Sequence(f)
  /\ s = a \o b \o c \o d \o e \o f

\* Where an element of a concatenation comes from.
LEMMA ThreeParts ==
  ASSUME NEW s, NEW a, NEW b, NEW c, IsThree(s, a, b, c)
  PROVE  /\ Sequence(s) /\ Len(s) = Len(a) + Len(b) + Len(c)
         /\ \A i \in 1 .. Len(s) :
              s[i] = IF i <= Len(a) THEN a[i] ELSE IF i <= Len(a) + Len(b) THEN b[i - Len(a)]
                     ELSE c[i - Len(a) - Len(b)]
<1> USE DEF IsThree
<1>1. /\ Sequence(a \o b) /\ Len(a \o b) = Len(a) + Len(b)
      /\ \A i \in 1 .. Len(a) + Len(b) :
           (a \o b)[i] = IF i <= Len(a) THEN a[i] ELSE b[i - Len(a)]
  BY Concatenated
<1> DEFINE ab == a \o b
<1> HIDE DEF ab
<1>2. /\ Sequence(ab \o c) /\ Len(ab \o c) = Len(ab) + Len(c)
      /\ \A i \in 1 .. Len(ab) + Len(c) :
           (ab \o c)[i] = IF i <= Len(ab) THEN ab[i] ELSE c[i - Len(ab)]
  BY <1>1, Concatenated DEF ab
<1>3. Len(a) \in Nat /\ Len(b) \in Nat /\ Len(c) \in Nat
  BY DEF Sequence
<1>4. ASSUME NEW i \in 1 .. Len(a) + Len(b) + Len(c)
      PROVE  (ab \o c)[i] = IF i <= Len(a) THEN a[i]
                            ELSE IF i <= Len(a) + Len(b) THEN b[i - Len(a)]
                            ELSE c[i - Len(a) - Len(b)]
  <2>1. CASE i <= Len(a) + Len(b)
    BY <1>1, <1>2, <1>3, <2>1 DEF ab
  <2>2. CASE i > Len(a) + Len(b)
    BY <1>1, <1>2, <1>3, <2>2 DEF ab
  <2>3. i <= Len(a) + Len(b) \/ i > Len(a) + Len(b)
    BY <1>3
  <2> QED BY <2>1, <2>2, <2>3, Zenon
<1> QED BY <1>1, <1>2, <1>4 DEF ab

\* And of six sequences.
LEMMA SixParts ==
  ASSUME NEW s, NEW a, NEW b, NEW c, NEW d, NEW e, NEW f, IsSix(s, a, b, c, d, e, f)
  PROVE  LET l == Len(a) + Len(b) + Len(c) IN
         /\ Sequence(s) /\ Len(s) = l + Len(d) + Len(e) + Len(f)
         /\ \A i \in 1 .. Len(s) :
              s[i] = IF i <= Len(a) THEN a[i] ELSE IF i <= Len(a) + Len(b) THEN b[i - Len(a)]
                     ELSE IF i <= l THEN c[i - Len(a) - Len(b)]
                     ELSE IF i <= l + Len(d) THEN d[i - l]
                     ELSE IF i <= l + Len(d) + Len(e) THEN e[i - l - Len(d)]
                     ELSE f[i - l - Len(d) - Len(e)]
<1> DEFINE abc == a \o b \o c
           abcde == abc \o d \o e
           l == Len(a) + Len(b) + Len(c)
<1>1. /\ Sequence(abc) /\ Len(abc) = l
      /\ \A i \in 1 .. Len(abc) :
           abc[i] = IF i <= Len(a) THEN a[i] ELSE IF i <= Len(a) + Len(b) THEN b[i - Len(a)]
                    ELSE c[i - Len(a) - Len(b)]
  <2>1. IsThree(abc, a, b, c)
    BY DEF IsSix, IsThree
  <2> HIDE DEF abc
  <2> QED BY <2>1, ThreeParts
<1> HIDE DEF abc
<1>2. /\ Sequence(abcde) /\ Len(abcde) = Len(abc) + Len(d) + Len(e)
      /\ \A i \in 1 .. Len(abcde) :
           abcde[i] = IF i <= Len(abc) THEN abc[i]
                      ELSE IF i <= Len(abc) + Len(d) THEN d[i - Len(abc)]
                      ELSE e[i - Len(abc) - Len(d)]
  <2>1. IsThree(abcde, abc, d, e)
    BY <1>1 DEF IsSix, IsThree
  <2> HIDE DEF abcde
  <2> QED BY <2>1, ThreeParts
<1> HIDE DEF abcde
<1>3. /\ Sequence(abcde \o f) /\ Len(abcde \o f) = Len(abcde) + Len(f)
      /\ \A i \in 1 .. Len(abcde) + Len(f) :
           (abcde \o f)[i] = IF i <= Len(abcde) THEN abcde[i] ELSE f[i - Len(abcde)]
  BY <1>2, Concatenated DEF IsSix
<1>4. /\ Len(a) \in Nat /\ Len(b) \in Nat /\ Len(c) \in Nat
      /\ Len(d) \in Nat /\ Len(e) \in Nat /\ Len(f) \in Nat
  BY DEF Sequence, IsSix
<1>5. ASSUME NEW i \in 1 .. l + Len(d) + Len(e) + Len(f)
      PROVE  (abcde \o f)[i] =
               IF i <= Len(a) THEN a[i] ELSE IF i <= Len(a) + Len(b) THEN b[i - Len(a)]
               ELSE IF i <= l THEN c[i - Len(a) - Len(b)]
               ELSE IF i <= l + Len(d) THEN d[i - l]
               ELSE IF i <= l + Len(d) + Len(e) THEN e[i - l - Len(d)]
               ELSE f[i - l - Len(d) - Len(e)]
  <2>1. CASE i <= l
    <3>1. (abcde \o f)[i] = abc[i]
      BY <1>1, <1>2, <1>3, <1>4, <2>1
    <3> QED BY <1>1, <1>4, <2>1, <3>1
  <2>2. CASE i > l /\ i <= l + Len(d) + Len(e)
    <3>1. (abcde \o f)[i] = abcde[i]
      BY <1>1, <1>2, <1>3, <1>4, <2>2
    <3> QED BY <1>1, <1>2, <1>4, <2>2, <3>1
  <2>3. CASE i > l + Len(d) + Len(e)
    BY <1>1, <1>2, <1>3, <1>4, <2>3
  <2>4. i <= l \/ (i > l /\ i <= l + Len(d) + Len(e)) \/ i > l + Len(d) + Len(e)
    BY <1>4
  <2> QED BY <2>1, <2>2, <2>3, <2>4, Zenon
<1>6. /\ Len(abcde \o f) = l + Len(d) + Len(e) + Len(f)
      /\ Sequence(abcde \o f)
  BY <1>1, <1>2, <1>3, <1>4
<1>7. s = abcde \o f
  BY DEF abc, abcde, IsSix
<1> QED BY <1>5, <1>6, <1>7

\* What stands where in the symbols of a voiced frame: three, one per subframe, one.
LEMMA VoicedByPlace ==
  ASSUME NEW h, NEW p, NEW t, NEW q, NEW N \in Nat, NEW v, v = N + 4,
         NEW lag, NEW contour, NEW per, NEW tap, NEW scale,
         p[1] = lag, p[2] = contour, p[3] = per, q[1] = scale,
         \A k \in 1 .. N : t[k] = tap,
         \A i \in 1 .. v :
           h[i] = IF i <= 3 THEN p[i] ELSE IF i <= 3 + N THEN t[i - 3] ELSE q[i - 3 - N]
  PROVE  \A i \in 1 .. v :
           h[i] = IF i = 1 THEN lag ELSE IF i = 2 THEN contour ELSE IF i = 3 THEN per
                  ELSE IF i <= N + 3 THEN tap ELSE scale
<1> TAKE i \in 1 .. v
<1>1. i \in Int /\ 1 <= i /\ i <= N + 4
  OBVIOUS
<1>2. h[i] = IF i <= 3 THEN p[i] ELSE IF i <= 3 + N THEN t[i - 3] ELSE q[i - 3 - N]
  OBVIOUS
<1>3. CASE i <= 3
  <2>1. i = 1 \/ i = 2 \/ i = 3
    BY <1>1, <1>3
  <2> QED BY <1>2, <1>3, <2>1
<1>4. CASE ~(i <= 3) /\ i <= N + 3
  <2>1. i - 3 \in 1 .. N /\ i <= 3 + N
    BY <1>1, <1>4
  <2>2. h[i] = tap
    BY <1>2, <1>4, <2>1
  <2>3. i # 1 /\ i # 2 /\ i # 3
    BY <1>4
  <2> QED BY <1>4, <2>2, <2>3
<1>5. CASE ~(i <= N + 3)
  <2>1. i - 3 - N = 1 /\ ~(i <= 3 + N) /\ ~(i <= 3)
    BY <1>1, <1>5
  <2>2. h[i] = scale
    BY <1>2, <2>1
  <2>3. i # 1 /\ i # 2 /\ i # 3
    BY <2>1
  <2> QED BY <1>5, <2>2, <2>3
<1> QED BY <1>3, <1>4, <1>5

\* The fields the decoder reads.
LEMMA FieldsByPlace ==
  ASSUME NEW n \in Nat, n > 0, NEW d, d.nFramesDecoded = n - 1
  PROVE  LET sigtype == d.frame.sigtype IN
         /\ Sequence(Fields(d)) /\ Len(Fields(d)) = BlockLength(n, sigtype)
         /\ \A i \in 1 .. BlockLength(n, sigtype) : Fields(d)[i] = Place(n, sigtype, i)
<1> DEFINE sigtype == d.frame.sigtype
           v == VoicedLength(sigtype)
           N == NB_SUBFR
           a == IF d.nFramesDecoded = 0 THEN <<"rate">> ELSE <<>>
           b == <<"type">>
           c == [k \in 1 .. N |-> "gain"]
           e == <<"NLSF", "interp">>
           t == [k \in 1 .. N |-> "LTP"]
           f == IF sigtype = VOICED THEN <<"lag", "contour", "per">> \o t \o <<"scale">> ELSE <<>>
           g == <<"seed", "pulses", "VAD", "termination">>
           s == Fields(d)
<1>1. N \in Nat /\ N > 0 /\ v \in Nat /\ Lead(n) \in {0, 1}
  BY StreamAssumption DEF VoicedLength, Lead
<1>2. /\ Sequence(a) /\ Len(a) = Lead(n) /\ Sequence(b) /\ Len(b) = 1
      /\ Sequence(e) /\ Len(e) = 2 /\ Sequence(g) /\ Len(g) = 4
      /\ Lead(n) = 1 => a[1] = "rate"
  BY DEF Sequence, Lead
<1>3. Sequence(c) /\ Len(c) = N /\ \A k \in 1 .. N : c[k] = "gain"
  BY <1>1, FunctionIsSequence
<1>4. /\ Sequence(f) /\ Len(f) = v
      /\ \A i \in 1 .. v : f[i] = IF i = 1 THEN "lag" ELSE IF i = 2 THEN "contour"
                                  ELSE IF i = 3 THEN "per" ELSE IF i <= N + 3 THEN "LTP"
                                  ELSE "scale"
  <2>1. CASE sigtype = VOICED
    <3> DEFINE p == <<"lag", "contour", "per">>
               q == <<"scale">>
    <3>1. Sequence(t) /\ Len(t) = N /\ \A k \in 1 .. N : t[k] = "LTP"
      BY <1>1, FunctionIsSequence
    <3>2. /\ Sequence(p) /\ Len(p) = 3 /\ p[1] = "lag" /\ p[2] = "contour" /\ p[3] = "per"
          /\ Sequence(q) /\ Len(q) = 1 /\ q[1] = "scale"
      BY DEF Sequence
    <3> HIDE DEF p, q, t
    <3>3. f = p \o t \o q
      BY <2>1 DEF p, q
    <3> HIDE DEF f
    <3>4. /\ Sequence(f) /\ Len(f) = N + 4
          /\ \A i \in 1 .. N + 4 : f[i] = IF i <= 3 THEN p[i] ELSE IF i <= 3 + N THEN t[i - 3]
                                          ELSE q[i - 3 - N]
      <4>1. /\ Sequence(f) /\ Len(f) = Len(p) + Len(t) + Len(q)
            /\ \A i \in 1 .. Len(f) :
                 f[i] = IF i <= Len(p) THEN p[i] ELSE IF i <= Len(p) + Len(t) THEN t[i - Len(p)]
                        ELSE q[i - Len(p) - Len(t)]
        <5>1. IsThree(f, p, t, q)
          BY <3>1, <3>2, <3>3 DEF IsThree
        <5> QED BY <5>1, ThreeParts
      <4>2. Len(f) = N + 4
        BY <1>1, <3>1, <3>2, <4>1
      <4> QED BY <3>1, <3>2, <4>1, <4>2
    <3>5. v = N + 4
      BY <2>1 DEF VoicedLength
    <3> HIDE DEF f, v
    <3> QED BY <1>1, <3>1, <3>2, <3>4, <3>5
  <2>2. CASE sigtype # VOICED
    BY <2>2 DEF VoicedLength, Sequence
  <2> QED BY <2>1, <2>2
<1>5. /\ b[1] = "type" /\ e[1] = "NLSF" /\ e[2] = "interp"
      /\ g[1] = "seed" /\ g[2] = "pulses" /\ g[3] = "VAD" /\ g[4] = "termination"
  OBVIOUS
<1>6. s = a \o b \o c \o e \o f \o g
  BY DEF Fields
<1>7. BlockLength(n, sigtype) = Lead(n) + N + 7 + v
  BY DEF BlockLength
<1> HIDE DEF a, b, c, e, f, g, s, v, N
<1>8. /\ Sequence(s) /\ Len(s) = Lead(n) + N + 7 + v
      /\ \A i \in 1 .. Len(s) :
           s[i] = IF i <= Lead(n) THEN a[i] ELSE IF i <= Lead(n) + 1 THEN b[i - Lead(n)]
                  ELSE IF i <= Lead(n) + 1 + N THEN c[i - Lead(n) - 1]
                  ELSE IF i <= Lead(n) + N + 3 THEN e[i - (Lead(n) + 1 + N)]
                  ELSE IF i <= Lead(n) + N + 3 + v THEN f[i - (Lead(n) + 1 + N) - 2]
                  ELSE g[i - (Lead(n) + 1 + N) - 2 - v]
  <2> DEFINE l == Len(a) + Len(b) + Len(c)
  <2>1. /\ Sequence(s) /\ Len(s) = l + Len(e) + Len(f) + Len(g)
        /\ \A i \in 1 .. Len(s) :
              s[i] = IF i <= Len(a) THEN a[i] ELSE IF i <= Len(a) + Len(b) THEN b[i - Len(a)]
                     ELSE IF i <= l THEN c[i - Len(a) - Len(b)]
                     ELSE IF i <= l + Len(e) THEN e[i - l]
                     ELSE IF i <= l + Len(e) + Len(f) THEN f[i - l - Len(e)]
                     ELSE g[i - l - Len(e) - Len(f)]
    <3>1. IsSix(s, a, b, c, e, f, g)
      BY <1>2, <1>3, <1>4, <1>6 DEF IsSix
    <3> QED BY <3>1, SixParts
  <2>2. l = Lead(n) + 1 + N /\ Len(s) = Lead(n) + N + 7 + v /\ l + 2 = Lead(n) + N + 3
    BY <1>1, <1>2, <1>3, <1>4, <2>1
  <2> HIDE DEF l
  <2>3. ASSUME NEW i \in 1 .. Len(s)
        PROVE
           s[i] = IF i <= Lead(n) THEN a[i] ELSE IF i <= Lead(n) + 1 THEN b[i - Lead(n)]
                  ELSE IF i <= Lead(n) + 1 + N THEN c[i - Lead(n) - 1]
                  ELSE IF i <= Lead(n) + N + 3 THEN e[i - (Lead(n) + 1 + N)]
                  ELSE IF i <= Lead(n) + N + 3 + v THEN f[i - (Lead(n) + 1 + N) - 2]
                  ELSE g[i - (Lead(n) + 1 + N) - 2 - v]
    BY <1>2, <1>3, <1>4, <2>1, <2>2
  <2> QED BY <2>1, <2>2, <2>3
<1>9. ASSUME NEW i \in 1 .. Lead(n) + N + 7 + v
      PROVE  s[i] = Place(n, sigtype, i)
  <2> DEFINE j == i - Lead(n)
  <2>0. s[i] = IF i <= Lead(n) THEN a[i] ELSE IF i <= Lead(n) + 1 THEN b[i - Lead(n)]
                  ELSE IF i <= Lead(n) + 1 + N THEN c[i - Lead(n) - 1]
                  ELSE IF i <= Lead(n) + N + 3 THEN e[i - (Lead(n) + 1 + N)]
                  ELSE IF i <= Lead(n) + N + 3 + v THEN f[i - (Lead(n) + 1 + N) - 2]
                  ELSE g[i - (Lead(n) + 1 + N) - 2 - v]
    BY <1>8
  <2>1. Place(n, sigtype, i) =
     IF j < 1 THEN "rate" ELSE IF j = 1 THEN "type" ELSE IF j <= N + 1 THEN "gain"
     ELSE IF j = N + 2 THEN "NLSF" ELSE IF j = N + 3 THEN "interp"
     ELSE IF j <= N + 3 + v
     THEN IF j = N + 4 THEN "lag" ELSE IF j = N + 5 THEN "contour"
          ELSE IF j = N + 6 THEN "per" ELSE IF j <= 2 * N + 6 THEN "LTP"
          ELSE "scale"
     ELSE IF j = N + 4 + v THEN "seed" ELSE IF j = N + 5 + v THEN "pulses"
     ELSE IF j = N + 6 + v THEN "VAD" ELSE "termination"
    BY DEF Place, N, v
  <2>2. CASE j <= N + 3
    <3>1. CASE j <= 1
      <4>1. s[i] = IF j < 1 THEN a[1] ELSE b[1]
        BY <1>1, <2>0, <3>1
      <4> QED BY <1>1, <1>2, <1>5, <2>1, <3>1, <4>1
    <3>3. CASE j > 1 /\ j <= N + 1
      <4>1. s[i] = c[j - 1] /\ j - 1 \in 1 .. N
        BY <1>1, <2>0, <3>3
      <4> QED BY <1>1, <1>3, <2>1, <3>3, <4>1
    <3>2. CASE j = N + 2 \/ j = N + 3
      <4>1. s[i] = e[j - N - 1] /\ (j - N - 1 = 1 \/ j - N - 1 = 2)
        BY <1>1, <2>0, <3>2
      <4> QED BY <1>1, <1>5, <2>1, <3>2, <4>1
    <3> QED BY <1>1, <2>2, <3>1, <3>2, <3>3
  <2>3. CASE j > N + 3 /\ j <= N + 3 + v
    <3>1. s[i] = f[j - N - 3]
      BY <1>1, <2>0, <2>3
    <3>2. j - N - 3 \in 1 .. v
      BY <1>1, <2>3
    <3>3. s[i] = IF j - N - 3 = 1 THEN "lag" ELSE IF j - N - 3 = 2 THEN "contour"
                 ELSE IF j - N - 3 = 3 THEN "per" ELSE IF j - N - 3 <= N + 3 THEN "LTP"
                 ELSE "scale"
      BY <1>4, <3>1, <3>2
    <3> QED BY <1>1, <2>1, <2>3, <3>3
  <2>4. CASE j > N + 3 + v
    <3>1. s[i] = g[j - N - 3 - v]
      BY <1>1, <2>0, <2>4
    <3>2. j - N - 3 - v \in 1 .. 4
      BY <1>1, <2>4
    <3> QED BY <1>1, <1>5, <2>1, <2>4, <3>1, <3>2
  <2> QED BY <1>1, <2>2, <2>3, <2>4
<1> QED BY <1>7, <1>8, <1>9 DEF s

\* What the tables hold.
LEMMA Alphabets ==
  /\ Alphabet(RateTable) = 0 .. Len(SamplingRates) - 1
  /\ \A n, p : Alphabet(TypeTable(n, p)) = 0 .. 3
  /\ Alphabet(<<"NLSF_interpolation_factor">>) = Interps
  /\ Alphabet(<<"LTP_per_index">>) = PerIndices
  /\ Alphabet(TerminationTable) = 0 .. 3
  /\ Alphabet(<<"LTPscale">>) = {0} /\ Alphabet(<<"Seed">>) = {0}
  /\ Alphabet(<<"vadflag">>) = {0}
  /\ \A p, q : Alphabet(NLSFTable(p, q)) = {0}
  /\ \A p : Alphabet(LagTable(p)) = {0} /\ Alphabet(ContourTable(p)) = {0}
            /\ Alphabet(LTPTable(p)) = {0}
  /\ \A p, q, r : Alphabet(PulseTable(p, q, r)) = {0}
<1>1. /\ Alphabet(RateTable) = 0 .. Len(SamplingRates) - 1
      /\ Alphabet(<<"NLSF_interpolation_factor">>) = Interps
      /\ Alphabet(<<"LTP_per_index">>) = PerIndices
      /\ Alphabet(TerminationTable) = 0 .. 3
      /\ Alphabet(<<"LTPscale">>) = {0} /\ Alphabet(<<"Seed">>) = {0}
      /\ Alphabet(<<"vadflag">>) = {0}
  BY DEF Alphabet, RateTable, TerminationTable
<1>2. ASSUME NEW n, NEW p
      PROVE  Alphabet(TypeTable(n, p)) = 0 .. 3
  BY DEF Alphabet, TypeTable
<1>3. ASSUME NEW p, NEW q
      PROVE  Alphabet(NLSFTable(p, q)) = {0}
  BY DEF Alphabet, NLSFTable
<1>4. ASSUME NEW p
      PROVE  /\ Alphabet(LagTable(p)) = {0} /\ Alphabet(ContourTable(p)) = {0}
             /\ Alphabet(LTPTable(p)) = {0}
  BY DEF Alphabet, LagTable, ContourTable, LTPTable
<1>5. ASSUME NEW p, NEW q, NEW r
      PROVE  Alphabet(PulseTable(p, q, r)) = {0}
  BY DEF Alphabet, PulseTable
<1> QED BY <1>1, <1>2, <1>3, <1>4, <1>5

\* f, with the indices ind of its gains, is the n-th of the frames: the next of e.
IsNextFrame(e, f, ind, frames, n) ==
  /\ n \in Nat /\ n > 0 /\ Sequence(frames) /\ Len(frames) = n
  /\ e.nFramesInPayloadBuf = n - 1 /\ e.rate = frames[n].rate
  /\ frames[n] \in SentFrames
  /\ f.sigtype = frames[n].sigtype /\ f.offset = frames[n].offset
  /\ f.interp = frames[n].interp
  /\ f.per \in PerIndices /\ (frames[n].sigtype = VOICED => f.per = frames[n].per)
  /\ n > 1 => e.typeOffsetPrev = TypeOf(frames[n - 1])
  /\ Sequence(ind) /\ Len(ind) = NB_SUBFR
  /\ \A k \in 1 .. NB_SUBFR :
       /\ ind[k] = GainIndex(frames, n, k)
       /\ ind[k] \in Alphabet(GainTable(n - 1, k, f.sigtype))

\* The symbols the encoder writes, the termination included.
LEMMA EncodedByPlace ==
  ASSUME NEW e, NEW f, NEW ind, NEW frames, NEW n, NEW last \in 0 .. 3,
         IsNextFrame(e, f, ind, frames, n)
  PROVE  LET block == encode_parameters(e, f, ind) \o <<Sym(TerminationTable, last)>>
             l == BlockLength(n, f.sigtype)
         IN
         /\ Sequence(encode_parameters(e, f, ind))
         /\ Sequence(block) /\ Len(block) = l /\ InAlphabet(block)
         /\ block[l].data = last
         /\ \A i \in 1 .. l : IsSymbolAt(block[i], frames, n, i)
<1>a. n \in Nat /\ n > 0 /\ Sequence(frames) /\ Len(frames) = n
  BY DEF IsNextFrame
<1>b. /\ e.nFramesInPayloadBuf = n - 1 /\ e.rate = frames[n].rate
      /\ frames[n] \in SentFrames
      /\ f.sigtype = frames[n].sigtype /\ f.offset = frames[n].offset
      /\ f.interp = frames[n].interp
  BY DEF IsNextFrame
<1>c. /\ f.per \in PerIndices /\ (frames[n].sigtype = VOICED => f.per = frames[n].per)
      /\ n > 1 => e.typeOffsetPrev = TypeOf(frames[n - 1])
  BY DEF IsNextFrame
<1>d. /\ Sequence(ind) /\ Len(ind) = NB_SUBFR
      /\ \A k \in 1 .. NB_SUBFR :
           /\ ind[k] = GainIndex(frames, n, k)
           /\ ind[k] \in Alphabet(GainTable(n - 1, k, f.sigtype))
  BY DEF IsNextFrame
<1> USE <1>a, <1>b, <1>c
<1> DEFINE block == encode_parameters(e, f, ind) \o <<Sym(TerminationTable, last)>>
           x == frames[n]
           rate == SamplingRates[e.rate + 1]
           N == NB_SUBFR
           v == VoicedLength(f.sigtype)
           a == IF e.nFramesInPayloadBuf = 0 THEN <<Sym(RateTable, e.rate)>> ELSE <<>>
           b == <<Sym(TypeTable(n - 1, e.typeOffsetPrev), 2 * f.sigtype + f.offset)>>
           c == [k \in 1 .. N |-> Sym(GainTable(n - 1, k, f.sigtype), ind[k])]
           g == <<Sym(NLSFTable(Codebook(rate), f.sigtype), 0),
                  Sym(<<"NLSF_interpolation_factor">>, f.interp)>>
           p == <<Sym(LagTable(rate), 0), Sym(ContourTable(rate), 0),
                  Sym(<<"LTP_per_index">>, f.per)>>
           t == [k \in 1 .. N |-> Sym(LTPTable(f.per), 0)]
           q == <<Sym(<<"LTPscale">>, 0)>>
           h == IF f.sigtype = VOICED THEN VoicedSymbols(rate, f.per) ELSE <<>>
           z == <<Sym(<<"Seed">>, 0), Sym(PulseTable(f.sigtype, f.offset, rate), 0),
                  Sym(<<"vadflag">>, 0)>>
           s == encode_parameters(e, f, ind)
<1>1. N \in Nat /\ N > 0 /\ v \in Nat /\ Lead(n) \in {0, 1}
  BY StreamAssumption DEF VoicedLength, Lead
<1>2. /\ Sequence(a) /\ Len(a) = Lead(n) /\ Sequence(b) /\ Len(b) = 1
      /\ Sequence(g) /\ Len(g) = 2 /\ Sequence(z) /\ Len(z) = 3
      /\ Lead(n) = 1 => a[1] = Sym(RateTable, e.rate)
  BY DEF Sequence, Lead
<1>3. /\ Sequence(c) /\ Len(c) = N
      /\ \A k \in 1 .. N : c[k] = Sym(GainTable(n - 1, k, f.sigtype), ind[k])
  BY <1>1, FunctionIsSequence
<1>4. /\ Sequence(h) /\ Len(h) = v
      /\ \A i \in 1 .. v :
           h[i] = IF i = 1 THEN Sym(LagTable(rate), 0)
                  ELSE IF i = 2 THEN Sym(ContourTable(rate), 0)
                  ELSE IF i = 3 THEN Sym(<<"LTP_per_index">>, f.per)
                  ELSE IF i <= N + 3 THEN Sym(LTPTable(f.per), 0)
                  ELSE Sym(<<"LTPscale">>, 0)
  <2>1. CASE f.sigtype = VOICED
    <3>1. Sequence(t) /\ Len(t) = N /\ \A k \in 1 .. N : t[k] = Sym(LTPTable(f.per), 0)
      BY <1>1, FunctionIsSequence
    <3>2. /\ Sequence(p) /\ Len(p) = 3 /\ Sequence(q) /\ Len(q) = 1
      BY DEF Sequence
    <3>3. /\ p[1] = Sym(LagTable(rate), 0) /\ p[2] = Sym(ContourTable(rate), 0)
          /\ p[3] = Sym(<<"LTP_per_index">>, f.per)
          /\ q[1] = Sym(<<"LTPscale">>, 0)
      OBVIOUS
    <3>4. h = p \o t \o q
      BY <2>1 DEF VoicedSymbols
    <3>5. v = N + 4
      BY <2>1 DEF VoicedLength
    <3> HIDE DEF p, q, t, h, v
    <3>6. /\ Sequence(h) /\ Len(h) = Len(p) + Len(t) + Len(q)
          /\ \A i \in 1 .. Len(h) :
                 h[i] = IF i <= Len(p) THEN p[i] ELSE IF i <= Len(p) + Len(t) THEN t[i - Len(p)]
                        ELSE q[i - Len(p) - Len(t)]
      <4>1. IsThree(h, p, t, q)
        BY <3>1, <3>2, <3>4 DEF IsThree
      <4> QED BY <4>1, ThreeParts
    <3>7. Len(h) = v
      BY <1>1, <3>1, <3>2, <3>5, <3>6
    <3>8. ASSUME NEW i \in 1 .. v
          PROVE  h[i] = IF i <= 3 THEN p[i] ELSE IF i <= 3 + N THEN t[i - 3] ELSE q[i - 3 - N]
      BY <3>1, <3>2, <3>6, <3>7
    <3>9. /\ p[1] = Sym(LagTable(rate), 0) /\ p[2] = Sym(ContourTable(rate), 0)
          /\ p[3] = Sym(<<"LTP_per_index">>, f.per) /\ q[1] = Sym(<<"LTPscale">>, 0)
          /\ \A k \in 1 .. N : t[k] = Sym(LTPTable(f.per), 0)
          /\ N \in Nat /\ v = N + 4
          /\ \A i \in 1 .. v :
               h[i] = IF i <= 3 THEN p[i] ELSE IF i <= 3 + N THEN t[i - 3] ELSE q[i - 3 - N]
      BY <1>1, <3>1, <3>3, <3>5, <3>8
    <3> DEFINE lag == Sym(LagTable(rate), 0)
               contour == Sym(ContourTable(rate), 0)
               per == Sym(<<"LTP_per_index">>, f.per)
               tap == Sym(LTPTable(f.per), 0)
               scale == Sym(<<"LTPscale">>, 0)
    <3> HIDE DEF lag, contour, per, tap, scale, N
    <3>10. \A i \in 1 .. v :
             h[i] = IF i = 1 THEN lag ELSE IF i = 2 THEN contour ELSE IF i = 3 THEN per
                    ELSE IF i <= N + 3 THEN tap ELSE scale
      <4>1. /\ p[1] = lag /\ p[2] = contour /\ p[3] = per /\ q[1] = scale
            /\ \A k \in 1 .. N : t[k] = tap
        BY <3>9 DEF lag, contour, per, tap, scale
      <4>2. N \in Nat
        BY <3>9
      <4>3. v = N + 4
        BY <3>9
      <4>4. \A i \in 1 .. v :
              h[i] = IF i <= 3 THEN p[i] ELSE IF i <= 3 + N THEN t[i - 3] ELSE q[i - 3 - N]
        BY <3>9
      <4> QED BY ONLY <4>1, <4>2, <4>3, <4>4, VoicedByPlace
    <3> USE DEF lag, contour, per, tap, scale, N
    <3> QED BY <3>6, <3>7, <3>10, Zenon
  <2>2. CASE f.sigtype # VOICED
    BY <2>2 DEF VoicedLength, Sequence
  <2> QED BY <2>1, <2>2
<1>5. /\ b[1] = Sym(TypeTable(n - 1, e.typeOffsetPrev), 2 * f.sigtype + f.offset)
      /\ g[1] = Sym(NLSFTable(Codebook(rate), f.sigtype), 0)
      /\ g[2] = Sym(<<"NLSF_interpolation_factor">>, f.interp)
      /\ z[1] = Sym(<<"Seed">>, 0) /\ z[2] = Sym(PulseTable(f.sigtype, f.offset, rate), 0)
      /\ z[3] = Sym(<<"vadflag">>, 0)
  OBVIOUS
<1>6. s = a \o b \o c \o g \o h \o z
  BY DEF encode_parameters
<1>7. BlockLength(n, f.sigtype) = Lead(n) + N + 7 + v
  BY DEF BlockLength
<1>8. /\ Sequence(block) /\ Len(block) = Len(s) + 1
      /\ block[Len(s) + 1] = Sym(TerminationTable, last)
      /\ \A i \in 1 .. Len(s) : block[i] = s[i]
  <2>1. Sequence(s)
    <3> HIDE DEF a, b, c, g, h, z, s
    <3>1. IsSix(s, a, b, c, g, h, z)
      BY <1>2, <1>3, <1>4, <1>6 DEF IsSix
    <3> QED BY <3>1, SixParts
  <2> DEFINE w == <<Sym(TerminationTable, last)>>
  <2>2. Sequence(w) /\ Len(w) = 1 /\ w[1] = Sym(TerminationTable, last)
    BY DEF Sequence
  <2>3. Len(s) \in Nat
    BY <2>1 DEF Sequence
  <2>4. block = s \o w
    OBVIOUS
  <2> HIDE DEF s, w, block
  <2>5. /\ Sequence(block) /\ Len(block) = Len(s) + 1
        /\ \A i \in 1 .. Len(s) + 1 : block[i] = IF i <= Len(s) THEN s[i] ELSE w[i - Len(s)]
    <3>1. /\ Sequence(s \o w) /\ Len(s \o w) = Len(s) + Len(w)
          /\ \A i \in 1 .. Len(s) + Len(w) :
               (s \o w)[i] = IF i <= Len(s) THEN s[i] ELSE w[i - Len(s)]
      BY <2>1, <2>2, Concatenated
    <3> QED BY <2>2, <2>4, <3>1
  <2> QED BY <2>2, <2>3, <2>5
<1> HIDE DEF a, b, c, g, h, z, s, v, N, block
<1>9. /\ Sequence(s) /\ Len(s) = Lead(n) + N + 6 + v
      /\ \A i \in 1 .. Len(s) :
           s[i] = IF i <= Lead(n) THEN a[i] ELSE IF i <= Lead(n) + 1 THEN b[i - Lead(n)]
                  ELSE IF i <= Lead(n) + 1 + N THEN c[i - Lead(n) - 1]
                  ELSE IF i <= Lead(n) + N + 3 THEN g[i - (Lead(n) + 1 + N)]
                  ELSE IF i <= Lead(n) + N + 3 + v THEN h[i - (Lead(n) + 1 + N) - 2]
                  ELSE z[i - (Lead(n) + 1 + N) - 2 - v]
  <2> DEFINE l == Len(a) + Len(b) + Len(c)
  <2>1. /\ Sequence(s) /\ Len(s) = l + Len(g) + Len(h) + Len(z)
        /\ \A i \in 1 .. Len(s) :
              s[i] = IF i <= Len(a) THEN a[i] ELSE IF i <= Len(a) + Len(b) THEN b[i - Len(a)]
                     ELSE IF i <= l THEN c[i - Len(a) - Len(b)]
                     ELSE IF i <= l + Len(g) THEN g[i - l]
                     ELSE IF i <= l + Len(g) + Len(h) THEN h[i - l - Len(g)]
                     ELSE z[i - l - Len(g) - Len(h)]
    <3>1. IsSix(s, a, b, c, g, h, z)
      BY <1>2, <1>3, <1>4, <1>6 DEF IsSix
    <3> QED BY <3>1, SixParts
  <2>2. l = Lead(n) + 1 + N /\ Len(s) = Lead(n) + N + 6 + v /\ l + 2 = Lead(n) + N + 3
    BY <1>1, <1>2, <1>3, <1>4, <2>1
  <2> HIDE DEF l
  <2>3. ASSUME NEW i \in 1 .. Len(s)
        PROVE
           s[i] = IF i <= Lead(n) THEN a[i] ELSE IF i <= Lead(n) + 1 THEN b[i - Lead(n)]
                  ELSE IF i <= Lead(n) + 1 + N THEN c[i - Lead(n) - 1]
                  ELSE IF i <= Lead(n) + N + 3 THEN g[i - (Lead(n) + 1 + N)]
                  ELSE IF i <= Lead(n) + N + 3 + v THEN h[i - (Lead(n) + 1 + N) - 2]
                  ELSE z[i - (Lead(n) + 1 + N) - 2 - v]
    BY <1>2, <1>3, <1>4, <2>1, <2>2
  <2> QED BY <2>1, <2>2, <2>3
<1> DEFINE l == Lead(n) + N + 7 + v
<1>10. ASSUME NEW i \in 1 .. l
       PROVE  IsSymbolAt(block[i], frames, n, i) /\ block[i].data \in Alphabet(block[i].table)
  <2> DEFINE j == i - Lead(n)
             place == Place(n, x.sigtype, i)
  <2> HIDE DEF place
  <2>1. place = IF j < 1 THEN "rate" ELSE IF j = 1 THEN "type" ELSE IF j <= N + 1 THEN "gain"
     ELSE IF j = N + 2 THEN "NLSF" ELSE IF j = N + 3 THEN "interp"
     ELSE IF j <= N + 3 + v
     THEN IF j = N + 4 THEN "lag" ELSE IF j = N + 5 THEN "contour"
          ELSE IF j = N + 6 THEN "per" ELSE IF j <= 2 * N + 6 THEN "LTP"
          ELSE "scale"
     ELSE IF j = N + 4 + v THEN "seed" ELSE IF j = N + 5 + v THEN "pulses"
     ELSE IF j = N + 6 + v THEN "VAD" ELSE "termination"
    BY DEF Place, N, v, place
  <2>0. /\ i \in Int /\ i >= 1 /\ j \in Int /\ j <= N + 7 + v /\ i = j + Lead(n)
        /\ Len(s) = Lead(n) + N + 6 + v /\ N \in Int /\ v \in Int /\ Lead(n) \in Int
    <3>1. N \in Int /\ v \in Int /\ Lead(n) \in Int
      BY <1>1
    <3>2. Len(s) = Lead(n) + N + 6 + v
      BY <1>9
    <3> DEFINE lead == Lead(n)
    <3>3. lead \in Int /\ l = lead + N + 7 + v /\ j = i - lead
      BY <3>1
    <3> HIDE DEF lead, l, j
    <3>4. i \in Int /\ i >= 1 /\ i <= l
      BY <3>1, <3>3
    <3>5. j \in Int /\ i = j + lead
      BY <3>3, <3>4
    <3>6. j <= N + 7 + v
      BY <3>1, <3>3, <3>4
    <3> QED BY <3>1, <3>2, <3>4, <3>5, <3>6 DEF lead
  <2> HIDE DEF j, l
  <2>2. j <= N + 6 + v =>
          block[i] = IF j < 1 THEN a[i] ELSE IF j <= 1 THEN b[j]
                     ELSE IF j <= N + 1 THEN c[j - 1] ELSE IF j <= N + 3 THEN g[j - N - 1]
                     ELSE IF j <= N + 3 + v THEN h[j - N - 3] ELSE z[j - N - 3 - v]
    <3> SUFFICES ASSUME j <= N + 6 + v
                 PROVE  block[i] =
                     IF j < 1 THEN a[i] ELSE IF j <= 1 THEN b[j]
                     ELSE IF j <= N + 1 THEN c[j - 1] ELSE IF j <= N + 3 THEN g[j - N - 1]
                     ELSE IF j <= N + 3 + v THEN h[j - N - 3] ELSE z[j - N - 3 - v]
      OBVIOUS
    <3>1. i \in 1 .. Len(s)
      <4> DEFINE lead == Lead(n)
                 length == Len(s)
      <4>1. /\ i \in Int /\ i >= 1 /\ j \in Int /\ i = j + lead /\ length = lead + N + 6 + v
            /\ N \in Int /\ v \in Int /\ lead \in Int
        BY <2>0
      <4> HIDE DEF lead, length
      <4>2. i <= length
        BY <4>1
      <4> QED BY <4>1, <4>2 DEF length
    <3>2. block[i] = s[i]
      BY <1>8, <3>1
    <3>3. s[i] = IF i <= Lead(n) THEN a[i] ELSE IF i <= Lead(n) + 1 THEN b[i - Lead(n)]
               ELSE IF i <= Lead(n) + 1 + N THEN c[i - Lead(n) - 1]
               ELSE IF i <= Lead(n) + N + 3 THEN g[i - (Lead(n) + 1 + N)]
               ELSE IF i <= Lead(n) + N + 3 + v THEN h[i - (Lead(n) + 1 + N) - 2]
               ELSE z[i - (Lead(n) + 1 + N) - 2 - v]
      BY <1>9, <3>1
    <3> DEFINE lead == Lead(n)
    <3>0. i \in Int /\ j \in Int /\ N \in Int /\ v \in Int /\ lead \in Int /\ i = j + lead
      BY <2>0
    <3> HIDE DEF lead
    <3>4. i - lead = j /\ i - lead - 1 = j - 1
      BY <3>0
    <3>10. i - (lead + 1 + N) = j - N - 1
      BY <3>0
    <3>11. i - (lead + 1 + N) - 2 = j - N - 3
      BY <3>0
    <3>12. i - (lead + 1 + N) - 2 - v = j - N - 3 - v
      BY <3>0
    <3>5. (i <= lead) <=> (j < 1)
      BY <3>0
    <3>6. (i <= lead + 1) <=> (j <= 1)
      BY <3>0
    <3>7. (i <= lead + 1 + N) <=> (j <= N + 1)
      BY <3>0
    <3>8. (i <= lead + N + 3) <=> (j <= N + 3)
      BY <3>0
    <3>9. (i <= lead + N + 3 + v) <=> (j <= N + 3 + v)
      BY <3>0
    <3> USE DEF lead
    <3> QED BY <3>2, <3>3, <3>4, <3>5, <3>6, <3>7, <3>8, <3>9, <3>10, <3>11, <3>12
  <2>3. /\ x \in SentFrames /\ x.sigtype = f.sigtype /\ x.offset = f.offset /\ x.rate = e.rate
        /\ rate = SamplingRates[x.rate + 1]
    OBVIOUS
  <2>4. \A table, data : Sym(table, data).table = table /\ Sym(table, data).data = data
    BY DEF Sym
  <2> DEFINE IsFitting(y) == IsSymbolAt(y, frames, n, i) /\ y.data \in Alphabet(y.table)
  <2>5. CASE j < 1
    <3>1. block[i] = Sym(RateTable, e.rate) /\ place = "rate"
      BY <1>1, <1>2, <2>0, <2>1, <2>2, <2>5
    <3> QED BY <2>3, <2>4, <3>1, Alphabets DEF IsSymbolAt, TableAt, IsDataAt, SentFrames, place
  <2>6. CASE j = 1
    <3>1. /\ block[i] = Sym(TypeTable(n - 1, e.typeOffsetPrev), TypeOf(x)) /\ place = "type"
      BY <1>1, <1>5, <2>0, <2>1, <2>2, <2>3, <2>6 DEF TypeOf
    <3>2. TypeTable(n - 1, e.typeOffsetPrev)
            = TypeTable(n - 1, IF n = 1 THEN 0 ELSE TypeOf(frames[n - 1]))
      BY DEF TypeTable
    <3>3. TypeOf(x) \in 0 .. 3
      BY <2>3 DEF TypeOf, SentFrames
    <3> QED BY <2>3, <2>4, <3>1, <3>2, <3>3, Alphabets DEF IsSymbolAt, TableAt, IsDataAt, place
  <2>7. CASE j > 1 /\ j <= N + 1
    <3>0. j - 1 \in 1 .. N
      BY <2>0, <2>7
    <3>5. ~(j < 1) /\ ~(j <= 1) /\ j # 1 /\ j <= N + 1
      BY <2>0, <2>7
    <3>6. j <= N + 6 + v
      BY <1>1, <2>0, <2>7
    <3>1. block[i] = c[j - 1] /\ place = "gain" /\ j - 1 \in 1 .. N
      BY <2>1, <2>2, <3>0, <3>5, <3>6
    <3>2. block[i] = Sym(GainTable(n - 1, j - 1, x.sigtype), ind[j - 1])
      BY <1>3, <2>3, <3>1
    <3>3. /\ ind[j - 1] = GainIndex(frames, n, j - 1)
          /\ ind[j - 1] \in Alphabet(GainTable(n - 1, j - 1, x.sigtype))
      BY <1>d, <2>3, <3>1 DEF N
    <3>4. i - Lead(n) - 1 = j - 1
      BY <2>0
    <3> QED BY <2>3, <2>4, <3>1, <3>2, <3>3, <3>4 DEF IsSymbolAt, TableAt, IsDataAt, place
  <2>8. CASE j = N + 2
    <3>1. block[i] = Sym(NLSFTable(Codebook(rate), x.sigtype), 0) /\ place = "NLSF"
      BY <1>1, <1>5, <2>0, <2>1, <2>2, <2>3, <2>8
    <3> QED BY <2>3, <2>4, <3>1, Alphabets DEF IsSymbolAt, TableAt, IsDataAt, place
  <2>9. CASE j = N + 3
    <3>1. block[i] = Sym(<<"NLSF_interpolation_factor">>, x.interp) /\ place = "interp"
      BY <1>1, <1>5, <2>0, <2>1, <2>2, <2>3, <2>9
    <3> QED BY <2>3, <2>4, <3>1, Alphabets DEF IsSymbolAt, TableAt, IsDataAt, SentFrames, place
  <2>10. CASE j > N + 3 /\ j <= N + 3 + v
    <3>9. v # 0
      BY <1>1, <2>0, <2>10
    <3>10. v = N + 4 /\ x.sigtype = VOICED
      BY <2>3, <3>9 DEF VoicedLength, v, N
    <3>11. j - N - 3 \in 1 .. v
      BY <1>1, <2>0, <2>10
    <3>12. block[i] = h[j - N - 3]
      BY <1>1, <2>0, <2>2, <2>10
    <3>1. block[i] = h[j - N - 3] /\ j - N - 3 \in 1 .. v /\ v = N + 4 /\ x.sigtype = VOICED
      BY <3>10, <3>11, <3>12
    <3>2. f.per = x.per
      BY <2>3, <3>1
    <3>3. CASE j = N + 4
      <4>1. block[i] = Sym(LagTable(rate), 0) /\ place = "lag"
        BY <1>1, <1>4, <2>0, <2>1, <3>1, <3>3
      <4> QED BY <2>3, <2>4, <4>1, Alphabets DEF IsSymbolAt, TableAt, IsDataAt, place
    <3>4. CASE j = N + 5
      <4>1. block[i] = Sym(ContourTable(rate), 0) /\ place = "contour"
        BY <1>1, <1>4, <2>0, <2>1, <3>1, <3>4
      <4> QED BY <2>3, <2>4, <4>1, Alphabets DEF IsSymbolAt, TableAt, IsDataAt, place
    <3>5. CASE j = N + 6
      <4>1. block[i] = Sym(<<"LTP_per_index">>, x.per) /\ place = "per"
        BY <1>1, <1>4, <2>0, <2>1, <3>1, <3>2, <3>5
      <4>2. x.per \in PerIndices
        BY <3>2
      <4> QED BY <2>3, <2>4, <4>1, <4>2, Alphabets DEF IsSymbolAt, TableAt, IsDataAt, place
    <3>6. CASE j > N + 6 /\ j <= 2 * N + 6
      <4>1. block[i] = Sym(LTPTable(x.per), 0) /\ place = "LTP"
        BY <1>1, <1>4, <2>0, <2>1, <3>1, <3>2, <3>6
      <4> QED BY <2>3, <2>4, <4>1, Alphabets DEF IsSymbolAt, TableAt, IsDataAt, place
    <3>7. CASE j > 2 * N + 6
      <4>1. block[i] = Sym(<<"LTPscale">>, 0) /\ place = "scale"
        BY <1>1, <1>4, <2>0, <2>1, <2>10, <3>1, <3>7
      <4> QED BY <2>3, <2>4, <4>1, Alphabets DEF IsSymbolAt, TableAt, IsDataAt, place
    <3>8. j = N + 4 \/ j = N + 5 \/ j = N + 6 \/ (j > N + 6 /\ j <= 2 * N + 6) \/ j > 2 * N + 6
      <4>1. j \in Int /\ N \in Int /\ j > N + 3
        BY <2>0, <2>10
      <4>2. j = N + 4 \/ j = N + 5 \/ j = N + 6 \/ j > N + 6
        BY <4>1
      <4>3. j <= 2 * N + 6 \/ j > 2 * N + 6
        BY <4>1
      <4> QED BY <4>2, <4>3, Zenon
    <3> QED BY <3>3, <3>4, <3>5, <3>6, <3>7, <3>8
  <2>11. CASE j > N + 3 + v
    <3>1. CASE j = N + 4 + v
      <4>1. block[i] = Sym(<<"Seed">>, 0) /\ place = "seed"
        BY <1>1, <1>5, <2>0, <2>1, <2>2, <3>1
      <4> QED BY <2>3, <2>4, <4>1, Alphabets DEF IsSymbolAt, TableAt, IsDataAt, place
    <3>2. CASE j = N + 5 + v
      <4>1. block[i] = Sym(PulseTable(x.sigtype, x.offset, rate), 0) /\ place = "pulses"
        BY <1>1, <1>5, <2>0, <2>1, <2>2, <2>3, <3>2
      <4> QED BY <2>3, <2>4, <4>1, Alphabets DEF IsSymbolAt, TableAt, IsDataAt, place
    <3>3. CASE j = N + 6 + v
      <4>1. block[i] = Sym(<<"vadflag">>, 0) /\ place = "VAD"
        <5>1. j <= N + 6 + v /\ j - N - 3 - v = 3 /\ ~(j <= N + 3 + v)
          BY <2>0, <3>3
        <5>2. block[i] = z[3]
          BY <1>1, <2>0, <2>2, <5>1
        <5>3. place = "VAD"
          BY <1>1, <2>0, <2>1, <3>3
        <5> QED BY <1>5, <5>2, <5>3
      <4> QED BY <2>3, <2>4, <4>1, Alphabets DEF IsSymbolAt, TableAt, IsDataAt, place
    <3>4. CASE j > N + 6 + v
      <4>1. i = Len(s) + 1 /\ place = "termination"
        <5>1. j = N + 7 + v
          BY <2>0, <3>4
        <5> QED BY <1>1, <2>0, <2>1, <5>1
      <4>2. block[i] = Sym(TerminationTable, last)
        BY <1>8, <4>1
      <4>3. ~(n < Len(frames))
        OBVIOUS
      <4> QED BY <2>3, <2>4, <4>1, <4>2, <4>3, Alphabets
              DEF IsSymbolAt, TableAt, IsDataAt, place
    <3>5. j = N + 4 + v \/ j = N + 5 + v \/ j = N + 6 + v \/ j > N + 6 + v
      BY <2>0, <2>11
    <3> QED BY <3>1, <3>2, <3>3, <3>4, <3>5
  <2>12. \/ j < 1 \/ j = 1 \/ (j > 1 /\ j <= N + 1) \/ j = N + 2 \/ j = N + 3
         \/ (j > N + 3 /\ j <= N + 3 + v) \/ j > N + 3 + v
    <3>1. j \in Int /\ N \in Int /\ v \in Int
      BY <2>0
    <3>2. j < 1 \/ j = 1 \/ j > 1
      BY <3>1
    <3>3. j <= N + 1 \/ j = N + 2 \/ j = N + 3 \/ j > N + 3
      BY <3>1
    <3>4. j <= N + 3 + v \/ j > N + 3 + v
      BY <3>1
    <3> QED BY <3>2, <3>3, <3>4, Zenon
  <2> QED BY <2>5, <2>6, <2>7, <2>8, <2>9, <2>10, <2>11, <2>12, Zenon
<1>11. Len(block) = l /\ block[l].data = last
  BY <1>1, <1>8, <1>9 DEF Sym
<1>12. InAlphabet(block)
  BY <1>10, <1>11 DEF InAlphabet
<1> QED BY <1>7, <1>8, <1>9, <1>10, <1>11, <1>12 DEF block, s

-----------------------------------------------------------------------------
(* The peer.                                                               *)

\* Only the last symbol of a frame says whether another follows.
LEMMA LastPlace ==
  ASSUME NEW n, NEW sigtype, NEW i \in 1 .. BlockLength(n, sigtype)
  PROVE  Place(n, sigtype, i) = "termination" <=> i = BlockLength(n, sigtype)
<1> DEFINE v == VoicedLength(sigtype)
           N == NB_SUBFR
           j == i - Lead(n)
<1>1. N \in Nat /\ v \in Nat /\ Lead(n) \in Nat
  BY StreamAssumption DEF VoicedLength, Lead
<1>2. BlockLength(n, sigtype) = Lead(n) + N + 7 + v
  BY DEF BlockLength
<1>3. i \in Int /\ j \in Int /\ j <= N + 7 + v
  BY <1>1, <1>2
<1>4. (i = BlockLength(n, sigtype)) <=> (j = N + 7 + v)
  BY <1>1, <1>2, <1>3
<1>5. Place(n, sigtype, i) =
     IF j < 1 THEN "rate" ELSE IF j = 1 THEN "type" ELSE IF j <= N + 1 THEN "gain"
     ELSE IF j = N + 2 THEN "NLSF" ELSE IF j = N + 3 THEN "interp"
     ELSE IF j <= N + 3 + v
     THEN IF j = N + 4 THEN "lag" ELSE IF j = N + 5 THEN "contour"
          ELSE IF j = N + 6 THEN "per" ELSE IF j <= 2 * N + 6 THEN "LTP"
          ELSE "scale"
     ELSE IF j = N + 4 + v THEN "seed" ELSE IF j = N + 5 + v THEN "pulses"
     ELSE IF j = N + 6 + v THEN "VAD" ELSE "termination"
  BY DEF Place
<1> HIDE DEF v, N, j
<1>6. (j = N + 7 + v) <=> (j > N + 6 + v)
  BY <1>1, <1>3
<1>7. CASE j > N + 6 + v
  BY <1>1, <1>3, <1>4, <1>5, <1>6, <1>7
<1>8. CASE j <= N + 6 + v
  <2>1. j = N + 6 + v \/ j = N + 5 + v \/ j = N + 4 + v \/ j <= N + 3 + v
    BY <1>1, <1>3, <1>8
  <2>2. Place(n, sigtype, i) # "termination"
    BY <1>5, <2>1
  <2> QED BY <1>1, <1>3, <1>4, <1>6, <1>8, <2>2
<1> QED BY <1>1, <1>3, <1>7, <1>8

\* No frame is empty.
LEMMA BlockIsLong ==
  ASSUME NEW n, NEW sigtype
  PROVE  BlockLength(n, sigtype) \in Nat /\ BlockLength(n, sigtype) > NB_SUBFR + 6
BY StreamAssumption DEF BlockLength, VoicedLength, Lead

\* A frame that is added changes no symbol of those before it.
LEMMA SymbolKept ==
  ASSUME NEW frames, Sequence(frames), NEW x, NEW n \in 1 .. Len(frames), NEW s, NEW i,
         i \in 1 .. BlockLength(n, frames[n].sigtype), IsSymbolAt(s, frames, n, i),
         n = Len(frames) /\ i = BlockLength(n, frames[n].sigtype) => s.data = MORE_FRAMES
  PROVE  IsSymbolAt(s, Append(frames, x), n, i)
<1> DEFINE more == Append(frames, x)
           place == Place(n, frames[n].sigtype, i)
<1>1. /\ Len(more) = Len(frames) + 1 /\ more[n] = frames[n]
      /\ n # 1 => more[n - 1] = frames[n - 1]
  <2>1. /\ Len(more) = Len(frames) + 1
        /\ \A k \in 1 .. Len(frames) : more[k] = frames[k]
    BY Appended
  <2>2. n # 1 => n - 1 \in 1 .. Len(frames)
    BY DEF Sequence
  <2> HIDE DEF more
  <2> QED BY <2>1, <2>2
<1>2. TableAt(more, n, i) = TableAt(frames, n, i)
  <2> HIDE DEF more
  <2> QED BY <1>1 DEF TableAt
<1>3. n \in Nat /\ Len(frames) \in Nat /\ n <= Len(frames)
  BY DEF Sequence
<1>4. IsDataAt(s.data, more, n, i)
  <2>1. IsDataAt(s.data, frames, n, i)
    BY DEF IsSymbolAt
  <2>2. place = "termination" => s.data = MORE_FRAMES
    <3>1. n < Len(frames) \/ n = Len(frames)
      BY <1>3
    <3>2. CASE n < Len(frames)
      BY <2>1, <3>2 DEF IsDataAt
    <3>3. CASE n = Len(frames)
      BY <3>3, LastPlace
    <3> QED BY <3>1, <3>2, <3>3
  <2>3. GainIndex(more, n, i - Lead(n) - 1) = GainIndex(frames, n, i - Lead(n) - 1)
    <3> HIDE DEF more
    <3>1. n = 1 \/ n # 1
      OBVIOUS
    <3> QED BY <1>1, <3>1 DEF GainIndex
  <2> HIDE DEF more
  <2> QED BY <1>1, <2>1, <2>2, <2>3 DEF IsDataAt
<1> QED BY <1>2, <1>4 DEF IsSymbolAt

\* A packet with another frame.
LEMMA LayoutGrows ==
  ASSUME NEW symbols, NEW frames, NEW cut, Layout(symbols, 0, frames, cut),
         NEW x \in SentFrames, NEW block, NEW n, n = Len(frames) + 1, n <= MaxFrames,
         Len(frames) > 0 => /\ x.rate = frames[1].rate
                            /\ symbols[Len(symbols)].data = MORE_FRAMES,
         Sequence(block), Len(block) = BlockLength(n, x.sigtype),
         \A i \in 1 .. Len(block) : IsSymbolAt(block[i], Append(frames, x), n, i)
  PROVE  \E c : Layout(symbols \o block, 0, Append(frames, x), c)
<1> DEFINE more == Append(frames, x)
           all == symbols \o block
           m == Len(frames)
           c == [k \in 0 .. n |-> IF k = n THEN cut[m] + Len(block) ELSE cut[k]]
<1>1. /\ Sequence(frames) /\ m \in Nat /\ m <= MaxFrames /\ Sequence(symbols)
      /\ cut \in [0 .. m -> Nat] /\ cut[0] = 0 /\ Len(symbols) = cut[m]
      /\ Len(symbols) \in Nat /\ Len(block) \in Nat /\ Len(block) > 0
  <2>1. /\ Sequence(frames) /\ m \in Nat /\ m <= MaxFrames /\ Sequence(symbols)
        /\ cut \in [0 .. m -> Nat] /\ cut[0] = 0 /\ Len(symbols) = cut[m] - 0
        /\ Len(symbols) \in Nat
    BY DEF Layout, Sequence
  <2>2. Len(block) \in Nat /\ Len(block) > 0
    BY BlockIsLong, StreamAssumption
  <2>3. cut[m] \in Nat
    BY <2>1
  <2> QED BY <2>1, <2>2, <2>3
<1>2. /\ Sequence(more) /\ Len(more) = n /\ more[n] = x
      /\ \A k \in 1 .. m : more[k] = frames[k]
  BY <1>1, Appended
<1>3. /\ Sequence(all) /\ Len(all) = cut[m] + Len(block)
      /\ \A i \in 1 .. cut[m] + Len(block) :
           all[i] = IF i <= cut[m] THEN symbols[i] ELSE block[i - cut[m]]
  <2>1. Sequence(symbols) /\ Sequence(block) /\ Len(symbols) = cut[m]
    BY <1>1
  <2>2. /\ Sequence(all) /\ Len(all) = Len(symbols) + Len(block)
        /\ \A i \in 1 .. Len(symbols) + Len(block) :
             all[i] = IF i <= Len(symbols) THEN symbols[i] ELSE block[i - Len(symbols)]
    <3>1. Sequence(symbols) /\ Sequence(block)
      BY <2>1
    <3> QED BY <3>1, Concatenated, Zenon
  <2> HIDE DEF all, m
  <2> QED BY <2>1, <2>2, Zenon
<1> HIDE DEF more, all
<1>4. /\ c \in [0 .. n -> Nat] /\ c[0] = 0 /\ c[n] = cut[m] + Len(block)
      /\ \A k \in 0 .. m : c[k] = cut[k]
  BY <1>1
<1> HIDE DEF c
<1>5. ASSUME NEW k \in 1 .. n
      PROVE  more[k] \in SentFrames /\ more[k].rate = more[1].rate
  <2>1. CASE k \in 1 .. m
    <3>1. frames[k] \in SentFrames /\ frames[k].rate = frames[1].rate
      BY <2>1 DEF Layout
    <3>2. more[k] = frames[k] /\ more[1] = frames[1]
      BY <1>1, <1>2, <2>1
    <3> QED BY <3>1, <3>2
  <2>2. CASE k = n
    <3>1. m > 0 => more[1] = frames[1]
      BY <1>1, <1>2
    <3> QED BY <1>1, <1>2, <2>2, <3>1
  <2> QED BY <1>1, <2>1, <2>2
<1>6. ASSUME NEW k \in 1 .. n
      PROVE  c[k] = c[k - 1] + BlockLength(k, more[k].sigtype)
  <2>1. CASE k \in 1 .. m
    <3>1. cut[k] = cut[k - 1] + BlockLength(k, frames[k].sigtype)
      BY <2>1 DEF Layout
    <3>2. more[k] = frames[k] /\ c[k] = cut[k] /\ c[k - 1] = cut[k - 1]
      BY <1>1, <1>2, <1>4, <2>1
    <3> QED BY <3>1, <3>2
  <2>2. CASE k = n
    BY <1>1, <1>2, <1>4, <2>2
  <2> QED BY <1>1, <2>1, <2>2
<1>7. ASSUME NEW j \in 0 .. n, NEW k \in 0 .. n, j < k
      PROVE  c[j] < c[k]
  <2>1. \A p, q \in 0 .. m : p < q => cut[p] < cut[q]
    BY DEF Layout
  <2>2. CASE k \in 0 .. m
    BY <1>1, <1>4, <1>7, <2>1, <2>2, SMTT(30)
  <2>3. CASE k = n
    <3>1. j \in 0 .. m /\ (j = m \/ j < m)
      BY <1>1, <1>7, <2>3
    <3>2. c[j] = cut[j] /\ cut[j] <= cut[m]
      BY <1>1, <1>4, <2>1, <3>1
    <3> QED BY <1>1, <1>4, <2>3, <3>1, <3>2
  <2> QED BY <1>1, <2>2, <2>3
<1>8. ASSUME NEW k \in 1 .. n, NEW i \in 1 .. BlockLength(k, more[k].sigtype)
      PROVE  IsSymbolAt(all[c[k - 1] + i - 0], more, k, i)
  <2>0. i \in Nat /\ i > 0 /\ i <= BlockLength(k, more[k].sigtype)
        /\ BlockLength(k, more[k].sigtype) \in Nat
    BY BlockIsLong
  <2>1. CASE k \in 1 .. m
    <3>1. more[k] = frames[k] /\ c[k - 1] = cut[k - 1] /\ cut[k - 1] \in Nat /\ cut[k] \in Nat
      <4>1. k \in 0 .. m /\ k - 1 \in 0 .. m
        BY <1>1, <2>1
      <4>2. cut[k - 1] \in Nat /\ cut[k] \in Nat
        BY <1>1, <4>1
      <4> QED BY <1>2, <1>4, <2>1, <4>1, <4>2
    <3>2. /\ cut[k] = cut[k - 1] + BlockLength(k, frames[k].sigtype)
          /\ k < m => cut[k] < cut[m]
          /\ IsSymbolAt(symbols[cut[k - 1] + i - 0], frames, k, i)
      <4>1. /\ cut[k] = cut[k - 1] + BlockLength(k, frames[k].sigtype)
            /\ k < m => cut[k] < cut[m]
        BY <1>1, <2>1 DEF Layout
      <4>2. cut[k - 1] + i > 0
        BY <2>0, <3>1
      <4> QED BY <2>1, <3>1, <4>1, <4>2 DEF Layout
    <3>3. cut[k - 1] + i - 0 = cut[k - 1] + i /\ cut[k - 1] + i <= cut[k] /\ cut[k] <= cut[m]
          /\ cut[k - 1] + i \in 1 .. cut[m] + Len(block)
      BY <1>1, <2>0, <2>1, <3>1, <3>2, SMTT(30)
    <3>4. all[cut[k - 1] + i] = symbols[cut[k - 1] + i]
      <4>1. cut[k - 1] + i <= cut[m]
        BY <1>1, <2>0, <3>1, <3>3
      <4> QED BY <1>3, <3>3, <4>1
    <3>5. k = m /\ i = BlockLength(k, frames[k].sigtype)
            => symbols[cut[k - 1] + i].data = MORE_FRAMES
      BY <1>1, <2>1, <3>2
    <3>6. IsSymbolAt(symbols[cut[k - 1] + i], more, k, i)
      BY <1>1, <2>1, <3>1, <3>2, <3>3, <3>5, SymbolKept DEF more
    <3> QED BY <3>1, <3>3, <3>4, <3>6
  <2>2. CASE k = n
    <3>1. k - 1 = m /\ c[k - 1] = cut[m] /\ more[k] = x /\ i \in 1 .. Len(block)
      BY <1>1, <1>2, <1>4, <2>2
    <3>2. cut[m] + i - 0 \in 1 .. cut[m] + Len(block) /\ ~(cut[m] + i - 0 <= cut[m])
          /\ cut[m] + i - 0 - cut[m] = i
      BY <1>1, <2>0, <3>1
    <3>3. all[cut[m] + i - 0] = block[i]
      <4> DEFINE p == cut[m] + i - 0
      <4> HIDE DEF p
      <4>0. p = cut[m] + i /\ cut[m] \in Nat /\ i \in Nat /\ i > 0 /\ i <= Len(block)
        <5>1. cut[m] \in Nat
          BY <1>1
        <5>2. i \in Nat /\ i > 0 /\ i <= Len(block)
          BY <1>1, <2>0, <3>1
        <5> QED BY <5>1, <5>2 DEF p
      <4>1. p \in 1 .. cut[m] + Len(block) /\ ~(p <= cut[m]) /\ p - cut[m] = i
        BY <1>1, <4>0
      <4>2. all[p] = IF p <= cut[m] THEN symbols[p] ELSE block[p - cut[m]]
        BY <1>3, <4>1
      <4>3. all[p] = block[i]
        BY <4>1, <4>2
      <4> QED BY <4>3 DEF p
    <3>4. IsSymbolAt(block[i], more, n, i)
      BY <3>1 DEF more
    <3> QED BY <2>2, <3>1, <3>3, <3>4
  <2> QED BY <1>1, <2>1, <2>2
<1>9. Layout(all, 0, more, c)
  <2>1. Len(all) = c[Len(more)] - 0
    BY <1>1, <1>2, <1>3, <1>4
  <2> QED BY <1>2, <1>3, <1>4, <1>5, <1>6, <1>7, <1>8, <2>1 DEF Layout
<1> QED BY <1>9 DEF all, more

\* Alphabets are kept.
LEMMA AlphabetsConcatenated ==
  ASSUME NEW s, NEW t, Sequence(s), Sequence(t), InAlphabet(s), InAlphabet(t)
  PROVE  InAlphabet(s \o t)
<1> DEFINE u == s \o t
<1>1. /\ Len(u) = Len(s) + Len(t) /\ Len(s) \in Nat /\ Len(t) \in Nat
      /\ \A i \in 1 .. Len(s) + Len(t) : u[i] = IF i <= Len(s) THEN s[i] ELSE t[i - Len(s)]
  BY Concatenated DEF Sequence
<1> HIDE DEF u
<1>2. ASSUME NEW i \in 1 .. Len(u)
      PROVE  u[i].data \in Alphabet(u[i].table)
  <2>1. CASE i <= Len(s)
    BY <1>1, <2>1 DEF InAlphabet
  <2>2. CASE i > Len(s)
    <3>1. u[i] = t[i - Len(s)] /\ i - Len(s) \in 1 .. Len(t)
      BY <1>1, <2>2
    <3> QED BY <3>1 DEF InAlphabet
  <2> QED BY <1>1, <2>1, <2>2
<1> QED BY <1>2 DEF InAlphabet, u

\* Nothing is a packet of no frames.
LEMMA NothingIsLayout == \E cut : Layout(<<>>, 0, <<>>, cut)
<1> DEFINE cut == [n \in {0} |-> 0]
<1>1. Layout(<<>>, 0, <<>>, cut)
  BY DEF Layout, Sequence, MaxFrames
<1> QED BY <1>1

\* Frame f is written to the packet, its gains quantized, and with the termination last.
IsWritten(f, last, quantized, symbols, frames, n) ==
  /\ quantized = gains_quant(f.levels, enc.LastGainIndex, enc.nFramesInPayloadBuf > 0)
  /\ symbols = enc.symbols \o encode_parameters(enc, f, quantized.ind)
               \o <<Sym(TerminationTable, last)>>
  /\ frames = Append(enc.frames, Sent(enc, f, quantized))
  /\ n = enc.nFramesInPayloadBuf + 1

\* A packet that grows by a frame: its layout, and what the encoder goes on with.
LEMMA FrameIsEncoded ==
  ASSUME ContentInv, NEW f \in Frames, NEW last \in 0 .. 3, NEW quantized, NEW symbols,
         NEW frames, NEW n, IsWritten(f, last, quantized, symbols, frames, n)
  PROVE  /\ Sequence(symbols) /\ InAlphabet(symbols)
         /\ \E cut : Layout(symbols, 0, frames, cut)
         /\ Sequence(frames) /\ n \in 1 .. size /\ Len(frames) = n
         /\ frames[n].rate = enc.rate /\ frames[1].rate = enc.rate
         /\ TypeOf(frames[n]) = 2 * f.sigtype + f.offset
         /\ frames[n].levels[NB_SUBFR] = quantized.last
         /\ symbols[Len(symbols)].data = last
<1>a. quantized = gains_quant(f.levels, enc.LastGainIndex, enc.nFramesInPayloadBuf > 0)
  BY DEF IsWritten
<1>b. symbols = enc.symbols \o encode_parameters(enc, f, quantized.ind)
                \o <<Sym(TerminationTable, last)>>
  BY DEF IsWritten
<1>c. frames = Append(enc.frames, Sent(enc, f, quantized))
  BY DEF IsWritten
<1>d. n = enc.nFramesInPayloadBuf + 1
  BY DEF IsWritten
<1> USE <1>a, <1>b, <1>c, <1>d
<1> DEFINE x == Sent(enc, f, quantized)
           block == encode_parameters(enc, f, quantized.ind) \o <<Sym(TerminationTable, last)>>
           m == enc.nFramesInPayloadBuf
           N == NB_SUBFR
<1>1. /\ EncoderInv(enc) /\ size \in 1 .. MaxFrames /\ MaxFrames = 5 /\ N \in Nat /\ N > 0
      /\ f \in [sigtype : {0, 1}, offset : {0, 1}, levels : [1 .. N -> Levels],
                interp : Interps, per : PerIndices]
  BY StreamAssumption DEF ContentInv, MaxFrames
<1>2. PICK cut : Layout(enc.symbols, 0, enc.frames, cut)
  BY <1>1 DEF EncoderInv
<1>3. /\ Sequence(enc.frames) /\ Len(enc.frames) = m /\ m \in Nat /\ m < size
      /\ Sequence(enc.symbols) /\ InAlphabet(enc.symbols)
      /\ enc.LastGainIndex \in Levels /\ enc.typeOffsetPrev \in 0 .. 3
      /\ enc.rate \in 0 .. Len(SamplingRates) - 1
      /\ m > 0 => /\ enc.rate = enc.frames[1].rate
                  /\ enc.typeOffsetPrev = TypeOf(enc.frames[m])
                  /\ enc.LastGainIndex = enc.frames[m].levels[N]
                  /\ enc.symbols[Len(enc.symbols)].data = MORE_FRAMES
  BY <1>1, <1>2 DEF EncoderInv, Layout, Sequence
<1>4. QuantizedTo(quantized, enc.LastGainIndex, m > 0, N)
  <2>1. f.levels \in [1 .. NB_SUBFR -> Levels] /\ (m > 0) \in BOOLEAN
    BY <1>1
  <2> QED BY <1>3, <2>1, GainsQuantized, Zenon
<1>5. /\ Sequence(frames) /\ Len(frames) = n /\ frames[n] = x /\ n \in Nat /\ n > 0
      /\ \A k \in 1 .. m : frames[k] = enc.frames[k]
  BY <1>3, Appended
<1>6. /\ x.rate = enc.rate /\ x.sigtype = f.sigtype /\ x.offset = f.offset
      /\ x.interp = f.interp /\ x.per = (IF f.sigtype = VOICED THEN f.per ELSE 0)
      /\ x.levels = quantized.levels
      /\ x = [rate |-> x.rate, sigtype |-> x.sigtype, offset |-> x.offset,
              interp |-> x.interp, per |-> x.per, levels |-> x.levels]
  BY DEF Sent
<1>7. x \in SentFrames
  <2>1. quantized.levels \in [1 .. N -> Int]
    BY <1>4 DEF QuantizedTo, Sequence
  <2> HIDE DEF x
  <2> QED BY <1>1, <1>3, <1>6, <2>1 DEF SentFrames
<1> HIDE DEF x, block
<1>8. ASSUME NEW k \in 1 .. N
      PROVE  /\ quantized.ind[k] = GainIndex(frames, n, k)
             /\ quantized.ind[k] \in Alphabet(GainTable(n - 1, k, f.sigtype))
  <2>1. /\ quantized.levels[k] \in Int
        /\ IF k = 1 /\ ~(m > 0)
           THEN quantized.ind[k] \in 0 .. N_LEVELS_QGAIN - 1 /\ quantized.levels[k] = quantized.ind[k]
           ELSE /\ quantized.ind[k] \in 0 .. MAX_DELTA_GAIN_QUANT - MIN_DELTA_GAIN_QUANT
                /\ quantized.levels[k] = (IF k = 1 THEN enc.LastGainIndex ELSE quantized.levels[k - 1])
                                         + quantized.ind[k] + MIN_DELTA_GAIN_QUANT
    BY <1>4 DEF QuantizedTo
  <2>2. frames[n].levels = quantized.levels
    BY <1>5, <1>6
  <2>3. CASE k = 1 /\ ~(m > 0)
    <3>1. n = 1
      BY <1>3, <2>3
    <3>2. GainIndex(frames, n, k) = quantized.levels[k]
      BY <2>2, <2>3, <3>1 DEF GainIndex
    <3>3. Alphabet(GainTable(n - 1, k, f.sigtype)) = 0 .. N_LEVELS_QGAIN - 1
      BY <2>3, <3>1 DEF Alphabet, GainTable
    <3> QED BY <2>1, <2>3, <3>2, <3>3
  <2>4. CASE ~(k = 1 /\ ~(m > 0))
    <3>1. ~(n = 1 /\ k = 1) /\ n - 1 = m
      BY <1>3, <2>4
    <3>2. Alphabet(GainTable(n - 1, k, f.sigtype)) = 0 .. MAX_DELTA_GAIN_QUANT - MIN_DELTA_GAIN_QUANT
      BY <1>3, <3>1 DEF Alphabet, GainTable
    <3>3. CASE k = 1
      <4>1. frames[n - 1].levels[N] = enc.LastGainIndex
        <5>1. m > 0 /\ m \in 1 .. m
          BY <1>3, <2>4, <3>3
        <5> QED BY <1>3, <1>5, <3>1, <5>1
      <4>2. enc.LastGainIndex \in Int
        BY <1>3 DEF Levels
      <4>3. GainIndex(frames, n, k) = quantized.levels[k] - MIN_DELTA_GAIN_QUANT - enc.LastGainIndex
        BY <2>2, <3>1, <3>3, <4>1 DEF GainIndex
      <4>4. /\ quantized.ind[k] \in 0 .. MAX_DELTA_GAIN_QUANT - MIN_DELTA_GAIN_QUANT
            /\ quantized.levels[k] = enc.LastGainIndex + quantized.ind[k] + MIN_DELTA_GAIN_QUANT
        BY <2>1, <2>4, <3>3
      <4> DEFINE a == quantized.ind[k]
                 b == quantized.levels[k]
                 g == GainIndex(frames, n, k)
      <4>5. /\ a \in 0 .. MAX_DELTA_GAIN_QUANT - MIN_DELTA_GAIN_QUANT
            /\ b = enc.LastGainIndex + a + MIN_DELTA_GAIN_QUANT
            /\ g = b - MIN_DELTA_GAIN_QUANT - enc.LastGainIndex
        BY <4>3, <4>4
      <4> HIDE DEF a, b, g
      <4>6. a = g
        BY <4>2, <4>5, StreamAssumption
      <4> QED BY <3>2, <4>5, <4>6 DEF a, g
    <3>4. CASE k # 1
      <4>1. GainIndex(frames, n, k)
              = quantized.levels[k] - MIN_DELTA_GAIN_QUANT - quantized.levels[k - 1]
        BY <2>2, <3>4 DEF GainIndex
      <4>2. k - 1 \in 1 .. N
        BY <1>1, <3>4
      <4>3. quantized.levels[k - 1] \in Int
        BY <1>4, <4>2 DEF QuantizedTo
      <4>4. /\ quantized.ind[k] \in 0 .. MAX_DELTA_GAIN_QUANT - MIN_DELTA_GAIN_QUANT
            /\ quantized.levels[k]
                 = quantized.levels[k - 1] + quantized.ind[k] + MIN_DELTA_GAIN_QUANT
        BY <2>1, <3>4
      <4> DEFINE a == quantized.ind[k]
                 b == quantized.levels[k]
                 c == quantized.levels[k - 1]
                 g == GainIndex(frames, n, k)
      <4>5. /\ a \in 0 .. MAX_DELTA_GAIN_QUANT - MIN_DELTA_GAIN_QUANT
            /\ b = c + a + MIN_DELTA_GAIN_QUANT /\ c \in Int
            /\ g = b - MIN_DELTA_GAIN_QUANT - c
        BY <4>1, <4>3, <4>4
      <4> HIDE DEF a, b, c, g
      <4>6. a = g
        BY <4>5, StreamAssumption
      <4> QED BY <3>2, <4>5, <4>6 DEF a, g
    <3> QED BY <3>3, <3>4
  <2> QED BY <2>3, <2>4
<1>9. /\ Sequence(encode_parameters(enc, f, quantized.ind))
      /\ Sequence(block) /\ Len(block) = BlockLength(n, x.sigtype) /\ InAlphabet(block)
      /\ block[Len(block)].data = last
      /\ \A i \in 1 .. Len(block) : IsSymbolAt(block[i], frames, n, i)
  <2>1. n > 1 => enc.typeOffsetPrev = TypeOf(frames[n - 1])
    BY <1>3, <1>5
  <2>2. Sequence(quantized.ind) /\ Len(quantized.ind) = N
    BY <1>4 DEF QuantizedTo
  <2>3. f.per \in PerIndices /\ (x.sigtype = VOICED => f.per = x.per) /\ m = n - 1
    BY <1>1, <1>3, <1>6
  <2>4. /\ frames[n] \in SentFrames /\ enc.rate = frames[n].rate
        /\ f.sigtype = frames[n].sigtype /\ f.offset = frames[n].offset
        /\ f.interp = frames[n].interp /\ (frames[n].sigtype = VOICED => f.per = frames[n].per)
        /\ f.per \in PerIndices
    BY <1>5, <1>6, <1>7, <2>3
  <2>5. /\ Sequence(encode_parameters(enc, f, quantized.ind))
        /\ Sequence(block) /\ Len(block) = BlockLength(n, f.sigtype) /\ InAlphabet(block)
        /\ block[BlockLength(n, f.sigtype)].data = last
        /\ \A i \in 1 .. BlockLength(n, f.sigtype) : IsSymbolAt(block[i], frames, n, i)
    <3> DEFINE ind == quantized.ind
    <3>1. IsNextFrame(enc, f, ind, frames, n)
      BY <1>5, <1>8, <2>1, <2>2, <2>3, <2>4 DEF IsNextFrame
    <3> HIDE DEF ind
    <3> HIDE <1>a, <1>b, <1>c, <1>d
    <3>2. LET written == encode_parameters(enc, f, ind) \o <<Sym(TerminationTable, last)>>
              l == BlockLength(n, f.sigtype)
          IN
          /\ Sequence(encode_parameters(enc, f, ind))
          /\ Sequence(written) /\ Len(written) = l /\ InAlphabet(written)
          /\ written[l].data = last
          /\ \A i \in 1 .. l : IsSymbolAt(written[i], frames, n, i)
      BY <3>1, EncodedByPlace
    <3> QED BY <3>2 DEF block, ind
  <2> QED BY <1>6, <2>5
<1>10. symbols = enc.symbols \o block
  <2> DEFINE before == enc.symbols
             p == encode_parameters(enc, f, quantized.ind)
             q == <<Sym(TerminationTable, last)>>
  <2>1. Sequence(before) /\ Sequence(p) /\ Sequence(q)
    BY <1>3, <1>9 DEF Sequence
  <2>2. symbols = before \o p \o q /\ block = p \o q
    BY DEF block
  <2> HIDE DEF before, p, q
  <2>3. before \o p \o q = before \o (p \o q)
    BY <2>1, Associated
  <2> QED BY <2>2, <2>3 DEF before
<1>11. \E c : Layout(enc.symbols \o block, 0, Append(enc.frames, x), c)
  <2>1. n = Len(enc.frames) + 1 /\ n <= MaxFrames
    BY <1>1, <1>3
  <2>2. Len(enc.frames) > 0 => /\ x.rate = enc.frames[1].rate
                               /\ enc.symbols[Len(enc.symbols)].data = MORE_FRAMES
    BY <1>3, <1>6
  <2>3. \A i \in 1 .. Len(block) : IsSymbolAt(block[i], Append(enc.frames, x), n, i)
    BY <1>9 DEF x
  <2> QED BY <1>2, <1>7, <1>9, <2>1, <2>2, <2>3, LayoutGrows
<1>12. Sequence(symbols) /\ InAlphabet(symbols) /\ symbols[Len(symbols)].data = last
  <2>1. /\ Sequence(enc.symbols \o block)
        /\ Len(enc.symbols \o block) = Len(enc.symbols) + Len(block)
        /\ \A i \in 1 .. Len(enc.symbols) + Len(block) :
              (enc.symbols \o block)[i] = IF i <= Len(enc.symbols) THEN enc.symbols[i]
                                          ELSE block[i - Len(enc.symbols)]
    BY <1>3, <1>9, Concatenated
  <2>2. InAlphabet(enc.symbols \o block)
    BY <1>3, <1>9, AlphabetsConcatenated
  <2>3. Len(enc.symbols) \in Nat /\ Len(block) \in Nat /\ Len(block) > 0
    BY <1>1, <1>3, <1>9, BlockIsLong DEF Sequence
  <2>4. (enc.symbols \o block)[Len(enc.symbols) + Len(block)] = block[Len(block)]
    <3> DEFINE k == Len(enc.symbols) + Len(block)
    <3>1. k \in 1 .. k /\ ~(k <= Len(enc.symbols)) /\ k - Len(enc.symbols) = Len(block)
      BY <2>3
    <3> HIDE DEF k
    <3>2. (enc.symbols \o block)[k] = IF k <= Len(enc.symbols) THEN enc.symbols[k]
                                      ELSE block[k - Len(enc.symbols)]
      BY <2>1, <3>1 DEF k
    <3> QED BY <3>1, <3>2 DEF k
  <2> QED BY <1>9, <1>10, <2>1, <2>2, <2>4
<1>13. frames[1].rate = enc.rate
  BY <1>3, <1>5, <1>6
<1>14. frames[n].levels[N] = quantized.last
  BY <1>1, <1>4, <1>5, <1>6 DEF QuantizedTo
<1>15. TypeOf(frames[n]) = 2 * f.sigtype + f.offset
  BY <1>5, <1>6 DEF TypeOf
<1>16. \E c : Layout(symbols, 0, frames, c)
  BY <1>10, <1>11 DEF x
<1>17. n \in 1 .. size /\ frames[n].rate = enc.rate
  BY <1>1, <1>3, <1>5, <1>6
<1> QED BY <1>5, <1>12, <1>13, <1>14, <1>15, <1>16, <1>17

\* The gains go on from a level of the quantizer.
LEMMA LastIsALevel ==
  ASSUME ContentInv, NEW f \in Frames, NEW quantized,
         quantized = gains_quant(f.levels, enc.LastGainIndex, enc.nFramesInPayloadBuf > 0)
  PROVE  quantized.last \in Levels
<1>1. f.levels \in [1 .. NB_SUBFR -> Levels] /\ (enc.nFramesInPayloadBuf > 0) \in BOOLEAN
  BY StreamAssumption
<1>2. enc.LastGainIndex \in Levels
  BY DEF ContentInv, EncoderInv
<1>3. QuantizedTo(quantized, enc.LastGainIndex, enc.nFramesInPayloadBuf > 0, NB_SUBFR)
  BY <1>1, <1>2, GainsQuantized, Zenon
<1> QED BY <1>3 DEF QuantizedTo

\* What the encoder keeps of a frame.
LEMMA EncodedIsEncoder ==
  ASSUME ContentInv, NEW f \in Frames, NEW quantized, NEW e, e = Encoded(f, quantized),
         quantized = gains_quant(f.levels, enc.LastGainIndex, enc.nFramesInPayloadBuf > 0)
  PROVE  /\ IsEncoder(e) /\ e.rate = enc.rate /\ e.rate \in 0 .. Len(SamplingRates) - 1
         /\ e.LastGainIndex = quantized.last /\ e.LastGainIndex \in Levels
         /\ e.typeOffsetPrev = 2 * f.sigtype + f.offset /\ e.typeOffsetPrev \in 0 .. 3
         /\ e.nFramesInPayloadBuf = enc.nFramesInPayloadBuf
<1>1. quantized.last \in Levels
  BY LastIsALevel
<1>2. f.sigtype \in {0, 1} /\ f.offset \in {0, 1}
  BY StreamAssumption
<1>3. IsEncoder(enc) /\ enc.rate \in 0 .. Len(SamplingRates) - 1
  BY DEF ContentInv, EncoderInv
<1>4. e = [enc EXCEPT !.LastGainIndex = quantized.last,
                      !.typeOffsetPrev = 2 * f.sigtype + f.offset]
  BY DEF Encoded
<1>5. 2 * f.sigtype + f.offset \in 0 .. 3
  BY <1>2
<1> DEFINE type == 2 * f.sigtype + f.offset
<1> HIDE DEF type
<1>6. /\ IsEncoder(e) /\ e.rate = enc.rate /\ e.LastGainIndex = quantized.last
      /\ e.typeOffsetPrev = type /\ e.nFramesInPayloadBuf = enc.nFramesInPayloadBuf
  BY <1>3, <1>4 DEF IsEncoder, Encoder, type
<1> QED BY <1>1, <1>3, <1>5, <1>6 DEF type

\* An encoder that begins a packet.
LEMMA ClearedInv ==
  ASSUME NEW e, NEW c, c = Cleared(e), IsEncoder(e), e.rate \in 0 .. Len(SamplingRates) - 1,
         e.LastGainIndex \in Levels, e.typeOffsetPrev \in 0 .. 3, size \in PacketSizes
  PROVE  EncoderInv(c)
<1>1. /\ IsEncoder(c) /\ c.rate = e.rate /\ c.LastGainIndex = e.LastGainIndex
      /\ c.typeOffsetPrev = e.typeOffsetPrev /\ c.nFramesInPayloadBuf = 0
      /\ c.symbols = <<>> /\ c.frames = <<>>
  BY DEF Cleared, IsEncoder, Encoder
<1>2. \E cut : Layout(c.symbols, 0, c.frames, cut)
  BY <1>1, NothingIsLayout
<1>3. Len(c.frames) = 0 /\ 0 < size /\ InAlphabet(c.symbols)
  BY <1>1, StreamAssumption DEF InAlphabet
<1> QED BY <1>1, <1>2, <1>3 DEF EncoderInv

\* No packet.
LEMMA NothingInv == WireInv(Nothing)
<1>1. Nothing.symbols = <<>> /\ Nothing.frames = <<>>
  BY DEF Nothing
<1> QED BY <1>1, NothingIsLayout DEF WireInv, Sequence, InAlphabet

\* A frame is written: into a packet that is completed by it, or one that goes on.
LEMMA EncodeFrameContent ==
  ASSUME ContentInv, NEW f \in Frames, NEW t \in {LAST_FRAME, LBRR_VER1}, EncodeFrame(f, t)
  PROVE  EncoderInv(enc)' /\ WireInv(wire)'
<1> DEFINE quantized == gains_quant(f.levels, enc.LastGainIndex, enc.nFramesInPayloadBuf > 0)
           n == enc.nFramesInPayloadBuf + 1
           last == IF n = size THEN t ELSE MORE_FRAMES
           symbols == enc.symbols \o encode_parameters(enc, f, quantized.ind)
                      \o <<Sym(TerminationTable, last)>>
           frames == Append(enc.frames, Sent(enc, f, quantized))
           e == Encoded(f, quantized)
<1>1. size' = size /\ size \in PacketSizes /\ WireInv(wire)
  BY DEF EncodeFrame, ContentInv
<1>2. last \in 0 .. 3
  BY DEF LAST_FRAME, LBRR_VER1, MORE_FRAMES
<1>3. IF n = size
      THEN /\ wire' = [symbols |-> symbols, frames |-> frames]
           /\ enc' = Cleared(e)
      ELSE /\ enc' = [e EXCEPT !.nFramesInPayloadBuf = @ + 1, !.symbols = symbols,
                               !.frames = frames]
           /\ wire' = wire
  BY DEF EncodeFrame
<1> HIDE DEF last
<1>4. /\ Sequence(symbols) /\ InAlphabet(symbols)
      /\ \E cut : Layout(symbols, 0, frames, cut)
      /\ Sequence(frames) /\ n \in 1 .. size /\ Len(frames) = n
      /\ frames[n].rate = enc.rate /\ frames[1].rate = enc.rate
      /\ TypeOf(frames[n]) = 2 * f.sigtype + f.offset
      /\ frames[n].levels[NB_SUBFR] = quantized.last
      /\ symbols[Len(symbols)].data = last
  <2>1. IsWritten(f, last, quantized, symbols, frames, n)
    BY DEF IsWritten
  <2> HIDE DEF quantized, symbols, frames, n
  <2> QED BY <1>2, <2>1, FrameIsEncoded
<1>5. /\ IsEncoder(e) /\ e.rate = enc.rate /\ e.rate \in 0 .. Len(SamplingRates) - 1
      /\ e.LastGainIndex = quantized.last /\ e.LastGainIndex \in Levels
      /\ e.typeOffsetPrev = 2 * f.sigtype + f.offset /\ e.typeOffsetPrev \in 0 .. 3
      /\ e.nFramesInPayloadBuf = enc.nFramesInPayloadBuf
  BY EncodedIsEncoder
<1> HIDE DEF quantized, symbols, frames, e, n
<1>6. CASE n = size
  <2>1. wire' = [symbols |-> symbols, frames |-> frames] /\ enc' = Cleared(e)
    BY <1>3, <1>6
  <2>2. EncoderInv(enc')
    BY <1>1, <1>5, <2>1, ClearedInv
  <2>3. WireInv(wire')
    BY <1>4, <2>1 DEF WireInv
  <2> QED BY <1>1, <2>2, <2>3 DEF EncoderInv, WireInv
<1>7. CASE n # size
  <2>1. /\ enc' = [e EXCEPT !.nFramesInPayloadBuf = @ + 1, !.symbols = symbols,
                            !.frames = frames]
        /\ wire' = wire
    BY <1>3, <1>7
  <2>2. /\ IsEncoder(enc') /\ enc'.rate = e.rate /\ enc'.LastGainIndex = e.LastGainIndex
        /\ enc'.typeOffsetPrev = e.typeOffsetPrev /\ enc'.nFramesInPayloadBuf = n
        /\ enc'.symbols = symbols /\ enc'.frames = frames
    BY <1>5, <2>1 DEF IsEncoder, Encoder, n
  <2>3. n < size /\ n > 0 /\ last = MORE_FRAMES
    BY <1>1, <1>4, <1>7, StreamAssumption DEF last
  <2>4. EncoderInv(enc')
    BY <1>4, <1>5, <2>2, <2>3 DEF EncoderInv
  <2> QED BY <1>1, <2>1, <2>4 DEF EncoderInv, WireInv
<1> QED BY <1>6, <1>7

\* A frame fails to be written.
LEMMA EncodeFailsContent ==
  ASSUME ContentInv, NEW f \in Frames, EncodeFails(f)
  PROVE  EncoderInv(enc)' /\ WireInv(wire)'
<1> DEFINE quantized == gains_quant(f.levels, enc.LastGainIndex, enc.nFramesInPayloadBuf > 0)
           e == Encoded(f, quantized)
<1>1. /\ size' = size /\ size \in PacketSizes /\ WireInv(wire) /\ wire' = wire
      /\ enc' = Cleared(e)
  BY DEF EncodeFails, ContentInv
<1>2. /\ IsEncoder(e) /\ e.rate = enc.rate /\ e.rate \in 0 .. Len(SamplingRates) - 1
      /\ e.LastGainIndex = quantized.last /\ e.LastGainIndex \in Levels
      /\ e.typeOffsetPrev = 2 * f.sigtype + f.offset /\ e.typeOffsetPrev \in 0 .. 3
  BY EncodedIsEncoder
<1> HIDE DEF e, quantized
<1>3. EncoderInv(enc')
  BY <1>1, <1>2, ClearedInv
<1> QED BY <1>1, <1>3 DEF EncoderInv, WireInv

\* The rate changes between two packets, of which nothing is written yet.
LEMMA ChangeRateContent ==
  ASSUME ContentInv, NEW rate \in 0 .. Len(SamplingRates) - 1, ChangeRate(rate)
  PROVE  EncoderInv(enc)' /\ WireInv(wire)'
<1>1. /\ size' = size /\ WireInv(wire) /\ wire' = wire
      /\ enc' = [enc EXCEPT !.rate = rate, !.LastGainIndex = 1]
      /\ EncoderInv(enc) /\ enc.nFramesInPayloadBuf = 0
  BY DEF ChangeRate, ContentInv
<1>2. /\ IsEncoder(enc') /\ enc'.rate = rate /\ enc'.LastGainIndex = 1
      /\ enc'.typeOffsetPrev = enc.typeOffsetPrev
      /\ enc'.nFramesInPayloadBuf = enc.nFramesInPayloadBuf
      /\ enc'.symbols = enc.symbols /\ enc'.frames = enc.frames
  BY <1>1 DEF EncoderInv, IsEncoder, Encoder
<1>3. 1 \in Levels
  BY StreamAssumption
<1>4. EncoderInv(enc')
  BY <1>1, <1>2, <1>3 DEF EncoderInv
<1> QED BY <1>1, <1>4 DEF EncoderInv, WireInv

-----------------------------------------------------------------------------
(* The packet on its way to the decoder.                                   *)

\* The next symbol of a packet, and what it leaves.
LEMMA NextSymbol ==
  ASSUME NEW symbols, NEW frames, NEW cut, NEW n \in 1 .. Len(frames),
         NEW done \in 0 .. BlockLength(n, frames[n].sigtype) - 1,
         Layout(symbols, cut[n - 1] + done, frames, cut)
  PROVE  /\ symbols # <<>>
         /\ IsSymbolAt(Head(symbols), frames, n, done + 1)
         /\ Layout(Tail(symbols), cut[n - 1] + (done + 1), frames, cut)
         /\ Len(symbols) = cut[Len(frames)] - (cut[n - 1] + done)
         /\ cut[n] = cut[n - 1] + BlockLength(n, frames[n].sigtype)
         /\ n < Len(frames) => cut[n] < cut[Len(frames)]
         /\ cut[n] \in Nat /\ cut[n - 1] \in Nat
<1> DEFINE from == cut[n - 1] + done
           l == Len(frames)
           tail == Tail(symbols)
<1>1. /\ Sequence(frames) /\ l \in Nat /\ l <= MaxFrames /\ Sequence(symbols)
      /\ cut \in [0 .. l -> Nat] /\ Len(symbols) = cut[l] - from /\ Len(symbols) \in Nat
  BY DEF Layout, Sequence
<1>2. ASSUME NEW m \in 1 .. l
      PROVE  /\ cut[m] \in Nat /\ cut[m - 1] \in Nat /\ cut[m] <= cut[l]
             /\ cut[m] = cut[m - 1] + BlockLength(m, frames[m].sigtype)
             /\ m < l => cut[m] < cut[l]
  <2>1. m \in 0 .. l /\ m - 1 \in 0 .. l /\ l \in 0 .. l /\ (m = l \/ m < l)
    BY <1>1
  <2>2. cut[m] \in Nat /\ cut[m - 1] \in Nat /\ cut[l] \in Nat
    BY <1>1, <2>1
  <2>3. m < l => cut[m] < cut[l]
    BY <2>1 DEF Layout
  <2>4. cut[m] = cut[m - 1] + BlockLength(m, frames[m].sigtype)
    BY DEF Layout
  <2> QED BY <2>1, <2>2, <2>3, <2>4
<1>3. BlockLength(n, frames[n].sigtype) \in Nat /\ done \in Nat
      /\ done + 1 <= BlockLength(n, frames[n].sigtype) /\ done + 1 > 0
  BY BlockIsLong
<1>4. from \in Nat /\ from < cut[l] /\ Len(symbols) > 0 /\ cut[l] \in Nat
  <2>1. cut[l] \in Nat
    BY <1>1
  <2> QED BY <1>1, <1>2, <1>3, <2>1, SMTT(30)
<1>5. /\ symbols # <<>> /\ Head(symbols) = symbols[1]
      /\ Sequence(tail) /\ Len(tail) = Len(symbols) - 1
      /\ \A i \in 1 .. Len(symbols) - 1 : tail[i] = symbols[i + 1]
  BY <1>1, <1>4, Tailed
<1> HIDE DEF l, tail
<1>6. IsSymbolAt(Head(symbols), frames, n, done + 1)
  <2> DEFINE i == done + 1
  <2>1. /\ i \in 1 .. BlockLength(n, frames[n].sigtype) /\ cut[n - 1] + i > from
        /\ cut[n - 1] + i - from = 1
    BY <1>2, <1>3 DEF l
  <2> HIDE DEF i, from
  <2>2. IsSymbolAt(symbols[cut[n - 1] + i - from], frames, n, i)
    BY <2>1 DEF Layout, from
  <2> QED BY <1>5, <2>1, <2>2 DEF i
<1>7. Layout(tail, cut[n - 1] + (done + 1), frames, cut)
  <2> DEFINE next == cut[n - 1] + (done + 1)
  <2>1. next = from + 1
    BY <1>2, <1>3 DEF l
  <2> HIDE DEF next, from
  <2>2. ASSUME NEW m \in 1 .. l, NEW i \in 1 .. BlockLength(m, frames[m].sigtype),
               cut[m - 1] + i > next
        PROVE  IsSymbolAt(tail[cut[m - 1] + i - next], frames, m, i)
    <3> DEFINE k == cut[m - 1] + i - next
    <3>1. /\ cut[m] \in Nat /\ cut[m - 1] \in Nat /\ cut[m] <= cut[l]
          /\ cut[m] = cut[m - 1] + BlockLength(m, frames[m].sigtype)
      BY <1>2
    <3>2. i \in Nat /\ i <= BlockLength(m, frames[m].sigtype)
          /\ BlockLength(m, frames[m].sigtype) \in Nat
      BY BlockIsLong
    <3>6. from \in Nat /\ cut[l] \in Nat /\ Len(symbols) = cut[l] - from
      BY <1>1, <1>4 DEF from
    <3>7. cut[m - 1] + i <= cut[l] /\ cut[m - 1] + i > from + 1 /\ cut[m - 1] \in Nat /\ i \in Nat
      BY <2>1, <2>2, <3>1, <3>2, <3>6, SMTT(30)
    <3>3. k \in 1 .. Len(symbols) - 1 /\ k + 1 = cut[m - 1] + i - from /\ cut[m - 1] + i > from
      <4> DEFINE a == cut[m - 1]
                 z == cut[l]
      <4>1. /\ a \in Nat /\ i \in Nat /\ a + i <= z /\ a + i > from + 1
            /\ z \in Nat /\ from \in Nat /\ Len(symbols) = z - from
        BY <3>6, <3>7
      <4> HIDE DEF a, z
      <4>2. k \in 1 .. Len(symbols) - 1 /\ k + 1 = a + i - from /\ a + i > from
        <5>1. k = a + i - next
          BY DEF a
        <5> HIDE DEF k
        <5> QED BY <2>1, <4>1, <5>1
      <4> QED BY <4>2 DEF a
    <3>4. IsSymbolAt(symbols[cut[m - 1] + i - from], frames, m, i)
      BY <3>3 DEF Layout, l, from
    <3> HIDE DEF k
    <3>5. tail[k] = symbols[k + 1]
      BY <1>5, <3>3
    <3> QED BY <3>3, <3>4, <3>5 DEF k
  <2>3. Len(tail) = cut[l] - next
    BY <1>1, <1>4, <1>5, <2>1, SMTT(30) DEF from
  <2>4. Layout(symbols, from, frames, cut)
    BY DEF from
  <2> QED BY <1>5, <2>2, <2>3, <2>4 DEF Layout, l, next
<1> QED BY <1>1, <1>2, <1>5, <1>6, <1>7 DEF l, tail

-----------------------------------------------------------------------------
(* The decoder, symbol by symbol.                                          *)

\* Which places there are, and where.
LEMMA PlaceCases ==
  ASSUME NEW n, NEW sigtype, NEW i \in 1 .. BlockLength(n, sigtype), NEW place,
         place = Place(n, sigtype, i), NEW p, p = i - Lead(n)
  PROVE  /\ p \in Int /\ p <= NB_SUBFR + 7 + VoicedLength(sigtype)
         /\ place \in {"rate", "type", "gain", "NLSF", "interp", "lag", "contour", "per", "LTP",
                       "scale", "seed", "pulses", "VAD", "termination"}
         /\ (place = "rate") <=> (p < 1)
         /\ (place = "type") <=> (p = 1)
         /\ (place = "gain") <=> (p >= 2 /\ p <= NB_SUBFR + 1)
         /\ (place = "interp") <=> (p = NB_SUBFR + 3)
         /\ (place = "per") <=> (sigtype = VOICED /\ p = NB_SUBFR + 6)
         /\ place = "NLSF" => p >= 2
         /\ place \in {"lag", "contour", "scale"} => p >= 2
         /\ place = "LTP" => p >= NB_SUBFR + 7 /\ sigtype = VOICED
         /\ place \in {"seed", "pulses", "VAD"} => p >= 2
         /\ place = "termination" => p = NB_SUBFR + 7 + VoicedLength(sigtype)
<1> DEFINE v == VoicedLength(sigtype)
           N == NB_SUBFR
<1>1. N \in Nat /\ N > 0 /\ v \in Nat /\ Lead(n) \in Nat
  BY StreamAssumption DEF VoicedLength, Lead
<1>2. BlockLength(n, sigtype) = Lead(n) + N + 7 + v
  BY DEF BlockLength
<1>3. i \in Int /\ p \in Int /\ p <= N + 7 + v
  BY <1>1, <1>2
<1>4. v = IF sigtype = VOICED THEN N + 4 ELSE 0
  BY DEF VoicedLength
<1>5. place =
     IF p < 1 THEN "rate" ELSE IF p = 1 THEN "type" ELSE IF p <= N + 1 THEN "gain"
     ELSE IF p = N + 2 THEN "NLSF" ELSE IF p = N + 3 THEN "interp"
     ELSE IF p <= N + 3 + v
     THEN IF p = N + 4 THEN "lag" ELSE IF p = N + 5 THEN "contour"
          ELSE IF p = N + 6 THEN "per" ELSE IF p <= 2 * N + 6 THEN "LTP"
          ELSE "scale"
     ELSE IF p = N + 4 + v THEN "seed" ELSE IF p = N + 5 + v THEN "pulses"
     ELSE IF p = N + 6 + v THEN "VAD" ELSE "termination"
  BY DEF Place
<1> HIDE DEF v, N
<1>6. CASE p <= N + 3
  <2>1. place = IF p < 1 THEN "rate" ELSE IF p = 1 THEN "type" ELSE IF p <= N + 1 THEN "gain"
                ELSE IF p = N + 2 THEN "NLSF" ELSE "interp"
    BY <1>1, <1>3, <1>5, <1>6
  <2>2. p < 1 \/ p = 1 \/ (p >= 2 /\ p <= N + 1) \/ p = N + 2 \/ p = N + 3
    BY <1>1, <1>3, <1>6
  <2>3. p # N + 6
    BY <1>1, <1>3, <1>6
  <2> QED BY <1>1, <1>3, <2>1, <2>2, <2>3 DEF v, N
<1>7. CASE p > N + 3 /\ p <= N + 3 + v
  <2>1. sigtype = VOICED
    BY <1>1, <1>3, <1>4, <1>7
  <2>2. place = IF p = N + 4 THEN "lag" ELSE IF p = N + 5 THEN "contour"
                ELSE IF p = N + 6 THEN "per" ELSE IF p <= 2 * N + 6 THEN "LTP"
                ELSE "scale"
    BY <1>1, <1>3, <1>5, <1>7
  <2>3. p = N + 4 \/ p = N + 5 \/ p = N + 6 \/ p > N + 6
    BY <1>1, <1>3, <1>7
  <2> QED BY <1>1, <1>3, <1>7, <2>1, <2>2, <2>3 DEF v, N
<1>8. CASE p > N + 3 + v
  <2>1. place = IF p = N + 4 + v THEN "seed" ELSE IF p = N + 5 + v THEN "pulses"
                ELSE IF p = N + 6 + v THEN "VAD" ELSE "termination"
    BY <1>1, <1>3, <1>5, <1>8
  <2>2. p = N + 4 + v \/ p = N + 5 + v \/ p = N + 6 + v \/ p = N + 7 + v
    BY <1>1, <1>3, <1>8
  <2>3. p # N + 6 \/ sigtype # VOICED
    BY <1>1, <1>3, <1>4, <1>8
  <2>4. p > 1 /\ p > N + 1 /\ p > N + 3
    BY <1>1, <1>3, <1>8
  <2> QED BY <1>1, <1>3, <1>8, <2>1, <2>2, <2>3, <2>4 DEF v, N
<1> QED BY <1>1, <1>3, <1>6, <1>7, <1>8

\* The place of the next symbol.
AtPlace(d, n, x, i, j) ==
  /\ n = d.nFramesDecoded + 1 /\ x = d.sent[n] /\ i = d.done + 1 /\ j = d.done - Lead(n)

\* The decoder knows what the next symbol is about.
LEMMA FieldIsPlace ==
  ASSUME NEW d, d.nFramesDecoded \in Nat, InStepWithPeer(d), ReadSoFar(d),
         NEW n, NEW x, NEW i, NEW j, AtPlace(d, n, x, i, j)
  PROVE  /\ Field(d) = Place(n, x.sigtype, i) /\ i \in 1 .. BlockLength(n, x.sigtype)
         /\ n \in Nat /\ n > 0 /\ d.nFramesDecoded = n - 1 /\ n \in 1 .. Len(d.sent)
         /\ d.done \in Nat /\ Lead(n) \in {0, 1} /\ (Lead(n) = 1 <=> n = 1)
         /\ j \in Int /\ j >= 0 - Lead(n) /\ i - Lead(n) = j + 1
<1>1. /\ d.done \in 0 .. BlockLength(n, x.sigtype) - 1
      /\ j >= 1 => d.frame.sigtype = x.sigtype
      /\ n \in 1 .. Len(d.sent)
  BY DEF AtPlace, InStepWithPeer, ReadSoFar
<1>2. BlockLength(n, x.sigtype) \in Nat /\ BlockLength(n, x.sigtype) > NB_SUBFR + 6
  BY BlockIsLong
<1>3. /\ n \in Nat /\ n > 0 /\ d.nFramesDecoded = n - 1 /\ d.done \in Nat /\ i = d.done + 1
      /\ i \in 1 .. BlockLength(n, x.sigtype) /\ Lead(n) \in {0, 1} /\ (Lead(n) = 1 <=> n = 1)
      /\ j = d.done - Lead(n)
  BY <1>1, <1>2, SMTT(30) DEF AtPlace, Lead
<1>4. j \in Int /\ j >= 0 - Lead(n) /\ i - Lead(n) = j + 1
  BY <1>3
<1> DEFINE s == d.frame.sigtype
<1>5. /\ Sequence(Fields(d)) /\ Len(Fields(d)) = BlockLength(n, s)
      /\ \A k \in 1 .. BlockLength(n, s) : Fields(d)[k] = Place(n, s, k)
  BY <1>3, FieldsByPlace
<1>6. Field(d) = Fields(d)[i]
  BY <1>3 DEF Field
<1> HIDE DEF s
<1>7. CASE j >= 1
  <2>1. s = x.sigtype
    BY <1>1, <1>7 DEF s
  <2> QED BY <1>1, <1>3, <1>4, <1>5, <1>6, <2>1
<1>8. CASE ~(j >= 1)
  <2>1. j + 1 <= 1 /\ i <= 2
    BY <1>3, <1>4, <1>8
  <2>2. BlockLength(n, s) \in Nat /\ BlockLength(n, s) > NB_SUBFR + 6
    BY BlockIsLong
  <2>3. i \in 1 .. BlockLength(n, s)
    BY <1>3, <2>1, <2>2, StreamAssumption
  <2>4. ASSUME NEW t, i \in 1 .. BlockLength(n, t)
        PROVE  Place(n, t, i) = IF j + 1 < 1 THEN "rate" ELSE "type"
    BY <1>4, <2>1 DEF Place
  <2> QED BY <1>1, <1>3, <1>4, <1>5, <1>6, <2>3, <2>4
<1> QED BY <1>7, <1>8

\* It asks for the table the encoder wrote the symbol by.
LEMMA TableIsRight ==
  ASSUME NEW d, d.nFramesDecoded \in Nat, InStepWithPeer(d), ReadSoFar(d),
         NEW n, NEW x, NEW i, NEW j, AtPlace(d, n, x, i, j)
  PROVE  TableOf(d) = TableAt(d.sent, n, i)
<1> DEFINE place == Place(n, x.sigtype, i)
           p == i - Lead(n)
<1>1. /\ Field(d) = place /\ i \in 1 .. BlockLength(n, x.sigtype)
      /\ n \in Nat /\ n > 0 /\ d.nFramesDecoded = n - 1
      /\ d.done \in Nat /\ Lead(n) \in {0, 1} /\ (Lead(n) = 1 <=> n = 1)
      /\ j \in Int /\ j >= 0 - Lead(n) /\ p = j + 1
  BY FieldIsPlace
<1>2. x = d.sent[n] /\ j = d.done - Lead(n) /\ d.nFramesDecoded + 1 = n
  BY DEF AtPlace
<1>3. /\ j >= 0 => d.rate = x.rate
      /\ d.codebook = Codebook(SamplingRates[d.rate + 1])
      /\ j < 1 => (n > 1 => d.typeOffsetPrev = TypeOf(d.sent[n - 1]))
  BY <1>1, <1>2 DEF InStepWithPeer
<1>4. /\ j >= 1 => d.frame.sigtype = x.sigtype /\ d.frame.offset = x.offset
      /\ Len(d.frame.levels) = Limit(j - 1, 0, NB_SUBFR)
      /\ d.frame.per = IF x.sigtype = VOICED /\ j >= NB_SUBFR + 6 THEN x.per ELSE 0
  BY <1>1, <1>2 DEF ReadSoFar
<1>5. /\ p \in Int
      /\ place \in {"rate", "type", "gain", "NLSF", "interp", "lag", "contour", "per", "LTP",
                    "scale", "seed", "pulses", "VAD", "termination"}
      /\ (place = "type") <=> (p = 1)
      /\ (place = "gain") <=> (p >= 2 /\ p <= NB_SUBFR + 1)
      /\ place = "NLSF" => p >= 2
      /\ place \in {"lag", "contour", "scale"} => p >= 2
      /\ place = "LTP" => p >= NB_SUBFR + 7 /\ x.sigtype = VOICED
      /\ place \in {"seed", "pulses", "VAD"} => p >= 2
  BY <1>1, PlaceCases
<1> HIDE DEF place, p
<1>6. CASE place = "type"
  <2>1. j = 0
    BY <1>1, <1>5, <1>6
  <2>2. TypeTable(n - 1, d.typeOffsetPrev)
          = TypeTable(n - 1, IF n = 1 THEN 0 ELSE TypeOf(d.sent[n - 1]))
    BY <1>1, <1>3, <2>1 DEF TypeTable
  <2>3. TableOf(d) = TypeTable(n - 1, d.typeOffsetPrev)
    BY <1>1, <1>6 DEF TableOf
  <2>4. TableAt(d.sent, n, i) = TypeTable(n - 1, IF n = 1 THEN 0 ELSE TypeOf(d.sent[n - 1]))
    BY <1>1, <1>2, <1>6 DEF TableAt, place
  <2> QED BY <2>2, <2>3, <2>4
<1>7. CASE place = "gain"
  <2>1. j >= 1 /\ j <= NB_SUBFR /\ i - Lead(n) - 1 = j
    <3>1. p = i - Lead(n) /\ i \in Int
      BY <1>1 DEF p
    <3> QED BY <1>1, <1>5, <1>7, <3>1, StreamAssumption
  <2>2. Len(d.frame.levels) + 1 = j
    BY <1>1, <1>4, <2>1, StreamAssumption DEF Limit
  <2>3. TableOf(d) = GainTable(n - 1, Len(d.frame.levels) + 1, d.frame.sigtype)
    BY <1>1, <1>7 DEF TableOf
  <2>4. TableAt(d.sent, n, i) = GainTable(n - 1, i - Lead(n) - 1, x.sigtype)
    BY <1>1, <1>2, <1>7 DEF TableAt, place
  <2>5. d.frame.sigtype = x.sigtype
    BY <1>4, <2>1
  <2> QED BY <2>1, <2>2, <2>3, <2>4, <2>5
<1>8. CASE place = "LTP"
  <2>1. j >= NB_SUBFR + 6
    BY <1>1, <1>5, <1>8, StreamAssumption
  <2>2. d.frame.per = x.per
    BY <1>4, <1>5, <1>8, <2>1
  <2> QED BY <1>1, <1>2, <1>8, <2>2 DEF TableOf, TableAt, place
<1>9. CASE place \in {"rate", "interp", "per", "termination"}
  BY <1>1, <1>2, <1>9 DEF TableOf, TableAt, place
<1>10. CASE place \in {"NLSF", "lag", "contour", "scale", "seed", "pulses", "VAD"}
  <2>1. j >= 1
    BY <1>1, <1>5, <1>10
  <2>2. d.rate = x.rate /\ d.frame.sigtype = x.sigtype /\ d.frame.offset = x.offset
    BY <1>1, <1>3, <1>4, <2>1
  <2>3. d.codebook = Codebook(SamplingRates[x.rate + 1])
    BY <1>3, <2>2
  <2> QED BY <1>1, <1>2, <1>10, <2>2, <2>3 DEF TableOf, TableAt, place
<1> QED BY <1>5, <1>6, <1>7, <1>8, <1>9, <1>10

\* What taking a symbol's data changes.
IsTaken(d, data, e) ==
  /\ e.done = d.done + 1 /\ e.stream = d.stream /\ e.error = d.error
  /\ e.nFramesDecoded = d.nFramesDecoded /\ e.sent = d.sent
  /\ Field(d) = "rate" => /\ e.rate = data
                          /\ e.codebook = IF d.rate = data THEN d.codebook
                                          ELSE Codebook(SamplingRates[data + 1])
  /\ Field(d) # "rate" => e.rate = d.rate /\ e.codebook = d.codebook
  /\ e.typeOffsetPrev = IF Field(d) = "type" THEN data ELSE d.typeOffsetPrev
  /\ Field(d) = "gain" => e.LastGainIndex = GainDequantized(d, data)
  /\ Field(d) \notin {"rate", "gain"} => e.LastGainIndex = d.LastGainIndex
  /\ e.frame = CASE Field(d) = "rate" -> [d.frame EXCEPT !.rate = data]
                 [] Field(d) = "type" -> [d.frame EXCEPT !.sigtype = data \div 2,
                                                         !.offset = data % 2]
                 [] Field(d) = "gain" -> [d.frame EXCEPT
                                            !.levels = Append(@, GainDequantized(d, data))]
                 [] Field(d) = "interp" ->
                      [d.frame EXCEPT !.interp = IF d.first_frame_after_reset THEN 4
                                                 ELSE data]
                 [] Field(d) = "per" -> [d.frame EXCEPT !.per = data]
                 [] OTHER -> d.frame

\* Taking a symbol's data changes that, and no more.
LEMMA TakenEffects ==
  ASSUME NEW d, IsDecoder(d), NEW data, NEW e, e = Taken(d, data)
  PROVE  IsTaken(d, data, e)
<1> USE DEF IsTaken
<1> DEFINE next == [d EXCEPT !.done = @ + 1]
           Same(a) == /\ a.done = d.done + 1 /\ a.stream = d.stream /\ a.error = d.error
                      /\ a.nFramesDecoded = d.nFramesDecoded /\ a.sent = d.sent
<1>1. /\ IsDecoder(next) /\ Same(next) /\ next.rate = d.rate /\ next.codebook = d.codebook
      /\ next.typeOffsetPrev = d.typeOffsetPrev /\ next.LastGainIndex = d.LastGainIndex
      /\ next.frame = d.frame
  BY DEF IsDecoder, Decoder
<1> HIDE DEF next
<1>2. CASE Field(d) = "rate"
  <2> DEFINE a == decoder_set_fs(next, data)
  <2>1. e = [a EXCEPT !.frame.rate = data]
    BY <1>2 DEF Taken, next
  <2>2. /\ IsDecoder(a) /\ Same(a) /\ a.rate = data
        /\ a.codebook = IF d.rate = data THEN d.codebook ELSE Codebook(SamplingRates[data + 1])
        /\ a.typeOffsetPrev = d.typeOffsetPrev /\ a.frame = d.frame
    <3>1. CASE d.rate = data
      BY <1>1, <3>1 DEF decoder_set_fs
    <3>2. CASE d.rate # data
      <4> DEFINE c == Codebook(SamplingRates[data + 1])
      <4>1. a = [next EXCEPT !.rate = data, !.codebook = c, !.LastGainIndex = 1,
                             !.first_frame_after_reset = TRUE]
        BY <1>1, <3>2 DEF decoder_set_fs
      <4> HIDE DEF c, a
      <4>2. IsDecoder(a) /\ Same(a) /\ a.rate = data /\ a.codebook = c
            /\ a.typeOffsetPrev = d.typeOffsetPrev /\ a.frame = d.frame
        BY <1>1, <4>1 DEF IsDecoder, Decoder
      <4> QED BY <3>2, <4>2 DEF c
    <3> QED BY <3>1, <3>2
  <2> HIDE DEF a
  <2>3. /\ Same(e) /\ e.rate = a.rate /\ e.codebook = a.codebook
        /\ e.typeOffsetPrev = a.typeOffsetPrev /\ e.frame = [a.frame EXCEPT !.rate = data]
    BY <2>1, <2>2 DEF IsDecoder, Decoder
  <2> QED BY <1>2, <2>2, <2>3
<1>3. CASE Field(d) = "type"
  <2>1. e = [next EXCEPT !.frame.sigtype = data \div 2, !.frame.offset = data % 2,
                         !.typeOffsetPrev = data]
    BY <1>3 DEF Taken, next
  <2>2. /\ Same(e) /\ e.rate = d.rate /\ e.codebook = d.codebook
        /\ e.LastGainIndex = d.LastGainIndex
    BY <1>1, <2>1 DEF IsDecoder, Decoder
  <2>3. /\ e.typeOffsetPrev = data
        /\ e.frame = [d.frame EXCEPT !.sigtype = data \div 2, !.offset = data % 2]
    BY <1>1, <2>1 DEF IsDecoder, Decoder
  <2> QED BY <1>3, <2>2, <2>3
<1>4. CASE Field(d) = "gain"
  <2> DEFINE level == GainDequantized(d, data)
  <2>1. e = [next EXCEPT !.LastGainIndex = level, !.frame.levels = Append(@, level)]
    BY <1>4 DEF Taken, next
  <2> HIDE DEF level
  <2>2. /\ Same(e) /\ e.rate = d.rate /\ e.codebook = d.codebook
        /\ e.typeOffsetPrev = d.typeOffsetPrev /\ e.LastGainIndex = level
        /\ e.frame = [d.frame EXCEPT !.levels = Append(@, level)]
    BY <1>1, <2>1 DEF IsDecoder, Decoder
  <2> QED BY <1>4, <2>2 DEF level
<1>5. CASE Field(d) = "interp"
  <2>1. e = [next EXCEPT !.frame.interp = IF d.first_frame_after_reset THEN 4 ELSE data]
    BY <1>5 DEF Taken, next
  <2> QED BY <1>1, <1>5, <2>1 DEF IsDecoder, Decoder
<1>6. CASE Field(d) = "per"
  <2>1. e = [next EXCEPT !.frame.per = data]
    BY <1>6 DEF Taken, next
  <2> QED BY <1>1, <1>6, <2>1 DEF IsDecoder, Decoder
<1>7. CASE Field(d) \notin {"rate", "type", "gain", "interp", "per"}
  <2>1. e = next
    BY <1>7 DEF Taken, next
  <2> QED BY <1>1, <1>7, <2>1
<1> QED BY <1>2, <1>3, <1>4, <1>5, <1>6, <1>7

\* A gain the decoder computes is the one the encoder went on with.
LEMMA GainIsRight ==
  ASSUME NEW d, d.nFramesDecoded \in Nat, InStepWithPeer(d), ReadSoFar(d),
         NEW n, NEW x, NEW i, NEW j, AtPlace(d, n, x, i, j),
         NEW k \in 1 .. NB_SUBFR, j = k
  PROVE  /\ GainDequantized(d, GainIndex(d.sent, n, k)) = x.levels[k]
         /\ Sequence(d.frame.levels) /\ Len(d.frame.levels) = k - 1
<1> DEFINE N == NB_SUBFR
           levels == d.frame.levels
           data == GainIndex(d.sent, n, k)
<1>1. /\ n \in Nat /\ n > 0 /\ d.nFramesDecoded = n - 1 /\ n \in 1 .. Len(d.sent)
      /\ x = d.sent[n] /\ j = d.done - Lead(n) /\ d.nFramesDecoded + 1 = n
      /\ N \in Nat /\ N > 0 /\ k \in Nat /\ k >= 1 /\ k <= N
  BY FieldIsPlace, StreamAssumption, SMTT(30) DEF AtPlace
<1>2. /\ Sequence(levels) /\ Len(levels) = Limit(k - 1, 0, N)
  BY <1>1 DEF ReadSoFar
<1>3. Len(levels) = k - 1
  <2>1. Limit(k - 1, 0, N) = k - 1
    <3> HIDE DEF N
    <3> QED BY <1>1 DEF Limit
  <2> QED BY <1>2, <2>1
<1>4. IF k >= 2 THEN d.LastGainIndex = x.levels[Limit(k - 1, 1, N)]
      ELSE n > 1 => d.LastGainIndex = d.sent[n - 1].levels[N]
  BY <1>1 DEF InStepWithPeer
<1>5. \A m \in 1 .. Len(d.sent) : \A q \in 1 .. N : d.sent[m].levels[q] \in Int
  <2>1. \A m \in 1 .. Len(d.sent) : d.sent[m] \in SentFrames
    BY DEF InStepWithPeer, Layout
  <2> QED BY <2>1 DEF SentFrames
<1>6. x.levels[k] \in Int
  BY <1>1, <1>5
<1>7. levels = <<>> <=> k = 1
  <2>1. CASE k = 1
    <3>1. levels = [q \in 1 .. 0 |-> levels[q]]
      BY <1>2, <1>3, <2>1 DEF Sequence
    <3>2. levels \in Seq(Int)
      BY <1>2, <1>3, <2>1, InSeq
    <3> QED BY <1>3, <2>1, <3>2
  <2>2. CASE k # 1
    <3>1. Len(levels) # 0
      <4>1. k - 1 # 0
        BY <1>1, <2>2
      <4> QED BY <1>3, <4>1
    <3>2. Len(<<>>) = 0
      OBVIOUS
    <3> QED BY <2>2, <3>1, <3>2
  <2> QED BY <2>1, <2>2
<1>8. GainDequantized(d, data) =
        IF n = 1 /\ k = 1 THEN data ELSE d.LastGainIndex + data + MIN_DELTA_GAIN_QUANT
  BY <1>1, <1>7 DEF GainDequantized
<1>9. CASE n = 1 /\ k = 1
  <2>1. data = x.levels[k]
    BY <1>1, <1>9 DEF GainIndex
  <2> QED BY <1>2, <1>3, <1>8, <1>9, <2>1
<1>10. CASE ~(n = 1 /\ k = 1)
  <2>1. PICK before \in Int : /\ d.LastGainIndex = before
                              /\ data = x.levels[k] - MIN_DELTA_GAIN_QUANT - before
    <3>1. CASE k = 1
      <4>1. n - 1 \in 1 .. Len(d.sent) /\ N \in 1 .. N /\ n > 1
        <5> DEFINE l == Len(d.sent)
        <5>1. l \in Nat
          BY DEF InStepWithPeer, Layout, Sequence
        <5>2. n \in Nat /\ n > 0 /\ n # 1 /\ n \in 1 .. l /\ N \in Nat /\ N > 0
          BY <1>1, <1>10, <3>1
        <5> HIDE DEF l, N
        <5>3. n - 1 \in 1 .. l /\ N \in 1 .. N /\ n > 1
          BY <5>1, <5>2
        <5> QED BY <5>3 DEF l
      <4>2. d.LastGainIndex = d.sent[n - 1].levels[N] /\ d.sent[n - 1].levels[N] \in Int
        BY <1>4, <1>5, <3>1, <4>1
      <4>3. data = x.levels[k] - MIN_DELTA_GAIN_QUANT - d.sent[n - 1].levels[N]
        BY <1>1, <1>10, <3>1 DEF GainIndex
      <4> QED BY <4>2, <4>3
    <3>2. CASE k # 1
      <4>1. Limit(k - 1, 1, N) = k - 1 /\ k >= 2 /\ k - 1 \in 1 .. N
        <5> HIDE DEF N
        <5> QED BY <1>1, <3>2 DEF Limit
      <4>2. d.LastGainIndex = x.levels[k - 1] /\ x.levels[k - 1] \in Int
        BY <1>1, <1>4, <1>5, <4>1
      <4>3. data = x.levels[k] - MIN_DELTA_GAIN_QUANT - x.levels[k - 1]
        BY <1>1, <3>2 DEF GainIndex
      <4> QED BY <4>2, <4>3
    <3> QED BY <3>1, <3>2
  <2> DEFINE y == x.levels[k]
  <2>2. y \in Int /\ data = y - MIN_DELTA_GAIN_QUANT - before
    BY <1>6, <2>1
  <2> HIDE DEF y, data
  <2>3. before + data + MIN_DELTA_GAIN_QUANT = y
    <3>1. before \in Int /\ MIN_DELTA_GAIN_QUANT \in Int
      BY StreamAssumption
    <3> QED BY <2>2, <3>1
  <2>4. GainDequantized(d, data) = y
    BY <1>8, <1>10, <2>1, <2>3
  <2> QED BY <1>2, <1>3, <2>4 DEF y, data
<1> QED BY <1>9, <1>10

\* A symbol that is read in step leaves the decoder in step.
LEMMA StepKept ==
  ASSUME NEW d, IsDecoder(d), d.nFramesDecoded \in Nat, InStepWithPeer(d), ReadSoFar(d),
         Field(d) # "termination",
         NEW e, e = Taken([d EXCEPT !.stream = Tail(@)], Head(d.stream).data)
  PROVE  InStepWithPeer(e) /\ ReadSoFar(e)
<1> DEFINE t == [d EXCEPT !.stream = Tail(@)]
           data == Head(d.stream).data
           n == d.nFramesDecoded + 1
           x == d.sent[n]
           i == d.done + 1
           j == d.done - Lead(n)
           N == NB_SUBFR
           l == BlockLength(n, x.sigtype)
           place == Place(n, x.sigtype, i)
           p == i - Lead(n)
<1>1. AtPlace(d, n, x, i, j)
  BY DEF AtPlace
<1>2. /\ Field(d) = place /\ i \in 1 .. l
      /\ n \in Nat /\ n > 0 /\ d.nFramesDecoded = n - 1 /\ n \in 1 .. Len(d.sent)
      /\ d.done \in Nat /\ Lead(n) \in {0, 1} /\ (Lead(n) = 1 <=> n = 1)
      /\ j \in Int /\ j >= 0 - Lead(n) /\ p = j + 1
  <2> HIDE DEF n, x, i, j
  <2> QED BY <1>1, FieldIsPlace DEF p
<1>3. PICK cut : Layout(d.stream, cut[n - 1] + d.done, d.sent, cut)
  BY DEF InStepWithPeer
<1>4. /\ d.done \in 0 .. l - 1 /\ d.error = FALSE
      /\ d.codebook = Codebook(SamplingRates[d.rate + 1])
      /\ j >= 0 => d.rate = x.rate
      /\ IF j >= 1 THEN d.typeOffsetPrev = TypeOf(x)
         ELSE n > 1 => d.typeOffsetPrev = TypeOf(d.sent[n - 1])
      /\ IF j >= 2 THEN d.LastGainIndex = x.levels[Limit(j - 1, 1, N)]
         ELSE n > 1 => d.LastGainIndex = d.sent[n - 1].levels[N]
  BY DEF InStepWithPeer
<1>5. /\ IsFrame(d.frame)
      /\ j >= 0 => d.frame.rate = x.rate
      /\ j >= 1 => d.frame.sigtype = x.sigtype /\ d.frame.offset = x.offset
      /\ Sequence(d.frame.levels) /\ Len(d.frame.levels) = Limit(j - 1, 0, N)
      /\ \A k \in 1 .. Len(d.frame.levels) : d.frame.levels[k] = x.levels[k]
      /\ d.frame.interp \in {x.interp, 4}
      /\ d.frame.per = IF x.sigtype = VOICED /\ j >= N + 6 THEN x.per ELSE 0
  BY DEF ReadSoFar
<1>6. /\ IsSymbolAt(Head(d.stream), d.sent, n, i)
      /\ Layout(Tail(d.stream), cut[n - 1] + (d.done + 1), d.sent, cut)
  <2> HIDE DEF n
  <2> QED BY <1>2, <1>3, <1>4, NextSymbol DEF x, l, i
<1>7. IsDataAt(data, d.sent, n, i)
  BY <1>6 DEF IsSymbolAt
<1>8. /\ IsDecoder(t) /\ t.stream = Tail(d.stream) /\ t.done = d.done /\ t.error = d.error
      /\ t.nFramesDecoded = d.nFramesDecoded /\ t.sent = d.sent /\ t.rate = d.rate
      /\ t.codebook = d.codebook /\ t.typeOffsetPrev = d.typeOffsetPrev
      /\ t.LastGainIndex = d.LastGainIndex /\ t.frame = d.frame
  BY DEF IsDecoder, Decoder
<1>9. Field(t) = place /\ GainDequantized(t, data) = GainDequantized(d, data)
  <2> HIDE DEF t, place
  <2>1. Fields(t) = Fields(d)
    BY <1>8 DEF Fields
  <2>2. Field(t) = Field(d)
    BY <1>8, <2>1 DEF Field
  <2> QED BY <1>2, <1>8, <2>2 DEF GainDequantized
<1> DEFINE gain == GainDequantized(d, data)
           interp == IF t.first_frame_after_reset THEN 4 ELSE data
<1>10. /\ e.done = d.done + 1 /\ e.stream = Tail(d.stream) /\ e.error = FALSE
       /\ e.nFramesDecoded = d.nFramesDecoded /\ e.sent = d.sent
       /\ place = "rate" => /\ e.rate = data
                            /\ e.codebook = IF d.rate = data THEN d.codebook
                                            ELSE Codebook(SamplingRates[data + 1])
       /\ place # "rate" => e.rate = d.rate /\ e.codebook = d.codebook
       /\ e.typeOffsetPrev = IF place = "type" THEN data ELSE d.typeOffsetPrev
       /\ place = "gain" => e.LastGainIndex = gain
       /\ place \notin {"rate", "gain"} => e.LastGainIndex = d.LastGainIndex
       /\ e.frame = CASE place = "rate" -> [d.frame EXCEPT !.rate = data]
                      [] place = "type" -> [d.frame EXCEPT !.sigtype = data \div 2,
                                                           !.offset = data % 2]
                      [] place = "gain" -> [d.frame EXCEPT !.levels = Append(@, gain)]
                      [] place = "interp" -> [d.frame EXCEPT !.interp = interp]
                      [] place = "per" -> [d.frame EXCEPT !.per = data]
                      [] OTHER -> d.frame
  <2> DEFINE datum == data
             s == t
  <2>1. IsDecoder(s) /\ e = Taken(s, datum)
    BY <1>8
  <2>2. Field(s) = place /\ GainDequantized(s, datum) = gain
    BY <1>9
  <2>3. /\ s.stream = Tail(d.stream) /\ s.done = d.done /\ s.error = FALSE
        /\ s.nFramesDecoded = d.nFramesDecoded /\ s.sent = d.sent /\ s.rate = d.rate
        /\ s.codebook = d.codebook /\ s.typeOffsetPrev = d.typeOffsetPrev
        /\ s.LastGainIndex = d.LastGainIndex /\ s.frame = d.frame
    BY <1>4, <1>8
  <2>4. datum = data /\ interp = IF s.first_frame_after_reset THEN 4 ELSE datum
    OBVIOUS
  <2> HIDE DEF datum, s, t, data, place, gain, interp
  <2>5. /\ e.done = s.done + 1 /\ e.stream = s.stream /\ e.error = s.error
        /\ e.nFramesDecoded = s.nFramesDecoded /\ e.sent = s.sent
        /\ Field(s) = "rate" => /\ e.rate = datum
                                /\ e.codebook = IF s.rate = datum THEN s.codebook
                                                ELSE Codebook(SamplingRates[datum + 1])
        /\ Field(s) # "rate" => e.rate = s.rate /\ e.codebook = s.codebook
        /\ e.typeOffsetPrev = IF Field(s) = "type" THEN datum ELSE s.typeOffsetPrev
        /\ Field(s) = "gain" => e.LastGainIndex = GainDequantized(s, datum)
        /\ Field(s) \notin {"rate", "gain"} => e.LastGainIndex = s.LastGainIndex
        /\ e.frame = CASE Field(s) = "rate" -> [s.frame EXCEPT !.rate = datum]
                       [] Field(s) = "type" -> [s.frame EXCEPT !.sigtype = datum \div 2,
                                                               !.offset = datum % 2]
                       [] Field(s) = "gain" -> [s.frame EXCEPT
                                                  !.levels = Append(@, GainDequantized(s, datum))]
                       [] Field(s) = "interp" ->
                            [s.frame EXCEPT !.interp = IF s.first_frame_after_reset THEN 4
                                                       ELSE datum]
                       [] Field(s) = "per" -> [s.frame EXCEPT !.per = datum]
                       [] OTHER -> s.frame
    <3>1. IsTaken(s, datum, e)
      BY <2>1, TakenEffects
    <3> QED BY <3>1 DEF IsTaken
  <2> QED BY <2>2, <2>3, <2>4, <2>5
<1>11. /\ place \in {"rate", "type", "gain", "NLSF", "interp", "lag", "contour", "per", "LTP",
                     "scale", "seed", "pulses", "VAD"}
       /\ (place = "rate") <=> (j < 0)
       /\ (place = "type") <=> (j = 0)
       /\ (place = "gain") <=> (j >= 1 /\ j <= N)
       /\ (place = "per") <=> (x.sigtype = VOICED /\ j = N + 5)
  <2> HIDE DEF place, p, j, x, n
  <2>1. /\ place \in {"rate", "type", "gain", "NLSF", "interp", "lag", "contour", "per", "LTP",
                      "scale", "seed", "pulses", "VAD", "termination"}
        /\ (place = "rate") <=> (p < 1)
        /\ (place = "type") <=> (p = 1)
        /\ (place = "gain") <=> (p >= 2 /\ p <= N + 1)
        /\ (place = "per") <=> (x.sigtype = VOICED /\ p = N + 6)
    BY <1>2, PlaceCases DEF place, p
  <2>2. N \in Nat
    BY StreamAssumption
  <2> HIDE DEF N
  <2>3. (p < 1 <=> j < 0) /\ (p = 1 <=> j = 0) /\ (p >= 2 /\ p <= N + 1 <=> j >= 1 /\ j <= N)
        /\ (p = N + 6 <=> j = N + 5)
    BY <1>2, <2>2, SMTT(30)
  <2> QED BY <1>2, <2>1, <2>3
<1>12. x \in SentFrames /\ (n > 1 => d.sent[n - 1] \in SentFrames)
  <2>1. \A m \in 1 .. Len(d.sent) : d.sent[m] \in SentFrames
    BY <1>3 DEF Layout
  <2>2. Len(d.sent) \in Nat
    BY <1>3 DEF Layout, Sequence
  <2> DEFINE m == Len(d.sent)
  <2> HIDE DEF x, n, m
  <2>3. n \in 1 .. m /\ m \in Nat
    BY <1>2, <2>2 DEF m
  <2>4. n > 1 => n - 1 \in 1 .. m
    BY <1>2, <2>3
  <2> QED BY <2>1, <2>3, <2>4 DEF x, m
<1>13. /\ place = "rate" => data = x.rate
       /\ place = "type" => data = TypeOf(x)
       /\ place = "gain" => data = GainIndex(d.sent, n, j)
       /\ place = "interp" => data = x.interp
       /\ place = "per" => data = x.per
  <2>1. i - Lead(n) - 1 = j
    BY <1>2
  <2> HIDE DEF data, place, j
  <2> QED BY <1>7, <2>1 DEF IsDataAt, place
<1>14. place = "gain" => gain = x.levels[j] /\ Len(d.frame.levels) = j - 1
  <2> HIDE DEF x, n, i, data
  <2>1. ASSUME place = "gain" PROVE j \in 1 .. NB_SUBFR
    BY <1>2, <1>11, <2>1
  <2>2. ASSUME place = "gain"
        PROVE  GainDequantized(d, GainIndex(d.sent, n, j)) = x.levels[j]
               /\ Len(d.frame.levels) = j - 1
    <3>1. j \in 1 .. NB_SUBFR
      BY <2>1, <2>2
    <3> HIDE DEF j
    <3> QED BY <1>1, <3>1, GainIsRight
  <2> QED BY <1>13, <2>2
<1>15. e.nFramesDecoded + 1 = n /\ e.sent[n] = x /\ e.done - Lead(n) = j + 1
  BY <1>2, <1>10
<1>16. /\ e.done \in 0 .. l - 1
       /\ e.codebook = Codebook(SamplingRates[e.rate + 1])
       /\ j + 1 >= 0 => e.rate = x.rate
       /\ IF j + 1 >= 1 THEN e.typeOffsetPrev = TypeOf(x)
          ELSE n > 1 => e.typeOffsetPrev = TypeOf(e.sent[n - 1])
       /\ IF j + 1 >= 2 THEN e.LastGainIndex = x.levels[Limit(j, 1, N)]
          ELSE n > 1 => e.LastGainIndex = e.sent[n - 1].levels[N]
  <2>1. e.done \in 0 .. l - 1
    <3>1. i = l => place = "termination"
      <4> HIDE DEF x, n, i
      <4> QED BY <1>2, LastPlace DEF l, place
    <3>2. i # l
      BY <1>2, <3>1
    <3>3. l \in Nat
      BY BlockIsLong
    <3>4. e.done = i /\ d.done \in Nat /\ i = d.done + 1
      BY <1>2, <1>10
    <3> HIDE DEF l, i
    <3> QED BY <1>2, <3>2, <3>3, <3>4
  <2> HIDE DEF n, x, i, l, place, data, t, p, gain, interp, j
  <2>2. j < 0 => n = 1
    BY <1>2
  <2>3. e.codebook = Codebook(SamplingRates[e.rate + 1]) /\ (j + 1 >= 0 => e.rate = x.rate)
    <3>1. CASE place = "rate"
      BY <1>4, <1>10, <1>13, <3>1
    <3>2. CASE place # "rate"
      BY <1>2, <1>4, <1>10, <1>11, <3>2
    <3> QED BY <3>1, <3>2
  <2>4. IF j + 1 >= 1 THEN e.typeOffsetPrev = TypeOf(x)
        ELSE n > 1 => e.typeOffsetPrev = TypeOf(e.sent[n - 1])
    <3>1. CASE place = "type"
      BY <1>2, <1>10, <1>11, <1>13, <3>1
    <3>2. CASE place # "type"
      BY <1>2, <1>4, <1>10, <1>11, <2>2, <3>2
    <3> QED BY <3>1, <3>2
  <2>5. IF j + 1 >= 2 THEN e.LastGainIndex = x.levels[Limit(j, 1, N)]
        ELSE n > 1 => e.LastGainIndex = e.sent[n - 1].levels[N]
    <3>1. N \in Nat /\ N > 0
      BY StreamAssumption
    <3> HIDE DEF N
    <3>2. CASE place = "gain"
      <4>1. j >= 1 /\ j <= N /\ e.LastGainIndex = x.levels[j]
        BY <1>10, <1>11, <1>14, <3>2
      <4>2. Limit(j, 1, N) = j
        BY <1>2, <3>1, <4>1 DEF Limit
      <4> QED BY <1>2, <4>1, <4>2
    <3>3. CASE place # "gain" /\ j >= 1
      <4>1. j > N /\ place # "rate"
        BY <1>2, <1>11, <3>1, <3>3
      <4>2. e.LastGainIndex = d.LastGainIndex
        BY <1>10, <3>3, <4>1
      <4>3. Limit(j - 1, 1, N) = N /\ Limit(j, 1, N) = N /\ j >= 2
        <5>1. j >= 2 /\ j \in Int /\ j > N
          BY <1>2, <3>1, <4>1
        <5>2. Limit(j - 1, 1, N) = N
          BY <3>1, <5>1 DEF Limit
        <5>3. Limit(j, 1, N) = N
          BY <3>1, <5>1 DEF Limit
        <5> QED BY <5>1, <5>2, <5>3
      <4> QED BY <1>2, <1>4, <4>2, <4>3
    <3>4. CASE j < 1
      <4>1. n > 1 => e.LastGainIndex = d.LastGainIndex
        BY <1>2, <1>10, <1>11, <2>2, <3>4
      <4> QED BY <1>2, <1>4, <1>10, <3>4, <4>1
    <3> QED BY <1>2, <3>2, <3>3, <3>4
  <2> QED BY <2>1, <2>3, <2>4, <2>5
<1>17. InStepWithPeer(e)
  <2>1. /\ e.nFramesDecoded + 1 = n /\ e.sent = d.sent /\ e.done = d.done + 1
        /\ e.stream = Tail(d.stream) /\ e.error = FALSE
    BY <1>10, <1>15
  <2>2. \E c : Layout(e.stream, c[n - 1] + e.done, e.sent, c)
    BY <1>6, <2>1
  <2>3. /\ x = e.sent[n] /\ n \in 1 .. Len(e.sent) /\ l = BlockLength(n, x.sigtype)
        /\ e.done - Lead(n) = j + 1 /\ (j + 1) - 1 = j
    BY <1>2, <1>15, <2>1
  <2> HIDE DEF n, x, i, l, place, data, t, p, gain, interp, j
  <2> QED BY <1>16, <2>1, <2>2, <2>3 DEF InStepWithPeer
<1>18. /\ IsFrame(e.frame)
       /\ j + 1 >= 0 => e.frame.rate = x.rate
       /\ j + 1 >= 1 => e.frame.sigtype = x.sigtype /\ e.frame.offset = x.offset
       /\ Sequence(e.frame.levels) /\ Len(e.frame.levels) = Limit(j, 0, N)
       /\ \A k \in 1 .. Len(e.frame.levels) : e.frame.levels[k] = x.levels[k]
       /\ e.frame.interp \in {x.interp, 4}
       /\ e.frame.per = IF x.sigtype = VOICED /\ j + 1 >= N + 6 THEN x.per ELSE 0
  <2>1. N \in Nat /\ N > 0
    BY StreamAssumption
  <2> DEFINE f == d.frame
             g == e.frame
             levels == d.frame.levels
  <2>2. /\ IsFrame(f) /\ levels = f.levels
        /\ j >= 0 => f.rate = x.rate
        /\ j >= 1 => f.sigtype = x.sigtype /\ f.offset = x.offset
        /\ f.interp \in {x.interp, 4}
        /\ f.per = IF x.sigtype = VOICED /\ j >= N + 6 THEN x.per ELSE 0
    BY <1>5
  <2>3. Sequence(levels) /\ Len(levels) = Limit(j - 1, 0, N)
        /\ \A k \in 1 .. Len(levels) : levels[k] = x.levels[k]
    BY <1>5
  <2>4. g = CASE place = "rate" -> [f EXCEPT !.rate = data]
              [] place = "type" -> [f EXCEPT !.sigtype = data \div 2, !.offset = data % 2]
              [] place = "gain" -> [f EXCEPT !.levels = Append(@, gain)]
              [] place = "interp" -> [f EXCEPT !.interp = interp]
              [] place = "per" -> [f EXCEPT !.per = data]
              [] OTHER -> f
    BY <1>10
  <2>5. interp \in {data, 4}
    OBVIOUS
  <2>6. place = "gain" => gain = x.levels[j] /\ Len(levels) = j - 1
    BY <1>14
  <2> HIDE DEF n, x, i, l, place, data, t, p, gain, interp, j, f, g, levels
  <2>7. CASE place = "gain"
    <3>1. g = [f EXCEPT !.levels = Append(@, gain)]
      BY <2>4, <2>7
    <3>2. /\ IsFrame(g) /\ g.rate = f.rate /\ g.sigtype = f.sigtype /\ g.offset = f.offset
          /\ g.interp = f.interp /\ g.per = f.per /\ g.levels = Append(levels, gain)
      BY <2>2, <3>1 DEF IsFrame, FrameFields
    <3>3. j >= 1 /\ j <= N /\ j \in Nat /\ Len(levels) = j - 1 /\ gain = x.levels[j]
      BY <1>2, <1>11, <2>6, <2>7
    <3>4. /\ Sequence(g.levels) /\ Len(g.levels) = j
          /\ \A k \in 1 .. j - 1 : g.levels[k] = levels[k]
          /\ g.levels[j] = x.levels[j]
      <4>1. /\ Sequence(Append(levels, gain)) /\ Len(Append(levels, gain)) = Len(levels) + 1
            /\ \A k \in 1 .. Len(levels) : Append(levels, gain)[k] = levels[k]
            /\ Append(levels, gain)[Len(levels) + 1] = gain
        BY <2>3, Appended
      <4>2. Len(levels) + 1 = j
        BY <3>3
      <4> QED BY <3>2, <3>3, <4>1, <4>2
    <3>5. Limit(j, 0, N) = j
      <4> HIDE DEF N
      <4> QED BY <2>1, <3>3 DEF Limit
    <3>6. ASSUME NEW k \in 1 .. Len(g.levels)
          PROVE  g.levels[k] = x.levels[k]
      <4>1. k \in Nat /\ k >= 1 /\ k <= j
        BY <3>3, <3>4
      <4>2. CASE k = j
        BY <3>4, <4>2
      <4>3. CASE k # j
        <5>1. k \in 1 .. j - 1
          BY <3>3, <4>1, <4>3
        <5> QED BY <2>3, <3>3, <3>4, <5>1
      <4> QED BY <4>2, <4>3
    <3>7. j >= 0 /\ j + 1 >= 1 /\ j + 1 >= 0 /\ ~(j >= N + 6) /\ ~(j + 1 >= N + 6)
      <4> HIDE DEF N
      <4> QED BY <2>1, <3>3
    <3> QED BY <2>2, <3>2, <3>3, <3>4, <3>5, <3>6, <3>7 DEF g
  <2>8. ASSUME place # "gain"
        PROVE  Limit(j, 0, N) = Limit(j - 1, 0, N)
    <3>1. j < 1 \/ j > N
      BY <1>2, <1>11, <2>1, <2>8
    <3> HIDE DEF N
    <3> QED BY <1>2, <2>1, <3>1 DEF Limit
  <2>9. CASE place # "gain"
    <3>1. /\ IsFrame(g) /\ g.levels = levels
          /\ g.rate = IF place = "rate" THEN data ELSE f.rate
          /\ g.sigtype = IF place = "type" THEN data \div 2 ELSE f.sigtype
          /\ g.offset = IF place = "type" THEN data % 2 ELSE f.offset
          /\ g.interp = IF place = "interp" THEN interp ELSE f.interp
          /\ g.per = IF place = "per" THEN data ELSE f.per
      BY <2>2, <2>4, <2>9 DEF IsFrame, FrameFields
    <3>2. place = "type" => data \div 2 = x.sigtype /\ data % 2 = x.offset
      <4>1. x.sigtype \in {0, 1} /\ x.offset \in {0, 1}
        BY <1>12 DEF SentFrames
      <4>2. (2 * x.sigtype + x.offset) \div 2 = x.sigtype
            /\ (2 * x.sigtype + x.offset) % 2 = x.offset
        BY <4>1
      <4> QED BY <1>13, <4>2 DEF TypeOf
    <3>3. j + 1 >= 0 => g.rate = x.rate
      BY <1>2, <1>11, <1>13, <2>2, <3>1
    <3>4. j + 1 >= 1 => g.sigtype = x.sigtype /\ g.offset = x.offset
      BY <1>2, <1>11, <2>2, <3>1, <3>2
    <3>5. g.interp \in {x.interp, 4}
      BY <1>13, <2>2, <2>5, <3>1
    <3>6. g.per = IF x.sigtype = VOICED /\ j + 1 >= N + 6 THEN x.per ELSE 0
      <4>1. CASE place = "per"
        <5>1. x.sigtype = VOICED /\ j + 1 >= N + 6
          BY <1>2, <1>11, <2>1, <4>1
        <5> QED BY <1>13, <3>1, <4>1, <5>1
      <4>2. CASE place # "per"
        <5>1. x.sigtype = VOICED => (j + 1 >= N + 6 <=> j >= N + 6)
          BY <1>2, <1>11, <2>1, <4>2
        <5> QED BY <2>2, <3>1, <4>2, <5>1
      <4> QED BY <4>1, <4>2
    <3>7. Sequence(g.levels) /\ Len(g.levels) = Limit(j, 0, N)
          /\ \A k \in 1 .. Len(g.levels) : g.levels[k] = x.levels[k]
      BY <2>3, <2>8, <2>9, <3>1
    <3> QED BY <3>1, <3>3, <3>4, <3>5, <3>6, <3>7 DEF g
  <2> QED BY <2>7, <2>9
<1>19. ReadSoFar(e)
  <2>1. /\ e.nFramesDecoded + 1 = n /\ x = e.sent[n]
        /\ e.done - Lead(n) = j + 1 /\ (j + 1) - 1 = j
    BY <1>2, <1>15
  <2> HIDE DEF n, x, i, l, place, data, t, p, gain, interp, j
  <2> QED BY <1>18, <2>1 DEF ReadSoFar
<1> QED BY <1>17, <1>19

-----------------------------------------------------------------------------
(* The calls, and what they decode.                                        *)

\* A packet that is handed over.
LEMMA ReceiveContent ==
  ASSUME ContentInv, NEW symbols, NEW frames, Receive(symbols, frames),
         frames # <<>> => symbols = wire.symbols /\ frames = wire.frames,
         Sequence(frames)
  PROVE  /\ Sequence(dec'.sent)
         /\ dec'.sent # <<>> => dec'.call = "decoding" /\ InStepWithPeer(dec') /\ ReadSoFar(dec')
<1> DEFINE N == NB_SUBFR
<1>1. IsDecoder(dec) /\ dec.call # "decoding" /\ N \in Nat /\ N > 0 /\ Sequence(dec.sent)
      /\ dec.nFramesDecoded \in Nat
  BY StreamAssumption DEF ContentInv, DecoderInv, Receive
<1>2. Sequence(<<>>) /\ Len(<<>>) = 0
  BY DEF Sequence
<1>3. CASE dec.moreInternalDecoderFrames
  <2>1. dec' = [dec EXCEPT !.call = "decoding", !.done = 0, !.behind = @ + 1,
                           !.frame = [NoFrame EXCEPT !.rate = dec.rate],
                           !.oldRate = dec.rate]
    BY <1>3 DEF Receive
  <2>2. /\ dec'.call = "decoding" /\ dec'.done = 0 /\ dec'.rate = dec.rate
        /\ dec'.frame = [NoFrame EXCEPT !.rate = dec.rate] /\ dec'.sent = dec.sent
        /\ dec'.codebook = dec.codebook /\ dec'.error = dec.error
        /\ dec'.stream = dec.stream /\ dec'.nFramesDecoded = dec.nFramesDecoded
        /\ dec'.typeOffsetPrev = dec.typeOffsetPrev /\ dec'.LastGainIndex = dec.LastGainIndex
    BY <1>1, <2>1 DEF IsDecoder, Decoder
  <2>3. ASSUME dec.sent # <<>>
        PROVE  InStepWithPeer(dec') /\ ReadSoFar(dec')
    <3> DEFINE d == dec
               e == dec'
               n == dec.nFramesDecoded + 1
    <3>1. d.done = 0 /\ InStepWithPeer(d) /\ d.nFramesDecoded \in 1 .. Len(d.sent)
      BY <1>1, <1>3, <2>3 DEF ContentInv, DecoderInv, FrameDecoded
    <3>2. /\ e.done = d.done /\ e.rate = d.rate /\ e.sent = d.sent
          /\ e.codebook = d.codebook /\ e.error = d.error
          /\ e.stream = d.stream /\ e.nFramesDecoded = d.nFramesDecoded
          /\ e.typeOffsetPrev = d.typeOffsetPrev /\ e.LastGainIndex = d.LastGainIndex
          /\ e.frame = [NoFrame EXCEPT !.rate = d.rate]
      BY <2>2, <3>1
    <3>3. n > 1 /\ Lead(n) = 0 /\ n = d.nFramesDecoded + 1 /\ d.done - Lead(n) = 0
      <4>1. Len(d.sent) \in Nat /\ d.nFramesDecoded \in Nat
        BY <1>1 DEF Sequence
      <4> DEFINE c == d.nFramesDecoded
                 k == Len(d.sent)
      <4>2. c \in 1 .. k /\ c \in Nat /\ k \in Nat /\ n = c + 1 /\ d.done = 0
        BY <3>1, <4>1
      <4> HIDE DEF c, k, n, d
      <4>3. n > 1 /\ n # 1
        BY <4>2
      <4>4. Lead(n) = 0
        BY <4>3 DEF Lead
      <4> QED BY <4>2, <4>3, <4>4 DEF c
    <3> HIDE DEF d, e, n
    <3>4. InStepWithPeer(e)
      BY <3>1, <3>2 DEF InStepWithPeer
    <3>5. d.rate = d.sent[n].rate
      BY <3>1, <3>3 DEF InStepWithPeer
    <3>6. /\ IsFrame(e.frame) /\ e.frame.rate = d.rate /\ e.frame.levels = <<>>
          /\ e.frame.interp = 4 /\ e.frame.per = 0
      BY <3>2 DEF IsFrame, FrameFields, NoFrame
    <3>7. Limit(0 - 1, 0, N) = 0 /\ ~(0 >= N + 6)
      <4> HIDE DEF N
      <4> QED BY <1>1 DEF Limit
    <3>8. ReadSoFar(e)
      BY <1>2, <3>2, <3>3, <3>5, <3>6, <3>7 DEF ReadSoFar
    <3> QED BY <3>4, <3>8 DEF e
  <2> QED BY <1>1, <2>2, <2>3
<1>4. CASE ~dec.moreInternalDecoderFrames
  <2> DEFINE sent == IF dec.codebook = Codebook(SamplingRates[dec.rate + 1]) THEN frames
                     ELSE <<>>
  <2>1. dec' = [dec EXCEPT !.call = "decoding", !.done = 0, !.behind = 0,
                           !.frame = NoFrame, !.oldRate = dec.rate,
                           !.nFramesDecoded = 0, !.error = FALSE, !.stream = symbols,
                           !.sent = sent]
    BY <1>4, Zenon DEF Receive
  <2> HIDE DEF sent
  <2>2. /\ dec'.call = "decoding" /\ dec'.done = 0 /\ dec'.rate = dec.rate
        /\ dec'.frame = NoFrame /\ dec'.sent = sent
        /\ dec'.codebook = dec.codebook /\ dec'.error = FALSE
        /\ dec'.stream = symbols /\ dec'.nFramesDecoded = 0
    BY <1>1, <2>1 DEF IsDecoder, Decoder
  <2>3. Sequence(sent)
    BY <1>2 DEF sent
  <2>4. ASSUME sent # <<>>
        PROVE  InStepWithPeer(dec') /\ ReadSoFar(dec')
    <3> DEFINE e == dec'
               w == wire
    <3>1. /\ e.done = 0 /\ e.frame = NoFrame /\ e.sent = w.frames /\ e.error = FALSE
          /\ e.stream = w.symbols /\ e.nFramesDecoded = 0 /\ w.frames # <<>>
          /\ e.codebook = Codebook(SamplingRates[e.rate + 1])
      BY <2>2, <2>4 DEF sent
    <3>2. PICK cut : Layout(w.symbols, 0, w.frames, cut)
      BY DEF ContentInv, WireInv
    <3> HIDE DEF e, w
    <3>3. cut[0] = 0 /\ Len(w.frames) \in Nat
      BY <3>2 DEF Layout, Sequence
    <3>4. 1 \in 1 .. Len(e.sent)
      <4>1. Len(w.frames) # 0
        <5>1. SUFFICES ASSUME Len(w.frames) = 0 PROVE w.frames = <<>>
          BY <3>1
        <5>2. w.frames \in Seq({})
          BY <3>2, <5>1, InSeq DEF Layout
        <5> QED BY <5>1, <5>2
      <4> QED BY <3>1, <3>3, <4>1
    <3>5. Layout(e.stream, cut[1 - 1] + e.done, e.sent, cut)
      BY <3>1, <3>2, <3>3
    <3>6. 0 \in 0 .. BlockLength(1, e.sent[1].sigtype) - 1
      <4>1. BlockLength(1, e.sent[1].sigtype) \in Nat /\ BlockLength(1, e.sent[1].sigtype) > N + 6
        BY BlockIsLong
      <4> HIDE DEF N
      <4> QED BY <1>1, <4>1
    <3>7. Lead(1) = 1
      BY DEF Lead
    <3>8. InStepWithPeer(e)
      BY <3>1, <3>4, <3>5, <3>6, <3>7 DEF InStepWithPeer
    <3>9. /\ IsFrame(e.frame) /\ e.frame.levels = <<>>
          /\ e.frame.interp = 4 /\ e.frame.per = 0
      BY <3>1 DEF IsFrame, FrameFields, NoFrame
    <3>10. Limit((0 - 1) - 1, 0, N) = 0 /\ ~(0 - 1 >= N + 6)
      <4> HIDE DEF N
      <4> QED BY <1>1 DEF Limit
    <3>11. ReadSoFar(e)
      BY <1>2, <3>1, <3>7, <3>9, <3>10 DEF ReadSoFar
    <3> QED BY <3>8, <3>11 DEF e
  <2> QED BY <2>2, <2>3, <2>4
<1> QED BY <1>3, <1>4

\* The symbol the decoder reads next is the one of its place, and it is read in step.
LEMMA IsInStep ==
  ASSUME NEW d, d.nFramesDecoded \in Nat, InStepWithPeer(d), ReadSoFar(d)
  PROVE  InStep(d) /\ ~d.error
<1> DEFINE n == d.nFramesDecoded + 1
           x == d.sent[n]
           i == d.done + 1
           j == d.done - Lead(n)
<1>1. AtPlace(d, n, x, i, j)
  BY DEF AtPlace
<1>2. PICK cut : Layout(d.stream, cut[n - 1] + d.done, d.sent, cut)
  BY DEF InStepWithPeer
<1>3. d.done \in 0 .. BlockLength(n, x.sigtype) - 1 /\ n \in 1 .. Len(d.sent) /\ d.error = FALSE
  BY DEF InStepWithPeer
<1>4. d.stream # <<>> /\ IsSymbolAt(Head(d.stream), d.sent, n, i)
  <2> HIDE DEF n
  <2> QED BY <1>2, <1>3, NextSymbol
<1>5. TableOf(d) = TableAt(d.sent, n, i)
  <2> HIDE DEF n, x, i, j
  <2> QED BY <1>1, TableIsRight
<1> QED BY <1>3, <1>4, <1>5 DEF IsSymbolAt, InStep

\* A symbol that is read.
LEMMA ReadSymbolContent ==
  ASSUME ContentInv, ReadSymbol
  PROVE  /\ Sequence(dec'.sent)
         /\ dec'.sent # <<>> => dec'.call = "decoding" /\ InStepWithPeer(dec') /\ ReadSoFar(dec')
<1>1. /\ IsDecoder(dec) /\ dec.nFramesDecoded \in Nat /\ Sequence(dec.sent)
      /\ dec.sent # <<>> => InStepWithPeer(dec) /\ ReadSoFar(dec)
      /\ dec.call = "decoding" /\ Field(dec) # "termination"
      /\ dec' \in Readings(dec)
  BY DEF ContentInv, DecoderInv, ReadSymbol
<1>2. dec'.call = "decoding" /\ dec'.sent = dec.sent
  BY <1>1, ReadingIsSameCall DEF SameCall
<1>3. ASSUME dec.sent # <<>>
      PROVE  InStepWithPeer(dec') /\ ReadSoFar(dec')
  <2>1. InStep(dec) /\ ~dec.error
    BY <1>1, <1>3, IsInStep
  <2>2. dec' = Taken([dec EXCEPT !.stream = Tail(@)], Head(dec.stream).data)
    BY <1>1, <2>1 DEF Readings
  <2> QED BY <1>1, <1>3, <2>2, StepKept
<1> QED BY <1>1, <1>2, <1>3

\* The end of a frame that was read in step.
LEMMA FrameEnds ==
  ASSUME NEW d, IsDecoder(d), d.nFramesDecoded \in Nat, InStepWithPeer(d), ReadSoFar(d),
         d.sent # <<>>, Field(d) = "termination", NEW e,
         e = Decoded([d EXCEPT !.stream = Tail(@)], Head(d.stream).data, Len(d.stream) > 1)
  PROVE  FrameDecoded(e)
<1> DEFINE n == d.nFramesDecoded + 1
           x == d.sent[n]
           i == d.done + 1
           j == d.done - Lead(n)
           N == NB_SUBFR
           l == BlockLength(n, x.sigtype)
           v == VoicedLength(x.sigtype)
           data == Head(d.stream).data
           m == Len(d.sent)
<1>1. AtPlace(d, n, x, i, j)
  BY DEF AtPlace
<1>2. /\ Field(d) = Place(n, x.sigtype, i) /\ i \in 1 .. l
      /\ n \in Nat /\ n > 0 /\ d.nFramesDecoded = n - 1 /\ n \in 1 .. m
      /\ d.done \in Nat /\ Lead(n) \in {0, 1} /\ i - Lead(n) = j + 1 /\ j \in Int
  <2> HIDE DEF n, x, i, j
  <2> QED BY <1>1, FieldIsPlace
<1>3. PICK cut : Layout(d.stream, cut[n - 1] + d.done, d.sent, cut)
  BY DEF InStepWithPeer
<1>4. /\ d.done \in 0 .. l - 1 /\ d.error = FALSE
      /\ d.codebook = Codebook(SamplingRates[d.rate + 1])
      /\ j >= 0 => d.rate = x.rate
      /\ j >= 1 => d.typeOffsetPrev = TypeOf(x)
      /\ j >= 2 => d.LastGainIndex = x.levels[Limit(j - 1, 1, N)]
  BY DEF InStepWithPeer
<1>5. /\ IsFrame(d.frame)
      /\ j >= 0 => d.frame.rate = x.rate
      /\ j >= 1 => d.frame.sigtype = x.sigtype /\ d.frame.offset = x.offset
      /\ Sequence(d.frame.levels) /\ Len(d.frame.levels) = Limit(j - 1, 0, N)
      /\ \A k \in 1 .. Len(d.frame.levels) : d.frame.levels[k] = x.levels[k]
      /\ d.frame.interp \in {x.interp, 4}
      /\ d.frame.per = IF x.sigtype = VOICED /\ j >= N + 6 THEN x.per ELSE 0
  BY DEF ReadSoFar
<1>6. i = l /\ j = N + 6 + v /\ N \in Nat /\ N > 0 /\ v \in Nat
  <2>1. i = l
    <3> HIDE DEF x, n, i
    <3> QED BY <1>2, LastPlace DEF l
  <2>2. l = Lead(n) + N + 7 + v
    BY DEF BlockLength
  <2>3. N \in Nat /\ N > 0 /\ v \in Nat
    BY StreamAssumption, SMTT(30) DEF VoicedLength
  <2>4. Lead(n) \in Int /\ i - Lead(n) = j + 1 /\ j \in Int
    BY <1>2
  <2> HIDE DEF n, x, i, j, N, l, v
  <2> DEFINE lead == Lead(n)
  <2>5. j = N + 6 + v
    <3>1. /\ lead \in Int /\ i - lead = j + 1 /\ j \in Int /\ i = lead + N + 7 + v
          /\ N \in Nat /\ v \in Nat
      BY <2>1, <2>2, <2>3, <2>4
    <3> HIDE DEF lead
    <3> QED BY <3>1, SMTT(30)
  <2> QED BY <2>1, <2>3, <2>5
<1>7. /\ IsSymbolAt(Head(d.stream), d.sent, n, i)
      /\ Layout(Tail(d.stream), cut[n - 1] + (d.done + 1), d.sent, cut)
      /\ Len(d.stream) = cut[m] - (cut[n - 1] + d.done)
      /\ cut[n] = cut[n - 1] + l
      /\ n < m => cut[n] < cut[m]
      /\ cut[n] \in Nat /\ cut[n - 1] \in Nat
  <2> HIDE DEF n
  <2>1. d.done \in 0 .. BlockLength(n, d.sent[n].sigtype) - 1 /\ n \in 1 .. Len(d.sent)
    BY <1>2, <1>4
  <2>2. /\ IsSymbolAt(Head(d.stream), d.sent, n, d.done + 1)
        /\ Layout(Tail(d.stream), cut[n - 1] + (d.done + 1), d.sent, cut)
        /\ Len(d.stream) = cut[Len(d.sent)] - (cut[n - 1] + d.done)
        /\ cut[n] = cut[n - 1] + BlockLength(n, d.sent[n].sigtype)
        /\ n < Len(d.sent) => cut[n] < cut[Len(d.sent)]
        /\ cut[n] \in Nat /\ cut[n - 1] \in Nat
    <3> DEFINE a == d.stream
               b == d.sent
               c == d.done
               k == n
    <3>1. /\ Layout(a, cut[k - 1] + c, b, cut)
          /\ c \in 0 .. BlockLength(k, b[k].sigtype) - 1 /\ k \in 1 .. Len(b)
      BY <1>3, <2>1
    <3> HIDE DEF a, b, c, k
    <3>2. /\ IsSymbolAt(Head(a), b, k, c + 1)
          /\ Layout(Tail(a), cut[k - 1] + (c + 1), b, cut)
      BY <3>1, NextSymbol
    <3>3. Len(a) = cut[Len(b)] - (cut[k - 1] + c)
      BY <3>1 DEF Layout
    <3>4. cut[k] = cut[k - 1] + BlockLength(k, b[k].sigtype)
      BY <3>1 DEF Layout
    <3> DEFINE q == Len(b)
    <3>7. /\ q \in Nat /\ k \in 1 .. q /\ cut \in [0 .. q -> Nat]
          /\ \A u, w \in 0 .. q : u < w => cut[u] < cut[w]
      BY <3>1 DEF Layout, Sequence
    <3>8. k \in 0 .. q /\ k - 1 \in 0 .. q /\ q \in 0 .. q
      <4> HIDE DEF q
      <4> QED BY <3>7
    <3>5. k < q => cut[k] < cut[q]
      BY <3>7, <3>8
    <3>6. cut[k] \in Nat /\ cut[k - 1] \in Nat
      BY <3>7, <3>8
    <3> QED BY <3>2, <3>3, <3>4, <3>5, <3>6 DEF a, b, c, k
  <2> QED BY <2>2 DEF x, l, i, m
<1>8. cut[n - 1] + (d.done + 1) = cut[n] /\ Len(d.stream) = cut[m] - cut[n] + 1
      /\ (Len(d.stream) > 1 <=> n < m)
  <2>1. cut[m] \in Nat /\ m \in Nat
    <3>1. m \in Nat /\ cut \in [0 .. m -> Nat]
      BY <1>3 DEF Layout, Sequence
    <3> HIDE DEF m
    <3> QED BY <3>1
  <2>2. n = m => cut[n] = cut[m]
    BY <1>7
  <2> DEFINE a == cut[n - 1]
             b == cut[n]
             c == cut[m]
             s == Len(d.stream)
             done == d.done
  <2>3. /\ a \in Nat /\ b \in Nat /\ c \in Nat /\ s = c - (a + done) /\ b = a + l
        /\ (n < m => b < c) /\ (n = m => b = c) /\ n \in 1 .. m /\ m \in Nat /\ n \in Nat
        /\ done \in Nat /\ done + 1 = l
    BY <1>2, <1>6, <1>7, <2>1, <2>2
  <2> HIDE DEF a, b, c, s, n, m, l, done
  <2>4. a + (done + 1) = b /\ s = c - b + 1 /\ (s > 1 <=> n < m)
    BY <2>3
  <2> QED BY <2>4 DEF a, b, c, s, n, m, done
<1>9. n < m => data = MORE_FRAMES
  <2>1. Place(n, x.sigtype, i) = "termination" /\ IsDataAt(data, d.sent, n, i)
    BY <1>2, <1>7 DEF IsSymbolAt
  <2> HIDE DEF n, i, data
  <2> QED BY <2>1 DEF IsDataAt, x, m
<1>10. /\ m <= MaxFrames /\ m \in Nat /\ x \in SentFrames
       /\ n < m => d.sent[n + 1].rate = x.rate
  <2>1. /\ \A k \in 1 .. m : d.sent[k] \in SentFrames /\ d.sent[k].rate = d.sent[1].rate
        /\ m <= MaxFrames /\ m \in Nat
    BY <1>3 DEF Layout, Sequence
  <2> HIDE DEF n, m
  <2>2. n < m => n + 1 \in 1 .. m
    BY <1>2, <2>1
  <2> QED BY <1>2, <2>1, <2>2 DEF x
<1> DEFINE t == [d EXCEPT !.stream = Tail(@)]
           more == MoreFollow([t EXCEPT !.call = "decoded", !.nFramesDecoded = @ + 1, !.done = 0,
                                        !.first_frame_after_reset = FALSE],
                              data, Len(d.stream) > 1)
<1>11. /\ IsDecoder(t) /\ t.stream = Tail(d.stream)
       /\ t.nFramesDecoded = d.nFramesDecoded /\ t.sent = d.sent /\ t.rate = d.rate
       /\ t.codebook = d.codebook /\ t.typeOffsetPrev = d.typeOffsetPrev
       /\ t.LastGainIndex = d.LastGainIndex /\ t.frame = d.frame /\ t.error = d.error
  BY DEF IsDecoder, Decoder
<1>12. e = [[t EXCEPT !.call = "decoded", !.nFramesDecoded = @ + 1, !.done = 0,
                      !.first_frame_after_reset = FALSE]
              EXCEPT !.moreInternalDecoderFrames = more]
  <2>1. t.sent # <<>>
    BY <1>11
  <2> DEFINE counted == [t EXCEPT !.call = "decoded", !.nFramesDecoded = @ + 1, !.done = 0,
                                  !.first_frame_after_reset = FALSE]
  <2>2. e = [counted EXCEPT !.moreInternalDecoderFrames = more,
                            !.frame = IF t.stream = Noise /\ t.sent = <<>> THEN NoFrame ELSE @]
    BY DEF Decoded
  <2>3. IsDecoder(counted)
    <3> HIDE DEF t
    <3> QED BY <1>11 DEF IsDecoder, Decoder
  <2> HIDE DEF t, more, counted
  <2>4. e = [counted EXCEPT !.moreInternalDecoderFrames = more]
    BY <2>1, <2>2, <2>3 DEF IsDecoder, Decoder
  <2> QED BY <2>4 DEF counted
<1>13. more <=> n < m
  <2> DEFINE counted == [t EXCEPT !.call = "decoded", !.nFramesDecoded = @ + 1, !.done = 0,
                                  !.first_frame_after_reset = FALSE]
  <2>1. counted.nFramesDecoded = n
    <3> HIDE DEF t
    <3> QED BY <1>11 DEF IsDecoder, Decoder
  <2>2. more <=> /\ Len(d.stream) > 1 /\ data = MORE_FRAMES
                 /\ counted.nFramesDecoded < MaxFrames
    <3> HIDE DEF counted, data
    <3> QED BY DEF MoreFollow, counted
  <2> HIDE DEF more, counted, n, m, data
  <2>3. n < m => n < MaxFrames
    <3>1. n \in Nat /\ m \in Nat /\ m <= 5
      BY <1>2, <1>10 DEF MaxFrames
    <3> HIDE DEF n, m
    <3> QED BY <3>1 DEF MaxFrames
  <2> QED BY <1>8, <1>9, <2>1, <2>2, <2>3
<1> HIDE DEF t, more
<1>14. /\ e.call = "decoded" /\ e.nFramesDecoded = n /\ e.done = 0
       /\ e.moreInternalDecoderFrames = more /\ e.frame = d.frame /\ e.sent = d.sent
       /\ e.stream = Tail(d.stream) /\ e.error = FALSE /\ e.rate = d.rate
       /\ e.codebook = d.codebook /\ e.typeOffsetPrev = d.typeOffsetPrev
       /\ e.LastGainIndex = d.LastGainIndex
  <2> DEFINE counted == [t EXCEPT !.call = "decoded", !.nFramesDecoded = @ + 1, !.done = 0,
                                  !.first_frame_after_reset = FALSE]
  <2>1. /\ IsDecoder(counted) /\ counted.call = "decoded" /\ counted.done = 0
        /\ counted.nFramesDecoded = t.nFramesDecoded + 1
    BY <1>11 DEF IsDecoder, Decoder
  <2>2. /\ counted.frame = t.frame /\ counted.sent = t.sent /\ counted.stream = t.stream
        /\ counted.error = t.error /\ counted.rate = t.rate /\ counted.codebook = t.codebook
        /\ counted.typeOffsetPrev = t.typeOffsetPrev /\ counted.LastGainIndex = t.LastGainIndex
    BY <1>11 DEF IsDecoder, Decoder
  <2>3. e = [counted EXCEPT !.moreInternalDecoderFrames = more]
    BY <1>12
  <2> HIDE DEF counted
  <2>4. /\ e.call = counted.call /\ e.nFramesDecoded = counted.nFramesDecoded
        /\ e.done = counted.done /\ e.moreInternalDecoderFrames = more
        /\ e.frame = counted.frame /\ e.sent = counted.sent
        /\ e.stream = counted.stream /\ e.error = counted.error /\ e.rate = counted.rate
        /\ e.codebook = counted.codebook /\ e.typeOffsetPrev = counted.typeOffsetPrev
        /\ e.LastGainIndex = counted.LastGainIndex
    BY <2>1, <2>3 DEF IsDecoder, Decoder
  <2>5. t.nFramesDecoded + 1 = n
    BY <1>11
  <2> QED BY <1>4, <1>11, <2>1, <2>2, <2>4, <2>5
<1>15. more \in BOOLEAN
  BY DEF more, MoreFollow
<1>16. j >= 0 /\ j >= 1 /\ j >= 2 /\ j >= N + 6 /\ Limit(j - 1, 0, N) = N /\ Limit(j - 1, 1, N) = N
  <2> HIDE DEF j, N, v
  <2>1. j >= 0 /\ j >= 1 /\ j >= 2 /\ j >= N + 6 /\ j - 1 > N /\ j - 1 \in Int
    <3>1. j \in Int /\ j = N + 6 + v /\ N \in Nat /\ N > 0 /\ v \in Nat
      BY <1>2, <1>6
    <3> QED BY <3>1
  <2>2. Limit(j - 1, 0, N) = N
    BY <1>6, <2>1 DEF Limit
  <2>3. Limit(j - 1, 1, N) = N
    BY <1>6, <2>1 DEF Limit
  <2> QED BY <2>1, <2>2, <2>3
<1>17. e.frame \in {x, [x EXCEPT !.interp = 4]}
  <2> DEFINE f == d.frame
  <2>1. /\ IsFrame(f) /\ f.rate = x.rate /\ f.sigtype = x.sigtype /\ f.offset = x.offset
        /\ Sequence(f.levels) /\ Len(f.levels) = N
        /\ \A k \in 1 .. N : f.levels[k] = x.levels[k]
        /\ f.interp \in {x.interp, 4}
        /\ f.per = IF x.sigtype = VOICED THEN x.per ELSE 0
    BY <1>5, <1>16
  <2>2. /\ IsFrame(x) /\ x.levels = [k \in 1 .. N |-> x.levels[k]]
        /\ (x.sigtype # VOICED => x.per = 0)
    <3> HIDE DEF x
    <3>1. x \in [rate : 0 .. Len(SamplingRates) - 1, sigtype : {0, 1}, offset : {0, 1},
                 interp : Interps, per : PerIndices \cup {0}, levels : [1 .. NB_SUBFR -> Int]]
          /\ (x.sigtype # VOICED => x.per = 0)
      <4>1. x \in SentFrames
        BY <1>10
      <4> QED BY <4>1 DEF SentFrames
    <3>2. IsFrame(x)
      BY <3>1 DEF IsFrame, FrameFields
    <3> QED BY <3>1, <3>2
  <2> HIDE DEF f, x, N
  <2>3. f.levels = x.levels
    BY <2>1, <2>2 DEF Sequence
  <2>4. f.per = x.per
    BY <2>1, <2>2
  <2>5. f = x \/ f = [x EXCEPT !.interp = 4]
    BY <2>1, <2>2, <2>3, <2>4 DEF IsFrame, FrameFields
  <2> QED BY <1>14, <2>5 DEF f
<1>18. ASSUME n < m
       PROVE  InStepWithPeer(e)
  <2>1. /\ e.nFramesDecoded + 1 = n + 1 /\ n + 1 \in 1 .. Len(e.sent) /\ n + 1 > 1
        /\ Lead(n + 1) = 0 /\ e.done - Lead(n + 1) = 0 /\ (n + 1) - 1 = n
    <3>1. n + 1 \in 1 .. m /\ n + 1 > 1 /\ (n + 1) - 1 = n /\ n + 1 # 1
      <4>1. n \in Nat /\ n > 0 /\ m \in Nat /\ n < m
        BY <1>2, <1>10, <1>18
      <4> HIDE DEF n, m
      <4> QED BY <4>1
    <3> HIDE DEF n
    <3> QED BY <1>14, <3>1 DEF Lead, m
  <2>2. Layout(e.stream, cut[n] + e.done, e.sent, cut)
    BY <1>7, <1>8, <1>14
  <2>3. 0 \in 0 .. BlockLength(n + 1, e.sent[n + 1].sigtype) - 1
    <3>1. /\ BlockLength(n + 1, e.sent[n + 1].sigtype) \in Nat
          /\ BlockLength(n + 1, e.sent[n + 1].sigtype) > NB_SUBFR + 6
      BY BlockIsLong
    <3> DEFINE b == BlockLength(n + 1, e.sent[n + 1].sigtype)
    <3>2. b \in Nat /\ b > NB_SUBFR + 6
      BY <3>1
    <3> HIDE DEF b
    <3>3. 0 \in 0 .. b - 1
      BY <1>6, <3>2
    <3> QED BY <3>3 DEF b
  <2>4. /\ e.rate = e.sent[n + 1].rate /\ e.typeOffsetPrev = TypeOf(e.sent[n])
        /\ e.LastGainIndex = e.sent[n].levels[N]
    <3>1. d.rate = x.rate /\ d.typeOffsetPrev = TypeOf(x) /\ d.LastGainIndex = x.levels[N]
      BY <1>4, <1>16
    <3>2. e.sent[n + 1].rate = x.rate /\ e.sent[n] = x
      <4>1. d.sent[n + 1].rate = x.rate
        BY <1>10, <1>18
      <4> HIDE DEF n
      <4> QED BY <1>14, <4>1 DEF x
    <3> HIDE DEF x, n, N
    <3> QED BY <1>14, <3>1, <3>2
  <2>5. e.codebook = Codebook(SamplingRates[e.rate + 1]) /\ e.done = 0 /\ e.error = FALSE
    BY <1>4, <1>14
  <2> DEFINE k == n + 1
  <2>6. /\ e.nFramesDecoded + 1 = k /\ k \in 1 .. Len(e.sent) /\ k > 1 /\ e.done - Lead(k) = 0
        /\ \E c : Layout(e.stream, c[k - 1] + e.done, e.sent, c)
        /\ e.done \in 0 .. BlockLength(k, e.sent[k].sigtype) - 1
        /\ e.rate = e.sent[k].rate /\ e.typeOffsetPrev = TypeOf(e.sent[k - 1])
        /\ e.LastGainIndex = e.sent[k - 1].levels[NB_SUBFR]
        /\ e.codebook = Codebook(SamplingRates[e.rate + 1]) /\ e.error = FALSE
    <3> HIDE DEF n
    <3> QED BY <2>1, <2>2, <2>3, <2>4, <2>5
  <2> HIDE DEF n, x, k
  <2>7. 0 >= 0 /\ ~(0 >= 1) /\ ~(0 >= 2)
    OBVIOUS
  <2>8. \E c : Layout(e.stream, c[k - 1] + e.done, e.sent, c)
    BY <2>6
  <2> QED BY <2>6, <2>7, <2>8, Zenon DEF InStepWithPeer
<1> QED
  <2>1. e.nFramesDecoded \in 1 .. Len(e.sent) /\ x = e.sent[e.nFramesDecoded]
    BY <1>2, <1>14
  <2>2. e.moreInternalDecoderFrames = (e.nFramesDecoded < Len(e.sent))
    BY <1>13, <1>14, <1>15
  <2> HIDE DEF n, m, x
  <2> QED BY <1>13, <1>14, <1>17, <1>18, <2>1, <2>2 DEF FrameDecoded

\* The end of any frame.
LEMMA EndFrameContent ==
  ASSUME ContentInv, EndFrame
  PROVE  Sequence(dec'.sent) /\ (dec'.sent # <<>> => dec'.call # "decoding" /\ FrameDecoded(dec'))
<1>1. /\ IsDecoder(dec) /\ dec.nFramesDecoded \in Nat /\ Sequence(dec.sent)
      /\ dec.sent # <<>> => InStepWithPeer(dec) /\ ReadSoFar(dec)
      /\ dec.call = "decoding" /\ Field(dec) = "termination"
  BY DEF ContentInv, DecoderInv, EndFrame
<1>2. CASE dec.sent # <<>>
  <2>1. InStep(dec) /\ ~dec.error
    BY <1>1, <1>2, IsInStep
  <2>2. dec' = Decoded([dec EXCEPT !.stream = Tail(@)], Head(dec.stream).data,
                       Len(dec.stream) > 1)
    BY <2>1 DEF EndFrame
  <2>3. FrameDecoded(dec')
    BY <1>1, <1>2, <2>2, FrameEnds
  <2>4. dec'.sent = dec.sent
    <3> DEFINE t == [dec EXCEPT !.stream = Tail(@)]
    <3>1. IsDecoder(t) /\ t.sent = dec.sent
      BY <1>1 DEF IsDecoder, Decoder
    <3> HIDE DEF t
    <3> QED BY <2>2, <3>1 DEF Decoded, IsDecoder, Decoder, t
  <2> QED BY <1>1, <2>3, <2>4 DEF FrameDecoded
<1>3. CASE dec.sent = <<>>
  <2> DEFINE tail == [dec EXCEPT !.stream = Tail(@)]
             noise == [dec EXCEPT !.stream = Noise]
  <2>1. /\ IsDecoder(tail) /\ tail.sent = <<>> /\ IsDecoder(noise) /\ noise.sent = <<>>
    BY <1>1, <1>3 DEF IsDecoder, Decoder
  <2>2. \/ dec' = Concealed(dec)
        \/ dec' = Decoded(tail, Head(dec.stream).data, Len(dec.stream) > 1)
        \/ \E termination, left : dec' = Decoded(noise, termination, left)
    BY DEF EndFrame
  <2> HIDE DEF tail, noise
  <2>3. ASSUME NEW d, IsDecoder(d), d.sent = <<>>, NEW termination, NEW left
        PROVE  Decoded(d, termination, left).sent = <<>>
    BY <2>3 DEF Decoded, IsDecoder, Decoder
  <2>4. Concealed(dec).sent = <<>>
    BY <1>1 DEF Concealed, IsDecoder, Decoder
  <2>5. dec'.sent = <<>>
    BY <2>1, <2>2, <2>3, <2>4
  <2> QED BY <1>1, <1>3, <2>5
<1> QED BY <1>2, <1>3

-----------------------------------------------------------------------------
(* A packet that arrives as it was sent is decoded to the frames that were *)
(* sent, whatever became of the packets before it, and every index the     *)
(* encoder writes has an entry in its table: SKP_Silk_encode_parameters()  *)
(* and SKP_Silk_decode_parameters() choose the same table for every        *)
(* symbol, from states of their own.                                       *)
THEOREM IntactPacketsAreDecoded == StreamSpec => []IntactIsDecoded
<1>1. StreamInit => StreamInv /\ ContentInv
  <2> SUFFICES ASSUME StreamInit PROVE StreamInv /\ ContentInv
    OBVIOUS
  <2>1. StreamInv
    BY DEF StreamInit, StreamInv, IsDecoder, CountsCalls, Decoder, MaxFrames
  <2>2. size \in PacketSizes /\ WireInv(wire)
    BY NothingInv DEF StreamInit
  <2>3. /\ IsEncoder(enc) /\ enc.rate = FirstRate /\ enc.LastGainIndex = 1
        /\ enc.typeOffsetPrev = 0 /\ enc.nFramesInPayloadBuf = 0
        /\ enc.symbols = <<>> /\ enc.frames = <<>>
    BY DEF StreamInit, IsEncoder, Encoder
  <2>4. \E cut : Layout(enc.symbols, 0, enc.frames, cut)
    BY <2>3, NothingIsLayout
  <2>5. Len(enc.frames) = 0 /\ 0 < size /\ InAlphabet(enc.symbols)
    BY <2>2, <2>3, StreamAssumption DEF InAlphabet
  <2>6. EncoderInv(enc)
    BY <2>3, <2>4, <2>5, StreamAssumption DEF EncoderInv
  <2>7. DecoderInv(dec)
    BY <2>1 DEF StreamInit, DecoderInv, StreamInv, CountsCalls, Sequence
  <2> QED BY <2>1, <2>2, <2>6, <2>7 DEF ContentInv
<1>2. StreamInv /\ ContentInv /\ [StreamNext]_streamVars => StreamInv' /\ ContentInv'
  <2> SUFFICES ASSUME StreamInv, ContentInv, [StreamNext]_streamVars
               PROVE  StreamInv' /\ ContentInv'
    OBVIOUS
  <2>1. StreamInv'
    BY StreamInvKept
  <2>2. size' = size /\ size \in PacketSizes
    BY DEF StreamNext, streamVars, EncodeFrame, EncodeFails, ChangeRate, Receive,
           ReceiveIntact, ReceiveNoise, Lose, ReadSymbol, EndFrame, ContentInv
  <2>3. ASSUME enc' = enc PROVE EncoderInv(enc)'
    BY <2>2, <2>3 DEF ContentInv, EncoderInv
  <2>4. ASSUME wire' = wire \/ wire' = Nothing PROVE WireInv(wire)'
    BY <2>4, NothingInv DEF ContentInv, WireInv
  <2>5. ASSUME dec' = dec PROVE DecoderInv(dec)'
    BY <2>5 DEF ContentInv, DecoderInv, InStepWithPeer, ReadSoFar, FrameDecoded
  <2>6. ASSUME Sequence(dec'.sent),
               dec'.sent # <<>> => IF dec'.call = "decoding"
                                   THEN InStepWithPeer(dec') /\ ReadSoFar(dec')
                                   ELSE FrameDecoded(dec')
        PROVE  DecoderInv(dec)'
    BY <2>1, <2>6 DEF StreamInv, CountsCalls, DecoderInv
  <2>7. ASSUME NEW f \in Frames, NEW t \in {LAST_FRAME, LBRR_VER1}, EncodeFrame(f, t)
        PROVE  ContentInv'
    BY <2>2, <2>5, <2>7, EncodeFrameContent DEF EncodeFrame, ContentInv
  <2>8. ASSUME NEW f \in Frames, EncodeFails(f)
        PROVE  ContentInv'
    BY <2>2, <2>5, <2>8, EncodeFailsContent DEF EncodeFails, ContentInv
  <2>9. ASSUME NEW rate \in 0 .. Len(SamplingRates) - 1, ChangeRate(rate)
        PROVE  ContentInv'
    BY <2>2, <2>5, <2>9, ChangeRateContent DEF ChangeRate, ContentInv
  <2>10. CASE ReceiveIntact
    <3>1. Sequence(wire.frames)
      BY DEF ContentInv, WireInv, Layout
    <3>2. Receive(wire.symbols, wire.frames) /\ wire' = Nothing /\ enc' = enc
      BY <2>10 DEF ReceiveIntact, Receive
    <3>3. /\ Sequence(dec'.sent)
          /\ dec'.sent # <<>> =>
               dec'.call = "decoding" /\ InStepWithPeer(dec') /\ ReadSoFar(dec')
      BY <3>1, <3>2, ReceiveContent
    <3>4. EncoderInv(enc)' /\ WireInv(wire)' /\ DecoderInv(dec)'
      BY <2>3, <2>4, <2>6, <3>2, <3>3
    <3> QED BY <2>1, <2>2, <3>4 DEF ContentInv
  <2>11. CASE ReceiveNoise
    <3>1. Sequence(<<>>)
      BY DEF Sequence
    <3>2. Receive(Noise, <<>>) /\ wire' = Nothing /\ enc' = enc
      BY <2>11 DEF ReceiveNoise, Receive
    <3>3. /\ Sequence(dec'.sent)
          /\ dec'.sent # <<>> =>
               dec'.call = "decoding" /\ InStepWithPeer(dec') /\ ReadSoFar(dec')
      BY <3>1, <3>2, ReceiveContent
    <3>4. EncoderInv(enc)' /\ WireInv(wire)' /\ DecoderInv(dec)'
      BY <2>3, <2>4, <2>6, <3>2, <3>3
    <3> QED BY <2>1, <2>2, <3>4 DEF ContentInv
  <2>12. CASE Lose
    <3>1. enc' = enc /\ wire' = Nothing /\ dec' = dec
      BY <2>12 DEF Lose
    <3>2. EncoderInv(enc)' /\ WireInv(wire)' /\ DecoderInv(dec)'
      BY <2>3, <2>4, <2>5, <3>1
    <3> QED BY <2>1, <2>2, <3>2 DEF ContentInv
  <2>13. CASE ReadSymbol
    <3>1. enc' = enc /\ wire' = wire
      BY <2>13 DEF ReadSymbol
    <3>2. EncoderInv(enc)' /\ WireInv(wire)' /\ DecoderInv(dec)'
      BY <2>3, <2>4, <2>6, <2>13, <3>1, ReadSymbolContent
    <3> QED BY <2>1, <2>2, <3>2 DEF ContentInv
  <2>14. CASE EndFrame
    <3>1. enc' = enc /\ wire' = wire
      BY <2>14 DEF EndFrame
    <3>2. EncoderInv(enc)' /\ WireInv(wire)' /\ DecoderInv(dec)'
      BY <2>3, <2>4, <2>6, <2>14, <3>1, EndFrameContent
    <3> QED BY <2>1, <2>2, <3>2 DEF ContentInv
  <2>15. CASE UNCHANGED streamVars
    <3>1. enc' = enc /\ wire' = wire /\ dec' = dec
      BY <2>15 DEF streamVars
    <3>2. EncoderInv(enc)' /\ WireInv(wire)' /\ DecoderInv(dec)'
      BY <2>3, <2>4, <2>5, <3>1
    <3> QED BY <2>1, <2>2, <3>2 DEF ContentInv
  <2> QED BY <2>1, <2>7, <2>8, <2>9, <2>10, <2>11, <2>12, <2>13, <2>14, <2>15 DEF StreamNext
<1>3. ContentInv => IntactIsDecoded
  <2> SUFFICES ASSUME ContentInv PROVE IntactIsDecoded
    OBVIOUS
  <2>1. \A i \in DOMAIN wire.symbols : wire.symbols[i].data \in Alphabet(wire.symbols[i].table)
    <3>1. DOMAIN wire.symbols = 1 .. Len(wire.symbols)
      BY DEF ContentInv, WireInv, Sequence
    <3> QED BY <3>1 DEF ContentInv, WireInv, InAlphabet
  <2>2. dec.sent # <<>> /\ dec.call # "decoding" => FrameDecoded(dec)
    BY DEF ContentInv, DecoderInv
  <2> QED BY <2>1, <2>2 DEF FrameDecoded, IntactIsDecoded
<1> QED BY <1>1, <1>2, <1>3, PTL DEF StreamSpec
=============================================================================
