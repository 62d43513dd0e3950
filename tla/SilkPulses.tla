------------------------------ MODULE SilkPulses ------------------------------
(***************************************************************************)
(* How the SILK codec writes the excitation of a frame and reads it back:  *)
(* SKP_Silk_encode_pulses.c, _decode_pulses.c, _shell_coder.c and          *)
(* _code_signs.c.                                                          *)
(*                                                                         *)
(* The range coder is a sequence of symbols here, each with the table it   *)
(* is coded by; RangeCoder shows that the coder delivers them.  A symbol   *)
(* read by another table than it was written by is Lost.  A block has      *)
(* 2^Depth pulses, 16 in the code.                                         *)
(***************************************************************************)
EXTENDS Integers, Sequences, FiniteSetsExt, PowersOfTwo

CONSTANTS
  Depth,              \* log2 of SHELL_CODEC_FRAME_LENGTH
  max_pulses_table,   \* the largest sum of 2, 4, 8 .. pulses
  N_RATE_LEVELS       \* the last level is that of the escapes

ASSUME PulsesAssumption ==
  /\ Depth \in Nat \ {0} /\ max_pulses_table \in [1 .. Depth -> Nat]
  /\ N_RATE_LEVELS \in Nat \ {0}

MAX_PULSES == max_pulses_table[Depth]
Escape == MAX_PULSES + 1
Width == Pow2[Depth]
Lost == -1

Symbol(table, data) == [table |-> table, data |-> data]
Size(v) == IF v < 0 THEN -v ELSE v
Flat(parts) ==
  LET all[n \in 0 .. Len(parts)] == IF n = 0 THEN <<>> ELSE all[n - 1] \o parts[n]
  IN all[Len(parts)]

\* The tables.  A rate level is chosen by the bits it would cost: any is possible.
RateLevels(sigtype) == <<"rate level", sigtype>>
PulsesPerBlock(level) == <<"pulses per block", level>>
ShellTable(depth, p) == <<"shell", depth, p>>
LsbTable == <<"lsb">>
SignTable(sigtype, offset, level) ==
  <<"sign", (N_RATE_LEVELS - 1) * (2 * sigtype + offset) + level>>

\* How many symbols a table has; those of the shell are as wide as the sum they split.
PulseAlphabet(table) ==
  CASE table[1] = "rate level" -> N_RATE_LEVELS - 1
    [] table[1] = "pulses per block" -> MAX_PULSES + 2
    [] table[1] = "shell" ->
         IF table[3] \in 1 .. max_pulses_table[table[2]] THEN table[3] + 1 ELSE 0
    [] OTHER -> 2

-----------------------------------------------------------------------------
(* Encoding.                                                               *)

combine_pulses(v) == [k \in 1 .. Len(v) \div 2 |-> v[2 * k - 1] + v[2 * k]]

\* The pulses of a block and their sums by two, four, ..
Sums(block) ==
  LET level[d \in 0 .. Depth] == IF d = 0 THEN block ELSE combine_pulses(level[d - 1])
  IN level

Halved(block, n) == [k \in DOMAIN block |-> Size(block[k]) \div Pow2[n]]

\* MUTANT: only the sum of the whole block is looked at.
FitsAsAWhole(sums) == sums[Depth][1] <= max_pulses_table[Depth]

\* combine_and_check() finds every sum that its table has no entry for.
Fits(sums) ==
  \A d \in 1 .. Depth : \A k \in DOMAIN sums[d] : sums[d][k] <= max_pulses_table[d]

\* Halved as often as its largest pulse is big, a block has none left.
nRshifts(block) ==
  LET enough == Max({Size(block[k]) : k \in DOMAIN block}) IN
  Min({n \in 0 .. enough : Fits(Sums(Halved(block, n)))})

\* A sum is split into its halves, the first one with all that is below it first.
shell_encoder(sums) ==
  LET halves(d, k) ==
        IF sums[d][k] > 0
        THEN <<Symbol(ShellTable(d, sums[d][k]), sums[d - 1][2 * k - 1])>> ELSE <<>>
      split[d \in 0 .. Depth] ==
        IF d = 0 THEN [k \in DOMAIN sums[0] |-> <<>>]
        ELSE [k \in DOMAIN sums[d] |->
               halves(d, k) \o split[d - 1][2 * k - 1] \o split[d - 1][2 * k]]
  IN split[Depth][1]

BlockSymbols(sum, shifts, level) ==
  LET escaped == PulsesPerBlock(N_RATE_LEVELS - 1) IN
  IF shifts = 0 THEN <<Symbol(PulsesPerBlock(level), sum)>>
  ELSE <<Symbol(PulsesPerBlock(level), Escape)>>
       \o [n \in 1 .. shifts - 1 |-> Symbol(escaped, Escape)]
       \o <<Symbol(escaped, sum)>>

LsbSymbols(block, shifts) ==
  Flat([k \in DOMAIN block |-> [j \in 1 .. shifts |->
          Symbol(LsbTable, (Size(block[k]) \div Pow2[shifts - j]) % 2)]])

encode_signs(q, sigtype, offset, level) ==
  Flat([k \in DOMAIN q |->
          IF q[k] = 0 THEN <<>>
          ELSE <<Symbol(SignTable(sigtype, offset, level), IF q[k] < 0 THEN 0 ELSE 1)>>])

Block(q, i) == SubSeq(q, (i - 1) * Width + 1, i * Width)

encode_pulses(q, sigtype, offset, level) ==
  LET iter == 1 .. Len(q) \div Width
      shifts == [i \in iter |-> nRshifts(Block(q, i))]
      sums == [i \in iter |-> Sums(Halved(Block(q, i), shifts[i]))]
  IN <<Symbol(RateLevels(sigtype), level)>>
     \o Flat([i \in iter |-> BlockSymbols(sums[i][Depth][1], shifts[i], level)])
     \o Flat([i \in iter |-> shell_encoder(sums[i])])
     \o Flat([i \in iter |-> LsbSymbols(Block(q, i), shifts[i])])
     \o encode_signs(q, sigtype, offset, level)

-----------------------------------------------------------------------------
(* Decoding.  Every operator returns what it decoded and the position of   *)
(* the next symbol.                                                        *)

Read(s, at, table) ==
  IF at \in DOMAIN s /\ s[at].table = table THEN s[at].data ELSE Lost

\* A sum and the position where its parts are, at each depth.
shell_decoder(s, start, pulses) ==
  LET none(d, at) == [q |-> [k \in 1 .. Pow2[d] |-> 0], at |-> at]
      both(below, d, p, at) ==
        LET child1 == Read(s, at, ShellTable(d, p))
            one == below[<<child1, at + 1>>]
            two == below[<<p - child1, one.at>>]
        IN [q |-> one.q \o two.q, at |-> two.at]
      split[d \in 0 .. Depth] ==
        IF d = 0 THEN [x \in Int \X Nat |-> [q |-> <<x[1]>>, at |-> x[2]]]
        ELSE [x \in Int \X Nat |->
               IF x[1] <= 0 THEN none(d, x[2]) ELSE both(split[d - 1], d, x[1], x[2])]
  IN split[Depth][<<pulses, start>>]

\* An escape announces one more low bit, and the sum after it has the last table.
SumDecoded(s, start, level) ==
  LET At(n) == Read(s, start + n, PulsesPerBlock(IF n = 0 THEN level ELSE N_RATE_LEVELS - 1))
      shifts == CHOOSE n \in 0 .. Len(s) :
                  At(n) # Escape /\ \A m \in 0 .. n - 1 : At(m) = Escape
  IN [sum |-> At(shifts), shifts |-> shifts, at |-> start + shifts + 1]

LsbDecoded(s, start, block, shifts) ==
  [k \in DOMAIN block |->
    LET value[j \in 0 .. shifts] ==
          IF j = 0 THEN block[k]
          ELSE 2 * value[j - 1] + Read(s, start + (k - 1) * shifts + j - 1, LsbTable)
    IN value[shifts]]

decode_signs(s, start, q, sigtype, offset, level) ==
  LET next[k \in 0 .. Len(q)] ==
        IF k = 0 THEN [q |-> <<>>, at |-> start]
        ELSE IF q[k] <= 0 THEN [next[k - 1] EXCEPT !.q = Append(@, q[k])]
        ELSE LET data == Read(s, next[k - 1].at, SignTable(sigtype, offset, level))
             IN [q |-> Append(next[k - 1].q, q[k] * (2 * data - 1)),
                 at |-> next[k - 1].at + 1]
  IN next[Len(q)]

decode_pulses(s, start, iter, sigtype, offset) ==
  LET level == Read(s, start, RateLevels(sigtype))
      sum[i \in 0 .. iter] ==
        IF i = 0 THEN [sum |-> 0, shifts |-> 0, at |-> start + 1]
        ELSE SumDecoded(s, sum[i - 1].at, level)
      shell[i \in 0 .. iter] ==
        IF i = 0 THEN [q |-> <<>>, at |-> sum[iter].at]
        ELSE shell_decoder(s, shell[i - 1].at, sum[i].sum)
      lsb[i \in 0 .. iter] ==
        IF i = 0 THEN [q |-> <<>>, at |-> shell[iter].at]
        ELSE [q |-> LsbDecoded(s, lsb[i - 1].at, shell[i].q, sum[i].shifts),
              at |-> lsb[i - 1].at + sum[i].shifts * Width]
  IN decode_signs(s, lsb[iter].at, Flat([i \in 1 .. iter |-> lsb[i].q]),
                  sigtype, offset, level)

-----------------------------------------------------------------------------
(* What was written is read back, to its last symbol, and every symbol has *)
(* an entry in its table: sums that have none are halved until they have,  *)
(* and the bits that are lost by it sent after them.                       *)
PulsesSurvive(q, sigtype, offset, level) ==
  LET symbols == encode_pulses(q, sigtype, offset, level)
      read == decode_pulses(symbols, 1, Len(q) \div Width, sigtype, offset)
  IN /\ read = [q |-> q, at |-> Len(symbols) + 1]
     /\ \A i \in DOMAIN symbols :
          symbols[i].data \in 0 .. PulseAlphabet(symbols[i].table) - 1
=============================================================================
