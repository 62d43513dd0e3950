------------------------------ MODULE RangeCoder ------------------------------
(***************************************************************************)
(* The range coder of the SILK codec: SKP_Silk_range_coder.c.  The encoder *)
(* narrows an interval symbol by symbol and writes the bytes that are      *)
(* settled; a carry may still run back through them.  The decoder narrows  *)
(* the same interval from the bytes of the payload.                        *)
(*                                                                         *)
(* A byte has B bits, 8 in the code: an interval's base is four bytes, its *)
(* width and the entries of a table two.  Every constant of the code is    *)
(* written in terms of B.  A table `prob' is a function on 0 .. n that     *)
(* rises from 0 to Byte^2 - 1, as those of the SKP_Silk_tables_*.c do; the *)
(* decoder starts its search at the table's middle.                        *)
(***************************************************************************)
EXTENDS Integers, Sequences, FiniteSetsExt, PowersOfTwo

CONSTANTS
  B,            \* the bits of a byte
  MaxBytes,     \* MAX_ARITHM_BYTES
  Tables,       \* the tables in use: records [prob, middle]
  MaxSymbols,   \* bound: the symbols of a packet
  Junk          \* what the memory behind a payload may hold

VARIABLES
  writer,       \* the encoder's SKP_Silk_range_coder_state
  given,        \* the symbols it was given: records [table, data]
  reader,       \* the decoder's SKP_Silk_range_coder_state
  got           \* what it has returned, a sequence

coderVars == <<writer, given, reader, got>>

Byte == Pow2[B]
Digits == 0 .. Byte - 1
Pow[n \in Nat] == IF n = 0 THEN 1 ELSE Byte * Pow[n - 1]

Memory == 0 .. MaxBytes + 3     \* the payload, and what the decoder may read past it
Last(table) == Max(DOMAIN table.prob)

IsTable(table) ==
  LET n == Last(table) IN
  /\ n \in Nat \ {0} /\ table.middle \in 0 .. n /\ table.prob \in [0 .. n -> 0 .. Pow[2] - 1]
  /\ table.prob[0] = 0 /\ table.prob[n] = Pow[2] - 1
  /\ \A i \in 1 .. n : table.prob[i - 1] < table.prob[i]

ASSUME CoderAssumption ==
  /\ B \in Nat \ {0, 1} /\ MaxBytes \in Nat /\ Junk \subseteq Digits
  /\ \A table \in Tables : IsTable(table)

-----------------------------------------------------------------------------
(* The encoder.                                                            *)

range_enc_init ==
  [base |-> 0, range |-> Pow[2] - 1, ix |-> 0, length |-> MaxBytes,
   buffer |-> [i \in Memory |-> 0], error |-> FALSE, wild |-> FALSE]

\* MUTANT: a carry stops at the byte before, whatever it was.
CarriedOnce(rc) ==
  [rc EXCEPT !.buffer[rc.ix - 1] = (@ + 1) % Byte]

\* `while( ( ++buffer[ --i ] ) == 0 )': the bytes that overflow pass the carry on.
Carried(rc) ==
  LET stops == {i \in 0 .. rc.ix - 1 : rc.buffer[i] # Byte - 1} IN
  IF stops = {} THEN [rc EXCEPT !.wild = TRUE]
  ELSE [rc EXCEPT !.buffer = [i \in Memory |->
          IF i = Max(stops) THEN @[i] + 1
          ELSE IF i \in Max(stops) + 1 .. rc.ix - 1 THEN 0 ELSE @[i]]]

\* By how many bytes an interval is widened again, and its width then.
Normalization(wide) == IF wide >= Pow[3] THEN 0 ELSE IF wide >= Pow[2] THEN 1 ELSE 2
Normalized(wide) == wide \div Pow[2 - Normalization(wide)]

range_encoder(rc, data, table) ==
  LET sum == rc.base + rc.range * table.prob[data]
      base == sum % Pow[4]
      wide == rc.range * (table.prob[data + 1] - table.prob[data])
      bytes == Normalization(wide)
      carried == IF sum >= Pow[4] THEN Carried(rc) ELSE rc
      fit == Min({bytes, rc.length - rc.ix})
      written == [carried EXCEPT !.buffer = [i \in Memory |->
                    IF i \in rc.ix .. rc.ix + fit - 1
                    THEN (base \div Pow[3 - (i - rc.ix)]) % Byte ELSE @[i]]]
  IN IF rc.error THEN rc
     ELSE IF fit < bytes THEN [written EXCEPT !.error = TRUE]
     ELSE [written EXCEPT !.base = (base * Pow[bytes]) % Pow[4],
                          !.range = Normalized(wide), !.ix = @ + bytes]

BitLength(n) == IF n = 0 THEN 0 ELSE CHOOSE k \in 1 .. 2 * B : Pow2[k - 1] <= n /\ n < Pow2[k]

\* The bits that settle the interval beyond the bytes written, and all bits together.
ExtraBits(rc) == 2 * B + 2 - BitLength(rc.range - 1)
range_coder_get_length(rc) == B * rc.ix + ExtraBits(rc)
BytesOf(bits) == (bits + B - 1) \div B

\* The lowest bits of a byte set to 1, from the one after the first `used'.
Filled(byte, used) ==
  LET unit == Pow2[B - used] IN (byte \div unit) * unit + unit - 1

range_enc_wrap_up(rc) ==
  LET bits == range_coder_get_length(rc)
      unit == Pow2[3 * B - ExtraBits(rc)]
      base == (((rc.base \div Byte) + unit) \div unit) * unit
      carried == IF base >= Pow[3] THEN Carried(rc) ELSE rc
      bytes == Min({IF ExtraBits(rc) > B THEN 2 ELSE 1, rc.length - rc.ix})
      last == BytesOf(bits) - 1
      stored == [carried EXCEPT !.ix = @ + bytes, !.buffer = [i \in Memory |->
                   IF i \in rc.ix .. rc.ix + bytes - 1
                   THEN (base \div Pow[2 - (i - rc.ix)]) % Byte ELSE @[i]]]
  IN IF bits % B # 0 /\ last < rc.length
     THEN [stored EXCEPT !.buffer[last] = Filled(@, bits % B)] ELSE stored

-----------------------------------------------------------------------------
(* The decoder.  It copies the payload over what an earlier one left, and  *)
(* neither its first four bytes nor those it shifts in are kept to the     *)
(* payload's length.                                                       *)

range_dec_init(payload, length, junk) ==
  LET memory == [i \in Memory |-> IF i < length THEN payload[i] ELSE junk] IN
  [base |-> memory[0] * Pow[3] + memory[1] * Pow[2] + memory[2] * Byte + memory[3],
   range |-> Pow[2] - 1, ix |-> 0, length |-> length, buffer |-> memory,
   error |-> FALSE, wild |-> FALSE]

\* The decoder's base after it has shifted in the next bytes.
ShiftedIn(rc, base, bytes) ==
  LET next[n \in 0 .. bytes] ==
        IF n = 0 THEN base
        ELSE next[n - 1] * Byte +
             (IF rc.ix + n - 1 < rc.length THEN rc.buffer[4 + rc.ix + n - 1] ELSE 0)
  IN next[bytes]

\* The entry the search ends at: down or up from the middle.
Found(rc, table) ==
  LET At(i) == rc.range * table.prob[i]
      ups == {i \in table.middle + 1 .. Last(table) : At(i) > rc.base}
  IN IF At(table.middle) > rc.base
     THEN {Max({i \in 0 .. table.middle - 1 : At(i) <= rc.base})}
     ELSE IF ups = {} THEN {} ELSE {Min(ups) - 1}

Failed(rc) == [rc |-> [rc EXCEPT !.error = TRUE], data |-> 0]

range_decoder(rc, table) ==
  IF rc.error THEN [rc |-> rc, data |-> 0]
  ELSE IF Found(rc, table) = {} THEN Failed(rc)
  ELSE LET data == Max(Found(rc, table))
           base == rc.base - rc.range * table.prob[data]
           wide == rc.range * (table.prob[data + 1] - table.prob[data])
           bytes == Normalization(wide)
       IN IF (bytes > 0 /\ base >= Pow[4 - bytes]) \/ Normalized(wide) = 0 THEN Failed(rc)
          ELSE [rc |-> [rc EXCEPT !.base = ShiftedIn(rc, base, bytes),
                                  !.range = Normalized(wide),
                                  !.ix = Min({@ + bytes, Max({@, rc.length})})],
                data |-> data]

range_coder_check_after_decoding(rc) ==
  LET bits == range_coder_get_length(rc)
      last == BytesOf(bits) - 1
  IN [rc EXCEPT !.error = \/ last >= rc.length
                          \/ /\ bits % B # 0
                             /\ rc.buffer[last] # Filled(rc.buffer[last], bits % B)]

-----------------------------------------------------------------------------
(* A packet is written, wrapped up, sent and read with the same tables.    *)

NoDecoder == [range_enc_init EXCEPT !.length = 0]

CoderInit ==
  /\ writer = range_enc_init
  /\ given = <<>>
  /\ reader = NoDecoder
  /\ got = <<>>

Encode(table, data) ==
  /\ reader = NoDecoder
  /\ Len(given) < MaxSymbols
  /\ writer' = range_encoder(writer, data, table)
  /\ given' = Append(given, [table |-> table, data |-> data])
  /\ UNCHANGED <<reader, got>>

\* The packet is as long as get_length() says; one that did not fit is not sent.  A
\* frame of 20 ms takes a fraction of MAX_ARITHM_BYTES: the wrap-up never finds the
\* buffer full, where it would drop its bits without an error.
WrapUpAndReceive(junk) ==
  /\ reader = NoDecoder
  /\ given # <<>>
  /\ ~writer.error
  /\ LET bytes == BytesOf(range_coder_get_length(writer)) IN
       /\ bytes <= MaxBytes
       /\ writer' = range_enc_wrap_up(writer)
       /\ reader' = range_dec_init(writer'.buffer, bytes, junk)
  /\ UNCHANGED <<given, got>>

Decode ==
  /\ reader # NoDecoder
  /\ Len(got) < Len(given)
  /\ LET read == range_decoder(reader, given[Len(got) + 1].table)
         checked == IF Len(got) + 1 = Len(given)
                    THEN range_coder_check_after_decoding(read.rc) ELSE read.rc
     IN /\ reader' = checked
        /\ got' = Append(got, read.data)
  /\ UNCHANGED <<writer, given>>

CoderNext ==
  \/ \E table \in Tables : \E data \in 0 .. Last(table) - 1 : Encode(table, data)
  \/ \E junk \in Junk : WrapUpAndReceive(junk)
  \/ Decode

CoderSpec == CoderInit /\ [][CoderNext]_coderVars

-----------------------------------------------------------------------------
(* The decoder returns the symbols that were encoded, each once and in     *)
(* their order, and finds the last byte filled up with ones, whatever the  *)
(* memory behind the payload holds: a carry reaches every byte it has to   *)
(* and never runs out of the packet (the loops of lines 61 and 319 have no *)
(* other end), and the shortest form that wrap_up() picks is long enough.  *)
DecodesWhatWasSent ==
  /\ ~writer.wild
  /\ ~reader.error
  /\ got = [i \in 1 .. Len(got) |-> given[i].data]
=============================================================================
