------------------------------- MODULE CodecsMC -------------------------------
(***************************************************************************)
(* The codecs on small words.  A behaviour is about one of them: a packet  *)
(* of the range coder, a SILK call, or a single case of the pulse coder or *)
(* of the fixed-point operators.                                           *)
(***************************************************************************)
EXTENDS RangeCoder, SilkPulses, SilkStream, BasicOperators

VARIABLES
  subject,    \* what the behaviour is about
  case        \* the arguments chosen for an algorithm

allVars == <<coderVars, streamVars, subject, case>>

\* Tables that rise from 0 to Byte^2 - 1: even, and with a very rare or a very frequent
\* symbol, so that an interval shrinks by two bytes at once or hardly at all.
Table(entries, middle) ==
  [prob |-> [i \in 0 .. Len(entries) - 1 |-> entries[i + 1]], middle |-> middle]
MCTables == {Table(<<0, 1, 15>>, 1), Table(<<0, 5, 9, 15>>, 2), Table(<<0, 13, 14, 15>>, 1)}

MCMaxPulses == <<2, 3>>
Excitations == [1 .. Width -> -4 .. 5] \cup [1 .. 2 * Width -> {-5, 0, 1}]

MCRates == <<8, 16>>
MCMinDelta == -1
Frame(sigtype, offset, levels, interp, per) ==
  [sigtype |-> sigtype, offset |-> offset, levels |-> levels, interp |-> interp, per |-> per]
MCFrames == {Frame(0, 0, <<0, 3>>, 4, 0), Frame(0, 1, <<3, 0>>, 0, 1),
             Frame(1, 0, <<1, -1>>, 0, 0)}

\* Long words at the ends of the range, around 0 and where a sign or a norm changes.
Corners == {MIN_32, MIN_32 + 1, -Half * Half - 1, -Half * Half, -Half - 1, -Half, -3, -1, 0, 1,
            2, Half - 1, Half, Half * Half - 1, Half * Half, MAX_32 - 1, MAX_32}
Operands ==
  (Word16 \X Word16 \X {0}) \cup (Word32 \X Corners \X (Word16 \cap {0, 3}))
  \cup (Corners \X Word16 \X (Word16 \cap {MIN_16, -1, 5, MAX_16}))

Subjects == {"range coder", "SILK stream", "pulses", "operators"}

Init ==
  /\ subject \in Subjects /\ case = <<>> /\ CoderInit /\ StreamInit
  /\ subject # "SILK stream" => size = 1

Pick(kind, cases) ==
  /\ subject = kind
  /\ case = <<>>
  /\ case' \in cases
  /\ UNCHANGED <<coderVars, streamVars, subject>>

Next ==
  \/ subject = "range coder" /\ CoderNext /\ UNCHANGED <<streamVars, subject, case>>
  \/ subject = "SILK stream" /\ StreamNext /\ UNCHANGED <<coderVars, subject, case>>
  \/ Pick("pulses", Excitations)
  \/ Pick("operators", Operands)

Spec == Init /\ [][Next]_allVars

(* Pulses of every size come back as they were (SKP_Silk_encode_pulses.c). *)
PulsesReturn ==
  subject = "pulses" /\ case # <<>> =>
    \A level \in 0 .. N_RATE_LEVELS - 2 : PulsesSurvive(case, 1, 0, level)

(* The operators saturate, shift and round to the number nearest to the    *)
(* exact result, and the double-precision ones err in the last bits only   *)
(* (basop32.c, oper_32b.c).                                                *)
ArithmeticIsExact ==
  subject = "operators" /\ case # <<>> =>
    /\ {case[1], case[2]} \subseteq Word16 => WordsExact(case[1], case[2])
    /\ LongWordsExact(case[1], case[2])
    /\ case[2] \in Word16 => MixedExact(case[1], case[2], case[3])
    /\ DoublesClose(case[1], case[2], case[3])
=============================================================================
