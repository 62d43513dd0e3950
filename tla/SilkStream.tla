------------------------------ MODULE SilkStream ------------------------------
(***************************************************************************)
(* The packets of a SILK call: SKP_Silk_encode_parameters.c and            *)
(* _gain_quant.c at the peer, the network, and SKP_Silk_decode_frame.c,    *)
(* _decode_parameters.c and _dec_API.c here, which silk8_jni.cpp calls     *)
(* once for each packet that arrives.                                      *)
(*                                                                         *)
(* A packet is the sequence of its symbols, each with the table it is      *)
(* coded by.  While the decoder asks for the table a symbol was written    *)
(* by, it reads that symbol.  When it asks for another one, or the bytes   *)
(* are not those the encoder wrote, what it reads is Noise: any symbol of  *)
(* the table, or an error, after which all it reads is 0.                  *)
(*                                                                         *)
(* The indices that select no table and that no index depends on (NLSF     *)
(* path, lag, contour, LTP gains, scale, seed, pulses, VAD flag) are 0.    *)
(***************************************************************************)
EXTENDS Integers, Sequences

CONSTANTS
  SamplingRates,            \* SKP_Silk_SamplingRates_table, a sequence
  NB_SUBFR,                 \* subframes of a frame, each with a gain
  N_LEVELS_QGAIN,
  MIN_DELTA_GAIN_QUANT, MAX_DELTA_GAIN_QUANT,
  Interps,                  \* interpolation factors in use, of 0 .. 4
  PerIndices,               \* PERIndex values in use
  Frames,                   \* bound: the frames there are to encode
  PacketSizes,              \* how many frames a peer may put into a packet
  FirstRate                 \* the peer's first rate, an index

VARIABLES
  size,    \* how many frames the peer puts into a packet
  enc,     \* the peer's encoder, with the packet it is writing
  wire,    \* the packet just completed: its symbols and its frames
  dec      \* SKP_Silk_decoder_state, and the call that uses it

streamVars == <<size, enc, wire, dec>>

MaxFrames == 5     \* `nFramesDecoded < 5'
LAST_FRAME == 0
MORE_FRAMES == 1
LBRR_VER1 == 2     \* and LBRR_VER2, no different here
VOICED == 0        \* SIG_TYPE_VOICED
Nothing == [symbols |-> <<>>, frames |-> <<>>]

\* A frame to encode: [sigtype, offset, levels, interp, per], where a level is a gain
\* in steps of the quantizer before it is limited.
Limit(x, low, high) == IF x < low THEN low ELSE IF x > high THEN high ELSE x
Larger(x, y) == IF x > y THEN x ELSE y

\* In the code 64 levels, differences of -4 to 40, and no level above 66: a gain has 32
\* bits, so that its logarithm ends at 3967 (SKP_Silk_gain_quant.c).
Levels == {level \in Int : level + MIN_DELTA_GAIN_QUANT < N_LEVELS_QGAIN}

ASSUME StreamAssumption ==
  /\ NB_SUBFR \in Nat \ {0} /\ N_LEVELS_QGAIN \in Nat \ {0} /\ MAX_DELTA_GAIN_QUANT \in Nat
  /\ MIN_DELTA_GAIN_QUANT \in Int /\ MIN_DELTA_GAIN_QUANT <= 0 /\ 1 \in Levels
  /\ Frames \subseteq [sigtype : {0, 1}, offset : {0, 1}, levels : [1 .. NB_SUBFR -> Levels],
                       interp : Interps, per : PerIndices]
  /\ PacketSizes \subseteq 1 .. MaxFrames
  /\ SamplingRates \in Seq(Nat) /\ FirstRate \in 0 .. Len(SamplingRates) - 1

-----------------------------------------------------------------------------
(* The tables, by the names the code gives them.                           *)

Sym(table, data) == [table |-> table, data |-> data]
Noise == <<Sym(<<"noise">>, 0)>>     \* no symbol of any table
Codebook(rate) == IF rate = 8 THEN 10 ELSE 16      \* psNLSF_CB: those of order 10 or 16

RateTable == <<"SamplingRates">>
TypeTable(n, prev) == IF n = 0 THEN <<"type_offset">> ELSE <<"type_offset_joint", prev>>
GainTable(n, k, sigtype) == IF n = 0 /\ k = 1 THEN <<"gain", sigtype>> ELSE <<"delta_gain">>
NLSFTable(codebook, sigtype) == <<"NLSF", codebook, sigtype>>
LagTable(rate) == <<"pitch_lag", rate>>
ContourTable(rate) == <<"pitch_contour", rate = 8>>
LTPTable(per) == <<"LTP_gain", per>>
PulseTable(sigtype, offset, rate) == <<"pulses", sigtype, offset, rate>>
TerminationTable == <<"FrameTermination">>

\* The symbols of a table that a model's run tells apart.
Alphabet(table) ==
  CASE table[1] = "SamplingRates" -> 0 .. Len(SamplingRates) - 1
    [] table[1] \in {"type_offset", "type_offset_joint"} -> 0 .. 3
    [] table[1] = "gain" -> 0 .. N_LEVELS_QGAIN - 1
    [] table[1] = "delta_gain" -> 0 .. MAX_DELTA_GAIN_QUANT - MIN_DELTA_GAIN_QUANT
    [] table[1] = "NLSF_interpolation_factor" -> Interps
    [] table[1] = "LTP_per_index" -> PerIndices
    [] table[1] = "FrameTermination" -> 0 .. 3
    [] OTHER -> {0}

-----------------------------------------------------------------------------
(* The peer.                                                               *)

\* The index of the gain of a subframe, and the gain it stands for.
Quantized(levels, last, conditional, k) ==
  LET level == IF levels[k] < last THEN levels[k] + 1 ELSE levels[k]
      full == Larger(Limit(level, 0, N_LEVELS_QGAIN - 1), last + MIN_DELTA_GAIN_QUANT)
      delta == Limit(level - last, MIN_DELTA_GAIN_QUANT, MAX_DELTA_GAIN_QUANT)
  IN IF k = 1 /\ ~conditional THEN [prev |-> full, ind |-> full]
     ELSE [prev |-> last + delta, ind |-> delta - MIN_DELTA_GAIN_QUANT]

\* The indices of a frame's gains, and the gains the encoder itself goes on with.
gains_quant(levels, prev_ind, conditional) ==
  LET from[k \in 0 .. NB_SUBFR] ==
        IF k = 0 THEN [last |-> prev_ind, ind |-> <<>>, levels |-> <<>>]
        ELSE LET q == Quantized(levels, from[k - 1].last, conditional, k)
             IN [last |-> q.prev, ind |-> Append(from[k - 1].ind, q.ind),
                 levels |-> Append(from[k - 1].levels, q.prev)]
  IN from[NB_SUBFR]

VoicedSymbols(rate, per) ==
  <<Sym(LagTable(rate), 0), Sym(ContourTable(rate), 0), Sym(<<"LTP_per_index">>, per)>>
  \o [k \in 1 .. NB_SUBFR |-> Sym(LTPTable(per), 0)]
  \o <<Sym(<<"LTPscale">>, 0)>>

encode_parameters(e, f, ind) ==
  LET rate == SamplingRates[e.rate + 1]
      n == e.nFramesInPayloadBuf
  IN (IF n = 0 THEN <<Sym(RateTable, e.rate)>> ELSE <<>>)
     \o <<Sym(TypeTable(n, e.typeOffsetPrev), 2 * f.sigtype + f.offset)>>
     \o [k \in 1 .. NB_SUBFR |-> Sym(GainTable(n, k, f.sigtype), ind[k])]
     \o <<Sym(NLSFTable(Codebook(rate), f.sigtype), 0),
          Sym(<<"NLSF_interpolation_factor">>, f.interp)>>
     \o (IF f.sigtype = VOICED THEN VoicedSymbols(rate, f.per) ELSE <<>>)
     \o <<Sym(<<"Seed">>, 0), Sym(PulseTable(f.sigtype, f.offset, rate), 0),
          Sym(<<"vadflag">>, 0)>>

\* A frame as the decoder should find it.
Sent(e, f, quantized) ==
  [rate |-> e.rate, sigtype |-> f.sigtype, offset |-> f.offset, interp |-> f.interp,
   per |-> IF f.sigtype = VOICED THEN f.per ELSE 0, levels |-> quantized.levels]

\* What encode_frame_FIX() leaves of the state, whether the range coder failed or not.
Encoded(f, quantized) ==
  [enc EXCEPT !.LastGainIndex = quantized.last, !.typeOffsetPrev = 2 * f.sigtype + f.offset]

\* The peer and the decoder share no state but the packet: their steps commute, and
\* the peer's come between two calls.
PeerTurn == wire = Nothing /\ dec.call # "decoding"

Cleared(e) == [e EXCEPT !.nFramesInPayloadBuf = 0, !.symbols = <<>>, !.frames = <<>>]

EncodeFrame(f, terminator) ==
  LET quantized == gains_quant(f.levels, enc.LastGainIndex, enc.nFramesInPayloadBuf > 0)
      full == enc.nFramesInPayloadBuf + 1 = size
      symbols == enc.symbols \o encode_parameters(enc, f, quantized.ind)
                 \o <<Sym(TerminationTable, IF full THEN terminator ELSE MORE_FRAMES)>>
      frames == Append(enc.frames, Sent(enc, f, quantized))
  IN /\ PeerTurn
     /\ IF full
        THEN /\ wire' = [symbols |-> symbols, frames |-> frames]
             /\ enc' = Cleared(Encoded(f, quantized))
        ELSE /\ enc' = [Encoded(f, quantized) EXCEPT
                          !.nFramesInPayloadBuf = @ + 1, !.symbols = symbols, !.frames = frames]
             /\ UNCHANGED wire
     /\ UNCHANGED <<size, dec>>

\* The range coder's buffer is full: the payload is dropped, the gains go on.
EncodeFails(f) ==
  LET quantized == gains_quant(f.levels, enc.LastGainIndex, enc.nFramesInPayloadBuf > 0) IN
  /\ PeerTurn
  /\ enc' = Cleared(Encoded(f, quantized))
  /\ UNCHANGED <<size, wire, dec>>

\* control_codec_FIX() changes the rate between two packets only.
ChangeRate(rate) ==
  /\ PeerTurn
  /\ enc.nFramesInPayloadBuf = 0
  /\ rate # enc.rate
  /\ enc' = [enc EXCEPT !.rate = rate, !.LastGainIndex = 1]
  /\ UNCHANGED <<size, wire, dec>>

-----------------------------------------------------------------------------
(* The decoder.                                                            *)

decoder_set_fs(d, rate) ==
  IF d.rate = rate THEN d
  ELSE [d EXCEPT !.rate = rate, !.codebook = Codebook(SamplingRates[rate + 1]),
                 !.LastGainIndex = 1, !.first_frame_after_reset = TRUE]

\* What decode_parameters() reads, in its order.  The signal type is known by the
\* time the fields depend on it.
Fields(d) ==
  (IF d.nFramesDecoded = 0 THEN <<"rate">> ELSE <<>>)
  \o <<"type">> \o [k \in 1 .. NB_SUBFR |-> "gain"] \o <<"NLSF", "interp">>
  \o (IF d.frame.sigtype = VOICED
      THEN <<"lag", "contour", "per">> \o [k \in 1 .. NB_SUBFR |-> "LTP"] \o <<"scale">>
      ELSE <<>>)
  \o <<"seed", "pulses", "VAD", "termination">>

Field(d) == Fields(d)[d.done + 1]

TableOf(d) ==
  LET rate == SamplingRates[d.rate + 1]
      n == d.nFramesDecoded
      frame == d.frame
  IN CASE Field(d) = "rate" -> RateTable
       [] Field(d) = "type" -> TypeTable(n, d.typeOffsetPrev)
       [] Field(d) = "gain" -> GainTable(n, Len(frame.levels) + 1, frame.sigtype)
       [] Field(d) = "NLSF" -> NLSFTable(d.codebook, frame.sigtype)
       [] Field(d) = "interp" -> <<"NLSF_interpolation_factor">>
       [] Field(d) = "lag" -> LagTable(rate)
       [] Field(d) = "contour" -> ContourTable(rate)
       [] Field(d) = "per" -> <<"LTP_per_index">>
       [] Field(d) = "LTP" -> LTPTable(frame.per)
       [] Field(d) = "scale" -> <<"LTPscale">>
       [] Field(d) = "seed" -> <<"Seed">>
       [] Field(d) = "pulses" -> PulseTable(frame.sigtype, frame.offset, rate)
       [] Field(d) = "VAD" -> <<"vadflag">>
       [] Field(d) = "termination" -> TerminationTable

\* MUTANT: the first gain of every frame is taken as a level.
FirstIsALevel(d, index) ==
  IF d.frame.levels = <<>> THEN index ELSE d.LastGainIndex + index + MIN_DELTA_GAIN_QUANT

\* gains_dequant() for the next subframe.
GainDequantized(d, index) ==
  IF d.nFramesDecoded = 0 /\ d.frame.levels = <<>> THEN index
  ELSE d.LastGainIndex + index + MIN_DELTA_GAIN_QUANT

\* What decode_parameters() makes of the index it has read.
Taken(d, data) ==
  LET next == [d EXCEPT !.done = @ + 1] IN
  CASE Field(d) = "rate" -> [decoder_set_fs(next, data) EXCEPT !.frame.rate = data]
    [] Field(d) = "type" ->
         [next EXCEPT !.frame.sigtype = data \div 2, !.frame.offset = data % 2,
                      !.typeOffsetPrev = data]
    [] Field(d) = "gain" ->
         LET level == GainDequantized(d, data) IN
         [next EXCEPT !.LastGainIndex = level, !.frame.levels = Append(@, level)]
    [] Field(d) = "interp" ->
         [next EXCEPT !.frame.interp = IF d.first_frame_after_reset THEN 4 ELSE data]
    [] Field(d) = "per" -> [next EXCEPT !.frame.per = data]
    [] OTHER -> next

\* The next symbol, if it was written by the table it is read by.
InStep(d) ==
  /\ d.stream # <<>>
  /\ Head(d.stream).table = TableOf(d)

\* The decoder after the next symbol.
Readings(d) ==
  IF d.error THEN {Taken(d, 0)}
  ELSE IF InStep(d) THEN {Taken([d EXCEPT !.stream = Tail(@)], Head(d.stream).data)}
  ELSE LET lost == [d EXCEPT !.stream = Noise] IN
       {Taken(lost, data) : data \in Alphabet(TableOf(d))}
       \cup {Taken([lost EXCEPT !.error = TRUE], 0)}

NoFrame == [rate |-> 0, sigtype |-> 1, offset |-> 0, levels |-> <<>>, interp |-> 4, per |-> 0]

\* silk8_jni.cpp hands a packet over.  A decoder that has more frames of an earlier
\* one decodes the next of them, and the packet is not looked at.
Receive(symbols, frames) ==
  /\ wire # Nothing
  /\ dec.call # "decoding"
  /\ wire' = Nothing
  /\ dec' = IF dec.moreInternalDecoderFrames
            THEN [dec EXCEPT !.call = "decoding", !.done = 0, !.behind = @ + 1,
                             !.frame = [NoFrame EXCEPT !.rate = dec.rate],
                             !.oldRate = dec.rate]
            ELSE [dec EXCEPT !.call = "decoding", !.done = 0, !.behind = 0,
                             !.frame = NoFrame, !.oldRate = dec.rate,
                             !.nFramesDecoded = 0, !.error = FALSE, !.stream = symbols,
                             !.sent = IF dec.codebook = Codebook(SamplingRates[dec.rate + 1])
                                      THEN frames ELSE <<>>]
  /\ UNCHANGED <<size, enc>>

ReceiveIntact == Receive(wire.symbols, wire.frames)
ReceiveNoise == Receive(Noise, <<>>)

\* A lost packet is no call: the receiver conceals nothing.
Lose ==
  /\ wire # Nothing
  /\ wire' = Nothing
  /\ UNCHANGED <<size, enc, dec>>

ReadSymbol ==
  /\ dec.call = "decoding"
  /\ Field(dec) # "termination"
  /\ dec' \in Readings(dec)
  /\ UNCHANGED <<size, enc, wire>>

\* MUTANT: a packet may hold any number of frames.
AnyNumberOfFrames(d, termination, left) == left /\ termination = MORE_FRAMES

MoreFollow(d, termination, left) ==
  /\ left
  /\ termination = MORE_FRAMES
  /\ d.nFramesDecoded < MaxFrames

\* The frame is concealed.  The rate goes back to what it was, the codebooks do not.
Concealed(d) ==
  [d EXCEPT !.call = "concealed", !.error = TRUE, !.rate = d.oldRate,
            !.frame = NoFrame, !.done = 0, !.stream = Noise, !.sent = <<>>,
            !.moreInternalDecoderFrames = FALSE]

Decoded(d, termination, left) ==
  LET counted == [d EXCEPT !.call = "decoded", !.nFramesDecoded = @ + 1, !.done = 0,
                           !.first_frame_after_reset = FALSE]
      more == MoreFollow(counted, termination, left)
  IN [counted EXCEPT !.moreInternalDecoderFrames = more,
                     !.frame = IF d.stream = Noise /\ d.sent = <<>> THEN NoFrame ELSE @]

\* The termination is read, and what is left of the payload counted and checked: the
\* bytes of an intact packet last as long as its frames do.
EndFrame ==
  /\ dec.call = "decoding"
  /\ Field(dec) = "termination"
  /\ IF dec.error THEN dec' = Concealed(dec)
     ELSE IF InStep(dec)
     THEN dec' = Decoded([dec EXCEPT !.stream = Tail(@)], Head(dec.stream).data,
                         Len(dec.stream) > 1)
     ELSE \/ dec' = Concealed(dec)
          \/ \E termination \in Alphabet(TerminationTable), left \in BOOLEAN :
               dec' = Decoded([dec EXCEPT !.stream = Noise], termination, left)
  /\ UNCHANGED <<size, enc, wire>>

-----------------------------------------------------------------------------

StreamInit ==
  /\ size \in PacketSizes
  /\ enc = [rate |-> FirstRate, LastGainIndex |-> 1, typeOffsetPrev |-> 0,
            nFramesInPayloadBuf |-> 0, symbols |-> <<>>, frames |-> <<>>]
  /\ wire = Nothing
  /\ dec = [rate |-> Len(SamplingRates) - 1, codebook |-> 16, LastGainIndex |-> 1,
            first_frame_after_reset |-> TRUE, typeOffsetPrev |-> 0, nFramesDecoded |-> 0,
            moreInternalDecoderFrames |-> FALSE, error |-> FALSE, oldRate |-> 0,
            call |-> "none", stream |-> <<>>, sent |-> <<>>, done |-> 0,
            frame |-> NoFrame, behind |-> 0]

StreamNext ==
  \/ \E f \in Frames : (\E t \in {LAST_FRAME, LBRR_VER1} : EncodeFrame(f, t)) \/ EncodeFails(f)
  \/ \E rate \in 0 .. Len(SamplingRates) - 1 : ChangeRate(rate)
  \/ ReceiveIntact
  \/ ReceiveNoise
  \/ Lose
  \/ ReadSymbol
  \/ EndFrame

StreamSpec == StreamInit /\ [][StreamNext]_streamVars

-----------------------------------------------------------------------------
(* A packet that arrives as it was sent is decoded to the frames that were *)
(* sent, each in its turn, with the signal type, the gains the encoder     *)
(* went on with and the interpolation (none in the first frame after a     *)
(* reset), whatever was lost, damaged or left undecoded before: the tables *)
(* both sides choose from their states agree symbol for symbol.  A decoder *)
(* whose codebooks are not those of its rate is left out: a damaged packet *)
(* that names another rate and then fails leaves them so.  Every index     *)
(* has an entry in its table: a gain may end above the highest level, and  *)
(* the full index of the next packet is still one.                         *)
IntactIsDecoded ==
  /\ \A i \in DOMAIN wire.symbols : wire.symbols[i].data \in Alphabet(wire.symbols[i].table)
  /\ dec.sent # <<>> /\ dec.call # "decoding" =>
       /\ dec.call = "decoded"
       /\ LET frame == dec.sent[dec.nFramesDecoded] IN
            dec.frame \in {frame, [frame EXCEPT !.interp = 4]}

(* However packets are damaged, and whatever number of frames they claim   *)
(* to hold, what a call decodes is at most four calls old.                 *)
BehindIsBounded == dec.behind < MaxFrames
=============================================================================
