SPECIFICATION Spec
CONSTANTS
  B = 2
  MaxBytes = 5
  Tables <- MCTables
  MaxSymbols = 5
  Junk = {0, 3}
  Depth = 2
  max_pulses_table <- MCMaxPulses
  N_RATE_LEVELS = 3
  SamplingRates <- MCRates
  NB_SUBFR = 2
  N_LEVELS_QGAIN = 3
  MIN_DELTA_GAIN_QUANT <- MCMinDelta
  MAX_DELTA_GAIN_QUANT = 1
  Interps = {0, 4}
  PerIndices = {0, 1}
  Frames <- MCFrames
  PacketSizes = {1, 2}
  FirstRate = 1
  W = 5
  Half = 16
INVARIANTS
  DecodesWhatWasSent
  IntactIsDecoded
  BehindIsBounded
  PulsesReturn
  ArithmeticIsExact
\* A packet or a case comes to its end.
CHECK_DEADLOCK FALSE
