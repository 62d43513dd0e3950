----------------------------- MODULE NativeCodec -----------------------------
(***************************************************************************)
(* The JNI glue of the native codecs: silk8_jni.cpp, silk16_jni.cpp,       *)
(* silk24_jni.cpp, speex_jni.cpp, gsm_jni.cpp, bv16_jni.cpp and            *)
(* g722_jni.cpp.                                                           *)
(*                                                                         *)
(* Each library keeps one encoder and one decoder in globals and counts    *)
(* in `codec_open' who has opened them.  The Java methods are native and   *)
(* not synchronized, so `codec_open++' and `--codec_open' are a load and   *)
(* a store of whatever thread makes the call, and encode() and decode()    *)
(* test the counter before they use the globals, not while they do.        *)
(***************************************************************************)
EXTENDS Integers

CONSTANTS
  Threads,    \* who calls the libraries
  Codecs,     \* the libraries
  StaticCodecs \* those whose globals are structures, not pointers to a heap

ASSUME CodecAssumption == StaticCodecs \subseteq Codecs /\ Codecs # {}

VARIABLES
  codec_open, \* the counter of each library
  memory,     \* what the encoder's and decoder's globals hold
  jni         \* per thread: where it is inside a native method

\* `raw': allocated and not yet initialised, the contents of a fresh block.
MemoryStates == {"none", "raw", "made", "freed"}

Places == {"out", "counting", "making", "initialising", "using",
           "uncounting", "freeing"}

Out == [at |-> "out", lib |-> CHOOSE c \in Codecs : TRUE, reg |-> 0]

CodecTypeOK ==
  /\ codec_open \in [Codecs -> Int]
  /\ memory \in [Codecs -> MemoryStates]
  /\ jni \in [Threads -> [at : Places, lib : Codecs, reg : Int]]

CodecInit ==
  /\ codec_open = [c \in Codecs |-> 0]
  /\ memory = [c \in Codecs |-> IF c \in StaticCodecs THEN "raw" ELSE "none"]
  /\ jni = [t \in Threads |-> Out]

Outside(t) == jni[t].at = "out"

\* The register is of no use after the counter has been stored.
Goes(t, place) ==
  jni' = [jni EXCEPT ![t] = IF place = "out" THEN Out
                            ELSE [@ EXCEPT !.at = place, !.reg = 0]]

-----------------------------------------------------------------------------
(* open(): `if (codec_open++ != 0) return', then the two states are made.  *)

Open(t, c) ==
  /\ Outside(t)
  /\ jni' = [jni EXCEPT ![t] = [at |-> "counting", lib |-> c, reg |-> codec_open[c]]]
  /\ UNCHANGED <<codec_open, memory>>

\* MUTANT: the counter is tested after it has been increased.
OpenCountedLate(t) ==
  /\ jni[t].at = "counting"
  /\ codec_open' = [codec_open EXCEPT ![jni[t].lib] = jni[t].reg + 1]
  /\ Goes(t, IF jni[t].reg + 1 # 0 THEN "out" ELSE "making")
  /\ UNCHANGED memory

OpenCounted(t) ==
  /\ jni[t].at = "counting"
  /\ codec_open' = [codec_open EXCEPT ![jni[t].lib] = jni[t].reg + 1]
  /\ Goes(t, IF jni[t].reg # 0 THEN "out" ELSE "making")
  /\ UNCHANGED memory

\* The pointers are replaced by those of fresh blocks.  Of a library without
\* pointers the structures are overwritten where they are.
Allocate(t) ==
  /\ jni[t].at = "making"
  /\ memory' = [memory EXCEPT ![jni[t].lib] = "raw"]
  /\ Goes(t, "initialising")
  /\ UNCHANGED codec_open

Initialise(t) ==
  /\ jni[t].at = "initialising"
  /\ memory' = [memory EXCEPT ![jni[t].lib] = "made"]
  /\ Goes(t, "out")
  /\ UNCHANGED codec_open

-----------------------------------------------------------------------------
(* encode() and decode(): `if (!codec_open) return 0', then the globals    *)
(* are used.                                                               *)

Use(t, c) ==
  /\ Outside(t)
  /\ codec_open[c] # 0
  /\ jni' = [jni EXCEPT ![t] = [at |-> "using", lib |-> c, reg |-> 0]]
  /\ UNCHANGED <<codec_open, memory>>

UseRefused(t, c) ==
  /\ Outside(t)
  /\ codec_open[c] = 0
  /\ UNCHANGED <<codec_open, memory, jni>>

Used(t) ==
  /\ jni[t].at = "using"
  /\ Goes(t, "out")
  /\ UNCHANGED <<codec_open, memory>>

-----------------------------------------------------------------------------
(* close(): `if (--codec_open != 0) return', then the states are freed.    *)

Close(t, c) ==
  /\ Outside(t)
  /\ jni' = [jni EXCEPT ![t] = [at |-> "uncounting", lib |-> c, reg |-> codec_open[c]]]
  /\ UNCHANGED <<codec_open, memory>>

CloseCounted(t) ==
  /\ jni[t].at = "uncounting"
  /\ codec_open' = [codec_open EXCEPT ![jni[t].lib] = jni[t].reg - 1]
  /\ Goes(t, IF jni[t].reg - 1 # 0 THEN "out" ELSE "freeing")
  /\ UNCHANGED memory

Free(t) ==
  /\ jni[t].at = "freeing"
  /\ memory' = [memory EXCEPT ![jni[t].lib] =
                  IF jni[t].lib \in StaticCodecs THEN @ ELSE "freed"]
  /\ Goes(t, "out")
  /\ UNCHANGED codec_open

\* What a thread inside a native method may do next.
CodecStep(t) ==
  \/ OpenCounted(t)
  \/ Allocate(t)
  \/ Initialise(t)
  \/ Used(t)
  \/ CloseCounted(t)
  \/ Free(t)

Using(t, c) == jni[t].at = "using" /\ jni[t].lib = c
=============================================================================
