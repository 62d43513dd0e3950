-------------------------- MODULE MediaSessionProofs --------------------------
(***************************************************************************)
(* Proofs about MediaSession and the sockets and codecs it uses, for any   *)
(* number of calls, threads, codecs and socket numbers, and every scenario *)
(* the assumption admits.                                                  *)
(*                                                                         *)
(* PlacesInv says where a thread and its native method can be together;    *)
(* SilenceInv how far the shared count of silent receives can get; OneUser *)
(* and TwoUsers what the counter of a codec is worth in the first call;    *)
(* SocketInv whose a socket's number is.                                   *)
(***************************************************************************)
EXTENDS MediaSession, FiniteSetTheorems, TLAPS

-----------------------------------------------------------------------------
(* The threads.                                                            *)

\* The threads: the user agent's, and those of the calls.
LEMMA ThreadFacts ==
  /\ Threads = MediaThreads \cup {Ui} /\ SocketUsers = MediaThreads /\ Sockets = Calls
  /\ Ui \notin MediaThreads
  /\ Senders \cap Receivers = {} /\ MediaThreads = Senders \cup Receivers
  /\ \A t \in MediaThreads : CallOf(t) \in Calls
  /\ \A t \in Senders : t = Sender(CallOf(t)) /\ CallOf(t) \in Duplex
  /\ \A t \in Receivers : t = Receiver(CallOf(t))
  /\ \A k \in Calls : Receiver(k) \in Receivers /\ CallOf(Receiver(k)) = k
  /\ \A k \in Duplex : Sender(k) \in Senders /\ CallOf(Sender(k)) = k /\ k \in Calls
BY CompositionAssumption, MediaAssumption
   DEF AllThreads, MediaThreads, Senders, Receivers, Sender, Receiver, Ui, CallOf

\* The calls are numbered from 1.
LEMMA CallFacts ==
  /\ Calls \subseteq Nat
  /\ \A k, l \in Calls : k < l => k + 1 \in Calls
  /\ Calls # {} => Min(Calls) = 1 /\ 1 \in Calls /\ \A k \in Calls : 1 <= k
<1>1. Cardinality(Calls) \in Nat /\ Calls = 1 .. Cardinality(Calls)
  BY MediaAssumption, FS_CardinalityType
<1>2. Calls # {} => Min(Calls) = 1 /\ 1 \in Calls /\ \A k \in Calls : 1 <= k
  BY <1>1 DEF Min
<1> QED BY <1>1, <1>2

\* There is one receiver per call.
LEMMA ReceiversAreFinite == IsFiniteSet(Receivers)
<1> DEFINE f == [k \in Calls |-> Receiver(k)]
<1>1. f \in Surjection(Calls, Receivers)
  BY ThreadFacts DEF Surjection, Receivers
<1> QED BY <1>1, FS_Surjection, MediaAssumption DEF ExistsSurjection

-----------------------------------------------------------------------------
(* The types of the codecs.                                                *)

\* What a step may do to the codecs.
CodecNext ==
  \/ UNCHANGED codecVars
  \/ \E t \in Threads : CodecStep(t) \/ \E c \in Codecs : Open(t, c) \/ Use(t, c) \/ Close(t, c)

\* There is a codec to offer.
LEMMA OfferedIsCodec == Offered \in Codecs /\ Out.lib \in Codecs
BY CodecAssumption DEF Offered, Out

\* Native methods keep to the types of the codecs.
LEMMA CodecsTyped ==
  ASSUME CodecTypeOK, CodecNext
  PROVE  CodecTypeOK'
<1> USE DEF CodecTypeOK
<1>o. Out \in [at : Places, lib : Codecs, reg : Int]
  BY OfferedIsCodec DEF Out, Places
<1>1. CASE UNCHANGED codecVars
  BY <1>1 DEF codecVars
<1>2. ASSUME NEW t \in Threads, NEW c \in Codecs, Open(t, c) \/ Use(t, c) \/ Close(t, c)
      PROVE  CodecTypeOK'
  BY <1>2 DEF Open, Use, Close, Places
<1>3. ASSUME NEW t \in Threads, CodecStep(t)
      PROVE  CodecTypeOK'
  <2>1. \A p \in Places : Goes(t, p)
          => jni' \in [Threads -> [at : Places, lib : Codecs, reg : Int]]
    <3> SUFFICES ASSUME NEW p \in Places, Goes(t, p)
                 PROVE  jni' \in [Threads -> [at : Places, lib : Codecs, reg : Int]]
      OBVIOUS
    <3>0. jni[t] \in [at : Places, lib : Codecs, reg : Int]
      OBVIOUS
    <3>1. [jni[t] EXCEPT !.at = p, !.reg = 0] \in [at : Places, lib : Codecs, reg : Int]
      <4> DEFINE j == jni[t]
      <4> HIDE DEF j
      <4>1. [j EXCEPT !.at = p] \in [at : Places, lib : Codecs, reg : Int]
        BY <3>0 DEF j
      <4>2. \A k \in [at : Places, lib : Codecs, reg : Int] :
              [k EXCEPT !.reg = 0] \in [at : Places, lib : Codecs, reg : Int]
        OBVIOUS
      <4> QED BY <4>1, <4>2 DEF j
    <3>2. PICK j \in [at : Places, lib : Codecs, reg : Int] : jni' = [jni EXCEPT ![t] = j]
      BY <1>o, <3>1 DEF Goes
    <3> QED BY <3>2
  <2>2. CASE OpenCounted(t)
    BY <2>1, <2>2 DEF OpenCounted, Places
  <2>3. CASE CloseCounted(t)
    BY <2>1, <2>3 DEF CloseCounted, Places
  <2>4. CASE Allocate(t) \/ Initialise(t) \/ Used(t) \/ Free(t)
    BY <2>1, <2>4 DEF Allocate, Initialise, Used, Free, Places, MemoryStates
  <2> QED BY <1>3, <2>2, <2>3, <2>4 DEF CodecStep
<1> QED BY <1>1, <1>2, <1>3 DEF CodecNext

-----------------------------------------------------------------------------
(* The types of the threads.                                               *)

Silences == 0 .. MaxSilence + Cardinality(Receivers)

FlowTypeOK ==
  /\ ui \in UiPlaces
  /\ call \in Calls
  /\ where \in [MediaThreads -> MediaPlaces]
  /\ running \in [MediaThreads -> BOOLEAN]
  /\ halted \in [MediaThreads -> {"no", "late", "early"}]
  /\ p_type \in [Calls -> Codecs]
  /\ lock \in [Calls -> Threads \cup {NoThread}]
  /\ toggles \in 0 .. MaxToggles
  /\ scenario \in Scenarios

SilenceTypeOK ==
  /\ timeout \in Silences
  /\ read \in [Receivers -> Silences]

\* What the type invariant consists of.
LEMMA TypeOKParts ==
  CodecTypeOK /\ SocketTypeOK /\ FlowTypeOK /\ SilenceTypeOK => TypeOK
BY DEF TypeOK, FlowTypeOK, SilenceTypeOK, Silences

\* What the assumption says of a scenario.
LEMMA ScenarioFacts ==
  ASSUME scenario \in Scenarios
  PROVE  /\ scenario.last \in Calls /\ scenario.toggles \in 0 .. MaxToggles
         /\ scenario.duplex \subseteq Duplex /\ scenario.answered \subseteq Calls
BY MediaAssumption

\* The fields of the threads and of the calls keep to their types.
LEMMA FlowTyped ==
  ASSUME FlowTypeOK, call <= scenario.last, Next
  PROVE  FlowTypeOK'
<1> USE DEF FlowTypeOK, uiVars, flagVars, threadVars, Moves, UiMoves
<1>s. /\ scenario.last \in Calls /\ scenario.toggles \in 0 .. MaxToggles
      /\ scenario.duplex \subseteq Duplex /\ Calls \subseteq Nat
  BY ScenarioFacts, CallFacts
<1>m. MaxToggles \in Nat
  BY MediaAssumption
<1>1. CASE UiStep
  <2>1. CASE Answer \/ Launch \/ Finalize
    BY <2>1 DEF Answer, Launch, Finalize, UiPlaces
  <2>2. CASE StartSender
    BY <2>2 DEF StartSender, UiPlaces, MediaPlaces
  <2>3. CASE StartReceiver
    BY <2>3 DEF StartReceiver, UiPlaces, MediaPlaces
  <2>4. CASE Toggle
    BY <2>4, <1>s, <1>m, ThreadFacts DEF Toggle, UiPlaces
  <2>5. CASE Toggled
    BY <2>5 DEF Toggled, UiPlaces
  <2>6. CASE HaltSender
    BY <2>6 DEF HaltSender, Halt, UiPlaces
  <2>7. CASE HaltReceiver
    BY <2>7 DEF HaltReceiver, Halt, UiPlaces
  <2>8. CASE CloseSocket
    BY <2>8 DEF CloseSocket, UiPlaces
  <2>9. CASE SocketClosed
    <3>1. call # scenario.last => call + 1 \in Calls
      <4>1. call \in Nat /\ scenario.last \in Nat
        BY <1>s
      <4> QED BY <4>1, <1>s, CallFacts
    <3>2. call' \in Calls /\ ui' \in UiPlaces
      BY <2>9, <3>1 DEF SocketClosed, UiPlaces
    <3> QED BY <2>9, <3>2 DEF SocketClosed
  <2> QED BY <1>1, <2>1, <2>2, <2>3, <2>4, <2>5, <2>6, <2>7, <2>8, <2>9 DEF UiStep
<1>2. CASE InCodec(Ui) \/ Network
  BY <1>2 DEF InCodec, Network
<1>3. ASSUME NEW t \in MediaThreads, MediaStep(t) PROVE FlowTypeOK'
  <2> USE DEF MediaPlaces
  <2>1. CASE SenderStarts(t) \/ SenderSetUp(t) \/ Encode(t) \/ SendPacket(t) \/ PacketSent(t)
    BY <2>1 DEF SenderStarts, SenderSetUp, Encode, SendPacket, PacketSent
  <2>2. CASE ReceiverStarts(t) \/ EmptyMore(t) \/ Emptied(t) \/ Drained(t) \/ ReceivePacket(t)
    BY <2>2 DEF ReceiverStarts, EmptyMore, Emptied, Drained, ReceivePacket
  <2>3. CASE SetCodec(t) \/ CodecSet(t)
    BY <2>3, ThreadFacts DEF SetCodec, CodecSet
  <2>4. CASE PacketReceived(t) \/ NothingReceived(t) \/ SilenceEnds(t)
    BY <2>4 DEF PacketReceived, NothingReceived, SilenceEnds
  <2>5. CASE SilenceCounted(t) \/ Skip(t) \/ SameType(t) \/ OtherType(t)
    BY <2>5 DEF SilenceCounted, Skip, SameType, OtherType
  <2>6. CASE Change(t)
    BY <2>6 DEF Change
  <2>7. CASE Decode(t) \/ Decoded(t) \/ CloseCodec(t) \/ Ended(t)
    BY <2>7 DEF Decode, Decoded, CloseCodec, Ended
  <2>8. CASE InCodec(t) \/ InSocket(t)
    BY <2>8 DEF InCodec, InSocket
  <2>9. CASE MicrophoneDenied(t) \/ KeepPacket(t) \/ RepeatPacket(t) \/ SendAgain(t)
             \/ WaitForMode(t)
    BY <2>9 DEF MicrophoneDenied, KeepPacket, RepeatPacket, SendAgain, WaitForMode
  <2> QED BY <1>3, <2>1, <2>2, <2>3, <2>4, <2>5, <2>6, <2>7, <2>8, <2>9 DEF MediaStep
<1> QED BY <1>1, <1>2, <1>3 DEF Next

-----------------------------------------------------------------------------
(* What a step does to the codecs and to the sockets.                      *)

\* The threads call native methods, or go on inside them.
LEMMA UsesCodecs ==
  ASSUME FlowTypeOK, Next
  PROVE  CodecNext
<1> USE DEF CodecNext
<1>p. p_type[call] \in Codecs /\ \A t \in MediaThreads : p_type[CallOf(t)] \in Codecs
  BY ThreadFacts DEF FlowTypeOK
<1>1. CASE UiStep
  BY <1>1, <1>p, ThreadFacts
     DEF UiStep, Answer, Launch, Finalize, StartSender, StartReceiver, Toggle, Toggled,
         HaltSender, HaltReceiver, CloseSocket, SocketClosed
<1>2. CASE InCodec(Ui) \/ Network
  BY <1>2, ThreadFacts DEF InCodec, Network
<1>3. ASSUME NEW t \in MediaThreads, MediaStep(t) PROVE CodecNext
  <2> HIDE DEF CodecNext
  <2>1. \A c \in Codecs : Open(t, c) \/ Use(t, c) \/ Close(t, c) \/ CodecStep(t) => CodecNext
    BY ThreadFacts DEF CodecNext
  <2>2. UNCHANGED codecVars => CodecNext
    BY DEF CodecNext
  <2>3. \A c : UseRefused(t, c) => UNCHANGED codecVars
    BY DEF UseRefused, codecVars
  <2>4. CASE SenderStarts(t) \/ Encode(t) \/ SetCodec(t) \/ OtherType(t) \/ Decode(t)
             \/ CloseCodec(t) \/ InCodec(t)
    BY <1>p, <2>1, <2>2, <2>3, <2>4
       DEF SenderStarts, Encode, SetCodec, OtherType, Decode, CloseCodec, InCodec
  <2>5. CASE UNCHANGED codecVars
    BY <2>2, <2>5
  <2> QED
    BY <1>3, <2>4, <2>5
       DEF MediaStep, SenderSetUp, MicrophoneDenied, SendPacket, KeepPacket, PacketSent,
           RepeatPacket, SendAgain, WaitForMode, ReceiverStarts, CodecSet, EmptyMore, Emptied,
           Drained, ReceivePacket, PacketReceived, NothingReceived, SilenceEnds,
           SilenceCounted, Skip, SameType, Change, Decoded, Ended, InSocket
<1> QED BY <1>1, <1>2, <1>3 DEF Next

\* The threads use the sockets in the ways DatagramSocket provides.
LEMMA UsesSockets ==
  ASSUME FlowTypeOK, Next
  PROVE  [SocketNext]_socketVars
<1>1. CASE UiStep
  <2>1. CASE Launch \/ Finalize \/ CloseSocket \/ SocketClosed
    BY <2>1, ThreadFacts DEF FlowTypeOK, Launch, Finalize, CloseSocket, SocketClosed, SocketNext
  <2>2. CASE UNCHANGED socketVars
    BY <2>2
  <2> QED
    BY <1>1, <2>1, <2>2
       DEF UiStep, Answer, StartSender, StartReceiver, Toggle, Toggled, HaltSender, HaltReceiver
<1>2. CASE InCodec(Ui) \/ Network
  BY <1>2 DEF InCodec, Network, SocketNext
<1>3. ASSUME NEW t \in MediaThreads, MediaStep(t) PROVE [SocketNext]_socketVars
  <2>1. t \in SocketUsers /\ CallOf(t) \in Sockets
    BY ThreadFacts
  <2>2. CASE SendPacket(t) \/ PacketSent(t) \/ RepeatPacket(t) \/ SendAgain(t)
             \/ EmptyMore(t) \/ Emptied(t) \/ Drained(t)
             \/ ReceivePacket(t) \/ PacketReceived(t) \/ NothingReceived(t) \/ InSocket(t)
    BY <2>1, <2>2
       DEF SendPacket, PacketSent, RepeatPacket, SendAgain, EmptyMore, Emptied, Drained,
           ReceivePacket, PacketReceived, NothingReceived, InSocket, SocketNext
  <2>3. CASE UNCHANGED socketVars
    BY <2>3
  <2> QED
    BY <1>3, <2>2, <2>3
       DEF MediaStep, SenderStarts, SenderSetUp, MicrophoneDenied, Encode, KeepPacket,
           WaitForMode, ReceiverStarts, SetCodec, CodecSet, SilenceEnds,
           SilenceCounted, Skip, SameType, OtherType, Change, Decode, Decoded, CloseCodec, Ended,
           InCodec
<1> QED BY <1>1, <1>2, <1>3 DEF Next

-----------------------------------------------------------------------------
(* Where the threads are.                                                  *)

SenderPlaces ==
  {"unborn", "started", "setup", "loop", "encoding", "sending", "repeating", "resending",
   "leaving", "waiting", "closing", "ended"}

ReceiverPlaces == MediaPlaces \ {"encoding", "sending", "repeating", "resending", "waiting"}

Opening == {"counting", "making", "initialising"}
Closing == {"uncounting", "freeing"}

\* A thread is inside a native method only where it has called one.
MayBe(place, native) ==
  /\ native \in Opening => place \in {"setup", "resetup"}
  /\ native = "using" => place \in {"encoding", "decoding"}
  /\ native \in Closing => place \in {"changing", "closing"}

\* The user agent has started the thread of the present call.
Going == {"on", "toggling", "haltingReceiver", "closingSocket", "givingBack", "done"}

\* The threads there are belong to the present call or to earlier ones.
Born(t) ==
  where[t] # "unborn" =>
    /\ CallOf(t) <= call
    /\ CallOf(t) = call => ui \in Going \/ (t \in Senders /\ ui = "starting")
    /\ t \in Senders => CallOf(t) \in scenario.duplex

InPlace(t) ==
  /\ t \in Senders => where[t] \in SenderPlaces
  /\ t \in Receivers => where[t] \in ReceiverPlaces
  /\ MayBe(where[t], jni[t].at)
  /\ Born(t)

PlacesInv ==
  /\ call <= scenario.last
  /\ \A t \in MediaThreads : InPlace(t)
  /\ jni[Ui].at # "out" => jni[Ui].at \in Opening /\ ui \in {"answering", "toggling"}

Typed == CodecTypeOK /\ FlowTypeOK

\* A step of a thread: it was started before, goes to a place, and its native
\* method to another.
LEMMA ThreadMoves ==
  ASSUME Typed, PlacesInv, NEW t \in MediaThreads, where[t] # "unborn",
         NEW place, NEW j,
         where' = [where EXCEPT ![t] = place], jni' = [jni EXCEPT ![t] = j],
         UNCHANGED <<ui, call, scenario>>,
         place \in (IF t \in Senders THEN SenderPlaces ELSE ReceiverPlaces),
         MayBe(place, j.at)
  PROVE  PlacesInv'
<1> USE DEF Typed, CodecTypeOK, FlowTypeOK
<1>1. \A u \in MediaThreads : u # t => where'[u] = where[u] /\ jni'[u] = jni[u]
  BY ThreadFacts
<1>2. where'[t] = place /\ jni'[t] = j /\ jni'[Ui] = jni[Ui]
  BY ThreadFacts
<1>3. ASSUME NEW u \in MediaThreads PROVE InPlace(u)'
  <2>1. CASE u = t
    BY <1>2, <2>1, ThreadFacts DEF PlacesInv, InPlace, Born
  <2>2. CASE u # t
    BY <1>1, <2>2 DEF PlacesInv, InPlace, Born
  <2> QED BY <2>1, <2>2
<1> QED BY <1>2, <1>3 DEF PlacesInv

\* A step that moves no thread leaves all in their places.
LEMMA ThreadStays ==
  ASSUME PlacesInv, UNCHANGED <<where, jni, ui, call, scenario>>
  PROVE  PlacesInv'
BY DEF PlacesInv, InPlace, Born

\* Inside a native method a thread stays inside, or leaves it.
LEMMA CodecMoves ==
  ASSUME CodecTypeOK, NEW t \in Threads, CodecStep(t)
  PROVE  \E j : /\ jni' = [jni EXCEPT ![t] = j]
                /\ \/ j.at = "out"
                   \/ jni[t].at \in Opening /\ j.at \in Opening
                   \/ jni[t].at \in Closing /\ j.at \in Closing
                /\ jni[t].at # "out"
<1> USE DEF CodecTypeOK, Opening, Closing
<1>1. \A p \in Places : Goes(t, p) => \E j : jni' = [jni EXCEPT ![t] = j] /\ j.at = p
  <2> SUFFICES ASSUME NEW p \in Places, Goes(t, p)
               PROVE  \E j : jni' = [jni EXCEPT ![t] = j] /\ j.at = p
    OBVIOUS
  <2>1. CASE p = "out"
    <3>1. Out.at = "out" /\ jni' = [jni EXCEPT ![t] = Out]
      BY <2>1 DEF Goes, Out
    <3> QED BY <2>1, <3>1
  <2>2. CASE p # "out"
    <3> DEFINE j == [jni[t] EXCEPT !.at = p, !.reg = 0]
    <3>1. j.at = p
      OBVIOUS
    <3>2. jni' = [jni EXCEPT ![t] = j]
      BY <2>2 DEF Goes
    <3> QED BY <3>1, <3>2
  <2> QED BY <2>1, <2>2
<1>2. CASE OpenCounted(t)
  BY <1>1, <1>2 DEF OpenCounted, Places
<1>3. CASE CloseCounted(t)
  BY <1>1, <1>3 DEF CloseCounted, Places
<1>4. CASE Allocate(t)
  BY <1>1, <1>4 DEF Allocate, Places
<1>5. CASE Initialise(t) \/ Used(t) \/ Free(t)
  BY <1>1, <1>5 DEF Initialise, Used, Free, Places
<1> QED BY <1>2, <1>3, <1>4, <1>5 DEF CodecStep

\* Every step leaves the threads in their places.
LEMMA PlacesStay ==
  ASSUME Typed, PlacesInv, Next
  PROVE  PlacesInv'
<1> USE DEF Typed
<1>u. Ui \notin MediaThreads
  BY ThreadFacts
<1>1. CASE UiStep
  <2> USE DEF UiMoves, uiVars, threadVars
  <2>n. /\ \A t \in MediaThreads : t \in Senders \/ t \in Receivers
        /\ Ui \in Threads /\ MediaThreads \subseteq Threads /\ Calls \subseteq Nat
    BY ThreadFacts, CallFacts
  <2>1. CASE Answer
    <3>1. /\ ui = "idle" /\ ui' = "answering" /\ UNCHANGED <<where, call, scenario>>
          /\ jni'[Ui].at = "counting" /\ \A t \in MediaThreads : jni'[t] = jni[t]
      BY <1>u, <2>1, <2>n DEF Answer, Open, CodecTypeOK
    <3> QED BY <3>1 DEF PlacesInv, InPlace, Born, Going, Opening
  <2>2. CASE Launch
    <3>1. /\ ui \in {"idle", "answering"} /\ ui' \in {"launching", "silent"}
          /\ jni[Ui].at = "out" /\ UNCHANGED <<jni, where, call, scenario>>
      BY <2>2 DEF Launch, Outside, codecVars
    <3> QED BY <3>1 DEF PlacesInv, InPlace, Born, Going
  <2>3. CASE Finalize \/ CloseSocket \/ HaltSender \/ HaltReceiver
    <3>1. /\ \/ ui = "silent" /\ ui' = "givingBack"
             \/ ui \in Going \ {"toggling"} /\ ui' \in Going
          /\ UNCHANGED <<jni, where, call, scenario>>
      BY <2>3 DEF Finalize, CloseSocket, HaltSender, HaltReceiver, Going, codecVars
    <3> QED BY <3>1 DEF PlacesInv, InPlace, Born, Going
  <2>4. CASE StartSender
    <3>1. ui = "launching" /\ ui' = "starting" /\ UNCHANGED <<jni, call, scenario>>
      BY <2>4 DEF StartSender, codecVars
    <3>2. ASSUME NEW t \in MediaThreads PROVE InPlace(t)'
      <4>1. CASE where'[t] = where[t]
        BY <3>1, <4>1 DEF PlacesInv, InPlace, Born, Going
      <4>2. CASE where'[t] # where[t]
        <5>1. /\ t = Sender(call) /\ call \in scenario.duplex
              /\ where[t] = "unborn" /\ where'[t] = "started"
          BY <2>4, <4>2 DEF StartSender, Moves, FlowTypeOK
        <5>2. t \in Senders /\ CallOf(t) = call /\ t \notin Receivers
          BY <5>1, ThreadFacts, ScenarioFacts DEF FlowTypeOK
        <5> QED BY <2>n, <3>1, <5>1, <5>2
                DEF PlacesInv, InPlace, Born, SenderPlaces, MayBe, Opening, Closing, FlowTypeOK
      <4> QED BY <4>1, <4>2
    <3> QED BY <3>1, <3>2 DEF PlacesInv
  <2>5. CASE StartReceiver
    <3>1. ui = "starting" /\ ui' = "on" /\ UNCHANGED <<jni, call, scenario>>
      BY <2>5 DEF StartReceiver, codecVars
    <3>2. ASSUME NEW t \in MediaThreads PROVE InPlace(t)'
      <4>1. CASE where'[t] = where[t]
        BY <3>1, <4>1 DEF PlacesInv, InPlace, Born, Going
      <4>2. CASE where'[t] # where[t]
        <5>1. t = Receiver(call) /\ where[t] = "unborn" /\ where'[t] = "started"
          BY <2>5, <4>2 DEF StartReceiver, Moves, FlowTypeOK
        <5>2. t \in Receivers /\ CallOf(t) = call /\ t \notin Senders
          BY <5>1, ThreadFacts DEF FlowTypeOK
        <5> QED BY <2>n, <3>1, <5>1, <5>2
                DEF PlacesInv, InPlace, Born, ReceiverPlaces, MediaPlaces, MayBe, Opening,
                  Closing,
                    Going, FlowTypeOK
      <4> QED BY <4>1, <4>2
    <3> QED BY <3>1, <3>2 DEF PlacesInv
  <2>6. CASE Toggle
    <3>1. /\ ui = "on" /\ ui' = "toggling" /\ UNCHANGED <<where, call, scenario>>
          /\ jni'[Ui].at = "counting" /\ \A t \in MediaThreads : jni'[t] = jni[t]
      BY <1>u, <2>6, <2>n DEF Toggle, Open, CodecTypeOK
    <3> QED BY <3>1 DEF PlacesInv, InPlace, Born, Going, Opening
  <2>7. CASE Toggled
    <3>1. /\ ui = "toggling" /\ ui' = "on"
          /\ jni[Ui].at = "out" /\ UNCHANGED <<jni, where, call, scenario>>
      BY <2>7 DEF Toggled, Outside, codecVars
    <3> QED BY <3>1 DEF PlacesInv, InPlace, Born, Going
  <2>8. CASE SocketClosed
    <3>1. /\ ui = "givingBack" /\ UNCHANGED <<jni, where, scenario>>
          /\ \/ ui' = "done" /\ call' = call
             \/ ui' = "idle" /\ call' = call + 1 /\ call # scenario.last
      BY <2>8 DEF SocketClosed, codecVars
    <3>2. call \in Nat /\ scenario.last \in Nat /\ \A t \in MediaThreads : CallOf(t) \in Nat
      BY <2>n, ThreadFacts, ScenarioFacts DEF FlowTypeOK
    <3>3. call' <= scenario'.last
      BY <3>1, <3>2 DEF PlacesInv
    <3>4. ASSUME NEW t \in MediaThreads PROVE InPlace(t)'
      BY <3>1, <3>2 DEF PlacesInv, InPlace, Born, Going
    <3> QED BY <3>1, <3>3, <3>4 DEF PlacesInv
  <2> QED BY <1>1, <2>1, <2>2, <2>3, <2>4, <2>5, <2>6, <2>7, <2>8 DEF UiStep
<1>2. CASE InCodec(Ui)
  <2>1. PICK j : /\ jni' = [jni EXCEPT ![Ui] = j]
                 /\ j.at = "out" \/ j.at \in Opening
                 /\ jni[Ui].at # "out"
    BY <1>2, <1>u, CodecMoves, ThreadFacts DEF InCodec, PlacesInv, Opening, Closing
  <2>2. UNCHANGED <<where, ui, call, scenario>>
    BY <1>2 DEF InCodec, threadVars, uiVars
  <2>3. jni'[Ui] = j /\ \A t \in MediaThreads : jni'[t] = jni[t]
    BY <1>u, <2>1, ThreadFacts DEF CodecTypeOK
  <2> QED BY <2>1, <2>2, <2>3 DEF PlacesInv, InPlace, Born
<1>3. CASE Network
  BY <1>3, ThreadStays DEF Network, threadVars, uiVars, codecVars
<1>4. ASSUME NEW t \in MediaThreads, MediaStep(t) PROVE PlacesInv'
  <2> USE DEF Moves
  <2>f. /\ t \in Threads /\ (t \in Senders => t \notin Receivers)
        /\ jni = [jni EXCEPT ![t] = jni[t]] /\ where = [where EXCEPT ![t] = where[t]]
    BY ThreadFacts DEF CodecTypeOK, FlowTypeOK
  <2>i. InPlace(t)
    BY DEF PlacesInv
  \* Of a step that is not inside a native method only its places matter.
  <2>m. ASSUME NEW to, where' = [where EXCEPT ![t] = to], where[t] # "unborn",
               to \in (IF t \in Senders THEN SenderPlaces ELSE ReceiverPlaces),
               UNCHANGED <<ui, call, scenario>>,
               UNCHANGED jni /\ MayBe(to, jni[t].at)
        PROVE  PlacesInv'
    BY <2>f, <2>m, ThreadMoves
  <2>o. ASSUME NEW to, where' = [where EXCEPT ![t] = to], where[t] # "unborn",
               to \in (IF t \in Senders THEN SenderPlaces ELSE ReceiverPlaces) \cap {"setup",
                 "resetup"},
               UNCHANGED <<ui, call, scenario>>, NEW c, Open(t, c)
        PROVE  PlacesInv'
    <3> DEFINE j == [at |-> "counting", lib |-> c, reg |-> codec_open[c]]
    <3>1. jni' = [jni EXCEPT ![t] = j] /\ MayBe(to, j.at)
      BY <2>o DEF Open, MayBe, Opening, Closing
    <3> HIDE DEF j
    <3> QED BY <2>f, <2>o, <3>1, ThreadMoves
  <2>e. ASSUME NEW to, where' = [where EXCEPT ![t] = to], where[t] # "unborn",
               to \in (IF t \in Senders THEN SenderPlaces ELSE ReceiverPlaces) \cap {"encoding",
                 "decoding"},
               UNCHANGED <<ui, call, scenario>>, NEW c, Use(t, c) \/ UseRefused(t, c)
        PROVE  PlacesInv'
    <3>1. \E j : jni' = [jni EXCEPT ![t] = j] /\ MayBe(to, j.at)
      BY <2>f, <2>e DEF Use, UseRefused, Outside, MayBe, Opening, Closing
    <3> QED BY <2>f, <2>e, <3>1, ThreadMoves
  <2>c. ASSUME NEW to, where' = [where EXCEPT ![t] = to], where[t] # "unborn",
               to \in (IF t \in Senders THEN SenderPlaces ELSE ReceiverPlaces) \cap {"changing",
                 "closing"},
               UNCHANGED <<ui, call, scenario>>, NEW c, Close(t, c)
        PROVE  PlacesInv'
    <3> DEFINE j == [at |-> "uncounting", lib |-> c, reg |-> codec_open[c]]
    <3>1. jni' = [jni EXCEPT ![t] = j] /\ MayBe(to, j.at)
      BY <2>c DEF Close, MayBe, Opening, Closing
    <3> HIDE DEF j
    <3> QED BY <2>f, <2>c, <3>1, ThreadMoves
  <2>n. t \in Senders \/ t \in Receivers
    BY ThreadFacts
  <2> USE DEF SenderPlaces, ReceiverPlaces, MediaPlaces, uiVars, threadVars, codecVars
  <2>1. CASE SenderStarts(t)
    BY <2>1, <2>i, <2>o, <2>n DEF SenderStarts, InPlace
  <2>2. CASE SenderSetUp(t)
    BY <2>2, <2>i, <2>f, <2>m, <2>n DEF SenderSetUp, Outside, InPlace, MayBe, Opening, Closing
  <2>3. CASE Encode(t)
    BY <2>3, <2>i, <2>e, <2>n DEF Encode, InPlace
  <2>4. CASE SendPacket(t)
    BY <2>4, <2>i, <2>f, <2>m, <2>n DEF SendPacket, Outside, InPlace, MayBe, Opening, Closing
  <2>5. CASE PacketSent(t)
    BY <2>5, <2>i, <2>f, <2>m, <2>n DEF PacketSent, Outside, InPlace, MayBe, Opening, Closing
  <2>6. CASE ReceiverStarts(t)
    BY <2>6, <2>i, <2>f, <2>m, <2>n DEF ReceiverStarts, Outside, InPlace, MayBe, Opening, Closing
  <2>7. CASE SetCodec(t)
    BY <2>7, <2>i, <2>o, <2>n DEF SetCodec, InPlace
  <2>8. CASE CodecSet(t)
    BY <2>8, <2>i, <2>f, <2>m, <2>n DEF CodecSet, Outside, InPlace, MayBe, Opening, Closing
  <2>9. CASE EmptyMore(t)
    BY <2>9, ThreadStays DEF EmptyMore
  <2>10. CASE Emptied(t)
    BY <2>10, <2>i, <2>f, <2>m, <2>n DEF Emptied, Outside, InPlace, MayBe, Opening, Closing
  <2>11. CASE Drained(t)
    BY <2>11, <2>i, <2>f, <2>m, <2>n DEF Drained, Outside, InPlace, MayBe, Opening, Closing
  <2>12. CASE ReceivePacket(t)
    BY <2>12, <2>i, <2>f, <2>m, <2>n DEF ReceivePacket, Outside, InPlace, MayBe, Opening, Closing
  <2>13. CASE PacketReceived(t)
    BY <2>13, <2>i, <2>f, <2>m, <2>n DEF PacketReceived, Outside, InPlace, MayBe, Opening, Closing
  <2>14. CASE NothingReceived(t)
    BY <2>14, <2>i, <2>f, <2>m, <2>n
       DEF NothingReceived, Outside, InPlace, MayBe, Opening, Closing
  <2>15. CASE SilenceEnds(t)
    BY <2>15, <2>i, <2>f, <2>m, <2>n DEF SilenceEnds, Outside, InPlace, MayBe, Opening, Closing
  <2>16. CASE SilenceCounted(t)
    BY <2>16, <2>i, <2>f, <2>m, <2>n DEF SilenceCounted, Outside, InPlace, MayBe, Opening, Closing
  <2>17. CASE Skip(t)
    BY <2>17, <2>i, <2>f, <2>m, <2>n DEF Skip, Outside, InPlace, MayBe, Opening, Closing
  <2>18. CASE SameType(t)
    BY <2>18, <2>i, <2>f, <2>m, <2>n DEF SameType, Outside, InPlace, MayBe, Opening, Closing
  <2>19. CASE OtherType(t)
    BY <2>19, <2>i, <2>c, <2>n DEF OtherType, InPlace
  <2>20. CASE Change(t)
    BY <2>20, <2>i, <2>f, <2>m, <2>n DEF Change, Outside, InPlace, MayBe, Opening, Closing
  <2>21. CASE Decode(t)
    BY <2>21, <2>i, <2>e, <2>n DEF Decode, InPlace
  <2>22. CASE Decoded(t)
    BY <2>22, <2>i, <2>f, <2>m, <2>n DEF Decoded, Outside, InPlace, MayBe, Opening, Closing
  <2>23. CASE CloseCodec(t)
    BY <2>23, <2>i, <2>c, <2>n DEF CloseCodec, InPlace
  <2>24. CASE Ended(t)
    BY <2>24, <2>i, <2>f, <2>m, <2>n DEF Ended, Outside, InPlace, MayBe, Opening, Closing
  <2>25. CASE InCodec(t)
    <3>1. PICK j : /\ jni' = [jni EXCEPT ![t] = j]
                   /\ \/ j.at = "out"
                      \/ jni[t].at \in Opening /\ j.at \in Opening
                      \/ jni[t].at \in Closing /\ j.at \in Closing
                   /\ jni[t].at # "out"
      BY <2>25, <2>f, CodecMoves DEF InCodec
    <3>2. where[t] # "unborn" /\ MayBe(where[t], j.at)
      BY <2>f, <2>i, <3>1 DEF InPlace, MayBe, Opening, Closing, CodecTypeOK, Places
    <3> QED BY <2>25, <2>f, <2>i, <2>n, <3>1, <3>2, ThreadMoves DEF InCodec, InPlace
  <2>26. CASE InSocket(t)
    BY <2>26, ThreadStays DEF InSocket
  <2>27. CASE MicrophoneDenied(t) \/ WaitForMode(t)
    BY <2>27, <2>i, <2>f, <2>m, <2>n DEF MicrophoneDenied, WaitForMode, InPlace, MayBe
  <2>28. CASE KeepPacket(t)
    BY <2>28, <2>i, <2>f, <2>m, <2>n DEF KeepPacket, Outside, InPlace, MayBe, Opening, Closing
  <2>29. CASE RepeatPacket(t) \/ SendAgain(t)
    BY <2>29, <2>i, <2>f, <2>m, <2>n DEF RepeatPacket, SendAgain, InPlace, MayBe
  <2> QED BY <1>4, <2>1, <2>2, <2>3, <2>4, <2>5, <2>6, <2>7, <2>8, <2>9, <2>10, <2>11, <2>12,
             <2>13, <2>14, <2>15, <2>16, <2>17, <2>18, <2>19, <2>20, <2>21, <2>22, <2>23, <2>24,
             <2>25, <2>26, <2>27, <2>28, <2>29
          DEF MediaStep
<1> QED BY <1>1, <1>2, <1>3, <1>4 DEF Next

-----------------------------------------------------------------------------
(* The count of silent receives.                                           *)

\* The receivers that have left their loop; no other comes to count further
\* than the limit.
LeftLoop == {t \in Receivers : where[t] \in {"leaving", "closing", "ended"}}

MostSilence == MaxSilence + Cardinality(LeftLoop)

SilenceInv ==
  /\ timeout \in Nat /\ timeout <= MostSilence
  /\ read \in [Receivers -> Nat] /\ \A t \in Receivers : read[t] <= MostSilence

\* A set of receivers has no more members than there are receivers.
LEMMA LeftIsFinite ==
  ASSUME NEW S \in SUBSET Receivers
  PROVE  IsFiniteSet(S) /\ Cardinality(S) \in Nat /\ Cardinality(S) <= Cardinality(Receivers)
BY ReceiversAreFinite, FS_Subset, FS_CardinalityType

\* The bound on the counts is that of the type invariant.
LEMMA SilenceTyped == SilenceInv => SilenceTypeOK
<1> SUFFICES ASSUME SilenceInv PROVE SilenceTypeOK
  OBVIOUS
<1>1. Cardinality(LeftLoop) \in Nat /\ Cardinality(LeftLoop) <= Cardinality(Receivers)
  BY LeftIsFinite DEF LeftLoop
<1>2. Cardinality(Receivers) \in Nat /\ MaxSilence \in Nat
  BY ReceiversAreFinite, FS_CardinalityType, MediaAssumption
<1>3. \A k \in Nat : k <= MostSilence => k \in Silences
  BY <1>1, <1>2 DEF MostSilence, Silences
<1> QED BY <1>3 DEF SilenceInv, SilenceTypeOK

\* Who has left the loop does not come back.
LEMMA NoneComesBack ==
  ASSUME FlowTypeOK, Next
  PROVE  LeftLoop \subseteq LeftLoop'
<1> USE DEF Moves
<1> DEFINE Past == {"leaving", "closing", "ended"}
<1>k. ASSUME NEW t, NEW from, NEW to, Moves(t, from, to), from \in Past => to \in Past
      PROVE  LeftLoop \subseteq LeftLoop'
  BY <1>k, ThreadFacts DEF LeftLoop, FlowTypeOK
<1>u. ASSUME UNCHANGED where PROVE LeftLoop \subseteq LeftLoop'
  BY <1>u DEF LeftLoop
<1> HIDE DEF Moves
<1> USE DEF threadVars
<1>1. CASE UiStep
  <2>1. CASE StartSender
    BY <1>k, <1>u, <2>1 DEF StartSender
  <2>2. CASE StartReceiver
    BY <1>k, <2>2 DEF StartReceiver
  <2>3. CASE UNCHANGED where
    BY <1>u, <2>3
  <2> QED BY <1>1, <2>1, <2>2, <2>3
          DEF UiStep, Answer, Launch, Finalize, Toggle, Toggled, HaltSender, HaltReceiver,
              CloseSocket, SocketClosed
<1>2. CASE InCodec(Ui) \/ Network
  BY <1>u, <1>2 DEF InCodec, Network
<1>3. ASSUME NEW t \in MediaThreads, MediaStep(t) PROVE LeftLoop \subseteq LeftLoop'
  <2>1. CASE SenderStarts(t) \/ SenderSetUp(t) \/ Encode(t) \/ SendPacket(t) \/ PacketSent(t)
    BY <1>k, <2>1 DEF SenderStarts, SenderSetUp, Encode, SendPacket, PacketSent
  <2>2. CASE ReceiverStarts(t) \/ SetCodec(t) \/ CodecSet(t) \/ Emptied(t) \/ Drained(t)
    BY <1>k, <2>2 DEF ReceiverStarts, SetCodec, CodecSet, Emptied, Drained
  <2>3. CASE ReceivePacket(t) \/ PacketReceived(t) \/ NothingReceived(t) \/ SilenceEnds(t)
    BY <1>k, <2>3 DEF ReceivePacket, PacketReceived, NothingReceived, SilenceEnds
  <2>4. CASE SilenceCounted(t) \/ Skip(t) \/ SameType(t) \/ OtherType(t) \/ Change(t)
    BY <1>k, <2>4 DEF SilenceCounted, Skip, SameType, OtherType, Change
  <2>5. CASE Decode(t) \/ Decoded(t) \/ CloseCodec(t) \/ Ended(t)
    BY <1>k, <2>5 DEF Decode, Decoded, CloseCodec, Ended
  <2>6. CASE EmptyMore(t) \/ InCodec(t) \/ InSocket(t)
    BY <1>u, <2>6 DEF EmptyMore, InCodec, InSocket
  <2>7. CASE MicrophoneDenied(t) \/ KeepPacket(t) \/ RepeatPacket(t) \/ SendAgain(t)
    BY <1>k, <2>7 DEF MicrophoneDenied, KeepPacket, RepeatPacket, SendAgain
  <2>8. CASE WaitForMode(t)
    \* Only a sender waits.
    <3>1. t \notin Receivers
      BY <2>8, ThreadFacts DEF WaitForMode
    <3>2. \A u \in Receivers : where'[u] = where[u]
      BY <2>8, <3>1, ThreadFacts DEF WaitForMode, Moves, FlowTypeOK
    <3> QED BY <3>2 DEF LeftLoop
  <2> QED BY <1>3, <2>1, <2>2, <2>3, <2>4, <2>5, <2>6, <2>7, <2>8 DEF MediaStep
<1> QED BY <1>1, <1>2, <1>3 DEF Next

\* What a step does to the count: nothing, sets it to 0 or 1, reads it, or
\* writes what was read, increased.
LEMMA Counts ==
  ASSUME Next
  PROVE  \/ UNCHANGED silenceVars
         \/ timeout' \in {0, 1} /\ UNCHANGED read
         \/ \E t \in MediaThreads : read' = [read EXCEPT ![t] = timeout] /\ UNCHANGED timeout
         \/ \E t \in Receivers : SilenceCounted(t)
<1> USE DEF threadVars, silenceVars
<1>1. CASE UiStep
  BY <1>1 DEF UiStep, Answer, Launch, Finalize, StartSender, StartReceiver, Toggle, Toggled,
              HaltSender, HaltReceiver, CloseSocket, SocketClosed
<1>2. CASE InCodec(Ui) \/ Network
  BY <1>2 DEF InCodec, Network
<1>3. ASSUME NEW t \in MediaThreads, MediaStep(t), ~SilenceCounted(t)
      PROVE  \/ UNCHANGED silenceVars
             \/ timeout' \in {0, 1} /\ UNCHANGED read
             \/ read' = [read EXCEPT ![t] = timeout] /\ UNCHANGED timeout
  BY <1>3 DEF MediaStep, SenderStarts, SenderSetUp, MicrophoneDenied, Encode, SendPacket,
              KeepPacket, PacketSent, RepeatPacket, SendAgain, WaitForMode, ReceiverStarts,
              SetCodec, CodecSet, EmptyMore, Emptied, Drained, ReceivePacket,
              PacketReceived, NothingReceived, SilenceEnds, Skip, SameType, OtherType, Change,
              Decode, Decoded, CloseCodec, Ended, InCodec, InSocket
<1>4. \A t : SilenceCounted(t) => t \in Receivers
  BY DEF SilenceCounted
<1> QED BY <1>1, <1>2, <1>3, <1>4 DEF Next

\* Every step keeps the counts below the bound.
LEMMA SilenceStays ==
  ASSUME FlowTypeOK, SilenceInv, Next
  PROVE  SilenceInv'
<1> DEFINE n == Cardinality(LeftLoop)
           m == Cardinality(LeftLoop')
<1>1. n \in Nat /\ m \in Nat /\ n <= m
  <2>1. LeftLoop' \subseteq Receivers /\ LeftLoop \subseteq LeftLoop'
    BY NoneComesBack DEF LeftLoop
  <2>2. IsFiniteSet(LeftLoop')
    BY <2>1, LeftIsFinite
  <2> QED BY <2>1, <2>2, FS_Subset, FS_CardinalityType
<1>2. MaxSilence \in Nat /\ MaxSilence >= 1
  BY MediaAssumption
<1>3. /\ MostSilence = MaxSilence + n /\ MostSilence' = MaxSilence + m
      /\ MostSilence \in Nat /\ MostSilence' \in Nat /\ MostSilence <= MostSilence'
      /\ 1 <= MostSilence'
  BY <1>1, <1>2 DEF MostSilence
<1> HIDE DEF n, m
<1> USE DEF SilenceInv
<1>4. CASE UNCHANGED silenceVars
  BY <1>3, <1>4 DEF silenceVars
<1>5. CASE timeout' \in {0, 1} /\ UNCHANGED read
  BY <1>3, <1>5
<1>6. ASSUME NEW t \in MediaThreads, read' = [read EXCEPT ![t] = timeout], UNCHANGED timeout
      PROVE  SilenceInv'
  <2>1. \A u \in Receivers : read'[u] = read[u] \/ read'[u] = timeout
    BY <1>6
  <2>2. read' \in [Receivers -> Nat]
    BY <1>6
  <2>3. \A u \in Receivers : read'[u] <= MostSilence'
    BY <1>3, <2>1
  <2> QED BY <1>3, <1>6, <2>2, <2>3
<1>7. ASSUME NEW t \in Receivers, SilenceCounted(t)
      PROVE  SilenceInv'
  <2>1. /\ where[t] = "counting" /\ t \in MediaThreads
        /\ timeout' = read[t] + 1 /\ read' = [read EXCEPT ![t] = 0]
        /\ where' = [where EXCEPT ![t] = IF read[t] + 1 > MaxSilence THEN "leaving" ELSE "loop"]
    BY <1>7, ThreadFacts DEF SilenceCounted, Moves
  <2>2. read[t] \in Nat /\ read[t] <= MostSilence
    OBVIOUS
  <2>3. timeout' <= MostSilence'
    <3>1. CASE read[t] + 1 > MaxSilence
      <4>1. t \notin LeftLoop /\ LeftLoop' = LeftLoop \cup {t}
        BY <2>1, <3>1, ThreadFacts DEF LeftLoop, FlowTypeOK
      <4>2. m = n + 1
        BY <4>1, LeftIsFinite, FS_AddElement DEF LeftLoop, n, m
      <4> QED BY <1>1, <1>2, <1>3, <2>1, <2>2, <4>2
    <3>2. CASE ~(read[t] + 1 > MaxSilence)
      BY <1>1, <1>2, <1>3, <2>1, <2>2, <3>2
    <3> QED BY <3>1, <3>2
  <2> QED BY <1>3, <2>1, <2>2, <2>3
<1> QED BY <1>4, <1>5, <1>6, <1>7, Counts

-----------------------------------------------------------------------------
(* The codecs of the first call.                                           *)

\* The user agent opens a codec for a call it answers, or switches the speaker.
UiInv ==
  /\ ui = "answering" => call \in scenario.answered
  /\ ui = "toggling" => toggles > 0

First == Min(Calls)
S1 == Sender(First)
R1 == Receiver(First)

\* As long as the first call lasts and the speaker has not been switched.
FirstCall == call = First /\ toggles = 0

Making == {"making", "initialising"}

\* The user agent's open() has been counted; so has that of a thread.
UiCounted == ui # "idle" /\ jni[Ui].at # "counting"

Holds(place, native) ==
  \/ place \in {"setup", "resetup"} /\ native # "counting"
  \/ place \in {"changing", "closing"} /\ native = "uncounting"
  \/ place \notin {"unborn", "started", "locking", "setup", "changing", "relocking",
                   "resetup", "closing", "ended"}

Bit(b) == IF b THEN 1 ELSE 0

Users == {Ui, R1}

\* Where a receiver is alone the counters are exact: the answer's open() and
\* the receiver's own.
OneUser ==
  /\ where[R1] = "unborn" => p_type[First] = Offered
  /\ \A t \in Users :
       /\ jni[t].at # "out" => jni[t].lib = p_type[First]
       /\ jni[t].at \in {"counting", "uncounting"} => jni[t].reg = codec_open[p_type[First]]
       /\ jni[t].at = "freeing" => codec_open[p_type[First]] = 0
  /\ \A c \in Codecs :
       /\ codec_open[c] = Bit(c = Offered /\ First \in scenario.answered /\ UiCounted)
                          + Bit(c = p_type[First] /\ Holds(where[R1], jni[R1].at))
       /\ codec_open[c] # 0 =>
            \/ memory[c] = "made"
            \/ \E t \in Users : jni[t].at \in Making /\ c = p_type[First]

OneUserInv == FirstCall /\ scenario.duplex = {} => OneUser

\* The first call has the number 1, a receiver, and perhaps a sender.
LEMMA FirstFacts ==
  ASSUME call \in Calls
  PROVE  /\ First = 1 /\ First \in Calls /\ \A k \in Calls : k \in Nat /\ First <= k
         /\ R1 \in Receivers /\ R1 \in MediaThreads /\ CallOf(R1) = First /\ R1 \in Threads
         /\ R1 # Ui /\ Ui \in Threads /\ R1 \notin Senders
         /\ First \in Duplex => S1 \in Senders /\ S1 # R1 /\ CallOf(S1) = First
         /\ \A t \in MediaThreads : CallOf(t) = First => t = R1 \/ (t = S1 /\ First \in Duplex)
<1>1. Calls # {} /\ Calls \subseteq Nat
  BY CallFacts
<1>2. First = 1 /\ First \in Calls /\ \A k \in Calls : First <= k
  BY <1>1, CallFacts DEF First
<1> QED BY <1>1, <1>2, ThreadFacts DEF S1, R1

\* The user agent opens codecs only where it answers or switches the speaker.
LEMMA UiStays ==
  ASSUME FlowTypeOK, UiInv, Next
  PROVE  UiInv'
<1>m. toggles \in Nat
  BY MediaAssumption DEF FlowTypeOK
<1> USE DEF UiInv, UiMoves, uiVars, threadVars
<1>1. CASE Answer
  BY <1>1 DEF Answer
<1>2. CASE Toggle
  BY <1>m, <1>2 DEF Toggle
<1>3. CASE UiStep /\ ~Answer /\ ~Toggle
  BY <1>3 DEF UiStep, Launch, Finalize, StartSender, StartReceiver, Toggled,
              HaltSender, HaltReceiver, CloseSocket, SocketClosed
<1>4. CASE InCodec(Ui) \/ Network
  BY <1>4 DEF InCodec, Network
<1>5. ASSUME NEW t \in MediaThreads, MediaStep(t) PROVE UiInv'
  <2>1. UNCHANGED <<ui, call, toggles, scenario>>
    BY <1>5 DEF MediaStep, SenderStarts, SenderSetUp, MicrophoneDenied, Encode, SendPacket,
              KeepPacket, PacketSent, RepeatPacket, SendAgain, WaitForMode, ReceiverStarts,
              SetCodec, CodecSet, EmptyMore, Emptied, Drained, ReceivePacket,
              PacketReceived, NothingReceived, SilenceEnds, SilenceCounted, Skip, SameType,
              OtherType, Change, Decode, Decoded, CloseCodec, Ended, InCodec, InSocket
  <2> QED BY <2>1
<1> QED BY <1>1, <1>2, <1>3, <1>4, <1>5 DEF Next

\* A call is the first, and the speaker not switched, as before.
LEMMA FirstBefore ==
  ASSUME FlowTypeOK, Next
  PROVE  UNCHANGED scenario /\ (FirstCall' => FirstCall /\ ~Toggle)
<1>m. toggles \in Nat /\ call \in Nat /\ First = 1 /\ First <= call
  BY MediaAssumption, FirstFacts DEF FlowTypeOK
<1> USE DEF FirstCall, UiMoves, uiVars, threadVars
<1>f. First' = First
  BY DEF First
<1>1. CASE Toggle
  BY <1>m, <1>1 DEF Toggle
<1>2. CASE SocketClosed
  BY <1>m, <1>2 DEF SocketClosed, Toggle
<1>3. CASE UiStep /\ ~SocketClosed /\ ~Toggle
  BY <1>3 DEF UiStep, Answer, Launch, Finalize, StartSender, StartReceiver, Toggled,
              HaltSender, HaltReceiver, CloseSocket
<1>4. CASE InCodec(Ui) \/ Network
  BY <1>4, <1>m DEF InCodec, Network, Toggle
<1>5. ASSUME NEW t \in MediaThreads, MediaStep(t) PROVE UNCHANGED <<call, toggles, scenario>>
  BY <1>5 DEF MediaStep, SenderStarts, SenderSetUp, MicrophoneDenied, Encode, SendPacket,
              KeepPacket, PacketSent, RepeatPacket, SendAgain, WaitForMode, ReceiverStarts,
              SetCodec, CodecSet, EmptyMore, Emptied, Drained, ReceivePacket,
              PacketReceived, NothingReceived, SilenceEnds, SilenceCounted, Skip, SameType,
              OtherType, Change, Decode, Decoded, CloseCodec, Ended, InCodec, InSocket
<1>6. toggles' = toggles => ~Toggle
  BY <1>m DEF Toggle
<1> QED BY <1>1, <1>2, <1>3, <1>4, <1>5, <1>6 DEF Next

\* The threads of the first call are the only ones then.
LEMMA OnlyTheFirst ==
  ASSUME Typed, PlacesInv, FirstCall, NEW t \in MediaThreads, where[t] # "unborn"
  PROVE  /\ t = R1 \/ (t = S1 /\ t \in Senders /\ First \in scenario.duplex)
         /\ ui # "idle"
<1>1. CallOf(t) \in Calls /\ CallOf(t) <= call /\ call = First /\ call \in Calls
  BY ThreadFacts DEF Typed, FlowTypeOK, PlacesInv, InPlace, Born, FirstCall
<1>2. CallOf(t) = First
  BY <1>1, FirstFacts
<1> QED BY <1>1, <1>2, FirstFacts, ThreadFacts DEF PlacesInv, InPlace, Born, Going

\* What an action of a thread needs: it has been started.
LEMMA BornFirst ==
  ASSUME Typed, PlacesInv, NEW t \in MediaThreads, MediaStep(t), ~InSocket(t)
  PROVE  where[t] # "unborn"
<1> USE DEF Moves
<1>1. CASE InCodec(t)
  <2>1. jni[t].at # "out"
    BY <1>1, CodecMoves, ThreadFacts DEF InCodec, Typed
  <2>2. MayBe(where[t], jni[t].at) /\ jni[t].at \in Places
    BY ThreadFacts DEF PlacesInv, InPlace, Typed, CodecTypeOK
  <2> QED BY <2>1, <2>2 DEF MayBe, Opening, Closing, Places
<1>2. CASE ~InCodec(t)
  BY <1>2 DEF MediaStep, SenderStarts, SenderSetUp, MicrophoneDenied, Encode, SendPacket,
              KeepPacket, PacketSent, RepeatPacket, SendAgain, WaitForMode, ReceiverStarts,
              SetCodec, CodecSet, EmptyMore, Emptied, Drained, ReceivePacket,
              PacketReceived, NothingReceived, SilenceEnds, SilenceCounted, Skip, SameType,
              OtherType, Change, Decode, Decoded, CloseCodec, Ended
<1> QED BY <1>1, <1>2

\* What a step inside a native method does to its library.
LEMMA CodecStepKinds ==
  ASSUME NEW t \in Threads, CodecStep(t), CodecTypeOK
  PROVE  LET c == jni[t].lib IN
         \/ /\ jni[t].at = "counting"
            /\ codec_open' = [codec_open EXCEPT ![c] = jni[t].reg + 1] /\ UNCHANGED memory
            /\ \E j : /\ jni' = [jni EXCEPT ![t] = j]
                      /\ IF jni[t].reg # 0 THEN j.at = "out" ELSE j.at = "making" /\ j.lib = c
         \/ /\ jni[t].at = "making"
            /\ memory' = [memory EXCEPT ![c] = "raw"] /\ UNCHANGED codec_open
            /\ \E j : jni' = [jni EXCEPT ![t] = j] /\ j.at = "initialising" /\ j.lib = c
         \/ /\ jni[t].at = "initialising"
            /\ memory' = [memory EXCEPT ![c] = "made"] /\ UNCHANGED codec_open
            /\ \E j : jni' = [jni EXCEPT ![t] = j] /\ j.at = "out"
         \/ /\ jni[t].at = "using" /\ UNCHANGED <<codec_open, memory>>
            /\ \E j : jni' = [jni EXCEPT ![t] = j] /\ j.at = "out"
         \/ /\ jni[t].at = "uncounting"
            /\ codec_open' = [codec_open EXCEPT ![c] = jni[t].reg - 1] /\ UNCHANGED memory
            /\ \E j : /\ jni' = [jni EXCEPT ![t] = j]
                      /\ IF jni[t].reg - 1 # 0 THEN j.at = "out" ELSE j.at = "freeing"
                           /\ j.lib = c
         \/ /\ jni[t].at = "freeing" /\ UNCHANGED codec_open
            /\ \E m \in MemoryStates : memory' = [memory EXCEPT ![c] = m]
            /\ \E j : jni' = [jni EXCEPT ![t] = j] /\ j.at = "out"
<1> DEFINE c == jni[t].lib
<1>0. c \in Codecs /\ memory[c] \in MemoryStates
  BY DEF CodecTypeOK
<1>1. Goes(t, "out") => \E j : jni' = [jni EXCEPT ![t] = j] /\ j.at = "out"
  <2>1. Out.at = "out" /\ (Goes(t, "out") => jni' = [jni EXCEPT ![t] = Out])
    BY DEF Goes, Out
  <2> QED BY <2>1
<1>2. \A p \in Places \ {"out"} :
        Goes(t, p) => \E j : jni' = [jni EXCEPT ![t] = j] /\ j.at = p /\ j.lib = c
  <2> SUFFICES ASSUME NEW p \in Places \ {"out"}, Goes(t, p)
               PROVE  \E j : jni' = [jni EXCEPT ![t] = j] /\ j.at = p /\ j.lib = c
    OBVIOUS
  <2> DEFINE j == [jni[t] EXCEPT !.at = p, !.reg = 0]
  <2>1. jni' = [jni EXCEPT ![t] = j]
    BY DEF Goes
  <2>2. j.at = p /\ j.lib = c
    BY DEF CodecTypeOK
  <2> QED BY <2>1, <2>2
<1>3. {"making", "initialising", "freeing"} \subseteq Places \ {"out"}
  BY DEF Places
<1> HIDE DEF c
<1>4. CASE OpenCounted(t)
  <2>1. /\ jni[t].at = "counting" /\ UNCHANGED memory
        /\ codec_open' = [codec_open EXCEPT ![c] = jni[t].reg + 1]
        /\ Goes(t, IF jni[t].reg # 0 THEN "out" ELSE "making")
    BY <1>4 DEF OpenCounted, c
  <2>2. \E j : /\ jni' = [jni EXCEPT ![t] = j]
               /\ IF jni[t].reg # 0 THEN j.at = "out" ELSE j.at = "making" /\ j.lib = c
    BY <1>1, <1>2, <1>3, <2>1
  <2> QED BY <2>1, <2>2 DEF c
<1>5. CASE CloseCounted(t)
  <2>1. /\ jni[t].at = "uncounting" /\ UNCHANGED memory
        /\ codec_open' = [codec_open EXCEPT ![c] = jni[t].reg - 1]
        /\ Goes(t, IF jni[t].reg - 1 # 0 THEN "out" ELSE "freeing")
    BY <1>5 DEF CloseCounted, c
  <2>2. \E j : /\ jni' = [jni EXCEPT ![t] = j]
               /\ IF jni[t].reg - 1 # 0 THEN j.at = "out" ELSE j.at = "freeing" /\ j.lib = c
    BY <1>1, <1>2, <1>3, <2>1
  <2> QED BY <2>1, <2>2 DEF c
<1>6. CASE Allocate(t)
  <2>1. \E j : jni' = [jni EXCEPT ![t] = j] /\ j.at = "initialising" /\ j.lib = c
    BY <1>2, <1>3, <1>6 DEF Allocate
  <2> QED BY <1>6, <2>1 DEF Allocate, c
<1>7. CASE Initialise(t) \/ Used(t)
  BY <1>1, <1>7 DEF Initialise, Used
<1>8. CASE Free(t)
  <2>1. \E m \in MemoryStates : memory' = [memory EXCEPT ![c] = m]
    BY <1>0, <1>8 DEF Free, MemoryStates, c
  <2> QED BY <1>1, <1>8, <2>1 DEF Free, c
<1> QED BY <1>4, <1>5, <1>6, <1>7, <1>8 DEF CodecStep

CoreInv == Typed /\ PlacesInv /\ UiInv

\* Every step keeps the counters of a receiver that is alone exact.
LEMMA OneUserStays ==
  ASSUME CoreInv, OneUserInv, Next, Typed'
  PROVE  OneUserInv'
<1> USE DEF CoreInv
<1>t. /\ codec_open \in [Codecs -> Int] /\ memory \in [Codecs -> MemoryStates]
      /\ jni \in [Threads -> [at : Places, lib : Codecs, reg : Int]]
      /\ where \in [MediaThreads -> MediaPlaces] /\ p_type \in [Calls -> Codecs] /\ call \in Calls
  BY DEF Typed, CodecTypeOK, FlowTypeOK
<1>u. /\ codec_open' \in [Codecs -> Int] /\ memory' \in [Codecs -> MemoryStates]
      /\ jni' \in [Threads -> [at : Places, lib : Codecs, reg : Int]]
  BY DEF Typed, CodecTypeOK
<1>1. SUFFICES ASSUME FirstCall', scenario.duplex = {} PROVE OneUser'
  BY FirstBefore DEF OneUserInv, Typed
<1>2. FirstCall /\ ~Toggle /\ UNCHANGED scenario
  BY <1>1, FirstBefore DEF Typed
<1>3. OneUser
  BY <1>1, <1>2 DEF OneUserInv
<1>f. /\ R1 \in Threads /\ Ui \in Threads /\ R1 # Ui /\ R1 \in MediaThreads /\ CallOf(R1) = First
      /\ First \in Calls /\ p_type[First] \in Codecs /\ R1 \notin Senders
      /\ call = First /\ toggles = 0
  BY <1>t, <1>2, FirstFacts DEF FirstCall
<1>b. where[R1] # "unborn" => ui # "idle"
  BY <1>2, <1>f, OnlyTheFirst
<1> USE DEF Users
\* A step that leaves the codecs alone.
<1>q. ASSUME UNCHANGED codecVars, UiCounted' = UiCounted \/ First \notin scenario.answered,
             Holds(where'[R1], jni[R1].at) <=> Holds(where[R1], jni[R1].at),
             p_type'[First] = p_type[First], where[R1] # "unborn" => where'[R1] # "unborn"
      PROVE  OneUser'
  BY <1>q, <1>2, <1>3 DEF OneUser, codecVars, Bit
<1>4. CASE UiStep
  <2> USE DEF UiMoves, threadVars, uiVars
  <2>1. CASE Answer
    <3>1. /\ ui = "idle" /\ ui' = "answering" /\ UNCHANGED <<where, p_type, codec_open, memory>>
          /\ jni' = [jni EXCEPT ![Ui] = [at |-> "counting", lib |-> p_type[call],
               reg |-> codec_open[p_type[call]]]]
      BY <2>1 DEF Answer, Open
    <3>2. /\ jni'[R1] = jni[R1] /\ jni'[Ui].at = "counting" /\ jni'[Ui].lib = p_type[First]
          /\ jni'[Ui].reg = codec_open[p_type[First]] /\ jni[Ui].at \notin Making
      BY <1>t, <1>f, <2>1, <3>1 DEF Answer, Open, Outside, Making
    <3>3. UiCounted' = UiCounted
      BY <3>1, <3>2 DEF UiCounted
    <3> QED BY <1>2, <1>3, <1>b, <3>1, <3>2, <3>3 DEF OneUser, Making, Bit
  <2>2. CASE Launch
    BY <1>q, <1>f, <2>2 DEF Launch, codecVars, UiCounted, Outside
  <2>3. CASE Finalize \/ StartSender \/ Toggled \/ HaltSender \/ HaltReceiver \/ CloseSocket
    BY <1>q, <1>f, <1>1, <2>3
       DEF Finalize, StartSender, Toggled, HaltSender, HaltReceiver, CloseSocket, codecVars,
         UiCounted
  <2>4. CASE StartReceiver
    BY <1>q, <1>f, <1>t, <2>4 DEF StartReceiver, Moves, codecVars, UiCounted, Holds, R1
  <2>5. CASE SocketClosed
    BY <1>q, <1>f, <1>1, <2>5, FirstFacts, <1>t
       DEF SocketClosed, FirstCall, First, codecVars, UiCounted
  <2> QED BY <1>2, <1>4, <2>1, <2>2, <2>3, <2>4, <2>5 DEF UiStep
<1>5. CASE InCodec(Ui)
  <2>0. CodecStep(Ui) /\ UNCHANGED <<where, p_type, ui>>
    BY <1>5 DEF InCodec, threadVars, uiVars
  <2>1. jni[Ui].at # "out"
    BY <1>f, <2>0, CodecMoves DEF Typed
  <2>2. ui = "answering" /\ First \in scenario.answered
    BY <1>2, <1>f, <2>1 DEF PlacesInv, UiInv
  <2>3. where[R1] = "unborn" /\ jni[R1].at = "out" /\ p_type[First] = Offered
    <3>1. where[R1] = "unborn"
      BY <1>f, <2>2 DEF PlacesInv, InPlace, Born, Going
    <3>2. jni[R1].at \in Places /\ MayBe(where[R1], jni[R1].at)
      BY <1>f, <1>t DEF PlacesInv, InPlace
    <3> QED BY <1>3, <3>1, <3>2 DEF OneUser, MayBe, Opening, Closing, Places
  <2>4. jni'[R1] = jni[R1] /\ jni[Ui].lib = Offered
    BY <1>3, <1>f, <2>0, <2>1, <2>3, CodecMoves DEF OneUser, Typed, CodecTypeOK
  <2>5. jni[Ui].at \in Opening
    BY <2>1 DEF PlacesInv
  <2> QED BY <1>t, <1>u, <1>2, <1>3, <1>f, <2>0, <2>2, <2>3, <2>4, <2>5, CodecStepKinds
          DEF OneUser, Opening, Making, Bit, UiCounted, Holds, Typed
<1>6. CASE Network \/ \E t \in MediaThreads : InSocket(t)
  BY <1>q, <1>6 DEF Network, InSocket, threadVars, uiVars, codecVars, UiCounted
<1>7. ASSUME NEW t \in MediaThreads, MediaStep(t), ~InSocket(t) PROVE OneUser'
  <2>1. t = R1 /\ where[R1] # "unborn" /\ ui # "idle"
    BY <1>1, <1>2, <1>7, BornFirst, OnlyTheFirst
  <2>2. jni[Ui].at = "out"
    BY <1>f, <2>1, FirstFacts DEF PlacesInv, InPlace, Born, Going, UiInv
  <2> USE DEF Moves
  <2> USE DEF Holds
  <2>3. CASE CodecSet(R1)
    BY <1>q, <1>t, <1>f, <2>1, <2>3 DEF CodecSet, UiCounted, uiVars, codecVars, Outside
  <2>4. CASE ReceiverStarts(R1) \/ EmptyMore(R1) \/ Emptied(R1) \/ Drained(R1)
    BY <1>q, <1>t, <1>f, <2>1, <2>4
       DEF ReceiverStarts, EmptyMore, Emptied, Drained, UiCounted, uiVars, codecVars, threadVars
  <2>5. CASE ReceivePacket(R1) \/ PacketReceived(R1) \/ NothingReceived(R1) \/ SilenceEnds(R1)
    BY <1>q, <1>t, <1>f, <2>1, <2>5
       DEF ReceivePacket, PacketReceived, NothingReceived, SilenceEnds, UiCounted, uiVars,
         codecVars
  <2>6. CASE SilenceCounted(R1) \/ Skip(R1) \/ SameType(R1) \/ Decoded(R1) \/ Ended(R1)
    BY <1>q, <1>t, <1>f, <2>1, <2>6
       DEF SilenceCounted, Skip, SameType, Decoded, Ended, UiCounted, uiVars, codecVars, Outside
  <2>7. CASE SetCodec(R1)
    <3>1. /\ where[R1] \in {"locking", "relocking"} /\ where'[R1] \in {"setup", "resetup"}
          /\ UNCHANGED <<codec_open, memory, p_type, ui>>
          /\ jni' = [jni EXCEPT ![R1] =
               [at |-> "counting", lib |-> p_type[First], reg |-> codec_open[p_type[First]]]]
          /\ jni[R1].at = "out"
      BY <1>t, <1>f, <2>7 DEF SetCodec, Open, Outside, uiVars
    <3>2. /\ jni'[Ui] = jni[Ui] /\ jni'[R1].at = "counting" /\ jni'[R1].lib = p_type[First]
          /\ jni'[R1].reg = codec_open[p_type[First]]
      BY <1>t, <1>f, <3>1
    <3> QED BY <1>2, <1>3, <2>1, <2>2, <3>1, <3>2 DEF OneUser, Bit, UiCounted, Making
  <2>8. CASE OtherType(R1) \/ CloseCodec(R1)
    <3>1. /\ where[R1] \in {"got", "loop", "leaving", "waiting"}
          /\ where'[R1] \in {"changing", "closing"}
          /\ UNCHANGED <<codec_open, memory, p_type, ui>>
          /\ jni' = [jni EXCEPT ![R1] =
               [at |-> "uncounting", lib |-> p_type[First], reg |-> codec_open[p_type[First]]]]
          /\ jni[R1].at = "out"
      BY <1>t, <1>f, <2>8 DEF OtherType, CloseCodec, Close, Outside, uiVars
    <3>2. /\ jni'[Ui] = jni[Ui] /\ jni'[R1].at = "uncounting" /\ jni'[R1].lib = p_type[First]
          /\ jni'[R1].reg = codec_open[p_type[First]]
      BY <1>t, <1>f, <3>1
    <3> QED BY <1>2, <1>3, <2>1, <2>2, <3>1, <3>2 DEF OneUser, Bit, UiCounted, Making
  <2>9. CASE Change(R1)
    <3>1. /\ where[R1] = "changing" /\ where'[R1] = "relocking" /\ jni[R1].at = "out"
          /\ UNCHANGED <<codec_open, memory, jni, ui>>
      BY <1>t, <1>f, <2>9 DEF Change, Outside, uiVars, codecVars
    <3> QED BY <1>2, <1>3, <2>1, <2>2, <3>1 DEF OneUser, Bit, UiCounted, Making
  <2>10. CASE Decode(R1)
    <3>1. /\ where[R1] = "decode" /\ where'[R1] = "decoding" /\ jni[R1].at = "out"
          /\ UNCHANGED <<codec_open, memory, p_type, ui>>
          /\ \/ UNCHANGED jni
             \/ jni' = [jni EXCEPT ![R1] = [at |-> "using", lib |-> p_type[First], reg |-> 0]]
      BY <1>t, <1>f, <2>10 DEF Decode, Use, UseRefused, Outside, uiVars
    <3>2. /\ jni'[Ui] = jni[Ui] /\ jni'[R1].at \in {"using", "out"}
          /\ jni'[R1].at = "using" => jni'[R1].lib = p_type[First]
      BY <1>t, <1>f, <3>1
    <3> QED BY <1>2, <1>3, <2>1, <2>2, <3>1, <3>2 DEF OneUser, Bit, UiCounted, Making
  <2>11. CASE InCodec(R1)
    <3>0. CodecStep(R1) /\ UNCHANGED <<where, p_type, ui>>
      BY <2>11 DEF InCodec, threadVars, uiVars
    <3>1. MayBe(where[R1], jni[R1].at) /\ jni[R1].at # "out"
      BY <1>f, <3>0, CodecMoves DEF PlacesInv, InPlace, Typed
    <3>2. jni'[Ui] = jni[Ui] /\ jni[R1].lib = p_type[First]
      BY <1>3, <1>f, <3>0, <3>1, CodecMoves DEF OneUser, Typed, CodecTypeOK
    <3> QED BY <1>t, <1>u, <1>2, <1>3, <1>f, <2>1, <2>2, <3>0, <3>1, <3>2, CodecStepKinds
            DEF OneUser, Opening, Closing, Making, Bit, UiCounted, MayBe, Typed
  <2>12. R1 \notin Senders
         /\ where[R1] \notin {"encoding", "sending", "repeating", "resending", "waiting"}
    BY <1>t, <1>f, FirstFacts DEF PlacesInv, InPlace, ReceiverPlaces
  <2>13. MediaStep(R1) /\ ~InSocket(R1)
    BY <1>7, <2>1
  <2>14. /\ ~SenderStarts(R1) /\ ~SenderSetUp(R1) /\ ~MicrophoneDenied(R1) /\ ~Encode(R1)
         /\ ~WaitForMode(R1)
    BY <2>12 DEF SenderStarts, SenderSetUp, MicrophoneDenied, Encode, WaitForMode
  <2>15. /\ ~SendPacket(R1) /\ ~KeepPacket(R1) /\ ~PacketSent(R1) /\ ~RepeatPacket(R1)
         /\ ~SendAgain(R1)
    BY <2>12 DEF SendPacket, KeepPacket, PacketSent, RepeatPacket, SendAgain
  <2> QED BY <2>13, <2>1, <2>3, <2>4, <2>5, <2>6, <2>7, <2>8, <2>9, <2>10, <2>11,
             <2>14, <2>15
          DEF MediaStep
<1> QED BY <1>2, <1>4, <1>5, <1>6, <1>7 DEF Next

\* A sender and a receiver that share the codec count without a lock, so their
\* counters are not exact: but none of them finds the codec unopened, or the
\* last but one user gone, before both have closed it.
Pair == {S1, R1} \cap MediaThreads

Unopened(place, native) ==
  \/ place \in {"unborn", "started", "locking"}
  \/ place = "setup" /\ native = "counting"

HasClosed(place, native) == place = "ended" \/ (place = "closing" /\ native # "uncounting")

Closed(t) == HasClosed(where[t], jni[t].at)
OtherClosed(t) == \E u \in Pair \ {t} : Closed(u)
BothClosed == \E t \in Pair : Closed(t) /\ OtherClosed(t)

TwoUsers ==
  /\ p_type[First] = Offered
  /\ \A t \in Pair : where[t] \notin {"changing", "relocking", "resetup"}
  /\ \A t \in Pair \cup {Ui} : jni[t].at # "out" => jni[t].lib = Offered
  /\ ui = "idle" => codec_open[Offered] = 0
  /\ jni[Ui].at = "counting" => codec_open[Offered] = 0 /\ jni[Ui].reg = 0
  /\ UiCounted /\ ~BothClosed =>
       /\ codec_open[Offered] >= 1
       /\ jni[Ui].at = "out" => memory[Offered] = "made"
       /\ \A t \in Pair : jni[t].at \notin Making \cup {"freeing"}
  /\ UiCounted => \A t \in Pair :
       /\ jni[t].at = "counting" => jni[t].reg >= 1
       /\ jni[t].at = "uncounting" /\ ~OtherClosed(t) => jni[t].reg >= 2
       /\ ~Unopened(where[t], jni[t].at) =>
            codec_open[Offered] >= 2 \/ Closed(t) \/ OtherClosed(t)

TwoUsersInv ==
  FirstCall /\ First \in scenario.answered /\ ~scenario.changing => TwoUsers

\* Every step keeps the codec of a sender and a receiver open.
LEMMA TwoUsersStay ==
  ASSUME CoreInv, TwoUsersInv, Next, Typed'
  PROVE  TwoUsersInv'
<1> USE DEF CoreInv
<1>t. /\ codec_open \in [Codecs -> Int] /\ memory \in [Codecs -> MemoryStates]
      /\ jni \in [Threads -> [at : Places, lib : Codecs, reg : Int]]
      /\ where \in [MediaThreads -> MediaPlaces] /\ p_type \in [Calls -> Codecs] /\ call \in Calls
  BY DEF Typed, CodecTypeOK, FlowTypeOK
<1>u. /\ codec_open' \in [Codecs -> Int] /\ memory' \in [Codecs -> MemoryStates]
      /\ jni' \in [Threads -> [at : Places, lib : Codecs, reg : Int]]
  BY DEF Typed, CodecTypeOK
<1>1. SUFFICES ASSUME FirstCall', First \in scenario.answered, ~scenario.changing
               PROVE  TwoUsers'
  BY FirstBefore DEF TwoUsersInv, Typed
<1>2. FirstCall /\ ~Toggle /\ UNCHANGED scenario
  BY <1>1, FirstBefore DEF Typed
<1>3. TwoUsers
  BY <1>1, <1>2 DEF TwoUsersInv
<1>f. /\ Ui \in Threads /\ Pair \subseteq MediaThreads /\ Pair \subseteq Threads /\ Ui \notin Pair
      /\ \A t \in Pair : CallOf(t) = First /\ (t \in Senders \/ t \in Receivers)
      /\ First \in Calls /\ p_type[First] = Offered /\ Offered \in Codecs
      /\ call = First /\ toggles = 0
  <2>1. S1 \in MediaThreads => CallOf(S1) = First
    BY DEF S1, Sender, CallOf
  <2>2. \A t \in Pair : t \in MediaThreads /\ (t = S1 \/ t = R1)
    BY DEF Pair
  <2>3. Ui \notin MediaThreads /\ MediaThreads \subseteq Threads
          /\ MediaThreads = Senders \cup Receivers
    BY ThreadFacts
  <2>4. CallOf(R1) = First /\ Ui \in Threads /\ First \in Calls
    BY <1>t, FirstFacts
  <2> QED BY <1>t, <1>2, <1>3, <2>1, <2>2, <2>3, <2>4 DEF FirstCall, TwoUsers
<1>b. \A t \in Pair : where[t] # "unborn" => ui # "idle"
  BY <1>2, <1>f, OnlyTheFirst
\* A step that leaves the codecs alone.
<1>q. ASSUME UNCHANGED <<codecVars, p_type>>,
             UiCounted' = UiCounted, ui' = "idle" => ui = "idle",
             \A t \in Pair :
               /\ HasClosed(where'[t], jni[t].at) <=> HasClosed(where[t], jni[t].at)
               /\ Unopened(where'[t], jni[t].at) <=> Unopened(where[t], jni[t].at)
               /\ where'[t] \notin {"changing", "relocking", "resetup"}
      PROVE  TwoUsers'
  <2>1. \A t \in Pair : /\ Closed(t)' <=> Closed(t)
                        /\ OtherClosed(t)' <=> OtherClosed(t)
    BY <1>q DEF Closed, OtherClosed, codecVars, Pair
  <2>2. BothClosed' <=> BothClosed
    BY <2>1 DEF BothClosed, Pair
  <2> QED BY <1>q, <1>3, <2>1, <2>2 DEF TwoUsers, codecVars, Pair
<1>4. CASE UiStep
  <2> USE DEF UiMoves, threadVars, uiVars
  <2>1. CASE Answer
    <3>1. /\ ui = "idle" /\ ui' = "answering" /\ UNCHANGED <<where, p_type, codec_open, memory>>
          /\ jni' = [jni EXCEPT ![Ui] =
               [at |-> "counting", lib |-> Offered, reg |-> codec_open[Offered]]]
      BY <1>f, <2>1 DEF Answer, Open
    <3>2. /\ jni'[Ui].at = "counting" /\ jni'[Ui].lib = Offered
          /\ jni'[Ui].reg = codec_open[Offered] /\ \A t \in Pair : jni'[t] = jni[t]
      BY <1>t, <1>f, <3>1
    <3> QED BY <1>3, <3>1, <3>2 DEF TwoUsers, UiCounted, Pair
  <2>2. CASE Launch
    BY <1>q, <1>1, <1>3, <1>f, <2>2 DEF TwoUsers, Launch, codecVars, UiCounted, Outside
  <2>3. CASE Finalize \/ Toggled \/ HaltSender \/ HaltReceiver \/ CloseSocket
    BY <1>q, <1>3, <1>f, <1>1, <2>3
       DEF TwoUsers, Finalize, Toggled, HaltSender, HaltReceiver, CloseSocket, codecVars,
         UiCounted
  <2>4. CASE StartSender \/ StartReceiver
    <3>1. \A t \in Pair : where'[t] = where[t] \/ (where[t] = "unborn" /\ where'[t] = "started")
      BY <1>f, <1>t, <2>4 DEF StartSender, StartReceiver, Moves
    <3>2. \A t \in Pair : MayBe(where[t], jni[t].at)
      BY <1>f DEF PlacesInv, InPlace
    <3> QED BY <1>q, <1>3, <1>f, <2>4, <3>1, <3>2
            DEF TwoUsers, StartSender, StartReceiver, codecVars, UiCounted, HasClosed, Unopened
  <2>5. CASE SocketClosed
    BY <1>q, <1>3, <1>f, <1>1, <2>5, FirstFacts, <1>t
       DEF TwoUsers, SocketClosed, FirstCall, First, codecVars, UiCounted
  <2> QED BY <1>2, <1>4, <2>1, <2>2, <2>3, <2>4, <2>5 DEF UiStep
<1>5. CASE InCodec(Ui)
  <2>0. CodecStep(Ui) /\ UNCHANGED <<where, p_type, ui>>
    BY <1>5 DEF InCodec, threadVars, uiVars
  <2>1. jni[Ui].at # "out" /\ jni[Ui].lib = Offered
    BY <1>f, <1>3, <2>0, CodecMoves DEF Typed, TwoUsers
  <2>2. ui = "answering" /\ jni[Ui].at \in Opening
    BY <1>2, <1>f, <2>1 DEF PlacesInv, UiInv
  <2>3. \A t \in Pair : where[t] = "unborn" /\ jni[t].at = "out"
    <3> SUFFICES ASSUME NEW t \in Pair PROVE where[t] = "unborn" /\ jni[t].at = "out"
      OBVIOUS
    <3>1. where[t] = "unborn"
      BY <1>f, <2>2 DEF PlacesInv, InPlace, Born, Going
    <3>2. jni[t].at \in Places /\ MayBe(where[t], jni[t].at)
      BY <1>f, <1>t DEF PlacesInv, InPlace
    <3> QED BY <3>1, <3>2 DEF MayBe, Opening, Closing, Places
  <2>4. \A t \in Pair : where'[t] = "unborn" /\ jni'[t].at = "out"
    BY <1>f, <1>t, <2>0, <2>3, CodecMoves DEF Typed
  <2>5. /\ ~BothClosed /\ ~BothClosed' /\ \A t \in Pair : Unopened(where'[t], jni'[t].at)
    BY <2>3, <2>4 DEF BothClosed, Closed, HasClosed, Unopened, Pair
  <2>6. \/ /\ jni[Ui].at = "counting" /\ codec_open'[Offered] = 1 /\ jni'[Ui].at = "making"
           /\ jni'[Ui].lib = Offered
        \/ /\ jni[Ui].at = "making" /\ UNCHANGED codec_open /\ jni'[Ui].at = "initialising"
           /\ jni'[Ui].lib = Offered
        \/ /\ jni[Ui].at = "initialising" /\ UNCHANGED codec_open /\ jni'[Ui].at = "out"
           /\ memory'[Offered] = "made"
    BY <1>t, <1>f, <1>3, <2>0, <2>1, <2>2, CodecStepKinds DEF TwoUsers, Opening, Typed
  <2> HIDE DEF CoreInv
  <2> QED BY <1>f, <1>3, <2>0, <2>2, <2>4, <2>5, <2>6 DEF TwoUsers, UiCounted, Making, Pair
<1>6. CASE Network \/ \E t \in MediaThreads : InSocket(t)
  BY <1>q, <1>3, <1>6 DEF TwoUsers, Network, InSocket, threadVars, uiVars, codecVars, UiCounted
<1>7. ASSUME NEW t \in MediaThreads, MediaStep(t), ~InSocket(t) PROVE TwoUsers'
  <2>1. t \in Pair /\ where[t] # "unborn" /\ ui # "idle"
    BY <1>1, <1>2, <1>7, BornFirst, OnlyTheFirst DEF Pair
  <2>2. jni[Ui].at = "out" /\ UiCounted
    BY <1>f, <2>1, FirstFacts DEF PlacesInv, InPlace, Born, Going, UiInv, UiCounted
  <2>3. MayBe(where[t], jni[t].at) /\ where[t] \notin {"changing", "relocking", "resetup"}
    BY <1>3, <2>1 DEF PlacesInv, InPlace, TwoUsers
  \* A step outside the codecs.
  <2>m. ASSUME NEW to \in MediaPlaces, where' = [where EXCEPT ![t] = to],
               UNCHANGED <<codecVars, p_type, ui>>,
               to \notin {"changing", "relocking", "resetup"},
               HasClosed(to, jni[t].at) <=> HasClosed(where[t], jni[t].at),
               Unopened(to, jni[t].at) <=> Unopened(where[t], jni[t].at)
        PROVE  TwoUsers'
    <3>1. UiCounted' = UiCounted /\ (ui' = "idle" => ui = "idle")
      BY <2>m DEF UiCounted, codecVars
    <3>2. \A u \in Pair :
               /\ HasClosed(where'[u], jni[u].at) <=> HasClosed(where[u], jni[u].at)
               /\ Unopened(where'[u], jni[u].at) <=> Unopened(where[u], jni[u].at)
               /\ where'[u] \notin {"changing", "relocking", "resetup"}
      BY <1>t, <1>3, <1>f, <2>m DEF TwoUsers
    <3> QED BY <1>q, <2>m, <3>1, <3>2
  \* What the counts of the pair depend on.
  <2>p. \A u, v \in Pair : u # t /\ v # t => u = v
    BY <2>1 DEF Pair
  <2>b. BothClosed <=> Closed(t) /\ OtherClosed(t)
    BY <2>1, <2>p DEF BothClosed, OtherClosed
  \* A step that calls a native method, or one inside it.
  <2>c. ASSUME NEW to, NEW j, where' = [where EXCEPT ![t] = to], jni' = [jni EXCEPT ![t] = j],
               UNCHANGED <<p_type, ui>>
        PROVE  /\ where'[t] = to /\ jni'[t] = j /\ jni'[Ui] = jni[Ui] /\ UiCounted'
               /\ \A u \in Pair : u # t => where'[u] = where[u] /\ jni'[u] = jni[u]
               /\ \A u \in Pair : u # t => (Closed(u)' <=> Closed(u))
               /\ Closed(t)' <=> HasClosed(to, j.at)
               /\ OtherClosed(t)' <=> OtherClosed(t)
               /\ BothClosed' <=> HasClosed(to, j.at) /\ OtherClosed(t)
               /\ \A u \in Pair : u # t => (OtherClosed(u)' <=> HasClosed(to, j.at))
               /\ \A u \in Pair : u # t => (OtherClosed(u) <=> Closed(t))
    <3>1. where'[t] = to /\ jni'[t] = j /\ jni'[Ui] = jni[Ui]
      BY <1>t, <1>f, <2>1, <2>c
    <3>2. UiCounted'
      BY <2>2, <2>c, <3>1 DEF UiCounted
    <3>3. \A u \in Pair : u # t => where'[u] = where[u] /\ jni'[u] = jni[u]
      BY <1>t, <1>f, <2>1, <2>c
    <3>4. \A u \in Pair : u # t => (Closed(u)' <=> Closed(u))
      BY <3>3 DEF Closed
    <3>5. Closed(t)' <=> HasClosed(to, j.at)
      BY <3>1 DEF Closed
    <3>6. OtherClosed(t)' <=> OtherClosed(t)
      BY <3>4 DEF OtherClosed, Pair
    <3>7. BothClosed' <=> HasClosed(to, j.at) /\ OtherClosed(t)
      <4>1. BothClosed' <=> Closed(t)' /\ OtherClosed(t)'
        BY <2>1, <2>p DEF BothClosed, OtherClosed, Pair
      <4> QED BY <4>1, <3>5, <3>6
    <3>8. \A u \in Pair : u # t => (OtherClosed(u)' <=> HasClosed(to, j.at))
      <4>1. \A u \in Pair : u # t => (OtherClosed(u)' <=> Closed(t)')
        BY <2>1, <2>p DEF OtherClosed, Pair
      <4> QED BY <4>1, <3>5
    <3>9. \A u \in Pair : u # t => (OtherClosed(u) <=> Closed(t))
      BY <2>1, <2>p DEF OtherClosed
    <3> QED BY <3>1, <3>2, <3>3, <3>4, <3>5, <3>6, <3>7, <3>8, <3>9
  <2>r. memory[Offered] \in MemoryStates /\ codec_open[Offered] \in Int /\ t # Ui
    BY <1>t, <1>f, <2>1
  <2>s. ASSUME NEW to, NEW j, where' = [where EXCEPT ![t] = to], jni' = [jni EXCEPT ![t] = j],
               UNCHANGED <<p_type, ui>>, to \notin {"changing", "relocking", "resetup"},
               j.at # "out" => j.lib = Offered,
               Closed(t) => HasClosed(to, j.at),
               \/ HasClosed(to, j.at) /\ OtherClosed(t)
               \/ /\ codec_open'[Offered] >= 1 /\ memory'[Offered] = "made"
                  /\ j.at \notin Making \cup {"freeing"},
               j.at = "counting" => j.reg >= 1,
               j.at = "uncounting" => j.reg >= 2 \/ OtherClosed(t),
               \/ Unopened(to, j.at) \/ HasClosed(to, j.at) \/ OtherClosed(t)
               \/ codec_open'[Offered] >= 2,
               \/ codec_open'[Offered] >= 2 \/ HasClosed(to, j.at) \/ OtherClosed(t)
               \/ UNCHANGED codec_open
        PROVE  TwoUsers'
    <3>1. /\ where'[t] = to /\ jni'[t] = j /\ jni'[Ui] = jni[Ui] /\ UiCounted'
          /\ \A u \in Pair : u # t => where'[u] = where[u] /\ jni'[u] = jni[u]
      BY <2>c, <2>s
    <3>2. /\ \A u \in Pair : u # t => (Closed(u)' <=> Closed(u))
          /\ Closed(t)' <=> HasClosed(to, j.at)
          /\ OtherClosed(t)' <=> OtherClosed(t)
          /\ BothClosed' <=> HasClosed(to, j.at) /\ OtherClosed(t)
      BY <2>c, <2>s
    <3>3. \A u \in Pair : u # t =>
            /\ OtherClosed(u)' <=> HasClosed(to, j.at)
            /\ OtherClosed(u) <=> Closed(t)
      BY <2>c, <2>s
    <3>4. /\ p_type'[First] = Offered
          /\ \A u \in Pair : where'[u] \notin {"changing", "relocking", "resetup"}
          /\ \A u \in Pair \cup {Ui} : jni'[u].at # "out" => jni'[u].lib = Offered
          /\ ui' # "idle" /\ jni'[Ui].at = "out"
      BY <1>3, <2>1, <2>2, <2>s, <3>1 DEF TwoUsers
    <3>5. \A u \in Pair : u # t => (~BothClosed' => jni'[u].at \notin Making \cup {"freeing"})
      BY <1>3, <2>2, <2>b, <2>s, <3>1, <3>2 DEF TwoUsers
    <3>6. ~BothClosed' =>
            /\ codec_open'[Offered] >= 1 /\ memory'[Offered] = "made"
            /\ \A u \in Pair : jni'[u].at \notin Making \cup {"freeing"}
      BY <2>s, <3>1, <3>2, <3>5
    <3>7. ASSUME NEW u \in Pair
          PROVE  /\ jni'[u].at = "counting" => jni'[u].reg >= 1
                 /\ jni'[u].at = "uncounting" /\ ~OtherClosed(u)' => jni'[u].reg >= 2
                 /\ ~Unopened(where'[u], jni'[u].at) =>
                      codec_open'[Offered] >= 2 \/ Closed(u)' \/ OtherClosed(u)'
      <4>1. CASE u = t
        BY <2>s, <3>1, <3>2, <4>1
      <4>2. CASE u # t
        <5>1. OtherClosed(t) => Closed(u)
          BY <2>p, <4>2 DEF OtherClosed
        <5>2. /\ jni[u].at = "counting" => jni[u].reg >= 1
              /\ jni[u].at = "uncounting" /\ ~OtherClosed(u) => jni[u].reg >= 2
              /\ ~Unopened(where[u], jni[u].at) =>
                   codec_open[Offered] >= 2 \/ Closed(u) \/ OtherClosed(u)
          BY <1>3, <2>2 DEF TwoUsers
        <5> QED BY <2>s, <3>1, <3>2, <3>3, <4>2, <5>1, <5>2
      <4> QED BY <4>1, <4>2
    <3>8. Pair' = Pair /\ First' = First /\ Ui' = Ui /\ Offered' = Offered
      BY DEF Pair
    <3>9. \A u \in Pair :
            /\ jni'[u].at = "counting" => jni'[u].reg >= 1
            /\ jni'[u].at = "uncounting" /\ ~OtherClosed(u)' => jni'[u].reg >= 2
            /\ ~Unopened(where'[u], jni'[u].at) =>
                 codec_open'[Offered] >= 2 \/ Closed(u)' \/ OtherClosed(u)'
      BY <3>7
    <3> QED BY <3>4, <3>6, <3>8, <3>9 DEF TwoUsers, Pair
  <2>o. ASSUME where[t] \in {"started", "locking"}, where' = [where EXCEPT ![t] = "setup"],
               Open(t, Offered), UNCHANGED <<p_type, ui>>
        PROVE  TwoUsers'
    <3> DEFINE j == [at |-> "counting", lib |-> Offered, reg |-> codec_open[Offered]]
    <3>1. jni' = [jni EXCEPT ![t] = j] /\ UNCHANGED <<codec_open, memory>>
      BY <2>o DEF Open
    <3>2. j.at = "counting" /\ j.lib = Offered /\ j.reg = codec_open[Offered]
      OBVIOUS
    <3>3. ~Closed(t) /\ ~HasClosed("setup", j.at) /\ Unopened("setup", j.at)
      BY <2>o, <3>2 DEF Closed, HasClosed, Unopened
    <3> HIDE DEF j
    <3>4. codec_open[Offered] >= 1
      BY <1>3, <2>2, <2>b, <3>3 DEF TwoUsers
    <3>5. memory[Offered] = "made"
      BY <1>3, <2>2, <2>b, <3>3 DEF TwoUsers
    <3> QED BY <2>o, <2>r, <2>s, <3>1, <3>2, <3>3, <3>4, <3>5 DEF Making
  <2>d. ASSUME where[t] \in {"loop", "leaving", "waiting"},
               where' = [where EXCEPT ![t] = "closing"],
               Close(t, Offered), UNCHANGED <<p_type, ui>>
        PROVE  TwoUsers'
    <3> DEFINE j == [at |-> "uncounting", lib |-> Offered, reg |-> codec_open[Offered]]
    <3>1. jni' = [jni EXCEPT ![t] = j] /\ UNCHANGED <<codec_open, memory>>
      BY <2>d DEF Close
    <3>2. j.at = "uncounting" /\ j.lib = Offered /\ j.reg = codec_open[Offered]
      OBVIOUS
    <3>3. ~Closed(t) /\ ~HasClosed("closing", j.at) /\ ~Unopened(where[t], jni[t].at)
      BY <2>d, <3>2 DEF Closed, HasClosed, Unopened
    <3> HIDE DEF j
    <3>4. codec_open[Offered] >= 1 /\ memory[Offered] = "made"
      BY <1>3, <2>2, <2>b, <3>3 DEF TwoUsers
    <3>5. codec_open[Offered] >= 2 \/ OtherClosed(t)
      BY <1>3, <2>1, <2>2, <3>3 DEF TwoUsers
    <3> QED BY <2>d, <2>r, <2>s, <3>1, <3>2, <3>3, <3>4, <3>5 DEF Making
  <2>e. ASSUME where[t] \in {"loop", "decode"}, NEW to \in {"encoding", "decoding"},
               where' = [where EXCEPT ![t] = to], Use(t, Offered) \/ UseRefused(t, Offered),
               UNCHANGED <<p_type, ui>>
        PROVE  TwoUsers'
    <3>1. PICK j : /\ jni' = [jni EXCEPT ![t] = j] /\ UNCHANGED <<codec_open, memory>>
                   /\ j.at = "out" \/ (j.at = "using" /\ j.lib = Offered)
      <4>1. CASE Use(t, Offered)
        <5> DEFINE j == [at |-> "using", lib |-> Offered, reg |-> 0]
        <5>1. jni' = [jni EXCEPT ![t] = j] /\ UNCHANGED <<codec_open, memory>>
          BY <4>1 DEF Use
        <5>2. j.at = "using" /\ j.lib = Offered
          OBVIOUS
        <5> HIDE DEF j
        <5> QED BY <5>1, <5>2
      <4>2. CASE UseRefused(t, Offered)
        <5>1. jni' = [jni EXCEPT ![t] = jni[t]] /\ UNCHANGED <<codec_open, memory>>
          BY <1>t, <4>2 DEF UseRefused, codecVars
        <5>2. jni[t].at = "out"
          BY <4>2 DEF UseRefused, Outside
        <5> QED BY <5>1, <5>2
      <4> QED BY <2>e, <4>1, <4>2
    <3>2. ~Closed(t) /\ ~HasClosed(to, j.at) /\ ~Unopened(where[t], jni[t].at)
      BY <2>e DEF Closed, HasClosed, Unopened
    <3>3. codec_open[Offered] >= 1 /\ memory[Offered] = "made"
      BY <1>3, <2>2, <2>b, <3>2 DEF TwoUsers
    <3>4. codec_open[Offered] >= 2 \/ OtherClosed(t)
      BY <1>3, <2>1, <2>2, <3>2 DEF TwoUsers
    <3> QED BY <2>e, <2>r, <2>s, <3>1, <3>2, <3>3, <3>4 DEF Making
  <2>i. ASSUME InCodec(t) PROVE TwoUsers'
    <3>1. CodecStep(t) /\ UNCHANGED <<where, p_type, ui>> /\ t \in Threads
      BY <1>f, <2>1, <2>i DEF InCodec, threadVars, uiVars
    <3>2. jni[t].at # "out" /\ jni[t].lib = Offered
      BY <1>3, <2>1, <3>1, CodecMoves DEF TwoUsers, Typed
    <3>3. where' = [where EXCEPT ![t] = where[t]]
      BY <1>t, <3>1
    <3>4. ~Closed(t) \/ ~OtherClosed(t) =>
            codec_open[Offered] >= 1 /\ memory[Offered] = "made"
              /\ jni[t].at \notin Making \cup {"freeing"}
      BY <1>3, <2>1, <2>2, <2>b DEF TwoUsers
    <3>5. jni[t].at \in Opening => ~Closed(t) /\ where[t] = "setup"
      BY <2>3 DEF MayBe, Opening, Closed, HasClosed
    <3>6. jni[t].at = "using" => ~Closed(t) /\ ~Unopened(where[t], "using")
      BY <2>3 DEF MayBe, Closed, HasClosed, Unopened
    <3>7. jni[t].at \in Closing => where[t] = "closing" /\ ~Unopened(where[t], jni[t].at)
      BY <2>3 DEF MayBe, Closing, Unopened
    <3>8. jni[t].at \in Closing => \A n : n # "uncounting" => HasClosed(where[t], n)
      BY <3>7 DEF HasClosed
    <3>n. \A n : n # "counting" => ~HasClosed("setup", n) /\ ~Unopened("setup", n)
      BY DEF HasClosed, Unopened
    <3>o. jni[t].at = "using" => \A n : ~HasClosed(where[t], n) /\ ~Unopened(where[t], n)
      BY <2>3 DEF MayBe, HasClosed, Unopened
    <3>u. ~Unopened(where[t], jni[t].at)
            => codec_open[Offered] >= 2 \/ Closed(t) \/ OtherClosed(t)
      BY <1>3, <2>1, <2>2 DEF TwoUsers
    <3>9. CASE jni[t].at = "counting"
      <4>1. jni[t].reg >= 1 /\ jni[t].reg \in Int
        BY <1>3, <1>t, <1>f, <2>1, <2>2, <3>9 DEF TwoUsers
      <4>2. PICK j : jni' = [jni EXCEPT ![t] = j] /\ j.at = "out"
        BY <3>1, <3>9, <4>1, CodecStepKinds DEF Typed
      <4>3. codec_open'[Offered] = jni[t].reg + 1 /\ UNCHANGED memory
        BY <1>t, <1>f, <3>1, <3>2, <3>9, CodecStepKinds DEF Typed
      <4>4. codec_open'[Offered] >= 2 /\ codec_open'[Offered] >= 1
        BY <4>1, <4>3
      <4>5. where[t] = "setup" /\ ~HasClosed(where[t], j.at) /\ memory'[Offered] = "made"
        BY <3>4, <3>5, <3>9, <3>n, <4>2, <4>3 DEF Opening, Making
      <4> QED BY <2>3, <2>s, <3>1, <3>3, <3>5, <3>9, <4>2, <4>4, <4>5 DEF Opening, Making
    <3>10. CASE jni[t].at = "using"
      <4>1. UNCHANGED <<codec_open, memory>> /\ \E j : jni' = [jni EXCEPT ![t] = j]
              /\ j.at = "out"
        BY <3>1, <3>10, CodecStepKinds DEF Typed
      <4> QED BY <2>3, <2>s, <3>1, <3>3, <3>4, <3>6, <3>10, <3>o, <3>u, <4>1 DEF Making
    <3>11. CASE jni[t].at = "uncounting" /\ ~OtherClosed(t)
      <4>1. jni[t].reg >= 2 /\ jni[t].reg \in Int
        BY <1>3, <1>t, <1>f, <2>1, <2>2, <3>11 DEF TwoUsers
      <4>2. PICK j : jni' = [jni EXCEPT ![t] = j] /\ j.at = "out"
        BY <3>1, <3>11, <4>1, CodecStepKinds DEF Typed
      <4>3. codec_open'[Offered] = jni[t].reg - 1 /\ UNCHANGED memory
        BY <1>t, <1>f, <3>1, <3>2, <3>11, CodecStepKinds DEF Typed
      <4>4. codec_open'[Offered] >= 1
        BY <4>1, <4>3
      <4>5. HasClosed(where[t], j.at) /\ memory'[Offered] = "made"
        BY <3>4, <3>8, <3>11, <4>2, <4>3 DEF Closing
      <4> QED BY <2>3, <2>s, <3>1, <3>3, <3>11, <4>2, <4>4, <4>5 DEF Making
    <3>12. CASE jni[t].at = "uncounting" /\ OtherClosed(t)
      <4>1. PICK j : jni' = [jni EXCEPT ![t] = j] /\ j.at \in {"out", "freeing"}
                     /\ (j.at # "out" => j.lib = Offered)
        BY <3>1, <3>2, <3>12, CodecStepKinds DEF Typed
      <4> QED BY <2>3, <2>s, <3>1, <3>2, <3>3, <3>8, <3>12, <4>1 DEF Closing, Making
    <3>13. CASE jni[t].at = "freeing"
      <4>1. PICK j : jni' = [jni EXCEPT ![t] = j] /\ j.at = "out"
        BY <3>1, <3>13, CodecStepKinds DEF Typed
      <4>2. Closed(t) /\ OtherClosed(t)
        BY <3>4, <3>13
      <4> QED BY <2>3, <2>s, <3>1, <3>2, <3>3, <3>8, <3>13, <4>1, <4>2 DEF Closing, Making
    <3>14. CASE jni[t].at \in {"making", "initialising"}
      BY <3>4, <3>5, <3>14 DEF Opening, Making
    <3> QED BY <1>t, <3>1, <3>2, <3>9, <3>10, <3>11, <3>12, <3>13, <3>14 DEF Places
  <2> USE DEF Moves, uiVars, threadVars, codecVars
  <2>4. CASE SenderStarts(t) \/ SetCodec(t)
    BY <1>f, <2>1, <2>3, <2>4, <2>o DEF SenderStarts, SetCodec
  <2>5. CASE SenderSetUp(t) \/ CodecSet(t) \/ Ended(t)
    BY <2>3, <2>5, <2>m
       DEF SenderSetUp, CodecSet, Ended, Outside, MediaPlaces, HasClosed, Unopened
  <2>6. CASE SendPacket(t) \/ PacketSent(t) \/ ReceiverStarts(t) \/ Emptied(t) \/ Drained(t)
    BY <2>6, <2>m DEF SendPacket, PacketSent, ReceiverStarts, Emptied, Drained, MediaPlaces,
                      HasClosed, Unopened
  <2>7. CASE EmptyMore(t)
    BY <1>q, <1>3, <2>7 DEF EmptyMore, UiCounted, TwoUsers
  <2>8. CASE ReceivePacket(t) \/ PacketReceived(t) \/ NothingReceived(t) \/ SilenceEnds(t)
    BY <2>8, <2>m DEF ReceivePacket, PacketReceived, NothingReceived, SilenceEnds, MediaPlaces,
                      HasClosed, Unopened
  <2>9. CASE SilenceCounted(t) \/ Skip(t) \/ SameType(t) \/ Decoded(t)
    BY <2>9, <2>m DEF SilenceCounted, Skip, SameType, Decoded, MediaPlaces, HasClosed, Unopened
  <2>10. CASE Encode(t) \/ Decode(t)
    BY <1>f, <2>1, <2>10, <2>e DEF Encode, Decode
  <2>11. CASE CloseCodec(t)
    BY <1>f, <2>1, <2>11, <2>d DEF CloseCodec
  <2>12. ~OtherType(t) /\ ~Change(t)
    BY <1>1, <2>3 DEF OtherType, Change
  <2>13. CASE MicrophoneDenied(t) \/ KeepPacket(t) \/ WaitForMode(t)
    BY <2>13, <2>m DEF MicrophoneDenied, KeepPacket, WaitForMode, MediaPlaces, HasClosed, Unopened
  <2>14. CASE RepeatPacket(t) \/ SendAgain(t)
    BY <2>14, <2>m DEF RepeatPacket, SendAgain, MediaPlaces, HasClosed, Unopened
  <2> QED BY <1>7, <2>4, <2>5, <2>6, <2>7, <2>8, <2>9, <2>10, <2>11, <2>12,
             <2>13, <2>14, <2>i
          DEF MediaStep
<1> QED BY <1>2, <1>4, <1>5, <1>6, <1>7 DEF Next

-----------------------------------------------------------------------------
(* The sockets.  A number that close() has still to give back is not yet   *)
(* free, so it is neither handed out again nor that of another socket; and *)
(* a thread that has fetched the number of a socket that is still open has *)
(* the one the field holds, since a socket is made once.                   *)

UncreatedIsClosed ==
  \A s \in Sockets :
    s \notin created => descriptor[s] = NoFd /\ closing[s] = NoFd

OpenIsOwned ==
  \A s \in Sockets : descriptor[s] # NoFd => owner[descriptor[s]] = s

ClosingIsOwned ==
  \A s \in Sockets :
    closing[s] # NoFd => owner[closing[s]] = s /\ closing[s] # descriptor[s]

FetchedIsCurrent ==
  \A t \in SocketUsers :
    io[t].at \in {"recv", "sendto"} =>
      /\ io[t].sock \in created
      /\ descriptor[io[t].sock] # NoFd => io[t].handle = descriptor[io[t].sock]

InUse(t) == io[t].at \in {"select", "recv", "sendto"}

CallsHaveSockets ==
  \A t \in SocketUsers :
    /\ io[t].at # "out" => io[t].sock \in Sockets
    /\ InUse(t) => io[t].handle \in Fds
    /\ io[t].at = "blocked" => io[t].file \in Sockets

SocketInv ==
  /\ SocketTypeOK
  /\ UncreatedIsClosed
  /\ OpenIsOwned
  /\ ClosingIsOwned
  /\ FetchedIsCurrent
  /\ CallsHaveSockets

\* What the invariant is for.
LEMMA InvGivesOwn == SocketInv => OpenMeansOwn
BY DEF SocketInv, OpenIsOwned, FetchedIsCurrent, CallsHaveSockets, OpenMeansOwn

\* Before a socket is made none has a number.
LEMMA InitGivesInv == SocketInit => SocketInv
BY SocketAssumption, NobodyIsNoSocket
   DEF SocketInit, SocketInv, SocketTypeOK, UncreatedIsClosed, OpenIsOwned,
       ClosingIsOwned, FetchedIsCurrent, CallsHaveSockets, InUse, NoIo, NoFd,
       Nobody, IoPlaces

-----------------------------------------------------------------------------
(* The steps that change what a number stands for.                         *)

\* create() keeps the invariant of the sockets.
LEMMA CreateKeeps ==
  ASSUME SocketInv, NEW s \in Sockets, CreateSocket(s)
  PROVE  SocketInv'
<1> USE SocketAssumption, NobodyIsNoSocket
    DEF SocketInv, CreateSocket, NoFd, Nobody, InUse
<1>1. PICK n \in Fds :
        /\ owner[n] = Nobody
        /\ descriptor' = [descriptor EXCEPT ![s] = n]
        /\ owner' = [owner EXCEPT ![n] = s]
  OBVIOUS
<1>2. SocketTypeOK'
  BY <1>1 DEF SocketTypeOK, IoPlaces
<1>3. UncreatedIsClosed'
  BY <1>1 DEF SocketTypeOK, UncreatedIsClosed
<1>4. OpenIsOwned'
  BY <1>1 DEF SocketTypeOK, OpenIsOwned
<1>5. ClosingIsOwned'
  BY <1>1 DEF SocketTypeOK, ClosingIsOwned, UncreatedIsClosed
<1>6. FetchedIsCurrent'
  BY <1>1 DEF SocketTypeOK, FetchedIsCurrent
<1>7. CallsHaveSockets'
  BY DEF SocketTypeOK, CallsHaveSockets
<1> QED
  BY <1>2, <1>3, <1>4, <1>5, <1>6, <1>7

\* So does the first half of close(), which clears the field,
LEMMA ForgetKeeps ==
  ASSUME SocketInv, NEW s \in Sockets, ForgetHandle(s)
  PROVE  SocketInv'
<1> USE SocketAssumption, NobodyIsNoSocket
    DEF SocketInv, ForgetHandle, NoFd, Nobody, InUse
<1>1. SocketTypeOK'
  BY DEF SocketTypeOK, IoPlaces
<1>2. UncreatedIsClosed'
  BY DEF SocketTypeOK, UncreatedIsClosed
<1>3. OpenIsOwned'
  BY DEF SocketTypeOK, OpenIsOwned
<1>4. ClosingIsOwned'
  BY DEF SocketTypeOK, ClosingIsOwned, OpenIsOwned
<1>5. FetchedIsCurrent'
  BY DEF SocketTypeOK, FetchedIsCurrent
<1>6. CallsHaveSockets'
  BY DEF SocketTypeOK, CallsHaveSockets
<1> QED
  BY <1>1, <1>2, <1>3, <1>4, <1>5, <1>6

\* and the second, which gives the number back.
LEMMA GiveBackKeeps ==
  ASSUME SocketInv, NEW s \in Sockets, GiveBack(s)
  PROVE  SocketInv'
<1> USE SocketAssumption, NobodyIsNoSocket
    DEF SocketInv, GiveBack, NoFd, Nobody, InUse
<1>1. SocketTypeOK'
  BY DEF SocketTypeOK, IoPlaces
<1>2. UncreatedIsClosed'
  BY DEF SocketTypeOK, UncreatedIsClosed
<1>3. OpenIsOwned'
  \* A number is given back by its owner, which does not have it any more.
  BY DEF SocketTypeOK, OpenIsOwned, ClosingIsOwned
<1>4. ClosingIsOwned'
  BY DEF SocketTypeOK, ClosingIsOwned
<1>5. FetchedIsCurrent'
  BY DEF SocketTypeOK, FetchedIsCurrent
<1>6. CallsHaveSockets'
  BY DEF SocketTypeOK, CallsHaveSockets
<1> QED
  BY <1>1, <1>2, <1>3, <1>4, <1>5, <1>6

\* So does a datagram that arrives.
LEMMA ArriveKeeps ==
  ASSUME SocketInv, NEW s \in Sockets, Arrive(s)
  PROVE  SocketInv'
<1> USE SocketAssumption DEF SocketInv, Arrive, InUse
<1>1. SocketTypeOK'
  BY DEF SocketTypeOK, IoPlaces
<1>2. UncreatedIsClosed' /\ OpenIsOwned' /\ ClosingIsOwned'
  BY DEF UncreatedIsClosed, OpenIsOwned, ClosingIsOwned
<1>3. FetchedIsCurrent' /\ CallsHaveSockets'
  BY DEF FetchedIsCurrent, CallsHaveSockets
<1> QED
  BY <1>1, <1>2, <1>3

-----------------------------------------------------------------------------
(* The steps of a thread change only `io' and the queues.                  *)

\* Where a thread's call may stand.
CallTypeOK(req) ==
  req \in [at : IoPlaces, sock : Sockets \cup {Nobody},
            handle : Fds \cup {NoFd}, file : Sockets \cup {Nobody}]

CallIsSound(req) ==
  /\ req.at \in {"recv", "sendto"} =>
       /\ req.sock \in created
       /\ descriptor[req.sock] # NoFd => req.handle = descriptor[req.sock]
  /\ req.at # "out" => req.sock \in Sockets
  /\ req.at \in {"select", "recv", "sendto"} => req.handle \in Fds
  /\ req.at = "blocked" => req.file \in Sockets

\* What the invariant says of the call one thread is in.
LEMMA CallsAreSound ==
  ASSUME SocketInv, NEW t \in SocketUsers
  PROVE  CallTypeOK(io[t]) /\ CallIsSound(io[t])
BY DEF SocketInv, SocketTypeOK, FetchedIsCurrent, CallsHaveSockets, InUse,
       CallTypeOK, CallIsSound

\* A step of a thread that leaves its call sound keeps the invariant.
LEMMA ThreadKeeps ==
  ASSUME SocketInv, NEW t \in SocketUsers, NEW req,
         CallTypeOK(req), CallIsSound(req),
         io' = [io EXCEPT ![t] = req],
         UNCHANGED <<created, descriptor, owner, closing>>,
         queue' \in [Sockets -> 0 .. MaxQueue]
  PROVE  SocketInv'
<1> USE DEF SocketInv, CallTypeOK, CallIsSound
<1>1. SocketTypeOK'
  BY DEF SocketTypeOK
<1>2. UncreatedIsClosed' /\ OpenIsOwned' /\ ClosingIsOwned'
  BY DEF UncreatedIsClosed, OpenIsOwned, ClosingIsOwned
<1>3. FetchedIsCurrent'
  BY DEF FetchedIsCurrent, SocketTypeOK
<1>4. CallsHaveSockets'
  BY DEF CallsHaveSockets, InUse, SocketTypeOK
<1> QED
  BY <1>1, <1>2, <1>3, <1>4

\* What the fetch of a number gives.
LEMMA FetchIsSound ==
  ASSUME SocketInv, NEW s \in Sockets
  PROVE  /\ descriptor[s] \in Fds \cup {NoFd}
         /\ descriptor[s] # NoFd => s \in created
BY DEF SocketInv, SocketTypeOK, UncreatedIsClosed

\* The queues are bounded.
LEMMA QueueTypeCorrect ==
  ASSUME SocketInv
  PROVE  queue \in [Sockets -> 0 .. MaxQueue]
BY DEF SocketInv, SocketTypeOK

\* A receive or send that begins keeps the invariant.
LEMMA ReceiveAndSendKeep ==
  ASSUME SocketInv, NEW t \in SocketUsers, NEW s \in Sockets,
         Receive(t, s) \/ Send(t, s)
  PROVE  SocketInv'
<1>0. CallTypeOK(io[t]) /\ CallIsSound(io[t])
  BY CallsAreSound
<1>1. CASE Receive(t, s)
  <2> DEFINE req == [NoIo EXCEPT !.at = "poll", !.sock = s]
  <2>1. CallTypeOK(req) /\ CallIsSound(req)
    BY <1>0, <1>1 DEF Receive, CallTypeOK, CallIsSound, IoPlaces, Nobody, NoIo
  <2>2. io' = [io EXCEPT ![t] = req] /\ UNCHANGED <<created, descriptor, owner, closing>>
    BY <1>0, <1>1 DEF Receive, NoIo, IoGoes, CallTypeOK
  <2>3. queue' \in [Sockets -> 0 .. MaxQueue]
    BY <1>1, QueueTypeCorrect, SocketAssumption, <1>0
       DEF Receive, CallTypeOK, CallIsSound, SocketInv, SocketTypeOK
  <2> QED
    BY <2>1, <2>2, <2>3, ThreadKeeps
<1>2. CASE Send(t, s)
  <2> DEFINE req == [NoIo EXCEPT !.sock = s, !.handle = descriptor[s],
                  !.at = IF descriptor[s] = NoFd THEN "exception" ELSE "sendto"]
  <2>1. CallTypeOK(req) /\ CallIsSound(req)
    BY <1>0, <1>2, FetchIsSound DEF Send, CallTypeOK, CallIsSound, IoPlaces, Nobody, NoIo
  <2>2. io' = [io EXCEPT ![t] = req] /\ UNCHANGED <<created, descriptor, owner, closing>>
    BY <1>0, <1>2 DEF Send, NoIo, IoGoes, CallTypeOK
  <2>3. queue' \in [Sockets -> 0 .. MaxQueue]
    BY <1>2, QueueTypeCorrect, SocketAssumption, <1>0
       DEF Send, CallTypeOK, CallIsSound, SocketInv, SocketTypeOK
  <2> QED
    BY <2>1, <2>2, <2>3, ThreadKeeps
<1> QED
  BY <1>1, <1>2

\* So does every step inside one.
LEMMA IoStepKeeps ==
  ASSUME SocketInv, NEW t \in SocketUsers, IoStep(t)
  PROVE  SocketInv'
<1>0. CallTypeOK(io[t]) /\ CallIsSound(io[t])
  BY CallsAreSound
<1>1. CASE PollFetch(t)
  <2> DEFINE req == [io[t] EXCEPT !.handle = descriptor[io[t].sock],
                  !.at = IF descriptor[io[t].sock] = NoFd THEN "exception" ELSE "select"]
  <2>1. CallTypeOK(req) /\ CallIsSound(req)
    BY <1>0, <1>1, FetchIsSound DEF PollFetch, CallTypeOK, CallIsSound, IoPlaces, Nobody
  <2>2. io' = [io EXCEPT ![t] = req] /\ UNCHANGED <<created, descriptor, owner, closing>>
    BY <1>0, <1>1 DEF PollFetch, NoIo, IoGoes, CallTypeOK
  <2>3. queue' \in [Sockets -> 0 .. MaxQueue]
    BY <1>1, QueueTypeCorrect, SocketAssumption, <1>0
       DEF PollFetch, CallTypeOK, CallIsSound, SocketInv, SocketTypeOK
  <2> QED
    BY <2>1, <2>2, <2>3, ThreadKeeps
<1>2. CASE SelectEnters(t)
  <2> DEFINE req == [io[t] EXCEPT !.file = owner[io[t].handle],
                  !.at = IF owner[io[t].handle] = Nobody THEN "exception" ELSE @]
  <2>1. CallTypeOK(req) /\ CallIsSound(req)
    BY <1>0, <1>2
       DEF SelectEnters, CallTypeOK, CallIsSound, IoPlaces, Nobody, SocketInv, SocketTypeOK
  <2>2. io' = [io EXCEPT ![t] = req] /\ UNCHANGED <<created, descriptor, owner, closing>>
    BY <1>0, <1>2 DEF SelectEnters, NoIo, IoGoes, CallTypeOK
  <2>3. queue' \in [Sockets -> 0 .. MaxQueue]
    BY <1>2, QueueTypeCorrect, SocketAssumption, <1>0
       DEF SelectEnters, CallTypeOK, CallIsSound, SocketInv, SocketTypeOK
  <2> QED
    BY <2>1, <2>2, <2>3, ThreadKeeps
<1>3. CASE SelectReady(t)
  <2> DEFINE req == [io[t] EXCEPT !.at = "ready", !.file = Nobody]
  <2>1. CallTypeOK(req) /\ CallIsSound(req)
    BY <1>0, <1>3 DEF SelectReady, CallTypeOK, CallIsSound, IoPlaces, Nobody
  <2>2. io' = [io EXCEPT ![t] = req] /\ UNCHANGED <<created, descriptor, owner, closing>>
    BY <1>0, <1>3 DEF SelectReady, NoIo, IoGoes, CallTypeOK
  <2>3. queue' \in [Sockets -> 0 .. MaxQueue]
    BY <1>3, QueueTypeCorrect, SocketAssumption, <1>0
       DEF SelectReady, CallTypeOK, CallIsSound, SocketInv, SocketTypeOK
  <2> QED
    BY <2>1, <2>2, <2>3, ThreadKeeps
<1>4. CASE SelectTimeout(t)
  <2> DEFINE req == [io[t] EXCEPT !.at = "poll", !.file = Nobody]
  <2>1. CallTypeOK(req) /\ CallIsSound(req)
    BY <1>0, <1>4 DEF SelectTimeout, CallTypeOK, CallIsSound, IoPlaces, Nobody
  <2>2. io' = [io EXCEPT ![t] = req] /\ UNCHANGED <<created, descriptor, owner, closing>>
    BY <1>0, <1>4 DEF SelectTimeout, NoIo, IoGoes, CallTypeOK
  <2>3. queue' \in [Sockets -> 0 .. MaxQueue]
    BY <1>4, QueueTypeCorrect, SocketAssumption, <1>0
       DEF SelectTimeout, CallTypeOK, CallIsSound, SocketInv, SocketTypeOK
  <2> QED
    BY <2>1, <2>2, <2>3, ThreadKeeps
<1>5. CASE ReceiveTimeout(t)
  <2> DEFINE req == [io[t] EXCEPT !.at = "exception", !.file = Nobody]
  <2>1. CallTypeOK(req) /\ CallIsSound(req)
    BY <1>0, <1>5 DEF ReceiveTimeout, CallTypeOK, CallIsSound, IoPlaces, Nobody
  <2>2. io' = [io EXCEPT ![t] = req] /\ UNCHANGED <<created, descriptor, owner, closing>>
    BY <1>0, <1>5 DEF ReceiveTimeout, NoIo, IoGoes, CallTypeOK
  <2>3. queue' \in [Sockets -> 0 .. MaxQueue]
    BY <1>5, QueueTypeCorrect, SocketAssumption, <1>0
       DEF ReceiveTimeout, CallTypeOK, CallIsSound, SocketInv, SocketTypeOK
  <2> QED
    BY <2>1, <2>2, <2>3, ThreadKeeps
<1>6. CASE RecvFetch(t)
  <2> DEFINE req == [io[t] EXCEPT !.handle = descriptor[io[t].sock],
                  !.at = IF descriptor[io[t].sock] = NoFd THEN "exception" ELSE "recv"]
  <2>1. CallTypeOK(req) /\ CallIsSound(req)
    BY <1>0, <1>6, FetchIsSound DEF RecvFetch, CallTypeOK, CallIsSound, IoPlaces, Nobody
  <2>2. io' = [io EXCEPT ![t] = req] /\ UNCHANGED <<created, descriptor, owner, closing>>
    BY <1>0, <1>6 DEF RecvFetch, NoIo, IoGoes, CallTypeOK
  <2>3. queue' \in [Sockets -> 0 .. MaxQueue]
    BY <1>6, QueueTypeCorrect, SocketAssumption, <1>0
       DEF RecvFetch, CallTypeOK, CallIsSound, SocketInv, SocketTypeOK
  <2> QED
    BY <2>1, <2>2, <2>3, ThreadKeeps
<1>7. CASE Recv(t)
  <2> DEFINE req == LET there == owner[io[t].handle] # Nobody /\ queue[owner[io[t].handle]] > 0 IN
          [io[t] EXCEPT !.file = IF there THEN Nobody ELSE owner[io[t].handle],
                        !.at = IF owner[io[t].handle] = Nobody THEN "exception"
                               ELSE IF there THEN "packet" ELSE "blocked"]
  <2>1. CallTypeOK(req) /\ CallIsSound(req)
    BY <1>0, <1>7 DEF Recv, CallTypeOK, CallIsSound, IoPlaces, Nobody, SocketInv, SocketTypeOK
  <2>2. io' = [io EXCEPT ![t] = req] /\ UNCHANGED <<created, descriptor, owner, closing>>
    BY <1>0, <1>7 DEF Recv, NoIo, IoGoes, CallTypeOK
  <2>3. queue' \in [Sockets -> 0 .. MaxQueue]
    BY <1>7, QueueTypeCorrect, SocketAssumption, <1>0
       DEF Recv, CallTypeOK, CallIsSound, SocketInv, SocketTypeOK
  <2> QED
    BY <2>1, <2>2, <2>3, ThreadKeeps
<1>8. CASE RecvWakes(t)
  <2> DEFINE req == [io[t] EXCEPT !.at = "packet", !.file = Nobody]
  <2>1. CallTypeOK(req) /\ CallIsSound(req)
    BY <1>0, <1>8 DEF RecvWakes, CallTypeOK, CallIsSound, IoPlaces, Nobody
  <2>2. io' = [io EXCEPT ![t] = req] /\ UNCHANGED <<created, descriptor, owner, closing>>
    BY <1>0, <1>8 DEF RecvWakes, NoIo, IoGoes, CallTypeOK
  <2>3. queue' \in [Sockets -> 0 .. MaxQueue]
    BY <1>8, QueueTypeCorrect, SocketAssumption, <1>0
       DEF RecvWakes, CallTypeOK, CallIsSound, SocketInv, SocketTypeOK
  <2> QED
    BY <2>1, <2>2, <2>3, ThreadKeeps
<1>9. CASE SendTo(t)
  <2>1. PICK place \in {"packet", "exception"} : IoGoes(t, place)
    BY <1>9 DEF SendTo
  <2> DEFINE req == [io[t] EXCEPT !.at = place]
  <2>2. CallTypeOK(req) /\ CallIsSound(req)
    BY <1>0, <1>9 DEF SendTo, CallTypeOK, CallIsSound, IoPlaces
  <2>3. io' = [io EXCEPT ![t] = req] /\ UNCHANGED <<created, descriptor, owner, closing, queue>>
    BY <1>9, <2>1 DEF SendTo, IoGoes
  <2> QED
    BY <2>2, <2>3, ThreadKeeps, QueueTypeCorrect
<1> QED
  BY <1>1, <1>2, <1>3, <1>4, <1>5, <1>6, <1>7, <1>8, <1>9 DEF IoStep

\* So does its end.
LEMMA DoneKeeps ==
  ASSUME SocketInv, NEW t \in SocketUsers, NEW result, IoDone(t, result)
  PROVE  SocketInv'
<1>1. CallTypeOK(NoIo) /\ CallIsSound(NoIo)
  BY DEF CallTypeOK, CallIsSound, NoIo, IoPlaces, Nobody
<1> QED
  BY <1>1, ThreadKeeps, QueueTypeCorrect DEF IoDone

\* Every use of the sockets keeps the invariant.
LEMMA NextKeepsInv ==
  ASSUME SocketInv, [SocketNext]_socketVars
  PROVE  SocketInv'
<1>1. CASE UNCHANGED socketVars
  BY <1>1 DEF socketVars, SocketInv, SocketTypeOK, UncreatedIsClosed, OpenIsOwned,
              ClosingIsOwned, FetchedIsCurrent, CallsHaveSockets, InUse
<1>2. CASE SocketNext
  BY <1>2, CreateKeeps, ForgetKeeps, GiveBackKeeps, ArriveKeeps, IoStepKeeps,
     ReceiveAndSendKeep, DoneKeeps DEF SocketNext
<1> QED
  BY <1>1, <1>2

-----------------------------------------------------------------------------
(* The inductive invariant.                                                *)

IInv ==
  /\ CoreInv
  /\ SilenceInv
  /\ OneUserInv
  /\ TwoUsersInv
  /\ SocketInv

\* The invariant holds before the first call.
LEMMA InitHolds == Init => IInv
<1> SUFFICES ASSUME Init PROVE IInv
  OBVIOUS
<1>0. /\ scenario \in Scenarios /\ scenario.last \in Calls /\ call = Min(Calls) /\ call \in Calls
      /\ call = First /\ call <= scenario.last
  <2>1. scenario \in Scenarios /\ scenario.last \in Calls
    BY ScenarioFacts DEF Init
  <2>2. Min(Calls) = 1 /\ 1 \in Calls /\ \A k \in Calls : 1 <= k
    BY <2>1, CallFacts
  <2> QED BY <2>1, <2>2 DEF Init, First
<1>1. CodecTypeOK
  BY OfferedIsCodec DEF Init, CodecInit, CodecTypeOK, MemoryStates, Places, Out
<1>2. FlowTypeOK
  BY <1>0, OfferedIsCodec, MediaAssumption
     DEF Init, FlowTypeOK, UiPlaces, MediaPlaces, NoThread
<1>3. \A t \in Threads : jni[t].at = "out"
  BY DEF Init, CodecInit, Out
<1>4. PlacesInv
  BY <1>0, <1>3, ThreadFacts
     DEF Init, PlacesInv, InPlace, MayBe, Born, Opening, Closing, SenderPlaces, ReceiverPlaces,
         MediaPlaces
<1>5. UiInv
  BY DEF Init, UiInv
<1>6. SilenceInv
  <2>1. Cardinality(LeftLoop) \in Nat
    BY LeftIsFinite DEF LeftLoop
  <2>2. MostSilence \in Nat
    BY <2>1, MediaAssumption DEF MostSilence
  <2> HIDE DEF MostSilence
  <2> QED BY <2>2 DEF Init, SilenceInv
<1>7. ~UiCounted /\ \A c \in Codecs : codec_open[c] = 0
  BY DEF Init, CodecInit, UiCounted
<1>8. R1 \in MediaThreads /\ R1 \in Threads /\ Ui \in Threads /\ First \in Calls
  BY <1>0, FirstFacts
<1>9. OneUserInv
  <2>1. ~Holds(where[R1], jni[R1].at)
    BY <1>8 DEF Init, Holds
  <2> QED BY <1>3, <1>7, <1>8, <2>1 DEF Init, OneUserInv, OneUser, Users, Bit
<1>10. TwoUsersInv
  <2>1. Pair \subseteq MediaThreads /\ MediaThreads \subseteq Threads /\ Offered \in Codecs
    BY ThreadFacts, OfferedIsCodec DEF Pair
  <2> QED BY <1>3, <1>7, <1>8, <2>1 DEF Init, TwoUsersInv, TwoUsers
<1>11. SocketInv
  BY InitGivesInv DEF Init
<1> QED BY <1>1, <1>2, <1>4, <1>5, <1>6, <1>9, <1>10, <1>11 DEF IInv, CoreInv, Typed

\* Every step keeps the invariant.
LEMMA StepHolds == IInv /\ [Next]_vars => IInv'
<1> SUFFICES ASSUME IInv, [Next]_vars PROVE IInv'
  OBVIOUS
<1>1. CASE Next
  <2>1. CoreInv /\ Typed /\ PlacesInv /\ UiInv /\ FlowTypeOK /\ CodecTypeOK /\ SilenceInv
        /\ OneUserInv /\ TwoUsersInv /\ SocketInv
    BY DEF IInv, CoreInv, Typed
  <2>2. Typed'
    <3>1. CodecTypeOK'
      BY <1>1, <2>1, UsesCodecs, CodecsTyped
    <3>2. call <= scenario.last
      BY <2>1 DEF PlacesInv
    <3>3. FlowTypeOK'
      BY <1>1, <2>1, <3>2, FlowTyped
    <3> QED BY <3>1, <3>3 DEF Typed
  <2>3. PlacesInv' /\ UiInv'
    BY <1>1, <2>1, PlacesStay, UiStays
  <2>4. SilenceInv'
    BY <1>1, <2>1, SilenceStays
  <2>5. OneUserInv' /\ TwoUsersInv'
    BY <1>1, <2>1, <2>2, OneUserStays, TwoUsersStay
  <2>6. SocketInv'
    BY <1>1, <2>1, UsesSockets, NextKeepsInv
  <2> QED BY <2>2, <2>3, <2>4, <2>5, <2>6 DEF IInv, CoreInv
<1>2. CASE UNCHANGED vars
  <2>1. /\ UNCHANGED <<codec_open, memory, jni>>
        /\ UNCHANGED <<created, descriptor, owner, closing, queue, io>>
        /\ UNCHANGED <<ui, call, toggles, where, running, halted, p_type, timeout, read, lock,
                       scenario>>
    BY <1>2 DEF vars, codecVars, socketVars, threadVars, uiVars, flagVars, silenceVars
  <2>2. CodecTypeOK' /\ FlowTypeOK' /\ PlacesInv' /\ UiInv'
    BY <2>1 DEF IInv, CoreInv, Typed, CodecTypeOK, FlowTypeOK, PlacesInv, InPlace, Born, UiInv
  <2>3. SilenceInv'
    BY <2>1 DEF IInv, SilenceInv, MostSilence, LeftLoop
  <2>4. OneUserInv'
    BY <2>1 DEF IInv, OneUserInv, OneUser, FirstCall, UiCounted
  <2>5. TwoUsersInv'
    <3>1. /\ FirstCall' <=> FirstCall
          /\ UiCounted' <=> UiCounted
          /\ \A t : Closed(t)' <=> Closed(t)
      BY <2>1 DEF FirstCall, UiCounted, Closed
    <3>2. \A t : OtherClosed(t)' <=> OtherClosed(t)
      BY <3>1 DEF OtherClosed, Pair
    <3>3. BothClosed' <=> BothClosed
      BY <3>1, <3>2 DEF BothClosed, Pair
    <3> QED BY <2>1, <3>1, <3>2, <3>3 DEF IInv, TwoUsersInv, TwoUsers, Pair, First
  <2>6. SocketInv'
    BY <2>1, NextKeepsInv DEF IInv, socketVars
  <2> QED BY <2>2, <2>3, <2>4, <2>5, <2>6 DEF IInv, CoreInv, Typed
<1> QED BY <1>1, <1>2

-----------------------------------------------------------------------------
\* What the threads, the sockets and the codecs of all calls keep to, together:
\* the inductive invariant.
THEOREM Invariant == Spec => []IInv
BY InitHolds, StepHolds, PTL DEF Spec

\* The variables keep to their types; in particular the count of silent
\* receives, which the receivers of all calls share and write without a lock,
\* exceeds its limit by one for each receiver that has left its loop, at most.
THEOREM TypeCorrect == Spec => []TypeOK
<1>1. IInv => TypeOK
  BY SilenceTyped, TypeOKParts DEF IInv, CoreInv, Typed, SocketInv
<1> QED BY Invariant, <1>1, PTL

\* The threads of the media use their sockets as DatagramSocket allows: what
\* holds of any use of the sockets holds of theirs.
THEOREM MediaUsesSockets == Spec => SocketSpec
<1>1. Init => SocketInit
  BY DEF Init
<1>2. IInv /\ [Next]_vars => [SocketNext]_socketVars
  <2> SUFFICES ASSUME IInv, [Next]_vars PROVE [SocketNext]_socketVars
    OBVIOUS
  <2>1. CASE Next
    BY <2>1, UsesSockets DEF IInv, CoreInv, Typed
  <2>2. CASE UNCHANGED vars
    BY <2>2 DEF vars
  <2> QED BY <2>1, <2>2
<1> QED BY Invariant, <1>1, <1>2, PTL DEF Spec, SocketSpec, socketVars

\* However sockets are made, closed and used, and by however many threads,
\* an open socket's number reaches that socket: socketCloseImpl() forgets a
\* number before the kernel may give it to another.
THEOREM OpenSocketsAreOwn == SocketSpec => []OpenMeansOwn
BY InvGivesOwn, InitGivesInv, NextKeepsInv, PTL DEF SocketSpec, socketVars

\* So do the sockets of the calls, whose threads are not waited for.
THEOREM CallsReachTheirSockets == Spec => []OpenMeansOwn
BY MediaUsesSockets, OpenSocketsAreOwn, PTL

\* In the first call the states of a codec are made while a thread encodes or
\* decodes, where a receiver alone uses it or where the answer has opened it
\* before sender and receiver do, although codec_open is counted without a lock.
THEOREM CodecsAreMadeWhenUsed == Spec => []SteadyUseIsMade
<1>1. IInv => SteadyUseIsMade
  <2> SUFFICES ASSUME IInv, call = Min(Calls), toggles = 0, NEW t \in Threads,
                      jni[t].at = "using",
                      \/ scenario.duplex = {}
                      \/ call \in scenario.answered /\ ~scenario.changing
               PROVE  memory[jni[t].lib] = "made"
    BY DEF SteadyUseIsMade, UsedIsMade
  <2> USE DEF IInv, CoreInv
  <2>1. FirstCall /\ First = call /\ call \in Calls
    BY DEF FirstCall, First, Typed, FlowTypeOK
  <2>2. t \in MediaThreads /\ t # Ui
    BY ThreadFacts DEF PlacesInv, Opening
  <2>3. where[t] \in {"encoding", "decoding"}
    BY <2>2 DEF PlacesInv, InPlace, MayBe
  <2>4. t = R1 \/ (t = S1 /\ t \in Senders /\ First \in scenario.duplex)
    BY <2>1, <2>2, <2>3, OnlyTheFirst
  <2>5. ui # "idle"
    BY <2>1, <2>2, <2>3, OnlyTheFirst
  <2>6. jni[Ui].at = "out" /\ UiCounted
    <3>1. CallOf(t) = call
      BY <2>1, <2>4, FirstFacts DEF S1, Sender, CallOf
    <3>2. ui \notin {"answering", "toggling"}
      BY <2>2, <2>3, <3>1 DEF PlacesInv, InPlace, Born, Going, UiInv
    <3> QED BY <2>5, <3>2 DEF PlacesInv, UiCounted
  <2>7. CASE scenario.duplex = {}
    <3>1. t = R1 /\ OneUser /\ R1 \in Receivers /\ p_type[First] \in Codecs /\ First \in Calls
      BY <2>1, <2>4, <2>7, FirstFacts DEF OneUserInv, Typed, FlowTypeOK
    <3>2. jni[t].lib = p_type[First] /\ Holds(where[t], jni[t].at)
      BY <2>3, <3>1 DEF OneUser, Users, Holds
    <3>3. codec_open[p_type[First]] # 0
      BY <3>1, <3>2 DEF OneUser, Bit
    <3>4. \A u \in Users : jni[u].at \notin Making
      BY <2>6, <3>1 DEF Users, Making
    <3> QED BY <3>1, <3>2, <3>3, <3>4 DEF OneUser
  <2>8. CASE call \in scenario.answered /\ ~scenario.changing
    <3>1. TwoUsers /\ t \in Pair
      BY <2>1, <2>2, <2>4, <2>8 DEF TwoUsersInv, Pair
    <3>2. ~Closed(t) /\ \A u \in Pair : u # t => (OtherClosed(u) <=> Closed(t))
      <4>1. \A u, v \in Pair : u # t /\ v # t => u = v
        BY <3>1 DEF Pair
      <4> QED BY <2>3, <3>1, <4>1 DEF Closed, HasClosed, OtherClosed
    <3>3. ~BothClosed
      BY <3>2 DEF BothClosed
    <3> QED BY <2>6, <3>1, <3>3 DEF TwoUsers
  <2> QED BY <2>7, <2>8
<1> QED BY Invariant, <1>1, PTL
===============================================================================
