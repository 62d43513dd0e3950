----------------------------- MODULE MediaSession -----------------------------
(***************************************************************************)
(* The media of consecutive calls: UserAgent.java launches and closes it,  *)
(* JAudioLauncher.java starts and halts the threads of a call, of which    *)
(* RtpStreamSender.java encodes and sends and RtpStreamReceiver.java       *)
(* receives and decodes, over one UDP socket per call (DatagramSocket) and *)
(* native codecs shared by all of them (NativeCodec).                      *)
(*                                                                         *)
(* stopMedia() does not wait for the threads it halts, so those of a call  *)
(* that is over may still run when the next call starts.                   *)
(***************************************************************************)
EXTENDS NativeCodec, DatagramSocket, FiniteSetsExt

CONSTANTS
  Calls,       \* consecutive calls, in the order of their numbers
  Duplex,      \* those that may have a sender
  Scenarios,   \* what a run of the phone may be like
  MaxSilence,  \* the receives that may fail in a row, 60 in the code
  MaxToggles   \* bound on how often the user switches the speaker of a call

\* Of a scenario: the last call, the calls that have a sender (the media profile
\* may be to receive only), those the phone answers, whether the payload types
\* change, and how often the user switches the speaker.  The limit on silent
\* receives is positive, as setCodec() sets their count to 1.
ASSUME MediaAssumption ==
  /\ IsFiniteSet(Calls) /\ Calls = 1 .. Cardinality(Calls)
  /\ Duplex \subseteq Calls
  /\ Scenarios \subseteq [last : Calls, duplex : SUBSET Duplex,
                           answered : SUBSET Calls, changing : BOOLEAN,
                           toggles : 0 .. MaxToggles]
  /\ MaxSilence \in Nat \ {0}
  /\ MaxToggles \in Nat

Sender(k) == <<k, "sender">>
Receiver(k) == <<k, "receiver">>
Ui == <<0, "ui">>
NoThread == <<0, "nobody">>

Senders == {Sender(k) : k \in Duplex}
Receivers == {Receiver(k) : k \in Calls}
MediaThreads == Senders \cup Receivers
AllThreads == MediaThreads \cup {Ui}

\* The threads are those that use the codecs and, but for the user agent's,
\* the sockets, of which there is one per call.
ASSUME CompositionAssumption ==
  /\ Threads = AllThreads
  /\ SocketUsers = MediaThreads
  /\ Sockets = Calls

CallOf(t) == t[1]

VARIABLES
  ui,        \* where the thread of the user agent is
  call,      \* the call it is at
  where,     \* where each media thread is
  running,   \* RtpStreamSender.running, RtpStreamReceiver.running
  halted,    \* halt() has been called, and had `running' been set before?
  p_type,    \* Codecs.Map.codec of each call, shared by its two threads
  timeout,   \* RtpStreamReceiver.timeout, a static field
  read,      \* what a receiver has read of it in `++timeout'
  lock,      \* who is inside synchronized (receiver)
  toggles,   \* how often the speaker has been switched
  scenario   \* what is fixed at the start

codecVars == <<codec_open, memory, jni>>
socketVars == <<created, descriptor, owner, closing, queue, io>>
uiVars == <<ui, call, toggles>>
flagVars == <<running, halted>>
silenceVars == <<timeout, read>>
threadVars == <<uiVars, where, flagVars, p_type, silenceVars, lock>>
vars == <<codecVars, socketVars, threadVars, scenario>>

Offered == CHOOSE c \in Codecs : TRUE

UiPlaces == {"idle", "answering", "launching", "starting", "on", "toggling",
             "haltingReceiver", "closingSocket", "givingBack", "silent", "done"}

MediaPlaces == {"unborn", "started", "locking", "setup", "emptying", "loop",
                "receiving", "draining", "received", "counting", "got", "changing",
                "relocking", "resetup", "decode", "decoding", "encoding", "sending",
                "repeating", "resending", "leaving", "waiting", "closing", "ended"}

TypeOK ==
  /\ CodecTypeOK
  /\ SocketTypeOK
  /\ ui \in UiPlaces
  /\ call \in Calls
  /\ where \in [MediaThreads -> MediaPlaces]
  /\ running \in [MediaThreads -> BOOLEAN]
  /\ halted \in [MediaThreads -> {"no", "late", "early"}]
  /\ p_type \in [Calls -> Codecs]
  /\ timeout \in 0 .. MaxSilence + Cardinality(Receivers)
  /\ read \in [Receivers -> 0 .. MaxSilence + Cardinality(Receivers)]
  /\ lock \in [Calls -> Threads \cup {NoThread}]
  /\ toggles \in 0 .. MaxToggles

Init ==
  /\ CodecInit
  /\ SocketInit
  /\ ui = "idle"
  /\ call = Min(Calls)
  /\ where = [t \in MediaThreads |-> "unborn"]
  /\ running = [t \in MediaThreads |-> FALSE]
  /\ halted = [t \in MediaThreads |-> "no"]
  /\ p_type = [k \in Calls |-> Offered]
  /\ timeout = 0
  /\ read = [t \in Receivers |-> 0]
  /\ lock = [k \in Calls |-> NoThread]
  /\ toggles = 0
  /\ scenario \in Scenarios

Moves(t, from, to) ==
  /\ where[t] = from
  /\ where' = [where EXCEPT ![t] = to]

UiMoves(from, to) ==
  /\ ui = from
  /\ ui' = to

-----------------------------------------------------------------------------
(* The user agent's thread.                                                *)

\* addMediaDescriptor() of an answer opens the codec that has been chosen,
\* and nothing closes it.
Answer ==
  /\ call \in scenario.answered
  /\ UiMoves("idle", "answering")
  /\ Open(Ui, p_type[call])
  /\ UNCHANGED <<socketVars, call, where, flagVars, p_type, silenceVars, lock,
                 toggles, scenario>>

\* launchMediaApplication(): new JAudioLauncher() makes the socket ...
Launch ==
  /\ IF call \in scenario.answered THEN ui = "answering" ELSE ui = "idle"
  /\ Outside(Ui)
  /\ CreateSocket(call)
  /\ ui' \in {"launching", "silent"}
  /\ UNCHANGED <<codecVars, call, where, flagVars, p_type, silenceVars, lock,
                 toggles, scenario>>

\* ... which may fail to bind: the launcher has no threads then, and the
\* socket is closed when it is collected (PlainDatagramSocketImpl.finalize).
Finalize ==
  /\ UiMoves("silent", "givingBack")
  /\ ForgetHandle(call)
  /\ UNCHANGED <<codecVars, call, where, flagVars, p_type, silenceVars, lock,
                 toggles, scenario>>

\* startMedia().
StartSender ==
  /\ UiMoves("launching", "starting")
  /\ IF call \in scenario.duplex
     THEN Moves(Sender(call), "unborn", "started")
     ELSE UNCHANGED where
  /\ UNCHANGED <<codecVars, socketVars, call, flagVars, p_type, silenceVars,
                 lock, toggles, scenario>>

StartReceiver ==
  /\ UiMoves("starting", "on")
  /\ Moves(Receiver(call), "unborn", "started")
  /\ UNCHANGED <<codecVars, socketVars, call, flagVars, p_type, silenceVars,
                 lock, toggles, scenario>>

\* RtpStreamReceiver.speaker() calls setCodec(), which opens the codec once
\* more.
Toggle ==
  /\ toggles < scenario.toggles
  /\ toggles' = toggles + 1
  /\ UiMoves("on", "toggling")
  /\ lock[call] = NoThread
  /\ lock' = [lock EXCEPT ![call] = Ui]
  /\ Open(Ui, p_type[call])
  /\ UNCHANGED <<socketVars, call, where, flagVars, p_type, silenceVars, scenario>>

Toggled ==
  /\ UiMoves("toggling", "on")
  /\ Outside(Ui)
  /\ timeout' = 1
  /\ lock' = [lock EXCEPT ![call] = NoThread]
  /\ UNCHANGED <<codecVars, socketVars, call, where, flagVars, p_type, read,
                 toggles, scenario>>

\* stopMedia(): halt() of the sender, halt() of the receiver, close().
Halt(t) ==
  /\ halted' = [halted EXCEPT ![t] = IF running[t] \/ where[t] = "ended" THEN "late" ELSE "early"]
  /\ running' = [running EXCEPT ![t] = FALSE]

HaltSender ==
  /\ UiMoves("on", "haltingReceiver")
  /\ IF call \in scenario.duplex THEN Halt(Sender(call)) ELSE UNCHANGED <<flagVars>>
  /\ UNCHANGED <<codecVars, socketVars, call, where, p_type, silenceVars, lock,
                 toggles, scenario>>

HaltReceiver ==
  /\ UiMoves("haltingReceiver", "closingSocket")
  /\ Halt(Receiver(call))
  /\ UNCHANGED <<codecVars, socketVars, call, where, p_type, silenceVars, lock,
                 toggles, scenario>>

CloseSocket ==
  /\ UiMoves("closingSocket", "givingBack")
  /\ ForgetHandle(call)
  /\ UNCHANGED <<codecVars, call, where, flagVars, p_type, silenceVars, lock,
                 toggles, scenario>>

\* The close is complete, and the phone is ready for the next call.
SocketClosed ==
  /\ ui = "givingBack"
  /\ GiveBack(call)
  /\ IF call = scenario.last
     THEN ui' = "done" /\ UNCHANGED call
     ELSE ui' = "idle" /\ call' = call + 1
  /\ UNCHANGED <<codecVars, where, flagVars, p_type, silenceVars, lock,
                 toggles, scenario>>

UiStep ==
  \/ Answer
  \/ Launch
  \/ Finalize
  \/ StartSender
  \/ StartReceiver
  \/ Toggle
  \/ Toggled
  \/ HaltSender
  \/ HaltReceiver
  \/ CloseSocket
  \/ SocketClosed

-----------------------------------------------------------------------------
(* RtpStreamSender.run().                                                  *)

SenderStarts(t) ==
  /\ t \in Senders
  /\ Moves(t, "started", "setup")
  /\ running' = [running EXCEPT ![t] = TRUE]
  /\ Open(t, p_type[CallOf(t)])
  /\ UNCHANGED <<socketVars, uiVars, halted, p_type, silenceVars, lock, scenario>>

\* The codec is open.
SenderSetUp(t) ==
  /\ t \in Senders
  /\ Outside(t)
  /\ Moves(t, "setup", "loop")
  /\ UNCHANGED <<codecVars, socketVars, uiVars, flagVars, p_type, silenceVars,
                 lock, scenario>>

\* The microphone is opened by the first turn of the loop, and again by any
\* that finds `changed' set; if it is denied, the sender leaves.
MicrophoneDenied(t) ==
  /\ t \in Senders
  /\ running[t]
  /\ Moves(t, "loop", "leaving")
  /\ UNCHANGED <<codecVars, socketVars, uiVars, flagVars, p_type, silenceVars,
                 lock, scenario>>

Encode(t) ==
  /\ t \in Senders
  /\ running[t]
  /\ Moves(t, "loop", "encoding")
  /\ Use(t, p_type[CallOf(t)]) \/ UseRefused(t, p_type[CallOf(t)])
  /\ UNCHANGED <<socketVars, uiVars, flagVars, p_type, silenceVars, lock, scenario>>

SendPacket(t) ==
  /\ Outside(t)
  /\ Moves(t, "encoding", "sending")
  /\ Send(t, CallOf(t))
  /\ UNCHANGED <<codecVars, uiVars, flagVars, p_type, silenceVars, lock, scenario>>

\* While the peer is silent only two packets per second go out.
KeepPacket(t) ==
  /\ Outside(t)
  /\ timeout # 0
  /\ Moves(t, "encoding", "loop")
  /\ UNCHANGED <<codecVars, socketVars, uiVars, flagVars, p_type, silenceVars,
                 lock, scenario>>

\* An exception is caught and ignored.
PacketSent(t) ==
  /\ \E place \in {"sending", "resending"} : Moves(t, place, "loop")
  /\ \E result \in {"packet", "exception"} : IoDone(t, result)
  /\ UNCHANGED <<codecVars, uiVars, flagVars, p_type, silenceVars, lock, scenario>>

\* Over a line that loses packets each goes out twice.
RepeatPacket(t) ==
  /\ timeout = 0
  /\ Moves(t, "sending", "repeating")
  /\ IoDone(t, "packet")
  /\ UNCHANGED <<codecVars, uiVars, flagVars, p_type, silenceVars, lock, scenario>>

SendAgain(t) ==
  /\ Moves(t, "repeating", "resending")
  /\ Send(t, CallOf(t))
  /\ UNCHANGED <<codecVars, uiVars, flagVars, p_type, silenceVars, lock, scenario>>

\* The audio mode may be that of a call until the receivers restore it.
AudioInCall == \E t \in Receivers : where[t] \notin {"unborn", "ended"}

\* On an old phone a sender that has left its loop sleeps as long.
WaitForMode(t) ==
  /\ t \in Senders
  /\ AudioInCall
  /\ \/ ~running[t] /\ Moves(t, "loop", "waiting")
     \/ Moves(t, "leaving", "waiting")
  /\ UNCHANGED <<codecVars, socketVars, uiVars, flagVars, p_type, silenceVars,
                 lock, scenario>>

-----------------------------------------------------------------------------
(* RtpStreamReceiver.run().                                                *)

ReceiverStarts(t) ==
  /\ t \in Receivers
  /\ Moves(t, "started", "locking")
  /\ running' = [running EXCEPT ![t] = TRUE]
  /\ UNCHANGED <<codecVars, socketVars, uiVars, halted, p_type, silenceVars,
                 lock, scenario>>

\* setCodec() enters its synchronized block and opens the codec.
SetCodec(t) ==
  /\ \/ Moves(t, "locking", "setup")
     \/ Moves(t, "relocking", "resetup")
  /\ lock[CallOf(t)] = NoThread
  /\ lock' = [lock EXCEPT ![CallOf(t)] = t]
  /\ Open(t, p_type[CallOf(t)])
  /\ UNCHANGED <<socketVars, uiVars, flagVars, p_type, silenceVars, scenario>>

CodecSet(t) ==
  /\ t \in Receivers
  /\ Outside(t)
  /\ \/ Moves(t, "setup", "emptying")
     \/ Moves(t, "resetup", "decode")
  /\ timeout' = 1
  /\ lock' = [lock EXCEPT ![CallOf(t)] = NoThread]
  /\ UNCHANGED <<codecVars, socketVars, uiVars, flagVars, p_type, read, scenario>>

\* empty(): receive, with a short timeout, until a receive fails.
EmptyMore(t) ==
  /\ where[t] \in {"emptying", "draining"}
  /\ Receive(t, CallOf(t)) \/ IoDone(t, "packet")
  /\ UNCHANGED <<codecVars, threadVars, scenario>>

Emptied(t) ==
  /\ Moves(t, "emptying", "loop")
  /\ IoDone(t, "exception")
  /\ UNCHANGED <<codecVars, uiVars, flagVars, p_type, silenceVars, lock, scenario>>

Drained(t) ==
  /\ Moves(t, "draining", "received")
  /\ IoDone(t, "exception")
  /\ UNCHANGED <<codecVars, uiVars, flagVars, p_type, silenceVars, lock, scenario>>

ReceivePacket(t) ==
  /\ t \in Receivers
  /\ running[t]
  /\ Moves(t, "loop", "receiving")
  /\ Receive(t, CallOf(t))
  /\ UNCHANGED <<codecVars, uiVars, flagVars, p_type, silenceVars, lock, scenario>>

\* The first packet after a silence: what has piled up is thrown away.
PacketReceived(t) ==
  /\ Moves(t, "receiving", IF timeout # 0 THEN "draining" ELSE "received")
  /\ IoDone(t, "packet")
  /\ UNCHANGED <<codecVars, uiVars, flagVars, p_type, silenceVars, lock, scenario>>

SilenceEnds(t) ==
  /\ Moves(t, "received", "got")
  /\ timeout' = 0
  /\ UNCHANGED <<codecVars, socketVars, uiVars, flagVars, p_type, read, lock,
                 scenario>>

\* A receive that times out or fails is counted in a field that is shared by
\* the receivers of all calls: it is read ...
NothingReceived(t) ==
  /\ Moves(t, "receiving", "counting")
  /\ IoDone(t, "exception")
  /\ read' = [read EXCEPT ![t] = timeout]
  /\ UNCHANGED <<codecVars, uiVars, flagVars, p_type, timeout, lock, scenario>>

\* MUTANT: a receive that fails is not counted.
SilenceUncounted(t) ==
  /\ Moves(t, "counting", "loop")
  /\ read' = [read EXCEPT ![t] = 0]
  /\ UNCHANGED <<codecVars, socketVars, uiVars, flagVars, p_type, timeout,
                 lock, scenario>>

\* MUTANT: the receiver does not leave its loop after hanging up.
SilenceIgnored(t) ==
  /\ t \in Receivers
  /\ Moves(t, "counting", "loop")
  /\ timeout' = read[t] + 1
  /\ read' = [read EXCEPT ![t] = 0]
  /\ UNCHANGED <<codecVars, socketVars, uiVars, flagVars, p_type, lock, scenario>>

\* ... and written; one failure too many in a row hangs up and leaves the loop.
SilenceCounted(t) ==
  /\ t \in Receivers
  /\ Moves(t, "counting", IF read[t] + 1 > MaxSilence THEN "leaving" ELSE "loop")
  /\ timeout' = read[t] + 1
  /\ read' = [read EXCEPT ![t] = 0]
  /\ UNCHANGED <<codecVars, socketVars, uiVars, flagVars, p_type, lock, scenario>>

\* The test `running && timeout == 0' fails, or the packet repeats the last
\* sequence number.
Skip(t) ==
  /\ Moves(t, "got", "loop")
  /\ UNCHANGED <<codecVars, socketVars, uiVars, flagVars, p_type, silenceVars,
                 lock, scenario>>

\* A packet of the codec in use ...
SameType(t) ==
  /\ running[t] /\ timeout = 0
  /\ Moves(t, "got", "decode")
  /\ UNCHANGED <<codecVars, socketVars, uiVars, flagVars, p_type, silenceVars,
                 lock, scenario>>

\* ... or of another: Codecs.Map.change() closes the old one first.
OtherType(t) ==
  /\ scenario.changing
  /\ running[t] /\ timeout = 0
  /\ Moves(t, "got", "changing")
  /\ Close(t, p_type[CallOf(t)])
  /\ UNCHANGED <<socketVars, uiVars, flagVars, p_type, silenceVars, lock, scenario>>

Change(t) ==
  /\ Outside(t)
  /\ Moves(t, "changing", "relocking")
  /\ \E c \in Codecs \ {p_type[CallOf(t)]} : p_type' = [p_type EXCEPT ![CallOf(t)] = c]
  /\ UNCHANGED <<codecVars, socketVars, uiVars, flagVars, silenceVars, lock,
                 scenario>>

Decode(t) ==
  /\ Moves(t, "decode", "decoding")
  /\ Use(t, p_type[CallOf(t)]) \/ UseRefused(t, p_type[CallOf(t)])
  /\ UNCHANGED <<socketVars, uiVars, flagVars, p_type, silenceVars, lock, scenario>>

Decoded(t) ==
  /\ Outside(t)
  /\ Moves(t, "decoding", "loop")
  /\ UNCHANGED <<codecVars, socketVars, uiVars, flagVars, p_type, silenceVars,
                 lock, scenario>>

-----------------------------------------------------------------------------
(* The end of both: the codec is closed.                                   *)

CloseCodec(t) ==
  /\ \/ ~running[t] /\ Moves(t, "loop", "closing")
     \/ Moves(t, "leaving", "closing")
     \/ ~AudioInCall /\ Moves(t, "waiting", "closing")
  /\ Close(t, p_type[CallOf(t)])
  /\ UNCHANGED <<socketVars, uiVars, flagVars, p_type, silenceVars, lock, scenario>>

Ended(t) ==
  /\ Outside(t)
  /\ Moves(t, "closing", "ended")
  /\ UNCHANGED <<codecVars, socketVars, uiVars, flagVars, p_type, silenceVars,
                 lock, scenario>>

\* A thread goes on inside a native method.
InCodec(t) == CodecStep(t) /\ UNCHANGED <<socketVars, threadVars, scenario>>

InSocket(t) == IoStep(t) /\ UNCHANGED <<codecVars, threadVars, scenario>>

MediaStep(t) ==
  \/ SenderStarts(t)
  \/ SenderSetUp(t)
  \/ MicrophoneDenied(t)
  \/ Encode(t)
  \/ SendPacket(t)
  \/ KeepPacket(t)
  \/ PacketSent(t)
  \/ RepeatPacket(t)
  \/ SendAgain(t)
  \/ WaitForMode(t)
  \/ ReceiverStarts(t)
  \/ SetCodec(t)
  \/ CodecSet(t)
  \/ EmptyMore(t)
  \/ Emptied(t)
  \/ Drained(t)
  \/ ReceivePacket(t)
  \/ PacketReceived(t)
  \/ NothingReceived(t)
  \/ SilenceEnds(t)
  \/ SilenceCounted(t)
  \/ Skip(t)
  \/ SameType(t)
  \/ OtherType(t)
  \/ Change(t)
  \/ Decode(t)
  \/ Decoded(t)
  \/ CloseCodec(t)
  \/ Ended(t)
  \/ InCodec(t)
  \/ InSocket(t)

Network == \E s \in Sockets : Arrive(s) /\ UNCHANGED <<codecVars, threadVars, scenario>>

Next ==
  \/ UiStep
  \/ InCodec(Ui)
  \/ \E t \in MediaThreads : MediaStep(t)
  \/ Network

\* Threads are scheduled, stopMedia() and close() run to their end, and a
\* receive has a timeout.  Nothing is assumed of the network, of the user, or
\* of how long a call lasts.
Fairness ==
  /\ \A t \in MediaThreads :
       /\ WF_vars(MediaStep(t))
       /\ SF_vars(ReceiveTimeout(t) /\ UNCHANGED <<codecVars, threadVars, scenario>>)
  /\ WF_vars(InCodec(Ui) \/ Toggled)
  /\ WF_vars(HaltReceiver \/ CloseSocket \/ SocketClosed)

Spec == Init /\ [][Next]_vars /\ Fairness
-----------------------------------------------------------------------------
(* Properties.                                                             *)

\* The states of a codec are used by a thread that encodes or decodes only
\* between their initialisation and their release.
UsedIsMade ==
  \A t \in Threads : jni[t].at = "using" => memory[jni[t].lib] = "made"

\* That is so, for the first call, where only a receiver uses the codec, even
\* when types change; and where sender and receiver share it, provided that it
\* was opened by the answer before there were threads and the peer keeps to it.
SteadyUseIsMade ==
  (/\ call = Min(Calls)
   /\ toggles = 0
   /\ \/ scenario.duplex = {}
      \/ call \in scenario.answered /\ ~scenario.changing) => UsedIsMade

\* A codec's resources are freed "after encoding or decoding is complete"
\* (Codec.java): no thread is inside encode() or decode() on freed states.
FreedAfterUse ==
  \A t \in Threads : jni[t].at = "using" => memory[jni[t].lib] # "freed"

\* A thread that had set `running' when it was halted ends, and so does every
\* receiver once its socket is closed; only where calls follow each other may a
\* receiver hang in recvfrom(), with a number that is no longer its own or
\* without the datagram that another took, and a sender wait for the audio mode
\* of another call.
MediaEnds ==
  \A t \in MediaThreads :
    (halted[t] = "late" \/ (t \in Receivers /\ halted[t] = "early" /\ ui = "done"))
      ~> \/ where[t] = "ended"
         \/ /\ scenario.last # Min(Calls)
            /\ io[t].at = "blocked" \/ where[t] = "waiting"
=============================================================================
