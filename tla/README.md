# Verification of phonty in TLA+

phonty is an Android VoIP client: the telephone of a calling-card operator, built on Sipdroid
(`src/src/org/sipdroid`), which is built on the MjSip stack (`src/src/org/zoolu`) and on native
codecs and sockets (`src/jni`). This directory holds TLA+ models of its signalling core, of the life
of its media, and of the algorithms of its codecs, the configurations that check them with TLC, and
proofs checked by TLAPS. Java paths below are relative to `src/src`, C paths to `src`.

1. [The system](#1-the-system): parts, interactions, what is hard
2. [The modules](#2-the-modules) and the code they stand for
3. [The runs](#3-the-runs), their bounds and their results
4. [Fairness](#4-fairness)
5. [Proofs](#5-proofs)
6. [Disagreements between code and documentation](#6-disagreements-between-code-and-documentation)
7. [Not modelled](#7-not-modelled)
8. [Plan](#8-plan)

## 1. The system

### 1.1 Layers and threads

    Sipdroid, Receiver, ...           Android activities, alarms, preferences
    SipdroidEngine                    one per phone: lines, registration, wake locks
    UserAgent   RegisterAgent         one each per line
    Call / ExtendedCall               one per call      JAudioLauncher     one per call
    InviteDialog  SubscriberDialog    one per call      RtpStreamSender, RtpStreamReceiver
    Transaction*                      one per request   codecs (jni)       one per process
    SipProvider                       one per line      SipdroidSocket     one per call
    UDP / TCP sockets, Timer          threads           OSNetworkSystem (jni)

A layer calls down directly and is called back through listener interfaces. The calls come from
four kinds of threads: Android's main thread (the user, alarms, network changes), a receiving
thread per SIP socket, **one thread per timer** (`Timer` starts an `InnerTimer` thread;
`SipStack.single_timer` is off), and a sender and a receiver of audio per call. Almost no method is
synchronized, so two handlers of one object may run at a time, a `halt()` may come too late for what
it is meant to stop, and a callback may run when its object has gone on to something else. This,
with a network that loses, delays, duplicates, reorders and damages, is where the hazards of this
code are.

### 1.2 Components

| Component | State it keeps | Operations | Called by / calls | Correct when |
|---|---|---|---|---|
| Timers `org/zoolu/tools/Timer.java`, `InnerTimer.java` | `active`, `listener`, a thread | `start`, `halt`, `onInnerTimeout` | transactions / `onTimeout` on its own thread | a started timer fires once; one that was halted in time never |
| Non-INVITE transactions `TransactionClient`, `TransactionServer` | status, listener, entry in the `SipProvider`, timers, last response | `request`, `listen`, `respondWith`, `terminate`, message and timeout handlers | dialogs, `RegisterAgent` / `SipProvider` | one outcome, the other side's; request handed over once; always an end; no entry left |
| INVITE transactions `InviteTransactionClient`, `InviteTransactionServer`, `AckTransactionServer` | the same, more timers | the same, ACKs | `InviteDialog` | the same, and nobody takes an unanswered INVITE for a call |
| Dialogs of a call `Dialog`, `DialogInfo`, `InviteDialog`, `ExtendedInviteDialog` | status (13 states), tags, two sequence numbers, the INVITE being answered, the ACK transaction, authentication attempts | `listen`, `invite`, `reInvite`, `ring`, `accept`, `refuse`, `cancel`, `bye`, callbacks, message handler | `Call` / transactions, `SipProvider` | both phones agree on whether there is a call; one answer per INVITE; an order of sequence numbers |
| Registration `RegisterAgent` | state (5), transaction `t`, attempts, voice-mail subscription | `register`, `unregister`, `halt`, callbacks, `startMWI` | `SipdroidEngine` / `TransactionClient` | "registered" is true at the registrar; never stuck; renewed |
| SIP engine `SipdroidEngine`, `ui/Receiver` | agents and wake locks per line, time and alarm of the next renewal | `register`, `registerMore`, `registerUdp`, `unregister`, `expire`, `halt`, `keepAlive`, callbacks, `reRegister` | alarms, UI / agents | the phone is kept awake while something is under way, and no longer |
| RTP and audio `media/JAudioLauncher`, `RtpStreamSender`, `RtpStreamReceiver` | two threads, their flags `running`, the codec of the call, the count of silent receives | `startMedia`, `stopMedia`, two loops, `speaker` | `UserAgent` / sockets, codecs, audio device | the threads end; codecs and sockets are used while they exist |
| OS network layer `jni/OSNetworkSystem.cpp`, `PlainDatagramSocketImpl`, `SipdroidSocket` | a descriptor per socket, the kernel's table of numbers | `create`, `receive`, `send`, `close` | media, SIP transport / kernel | a call reaches the socket it was made on |
| Codecs `codecs/*.java`, `jni/*_jni.cpp`, `jni/silk`, `jni/bx16_fixedp`, `jni/speex-1.2rc1`, `jni/spandsp` | per library: a count of opens, an encoder and a decoder | `open`, `encode`, `decode`, `close` | media / - | used between initialisation and release; the decoder keeps in step with its peer; arithmetic saturates |
| Calls and user agent `UserAgent`, `call/Call`, `ExtendedCall` | call state (idle, incoming, outgoing, in call, hold), current call, transfer call, media | `call`, `hangup`, `accept`, `redirect`, `reInvite`, `muteMediaApplication`, callbacks | UI, engine / dialogs, media | one call at a time; media runs exactly during a call |
| Subscriptions `SubscriberDialog`, `NotifierDialog` | status, event, last SUBSCRIBE, entry in the `SipProvider` | `subscribe`, `notify`, `accept`, `refuse`, handlers | `RegisterAgent` / transactions | subscribed and notified in step; ended subscriptions leave the table |
| Message dispatch and connections `provider/SipProvider`, `TcpTransport`, `net/TcpConnection`, `TcpServer`, `UdpProvider` | table of listeners by identifier, table of TCP connections, sockets | `addSipProviderListener`, `removeSipProviderListener`, `sendMessage` (3), `processReceivedMessage`, `addConnection`, `removeConnection`, `haltConnections`, `onTransportTerminated` | everyone above / sockets | a message reaches the most specific listener; at most `nmax_connections` connections, all in the table |
| Keep-alive `KeepAliveSip`, `KeepAliveUdp` | a thread and a counter | `run`, `halt` | engine, media / socket | none beyond sending |
| Messages and headers `sip/message`, `sip/header`, `SipParser` | none (values) | parse, format, create | everyone | which identifier, tag and number a message gets |
| Authentication `DigestAuthentication` | none | `getResponse` | dialogs, agents | the digest of RFC 2617 |
| Session descriptions `org/zoolu/sdp`, `SdpTools` | none (values) | parse, format, product of offers | `UserAgent` | what both sides support |
| User interface, Phonty HTTP client, STUN, generated files | Android | - | - | - |

### 1.3 Interactions that carry the risk

- *Timer against handler.* A transaction halts its timers when it has its answer; the timers'
  threads read two unlocked fields. `TransactionClient.onTimeout()` does not look at the status
  when the transaction timer fires.
- *Two server objects for one INVITE.* `InviteDialog.accept()` terminates the INVITE transaction
  and creates an `AckTransactionServer`, while retransmitted INVITEs arrive.
- *Two dialogs, one call.* CANCEL crosses success, BYE crosses re-INVITE, challenges repeat
  requests with numbers the dialog does not know.
- *Agent, transaction, engine, alarm.* `RegisterAgent`'s callbacks never compare their transaction
  with `t`; `register()` cuts an `unregister()` short by calling `onTransTimeout()` itself, which
  may register again; the wake lock is taken after the request is out; the alarm and the time it
  stands for are separate variables shared by all lines.
- *Two threads, one codec.* A library keeps one encoder and one decoder in globals, and an unlocked
  counter of its users; the answer to a call, the two threads, the speaker button and a change of
  payload type open and close it, not in pairs.
- *Old threads, new call.* `stopMedia()` halts the threads of a call, closes their socket and waits
  for neither; native code fetches a socket's number twice per receive, and the kernel gives the
  number to the next socket; the count of silent receives is a static field.
- *Encoder and decoder.* They choose the tables of each symbol from states that nothing but the
  symbols keeps equal, over packets that are lost and damaged.
- *The connection table* is checked, then a connection opened, then entered, from several threads.

Every such place, with its line, is an entry of `hazards` in `PROJECT.json`.

## 2. The modules

| Module | What it is | Code |
|---|---|---|
| `SipTimer` | operators on a family of timers, each idle, running, due or late | `Timer.java` as its users see it |
| `TimerContract` | abstract specification: what a user of a timer may rely on | - |
| `TimerThread` | timers statement by statement | `Timer.java`, `InnerTimer.java` |
| `SipTransaction` | states and messages shared by the transactions | `Transaction.java` |
| `TransactionClient`, `TransactionServer` | one side each, one action per method | same names |
| `NonInviteTransaction` | both, joined by a network | composition |
| `RequestOutcome` | abstract specification: what the user of a request is promised | - |
| `InviteTransactionClient`, `InviteTransactionServer`, `AckTransactionServer` | one side each | same names |
| `InviteTransaction` | the three, and the part of the callee's dialog that drives two of them | composition, `InviteDialog.respond`, `onTransRequest`, `onTransFailureAck`, `onTransAckTimeout` |
| `InviteDialog` | two dialogs, a network and a proxy | `InviteDialog`, `Dialog`, `DialogInfo`, `ExtendedInviteDialog` |
| `Registration` | lines, their agents and registrars, the engine, the alarm | `RegisterAgent`, `SipdroidEngine`, `Receiver` |
| `NativeCodec` | open, use and close of the native libraries, by statements | `jni/*_jni.cpp` |
| `DatagramSocket` | UDP sockets and the kernel's table | `jni/OSNetworkSystem.cpp`, `PlainDatagramSocketImpl`, `SipdroidSocket` |
| `MediaSession` | the threads of consecutive calls over those two | `UserAgent`, `JAudioLauncher`, `RtpStreamSender`, `RtpStreamReceiver`, `Codecs` |
| `PowersOfTwo` | 2^n as a recursive function, for `RangeCoder`, `SilkPulses` and `BasicOperators` | - |
| `RangeCoder` | the arithmetic coder of SILK, on bytes of few bits | `jni/silk/src/SKP_Silk_range_coder.c` |
| `SilkPulses` | the coding of the excitation | `SKP_Silk_encode_pulses.c`, `_decode_pulses.c`, `_shell_coder.c`, `_code_signs.c` |
| `SilkStream` | packets of frames: a peer that encodes, the network, the decoder | `SKP_Silk_encode_parameters.c`, `_decode_parameters.c`, `_gain_quant.c`, `_decode_frame.c`, `_dec_API.c`, `silk8_jni.cpp` |
| `BasicOperators` | saturating arithmetic, on words of any width | `jni/bx16_fixedp/itug191lib/basop32.c`, `itug729ilib/oper_32b.c` |
| `InviteDialogMC`, `MediaSessionMC`, `CodecsMC` | instances for TLC | - |
| `TimerThreadProofs`, `NonInviteTransactionProofs`, `InviteTransactionProofs`, `InviteDialogProofs`, `RegistrationProofs`, `MediaSessionProofs`, `SilkProofs`, `CodecsProofs` | theorems about the module of that name and their proofs; `MediaSessionProofs` also those about `DatagramSocket` and `NativeCodec`; `SilkProofs` is about `RangeCoder` and `SilkStream`, `CodecsProofs` about `BasicOperators` and `SilkPulses` | - |

    SipTimer <- TimerContract <= TimerThread                   (<= : implements)
    SipTimer, SipTransaction <- TransactionClient, TransactionServer
        <- NonInviteTransaction => RequestOutcome
    SipTimer, SipTransaction <- Invite*, AckTransactionServer
        <- InviteTransaction => RequestOutcome
    SipTransaction <- InviteDialog <- InviteDialogMC
    Registration
    NativeCodec, DatagramSocket <- MediaSession <- MediaSessionMC
    PowersOfTwo <- RangeCoder, SilkPulses, BasicOperators
    RangeCoder, SilkPulses, SilkStream, BasicOperators <- CodecsMC

The levels fit together by abstraction: `TimerThread` justifies the four timer states that the
transactions use; `NonInviteTransaction` and `InviteTransaction` justify what `InviteDialog` and
`Registration` assume of a transaction, namely that a pending request reports at most one outcome,
the answer or a timeout; `RangeCoder` justifies that `SilkPulses` and `SilkStream` treat a payload
as the sequence of its symbols. `map` in `PROJECT.json` names the source lines of every definition.

### Timers

`TimerThread` has one variable per field (`active`, `listener`), the program counter of the timer's
thread, and what the user has called. `halt()` is two steps, since a thread may run between its
two assignments. `listener` is read twice by `onInnerTimeout()`: if it is null the second time
`InnerTimer.run()` swallows the exception, which is `LoadListener` going to "dead".
`SipTimer` abstracts this to: *running* (asleep), *due* (past the test of `active`), *late* (halted
when due: the call may still happen, or not), *idle*. How long a timer sleeps is abstracted to
nondeterminism: any running timer may expire next. `Contract` maps the threads to that view.

### Non-INVITE transactions

`status`, `listener`, `timer` are the fields of the same names (a dropped `transaction_listener` is
`FALSE`); `registered` says that the `SipProvider` has the entry; `told` is the history of
callbacks (a run of equal provisional responses counts once), `response` the last response the
server's user gave, `requests` how often it was handed the request. Messages are reduced to their
method and the class of their status code, the only thing the handlers look at. `wire` is the set of
all messages ever sent: receiving does not remove, and nothing has to be received, so that any
message may be lost, delayed, repeated and overtaken. Handlers are one step each; that they may be
*called* in states their timer was not meant for is what "late" is for. One object stands for each
side: other transactions have other identifiers and the `SipProvider` never mixes them up.

### INVITE transactions

The same, with timers for retransmission, transaction, end and clearing. The ACK of a failure belongs
to the INVITE's transaction; the ACK of a success carries an identifier of its own and reaches the
dialog. `dialog` is the status of the callee's `InviteDialog`, as far as it decides which of
`InviteTransactionServer` and `AckTransactionServer` exists. `entries` is the part of the provider's
table that belongs to the server: by method, and by transaction. Once the client has been told of a
success it may send the ACK at any time (`Client!Next({SuccessAck})`).

### Dialogs

Every variable is a field of the code, per phone: `status`, `localCSeq`, `remoteCSeq`, `tagged`
(both tags are known, so that `dialog_id` is final), `attempts`, `inviteReq`; or a transaction that
exists: `inviteTc`, `retryTc` and `byeTc` hold the requests whose client transaction has yet to
report, `inviteTs`, `ackTs` and `currentAck` the server side. A message in `wire` has an addressee, a
sequence number and says whether it carries both tags, which decides if the dialog is found
(`Dispatched`). Actions are named after what happens: `InvitePeer`, `ReInvite`, `Accept`, `Refuse`,
`Cancel`, `Bye` for the user; `InviteSucceeds`, `InviteFails`, `InviteChallenged`, `InviteTimesOut`,
`Bye...` for `onTrans...` callbacks; `Receive...` for messages. `ProxyAnswersRequest` lets a proxy
answer in the peer's place, with a challenge or a failure, which is how a request of a call can fail
though the peer would have taken it. `plan`, fixed at the start, says who changes the call and how the
proxy answers.

One combination is excluded by `DialogAssumption`: both users changing the call while those changes
are challenged. The repetition of a challenged re-INVITE replaces `invite_req` (line 286 of
`ExtendedInviteDialog.java`), so that with two phones doing this at once a dialog can answer its
own INVITE; nothing sensible can be said afterwards.

### Registration

`agent[l]` is the `RegisterAgent` of line `l` with its `CurrentState`, `attempts` and `t`; the
requests whose transaction is alive (`live`); those on their way (`queue`), the answers on their way
back (`answers`); outcomes that a transaction has but whose callback has not run (`callbacks`); and
the line's two wake locks, `wl`, which counts, and `pwl` (`screen`). `bound[l]` is the registrar's view.
`visit`, `acquiring`, `halting` and `leaving` are where the main thread is inside
`SipdroidEngine.register()`, `unregister()` and `halt()`. `renewAt` and `alarm` are
`Receiver.expire_time` and the pending alarm. Assumptions:

- `overlap`, fixed at the start, says whether threads act between the steps of another, as they may on
  a phone: the main thread between a transaction's outcome and its callback, a callback between a
  request and its `wl.acquire()`. Requests keep their order, or may overtake each other and outlive the
  agent that sent them, as over UDP (see the comments of `Registration`).
- The registrar does not forget a contact by itself: expiry is the business of `RegisteredIsRenewed`.
- Handlers of the agent are one step each, together with the engine's callback.
- `register()` called from a callback visits its own line within the step; visits it pays
  to other lines are a `StartRegister` of their own.
- Network type, airplane mode, the 45 seconds between retries: nondeterministic booleans.

### Media

`NativeCodec` has the globals of a library: `codec_open`, and in `memory` what its encoder and decoder
are ("raw" is a block that `malloc` has returned and nobody has initialised). `codec_open++` is a load
and a store, since the Java methods are native and not synchronized. All seven libraries are written
alike; `StaticCodecs` are those whose states are structures and not pointers.

`DatagramSocket` has per Java socket the field `descriptor`, for the kernel the table `owner` of whose
socket a number is, and per thread the place inside a receive or a send. `pollSelectWait()` fetches the
number for each turn of its loop, `receiveDatagramDirectImpl()` once more for `recvfrom()`;
`socketCloseImpl()` clears the field before it closes the number. The kernel is external: the lowest free
number, `select()` and `recvfrom()` that hold on to the socket they were entered with, and that are not woken
by `close()`.

`MediaSession` composes the two with the thread of the user agent (`ui`), and a sender and a receiver per
call (`where`). `running` is set by the thread itself and cleared by `halt()`; `halted` remembers which
came first. `timeout` is a static field, incremented by a load (`NothingReceived`) and a store
(`SilenceCounted`). `p_type` is the object that both threads of a call read their codec from and that
the receiver changes. `lock` is the monitor of `setCodec()`. `scenario`, fixed at the start, says which
calls there are, whether they have a sender, who answered them, and whether payload types change.
A sender opens the microphone in its first turn and, when `changed` is set, in a later one, so that any turn may find
it denied (`MicrophoneDenied`); while the peer is silent it may keep a packet back (`KeepPacket`), and over a bad
line it sends each twice (`RepeatPacket`, `SendAgain`). On old phones a sender that has left its loop waits until the
audio mode is no longer that of a call (`WaitForMode`), which is what the receivers restore when they end: the one
place where a thread of a call waits for another. Whether a phone is old, and whether the mode is set, is left open.

### Codecs

`RangeCoder` is written for bytes of `B` bits. Words that are as wide as in the code relative to a byte keep
the places where they overflow, are cut or run out: the carry, the normalization by one or two bytes,
the ending. `wild` says that a carry ran out of the buffer. `Junk` is the memory behind a payload, which
the decoder reads.

The SILK codecs are in the repository and not reachable in this build: `Codecs.java:53-55` has them commented out of
the list that calls choose from, to save space. What `RangeCoder`, `SilkPulses` and `SilkStream` say is of the
libraries as they are compiled; the life of a library (`NativeCodec`) is that of the codecs in the list as well.

`SilkPulses` writes a frame's pulses as symbols with the table each is coded by and reads them back.
Which rate level is cheapest is left open. `PulsesAssumption` says that there are tables, one per depth.

`SilkStream` has a peer's encoder (`enc`), the packet on the wire and the decoder (`dec`), as records of
the fields of the code's structures that select tables or carry over to the next frame. A packet is the
sequence of its symbols. When the decoder asks for the table a symbol was written by, it reads that symbol;
from the first other table on, or in a damaged packet, it may read anything the table has, or fail. So the
property `IntactIsDecoded` is that both sides choose the same tables; the data of pitch, spectrum and pulses,
on which nothing depends, is not there.

`BasicOperators` writes every constant of `basop32.c` in terms of the width `W` of a word, and the results in
two's complement; `Nearest16`, `Nearest32`, `Rounded` are the reference definitions. `LongShiftedLeft` is the loop of
`L_shl()` as so many times its body (`Doubled32`): where the code leaves the loop, a further doubling would
not change the number. Powers of two are the function `Pow2`.

`CodecsMC` has one variable, `subject`, for which of the four a behaviour is about: they share nothing and are
checked in one run.

## 3. The runs

Every pass run checks all its properties in one exploration of the complete state space.

| Run | Module, bounds | Result |
|---|---|---|
| `timer_thread` | `TimerThread`, 2 timers, 1089 states | `HaltedAsleepStaysSilent`, `ImplementsContract` hold |
| `timer_halt` | 1 timer | `HaltReturnedMeansSilent` violated (6.1) |
| `non_invite` | `NonInviteTransaction`, unbounded, 835 states | 6 invariants, `EndsToldOrGivenUp`, `ImplementsRequestOutcome` hold |
| `invite` | `InviteTransaction`, unbounded, 4808 states | 5 invariants, `AnswersEnd`, `AcceptedSettles`, `ImplementsRequestOutcome` hold |
| `invite_refused` | the same | `RefusedCloses` violated (6.2) |
| `dialog` | `InviteDialog`, two plans: a proxy that challenges every request, numbers to 4; the caller re-INVITEs and a proxy refuses requests, numbers to 3; 1 attempt; 86294 states | 7 invariants, `AcceptedSettles` hold |
| `dialog_cseq` | re-INVITEs that are challenged, numbers to 4 | `ByeIncrementsCSeq` violated (6.3) |
| `registration` | `Registration`, 1 line, 1 attempt, 3 requests at a time, with and without overlap, 3.3 million states | 5 invariants hold |
| `registration_renewal` | short periods too, 2 requests, no overlap | `RegisteredIsRenewed` violated (6.4) |
| `media_session` | `MediaSession`, 2 calls, 2 codecs, 2 numbers, 1 waiting datagram, 1 silent receive, 1 switch of the speaker, three scenarios, 205019 states | `TypeOK`, `OpenMeansOwn`, `SteadyUseIsMade`, `MediaEnds` hold |
| `codec_freed` | 1 call whose peer changes the codec under a sender | `FreedAfterUse` violated (6.5) |
| `codecs` | `CodecsMC`, 3.3 million states | `DecodesWhatWasSent`, `IntactIsDecoded`, `BehindIsBounded`, `PulsesReturn`, `ArithmeticIsExact` hold |

### What they show, and why the bounds are enough

**Timers.** A timer halted while asleep is silent for good, and all the interleavings of the two unlocked
threads look to the user like the four-state timer, its liveness included: one that nobody halts fires.
Timer objects share nothing, so that two show all there is; the second one only makes sure that the contract
holds for them together. Section 5 proves both for every set of timers, liveness excepted.

**Non-INVITE transactions.** For all interleavings of losses, copies, late timers and users who give
up: the client's user hears of one outcome, last, and it is the server's answer or a timeout; the
server's user gets the request once; every started transaction ends; nobody waits without a timer;
the provider's table is exact. The state is finite without a bound: messages form a set and
`told` has at most two elements. `Method` is only a label. Section 5 proves the invariants.
(`TransactionServer.listen()` and `InviteTransactionClient.terminate()` are modelled as the interface they
are, though nothing calls them now.)

**INVITE transactions.** The same, and: a success and a failure never cross, even
when the INVITE transaction hands over to the `AckTransactionServer` in the middle of
retransmissions; the callee only believes in the call if the caller does; a final response is
not retransmitted for ever. That the outcome is one and the server's is part of `ImplementsRequestOutcome`.
What does *not* hold, and is not claimed, is that a client in PROCEEDING gets an outcome: the first
provisional response halts both timers (line 101 of `InviteTransactionClient.java`), so that only the safety
part of `RequestOutcome` is implemented. Section 5 proves the invariants and the refinement.

**Dialogs.** The first plan covers every way in which one call is set up, refused, cancelled, challenged and
ended: one phone is never alone in a call, a refused or cancelled INVITE leaves no call,
and an answered BYE ends it for both. Numbers to 4 allow for INVITE, its repetition with
credentials, BYE and its repetition; `MaxAttempts` is 3 in the code, and with 1 both the challenge that is
answered and the one that is not occur. In the second plan the caller re-INVITEs until the numbers run out
(INVITE, re-INVITE and BYE; or two re-INVITEs and no BYE), with late
answers, proxied failures, CANCELs that cross and hang-ups from both sides: no INVITE is answered in two ways,
the next request of a phone always has a number its peer takes, and no dialog
waits without a transaction that will report.
`OneAnswerPerInvite` is not obvious: CANCEL is applied to whatever INVITE is open, so that a late one
refuses a later INVITE; the property says that even then each has one answer. Section 5 proves the invariants for all plans, with a condition for `CSeqsOrdered`.

**Registration.** Without overlap a line that says it is registered is so at its registrar,
whatever was given up, challenged, refused or halted before, and the wake locks are held exactly
while a request is under way. The first is *false* over UDP: every REGISTER has a new Call-ID and a
random sequence number (`BaseMessageFactory.java:420-421`), so that a registrar cannot tell that a late one is
older than what it has. Both are *false* with overlap: a callback that runs before
`wl.acquire()` finds nothing to release, and the lock, which counts, then stays; and
the late callback of a de-registration that was given up is taken for that of the registration that
followed, until that one's own callback runs. The code documents neither promise, so this is stated
here and not as a disagreement; the two properties have `~overlap` in front. With overlap, and over UDP, it
still holds that no line gets stuck between two states and that every registered line has an alarm. Three
requests at a time are one that was given up and whose callback is late, one that was given up in turn, and
the present one; one attempt is enough for answered and unanswered challenges. Lines only share the alarm and
the main thread's walk over them; one line was chosen for the size of the state space.
Section 5 proves the invariants for any number of lines, attempts and requests.

**Media.** The three scenarios are one call that the phone answers, with sender and receiver; two calls that
only receive, the second of which may start while the receiver of the first still runs; and one call that only
receives, whose peer changes the codec while the user switches the speaker. `OpenMeansOwn` is what the order
in `socketCloseImpl()` buys: whoever fetches a number while the socket is open gets its own kernel socket.
It is proved in section 5. What it does not buy is seen in `MediaEnds`: a fetch before the close and a
`recvfrom()` after it may hit the socket of the next call, so that a receiver may hang there, or one whose
datagram was stolen hang in a `recvfrom()` without time-out; the property leaves that out for consecutive calls, and
with it the sender that waits for the audio mode of another call. It says that otherwise every thread that had set
`running` before it was halted ends. (A mode that a cellular call keeps set is not modelled: the sender waits for the end
of that call, too.) A sender that was halted
earlier does not: `running = true` overwrites the halt (line 284 of `RtpStreamSender.java`). A receiver
halted early ends nevertheless, by its count of silent receives. Two numbers are enough for a reuse, two
calls for an old thread beside a new call, one silent receive (60 in the code) for a count that
is reset and one that is not. `SteadyUseIsMade` names the cases in which the unlocked counter is good enough:
one thread only uses the codec, or the answer has opened it before there were threads. In all others
two threads may open it at once, and the second encodes with states the first has not made yet, or a count goes
wrong and one frees what the other uses, which is `codec_freed`.

**Codecs.** The bounds of `codecs`:

- Range coder: bytes of 2 bits, packets of up to 5 symbols and 5 bytes, three tables (even, with a rare and
  with a frequent symbol) mixed freely, and two fillings of the memory behind the payload. Carries over several
  full bytes, normalization by 0, 1 and 2 bytes and all ending lengths occur. With 2 bits a byte is full
  one time in four, so that long carries are frequent where they are rare in 8.
- Pulses: blocks of 4 pulses (16 in the code) up to 5 in size against tables for sums of 2 and 3, so that a block is
  halved up to three times; frames of one and two blocks.
- Stream: two rates with different codebooks, packets of 1 or 2 frames, three kinds of frames, whose gains jump
  from the lowest to the highest level, 3 levels and differences of -1 to 1; any packet may be lost, damaged or
  dropped by the encoder, and a damaged one may say anything, up to five frames included.
- Operators: words of 5 bits; all pairs of short words, all long words with 17 corner values. That is few for the
  double-precision operators, whose errors add up; how far they go, only the proof tells (section 5).

They show that the coder's carry and its shortest ending are right for all of these packets; that an intact packet is
decoded as sent whatever happened before it, with the one exception below; that a decoder is at most four
packets late; that no pulse is lost to the limits of the tables; and that the operators saturate and round
as they are meant to, from formulas that overflow on purpose.

## 4. Fairness

Weak fairness is assumed of threads, strong fairness of a time-out, and nothing of the network or of users: no
message has to arrive, nobody has to act, no registrar has to answer.

- `TimerThread`: each timer's thread, and `HaltListener`, the second statement of a `halt()` that was called. A
  sleeping thread wakes up, and one past its test of `active` goes on to the call or the exception; that
  is what `Thread.sleep` and the scheduler give.
- `NonInviteTransaction`, `InviteTransaction`: `TimerExpires` and the call of `onTimeout` (`TimersRun`).
- `InviteDialog`: `ByeTimesOut`, `AckTimesOut` and `FailureAckTimesOut`, which the transactions below were shown to
  report in the end. There is *no* fairness for the timeout of an INVITE, because an INVITE that has got a
  provisional response has none.
- `MediaSession`: each media thread takes its next step; `stopMedia()`, `close()` and a native method that the
  user agent is inside run to their end; and a receive that keeps polling an open socket runs into its
  `SO_TIMEOUT` at last (strong fairness, as each poll of 100 ms leaves and re-enters `select()`). Nobody has to call
  `stopMedia()`.
- `TimerContract`, `RequestOutcome`: what the detailed specifications are shown to provide.
- `Registration` and `CodecsMC` state no liveness: that a pending transaction reports is shown by `non_invite`,
  and `PendingIsServed` says that a pending line always has one.

Deadlock is not checked in any run: a phone that is left alone, a call that has ended, or a packet that has been
read, stops.

## 5. Proofs

The proofs use no assumption on constants beyond the named ones of the modules, and nothing of the fairness. Two
theorems have a hypothesis of their own, `LongIsRenewed` and `NumbersAreAccepted`; for each TLC shows what
goes wrong without it. Every inductive invariant was first checked by TLC, as an invariant of the configuration of
the component's run, and that of the dialogs and of the media on further plans and scenarios. The proofs have one
lemma per action, or per conjunct of the invariant and then per action, whichever disturbs less.

**Timers** (`TimerThreadProofs`), for every set of timers. `TimerInvariant` ties the place of each thread to
`active`, `listener` and what the user has called; `HaltedAsleepIsSilent` proves `HaltedAsleepStaysSilent` from it.
`ThreadsImplementTimer` proves `Spec => Contract!Init /\ [][Contract!Next]_Contract!vars`: the step of each thread
changes the four-state view of its own timer only (`SeenElsewhere`, `SeenOne`), and a step that finds a null
listener is one that a late timer may take (`NullIsLate`). This is what entitles all other modules to `SipTimer`.

**Non-INVITE transactions**, for every value of `Method`.
`NonInviteTransactionProofs` proves `THEOREM Invariant == Spec => []IInv` and from it `TypeCorrect`, `OneOutcome`
(`OutcomeIsLast`), `OutcomeAgreed` (`OutcomeIsTheAnswer`), `RequestHandedOnce` (`HandedOnce`), `TableIsExact`
(`NoEntryLeaks`) and `NobodyWaitsForEver` (`WaitsAreTimed`). None of these is
inductive by itself. `OutcomeIsLast` would be lost if a late transaction timer reported after the
final response; it does not, because the listener is gone by then. `IInv` therefore adds

- `ListenerUntilOutcome`: the client has its listener exactly until an outcome was reported or the user
  gave up, so far it has reported provisional responses only, and the clearing timer was started by a final
  response only (so that no late clearing timer ends a transaction that still waits);
- `OneFinalResponse`: the final responses in the network are the one the server's user has given;
- `ServerHistory`: a server that may repeat its response has one, and a server that waits has handed nothing over.

The step is one lemma per action that disturbs the history (`ClientSends`, `ClientHearsFinal`, ...), then a
case split over `Next`; `AppendFacts` and `ReportFacts` are the only facts about sequences.

`NoSilentEnd` proves the action property `EndsToldOrGivenUp`, from one more invariant: a client that only waits for
copies of the final response has reported one (`CompletedIsTold`). `RefinesRequestOutcome` proves `Spec => Promise!SafeSpec`: under the mapping of
`NonInviteTransaction` every step of the two transactions is a step of `RequestOutcome` or leaves its
variables alone. It needs `IInv` and `NothingBeforeRequest`: before `request()` the network is empty, no timer was
started and the server's user has nothing to answer.

**INVITE transactions** (`InviteTransactionProofs`). From `Invariant` follow `TypeCorrect`, `AcksTellTheTruth`
(`AckMeansKnown`), `NeverTwoServers` (`OneServerAnswers`), `WaitsEnd` (`WaitsAreTimed`) and `TableIsExact`
(`NoEntryLeaks`). Three parties and a set of messages that are never removed have to agree, so `IInv` adds

- `ListenerUntilOutcome`, as above, for the caller;
- `AcksAreEarned`: an ACK is in the network only of an outcome that the caller has been told, and the callee has heard
  only such ACKs. This is what makes `AckMeansKnown` inductive;
- `OneFinalResponse`: a success in the network comes from an `AckTransactionServer`, a failure from the INVITE
  transaction, which keeps it;
- `DialogFollows`, `ResponseFollows`: what the dialog's status says of the transactions under it; in particular
  the INVITE transaction is over when an `AckTransactionServer` exists, and one that has refused never gets one;
- `NothingBeforeRequest`, which the refinement starts from.

`RefinesRequestOutcome` proves `ImplementsRequestOutcome`: the abstract outcome is the callee's decision,
taken by `refuse()` or `accept()`, and the caller's report of it is the abstract report, because a final response in
the network is that decision (`OneFinalResponse`) and the listener is there until the outcome (`ListenerUntilOutcome`).

**Dialogs** (`InviteDialogProofs`), for every set of plans, every limit on attempts and on sequence numbers. The
run has two plans; the theorems hold for any set that `DialogAssumption` allows. From `Invariant` follow `TypeCorrect`,
`NobodyIsAlone` (`CallHasTwo`), `WaitsEnd` (`WaitsAreCovered`), `AnsweredOnce` (`OneAnswerPerInvite`),
`NoCallAfterRefusal` (`RefusedIsNoCall`) and `ByeIsForBoth` (`ByeEndsForBoth`). The statements are about states of two
phones; what ties them together is what has been sent, so the proofs first say what each message adds to that
(`InviteSent`, `AnswerSent`, ...), and `IInv` is mostly about messages:

- `SetupInv`: the caller is in the call only after a success was sent, the callee only after something that shows
  that the caller is (an ACK or a request with both tags);
- `RoleInv`, `MessagesInv`: only phones that change the call have several INVITEs under way or leave BYEING otherwise
  than by closing, and only proxies of the plan challenge. The two sorts of plans differ so much that most of what
  holds of one fails in the other;
- `AnswerInv`, `ServingInv`: an INVITE is unanswered exactly while its server transaction is open or missing, and the one
  a phone may answer is open. `OneAnswerPerInvite` rests on them;
- `InvitesInv`: of all INVITEs that set up a call nobody changes, all but one have been challenged, which is why one
  failure means that no success can follow;
- `ByesInv`: a BYE that is over has been answered in place of the peer, or has closed its phone, and one the peer
  has answered has closed the peer;
- `FailureAckInv`, `FirstInv`: an ACK without a transaction is one of a success or, once the transaction has ended, of a
  failure (`AckWithoutTransaction`); the dialog takes either. The first says that a phone which sent the latter got
  that failure, the second that a callee which has not been in the call yet is done only with INVITEs it has
  accepted, so that such an ACK cannot put it into a call that its peer has not joined;
- `RemoteInv`, `OrderInv`: the number a phone has taken is that of a request it was sent, and in an orderly plan no
  greater than what its peer has counted.

`NumbersAreAccepted` (`CSeqsOrdered`) has the hypothesis that all plans are `Orderly`: not both phones change the call, and
nothing is challenged if one does. The plans of the run are orderly, other sets are allowed by the assumption,
and TLC finds the property violated in both sorts. When both phones re-INVITE, the peer's re-INVITE takes a dialog out
of ReINVITING while its own is pending, it may send another one, and then the late success of the first sets
`local_cseq` back to the first one's number. When one re-INVITEs and is challenged, the repetition has a number that its dialog has
not counted (`ExtendedInviteDialog.java:259`, the same cause as 6.3).

**Registration** (`RegistrationProofs`), for any number of lines, attempts and simultaneous requests, with and
without overlap. From `Invariant` follow `TypeCorrect`, `NoLineIsStuck` (`PendingIsServed`), `RegisteredMeansBound`
(`RegisteredIsBound`) and `AwakeForTheWait` (`AwakeWhileWaiting`). The last two say something of the moment only; what
is inductive is that without overlap each line is `Orderly`: it waits for nothing and holds no lock (`Idle`); or for one
transaction whose request is the last one sent, so that an answer to it is the registrar's last word (`Asking`); or for
the callback with that outcome (`Hearing`); and the wake lock is held in the last two, from when the main
thread has acquired it (`OneAcquires`). A failed request may begin the next one within its own callback
(`Fails`, `Revisited`), which is why the lemmas `ReleasedSettles` and `FailsSettles` are about agents and not about steps.
With overlap only `PendingIsServed` and the types remain, which is all that is claimed.

`LongIsRenewed` (`RegisteredIsRenewed`) has the hypothesis `Periods \subseteq {Long}`, as the run has. It needs an
invariant of its own, `RenewalIsSet`: while the engine halts, no line is registered or visited any more behind
its back, and a time of renewal always has an alarm. Without the hypothesis it is false (6.4).

**Sockets** (`MediaSessionProofs`), for any number of sockets, threads, numbers and waiting datagrams, and for
any use of them (`SocketSpec`): `OpenSocketsAreOwn` (`OpenMeansOwn`). The property is not inductive: a number that a
thread holds must be one the kernel has not given away while the socket is open. `SocketInv` adds that a socket being
closed still owns its number (`ClosingIsOwned`), that one not yet created has none, and that what a thread has
fetched is current until its socket is closed (`FetchedIsCurrent`). `MediaUsesSockets` proves `Spec => SocketSpec`,
each step of `MediaSession` being a use of the sockets or none, and so `CallsReachTheirSockets`.

**Media** (the same module), for any number of calls, codecs and numbers, and every scenario: `TypeCorrect` and
`CodecsAreMadeWhenUsed` (`SteadyUseIsMade`). `IInv` has three parts. `Typed`, `PlacesInv` and `UiInv` say where each
thread can be: that one inside a native method is at the statement of its loop that calls it, that threads of calls to come
are unborn, and when the user agent opens codecs. `SilenceInv` bounds the unlocked count of silent receives, which the
receivers of all calls share: it may exceed `MaxSilence` by one for each receiver that has left its loop
(a finite number, `ReceiversAreFinite`). `OneUserInv` and `TwoUsersInv` are the two cases of `SteadyUseIsMade`:

- a receiver alone: no two threads are inside a native method at once, so that `codec_open` is exactly the sum of the
  answer's open and the receiver's;
- sender and receiver after the answer's open: the counter may well lose updates, but as that open is closed by nobody, a
  lost update cannot bring it to 0 before both threads have closed. The invariant therefore gives a lower
  bound only: at least 1 until both have closed, and at least 2 from when one of them has opened it until one has closed it.

Three things were learnt in this proof: `TypeOK` was false for `MaxSilence = 0`, since `setCodec()` sets
the count to 1, so that `MediaAssumption` now asks for at least 1 (the code has 60); a call offers a codec, so that
`Codecs` is not empty; and calls are numbered consecutively, as `Min(Calls)` is the first.

**Range coder** (`SilkProofs`), for bytes of every width from 2 bits up, any set of tables, any buffer and any number of
symbols: `PacketsAreDecoded` (`DecodesWhatWasSent`). `CoderAssumption` asks that the entries of a table rise from 0 to
`Byte^2 - 1` and that its middle is one of its indices, as is so of every `_CDF` list of `SKP_Silk_tables*.c` and its
`_offset`; not that they fit the buffer: a packet that does not is not sent. The property speaks of the two ends, and the
code between them of numbers cut to four bytes. `CoderInv` therefore says that there is a third thing, a trace of exact
intervals (`Traced`, `Narrowed`), one for each symbol given so far: an unbounded low end, in units that shrink by a byte with
each byte written, and the width as the code rounds it. Then

- what has been written, read as one number, followed by the encoder's base, is the low end of the last interval
  (`EncoderIs`), and the interval ends within the numbers of that length (`IsInterval`). So when a sum exceeds four bytes, the bytes written are not all the highest there is: the
  carry finds one that takes it, and adds 1 to the number (`CarriedIs`). This is why the loops that
  `++buffer[--i]` have an end;
- the width stays between a byte and two, less one (`IsInterval`), so that `range_coder_get_length()` asks for between 2
  bits and one byte and 2. Rounding up to as many bits gives a number in the last interval that stays there
  whatever follows it (`WrapUpIs`): neither the fill of ones nor the junk behind the payload matters;
- each interval lies in the one before, in the part that belongs to its symbol. By induction backwards, what settles the
  last one lies in all of them (`Widened`, `AllSymbolsWithin`, `ReceivedIs`);
- the decoder's base is its distance from the low end of the interval it has reached (`DecoderIs`). It is in the part of
  the next symbol, parts do not overlap as tables rise, and so the search, down or up from the middle, ends there
  (`FoundIs`); none of its three errors can be met. After the last symbol its width is the encoder's, the lengths agree, and
  the ones at the end are those of `Filled` (`CheckIs`).

TLC checked `CoderInv` on the run's instance before it was proved. The model had to be put as this needs: `2^n` became `Pow2[n]`,
and what is assumed of the tables, which had been left to the instance, became `CoderAssumption`.

**SILK decoder** (`SilkProofs` too), for all tables, rates, gains, frames and packet sizes that `StreamAssumption`
allows: `NeverFarBehind` (`BehindIsBounded`) and `IntactPacketsAreDecoded` (`IntactIsDecoded`).

The invariant of the first, `StreamInv`, counts: calls since a packet was looked at, and frames decoded of it, go
up together, and reading the symbols of a frame, intact or not, changes neither. That of the second adds `ContentInv`,
which says what a packet is: `Layout` gives, for each place of each frame, the table that is chosen there from this frame
and the one before it, and the index that stands there. The encoder writes that (`FrameIsEncoded`; the gains,
each quantized against the one before, by induction over the subframes), the channel leaves it (`WireInv`), and a
decoder that has read the first symbols of it asks for the table of the next place (`TableIsRight`) and takes
from the symbol what the frame had (`TakenEffects`, `GainIsRight`). `StreamAssumption` asks that a difference of 0 can be
coded and that a gain's level, lowered by the least difference, is one of the quantizer's: in the code there are 64 levels
and differences from -4 to 40, and no gain is above level 66, as it has 32 bits and its logarithm ends at 3967.

**SILK excitation** (`CodecsProofs`), for every depth of the shell coder (4 in the code), every table of largest sums and any
pulses: `PulsesAreDecoded`, for frames of any number of blocks, signal types, offsets and rate levels, and from it
`PulsesReturnAlways` (`PulsesReturn`), which is about the frames of the run. In the order of the argument:

- enough halvings leave nothing of a block, and nothing has sums that fit; so the least number of shifts that fits exists
  (`ShiftsFit`), and every sum that is sent then has an entry in its table (`OneBlock`, `ShellHasEntries`);
- a sum and its first half give the second half. By induction over the depth, the shell decoder reads, from where
  a sum's symbols stand, the pulses the sum is of, and ends behind them (`SumIsUnsplit`, `ShellReturns`); a sum of
  0 has no symbols, and the decoder asks for none (`NothingIsSplit`);
- no sum is an escape, so that the decoder counts as many escapes as the encoder wrote (`SumReturns`); each low bit
  doubles what is left of a pulse (`OneBitMore`, `LsbReturn`); a sign is there for each pulse that is not 0 (`SignsReturn`);
- each loop of the decoder is shown to be a known function of the block's number: a solution is
  stated, and two functions that start and go on in the same way are the same (`AlikeIsSame`).

The model was put as this needs: the shell coder is a function for each depth, where it had been a recursion over
sequences, and the number of escapes is the one number the decoder's loop may end with.

**Fixed-point operators** (`CodecsProofs`), for words of every width from 2 bits up: `ArithmeticIsExactAlways`
(`ArithmeticIsExact` of `CodecsMC`), from four theorems that are about all operands where the run has a choice of them.
`WordsAreExact`: sums, products, rounding, shifts by any word in either direction, `norm_s` and `div_s`.
`LongWordsAreExact`: the same of long words, and that `L_Extract` and `L_Comp` lose the lowest bit and no other.
`MixedAreExact`: long words shifted by a word, and products accumulated. `DoublesAreClose`: by how much `Mpy_32_16`, `Mpy_32`
and `Div_32` may be off. The arguments, in the order of their length:

- The tests of the signs after an overflow recognise exactly the wrapped results (`WordsSaturate`, `LongWordsSaturate`).
- A loop that doubles is as many doublings as its counter says; long division keeps `num + b * out = a * 2^i`.
- Truncation: `a \div b` is the number q with `b * q <= a < b * q + b`. The product of two long words consists of three products
  of words, each cut off below (`ThreeProducts`, `PartialSums`), so that its error has a sign and a size.
- `Div_32` takes one step of Newton's iteration. Its first approximation is too small by d / D with `d <= F + D`; the step leaves the
  square of that, and the two truncations (`InverseIsClose`); then come those of the last product (`ProductIsQuotient`).
  The quotient is too small by at most 69 in its last place and too large by at most 2, for every width.

This proof corrected the model. `DoublesClose` had said that `Mpy_32` is off by at most 5 and `Div_32` by less than 64. Both
hold for all operands of the run, and neither for words of 16 bits: 1832370909 times 1862729675 comes out 7
too small, and 2134704127 / 2136014848 is 65 too small. It also had left out the least number as an operand, needlessly.
The loop of `norm_s` and `norm_l` was defined at 0 as well, where it has no end and the code never enters it.

**Induction.** The library's induction theorems take an operator, which no prover here can instantiate. The lemma
`Induction` of `CodecsProofs`, which `SilkProofs` uses too, is about a set: one that has 0, and n + 1 with n, has
all numbers, since a least missing one (`WFMin` of the library) would have no predecessor. What a recursive function
computes is proved with the set of the numbers for which it does. A power is a recursive function too (`Pow2`): the
provers know no law of `^`.

Only model-checked:

- liveness, which needs ENABLED, out of the provers' reach: `AnswersEnd`, `AcceptedSettles` (of the transactions and of
  the dialogs), `MediaEnds`, and the fairness of `TimerContract` and of `RequestOutcome` in `ImplementsContract` and
  `ImplementsRequestOutcome` (of `InviteTransaction` the latter claims the safety part only, and is proved).

## 6. Disagreements between code and documentation

1. *`halt()` may return and `onTimeout()` be called afterwards* (`Timer.java:126`, against its comment at line 107).
   The transactions live with this, which is what the "late" timers of all other runs show.
2. *A refused dialog whose ACK is lost is never closed* (`InviteTransactionServer.java:261`): the
   transaction ends without a callback. `InviteDialog.java:885-889` closes a refused dialog in a callback that
   only `AckTransactionServer` makes, which a refusal does not use. The dialog's entry stays in the provider.
3. *A BYE may reuse the number of a repeated re-INVITE* (`ExtendedInviteDialog.java:259`, against the comment
   at `InviteDialog.java:505`).
4. *A registration granted for 15 seconds or less is not renewed* (`Receiver.java:533`, against
   `RegisterAgent.java:178`): the time is kept, no alarm is set, and all later renewals return early.
5. *A codec is freed while it encodes* (`silk8_jni.cpp:303`, against `Codec.java:77-81`): by a lost update of the
   unlocked counter, or, after a change of codec, because the receiver has opened the new one once and both
   threads close it. `Codecs.java:53-55` leaves the SILK codecs out of the list a call may choose from; the glue
   of those in the list does the same (`speex_jni.cpp:117`).

Read in the code while modelling, without a run:

- A failure response to a BYE, or a late one to a re-INVITE, moves the dialog from D_BYEING back to D_CALL
  (`InviteDialog.java:751`), where the comment at line 719 says that it moves to D_CLOSE; the model does the same.
- `InviteDialog.onReceivedMessage` ignores the result of `verifyStatus` for a re-INVITE, so that one is taken in any
  state; the model does the same.
- A failed or unanswered de-registration is reported through `onUaRegistrationSuccess`
  (`RegisterAgentListener.java:28`); the model does the same (`Succeeds`).
- `register()` resets `attempts` while a registration is under way (`RegisterAgent.java:192`), so that the limit
  on repeated requests is not one per request.
- A refused registration ends in UNREGISTERED whatever it was before, where the comment at
  `RegisterAgent.java:503` speaks of the previous state.
- An ACK that finds no transaction is taken by the dialog for that of its success, also the late or repeated ACK of a
  failure (`InviteDialog.java:630`): it does not look at the number. The model does the same (`ReceiveAck`).
- The entry for OPTIONS that `InviteTransactionServer.listen()` makes is never removed.
- The answer to a call opens a codec (`UserAgent.addMediaDescriptor`) that nothing closes, and switching the speaker
  opens it once more.
- A damaged SILK packet that names another rate and then fails leaves the decoder with the codebooks of that rate and the
  rate it had (`SKP_Silk_decode_frame.c:89`): the next intact packet is misread. `IntactIsDecoded` leaves that state out.
- `silk8_jni.cpp` calls the decoder once for each packet, its loop over `moreInternalDecoderFrames` being commented
  out: after a packet that has, or seems to have, several frames the next packets are not looked at.
- `range_coder_get_length()` asks for between 2 and 10 bits beyond the bytes written, where the comments at
  `SKP_Silk_range_coder.c:295` and `:317` say 1 to 9: a width is between 256 and 65535.
- `range_enc_wrap_up()` drops its last bits without an error when the buffer is exactly full; a frame never fills it.
- The comments on single functions of `oper_32b.c` disagree with its code and its header (line 24) here and there: the
  result of `L_Comp` is said to be at most `0x7fff fff0` (line 69), where the composed number may be `0x7fff fffe`, and that
  of `Div_32` to be in Q30 (line 153) and Q31 (line 175), of which the second is right. The properties follow the header.
- `BV16`'s `decode()` counts the bytes of a packet in a `jbyte`, and copies as many samples per frame as it was given bytes
  (`bv16_jni.cpp:141`, `159`).

## 7. Not modelled

- `InnerTimerST`, the shared timer thread: switched off by `SipStack.single_timer`.
- Within dialogs: offers in the ACK (`inviteWithoutOffer`), REFER, NOTIFY and INFO, routes, contacts, and
  the exclusion named in section 2.
- Voice-mail subscription of `RegisterAgent`; DNS updates, keep-alive and call control of `SipdroidEngine`.
- Interleaving of the statements of two handlers of one object (timers, codecs and sockets excepted); planned for
  `TransactionClient`.
- Lengths of time: timers expire in any order. That T1 doubles up to T2 is left to a module of pure functions.
- Media: jitter control, hold and mute, DTMF, RTCP, the audio devices, and the hang-up that a silent receiver
  asks for, which is not joined to the dialog.
- Calls, user agent, subscriptions, connections: planned, see below.
- Codecs: of the 70 000 lines of C and C++ most are not this program's logic but vendored signal processing (filters,
  pitch and spectrum analysis, noise shaping, G.722, GSM, Speex, BroadVoice), tables of constants, and headers
  of spandsp of which the glue of G.722 and GSM needs two. They compute numbers from numbers, hold no protocol state, and what they compute can
  be judged by ear or against a reference decoder, not by a property of a small instance. What is modelled of them
  is what has states, limits or an inverse: the life of the libraries, the bit stream of SILK, the operators
  with overflow. Left out of that: redundant frames, concealment and comfort noise, packets too large for their buffer, the
  v4 bit stream of SILK, which nothing calls, and the operators of `basop32.c` that no file uses (`L_add_c`,
  `L_sub_c`, `L_macNs`, `L_msuNs`, `L_sat`, `L_mls`, `div_l`, `i_mult`, `shr_r`, `mac_r`, `msu_r`).
- `OSNetworkSystem.cpp` beyond UDP: its TCP, selector, option and address functions (most of its 3670 lines) are
  registered with Java and not called by it, or keep no state. So the map covers only about a twenty-fifth of the C code, and
  the whole of the Java classes named in section 2 but for what this list names.
- Parsing, formatting, digests, Android, HTTP, STUN, generated files: I/O or string processing without
  protocol state.

## 8. Plan

Modules, most important first:

1. `Connections`: the TCP side of `SipProvider`. Threads that send, accept, lose and close connections; the steps of
   `sendMessage` (check, open, add, look up, send) interleave. Abstract specification: a table of at most
   `nmax_connections` open connections, one per peer. Properties: an open connection is in the table or
   being closed; the bound; a terminated connection never removes its replacement; "this point has not to be
   reached". 2 peers, 2 threads, a limit of 1 or 2.
2. `Dispatch`: the table of listeners with promiscuous, transaction, dialog, method and default entries, add and remove
   racing with a lookup; the refinement from `registered` and `entries` of the transactions.
3. `UserAgent`: call states over an abstract dialog, incoming and outgoing calls, hold, transfer, and `MediaSession`
   started and stopped. Properties: media runs exactly in a call; a second incoming call never takes over; every way
   out leads to IDLE. Its abstract dialog is the specification `InviteDialog` is then shown to implement.
4. `Subscription`: `SubscriberDialog` against `NotifierDialog`, and the voice-mail part of `RegisterAgent` on top; NOTIFY
   before the answer to SUBSCRIBE, timeouts, terminated subscriptions that come back to life.
5. `TransactionClientThreads`: the handlers of `TransactionClient` statement by statement on two threads.
6. `Renewal`, pure functions: `reRegister` with 32-bit arithmetic, the retransmission schedule, the product of session
   descriptions.
7. RTP jitter control, as far as its bounds can be told from the code.

Theorems, in the order of their worth:

- `Connections`: the bound on the table and its agreement with the open connections.
