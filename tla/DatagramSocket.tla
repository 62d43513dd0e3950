---------------------------- MODULE DatagramSocket ----------------------------
(***************************************************************************)
(* The UDP sockets of SipdroidSocket.java and PlainDatagramSocketImpl.java *)
(* over OSNetworkSystem.cpp.                                               *)
(*                                                                         *)
(* A Java socket knows its kernel socket by the number in the field        *)
(* `descriptor' of its FileDescriptor.  Native code reads that field once  *)
(* per poll and once more before recvfrom(); a close() by another thread   *)
(* falls between any two of these, and the kernel gives the number of a    *)
(* closed socket to the next one that is opened.                           *)
(***************************************************************************)
EXTENDS Integers

CONSTANTS
  Sockets,    \* the SipdroidSocket objects
  SocketUsers,\* the threads that receive and send
  Fds,        \* the numbers the kernel hands out
  MaxQueue    \* bound on the datagrams that wait in a socket

ASSUME SocketAssumption ==
  /\ Fds \subseteq Nat \ {0}
  /\ MaxQueue \in Nat

NoFd == -1
Nobody == 0

ASSUME NobodyIsNoSocket == Nobody \notin Sockets

VARIABLES
  created,    \* the sockets whose create() has been called
  descriptor, \* FileDescriptor.descriptor of each socket
  owner,      \* the kernel's table: whose kernel socket a number is
  closing,    \* the number a close() has still to give back
  queue,      \* how many datagrams wait in each kernel socket
  io          \* per thread: where it is inside a receive or a send

IoPlaces == {"out", "poll", "select", "ready", "recv", "blocked", "sendto",
             "packet", "exception"}

SocketTypeOK ==
  /\ created \subseteq Sockets
  /\ descriptor \in [Sockets -> Fds \cup {NoFd}]
  /\ owner \in [Fds -> Sockets \cup {Nobody}]
  /\ closing \in [Sockets -> Fds \cup {NoFd}]
  /\ queue \in [Sockets -> 0 .. MaxQueue]
  /\ io \in [SocketUsers -> [at : IoPlaces, sock : Sockets \cup {Nobody},
                             handle : Fds \cup {NoFd}, file : Sockets \cup {Nobody}]]

NoIo == [at |-> "out", sock |-> Nobody, handle |-> NoFd, file |-> Nobody]

SocketInit ==
  /\ created = {}
  /\ descriptor = [s \in Sockets |-> NoFd]
  /\ owner = [n \in Fds |-> Nobody]
  /\ closing = [s \in Sockets |-> NoFd]
  /\ queue = [s \in Sockets |-> 0]
  /\ io = [t \in SocketUsers |-> NoIo]

IoGoes(t, place) == io' = [io EXCEPT ![t].at = place]

-----------------------------------------------------------------------------
(* create() and close().                                                   *)

\* The constructor of a Java socket calls create(), once, and socket() takes
\* the lowest free number.
CreateSocket(s) ==
  /\ s \notin created
  /\ created' = created \cup {s}
  /\ \E n \in Fds :
       /\ owner[n] = Nobody
       /\ \A m \in Fds : owner[m] = Nobody => n <= m
       /\ descriptor' = [descriptor EXCEPT ![s] = n]
       /\ owner' = [owner EXCEPT ![n] = s]
  /\ UNCHANGED <<closing, queue, io>>

\* MUTANT: close() is called before the field is cleared.
ForgetHandleLate(s) ==
  /\ descriptor[s] # NoFd
  /\ closing' = [closing EXCEPT ![s] = descriptor[s]]
  /\ owner' = [owner EXCEPT ![descriptor[s]] = Nobody]
  /\ queue' = [queue EXCEPT ![s] = 0]
  /\ UNCHANGED <<created, descriptor, io>>

\* socketCloseImpl(): the field is -1 before the number is given back.
ForgetHandle(s) ==
  /\ descriptor[s] # NoFd
  /\ closing' = [closing EXCEPT ![s] = descriptor[s]]
  /\ descriptor' = [descriptor EXCEPT ![s] = NoFd]
  /\ UNCHANGED <<created, owner, queue, io>>

GiveBack(s) ==
  /\ closing[s] # NoFd
  /\ closing' = [closing EXCEPT ![s] = NoFd]
  /\ owner' = [owner EXCEPT ![closing[s]] = Nobody]
  /\ queue' = [queue EXCEPT ![s] = 0]
  /\ UNCHANGED <<created, descriptor, io>>

-----------------------------------------------------------------------------
(* receiveDatagramDirectImpl().                                            *)

Receive(t, s) ==
  /\ io[t].at = "out"
  /\ io' = [io EXCEPT ![t] = [NoIo EXCEPT !.at = "poll", !.sock = s]]
  /\ UNCHANGED <<created, descriptor, owner, closing, queue>>

\* One turn of pollSelectWait(): fetch the number, and select() on it.  The
\* kernel keeps the socket that the number stood for until select() returns.
PollFetch(t) ==
  /\ io[t].at = "poll"
  /\ LET handle == descriptor[io[t].sock] IN
       io' = [io EXCEPT ![t].handle = handle,
                        ![t].at = IF handle = NoFd THEN "exception" ELSE "select"]
  /\ UNCHANGED <<created, descriptor, owner, closing, queue>>

SelectEnters(t) ==
  /\ io[t].at = "select"
  /\ io[t].file = Nobody
  /\ LET file == owner[io[t].handle] IN
       io' = [io EXCEPT ![t].file = file,
                        ![t].at = IF file = Nobody THEN "exception" ELSE @]
  /\ UNCHANGED <<created, descriptor, owner, closing, queue>>

\* A datagram is there.
SelectReady(t) ==
  /\ io[t].at = "select"
  /\ io[t].file # Nobody
  /\ queue[io[t].file] > 0
  /\ io' = [io EXCEPT ![t].at = "ready", ![t].file = Nobody]
  /\ UNCHANGED <<created, descriptor, owner, closing, queue>>

\* The 100 ms of a poll are over: another turn ...
SelectTimeout(t) ==
  /\ io[t].at = "select"
  /\ io[t].file # Nobody
  /\ io' = [io EXCEPT ![t].at = "poll", ![t].file = Nobody]
  /\ UNCHANGED <<created, descriptor, owner, closing, queue>>

\* ... or SO_TIMEOUT has passed.
ReceiveTimeout(t) ==
  /\ io[t].at = "select"
  /\ io[t].file # Nobody
  /\ io' = [io EXCEPT ![t].at = "exception", ![t].file = Nobody]
  /\ UNCHANGED <<created, descriptor, owner, closing, queue>>

\* The second fetch, after pollSelectWait() has returned.
RecvFetch(t) ==
  /\ io[t].at = "ready"
  /\ LET handle == descriptor[io[t].sock] IN
       io' = [io EXCEPT ![t].handle = handle,
                        ![t].at = IF handle = NoFd THEN "exception" ELSE "recv"]
  /\ UNCHANGED <<created, descriptor, owner, closing, queue>>

\* recvfrom() on the number, whosever it is by now.
Recv(t) ==
  /\ io[t].at = "recv"
  /\ LET file == owner[io[t].handle]
         there == file # Nobody /\ queue[file] > 0 IN
       /\ io' = [io EXCEPT ![t].file = IF there THEN Nobody ELSE file,
                           ![t].at = IF file = Nobody THEN "exception"
                                     ELSE IF there THEN "packet" ELSE "blocked"]
       /\ queue' = IF there THEN [queue EXCEPT ![file] = @ - 1] ELSE queue
  /\ UNCHANGED <<created, descriptor, owner, closing>>

\* It has no timeout: without a datagram it blocks until that socket has one,
\* and close() does not wake it.
RecvWakes(t) ==
  /\ io[t].at = "blocked"
  /\ queue[io[t].file] > 0
  /\ queue' = [queue EXCEPT ![io[t].file] = @ - 1]
  /\ io' = [io EXCEPT ![t].at = "packet", ![t].file = Nobody]
  /\ UNCHANGED <<created, descriptor, owner, closing>>

-----------------------------------------------------------------------------
(* sendDatagramDirectImpl(): one fetch, then sendto() on the number.       *)

Send(t, s) ==
  /\ io[t].at = "out"
  /\ LET handle == descriptor[s] IN
       io' = [io EXCEPT ![t] = [NoIo EXCEPT !.sock = s, !.handle = handle,
                !.at = IF handle = NoFd THEN "exception" ELSE "sendto"]]
  /\ UNCHANGED <<created, descriptor, owner, closing, queue>>

\* A send that fails with ECONNREFUSED or ECONNRESET returns as if it had
\* been made; any other error is an exception.
SendTo(t) ==
  /\ io[t].at = "sendto"
  /\ \E place \in (IF owner[io[t].handle] = Nobody THEN {} ELSE {"packet"})
                  \cup {"exception"} :
       IoGoes(t, place)
  /\ UNCHANGED <<created, descriptor, owner, closing, queue>>

\* The caller takes the result of its receive or send.
IoDone(t, result) ==
  /\ io[t].at = result
  /\ io' = [io EXCEPT ![t] = NoIo]
  /\ UNCHANGED <<created, descriptor, owner, closing, queue>>

-----------------------------------------------------------------------------
\* The network delivers a datagram to a socket that is open.
Arrive(s) ==
  /\ \E n \in Fds : owner[n] = s
  /\ queue[s] < MaxQueue
  /\ queue' = [queue EXCEPT ![s] = @ + 1]
  /\ UNCHANGED <<created, descriptor, owner, closing, io>>

IoStep(t) ==
  \/ PollFetch(t)
  \/ SelectEnters(t)
  \/ SelectReady(t)
  \/ SelectTimeout(t)
  \/ ReceiveTimeout(t)
  \/ RecvFetch(t)
  \/ Recv(t)
  \/ RecvWakes(t)
  \/ SendTo(t)

-----------------------------------------------------------------------------
\* The sockets on their own, under any use the callers may make of them.
SocketNext ==
  \/ \E s \in Sockets :
       CreateSocket(s) \/ ForgetHandle(s) \/ GiveBack(s) \/ Arrive(s)
  \/ \E t \in SocketUsers :
       \/ IoStep(t)
       \/ \E s \in Sockets : Receive(t, s) \/ Send(t, s)
       \/ \E result \in {"packet", "exception"} : IoDone(t, result)

SocketSpec ==
  SocketInit /\ [][SocketNext]_<<created, descriptor, owner, closing, queue, io>>

\* While a socket is open, its number is that of its own kernel socket, and
\* whoever is about to receive or send with a number reaches that socket: the
\* order in which socketCloseImpl() clears the field and gives the number back,
\* against the fetches of the threads that use it.
OpenMeansOwn ==
  /\ \A s \in Sockets : descriptor[s] # NoFd => owner[descriptor[s]] = s
  /\ \A t \in SocketUsers :
       (io[t].at \in {"recv", "sendto"} /\ descriptor[io[t].sock] # NoFd)
         => owner[io[t].handle] = io[t].sock
=============================================================================
