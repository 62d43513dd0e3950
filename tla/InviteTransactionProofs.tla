----------------------- MODULE InviteTransactionProofs -----------------------
(***************************************************************************)
(* Proofs about InviteTransaction: its invariants, and that it implements  *)
(* the safety part of RequestOutcome.                                      *)
(*                                                                         *)
(* The inductive invariant adds to the properties that are checked what    *)
(* each party knows of the past: the client's listener is there exactly    *)
(* until an outcome has been reported, an ACK in the network is of an      *)
(* outcome that was, the final response in the network is that of the      *)
(* object that answers, and the status of the dialog says which of its two *)
(* server objects that is.                                                 *)
(***************************************************************************)
EXTENDS InviteTransaction, SequenceTheorems, TLAPS

\* The client's listener is dropped with the outcome, neither before nor
\* after, and until then only provisional responses have been reported.
ListenerUntilOutcome ==
  /\ cStatus \in {"Idle", "Trying", "Proceeding", "Completed", "Terminated"}
  /\ cListener <=> cStatus \in {"Idle", "Trying", "Proceeding"}
  /\ cListener => \A i \in DOMAIN told : told[i] = Provisional

\* An ACK is in the network only of an outcome that the caller has been told,
\* and heard by the callee only from there.
AcksAreEarned ==
  /\ cStatus = "Completed" \/ FailureAck \in wire => Told(Failure)
  /\ SuccessAck \in wire => Told(Success)
  /\ "ack" \in heard => FailureAck \in wire
  /\ dialog = "CALL" => SuccessAck \in wire

\* A final response in the network is the one the callee has decided on: a
\* success of the AckTransactionServer, a failure of the INVITE transaction.
OneFinalResponse ==
  /\ Response("INVITE", Success) \in wire => aStatus # "Idle"
  /\ Response("INVITE", Failure) \in wire => response = Failure

\* The status of the dialog says how far the INVITE transaction has come, and
\* with an AckTransactionServer at work the INVITE transaction is over.
DialogFollows ==
  /\ sStatus \in {"Idle", "Waiting", "Proceeding", "Completed", "Confirmed", "Terminated"}
  /\ dialog = "INIT" <=> sStatus = "Idle"
  /\ dialog = "WAITING" => sStatus \in {"Waiting", "Terminated"}
  /\ sStatus = "Waiting" => dialog = "WAITING"
  /\ sStatus \in {"Idle", "Waiting"} => sListener
  /\ dialog = "INVITED" => sStatus = "Proceeding"
  /\ dialog \in {"INIT", "WAITING", "INVITED", "REFUSED"} => aStatus = "Idle"
  /\ dialog \in {"ACCEPTED", "CALL"} => aStatus # "Idle"
  /\ aStatus # "Idle" => sStatus = "Terminated"

\* The response the INVITE transaction keeps is no success; it is a failure
\* when the dialog has refused, and then no AckTransactionServer answers.
ResponseFollows ==
  /\ response # Success
  /\ sStatus \in {"Idle", "Waiting"} => response = "none"
  /\ sStatus \in {"Proceeding", "Completed"} => response # "none"
  /\ dialog = "INVITED" => response = Provisional
  /\ response = Failure => dialog \in {"REFUSED", "CLOSE"} /\ aStatus = "Idle"

\* Before request() there is no INVITE, no timer of the client runs, nothing
\* has been reported, and the callee can at most be listening.
NothingBeforeRequest ==
  cStatus = "Idle" =>
    /\ Invite \notin wire
    /\ \A k \in Client!TimerNames : cTimer[k] = "idle"
    /\ told = <<>>
    /\ dialog \in {"INIT", "WAITING"}
    /\ response = "none"

IInv ==
  /\ TypeOK
  /\ AckMeansKnown
  /\ OneServerAnswers
  /\ WaitsAreTimed
  /\ NoEntryLeaks
  /\ ListenerUntilOutcome
  /\ AcksAreEarned
  /\ OneFinalResponse
  /\ DialogFollows
  /\ ResponseFollows
  /\ NothingBeforeRequest

\* Names that are only abbreviations of values and of sets of values.
USE DEF FinalClasses, Provisional, Success, Failure, Classes,
        Request, Response, Messages, Invite, FailureAck, SuccessAck,
        Client!FinalClasses, Client!Provisional, Client!Success, Client!Failure, Client!Classes,
        Client!Request, Client!Response, Client!Invite, Client!FailureAck,
        Server!FinalClasses, Server!Provisional, Server!Success, Server!Failure, Server!Classes,
        Server!Request, Server!Response, Server!Invite, Server!FailureAck,
        Ack!Success, Ack!Response, Ack!Answer,
        Client!TimerNames, Client!TimerStates, Client!Statuses, Client!Live,
        Server!TimerNames, Server!TimerStates, Server!Statuses, Server!Live, Server!Entries,
        Ack!TimerNames, Ack!TimerStates, Ack!Statuses

-----------------------------------------------------------------------------
(* Facts about messages and about the sequence of callbacks.               *)

\* All parties speak of the same messages, and whatever one of them sends is
\* one of these.
LEMMA MessageFacts ==
  /\ Client!InviteMessages = InviteMessages
  /\ Server!InviteMessages = InviteMessages
  /\ Ack!InviteMessages = InviteMessages
  /\ {Invite, FailureAck, SuccessAck, Request("OPTIONS")} \subseteq InviteMessages
  /\ \A c \in Classes : {Response("INVITE", c), Response("OPTIONS", c)} \subseteq InviteMessages
  BY DEF InviteMessages, Client!InviteMessages, Server!InviteMessages, Ack!InviteMessages,
         Client!Messages, Server!Messages, Ack!Messages, Client!SuccessAck, Server!SuccessAck,
         Ack!SuccessAck, Ack!FailureAck, Ack!Invite, Ack!Request, Ack!Classes, Ack!FinalClasses,
         Ack!Provisional, Ack!Failure

\* The network's messages remain messages, for each of the parties.
WireTyped ==
  /\ wire \subseteq Client!InviteMessages
  /\ wire \subseteq Server!InviteMessages
  /\ wire \subseteq Ack!InviteMessages

\* Messages of the transaction leave what has been sent of the type.
LEMMA WireFacts ==
  ASSUME TypeOK, wire' \subseteq wire \cup InviteMessages
  PROVE  WireTyped'
  BY MessageFacts DEF TypeOK, Client!TypeOK, WireTyped

\* What is done to timers leaves them timers.
LEMMA ClientTimerFacts ==
  ASSUME NEW tm \in [Client!TimerNames -> Client!TimerStates], NEW names
  PROVE  /\ Client!Started(tm, names) \in [Client!TimerNames -> Client!TimerStates]
         /\ Client!Halted(tm, names) \in [Client!TimerNames -> Client!TimerStates]
         /\ \A k : Client!Expired(tm, k) \in [Client!TimerNames -> Client!TimerStates]
         /\ \A k : Client!Done(tm, k) \in [Client!TimerNames -> Client!TimerStates]
  BY DEF Client!Started, Client!Halted, Client!Expired, Client!Done

\* Starting, halting and ending timers gives timers.
LEMMA ServerTimerFacts ==
  ASSUME NEW tm \in [Server!TimerNames -> Server!TimerStates], NEW names
  PROVE  /\ Server!Started(tm, names) \in [Server!TimerNames -> Server!TimerStates]
         /\ Server!Halted(tm, names) \in [Server!TimerNames -> Server!TimerStates]
         /\ \A k : Server!Done(tm, k) \in [Server!TimerNames -> Server!TimerStates]
  BY DEF Server!Started, Server!Halted, Server!Done

\* What has been told is told as long as nothing is reported.
LEMMA ToldStays ==
  ASSUME UNCHANGED told
  PROVE  (Told(Success) <=> Told(Success)') /\ (Told(Failure) <=> Told(Failure)')
  BY DEF Told

\* A callback appended to those made so far is the last of them.
LEMMA AppendFacts ==
  ASSUME NEW S, NEW s \in Seq(S), NEW e \in S
  PROVE  /\ Append(s, e) \in Seq(S)
         /\ Append(s, e) # <<>>
         /\ DOMAIN Append(s, e) = 1 .. (Len(s) + 1)
         /\ Len(Append(s, e)) = Len(s) + 1 /\ Len(s) + 1 \in 1 .. (Len(s) + 1)
         /\ DOMAIN s = 1 .. Len(s)
         /\ \A i \in DOMAIN s : i \in DOMAIN Append(s, e) /\ Append(s, e)[i] = s[i]
         /\ Append(s, e)[Len(s) + 1] = e
  OBVIOUS

\* What is reported is added to what has been told, unless nobody listens;
\* nothing that has been told is taken back.
LEMMA ReportFacts ==
  ASSUME IInv, NEW e \in Classes \cup {"timeout"}, told' = Client!Report(e)
  PROVE  /\ told' \in Seq(Classes \cup {"timeout"})
         /\ (Told(Success) => Told(Success)') /\ (Told(Failure) => Told(Failure)')
         /\ cListener => Told(e)'
         /\ cListener /\ e = Provisional => \A i \in DOMAIN told' : told'[i] = Provisional
         /\ cListener /\ e # Provisional => told' # <<>> /\ told'[Len(told')] = e
         /\ ~cListener => told' = told
<1> DEFINE S == Classes \cup {"timeout"}
<1>1. told \in Seq(S)
  BY DEF IInv, TypeOK, Client!TypeOK
<1>2. cListener => \A i \in DOMAIN told : told[i] = Provisional
  BY DEF IInv, ListenerUntilOutcome
<1> HIDE DEF S
<1>3. e \in S
  BY DEF S
<1>4. CASE told' = told /\ ~cListener
  BY <1>1, <1>4 DEF Told, S
<1>5. CASE told' = told /\ e = Provisional /\ told = <<Provisional>>
  BY <1>1, <1>5 DEF Told, S
<1>6. CASE told' = Append(told, e) /\ cListener
  <2>1. /\ told' \in Seq(S) /\ told' # <<>>
        /\ DOMAIN told' = 1 .. (Len(told) + 1)
        /\ Len(told') = Len(told) + 1 /\ Len(told) + 1 \in DOMAIN told'
        /\ DOMAIN told = 1 .. Len(told)
        /\ \A i \in DOMAIN told : i \in DOMAIN told' /\ told'[i] = told[i]
        /\ told'[Len(told) + 1] = e
    BY <1>1, <1>3, <1>6, AppendFacts
  <2>2. (Told(Success) => Told(Success)') /\ (Told(Failure) => Told(Failure)') /\ Told(e)'
    BY <2>1 DEF Told
  <2>3. e = Provisional => \A i \in DOMAIN told' : told'[i] = Provisional
    <3>1. \A i \in DOMAIN told' : i \in DOMAIN told \/ i = Len(told) + 1
      BY <1>1, <2>1, LenProperties
    <3> QED
      BY <1>2, <1>6, <2>1, <3>1
  <2> QED
    BY <1>6, <2>1, <2>2, <2>3 DEF S
<1> QED
  BY <1>4, <1>5, <1>6 DEF Client!Report

-----------------------------------------------------------------------------
(* The invariant holds at first.                                           *)

\* The invariant holds before the INVITE is sent.
LEMMA InitInvariant == Init => IInv
<1> SUFFICES ASSUME Init PROVE IInv
  OBVIOUS
<1> USE DEF Init, Client!Init, Server!Init, Ack!Init, Client!AllIdle, Server!AllIdle, Ack!AllIdle
<1>1. Client!TypeOK
  BY EmptySeq DEF Client!TypeOK
<1>2. Server!TypeOK /\ Ack!TypeOK
  BY DEF Server!TypeOK, Ack!TypeOK
<1>3. DOMAIN told = {}
  OBVIOUS
<1> QED
  BY <1>1, <1>2, <1>3
  DEF IInv, TypeOK, AckMeansKnown, OneServerAnswers, WaitsAreTimed, NoEntryLeaks,
      ListenerUntilOutcome, AcksAreEarned, OneFinalResponse, DialogFollows, ResponseFollows,
      NothingBeforeRequest

-----------------------------------------------------------------------------
(* The steps of the caller.                                                *)

calleeVars == <<serverVars, ackVars, dialog>>

\* request() of the caller keeps the invariant.
LEMMA ClientSends ==
  ASSUME IInv, Client!SendRequest, UNCHANGED calleeVars
  PROVE  IInv'
<1> USE DEF Client!SendRequest, calleeVars, serverVars, ackVars
<1>0. WireTyped'
  BY MessageFacts, WireFacts DEF IInv
<1>1. TypeOK'
  BY <1>0 DEF WireTyped, IInv, TypeOK, Client!TypeOK, Server!TypeOK, Ack!TypeOK, Client!Started
<1>2. WaitsAreTimed'
  BY DEF IInv, TypeOK, Client!TypeOK, WaitsAreTimed, Client!Started, Pending
<1>3. AckMeansKnown' /\ AcksAreEarned' /\ OneFinalResponse'
  BY DEF IInv, AckMeansKnown, AcksAreEarned, OneFinalResponse, Told
<1> QED
  BY <1>1, <1>2, <1>3
  DEF IInv, OneServerAnswers, NoEntryLeaks, ListenerUntilOutcome, DialogFollows,
      ResponseFollows, NothingBeforeRequest

\* So does a provisional response to it.
LEMMA ClientHearsProvisional ==
  ASSUME IInv, Client!ReceiveProvisional, UNCHANGED calleeVars
  PROVE  IInv'
<1> USE DEF Client!ReceiveProvisional, calleeVars, serverVars, ackVars
<1>1. cListener
  BY DEF IInv, ListenerUntilOutcome
<1>2. /\ told' \in Seq(Classes \cup {"timeout"})
      /\ (Told(Success) => Told(Success)') /\ (Told(Failure) => Told(Failure)')
      /\ \A i \in DOMAIN told' : told'[i] = Provisional
  BY <1>1, ReportFacts
<1>3. TypeOK'
  BY <1>2 DEF IInv, TypeOK, Client!TypeOK, Server!TypeOK, Ack!TypeOK, Client!Halted
<1>4. WaitsAreTimed'
  BY DEF IInv, TypeOK, Client!TypeOK, WaitsAreTimed, Client!Halted, Pending
<1>5. AckMeansKnown' /\ AcksAreEarned'
  BY <1>2 DEF IInv, AckMeansKnown, AcksAreEarned
<1> QED
  BY <1>1, <1>2, <1>3, <1>4, <1>5
  DEF IInv, OneServerAnswers, NoEntryLeaks, ListenerUntilOutcome, OneFinalResponse,
      DialogFollows, ResponseFollows, NothingBeforeRequest

\* So does a failure.
LEMMA ClientHearsFailure ==
  ASSUME IInv, Client!ReceiveFailure, UNCHANGED calleeVars
  PROVE  IInv'
<1> USE DEF Client!ReceiveFailure, calleeVars, serverVars, ackVars
<1>1. cListener
  BY DEF IInv, ListenerUntilOutcome
<1>2. told' \in Seq(Classes \cup {"timeout"})
  BY ReportFacts
<1>6. /\ (Told(Success) => Told(Success)') /\ (Told(Failure) => Told(Failure)')
      /\ Told(Failure)'
  BY <1>1, ReportFacts
<1>0. WireTyped'
  BY MessageFacts, WireFacts DEF IInv
<1>3. TypeOK'
  <2>1. cTimer' \in [Client!TimerNames -> Client!TimerStates]
    BY ClientTimerFacts DEF IInv, TypeOK, Client!TypeOK
  <2>2. Client!TypeOK'
    BY <1>0, <1>2, <2>1 DEF WireTyped, IInv, TypeOK, Client!TypeOK
  <2>3. Server!TypeOK' /\ Ack!TypeOK'
    BY <1>0 DEF WireTyped, IInv, TypeOK, Server!TypeOK, Ack!TypeOK
  <2> QED
    BY <2>2, <2>3 DEF IInv, TypeOK
<1>4. WaitsAreTimed'
  BY DEF IInv, TypeOK, Client!TypeOK, WaitsAreTimed, Client!Halted, Client!Started, Pending
<1>5. AckMeansKnown' /\ AcksAreEarned' /\ OneFinalResponse'
  BY <1>6 DEF IInv, AckMeansKnown, AcksAreEarned, OneFinalResponse
<1> QED
  BY <1>3, <1>4, <1>5
  DEF IInv, OneServerAnswers, NoEntryLeaks, ListenerUntilOutcome,
      DialogFollows, ResponseFollows, NothingBeforeRequest

\* So does a failure that is repeated.
LEMMA ClientHearsFailureAgain ==
  ASSUME IInv, Client!ReceiveFailureAgain, UNCHANGED calleeVars
  PROVE  IInv'
<1> USE DEF Client!ReceiveFailureAgain, calleeVars, serverVars, ackVars
<1>0. WireTyped'
  BY MessageFacts, WireFacts DEF IInv
<1>1. TypeOK'
  BY <1>0 DEF WireTyped, IInv, TypeOK, Client!TypeOK, Server!TypeOK, Ack!TypeOK
<1>2. AckMeansKnown' /\ AcksAreEarned' /\ OneFinalResponse'
  BY DEF IInv, AckMeansKnown, AcksAreEarned, OneFinalResponse, Told
<1> QED
  BY <1>1, <1>2
  DEF IInv, OneServerAnswers, WaitsAreTimed, Pending, NoEntryLeaks, ListenerUntilOutcome,
      DialogFollows, ResponseFollows, NothingBeforeRequest

\* So does a success.
LEMMA ClientHearsSuccess ==
  ASSUME IInv, Client!ReceiveSuccess({SuccessAck}), UNCHANGED calleeVars
  PROVE  IInv'
<1> USE DEF Client!ReceiveSuccess, calleeVars, serverVars, ackVars
<1>1. cListener /\ wire' = wire \cup {SuccessAck}
  BY DEF IInv, ListenerUntilOutcome
<1>2. told' \in Seq(Classes \cup {"timeout"})
  BY ReportFacts
<1>6. /\ (Told(Success) => Told(Success)') /\ (Told(Failure) => Told(Failure)')
      /\ Told(Success)'
  BY <1>1, ReportFacts
<1>0. WireTyped'
  BY <1>1, MessageFacts, WireFacts DEF IInv
<1>3. TypeOK'
  <2>1. cTimer' \in [Client!TimerNames -> Client!TimerStates]
    BY DEF IInv, TypeOK, Client!TypeOK, Client!Halted
  <2>2. Client!TypeOK'
    BY <1>0, <1>2, <2>1 DEF WireTyped, IInv, TypeOK, Client!TypeOK
  <2>3. Server!TypeOK' /\ Ack!TypeOK'
    BY <1>0 DEF WireTyped, IInv, TypeOK, Server!TypeOK, Ack!TypeOK
  <2> QED
    BY <2>2, <2>3 DEF IInv, TypeOK
<1>4. WaitsAreTimed'
  BY DEF IInv, WaitsAreTimed, Pending
<1>5. AckMeansKnown' /\ AcksAreEarned' /\ OneFinalResponse'
  BY <1>1, <1>6 DEF IInv, AckMeansKnown, AcksAreEarned, OneFinalResponse
<1> QED
  BY <1>3, <1>4, <1>5
  DEF IInv, OneServerAnswers, NoEntryLeaks, ListenerUntilOutcome,
      DialogFollows, ResponseFollows, NothingBeforeRequest

\* So does the end of the transaction's timer.
LEMMA ClientTimesOut ==
  ASSUME IInv, Client!OnTransactionTimeout, UNCHANGED calleeVars
  PROVE  IInv'
<1> USE DEF Client!OnTransactionTimeout, calleeVars, serverVars, ackVars
<1>1. /\ (Told(Success) => Told(Success)') /\ (Told(Failure) => Told(Failure)')
      /\ told' \in Seq(Classes \cup {"timeout"})
  BY ReportFacts
<1>2. TypeOK'
  <2>1. cTimer' \in [Client!TimerNames -> Client!TimerStates]
    BY ClientTimerFacts DEF IInv, TypeOK, Client!TypeOK
  <2>2. Client!TypeOK'
    BY <1>1, <2>1 DEF IInv, TypeOK, Client!TypeOK
  <2>3. Server!TypeOK' /\ Ack!TypeOK'
    BY DEF IInv, TypeOK, Server!TypeOK, Ack!TypeOK
  <2> QED
    BY <2>2, <2>3 DEF IInv, TypeOK
<1>3. WaitsAreTimed'
  BY DEF IInv, WaitsAreTimed, Pending
<1>4. AckMeansKnown' /\ AcksAreEarned'
  BY <1>1 DEF IInv, AckMeansKnown, AcksAreEarned
<1>5. cStatus # "Idle"
  BY DEF Client!Fires, IInv, NothingBeforeRequest
<1> QED
  BY <1>2, <1>3, <1>4, <1>5
  DEF IInv, OneServerAnswers, NoEntryLeaks, ListenerUntilOutcome, OneFinalResponse,
      DialogFollows, ResponseFollows, NothingBeforeRequest

\* The steps that tell the client's user nothing.
LEMMA ClientQuiet ==
  ASSUME IInv, UNCHANGED calleeVars, UNCHANGED told,
         \/ \E k \in Client!TimerNames : Client!TimerExpires(k) \/ Client!TimerCallLost(k)
         \/ Client!OnRetransmissionTimeout
         \/ Client!OnEndTimeout
         \/ Client!Terminate
  PROVE  IInv'
<1> USE DEF calleeVars, serverVars, ackVars
<1>1. ASSUME NEW k \in Client!TimerNames, Client!TimerExpires(k) \/ Client!TimerCallLost(k)
      PROVE  IInv'
  <2> USE <1>1, ToldStays
        DEF Client!TimerExpires, Client!TimerCallLost, Client!Expired, Client!Done
  <2>1. TypeOK'
    BY DEF IInv, TypeOK, Client!TypeOK, Server!TypeOK, Ack!TypeOK
  <2>2. WaitsAreTimed'
    BY DEF IInv, TypeOK, Client!TypeOK, WaitsAreTimed, Pending
  <2>3. cStatus # "Idle"
    BY DEF IInv, NothingBeforeRequest
  <2>4. AckMeansKnown' /\ AcksAreEarned' /\ OneFinalResponse'
    BY DEF IInv, AckMeansKnown, AcksAreEarned, OneFinalResponse
  <2> QED
    BY <2>1, <2>2, <2>3, <2>4
    DEF IInv, OneServerAnswers, NoEntryLeaks, ListenerUntilOutcome,
        DialogFollows, ResponseFollows, NothingBeforeRequest
<1>2. CASE Client!OnRetransmissionTimeout
  <2> USE <1>2 DEF Client!OnRetransmissionTimeout, Client!Started, Client!Done
  <2>0. WireTyped'
    BY MessageFacts, WireFacts DEF IInv
  <2>1. TypeOK'
    BY <2>0 DEF WireTyped, IInv, TypeOK, Client!TypeOK, Server!TypeOK, Ack!TypeOK
  <2>2. WaitsAreTimed'
    BY DEF IInv, TypeOK, Client!TypeOK, WaitsAreTimed, Pending
  <2>3. AckMeansKnown' /\ AcksAreEarned' /\ OneFinalResponse'
    <3>1. wire' \subseteq wire \cup {Invite}
      OBVIOUS
    <3> QED
      BY <3>1, ToldStays DEF IInv, AckMeansKnown, AcksAreEarned, OneFinalResponse
  <2>4. cStatus # "Idle"
    BY DEF Client!Fires, IInv, NothingBeforeRequest
  <2> QED
    BY <2>1, <2>2, <2>3, <2>4
    DEF IInv, OneServerAnswers, NoEntryLeaks, ListenerUntilOutcome,
        DialogFollows, ResponseFollows, NothingBeforeRequest
<1>3. CASE Client!OnEndTimeout \/ Client!Terminate
  <2> USE <1>3 DEF Client!OnEndTimeout, Client!Terminate
  <2>1. TypeOK'
    <3>1. cTimer' \in [Client!TimerNames -> Client!TimerStates]
      BY ClientTimerFacts DEF IInv, TypeOK, Client!TypeOK
    <3>2. Client!TypeOK'
      BY <3>1 DEF IInv, TypeOK, Client!TypeOK
    <3>3. Server!TypeOK' /\ Ack!TypeOK'
      BY DEF IInv, TypeOK, Server!TypeOK, Ack!TypeOK
    <3> QED
      BY <3>2, <3>3 DEF IInv, TypeOK
  <2>2. WaitsAreTimed'
    BY DEF IInv, WaitsAreTimed, Pending
  <2>3. cStatus # "Idle"
    BY DEF Client!Fires, IInv, NothingBeforeRequest
  <2>4. AckMeansKnown' /\ AcksAreEarned' /\ OneFinalResponse'
    BY DEF IInv, AckMeansKnown, AcksAreEarned, OneFinalResponse, Told
  <2> QED
    BY <2>1, <2>2, <2>3, <2>4
    DEF IInv, OneServerAnswers, NoEntryLeaks, ListenerUntilOutcome,
        DialogFollows, ResponseFollows, NothingBeforeRequest
<1> QED
  BY <1>1, <1>2, <1>3

\* Every step of the caller keeps the invariant.
LEMMA CallerInvariant ==
  ASSUME IInv, CallerStep
  PROVE  IInv'
<1> USE DEF CallerStep, calleeVars
<1>1. CASE Client!SendRequest
  BY <1>1, ClientSends
<1>2. CASE Client!ReceiveStep({SuccessAck})
  BY <1>2, ClientHearsProvisional, ClientHearsFailure, ClientHearsFailureAgain, ClientHearsSuccess
  DEF Client!ReceiveStep
<1>3. CASE \E k \in Client!TimerNames : Client!TimerStep(k)
  BY <1>3, ClientTimesOut, ClientQuiet
  DEF Client!TimerStep, Client!OnTimeout, Client!TimerExpires, Client!TimerCallLost,
      Client!OnRetransmissionTimeout, Client!OnEndTimeout
<1>4. CASE Client!Terminate
  BY <1>4, ClientQuiet DEF Client!Terminate
<1> QED
  BY <1>1, <1>2, <1>3, <1>4 DEF Client!Next

\* So does an OPTIONS request to the callee.
LEMMA OptionsInvariant ==
  ASSUME IInv, SendOptions
  PROVE  IInv'
<1> USE DEF SendOptions, clientVars, serverVars, ackVars
<1>0. WireTyped'
  BY MessageFacts, WireFacts DEF IInv
<1>1. TypeOK'
  BY <1>0 DEF WireTyped, IInv, TypeOK, Client!TypeOK, Server!TypeOK, Ack!TypeOK
<1>2. AckMeansKnown' /\ AcksAreEarned' /\ OneFinalResponse'
  BY DEF IInv, AckMeansKnown, AcksAreEarned, OneFinalResponse, Told
<1> QED
  BY <1>1, <1>2
  DEF IInv, OneServerAnswers, WaitsAreTimed, Pending, NoEntryLeaks, ListenerUntilOutcome,
      DialogFollows, ResponseFollows, NothingBeforeRequest

-----------------------------------------------------------------------------
(* The steps of the callee.                                                *)

\* So does the callee that begins or ceases to listen.
LEMMA CalleeListens ==
  ASSUME IInv, Listen \/ StopListening
  PROVE  IInv'
<1> USE ToldStays
    DEF Listen, StopListening, Server!Listen, Server!Terminate, clientVars, ackVars
<1>1. UNCHANGED <<clientVars, ackVars, response, heard, wire>>
  OBVIOUS
<1>2. TypeOK'
  <2>1. Server!TypeOK' /\ dialog' \in {"INIT", "WAITING"}
    <3>1. sTimer' \in [Server!TimerNames -> Server!TimerStates]
      BY DEF IInv, TypeOK, Server!TypeOK, Server!Halted
    <3>2. entries' \subseteq entries \cup {"INVITE", "OPTIONS"}
      OBVIOUS
    <3> QED
      BY <3>1, <3>2 DEF IInv, TypeOK, Server!TypeOK
  <2> QED
    BY <1>1, <2>1 DEF IInv, TypeOK, Client!TypeOK, Ack!TypeOK
<1>3. /\ sStatus' \in {"Waiting", "Terminated"} /\ dialog' = "WAITING"
      /\ sStatus' = "Waiting" => sListener'
      /\ sStatus \in {"Idle", "Waiting", "Terminated"} /\ dialog \in {"INIT", "WAITING"}
      /\ aStatus = "Idle" /\ response # Failure
  BY DEF IInv, DialogFollows, ResponseFollows
<1>4. WaitsAreTimed' /\ OneServerAnswers' /\ DialogFollows' /\ ResponseFollows'
  BY <1>1, <1>3
  DEF IInv, WaitsAreTimed, OneServerAnswers, DialogFollows, ResponseFollows, Pending
<1>5. NoEntryLeaks'
  BY <1>1, <1>3 DEF IInv, NoEntryLeaks, DialogFollows
<1> QED
  BY <1>1, <1>2, <1>3, <1>4, <1>5
  DEF IInv, AckMeansKnown, ListenerUntilOutcome, AcksAreEarned, OneFinalResponse,
      NothingBeforeRequest

\* So does the arrival of an INVITE.
LEMMA CalleeIsInvited ==
  ASSUME IInv, CreateDialogFor \/ ReceiveInvite
  PROVE  IInv'
<1> USE ToldStays
    DEF CreateDialogFor, ReceiveInvite, Server!CreateFor, Server!ReceiveInvite, Server!Takes,
        clientVars, ackVars
<1>1. /\ UNCHANGED <<clientVars, ackVars, sListener, sTimer>>
      /\ wire' = wire \cup {Response("INVITE", Provisional)}
      /\ response' = Provisional /\ sStatus' = "Proceeding"
      /\ heard' \subseteq heard \cup {"request"}
  BY DEF Server!Hear
<1>2. /\ sStatus \in {"Idle", "Waiting"} /\ dialog' = "INVITED"
      /\ response = "none" /\ aStatus = "Idle"
      /\ cStatus # "Idle"
  BY DEF IInv, DialogFollows, ResponseFollows, NothingBeforeRequest
<1>0. WireTyped'
  BY <1>1, MessageFacts, WireFacts DEF IInv
<1>3. entries' = (entries \cup {"transaction"}) \ {"INVITE"}
  BY <1>2 DEF IInv, NoEntryLeaks, DialogFollows
<1> HIDE DEF CreateDialogFor, ReceiveInvite
<1>4. TypeOK'
  BY <1>0, <1>1, <1>2, <1>3
  DEF WireTyped, IInv, TypeOK, Client!TypeOK, Server!TypeOK, Ack!TypeOK
<1>5. NoEntryLeaks' /\ WaitsAreTimed' /\ OneServerAnswers'
  BY <1>1, <1>2, <1>3 DEF IInv, NoEntryLeaks, WaitsAreTimed, OneServerAnswers, Pending
<1>6. DialogFollows' /\ ResponseFollows' /\ NothingBeforeRequest'
  BY <1>1, <1>2 DEF IInv, DialogFollows, ResponseFollows, NothingBeforeRequest
<1>7. AckMeansKnown' /\ AcksAreEarned' /\ OneFinalResponse'
  BY <1>1, <1>2 DEF IInv, AckMeansKnown, AcksAreEarned, OneFinalResponse
<1> QED
  BY <1>1, <1>4, <1>5, <1>6, <1>7 DEF IInv, ListenerUntilOutcome

\* So does ring().
LEMMA CalleeRings ==
  ASSUME IInv, Ring
  PROVE  IInv'
<1> USE ToldStays DEF Ring, Server!RespondWith, clientVars, ackVars
<1>1. sStatus = "Proceeding" /\ response = Provisional /\ aStatus = "Idle" /\ cStatus # "Idle"
  BY DEF IInv, DialogFollows, ResponseFollows, NothingBeforeRequest
<1>2. /\ UNCHANGED <<sStatus, sTimer, entries, response, sListener, heard>>
      /\ wire' = wire \cup {Response("INVITE", Provisional)}
  BY <1>1 DEF IInv, TypeOK, Server!TypeOK
<1>3. UNCHANGED <<clientVars, ackVars, dialog>>
  OBVIOUS
<1>0. WireTyped'
  BY <1>2, MessageFacts, WireFacts DEF IInv
<1> HIDE DEF Ring
<1>4. TypeOK'
  BY <1>0, <1>2, <1>3 DEF WireTyped, IInv, TypeOK, Client!TypeOK, Server!TypeOK, Ack!TypeOK
<1>5. AckMeansKnown' /\ AcksAreEarned' /\ OneFinalResponse'
  BY <1>2, <1>3 DEF IInv, AckMeansKnown, AcksAreEarned, OneFinalResponse
<1> QED
  BY <1>1, <1>2, <1>3, <1>4, <1>5
  DEF IInv, OneServerAnswers, WaitsAreTimed, Pending, NoEntryLeaks, ListenerUntilOutcome,
      DialogFollows, ResponseFollows, NothingBeforeRequest

\* So does refuse().
LEMMA CalleeRefuses ==
  ASSUME IInv, Refuse
  PROVE  IInv'
<1> USE ToldStays DEF Refuse, Server!RespondWith, clientVars, ackVars
<1>1. sStatus = "Proceeding" /\ response = Provisional /\ aStatus = "Idle" /\ cStatus # "Idle"
  BY DEF IInv, DialogFollows, ResponseFollows, NothingBeforeRequest
<1>2. /\ UNCHANGED <<entries, sListener, heard>> /\ sStatus' = "Completed" /\ response' = Failure
      /\ sTimer' = Server!Started(sTimer, {"retransmission", "end"})
      /\ wire' = wire \cup {Response("INVITE", Failure)}
  BY <1>1 DEF IInv, TypeOK, Server!TypeOK
<1>3. UNCHANGED <<clientVars, ackVars>> /\ dialog' = "REFUSED"
  OBVIOUS
<1>0. WireTyped'
  BY <1>2, MessageFacts, WireFacts DEF IInv
<1> HIDE DEF Refuse
<1>4. TypeOK'
  <2>1. sTimer' \in [Server!TimerNames -> Server!TimerStates]
    BY <1>2 DEF IInv, TypeOK, Server!TypeOK, Server!Started
  <2> QED
    BY <1>0, <1>2, <1>3, <2>1
    DEF WireTyped, IInv, TypeOK, Client!TypeOK, Server!TypeOK, Ack!TypeOK
<1>5. AckMeansKnown' /\ AcksAreEarned' /\ OneFinalResponse'
  BY <1>1, <1>2, <1>3 DEF IInv, AckMeansKnown, AcksAreEarned, OneFinalResponse
<1>6. WaitsAreTimed'
  BY <1>1, <1>2, <1>3 DEF IInv, TypeOK, Server!TypeOK, WaitsAreTimed, Pending, Server!Started
<1> QED
  BY <1>1, <1>2, <1>3, <1>4, <1>5, <1>6
  DEF IInv, OneServerAnswers, NoEntryLeaks, ListenerUntilOutcome,
      DialogFollows, ResponseFollows, NothingBeforeRequest

\* So does accept().
LEMMA CalleeAccepts ==
  ASSUME IInv, Accept
  PROVE  IInv'
<1> USE ToldStays DEF Accept, Server!Terminate, Ack!Respond, clientVars
<1>1. sStatus = "Proceeding" /\ response = Provisional /\ aStatus = "Idle" /\ cStatus # "Idle"
  BY DEF IInv, DialogFollows, ResponseFollows, NothingBeforeRequest
<1>2. /\ UNCHANGED <<response, heard, clientVars, aListener>>
      /\ sStatus' = "Terminated" /\ sListener' = FALSE
      /\ entries' = entries \ {"transaction"}
      /\ sTimer' = Server!Halted(sTimer, Server!TimerNames)
      /\ aStatus' = "Proceeding" /\ aTimer' = Ack!Started(aTimer, Ack!TimerNames)
      /\ wire' = wire \cup {Response("INVITE", Success)}
      /\ dialog' = "ACCEPTED"
  BY <1>1
<1>0. WireTyped'
  BY <1>2, MessageFacts, WireFacts DEF IInv
<1> HIDE DEF Accept
<1>4. TypeOK'
  <2>1. /\ sTimer' \in [Server!TimerNames -> Server!TimerStates]
        /\ aTimer' \in [Ack!TimerNames -> Ack!TimerStates]
    BY <1>2 DEF IInv, TypeOK, Server!TypeOK, Ack!TypeOK, Server!Halted, Ack!Started
  <2> QED
    BY <1>0, <1>2, <2>1
    DEF WireTyped, IInv, TypeOK, Client!TypeOK, Server!TypeOK, Ack!TypeOK
<1>5. AckMeansKnown' /\ AcksAreEarned' /\ OneFinalResponse'
  BY <1>1, <1>2 DEF IInv, AckMeansKnown, AcksAreEarned, OneFinalResponse
<1>6. WaitsAreTimed'
  BY <1>2 DEF IInv, TypeOK, Ack!TypeOK, WaitsAreTimed, Pending, Ack!Started
<1> QED
  BY <1>1, <1>2, <1>4, <1>5, <1>6
  DEF IInv, OneServerAnswers, NoEntryLeaks, ListenerUntilOutcome,
      DialogFollows, ResponseFollows, NothingBeforeRequest

\* So does the ACK of a failure.
LEMMA CalleeHearsAck ==
  ASSUME IInv, ReceiveFailureAck
  PROVE  IInv'
<1> USE ToldStays DEF ReceiveFailureAck, Server!ReceiveAck, clientVars, ackVars
<1>1. /\ sStatus = "Completed" /\ FailureAck \in wire /\ response # "none"
      /\ dialog \notin {"INIT", "WAITING", "INVITED"} /\ aStatus = "Idle"
  BY DEF IInv, DialogFollows, ResponseFollows
<1>2. /\ UNCHANGED <<clientVars, ackVars, sListener, entries, response, wire>>
      /\ sStatus' = "Confirmed"
      /\ heard' \subseteq heard \cup {"ack"}
      /\ sTimer' = Server!Started(Server!Halted(sTimer, {"retransmission", "end"}), {"clearing"})
      /\ dialog' = dialog \/ (dialog = "REFUSED" /\ dialog' = "CLOSE")
  BY DEF Server!Hear
<1> HIDE DEF ReceiveFailureAck
<1>3. TypeOK'
  <2>1. sTimer' \in [Server!TimerNames -> Server!TimerStates]
    BY <1>2, ServerTimerFacts DEF IInv, TypeOK, Server!TypeOK
  <2>2. Server!TypeOK'
    BY <1>2, <2>1 DEF IInv, TypeOK, Server!TypeOK
  <2> QED
    BY <1>2, <2>2 DEF IInv, TypeOK, Client!TypeOK, Ack!TypeOK
<1>4. AckMeansKnown' /\ AcksAreEarned'
  BY <1>1, <1>2 DEF IInv, AckMeansKnown, AcksAreEarned
<1>5. WaitsAreTimed'
  <2>1. sTimer'["clearing"] = "running"
    BY <1>2 DEF IInv, TypeOK, Server!TypeOK, Server!Started, Server!Halted
  <2> QED
    BY <1>2, <2>1 DEF IInv, WaitsAreTimed, Pending
<1>6. DialogFollows' /\ ResponseFollows' /\ NothingBeforeRequest'
  BY <1>1, <1>2 DEF IInv, DialogFollows, ResponseFollows, NothingBeforeRequest
<1> QED
  BY <1>1, <1>2, <1>3, <1>4, <1>5, <1>6
  DEF IInv, OneServerAnswers, NoEntryLeaks, ListenerUntilOutcome, OneFinalResponse

\* The end of the AckTransactionServer: the ACK has come, or has not in time.
LEMMA CalleeSettles ==
  ASSUME IInv, ReceiveSuccessAck \/ AckTimeout
  PROVE  IInv'
<1> USE ToldStays DEF ReceiveSuccessAck, AckTimeout, Ack!Terminate, Ack!OnTransactionTimeout,
                      Ack!TellsTimeout, clientVars, serverVars
<1>1. UNCHANGED <<clientVars, serverVars, wire>>
  OBVIOUS
<1>2. /\ aStatus' # "Proceeding"
      /\ aStatus' = "Idle" <=> aStatus = "Idle"
      /\ aListener' \in BOOLEAN /\ aStatus' \in {aStatus, "Terminated"}
  BY DEF IInv, TypeOK, Ack!TypeOK, DialogFollows
<1>3. aTimer' \in [Ack!TimerNames -> Ack!TimerStates]
  BY DEF IInv, TypeOK, Ack!TypeOK, Ack!Halted, Ack!Done
<1>4. \/ dialog' = dialog
      \/ dialog = "ACCEPTED" /\ dialog' = "CALL" /\ SuccessAck \in wire
      \/ dialog = "ACCEPTED" /\ dialog' = "CLOSE"
  BY DEF IInv, DialogFollows
<1> HIDE DEF ReceiveSuccessAck, AckTimeout
<1>5. TypeOK'
  <2>1. Ack!TypeOK'
    BY <1>1, <1>2, <1>3 DEF IInv, TypeOK, Ack!TypeOK
  <2>2. Client!TypeOK' /\ Server!TypeOK'
    BY <1>1 DEF IInv, TypeOK, Client!TypeOK, Server!TypeOK
  <2> QED
    BY <1>4, <2>1, <2>2 DEF IInv, TypeOK
<1>6. AckMeansKnown' /\ AcksAreEarned'
  BY <1>1, <1>4 DEF IInv, AckMeansKnown, AcksAreEarned
<1>7. DialogFollows' /\ ResponseFollows' /\ NothingBeforeRequest'
  BY <1>1, <1>2, <1>4 DEF IInv, DialogFollows, ResponseFollows, NothingBeforeRequest
<1> QED
  BY <1>1, <1>2, <1>5, <1>6, <1>7
  DEF IInv, OneServerAnswers, WaitsAreTimed, Pending, NoEntryLeaks, ListenerUntilOutcome,
      OneFinalResponse

\* The requests that a server transaction answers by itself, and the
\* responses that it sends again: a message more, and nothing else.
LEMMA ServerRepeats ==
  ASSUME IInv, Server!ReceiveInviteAgain \/ Server!ReceiveOptions,
         UNCHANGED <<clientVars, ackVars, dialog>>
  PROVE  IInv'
<1> USE ToldStays DEF Server!ReceiveInviteAgain, Server!ReceiveOptions, clientVars, ackVars
<1>1. UNCHANGED <<clientVars, ackVars, dialog, sStatus, sListener, entries, sTimer, response, heard>>
  OBVIOUS
<1>2. \/ wire' = wire \cup {Response("OPTIONS", Success)}
      \/ wire' = wire \cup {Response("INVITE", response)} /\ response \in {Provisional, Failure}
  BY DEF IInv, TypeOK, Server!TypeOK, ResponseFollows
<1>0. WireTyped'
  BY <1>2, MessageFacts, WireFacts DEF IInv
<1> HIDE DEF Server!ReceiveInviteAgain, Server!ReceiveOptions
<1>3. TypeOK'
  BY <1>0, <1>1 DEF WireTyped, IInv, TypeOK, Client!TypeOK, Server!TypeOK, Ack!TypeOK
<1>4. AckMeansKnown' /\ AcksAreEarned' /\ OneFinalResponse' /\ NothingBeforeRequest'
  BY <1>1, <1>2
  DEF IInv, AckMeansKnown, AcksAreEarned, OneFinalResponse, NothingBeforeRequest
<1> QED
  BY <1>1, <1>3, <1>4
  DEF IInv, OneServerAnswers, WaitsAreTimed, Pending, NoEntryLeaks, ListenerUntilOutcome,
      DialogFollows, ResponseFollows

\* The steps of the timers of the INVITE transaction.
LEMMA ServerTimers ==
  ASSUME IInv, NEW k \in Server!TimerNames, Server!TimerStep(k),
         UNCHANGED <<clientVars, ackVars, dialog>>
  PROVE  IInv'
<1> USE ToldStays DEF clientVars, ackVars
<1>1. CASE Server!TimerExpires(k) \/ Server!TimerCallLost(k)
  <2> USE <1>1 DEF Server!TimerExpires, Server!TimerCallLost, Server!Expired, Server!Done
  <2>1. UNCHANGED <<clientVars, ackVars, dialog, sStatus, sListener, entries, response, heard, wire>>
    OBVIOUS
  <2>2. TypeOK'
    <3>1. sTimer' \in [Server!TimerNames -> Server!TimerStates]
      BY DEF IInv, TypeOK, Server!TypeOK
    <3> QED
      BY <2>1, <3>1 DEF IInv, TypeOK, Client!TypeOK, Server!TypeOK, Ack!TypeOK
  <2>3. WaitsAreTimed'
    BY DEF IInv, TypeOK, Server!TypeOK, WaitsAreTimed, Pending
  <2>4. AckMeansKnown' /\ AcksAreEarned' /\ OneFinalResponse' /\ NothingBeforeRequest'
    BY <2>1 DEF IInv, AckMeansKnown, AcksAreEarned, OneFinalResponse, NothingBeforeRequest
  <2> QED
    BY <2>1, <2>2, <2>3, <2>4
    DEF IInv, OneServerAnswers, NoEntryLeaks, ListenerUntilOutcome, DialogFollows, ResponseFollows
<1>2. CASE Server!OnRetransmissionTimeout
  <2> USE <1>2 DEF Server!OnRetransmissionTimeout, Server!Started, Server!Done
  <2>1. UNCHANGED <<clientVars, ackVars, dialog, sStatus, sListener, entries, response, heard>>
    OBVIOUS
  <2>2. \/ wire' = wire
        \/ wire' = wire \cup {Response("INVITE", response)} /\ response \in {Provisional, Failure}
    BY DEF IInv, TypeOK, Server!TypeOK, ResponseFollows
  <2>0. WireTyped'
    BY <2>2, MessageFacts, WireFacts DEF IInv
  <2>3. sTimer' \in [Server!TimerNames -> Server!TimerStates]
    BY DEF IInv, TypeOK, Server!TypeOK
  <2>4. TypeOK'
    BY <2>0, <2>1, <2>3 DEF WireTyped, IInv, TypeOK, Client!TypeOK, Server!TypeOK, Ack!TypeOK
  <2>5. WaitsAreTimed'
    BY DEF IInv, TypeOK, Server!TypeOK, WaitsAreTimed, Pending
  <2>6. AckMeansKnown' /\ AcksAreEarned' /\ OneFinalResponse' /\ NothingBeforeRequest'
    BY <2>1, <2>2
    DEF IInv, AckMeansKnown, AcksAreEarned, OneFinalResponse, NothingBeforeRequest
  <2> QED
    BY <2>1, <2>4, <2>5, <2>6
    DEF IInv, OneServerAnswers, NoEntryLeaks, ListenerUntilOutcome, DialogFollows, ResponseFollows
<1>3. CASE Server!OnEndTimeout \/ Server!OnClearingTimeout
  <2> USE <1>3 DEF Server!OnEndTimeout, Server!OnClearingTimeout, Server!EndsIf
  <2>1. UNCHANGED <<clientVars, ackVars, dialog, response, heard, wire>>
    OBVIOUS
  <2>2. \/ UNCHANGED <<sStatus, sListener, entries>>
        \/ /\ sStatus \in {"Completed", "Confirmed"}
           /\ sStatus' = "Terminated" /\ sListener' = FALSE /\ entries' = entries \ {"transaction"}
    OBVIOUS
  <2>3. TypeOK'
    <3>1. sTimer' \in [Server!TimerNames -> Server!TimerStates]
      BY ServerTimerFacts DEF IInv, TypeOK, Server!TypeOK
    <3>2. Server!TypeOK'
      BY <2>1, <2>2, <3>1 DEF IInv, TypeOK, Server!TypeOK
    <3> QED
      BY <2>1, <3>2 DEF IInv, TypeOK, Client!TypeOK, Ack!TypeOK
  <2>4. WaitsAreTimed'
    BY DEF IInv, TypeOK, Server!TypeOK, WaitsAreTimed, Pending, Server!Halted, Server!Done
  <2>5. AckMeansKnown' /\ AcksAreEarned' /\ OneFinalResponse' /\ NothingBeforeRequest'
    BY <2>1 DEF IInv, AckMeansKnown, AcksAreEarned, OneFinalResponse, NothingBeforeRequest
  <2>6. DialogFollows' /\ ResponseFollows'
    BY <2>1, <2>2 DEF IInv, DialogFollows, ResponseFollows
  <2> QED
    BY <2>1, <2>2, <2>3, <2>4, <2>5, <2>6
    DEF IInv, OneServerAnswers, NoEntryLeaks, ListenerUntilOutcome
<1> QED
  BY <1>1, <1>2, <1>3 DEF Server!TimerStep, Server!OnTimeout

\* The steps of the timers of the AckTransactionServer but for its timeout.
LEMMA AckTimers ==
  ASSUME IInv, AckStep
  PROVE  IInv'
<1> USE ToldStays DEF clientVars, serverVars
<1>1. PICK k \in Ack!TimerNames : AckTimerExpires(k) \/ AckTimerCallEnds(k)
  BY DEF AckStep
<1>2. UNCHANGED <<clientVars, serverVars, dialog, aStatus, aListener>>
  BY <1>1 DEF AckTimerExpires, AckTimerCallEnds, Ack!TimerExpires, Ack!TimerCallLost,
              Ack!OnRetransmissionTimeout
<1>3. wire' = wire \/ (wire' = wire \cup {Response("INVITE", Success)} /\ aStatus # "Idle")
  BY <1>1 DEF AckTimerExpires, AckTimerCallEnds, Ack!TimerExpires, Ack!TimerCallLost,
              Ack!OnRetransmissionTimeout
<1>0. WireTyped'
  BY <1>3, MessageFacts, WireFacts DEF IInv
<1>4. /\ aTimer' \in [Ack!TimerNames -> Ack!TimerStates]
      /\ aStatus = "Proceeding" => Pending(aTimer', "transaction") /\ Pending(aTimer', "retransmission")
  BY <1>1 DEF AckTimerExpires, AckTimerCallEnds, Ack!TimerExpires, Ack!TimerCallLost,
              Ack!OnRetransmissionTimeout, Ack!Expired, Ack!Done, Ack!Started, Pending,
              IInv, TypeOK, Ack!TypeOK, WaitsAreTimed
<1>5. TypeOK'
  BY <1>0, <1>2, <1>4 DEF WireTyped, IInv, TypeOK, Client!TypeOK, Server!TypeOK, Ack!TypeOK
<1>6. AckMeansKnown' /\ AcksAreEarned' /\ OneFinalResponse' /\ NothingBeforeRequest'
  BY <1>2, <1>3 DEF IInv, AckMeansKnown, AcksAreEarned, OneFinalResponse, NothingBeforeRequest
<1> QED
  BY <1>2, <1>4, <1>5, <1>6
  DEF IInv, OneServerAnswers, WaitsAreTimed, Pending, NoEntryLeaks, ListenerUntilOutcome,
      DialogFollows, ResponseFollows

\* Every step of the callee keeps the invariant.
LEMMA CalleeInvariant ==
  ASSUME IInv, CalleeStep
  PROVE  IInv'
<1>1. CASE ServerStep
  BY <1>1, ServerRepeats, ServerTimers DEF ServerStep
<1> QED
  BY <1>1, CalleeListens, CalleeIsInvited, CalleeRings, CalleeRefuses, CalleeAccepts,
     CalleeHearsAck, CalleeSettles, AckTimers
  DEF CalleeStep

\* Every step of the system keeps the invariant.
LEMMA StepInvariant == IInv /\ [Next]_vars => IInv'
<1> SUFFICES ASSUME IInv, [Next]_vars PROVE IInv'
  OBVIOUS
<1>1. CASE Next
  BY <1>1, CallerInvariant, OptionsInvariant, CalleeInvariant DEF Next
<1>2. CASE UNCHANGED vars
  <2> USE <1>2 DEF vars, clientVars, serverVars, ackVars
  <2>1. TypeOK'
    BY DEF IInv, TypeOK, Client!TypeOK, Server!TypeOK, Ack!TypeOK
  <2>2. AckMeansKnown' /\ AcksAreEarned' /\ OneFinalResponse'
    BY ToldStays DEF IInv, AckMeansKnown, AcksAreEarned, OneFinalResponse
  <2> QED
    BY <2>1, <2>2
    DEF IInv, OneServerAnswers, WaitsAreTimed, Pending, NoEntryLeaks, ListenerUntilOutcome,
        DialogFollows, ResponseFollows, NothingBeforeRequest
<1> QED
  BY <1>1, <1>2

\* The invariant the theorems rest on.
THEOREM Invariant == Spec => []IInv
  BY InitInvariant, StepInvariant, PTL DEF Spec

\* The variables of the three transactions and of the dialog have their types
\* in every state.
THEOREM TypeCorrect == Spec => []TypeOK
<1>1. IInv => TypeOK
  BY DEF IInv
<1> QED
  BY <1>1, Invariant, PTL

\* The callee goes on to the call, or closes a dialog it has refused, only
\* when the caller has been told so: no ACK that is lost, late or repeated
\* says otherwise.
THEOREM AcksTellTheTruth == Spec => []AckMeansKnown
<1>1. IInv => AckMeansKnown
  BY DEF IInv
<1> QED
  BY <1>1, Invariant, PTL

\* The INVITE transaction and the AckTransactionServer are never both at work
\* on the answer.
THEOREM NeverTwoServers == Spec => []OneServerAnswers
<1>1. IInv => OneServerAnswers
  BY DEF IInv
<1> QED
  BY <1>1, Invariant, PTL

\* A timer that will end it is on its way in every state in which a party
\* waits for the other, except for a client that has heard of progress.
THEOREM WaitsEnd == Spec => []WaitsAreTimed
<1>1. IInv => WaitsAreTimed
  BY DEF IInv
<1> QED
  BY <1>1, Invariant, PTL

\* The table of the SipProvider holds the transactions that are under way.
THEOREM TableIsExact == Spec => []NoEntryLeaks
<1>1. IInv => NoEntryLeaks
  BY DEF IInv
<1> QED
  BY <1>1, Invariant, PTL

-----------------------------------------------------------------------------
(* The refinement.                                                         *)

\* What RequestOutcome sees of a client that has told its user no outcome.
LEMMA NoOutcomeYet == IInv /\ cListener => OutcomeSoFar = "none"
<1> SUFFICES ASSUME IInv, cListener PROVE OutcomeSoFar = "none"
  OBVIOUS
<1>1. told \in Seq(Classes \cup {"timeout"}) /\ \A i \in DOMAIN told : told[i] = Provisional
  BY DEF IInv, TypeOK, Client!TypeOK, ListenerUntilOutcome
<1>2. told # <<>> => Len(told) \in DOMAIN told
  BY <1>1
<1> QED
  BY <1>1, <1>2 DEF OutcomeSoFar, Outcomes

\* What it sees when an outcome is reported.
LEMMA OutcomeReported ==
  ASSUME IInv, NEW e \in Outcomes, told' = Client!Report(e)
  PROVE  /\ cListener => OutcomeSoFar' = e
         /\ ~cListener => OutcomeSoFar' = OutcomeSoFar
  BY ReportFacts DEF OutcomeSoFar, Outcomes

\* What it sees of the callee: a success or a failure, and never both.
AnswerSoFar ==
  IF aStatus # "Idle" THEN Success ELSE IF response = Failure THEN Failure ELSE "none"

\* A step of the caller is one of the request's outcome, or none.
LEMMA CallerRefines ==
  ASSUME IInv, IInv', CallerStep
  PROVE  [Promise!Next]_(Promise!vars)
<1> USE DEF CallerStep, serverVars, ackVars, Promise!vars
<1>0. UNCHANGED AnswerSoFar
  BY DEF AnswerSoFar
<1>1. CASE Client!SendRequest
  <2>1. Promise!Ask
    BY <1>1 DEF Client!SendRequest, Promise!Ask, OutcomeSoFar
  <2> QED
    BY <2>1 DEF Promise!Next
<1>2. CASE Client!ReceiveProvisional
  <2>1. cListener /\ cListener'
    BY <1>2 DEF Client!ReceiveProvisional, IInv, ListenerUntilOutcome
  <2>2. OutcomeSoFar = "none" /\ (OutcomeSoFar = "none")'
    BY <2>1, NoOutcomeYet, PTL
  <2> QED
    BY <1>2, <2>2 DEF Client!ReceiveProvisional
<1>3. ASSUME Client!ReceiveFailure \/ Client!ReceiveSuccess({SuccessAck})
      PROVE  Promise!ReportAnswer
  <2>1. PICK c \in FinalClasses : /\ told' = Client!Report(c) /\ AnswerSoFar = c
                                  /\ cStatus \in Client!Live /\ cStatus' \in {"Completed", "Terminated"}
    BY <1>3 DEF Client!ReceiveFailure, Client!ReceiveSuccess, Client!Receives, IInv,
                OneFinalResponse, ResponseFollows, AnswerSoFar
  <2>2. cListener
    BY <2>1 DEF IInv, ListenerUntilOutcome
  <2>3. OutcomeSoFar = "none" /\ OutcomeSoFar' = c
    BY <2>1, <2>2, NoOutcomeYet, OutcomeReported DEF Outcomes
  <2> QED
    BY <1>0, <2>1, <2>3 DEF AnswerSoFar, Promise!ReportAnswer
<1>4. CASE \/ \E k \in Client!TimerNames : Client!TimerExpires(k) \/ Client!TimerCallLost(k)
           \/ Client!OnRetransmissionTimeout
           \/ Client!ReceiveFailureAgain
  <2>1. UNCHANGED <<cStatus, told>>
    BY <1>4 DEF Client!TimerExpires, Client!TimerCallLost, Client!OnRetransmissionTimeout,
                Client!ReceiveFailureAgain
  <2> QED
    BY <2>1 DEF OutcomeSoFar
<1>5. ASSUME Client!OnTransactionTimeout \/ Client!OnEndTimeout \/ Client!Terminate
      PROVE  [Promise!Next]_(Promise!vars)
  <2>1. cStatus # "Idle" /\ cStatus' = "Terminated"
    BY <1>5 DEF Client!OnTransactionTimeout, Client!OnEndTimeout, Client!Terminate, Client!Fires,
                IInv, NothingBeforeRequest
  <2>2. told' = told \/ told' = Client!Report("timeout")
    BY <1>5 DEF Client!OnTransactionTimeout, Client!OnEndTimeout, Client!Terminate
  <2>3. /\ cListener => OutcomeSoFar = "none" /\ cStatus # "Terminated"
        /\ OutcomeSoFar' = OutcomeSoFar \/ (cListener /\ OutcomeSoFar' = "timeout")
    BY <2>2, NoOutcomeYet, OutcomeReported DEF OutcomeSoFar, Outcomes, IInv, ListenerUntilOutcome
  <2>4. CASE cStatus = "Terminated"
    BY <1>0, <2>1, <2>3, <2>4 DEF AnswerSoFar
  <2>5. CASE cStatus # "Terminated"
    <3>1. Promise!Close
      BY <1>0, <2>1, <2>3, <2>5 DEF AnswerSoFar, Promise!Close
    <3> QED
      BY <3>1 DEF Promise!Next
  <2> QED
    BY <2>4, <2>5
<1> QED
  BY <1>1, <1>2, <1>3, <1>4, <1>5
  DEF Client!Next, Client!ReceiveStep, Client!TimerStep, Client!OnTimeout, Promise!Next

\* The callee answers by accepting or refusing; nothing else it does matters.
LEMMA CalleeRefines ==
  ASSUME IInv, CalleeStep
  PROVE  [Promise!Next]_(Promise!vars)
<1> USE DEF clientVars, Promise!vars
<1>1. CASE Refuse
  <2>1. /\ UNCHANGED <<told, cStatus>> /\ cStatus # "Idle"
        /\ AnswerSoFar = "none" /\ AnswerSoFar' = Failure
    BY <1>1 DEF Refuse, Server!RespondWith, AnswerSoFar, ackVars, IInv, DialogFollows,
                ResponseFollows, NothingBeforeRequest
  <2>2. Promise!Answer(Failure)
    BY <2>1 DEF Promise!Answer, AnswerSoFar, OutcomeSoFar
  <2> QED
    BY <2>2 DEF Promise!Next
<1>2. CASE Accept
  <2>1. /\ UNCHANGED <<told, cStatus>> /\ cStatus # "Idle"
        /\ AnswerSoFar = "none" /\ AnswerSoFar' = Success
    BY <1>2 DEF Accept, Server!Terminate, Ack!Respond, AnswerSoFar, IInv, DialogFollows,
                ResponseFollows, NothingBeforeRequest
  <2>2. Promise!Answer(Success)
    BY <2>1 DEF Promise!Answer, AnswerSoFar, OutcomeSoFar
  <2> QED
    BY <2>2 DEF Promise!Next
<1>3. CASE Listen \/ StopListening \/ CreateDialogFor \/ ReceiveInvite \/ Ring
           \/ ReceiveFailureAck \/ ServerStep
  <2>1. UNCHANGED <<told, cStatus, aStatus>>
    BY <1>3 DEF Listen, StopListening, CreateDialogFor, ReceiveInvite, Ring, ReceiveFailureAck,
                ServerStep, ackVars
  <2>2. response' = response \/ (response # Failure /\ response' = Provisional)
    BY <1>3
    DEF Listen, StopListening, CreateDialogFor, ReceiveInvite, Ring, ReceiveFailureAck, ServerStep,
        Server!Listen, Server!Terminate, Server!CreateFor, Server!ReceiveInvite, Server!Takes,
        Server!RespondWith, Server!ReceiveAck, Server!ReceiveInviteAgain, Server!ReceiveOptions,
        Server!TimerStep, Server!TimerExpires, Server!TimerCallLost, Server!OnTimeout,
        Server!OnRetransmissionTimeout, Server!OnEndTimeout, Server!OnClearingTimeout,
        IInv, ResponseFollows
  <2> QED
    BY <2>1, <2>2 DEF OutcomeSoFar
<1>4. CASE ReceiveSuccessAck \/ AckTimeout \/ AckStep
  <2>1. UNCHANGED <<told, cStatus, response>> /\ (aStatus' = "Idle" <=> aStatus = "Idle")
    BY <1>4
    DEF ReceiveSuccessAck, AckTimeout, AckStep, AckTimerExpires, AckTimerCallEnds, serverVars,
        Ack!Terminate, Ack!OnTransactionTimeout, Ack!TimerExpires, Ack!TimerCallLost,
        Ack!OnRetransmissionTimeout, IInv, DialogFollows
  <2> QED
    BY <2>1 DEF OutcomeSoFar
<1> QED
  BY <1>1, <1>2, <1>3, <1>4 DEF CalleeStep

\* Whatever the network, the timers and the users do, the caller is told one
\* outcome at most, after it has asked, and it is what the callee has decided
\* or a timeout: the step simulation behind ImplementsRequestOutcome.
THEOREM RefinesRequestOutcome == Spec => ImplementsRequestOutcome
<1>1. Init => Promise!Init
  BY DEF Init, Client!Init, Server!Init, Ack!Init, Promise!Init, OutcomeSoFar
<1>2. IInv /\ IInv' /\ [Next]_vars => [Promise!Next]_(Promise!vars)
  <2> SUFFICES ASSUME IInv, IInv', [Next]_vars PROVE [Promise!Next]_(Promise!vars)
    OBVIOUS
  <2>1. CASE CallerStep \/ CalleeStep
    BY <2>1, CallerRefines, CalleeRefines
  <2>2. CASE SendOptions \/ UNCHANGED vars
    BY <2>2 DEF SendOptions, vars, clientVars, serverVars, ackVars, Promise!vars, OutcomeSoFar
  <2> QED
    BY <2>1, <2>2 DEF Next
<1> QED
  BY <1>1, <1>2, Invariant, PTL DEF Spec, ImplementsRequestOutcome, Promise!SafeSpec
=============================================================================
