--------------------- MODULE NonInviteTransactionProofs ---------------------
(***************************************************************************)
(* Proofs about NonInviteTransaction, for every method.                    *)
(*                                                                         *)
(* The inductive invariant adds to the properties what each side knows of  *)
(* its own past: the client's listener is there exactly until an outcome   *)
(* has been reported, and the only final response in the network is the    *)
(* one the server's user has given.  The last section proves that under    *)
(* this invariant every step is a step of RequestOutcome, or a stutter.    *)
(***************************************************************************)
EXTENDS NonInviteTransaction, SequenceTheorems, TLAPS

\* The client's listener is dropped with the outcome, neither before nor
\* after, and the clearing timer is of a transaction that has an answer.
ListenerUntilOutcome ==
  /\ cStatus \in {"Idle", "Trying", "Proceeding", "Completed", "Terminated"}
  /\ cListener <=> cStatus \in {"Idle", "Trying", "Proceeding"}
  /\ cListener => \A i \in DOMAIN told : told[i] = Provisional
  /\ cTimer["clearing"] # "idle" => cStatus \in {"Completed", "Terminated"}

\* The final responses in the network are the one the user has given.
OneFinalResponse ==
  \A c \in FinalClasses : Response(Method, c) \in wire => response = c

\* A server that may be asked to repeat its response has one, and one that
\* has not taken a request has handed none over.
ServerHistory ==
  /\ sStatus \in {"Proceeding", "Completed"} => response \in Classes
  /\ sStatus \in {"Idle", "Waiting"} => requests = 0

IInv ==
  /\ TypeOK
  /\ OutcomeIsLast
  /\ OutcomeIsTheAnswer
  /\ HandedOnce
  /\ NoEntryLeaks
  /\ WaitsAreTimed
  /\ ListenerUntilOutcome
  /\ OneFinalResponse
  /\ ServerHistory

-----------------------------------------------------------------------------
(* Facts about the sequence of callbacks.                                  *)

\* A callback appended to those made so far is the last of them.
LEMMA AppendFacts ==
  ASSUME NEW S, NEW s \in Seq(S), NEW e \in S
  PROVE  /\ Append(s, e) \in Seq(S)
         /\ Len(Append(s, e)) = Len(s) + 1
         /\ DOMAIN Append(s, e) = 1 .. (Len(s) + 1)
         /\ DOMAIN s = 1 .. Len(s)
         /\ \A i \in DOMAIN s : Append(s, e)[i] = s[i]
         /\ Append(s, e)[Len(s) + 1] = e
  OBVIOUS

-----------------------------------------------------------------------------
(* The invariant holds at first.                                           *)

\* The invariant holds before the request is sent.
LEMMA InitInvariant == Init => IInv
<1> SUFFICES ASSUME Init PROVE IInv
  OBVIOUS
<1> USE DEF Init, Client!Init, Server!Init, Client!AllIdle, Server!AllIdle
<1>1. Client!TypeOK
  BY EmptySeq DEF Client!TypeOK, Client!Statuses, Client!TimerNames, Client!TimerStates
<1>2. Server!TypeOK
  BY DEF Server!TypeOK, Server!Statuses, Server!TimerNames, Server!TimerStates
<1>3. /\ DOMAIN told = {}
      /\ cTimer["clearing"] = "idle"
  BY DEF Client!TimerNames
<1> QED
  BY <1>1, <1>2, <1>3
  DEF IInv, TypeOK, OutcomeIsLast, OutcomeIsTheAnswer, HandedOnce, NoEntryLeaks,
      WaitsAreTimed, ListenerUntilOutcome, OneFinalResponse, ServerHistory, Client!Live

\* Names that are only abbreviations of sets of values.
USE DEF FinalClasses, Provisional, Success, Failure, Classes, Outcomes,
        Client!FinalClasses, Client!Provisional, Client!Success, Client!Failure, Client!Classes,
        Server!FinalClasses, Server!Provisional, Server!Success, Server!Failure, Server!Classes,
        Client!Statuses, Client!TimerNames, Client!TimerStates, Client!Live,
        Server!Statuses, Server!TimerNames, Server!TimerStates

\* Whatever is reported, the callbacks remain a sequence of events, and with a
\* listener the event is the last of them.
LEMMA ReportFacts ==
  ASSUME TypeOK, NEW e \in Classes \cup {"timeout"}
  PROVE  /\ Client!Report(e) \in Seq(Classes \cup {"timeout"})
         /\ \A i \in DOMAIN Client!Report(e) :
              \/ i \in DOMAIN told /\ Client!Report(e)[i] = told[i]
              \/ i = Len(Client!Report(e)) /\ Client!Report(e)[i] = e
         /\ e # Provisional /\ cListener => Client!Report(e) = Append(told, e)
         /\ ~cListener => Client!Report(e) = told
<1> DEFINE S == Classes \cup {"timeout"}
<1>1. told \in Seq(S)
  BY DEF TypeOK, Client!TypeOK
<1> HIDE DEF S
<1>2. e \in S
  BY DEF S
<1>3. /\ Append(told, e) \in Seq(S)
      /\ \A i \in DOMAIN Append(told, e) :
           \/ i \in DOMAIN told /\ Append(told, e)[i] = told[i]
           \/ i = Len(Append(told, e)) /\ Append(told, e)[i] = e
  BY <1>1, <1>2, AppendFacts
<1>4. CASE Client!Report(e) = told
  BY <1>1, <1>4 DEF Client!Report, S
<1>5. CASE Client!Report(e) = Append(told, e)
  BY <1>3, <1>5 DEF Client!Report, S
<1> QED
  BY <1>4, <1>5 DEF Client!Report

\* request() keeps the invariant.
LEMMA ClientSends ==
  ASSUME IInv, Client!SendRequest, UNCHANGED serverVars
  PROVE  IInv'
<1> USE DEF Client!SendRequest, serverVars
<1>1. Client!TypeOK'
  BY DEF IInv, TypeOK, Client!TypeOK, Client!Started, Client!Messages
<1>2. Server!TypeOK'
  BY DEF IInv, TypeOK, Server!TypeOK, Server!Messages, Client!Request, Server!Request
<1>3. OneFinalResponse'
  BY DEF IInv, OneFinalResponse, Response, Client!Request
<1>4. WaitsAreTimed' /\ ListenerUntilOutcome'
  BY DEF IInv, TypeOK, Client!TypeOK, WaitsAreTimed, ListenerUntilOutcome, Client!Started, Pending
<1> QED
  BY <1>1, <1>2, <1>3, <1>4
  DEF IInv, TypeOK, OutcomeIsLast, OutcomeIsTheAnswer, HandedOnce, NoEntryLeaks, ServerHistory

\* So does a final response.
LEMMA ClientHearsFinal ==
  ASSUME IInv, NEW c \in FinalClasses, Client!ReceiveFinal(c), UNCHANGED serverVars
  PROVE  IInv'
<1> USE DEF Client!ReceiveFinal, serverVars
<1>0. /\ cListener /\ told' = Append(told, c)
      /\ told \in Seq(Classes \cup {"timeout"})
      /\ response = c
  BY DEF IInv, TypeOK, Client!TypeOK, ListenerUntilOutcome, Client!Report, Client!Receives,
         OneFinalResponse, Response, Client!Response
<1>1. Client!TypeOK'
  BY ReportFacts DEF IInv, TypeOK, Client!TypeOK, Client!Started, Client!Halted
<1>2. Server!TypeOK'
  BY DEF IInv, TypeOK, Server!TypeOK
<1>3. OutcomeIsLast' /\ OutcomeIsTheAnswer'
  BY <1>0, AppendFacts DEF IInv, OutcomeIsLast, OutcomeIsTheAnswer, ListenerUntilOutcome
<1>4. WaitsAreTimed' /\ ListenerUntilOutcome'
  BY DEF IInv, TypeOK, Client!TypeOK, WaitsAreTimed, ListenerUntilOutcome,
         Client!Started, Client!Halted, Pending
<1> QED
  BY <1>1, <1>2, <1>3, <1>4
  DEF IInv, TypeOK, HandedOnce, NoEntryLeaks, OneFinalResponse, ServerHistory

\* So does a provisional response.
LEMMA ClientHearsProvisional ==
  ASSUME IInv, Client!ReceiveProvisional, UNCHANGED serverVars
  PROVE  IInv'
<1> USE DEF Client!ReceiveProvisional, serverVars
<1>0. cListener /\ told' = Client!Report(Provisional)
  BY DEF IInv, ListenerUntilOutcome
<1>1. Client!TypeOK'
  BY ReportFacts DEF IInv, TypeOK, Client!TypeOK, Client!Halted
<1>2. Server!TypeOK'
  BY DEF IInv, TypeOK, Server!TypeOK
<1>3. \A i \in DOMAIN told' : told'[i] = Provisional
  BY <1>0, ReportFacts DEF IInv, ListenerUntilOutcome
<1>4. OutcomeIsLast' /\ OutcomeIsTheAnswer'
  BY <1>3 DEF OutcomeIsLast, OutcomeIsTheAnswer
<1>5. WaitsAreTimed' /\ ListenerUntilOutcome'
  BY <1>3 DEF IInv, TypeOK, Client!TypeOK, WaitsAreTimed, ListenerUntilOutcome,
              Client!Halted, Pending
<1> QED
  BY <1>1, <1>2, <1>4, <1>5
  DEF IInv, TypeOK, HandedOnce, NoEntryLeaks, OneFinalResponse, ServerHistory

\* So does the end of the transaction's timer.
LEMMA ClientTimesOut ==
  ASSUME IInv, Client!OnTransactionTimeout, UNCHANGED serverVars
  PROVE  IInv'
<1> USE DEF Client!OnTransactionTimeout, serverVars
<1>0. /\ \A i \in DOMAIN told' :
           \/ i \in DOMAIN told /\ told'[i] = told[i]
           \/ i = Len(told') /\ told'[i] = "timeout"
      /\ ~cListener => told' = told
  BY ReportFacts DEF IInv
<1>1. Client!TypeOK'
  BY ReportFacts DEF IInv, TypeOK, Client!TypeOK, Client!Halted, Client!Done
<1>2. Server!TypeOK'
  BY DEF IInv, TypeOK, Server!TypeOK
<1>3. OutcomeIsLast' /\ OutcomeIsTheAnswer'
  <2>1. CASE cListener
    <3>1. \A i \in DOMAIN told : told[i] = Provisional
      BY <2>1 DEF IInv, ListenerUntilOutcome
    <3>2. \A i \in DOMAIN told' :
            told'[i] = Provisional \/ (i = Len(told') /\ told'[i] = "timeout")
      BY <1>0, <3>1
    <3> QED
      BY <3>2 DEF OutcomeIsLast, OutcomeIsTheAnswer
  <2>2. CASE ~cListener
    BY <1>0, <2>2 DEF IInv, OutcomeIsLast, OutcomeIsTheAnswer
  <2> QED
    BY <2>1, <2>2
<1>4. WaitsAreTimed' /\ ListenerUntilOutcome'
  BY DEF IInv, TypeOK, Client!TypeOK, WaitsAreTimed, ListenerUntilOutcome,
         Client!Halted, Client!Done, Pending
<1> QED
  BY <1>1, <1>2, <1>3, <1>4
  DEF IInv, TypeOK, HandedOnce, NoEntryLeaks, OneFinalResponse, ServerHistory

\* The steps that tell the client's user nothing.
LEMMA ClientQuiet ==
  ASSUME IInv, UNCHANGED serverVars, UNCHANGED told,
         \/ \E k \in Client!TimerNames : Client!TimerExpires(k) \/ Client!TimerCallLost(k)
         \/ Client!OnRetransmissionTimeout
         \/ Client!OnClearingTimeout
         \/ Client!Terminate
  PROVE  IInv'
<1> USE DEF serverVars
<1>1. CASE \E k \in Client!TimerNames : Client!TimerExpires(k)
  <2>1. PICK k \in Client!TimerNames : Client!TimerExpires(k)
    BY <1>1
  <2> QED
    BY <2>1 DEF Client!TimerExpires, Client!Expired, IInv, TypeOK, Client!TypeOK, Server!TypeOK,
      OutcomeIsLast, OutcomeIsTheAnswer, HandedOnce, NoEntryLeaks, WaitsAreTimed,
      ListenerUntilOutcome, OneFinalResponse, ServerHistory, Pending
<1>2. CASE \E k \in Client!TimerNames : Client!TimerCallLost(k)
  <2>1. PICK k \in Client!TimerNames : Client!TimerCallLost(k)
    BY <1>2
  <2> QED
    BY <2>1 DEF Client!TimerCallLost, Client!Done, IInv, TypeOK, Client!TypeOK, Server!TypeOK,
      OutcomeIsLast, OutcomeIsTheAnswer, HandedOnce, NoEntryLeaks, WaitsAreTimed,
      ListenerUntilOutcome, OneFinalResponse, ServerHistory, Pending
<1>3. CASE Client!OnRetransmissionTimeout
  <2> USE <1>3 DEF Client!OnRetransmissionTimeout
  <2>1. Client!TypeOK'
    BY DEF IInv, TypeOK, Client!TypeOK, Client!Started, Client!Done, Client!Messages
  <2>2. Server!TypeOK'
    BY DEF IInv, TypeOK, Server!TypeOK, Server!Messages, Client!Request, Server!Request
  <2>3. OneFinalResponse'
    BY DEF IInv, OneFinalResponse, Response, Client!Request
  <2>4. WaitsAreTimed' /\ ListenerUntilOutcome'
    BY DEF IInv, TypeOK, Client!TypeOK, WaitsAreTimed, ListenerUntilOutcome,
           Client!Started, Client!Done, Pending
  <2> QED
    BY <2>1, <2>2, <2>3, <2>4
    DEF IInv, TypeOK, OutcomeIsLast, OutcomeIsTheAnswer, HandedOnce, NoEntryLeaks, ServerHistory
<1>4. CASE Client!OnClearingTimeout
  BY <1>4 DEF Client!OnClearingTimeout, Client!Fires, Client!Halted, Client!Done,
    IInv, TypeOK, Client!TypeOK, Server!TypeOK,
    OutcomeIsLast, OutcomeIsTheAnswer, HandedOnce, NoEntryLeaks, WaitsAreTimed,
    ListenerUntilOutcome, OneFinalResponse, ServerHistory, Pending
<1>5. CASE Client!Terminate
  BY <1>5 DEF Client!Terminate, Client!Halted, IInv, TypeOK, Client!TypeOK, Server!TypeOK,
    OutcomeIsLast, OutcomeIsTheAnswer, HandedOnce, NoEntryLeaks, WaitsAreTimed,
    ListenerUntilOutcome, OneFinalResponse, ServerHistory, Pending
<1> QED
  BY <1>1, <1>2, <1>3, <1>4, <1>5

\* Every step of the client keeps the invariant.
LEMMA ClientStep ==
  ASSUME IInv, Client!Next, UNCHANGED serverVars
  PROVE  IInv'
<1>1. CASE Client!SendRequest
  BY <1>1, ClientSends
<1>2. CASE Client!ReceiveStep
  BY <1>2, ClientHearsProvisional, ClientHearsFinal DEF Client!ReceiveStep
<1>3. CASE \E k \in Client!TimerNames : Client!TimerStep(k)
  BY <1>3, ClientTimesOut, ClientQuiet
  DEF Client!TimerStep, Client!OnTimeout, Client!TimerExpires, Client!TimerCallLost,
      Client!OnRetransmissionTimeout, Client!OnClearingTimeout
<1>4. CASE Client!Terminate
  BY <1>4, ClientQuiet DEF Client!Terminate
<1> QED
  BY <1>1, <1>2, <1>3, <1>4 DEF Client!Next

-----------------------------------------------------------------------------
(* The steps of the server.                                                *)

\* Every step of the server keeps the invariant.
LEMMA ServerStep ==
  ASSUME IInv, Server!Next, UNCHANGED clientVars
  PROVE  IInv'
<1> USE DEF clientVars
<1>1. ASSUME NEW c \in Classes, Server!UserResponds(c)
      PROVE  IInv'
  <2> USE <1>1 DEF Server!UserResponds, Server!RespondWith
  <2>1. /\ response \notin FinalClasses /\ response' = c
        /\ wire' \subseteq wire \cup {Server!Response(Method, c)}
        /\ sStatus \notin {"Idle", "Waiting"}
    BY DEF IInv, ServerHistory
  <2>2. Server!TypeOK'
    BY DEF IInv, TypeOK, Server!TypeOK, Server!Started, Server!Messages
  <2>3. Client!TypeOK'
    BY <2>1 DEF IInv, TypeOK, Client!TypeOK, Client!Messages, Client!Response, Server!Response
  <2>4. OneFinalResponse'
    BY <2>1 DEF IInv, OneFinalResponse, Response, Server!Response
  <2>5. OutcomeIsTheAnswer'
    BY <2>1 DEF IInv, OutcomeIsTheAnswer
  <2>6. WaitsAreTimed'
    BY DEF IInv, TypeOK, Server!TypeOK, WaitsAreTimed, Server!Started, Pending
  <2>7. ServerHistory'
    BY <2>1 DEF IInv, ServerHistory
  <2> QED
    BY <2>2, <2>3, <2>4, <2>5, <2>6, <2>7
    DEF IInv, TypeOK, OutcomeIsLast, HandedOnce, NoEntryLeaks, ListenerUntilOutcome
<1>2. CASE Server!ReceiveAgain
  <2> USE <1>2 DEF Server!ReceiveAgain
  <2>1. response \in Classes
    BY DEF IInv, ServerHistory
  <2>2. Server!TypeOK'
    BY <2>1 DEF IInv, TypeOK, Server!TypeOK, Server!Messages
  <2>3. Client!TypeOK'
    BY <2>1 DEF IInv, TypeOK, Client!TypeOK, Client!Messages, Client!Response, Server!Response
  <2>4. OneFinalResponse'
    BY DEF IInv, OneFinalResponse, Response, Server!Response
  <2> QED
    BY <2>2, <2>3, <2>4
    DEF IInv, TypeOK, OutcomeIsLast, OutcomeIsTheAnswer, HandedOnce, NoEntryLeaks,
        WaitsAreTimed, ListenerUntilOutcome, ServerHistory
<1>3. CASE \/ Server!Listen \/ Server!CreateFor \/ Server!ReceiveFirst
           \/ Server!TimerExpires \/ Server!TimerCallLost \/ Server!OnClearingTimeout
           \/ Server!Terminate
  <2> USE DEF Server!Listen, Server!CreateFor, Server!ReceiveFirst,
        Server!TimerExpires, Server!TimerCallLost, Server!OnClearingTimeout, Server!Terminate,
        Server!Expired, Server!Done, Server!Halted
  <2>1. UNCHANGED <<wire, response>>
    BY <1>3
  <2>2. Server!TypeOK'
    <3> USE DEF IInv, TypeOK, Server!TypeOK
    <3>1. CASE Server!Listen
      BY <3>1
    <3>2. CASE Server!CreateFor
      BY <3>2
    <3>3. CASE Server!ReceiveFirst
      <4>1. requests' \in {requests, requests + 1}
        BY <3>3
      <4> QED
        BY <3>3, <4>1
    <3>4. CASE Server!TimerExpires \/ Server!TimerCallLost
      BY <3>4
    <3>5. CASE Server!OnClearingTimeout
      BY <3>5
    <3>6. CASE Server!Terminate
      BY <3>6
    <3> QED
      BY <1>3, <3>1, <3>2, <3>3, <3>4, <3>5, <3>6
  <2>3. HandedOnce' /\ ServerHistory'
    BY <1>3 DEF IInv, TypeOK, Server!TypeOK, HandedOnce, ServerHistory
  <2>4. /\ sRegistered' <=> sStatus' \notin {"Idle", "Terminated"}
        /\ sStatus' = "Completed" => Pending(sTimer', "clearing")
    BY <1>3 DEF IInv, TypeOK, Server!TypeOK, NoEntryLeaks, WaitsAreTimed, Pending
  <2> QED
    BY <2>1, <2>2, <2>3, <2>4
    DEF IInv, TypeOK, Client!TypeOK, OutcomeIsLast, OutcomeIsTheAnswer, NoEntryLeaks,
        WaitsAreTimed, ListenerUntilOutcome, OneFinalResponse, Pending
<1> QED
  BY <1>1, <1>2, <1>3 DEF Server!Next, Server!ReceiveStep

-----------------------------------------------------------------------------
(* The theorems.                                                           *)

\* Every step of the system keeps the invariant.
LEMMA StepInvariant == IInv /\ [Next]_vars => IInv'
<1> SUFFICES ASSUME IInv, [Next]_vars PROVE IInv'
  OBVIOUS
<1>1. CASE Next
  BY <1>1, ClientStep, ServerStep DEF Next
<1>2. CASE UNCHANGED vars
  BY <1>2 DEF vars, clientVars, serverVars, IInv, TypeOK, Client!TypeOK, Server!TypeOK,
    OutcomeIsLast, OutcomeIsTheAnswer, HandedOnce, NoEntryLeaks, WaitsAreTimed,
    ListenerUntilOutcome, OneFinalResponse, ServerHistory, Pending
<1> QED
  BY <1>1, <1>2

\* The invariant the other theorems rest on.
THEOREM Invariant == Spec => []IInv
  BY InitInvariant, StepInvariant, PTL DEF Spec

\* The variables of both transactions have their types in every state; in
\* particular a response that is repeated is one that was given.
THEOREM TypeCorrect == Spec => []TypeOK
<1>1. IInv => TypeOK
  BY DEF IInv
<1> QED
  BY <1>1, Invariant, PTL

\* The client's user hears of one outcome at most, and of nothing after it:
\* a timer halted too late finds no listener to tell.
THEOREM OneOutcome == Spec => []OutcomeIsLast
<1>1. IInv => OutcomeIsLast
  BY DEF IInv
<1> QED
  BY <1>1, Invariant, PTL

\* The final response the client reports is the one the server has given.
THEOREM OutcomeAgreed == Spec => []OutcomeIsTheAnswer
<1>1. IInv => OutcomeIsTheAnswer
  BY DEF IInv
<1> QED
  BY <1>1, Invariant, PTL

\* Retransmissions reach the server's user once.
THEOREM RequestHandedOnce == Spec => []HandedOnce
<1>1. IInv => HandedOnce
  BY DEF IInv
<1> QED
  BY <1>1, Invariant, PTL

\* The table of the SipProvider holds the transactions that are under way.
THEOREM TableIsExact == Spec => []NoEntryLeaks
<1>1. IInv => NoEntryLeaks
  BY DEF IInv
<1> QED
  BY <1>1, Invariant, PTL

\* A timer is on its way to end every wait.
THEOREM NobodyWaitsForEver == Spec => []WaitsAreTimed
<1>1. IInv => WaitsAreTimed
  BY DEF IInv
<1> QED
  BY <1>1, Invariant, PTL

-----------------------------------------------------------------------------
(* The refinement: NonInviteTransaction implements the safety part of      *)
(* RequestOutcome.  What the two transactions do to what their users see   *)
(* is what the abstract request allows, step by step.                      *)

\* Before request() nothing has happened: the network is empty, no timer has
\* been started and the server's user has been handed nothing.
NothingBeforeRequest ==
  cStatus = "Idle" =>
    /\ wire = {} /\ requests = 0 /\ told = <<>> /\ response = "none"
    /\ \A k \in Client!TimerNames : cTimer[k] = "idle"

RInv == IInv /\ NothingBeforeRequest

\* Nothing has happened before the request is sent.
LEMMA InitNothing == Init => NothingBeforeRequest
  BY DEF Init, Client!Init, Server!Init, NothingBeforeRequest, Client!AllIdle

\* Nothing happens before it is sent.
LEMMA StepNothing ==
  ASSUME RInv, [Next]_vars
  PROVE  NothingBeforeRequest'
<1> USE DEF RInv, NothingBeforeRequest
<1>1. ASSUME Client!Next, UNCHANGED serverVars
      PROVE  NothingBeforeRequest'
  <2>1. CASE cStatus = "Idle"
    BY <1>1, <2>1
    DEF serverVars, Client!Next, Client!SendRequest, Client!ReceiveStep, Client!ReceiveProvisional,
        Client!ReceiveFinal, Client!Receives, Client!TimerStep, Client!TimerExpires,
        Client!TimerCallLost, Client!OnTimeout, Client!OnRetransmissionTimeout,
        Client!OnTransactionTimeout, Client!OnClearingTimeout, Client!Fires, Client!Terminate
  <2>2. CASE cStatus # "Idle"
    BY <1>1, <2>2
    DEF Client!Next, Client!SendRequest, Client!ReceiveStep, Client!ReceiveProvisional,
        Client!ReceiveFinal, Client!TimerStep, Client!TimerExpires,
        Client!TimerCallLost, Client!OnTimeout, Client!OnRetransmissionTimeout,
        Client!OnTransactionTimeout, Client!OnClearingTimeout, Client!Terminate
  <2> QED
    BY <2>1, <2>2
<1>2. ASSUME Server!Next, UNCHANGED clientVars
      PROVE  NothingBeforeRequest'
  BY <1>2
  DEF clientVars, Server!Next, Server!Listen, Server!CreateFor, Server!ReceiveStep,
      Server!ReceiveFirst, Server!ReceiveAgain, Server!UserResponds, Server!TimerExpires,
      Server!TimerCallLost, Server!OnClearingTimeout, Server!Terminate
<1>3. CASE UNCHANGED vars
  BY <1>3 DEF vars, clientVars, serverVars
<1> QED
  BY <1>1, <1>2, <1>3 DEF Next

\* The invariant the refinement rests on.
LEMMA RInvariant == Spec => []RInv
<1>1. Init => RInv
  BY InitInvariant, InitNothing DEF RInv
<1>2. RInv /\ [Next]_vars => RInv'
  BY StepInvariant, StepNothing DEF RInv
<1> QED
  BY <1>1, <1>2, PTL DEF Spec

\* What RequestOutcome sees of a client that has told its user no outcome.
LEMMA NoOutcomeYet == RInv /\ cListener => OutcomeSoFar = "none"
<1> SUFFICES ASSUME RInv, cListener PROVE OutcomeSoFar = "none"
  OBVIOUS
<1>1. told \in Seq(Classes \cup {"timeout"}) /\ \A i \in DOMAIN told : told[i] = Provisional
  BY DEF RInv, IInv, TypeOK, Client!TypeOK, ListenerUntilOutcome
<1>2. told # <<>> => Len(told) \in DOMAIN told
  BY <1>1
<1> QED
  BY <1>1, <1>2 DEF OutcomeSoFar

\* What it sees when an outcome is reported.
LEMMA OutcomeReported ==
  ASSUME RInv, cListener, NEW e \in Outcomes, told' = Client!Report(e)
  PROVE  OutcomeSoFar' = e
<1>1. told \in Seq(Classes \cup {"timeout"}) /\ told' = Append(told, e)
  BY ReportFacts DEF RInv, IInv, TypeOK, Client!TypeOK
<1>2. told' # <<>> /\ told'[Len(told')] = e
  BY <1>1
<1> QED
  BY <1>2 DEF OutcomeSoFar

\* A step of the client is one of the request's outcome, or none.
LEMMA ClientRefines ==
  ASSUME RInv, RInv', Client!Next, UNCHANGED serverVars
  PROVE  [Promise!Next]_(Promise!vars)
<1> USE DEF serverVars, Promise!vars
<1>1. CASE Client!SendRequest
  <2>1. Promise!Ask
    BY <1>1 DEF Client!SendRequest, Promise!Ask, OutcomeSoFar
  <2> QED
    BY <2>1 DEF Promise!Next
<1>2. CASE Client!ReceiveProvisional
  <2>1. cListener /\ cListener'
    BY <1>2 DEF Client!ReceiveProvisional, RInv, IInv, ListenerUntilOutcome
  <2>2. OutcomeSoFar = "none" /\ (OutcomeSoFar = "none")'
    BY <2>1, NoOutcomeYet, PTL
  <2> QED
    BY <1>2, <2>2 DEF Client!ReceiveProvisional
<1>3. ASSUME NEW c \in FinalClasses, Client!ReceiveFinal(c)
      PROVE  Promise!ReportAnswer
  <2>1. cListener /\ response = c /\ c \in Outcomes /\ told' = Client!Report(c)
    BY <1>3 DEF Client!ReceiveFinal, RInv, IInv, ListenerUntilOutcome, OneFinalResponse,
                Client!Receives, Client!Response, Response
  <2>2. OutcomeSoFar = "none" /\ OutcomeSoFar' = c
    BY <2>1, NoOutcomeYet, OutcomeReported
  <2> QED
    BY <1>3, <2>1, <2>2 DEF Client!ReceiveFinal, Promise!ReportAnswer
<1>4. CASE Client!OnTransactionTimeout
  <2>1. cStatus # "Idle" /\ cStatus' = "Terminated" /\ told' = Client!Report("timeout")
    BY <1>4 DEF Client!OnTransactionTimeout, Client!Fires, RInv, NothingBeforeRequest
  <2>2. CASE cListener
    <3>1. OutcomeSoFar = "none" /\ OutcomeSoFar' = "timeout"
      BY <2>1, <2>2, NoOutcomeYet, OutcomeReported
    <3>2. cStatus # "Terminated"
      BY <2>2 DEF RInv, IInv, ListenerUntilOutcome
    <3>3. Promise!Close
      BY <2>1, <3>1, <3>2 DEF Promise!Close
    <3> QED
      BY <3>3 DEF Promise!Next
  <2>3. CASE ~cListener
    <3>1. OutcomeSoFar' = OutcomeSoFar
      BY <2>1, <2>3 DEF Client!Report, OutcomeSoFar
    <3>2. CASE cStatus = "Terminated"
      BY <2>1, <3>1, <3>2
    <3>3. CASE cStatus # "Terminated"
      <4>1. Promise!Close
        BY <2>1, <3>1, <3>3 DEF Promise!Close
      <4> QED
        BY <4>1 DEF Promise!Next
    <3> QED
      BY <3>2, <3>3
  <2> QED
    BY <2>2, <2>3
<1>5. CASE Client!OnClearingTimeout \/ Client!Terminate
  <2>1. /\ cStatus # "Idle" /\ cStatus' = "Terminated" /\ UNCHANGED told
    BY <1>5 DEF Client!OnClearingTimeout, Client!Terminate, Client!Fires, RInv, NothingBeforeRequest
  <2>2. OutcomeSoFar' = OutcomeSoFar
    BY <2>1 DEF OutcomeSoFar
  <2>3. CASE cStatus = "Terminated"
    BY <2>1, <2>2, <2>3
  <2>4. CASE cStatus # "Terminated"
    <3>1. Promise!Close
      BY <2>1, <2>2, <2>4 DEF Promise!Close
    <3> QED
      BY <3>1 DEF Promise!Next
  <2> QED
    BY <2>3, <2>4
<1>6. CASE \/ \E k \in Client!TimerNames : Client!TimerExpires(k) \/ Client!TimerCallLost(k)
           \/ Client!OnRetransmissionTimeout
  <2>1. UNCHANGED <<cStatus, told>>
    BY <1>6 DEF Client!TimerExpires, Client!TimerCallLost, Client!OnRetransmissionTimeout
  <2> QED
    BY <2>1 DEF OutcomeSoFar
<1> QED
  BY <1>1, <1>2, <1>3, <1>4, <1>5, <1>6
  DEF Client!Next, Client!ReceiveStep, Client!TimerStep, Client!OnTimeout, Promise!Next

\* So is a step of the server.
LEMMA ServerRefines ==
  ASSUME RInv, Server!Next, UNCHANGED clientVars
  PROVE  [Promise!Next]_(Promise!vars)
<1> USE DEF clientVars, Promise!vars
<1>1. OutcomeSoFar' = OutcomeSoFar
  BY DEF OutcomeSoFar
<1>2. ASSUME NEW c \in Classes, Server!UserResponds(c)
      PROVE  [Promise!Next]_(Promise!vars)
  <2>1. cStatus # "Idle" /\ response \notin FinalClasses /\ response' = c
    BY <1>2 DEF Server!UserResponds, Server!RespondWith, RInv, NothingBeforeRequest
  <2>2. CASE c \in FinalClasses
    <3>1. Promise!Answer(c)
      BY <1>1, <2>1, <2>2 DEF Promise!Answer
    <3> QED
      BY <2>2, <3>1 DEF Promise!Next
  <2>3. CASE c \notin FinalClasses
    BY <1>1, <2>1, <2>3
  <2> QED
    BY <2>2, <2>3
<1>3. CASE UNCHANGED response
  BY <1>1, <1>3
<1> QED
  BY <1>2, <1>3
  DEF Server!Next, Server!ReceiveStep, Server!Listen, Server!CreateFor, Server!ReceiveFirst,
      Server!ReceiveAgain, Server!TimerExpires, Server!TimerCallLost, Server!OnClearingTimeout,
      Server!Terminate

\* Whatever the network and the timers do, the users of the two transactions
\* see what RequestOutcome allows, the safety part of ImplementsRequestOutcome.
THEOREM RefinesRequestOutcome == Spec => Promise!SafeSpec
<1>1. Init => Promise!Init
  BY DEF Init, Client!Init, Server!Init, Promise!Init, OutcomeSoFar
<1>2. RInv /\ RInv' /\ [Next]_vars => [Promise!Next]_(Promise!vars)
  <2> SUFFICES ASSUME RInv, RInv', [Next]_vars PROVE [Promise!Next]_(Promise!vars)
    OBVIOUS
  <2>1. CASE Next
    BY <2>1, ClientRefines, ServerRefines DEF Next
  <2>2. CASE UNCHANGED vars
    BY <2>2 DEF vars, clientVars, serverVars, Promise!vars, OutcomeSoFar
  <2> QED
    BY <2>1, <2>2
<1> QED
  BY <1>1, <1>2, RInvariant, PTL DEF Spec, Promise!SafeSpec

-----------------------------------------------------------------------------
(* A client does not end in silence.                                       *)

ToldOutcome == \E i \in DOMAIN told : told[i] \in Outcomes

\* A client transaction that is only waiting for copies of the final response
\* has reported one.
CompletedIsTold == cStatus = "Completed" => ToldOutcome

\* An outcome that is appended to the callbacks has been told.
LEMMA OutcomeIsTold ==
  ASSUME RInv, cListener, NEW e \in Outcomes, told' = Client!Report(e)
  PROVE  ToldOutcome'
<1>1. told \in Seq(Classes \cup {"timeout"}) /\ told' = Append(told, e)
  BY ReportFacts DEF RInv, IInv, TypeOK, Client!TypeOK
<1>2. Len(told') \in DOMAIN told' /\ told'[Len(told')] = e
  BY <1>1, AppendFacts
<1> QED
  BY <1>2 DEF ToldOutcome

\* What has been told stays told.
LEMMA CompletedStays ==
  ASSUME RInv, CompletedIsTold, [Next]_vars
  PROVE  CompletedIsTold'
<1>1. CASE cStatus = "Completed" /\ cStatus' = "Completed"
  <2>1. UNCHANGED told
    BY <1>1
    DEF Next, vars, clientVars, serverVars, Client!Next, Client!SendRequest, Client!ReceiveStep,
        Client!ReceiveProvisional, Client!ReceiveFinal, Client!TimerStep, Client!TimerExpires,
        Client!TimerCallLost, Client!OnTimeout, Client!OnRetransmissionTimeout,
        Client!OnTransactionTimeout, Client!OnClearingTimeout, Client!Terminate
  <2> QED
    BY <1>1, <2>1 DEF CompletedIsTold, ToldOutcome
<1>2. CASE cStatus # "Completed" /\ cStatus' = "Completed"
  <2>1. PICK c \in FinalClasses : Client!ReceiveFinal(c)
    BY <1>2
    DEF Next, vars, clientVars, serverVars, Client!Next, Client!SendRequest, Client!ReceiveStep,
        Client!ReceiveProvisional, Client!ReceiveFinal, Client!TimerStep, Client!TimerExpires,
        Client!TimerCallLost, Client!OnTimeout, Client!OnRetransmissionTimeout,
        Client!OnTransactionTimeout, Client!OnClearingTimeout, Client!Terminate
  <2>2. cListener /\ c \in Outcomes /\ told' = Client!Report(c)
    BY <2>1 DEF Client!ReceiveFinal, RInv, IInv, ListenerUntilOutcome
  <2> QED
    BY <2>2, OutcomeIsTold DEF CompletedIsTold
<1> QED
  BY <1>1, <1>2 DEF CompletedIsTold

\* The step that ends a client follows the report of an outcome or makes it,
\* unless it is the user's terminate().
LEMMA EndsTold ==
  ASSUME RInv, CompletedIsTold, [Next]_vars,
         cStatus # "Terminated", cStatus' = "Terminated", ~Client!Terminate
  PROVE  ToldOutcome'
<1>1. Client!OnTransactionTimeout \/ Client!OnClearingTimeout
  BY DEF Next, vars, clientVars, serverVars, Client!Next, Client!SendRequest, Client!ReceiveStep,
         Client!ReceiveProvisional, Client!ReceiveFinal, Client!TimerStep, Client!TimerExpires,
         Client!TimerCallLost, Client!OnTimeout, Client!OnRetransmissionTimeout
<1>2. CASE cListener
  <2>1. cStatus # "Completed" /\ cTimer["clearing"] = "idle"
    BY <1>2 DEF RInv, IInv, ListenerUntilOutcome
  <2>2. told' = Client!Report("timeout") /\ "timeout" \in Outcomes
    BY <1>1, <2>1 DEF Client!OnTransactionTimeout, Client!OnClearingTimeout, Client!Fires
  <2> QED
    BY <1>2, <2>2, OutcomeIsTold
<1>3. CASE ~cListener
  <2>1. ToldOutcome
    BY <1>3 DEF RInv, IInv, ListenerUntilOutcome, CompletedIsTold
  <2>2. UNCHANGED told
    BY <1>1, <1>3 DEF Client!OnTransactionTimeout, Client!OnClearingTimeout, Client!Report
  <2> QED
    BY <2>1, <2>2 DEF ToldOutcome
<1> QED
  BY <1>2, <1>3

\* A transaction that has been asked reports an outcome before it is removed,
\* unless its user has called terminate().
THEOREM NoSilentEnd == Spec => EndsToldOrGivenUp
<1>1. Init => CompletedIsTold
  BY DEF Init, Client!Init, CompletedIsTold
<1>2. RInv /\ CompletedIsTold /\ [Next]_vars => CompletedIsTold'
  BY CompletedStays
<1>3. RInv /\ CompletedIsTold /\ [Next]_vars =>
        [cStatus' = "Terminated" /\ cStatus # "Terminated"
           => (\E i \in DOMAIN told' : told'[i] \in Outcomes) \/ Client!Terminate]_vars
  BY EndsTold DEF ToldOutcome
<1> QED
  BY <1>1, <1>2, <1>3, RInvariant, PTL DEF Spec, EndsToldOrGivenUp
=============================================================================
