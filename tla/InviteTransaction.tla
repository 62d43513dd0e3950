-------------------------- MODULE InviteTransaction --------------------------
(***************************************************************************)
(* An INVITE from one phone to another: an InviteTransactionClient on one  *)
(* side; an InviteTransactionServer, an AckTransactionServer and the part  *)
(* of the InviteDialog that drives them on the other; an unreliable        *)
(* network in between.  The dialog of the caller only appears in the ACK   *)
(* it sends for a success.                                                 *)
(***************************************************************************)
EXTENDS SipTransaction, SipTimer, Sequences, Naturals

VARIABLES
  cStatus, cListener, cRegistered, cTimer, told,
  sStatus, sListener, entries, sTimer, response, heard,
  aStatus, aListener, aTimer,
  dialog,               \* InviteDialog.status of the callee, without the prefix "D_"
  wire

clientVars == <<cStatus, cListener, cRegistered, cTimer, told>>
serverVars == <<sStatus, sListener, entries, sTimer, response, heard>>
ackVars    == <<aStatus, aListener, aTimer>>
vars       == <<clientVars, serverVars, ackVars, dialog, wire>>

Client == INSTANCE InviteTransactionClient WITH
  status <- cStatus, listener <- cListener, registered <- cRegistered, timer <- cTimer

Server == INSTANCE InviteTransactionServer WITH
  status <- sStatus, listener <- sListener, timer <- sTimer

Ack == INSTANCE AckTransactionServer WITH
  status <- aStatus, listener <- aListener, timer <- aTimer

Init ==
  /\ Client!Init /\ Server!Init /\ Ack!Init
  /\ dialog = "INIT"

-----------------------------------------------------------------------------
(* The caller.                                                             *)

CallerStep == Client!Next({SuccessAck}) /\ UNCHANGED <<serverVars, ackVars, dialog>>

\* Somebody asks what the callee can do.
SendOptions ==
  /\ Request("OPTIONS") \notin wire
  /\ wire' = wire \cup {Request("OPTIONS")}
  /\ UNCHANGED <<clientVars, serverVars, ackVars, dialog>>

-----------------------------------------------------------------------------
(* The callee.                                                             *)

\* InviteDialog.listen()
Listen ==
  /\ dialog = "INIT"
  /\ dialog' = "WAITING"
  /\ Server!Listen
  /\ UNCHANGED <<clientVars, ackVars>>

\* InviteDialog.cancel() of a dialog that is still waiting.
StopListening ==
  /\ dialog = "WAITING"
  /\ Server!Terminate({})
  /\ UNCHANGED <<clientVars, ackVars, dialog>>

\* The constructor of an InviteDialog for an INVITE already received.
CreateDialogFor ==
  /\ dialog = "INIT"
  /\ dialog' = "INVITED"
  /\ Server!CreateFor
  /\ UNCHANGED <<clientVars, ackVars>>

\* The transaction takes the INVITE: onTransRequest().
ReceiveInvite ==
  /\ Server!ReceiveInvite
  /\ dialog' = IF sListener /\ dialog = "WAITING" THEN "INVITED" ELSE dialog
  /\ UNCHANGED <<clientVars, ackVars>>

\* respond() with a provisional response, as ring() does.
Ring ==
  /\ dialog = "INVITED"
  /\ Server!RespondWith(Provisional)
  /\ UNCHANGED <<clientVars, ackVars, dialog>>

\* respond() with a failure, as refuse() and busy() do.
Refuse ==
  /\ dialog = "INVITED"
  /\ dialog' = "REFUSED"
  /\ Server!RespondWith(Failure)
  /\ UNCHANGED <<clientVars, ackVars>>

\* MUTANT of Accept: the INVITE transaction is left as it is.
AcceptLeavesTransaction ==
  /\ dialog = "INVITED"
  /\ dialog' = "ACCEPTED"
  /\ Ack!Respond
  /\ UNCHANGED <<clientVars, serverVars>>

\* respond() with a success, as accept() does: an AckTransactionServer takes
\* over from the INVITE transaction.
Accept ==
  /\ dialog = "INVITED"
  /\ dialog' = "ACCEPTED"
  /\ Server!Terminate({Ack!Answer})
  /\ Ack!Respond
  /\ UNCHANGED clientVars

\* The ACK of a failure: onTransFailureAck().
ReceiveFailureAck ==
  /\ Server!ReceiveAck
  /\ dialog' = IF sListener /\ dialog = "REFUSED" THEN "CLOSE" ELSE dialog
  /\ UNCHANGED <<clientVars, ackVars>>

\* The ACK of a success comes to the dialog itself: onReceivedMessage().
ReceiveSuccessAck ==
  /\ SuccessAck \in wire
  /\ dialog = "ACCEPTED"
  /\ dialog' = "CALL"
  /\ Ack!Terminate
  /\ UNCHANGED <<clientVars, serverVars>>

\* No ACK of a success has come in time: onTransAckTimeout().
AckTimeout ==
  /\ Ack!OnTransactionTimeout
  /\ dialog' = IF Ack!TellsTimeout /\ dialog \in {"ACCEPTED", "REFUSED"} THEN "CLOSE" ELSE dialog
  /\ UNCHANGED <<clientVars, serverVars>>

ServerStep ==
  /\ Server!ReceiveInviteAgain \/ Server!ReceiveOptions
     \/ \E k \in Server!TimerNames : Server!TimerStep(k)
  /\ UNCHANGED <<clientVars, ackVars, dialog>>

AckTimerExpires(k) ==
  /\ Ack!TimerExpires(k)
  /\ UNCHANGED <<clientVars, serverVars, dialog>>

\* The call of onTimeout() that the dialog does not notice.
AckTimerCallEnds(k) ==
  /\ Ack!TimerCallLost(k) \/ (k = "retransmission" /\ Ack!OnRetransmissionTimeout)
  /\ UNCHANGED <<clientVars, serverVars, dialog>>

AckStep == \E k \in Ack!TimerNames : AckTimerExpires(k) \/ AckTimerCallEnds(k)

CalleeStep ==
  \/ Listen \/ StopListening \/ CreateDialogFor \/ ReceiveInvite
  \/ Ring \/ Refuse \/ Accept
  \/ ReceiveFailureAck \/ ReceiveSuccessAck \/ AckTimeout
  \/ ServerStep \/ AckStep

Next == CallerStep \/ SendOptions \/ CalleeStep

\* The threads of the timers run; the network and the users need not act.
Fairness ==
  /\ Client!TimersRun /\ Server!TimersRun
  /\ \A k \in Ack!TimerNames :
       /\ WF_vars(AckTimerExpires(k))
       /\ WF_vars(AckTimerCallEnds(k) \/ (k = "transaction" /\ AckTimeout))

Spec == Init /\ [][Next]_vars /\ Fairness

-----------------------------------------------------------------------------
Outcomes == FinalClasses \cup {"timeout"}

TypeOK ==
  /\ Client!TypeOK /\ Server!TypeOK /\ Ack!TypeOK
  /\ dialog \in {"INIT", "WAITING", "INVITED", "REFUSED", "ACCEPTED", "CALL", "CLOSE"}

Told(event) == \E i \in DOMAIN told : told[i] = event

\* A callee that has gone on to the call, or that has been told its refusal
\* is acknowledged, knows that the caller knows.
AckMeansKnown ==
  /\ dialog = "CALL" => Told(Success)
  /\ "ack" \in heard => Told(Failure)

\* The callee retransmits one kind of final response only: the two server
\* objects are never both at work.
OneServerAnswers ==
  ~(aStatus = "Proceeding" /\ sStatus \in {"Waiting", "Trying", "Proceeding", "Completed"})

\* Who waits for the other side is covered by a timer that ends the wait,
\* and a final response is retransmitted for as long as its ACK is awaited.
\* The exception is a client that has got a provisional response.
WaitsAreTimed ==
  /\ cStatus = "Trying" => Pending(cTimer, "transaction") /\ Pending(cTimer, "retransmission")
  /\ cStatus = "Completed" => Pending(cTimer, "end")
  /\ sStatus = "Completed" => Pending(sTimer, "end") /\ Pending(sTimer, "retransmission")
  /\ sStatus = "Confirmed" => Pending(sTimer, "clearing")
  /\ aStatus = "Proceeding" => Pending(aTimer, "transaction") /\ Pending(aTimer, "retransmission")

\* Ended transactions leave no entry of their own in the table of the
\* SipProvider, and the next INVITE goes to whoever waits for it.
NoEntryLeaks ==
  /\ cRegistered <=> cStatus \notin {"Idle", "Terminated"}
  /\ "transaction" \in entries <=> sStatus \notin {"Idle", "Waiting", "Terminated"}
  /\ "INVITE" \in entries <=> sStatus = "Waiting"

\* A final response is not retransmitted for ever.
AnswersEnd ==
  /\ sStatus = "Completed" ~> sStatus = "Terminated"
  /\ aStatus = "Proceeding" ~> aStatus = "Terminated"

\* A callee that has accepted ends up in the call or closed.
AcceptedSettles == dialog = "ACCEPTED" ~> dialog \in {"CALL", "CLOSE"}

\* What onTransAckTimeout() provides for, "No ACK received.." in REFUSED
\* too: a refused dialog is closed in the end.
RefusedCloses == dialog = "REFUSED" ~> dialog = "CLOSE"

OutcomeSoFar ==
  IF told # <<>> /\ told[Len(told)] \in Outcomes THEN told[Len(told)] ELSE "none"

Promise == INSTANCE RequestOutcome WITH
  Answers   <- FinalClasses,
  requested <- cStatus # "Idle",
  answer    <- IF aStatus # "Idle" THEN Success
               ELSE IF response = Failure THEN Failure ELSE "none",
  outcome   <- OutcomeSoFar,
  closed    <- cStatus = "Terminated"

\* The caller sees one outcome, as from any request; but not that there is one.
ImplementsRequestOutcome == Promise!SafeSpec
=============================================================================
