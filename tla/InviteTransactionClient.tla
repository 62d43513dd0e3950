----------------------- MODULE InviteTransactionClient -----------------------
(***************************************************************************)
(* The client side of an INVITE transaction (InviteTransactionClient.java).*)
(* `wire' is as in TransactionClient.                                      *)
(***************************************************************************)
EXTENDS SipTransaction, SipTimer, Sequences

VARIABLES
  status,               \* Transaction.status
  listener,             \* transaction_listener # null
  registered,           \* the SipProvider dispatches transaction_id to this object
  timer,                \* the three timers
  told,                 \* the callbacks made so far, a run of provisionals once
  wire                  \* the messages sent by anyone

vars == <<status, listener, registered, timer, told, wire>>

TimerNames == {"retransmission", "transaction", "end"}

Live == {"Trying", "Proceeding"}

Init ==
  /\ status = "Idle"
  /\ listener = TRUE
  /\ registered = FALSE
  /\ timer = AllIdle(TimerNames)
  /\ told = <<>>
  /\ wire = {}

Report(event) ==
  IF ~listener THEN told
  ELSE IF event = Provisional /\ told = <<Provisional>> THEN told
  ELSE Append(told, event)

\* request()
SendRequest ==
  /\ status = "Idle"
  /\ status' = "Trying"
  /\ timer' = Started(timer, {"retransmission", "transaction"})
  /\ registered' = TRUE
  /\ wire' = wire \cup {Invite}
  /\ UNCHANGED <<listener, told>>

Receives(c) == registered /\ Response("INVITE", c) \in wire

\* onReceivedMessage() on a provisional response: the first one stops both
\* timers, so that nothing bounds the wait for the final response.
ReceiveProvisional ==
  /\ Receives(Provisional)
  /\ status \in Live
  /\ timer' = IF status = "Trying" THEN Halted(timer, {"retransmission", "transaction"})
              ELSE timer
  /\ status' = "Proceeding"
  /\ told' = Report(Provisional)
  /\ UNCHANGED <<listener, registered, wire>>

\* MUTANT: the listener is kept after the failure.
ReceiveFailureKeepsListener ==
  /\ Receives(Failure)
  /\ status \in Live
  /\ timer' = Started(Halted(timer, {"retransmission", "transaction"}), {"end"})
  /\ status' = "Completed"
  /\ wire' = wire \cup {FailureAck}
  /\ told' = Report(Failure)
  /\ UNCHANGED <<registered, listener>>

\* MUTANT: the listener is dropped before it is told.
ReceiveFailureSilent ==
  /\ Receives(Failure)
  /\ status \in Live
  /\ timer' = Started(Halted(timer, {"retransmission", "transaction"}), {"end"})
  /\ status' = "Completed"
  /\ wire' = wire \cup {FailureAck}
  /\ listener' = FALSE
  /\ UNCHANGED <<registered, told>>

\* onReceivedMessage() on a failure response.  The ACK of this transaction
\* is sent before the callback.
ReceiveFailure ==
  /\ Receives(Failure)
  /\ status \in Live
  /\ timer' = Started(Halted(timer, {"retransmission", "transaction"}), {"end"})
  /\ status' = "Completed"
  /\ wire' = wire \cup {FailureAck}
  /\ told' = Report(Failure)
  /\ listener' = FALSE
  /\ UNCHANGED registered

\* onReceivedMessage() on a failure response sent again: so is the ACK.
ReceiveFailureAgain ==
  /\ Receives(Failure)
  /\ status = "Completed"
  /\ wire' = wire \cup {FailureAck}
  /\ UNCHANGED <<status, listener, registered, timer, told>>

\* onReceivedMessage() on a success response.  `sent' is what the listener
\* sends from onTransSuccessResponse().
ReceiveSuccess(sent) ==
  /\ Receives(Success)
  /\ status \in Live
  /\ timer' = Halted(timer, TimerNames)
  /\ status' = "Terminated"
  /\ registered' = FALSE
  /\ told' = Report(Success)
  /\ wire' = wire \cup (IF listener THEN sent ELSE {})
  /\ listener' = FALSE

TimerExpires(k) ==
  /\ timer[k] = "running"
  /\ timer' = Expired(timer, k)
  /\ UNCHANGED <<status, listener, registered, told, wire>>

TimerCallLost(k) ==
  /\ timer[k] = "late"
  /\ timer' = Done(timer, k)
  /\ UNCHANGED <<status, listener, registered, told, wire>>

\* onTimeout(retransmission_to)
OnRetransmissionTimeout ==
  /\ Fires(timer, "retransmission")
  /\ IF status = "Trying"
     THEN /\ wire' = wire \cup {Invite}
          /\ timer' = Started(timer, {"retransmission"})
     ELSE /\ timer' = Done(timer, "retransmission")
          /\ UNCHANGED wire
  /\ UNCHANGED <<status, listener, registered, told>>

\* onTimeout(transaction_to): there is no test of the status.
OnTransactionTimeout ==
  /\ Fires(timer, "transaction")
  /\ timer' = Done(Halted(timer, {"retransmission", "end"}), "transaction")
  /\ registered' = FALSE
  /\ status' = "Terminated"
  /\ told' = Report("timeout")
  /\ listener' = FALSE
  /\ UNCHANGED wire

\* onTimeout(end_to)
OnEndTimeout ==
  /\ Fires(timer, "end")
  /\ timer' = Done(Halted(timer, {"retransmission", "transaction"}), "end")
  /\ registered' = FALSE
  /\ status' = "Terminated"
  /\ listener' = FALSE
  /\ UNCHANGED <<told, wire>>

\* terminate()
Terminate ==
  /\ status \notin {"Idle", "Terminated"}
  /\ timer' = Halted(timer, TimerNames)
  /\ registered' = FALSE
  /\ status' = "Terminated"
  /\ listener' = FALSE
  /\ UNCHANGED <<told, wire>>

ReceiveStep(sent) ==
  ReceiveProvisional \/ ReceiveFailure \/ ReceiveFailureAgain \/ ReceiveSuccess(sent)

OnTimeout(k) ==
  \/ k = "retransmission" /\ OnRetransmissionTimeout
  \/ k = "transaction" /\ OnTransactionTimeout
  \/ k = "end" /\ OnEndTimeout

TimerStep(k) == TimerExpires(k) \/ TimerCallLost(k) \/ OnTimeout(k)

Next(sent) ==
  \/ SendRequest
  \/ ReceiveStep(sent)
  \/ \E k \in TimerNames : TimerStep(k)
  \/ Terminate

TimersRun == \A k \in TimerNames :
  WF_vars(TimerExpires(k)) /\ WF_vars(TimerCallLost(k) \/ OnTimeout(k))
-----------------------------------------------------------------------------
TypeOK ==
  /\ status \in Statuses
  /\ listener \in BOOLEAN
  /\ registered \in BOOLEAN
  /\ timer \in [TimerNames -> TimerStates]
  /\ told \in Seq(Classes \cup {"timeout"})
  /\ wire \subseteq InviteMessages
=============================================================================
