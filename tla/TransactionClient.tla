-------------------------- MODULE TransactionClient --------------------------
(***************************************************************************)
(* The client side of a transaction other than INVITE (TransactionClient.  *)
(* java): REGISTER, BYE, CANCEL, SUBSCRIBE, NOTIFY, REFER.  One action per *)
(* method; a handler runs to its end in one step, while a timer that is    *)
(* halted when it is already due still calls onTimeout() later (SipTimer). *)
(*                                                                         *)
(* `wire' holds every message ever sent.  A message is received without    *)
(* being removed and is never bound to be received, so that it may be      *)
(* lost, delayed, duplicated and reordered, as UDP may.                    *)
(***************************************************************************)
EXTENDS SipTransaction, SipTimer, Sequences

CONSTANT Method         \* the method of the request

VARIABLES
  status,               \* Transaction.status
  listener,             \* transaction_listener # null
  registered,           \* the SipProvider dispatches transaction_id to this object
  timer,                \* the three timers
  told,                 \* the callbacks made so far, a run of provisionals once
  wire                  \* the messages sent by anyone

vars == <<status, listener, registered, timer, told, wire>>

TimerNames == {"retransmission", "transaction", "clearing"}

Live == {"Trying", "Proceeding"}

Init ==
  /\ status = "Idle"
  /\ listener = TRUE
  /\ registered = FALSE
  /\ timer = AllIdle(TimerNames)
  /\ told = <<>>
  /\ wire = {}

\* The callbacks made when `event' is reported to the listener, if any.
Report(event) ==
  IF ~listener THEN told
  ELSE IF event = Provisional /\ told = <<Provisional>> THEN told
  ELSE Append(told, event)

\* request()
SendRequest ==
  /\ status = "Idle"
  /\ status' = "Trying"
  /\ timer' = Started(timer, {"retransmission", "transaction"})
  /\ registered' = TRUE
  /\ wire' = wire \cup {Request(Method)}
  /\ UNCHANGED <<listener, told>>

\* onReceivedMessage() is called for a response of class c.
Receives(c) == registered /\ Response(Method, c) \in wire

\* MUTANT: the transaction timer is halted as well, as for an INVITE.
ReceiveProvisionalHaltsBoth ==
  /\ Receives(Provisional)
  /\ status \in Live
  /\ timer' = Halted(timer, {"retransmission", "transaction"})
  /\ status' = "Proceeding"
  /\ told' = Report(Provisional)
  /\ UNCHANGED <<listener, registered, wire>>

\* onReceivedMessage() on a provisional response.
ReceiveProvisional ==
  /\ Receives(Provisional)
  /\ status \in Live
  /\ timer' = Halted(timer, {"retransmission"})
  /\ status' = "Proceeding"
  /\ told' = Report(Provisional)
  /\ UNCHANGED <<listener, registered, wire>>

\* MUTANT: the listener is kept after the final response.
ReceiveFinalKeepsListener(c) ==
  /\ Receives(c)
  /\ status \in Live
  /\ timer' = Started(Halted(timer, {"retransmission", "transaction"}), {"clearing"})
  /\ status' = "Completed"
  /\ told' = Report(c)
  /\ UNCHANGED <<listener, registered, wire>>

\* MUTANT: the clearing timer is not started after the final response.
ReceiveFinalForgetsClearing(c) ==
  /\ Receives(c)
  /\ status \in Live
  /\ timer' = Halted(timer, {"retransmission", "transaction"})
  /\ status' = "Completed"
  /\ told' = Report(c)
  /\ listener' = FALSE
  /\ UNCHANGED <<registered, wire>>

\* MUTANT: every final response is reported as a success.
ReceiveFinalAsSuccess(c) ==
  /\ Receives(c)
  /\ status \in Live
  /\ timer' = Started(Halted(timer, {"retransmission", "transaction"}), {"clearing"})
  /\ status' = "Completed"
  /\ told' = Report(Success)
  /\ listener' = FALSE
  /\ UNCHANGED <<registered, wire>>

\* onReceivedMessage() on a final response.
ReceiveFinal(c) ==
  /\ Receives(c)
  /\ status \in Live
  /\ timer' = Started(Halted(timer, {"retransmission", "transaction"}), {"clearing"})
  /\ status' = "Completed"
  /\ told' = Report(c)
  /\ listener' = FALSE
  /\ UNCHANGED <<registered, wire>>

\* A timer's thread wakes up and finds the timer active.
TimerExpires(k) ==
  /\ timer[k] = "running"
  /\ timer' = Expired(timer, k)
  /\ UNCHANGED <<status, listener, registered, told, wire>>

\* The call of onTimeout() of a timer halted too late is lost after all.
TimerCallLost(k) ==
  /\ timer[k] = "late"
  /\ timer' = Done(timer, k)
  /\ UNCHANGED <<status, listener, registered, told, wire>>

\* onTimeout(retransmission_to): the request is sent again and a new timer
\* replaces the expired one, unless a final response has come.
OnRetransmissionTimeout ==
  /\ Fires(timer, "retransmission")
  /\ IF status \in Live
     THEN /\ wire' = wire \cup {Request(Method)}
          /\ timer' = Started(timer, {"retransmission"})
     ELSE /\ timer' = Done(timer, "retransmission")
          /\ UNCHANGED wire
  /\ UNCHANGED <<status, listener, registered, told>>

\* MUTANT: the listener is dropped before it is told.
OnTransactionTimeoutSilent ==
  /\ Fires(timer, "transaction")
  /\ timer' = Done(Halted(timer, {"retransmission", "clearing"}), "transaction")
  /\ registered' = FALSE
  /\ status' = "Terminated"
  /\ listener' = FALSE
  /\ UNCHANGED <<told, wire>>

\* onTimeout(transaction_to): there is no test of the status.
OnTransactionTimeout ==
  /\ Fires(timer, "transaction")
  /\ timer' = Done(Halted(timer, {"retransmission", "clearing"}), "transaction")
  /\ registered' = FALSE
  /\ status' = "Terminated"
  /\ told' = Report("timeout")
  /\ listener' = FALSE
  /\ UNCHANGED wire

\* MUTANT: the entry of the transaction stays in the table of the provider.
OnClearingTimeoutLeaks ==
  /\ Fires(timer, "clearing")
  /\ timer' = Done(Halted(timer, {"retransmission", "transaction"}), "clearing")
  /\ status' = "Terminated"
  /\ UNCHANGED <<listener, registered, told, wire>>

\* onTimeout(clearing_to)
OnClearingTimeout ==
  /\ Fires(timer, "clearing")
  /\ timer' = Done(Halted(timer, {"retransmission", "transaction"}), "clearing")
  /\ registered' = FALSE
  /\ status' = "Terminated"
  /\ UNCHANGED <<listener, told, wire>>

\* terminate(), called by the transaction user at any time after request().
Terminate ==
  /\ status \notin {"Idle", "Terminated"}
  /\ timer' = Halted(timer, TimerNames)
  /\ registered' = FALSE
  /\ status' = "Terminated"
  /\ listener' = FALSE
  /\ UNCHANGED <<told, wire>>

OnTimeout(k) ==
  \/ k = "retransmission" /\ OnRetransmissionTimeout
  \/ k = "transaction" /\ OnTransactionTimeout
  \/ k = "clearing" /\ OnClearingTimeout

TimerStep(k) == TimerExpires(k) \/ TimerCallLost(k) \/ OnTimeout(k)

ReceiveStep == ReceiveProvisional \/ \E c \in FinalClasses : ReceiveFinal(c)

Next ==
  \/ SendRequest
  \/ ReceiveStep
  \/ \E k \in TimerNames : TimerStep(k)
  \/ Terminate

\* A started timer expires and its thread runs on; nothing else is certain.
TimersRun == \A k \in TimerNames :
  WF_vars(TimerExpires(k)) /\ WF_vars(TimerCallLost(k) \/ OnTimeout(k))
-----------------------------------------------------------------------------
TypeOK ==
  /\ status \in Statuses
  /\ listener \in BOOLEAN
  /\ registered \in BOOLEAN
  /\ timer \in [TimerNames -> TimerStates]
  /\ told \in Seq(Classes \cup {"timeout"})
  /\ wire \subseteq Messages(Method)
=============================================================================
