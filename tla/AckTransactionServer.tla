------------------------ MODULE AckTransactionServer ------------------------
(***************************************************************************)
(* The object that sends the 2xx response of an accepted INVITE again and  *)
(* again until its dialog has got the ACK (AckTransactionServer.java).     *)
(***************************************************************************)
EXTENDS SipTransaction, SipTimer

VARIABLES
  status,               \* Transaction.status
  listener,             \* transaction_listener # null
  timer,                \* the two timers
  wire

vars == <<status, listener, timer, wire>>

TimerNames == {"retransmission", "transaction"}

Init ==
  /\ status = "Idle"
  /\ listener = TRUE
  /\ timer = AllIdle(TimerNames)
  /\ wire = {}

\* What respond() sends.
Answer == Response("INVITE", Success)

\* MUTANT: the transaction timer is not started.
RespondUntimed ==
  /\ status = "Idle"
  /\ status' = "Proceeding"
  /\ timer' = Started(timer, {"retransmission"})
  /\ wire' = wire \cup {Answer}
  /\ UNCHANGED listener

\* respond()
Respond ==
  /\ status = "Idle"
  /\ status' = "Proceeding"
  /\ timer' = Started(timer, TimerNames)
  /\ wire' = wire \cup {Answer}
  /\ UNCHANGED listener

TimerExpires(k) ==
  /\ timer[k] = "running"
  /\ timer' = Expired(timer, k)
  /\ UNCHANGED <<status, listener, wire>>

TimerCallLost(k) ==
  /\ timer[k] = "late"
  /\ timer' = Done(timer, k)
  /\ UNCHANGED <<status, listener, wire>>

\* onTimeout(retransmission_to)
OnRetransmissionTimeout ==
  /\ Fires(timer, "retransmission")
  /\ IF status = "Proceeding"
     THEN /\ wire' = wire \cup {Answer}
          /\ timer' = Started(timer, {"retransmission"})
     ELSE /\ timer' = Done(timer, "retransmission")
          /\ UNCHANGED wire
  /\ UNCHANGED <<status, listener>>

\* onTransAckTimeout() is called by a timeout that happens now.
TellsTimeout == status = "Proceeding" /\ listener

\* onTimeout(transaction_to)
OnTransactionTimeout ==
  /\ Fires(timer, "transaction")
  /\ timer' = Done(timer, "transaction")
  /\ IF status = "Proceeding"
     THEN status' = "Terminated" /\ listener' = FALSE
     ELSE UNCHANGED <<status, listener>>
  /\ UNCHANGED wire

\* terminate()
Terminate ==
  /\ timer' = Halted(timer, TimerNames)
  /\ status' = "Terminated"
  /\ listener' = FALSE
  /\ UNCHANGED wire

-----------------------------------------------------------------------------
TypeOK ==
  /\ status \in Statuses
  /\ listener \in BOOLEAN
  /\ timer \in [TimerNames -> TimerStates]
  /\ wire \subseteq InviteMessages
=============================================================================
