----------------------- MODULE InviteTransactionServer -----------------------
(***************************************************************************)
(* The server side of an INVITE transaction (InviteTransactionServer.java):*)
(* either waiting for the next INVITE (listen()) or created for an INVITE  *)
(* that its dialog has received.  `wire' is as in TransactionClient.       *)
(***************************************************************************)
EXTENDS SipTransaction, SipTimer

VARIABLES
  status,               \* Transaction.status
  listener,             \* transaction_listener # null
  entries,              \* the identifiers the SipProvider dispatches to this object
  timer,                \* the three timers
  response,             \* class of the last response, or "none"
  heard,                \* the callbacks made so far
  wire

vars == <<status, listener, entries, timer, response, heard, wire>>

TimerNames == {"retransmission", "end", "clearing"}

\* The method identifiers of listen(), and the identifier of the transaction.
Entries == {"INVITE", "OPTIONS", "transaction"}

Live == {"Trying", "Proceeding"}

Init ==
  /\ status = "Idle"
  /\ listener = TRUE
  /\ entries = {}
  /\ timer = AllIdle(TimerNames)
  /\ response = "none"
  /\ heard = {}
  /\ wire = {}

Hear(event) == heard \cup (IF listener THEN {event} ELSE {})

\* listen()
Listen ==
  /\ status = "Idle"
  /\ status' = "Waiting"
  /\ entries' = entries \cup {"INVITE", "OPTIONS"}
  /\ UNCHANGED <<listener, timer, response, heard, wire>>

\* MUTANT of Takes: 100 Trying is sent and not kept.
TakesUnrecorded ==
  /\ status' = "Proceeding"
  /\ wire' = wire \cup {Response("INVITE", Provisional)}
  /\ UNCHANGED response

\* Both ways of taking up an INVITE end in sending 100 Trying (AUTO_TRYING).
Takes ==
  /\ status' = "Proceeding"
  /\ response' = Provisional
  /\ wire' = wire \cup {Response("INVITE", Provisional)}

\* The constructor for an INVITE that the dialog has received.
CreateFor ==
  /\ status = "Idle"
  /\ Invite \in wire
  /\ Takes
  /\ entries' = entries \cup {"transaction"}
  /\ UNCHANGED <<listener, timer, heard>>

\* MUTANT: the next INVITE comes here as well.
ReceiveInviteKeepsEntry ==
  /\ "INVITE" \in entries /\ Invite \in wire
  /\ status = "Waiting"
  /\ Takes
  /\ entries' = entries \cup {"transaction"}
  /\ heard' = Hear("request")
  /\ UNCHANGED <<listener, timer>>

\* onReceivedMessage() on the INVITE that was waited for.
ReceiveInvite ==
  /\ "INVITE" \in entries /\ Invite \in wire
  /\ status = "Waiting"
  /\ Takes
  /\ entries' = (entries \cup {"transaction"}) \ {"INVITE"}
  /\ heard' = Hear("request")
  /\ UNCHANGED <<listener, timer>>

\* onReceivedMessage() on an INVITE sent again.
ReceiveInviteAgain ==
  /\ "transaction" \in entries /\ Invite \in wire
  /\ status \in {"Proceeding", "Completed"}
  /\ wire' = wire \cup {Response("INVITE", response)}
  /\ UNCHANGED <<status, listener, entries, timer, response, heard>>

\* onReceivedMessage() on an OPTIONS request, whatever the status.
ReceiveOptions ==
  /\ "OPTIONS" \in entries /\ Request("OPTIONS") \in wire
  /\ wire' = wire \cup {Response("OPTIONS", Success)}
  /\ UNCHANGED <<status, listener, entries, timer, response, heard>>

\* onReceivedMessage() on the ACK of a failure response.
ReceiveAck ==
  /\ "transaction" \in entries /\ FailureAck \in wire
  /\ status = "Completed"
  /\ status' = "Confirmed"
  /\ timer' = Started(Halted(timer, {"retransmission", "end"}), {"clearing"})
  /\ heard' = Hear("ack")
  /\ UNCHANGED <<listener, entries, response, wire>>

\* respondWith()
RespondWith(c) ==
  /\ response' = c
  /\ wire' = wire \cup (IF status \in Live THEN {Response("INVITE", c)} ELSE {})
  /\ status' = CASE status \notin Live -> status
                 [] c = Provisional -> "Proceeding"
                 [] c = Success     -> "Terminated"
                 [] c = Failure     -> "Completed"
  /\ entries' = IF status \in Live /\ c = Success THEN entries \ {"transaction"} ELSE entries
  /\ listener' = (listener /\ ~(status \in Live /\ c = Success))
  /\ timer' = IF status \in Live /\ c = Failure
              THEN Started(timer, {"retransmission", "end"}) ELSE timer
  /\ UNCHANGED heard

TimerExpires(k) ==
  /\ timer[k] = "running"
  /\ timer' = Expired(timer, k)
  /\ UNCHANGED <<status, listener, entries, response, heard, wire>>

TimerCallLost(k) ==
  /\ timer[k] = "late"
  /\ timer' = Done(timer, k)
  /\ UNCHANGED <<status, listener, entries, response, heard, wire>>

\* MUTANT: the timer is not replaced.
OnRetransmissionTimeoutOnce ==
  /\ Fires(timer, "retransmission")
  /\ wire' = wire \cup (IF status = "Completed" THEN {Response("INVITE", response)} ELSE {})
  /\ timer' = Done(timer, "retransmission")
  /\ UNCHANGED <<status, listener, entries, response, heard>>

\* onTimeout(retransmission_to)
OnRetransmissionTimeout ==
  /\ Fires(timer, "retransmission")
  /\ IF status = "Completed"
     THEN /\ wire' = wire \cup {Response("INVITE", response)}
          /\ timer' = Started(timer, {"retransmission"})
     ELSE /\ timer' = Done(timer, "retransmission")
          /\ UNCHANGED wire
  /\ UNCHANGED <<status, listener, entries, response, heard>>

\* The transaction ends if it is still in the status the timer is for.
EndsIf(st) ==
  IF status = st
  THEN status' = "Terminated" /\ entries' = entries \ {"transaction"} /\ listener' = FALSE
  ELSE UNCHANGED <<status, listener, entries>>

\* MUTANT: the status of the other timer is tested.
OnEndTimeoutMixedUp ==
  /\ Fires(timer, "end")
  /\ EndsIf("Confirmed")
  /\ timer' = Done(IF status = "Confirmed" THEN Halted(timer, {"retransmission"}) ELSE timer,
                   "end")
  /\ UNCHANGED <<response, heard, wire>>

\* onTimeout(end_to): no ACK has come, and the dialog is not told.
OnEndTimeout ==
  /\ Fires(timer, "end")
  /\ EndsIf("Completed")
  /\ timer' = Done(IF status = "Completed" THEN Halted(timer, {"retransmission"}) ELSE timer,
                   "end")
  /\ UNCHANGED <<response, heard, wire>>

\* onTimeout(clearing_to)
OnClearingTimeout ==
  /\ Fires(timer, "clearing")
  /\ EndsIf("Confirmed")
  /\ timer' = Done(timer, "clearing")
  /\ UNCHANGED <<response, heard, wire>>

\* terminate(): transaction_id is the method identifier INVITE until an
\* INVITE has come; the entry for OPTIONS is never removed.  The dialog goes
\* on to send `sent'.
Terminate(sent) ==
  /\ status # "Idle"
  /\ timer' = Halted(timer, TimerNames)
  /\ entries' = entries \ (IF status \in {"Waiting", "Trying"} THEN {"INVITE"} ELSE {"transaction"})
  /\ status' = "Terminated"
  /\ listener' = FALSE
  /\ wire' = wire \cup sent
  /\ UNCHANGED <<response, heard>>

ReceiveStep == ReceiveInvite \/ ReceiveInviteAgain \/ ReceiveOptions \/ ReceiveAck

OnTimeout(k) ==
  \/ k = "retransmission" /\ OnRetransmissionTimeout
  \/ k = "end" /\ OnEndTimeout
  \/ k = "clearing" /\ OnClearingTimeout

TimerStep(k) == TimerExpires(k) \/ TimerCallLost(k) \/ OnTimeout(k)

TimersRun == \A k \in TimerNames :
  WF_vars(TimerExpires(k)) /\ WF_vars(TimerCallLost(k) \/ OnTimeout(k))
-----------------------------------------------------------------------------
TypeOK ==
  /\ status \in Statuses
  /\ listener \in BOOLEAN
  /\ entries \subseteq Entries
  /\ timer \in [TimerNames -> TimerStates]
  /\ response \in Classes \cup {"none"}
  /\ heard \subseteq {"request", "ack"}
  /\ wire \subseteq InviteMessages
=============================================================================
