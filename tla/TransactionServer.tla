-------------------------- MODULE TransactionServer --------------------------
(***************************************************************************)
(* The server side of a transaction other than INVITE                      *)
(* (TransactionServer.java).  It is created either for a request the       *)
(* transaction user has already received, or to wait for the next request  *)
(* of its method.  `wire' is as in TransactionClient.                      *)
(***************************************************************************)
EXTENDS SipTransaction, SipTimer, Naturals

CONSTANT Method

VARIABLES
  status,               \* Transaction.status
  listener,             \* transaction_listener # null
  registered,           \* the SipProvider dispatches the requests to this object
  timer,                \* clearing_to
  response,             \* class of the last response given to respondWith(), or "none"
  requests,             \* requests the transaction user has been handed
  wire

vars == <<status, listener, registered, timer, response, requests, wire>>

TimerNames == {"clearing"}

Init ==
  /\ status = "Idle"
  /\ listener = TRUE
  /\ registered = FALSE
  /\ timer = AllIdle(TimerNames)
  /\ response = "none"
  /\ requests = 0
  /\ wire = {}

\* listen()
Listen ==
  /\ status = "Idle"
  /\ status' = "Waiting"
  /\ registered' = TRUE
  /\ UNCHANGED <<listener, timer, response, requests, wire>>

\* The constructor for a request that the transaction user has received.
CreateFor ==
  /\ status = "Idle"
  /\ Request(Method) \in wire
  /\ status' = "Trying"
  /\ registered' = TRUE
  /\ requests' = requests + 1
  /\ UNCHANGED <<listener, timer, response, wire>>

\* onReceivedMessage() of the first request; the entry for the method is
\* replaced by the entry for the transaction.
ReceiveFirst ==
  /\ registered
  /\ Request(Method) \in wire
  /\ status = "Waiting"
  /\ status' = "Trying"
  /\ requests' = requests + IF listener THEN 1 ELSE 0
  /\ UNCHANGED <<listener, registered, timer, response, wire>>

\* MUTANT: a retransmission is handed to the transaction user again.
ReceiveAgainAsNew ==
  /\ registered
  /\ Request(Method) \in wire
  /\ status \in {"Proceeding", "Completed"}
  /\ wire' = wire \cup {Response(Method, response)}
  /\ requests' = requests + IF listener THEN 1 ELSE 0
  /\ UNCHANGED <<status, listener, registered, timer, response>>

\* MUTANT: a response is sent again before there is one.
ReceiveAgainUnanswered ==
  /\ registered
  /\ Request(Method) \in wire
  /\ status \in {"Trying", "Proceeding", "Completed"}
  /\ wire' = wire \cup {Response(Method, response)}
  /\ UNCHANGED <<status, listener, registered, timer, response, requests>>

\* onReceivedMessage() of a retransmission: the last response is sent again.
ReceiveAgain ==
  /\ registered
  /\ Request(Method) \in wire
  /\ status \in {"Proceeding", "Completed"}
  /\ wire' = wire \cup {Response(Method, response)}
  /\ UNCHANGED <<status, listener, registered, timer, response, requests>>

\* respondWith()
RespondWith(c) ==
  /\ response' = c
  /\ IF status \in {"Trying", "Proceeding"}
     THEN /\ wire' = wire \cup {Response(Method, c)}
          /\ status' = IF c \in FinalClasses THEN "Completed" ELSE "Proceeding"
          /\ timer' = IF c \in FinalClasses THEN Started(timer, {"clearing"}) ELSE timer
     ELSE UNCHANGED <<wire, status, timer>>
  /\ UNCHANGED <<listener, registered, requests>>

\* The transaction user answers a request it has got, finally only once.
UserResponds(c) ==
  /\ requests > 0
  /\ response \notin FinalClasses
  /\ RespondWith(c)

TimerExpires ==
  /\ timer["clearing"] = "running"
  /\ timer' = Expired(timer, "clearing")
  /\ UNCHANGED <<status, listener, registered, response, requests, wire>>

TimerCallLost ==
  /\ timer["clearing"] = "late"
  /\ timer' = Done(timer, "clearing")
  /\ UNCHANGED <<status, listener, registered, response, requests, wire>>

\* onTimeout(clearing_to)
OnClearingTimeout ==
  /\ Fires(timer, "clearing")
  /\ timer' = Done(timer, "clearing")
  /\ registered' = FALSE
  /\ status' = "Terminated"
  /\ listener' = FALSE
  /\ UNCHANGED <<response, requests, wire>>

\* terminate()
Terminate ==
  /\ status \notin {"Idle", "Terminated"}
  /\ timer' = Halted(timer, TimerNames)
  /\ registered' = FALSE
  /\ status' = "Terminated"
  /\ listener' = FALSE
  /\ UNCHANGED <<response, requests, wire>>

ReceiveStep == ReceiveFirst \/ ReceiveAgain

Next ==
  \/ Listen \/ CreateFor
  \/ ReceiveStep
  \/ \E c \in Classes : UserResponds(c)
  \/ TimerExpires \/ TimerCallLost \/ OnClearingTimeout
  \/ Terminate

TimersRun == WF_vars(TimerExpires) /\ WF_vars(TimerCallLost \/ OnClearingTimeout)
-----------------------------------------------------------------------------
TypeOK ==
  /\ status \in Statuses
  /\ listener \in BOOLEAN
  /\ registered \in BOOLEAN
  /\ timer \in [TimerNames -> TimerStates]
  /\ response \in Classes \cup {"none"}
  /\ requests \in Nat
  /\ wire \subseteq Messages(Method)
=============================================================================
