------------------------ MODULE NonInviteTransaction ------------------------
(***************************************************************************)
(* A TransactionClient and a TransactionServer joined by an unreliable     *)
(* network: what a REGISTER, BYE, CANCEL, SUBSCRIBE, NOTIFY or REFER goes  *)
(* through.  The users of both sides may give up with terminate().         *)
(***************************************************************************)
EXTENDS SipTransaction, SipTimer, Sequences, Naturals

CONSTANT Method

VARIABLES
  cStatus, cListener, cRegistered, cTimer, told,
  sStatus, sListener, sRegistered, sTimer, response, requests,
  wire

clientVars == <<cStatus, cListener, cRegistered, cTimer, told>>
serverVars == <<sStatus, sListener, sRegistered, sTimer, response, requests>>
vars == <<clientVars, serverVars, wire>>

Client == INSTANCE TransactionClient WITH
  status <- cStatus, listener <- cListener, registered <- cRegistered, timer <- cTimer

Server == INSTANCE TransactionServer WITH
  status <- sStatus, listener <- sListener, registered <- sRegistered, timer <- sTimer

Init == Client!Init /\ Server!Init

Next ==
  \/ Client!Next /\ UNCHANGED serverVars
  \/ Server!Next /\ UNCHANGED clientVars

Fairness == Client!TimersRun /\ Server!TimersRun

Spec == Init /\ [][Next]_vars /\ Fairness

-----------------------------------------------------------------------------
Outcomes == FinalClasses \cup {"timeout"}

\* The type of every variable.
TypeOK == Client!TypeOK /\ Server!TypeOK

\* The client's user gets at most one outcome, and nothing after it: neither
\* a second outcome from a timer that fired late nor a provisional response.
OutcomeIsLast ==
  \A i \in DOMAIN told : told[i] \in Outcomes => i = Len(told)

\* The two sides agree: the outcome reported is the one answer the server's
\* user gave, whichever copy of whichever response arrived.
OutcomeIsTheAnswer ==
  \A i \in DOMAIN told : told[i] \in FinalClasses => told[i] = response

\* The server's user is handed the request once, however often it is sent.
HandedOnce == requests <= 1

\* The table of the SipProvider holds a transaction exactly while it can
\* still use a message, so ended transactions do not accumulate there.
NoEntryLeaks ==
  /\ cRegistered <=> cStatus \notin {"Idle", "Terminated"}
  /\ sRegistered <=> sStatus \notin {"Idle", "Terminated"}

\* Whoever waits is covered by a timer that will end the wait: a client
\* that has no final response by the transaction timer, one that has it, or
\* a server that has answered, by the clearing timer.
WaitsAreTimed ==
  /\ cStatus \in Client!Live => Pending(cTimer, "transaction")
  /\ cStatus = "Completed" => Pending(cTimer, "clearing")
  /\ sStatus = "Completed" => Pending(sTimer, "clearing")

\* A client transaction does not end in silence: it has told its user an
\* outcome unless the user itself terminated it.
EndsToldOrGivenUp ==
  [][cStatus' = "Terminated" /\ cStatus # "Terminated"
       => (\E i \in DOMAIN told' : told'[i] \in Outcomes) \/ Client!Terminate]_vars

\* The abstract view of both sides.
OutcomeSoFar ==
  IF told # <<>> /\ told[Len(told)] \in Outcomes THEN told[Len(told)] ELSE "none"

Promise == INSTANCE RequestOutcome WITH
  Answers   <- FinalClasses,
  requested <- cStatus # "Idle",
  answer    <- IF response \in FinalClasses THEN response ELSE "none",
  outcome   <- OutcomeSoFar,
  closed    <- cStatus = "Terminated"

ImplementsRequestOutcome == Promise!Spec
=============================================================================
