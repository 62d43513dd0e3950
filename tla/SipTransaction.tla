--------------------------- MODULE SipTransaction ---------------------------
(***************************************************************************)
(* What all SIP transactions share (org/zoolu/sip/transaction/             *)
(* Transaction.java): their states, and the messages they exchange,        *)
(* abstracted to the method and the class of the status code.              *)
(***************************************************************************)

\* The states of Transaction.getStatus(), without the prefix "T_".
Statuses == {"Idle", "Waiting", "Trying", "Proceeding", "Completed",
             "Confirmed", "Terminated"}

\* 100-199, 200-299 and 300-699: the only distinctions the handlers make.
Provisional  == "1xx"
Success      == "2xx"
Failure      == "3xx"
FinalClasses == {Success, Failure}
Classes      == {Provisional} \cup FinalClasses

Request(method)         == [method |-> method, class |-> "request"]
Response(method, class) == [method |-> method, class |-> class]

\* The messages of a transaction of the given method.
Messages(method) == {Request(method)} \cup {Response(method, c) : c \in Classes}

\* The messages around an INVITE.  The ACK of a failure carries the
\* identifier of the transaction it belongs to and the ACK of a success an
\* identifier of its own: the former goes to the transaction, the latter to
\* the dialog.
Invite     == Request("INVITE")
FailureAck == Request("ACK")
SuccessAck == Request("ACK of 2xx")

InviteMessages ==
  Messages("INVITE") \cup Messages("OPTIONS") \cup {FailureAck, SuccessAck}
=============================================================================
