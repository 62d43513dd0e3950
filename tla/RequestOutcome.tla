--------------------------- MODULE RequestOutcome ---------------------------
(***************************************************************************)
(* What the user of a client transaction is promised: after it has asked   *)
(* for the request, at most one outcome is reported, the outcome is the    *)
(* answer the other side has given or a timeout, and nothing follows it.   *)
(***************************************************************************)
CONSTANT Answers        \* the final answers the other side may give

VARIABLES
  requested,            \* the request has been asked for
  answer,               \* the final answer of the other side, or "none"
  outcome,              \* what has been reported, or "none"
  closed                \* the transaction is over and reports nothing more

vars == <<requested, answer, outcome, closed>>

Init ==
  /\ requested = FALSE
  /\ answer = "none"
  /\ outcome = "none"
  /\ closed = FALSE

Ask ==
  /\ ~requested
  /\ requested' = TRUE
  /\ UNCHANGED <<answer, outcome, closed>>

\* The other side makes up its mind, whether or not it is still heard.
Answer(a) ==
  /\ requested /\ answer = "none"
  /\ answer' = a
  /\ UNCHANGED <<requested, outcome, closed>>

\* The answer is reported; the transaction may end with that.
ReportAnswer ==
  /\ ~closed /\ outcome = "none" /\ answer # "none"
  /\ outcome' = answer
  /\ closed' \in BOOLEAN
  /\ UNCHANGED <<requested, answer>>

\* The transaction ends; one that has reported nothing may report a timeout.
Close ==
  /\ requested /\ ~closed
  /\ closed' = TRUE
  /\ outcome' \in {outcome} \cup (IF outcome = "none" THEN {"timeout"} ELSE {})
  /\ UNCHANGED <<requested, answer>>

Next ==
  \/ Ask
  \/ \E a \in Answers : Answer(a)
  \/ ReportAnswer
  \/ Close

SafeSpec == Init /\ [][Next]_vars

\* A transaction that was started comes to its end.
Spec == SafeSpec /\ WF_vars(Close)
=============================================================================
