--------------------------- MODULE InviteDialogMC ---------------------------
(***************************************************************************)
(* Instances of InviteDialog for TLC.                                      *)
(***************************************************************************)
EXTENDS InviteDialog

\* A call is set up through a proxy that asks for credentials.
SetupPlan == [reInviters |-> {}, proxyAnswers |-> {Challenge}, maxCSeq |-> 4]

\* The caller changes the call, through a proxy that may refuse a request.
ModifyPlan == [reInviters |-> {Caller}, proxyAnswers |-> {Failure}, maxCSeq |-> 3]

CallPlans == {SetupPlan, ModifyPlan}

\* The caller changes the call and is asked for credentials.
ChallengedPlans == {[reInviters |-> {Caller}, proxyAnswers |-> {Challenge}, maxCSeq |-> 4]}
=============================================================================
