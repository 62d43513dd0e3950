---------------------------- MODULE InviteDialog ----------------------------
(***************************************************************************)
(* Two phones, each with its dialog (InviteDialog.java, Dialog.java and    *)
(* the authentication of ExtendedInviteDialog.java), setting up, changing  *)
(* and ending one call over an unreliable network, through a proxy that    *)
(* may answer a request itself.                                            *)
(*                                                                         *)
(* The transactions below a dialog appear as NonInviteTransaction and      *)
(* InviteTransaction show them to their users: a client transaction is     *)
(* pending until it reports one outcome, its answer or a timeout; a server *)
(* transaction is open until its dialog has answered and, for a failure,   *)
(* until the ACK or its own timeout.  Retransmissions are the messages     *)
(* that stay in `wire', where any of them may be received at any time, or  *)
(* never.                                                                  *)
(***************************************************************************)
EXTENDS SipTransaction, Naturals

CONSTANTS
  Caller, Callee,       \* the two phones
  Plans,                \* what the users and the proxy may be like, see below
  MaxAttempts,          \* ExtendedInviteDialog.MAX_ATTEMPTS
  MaxCSeq               \* bound on the sequence numbers a phone uses

Phones == {Caller, Callee}
CSeqs == 0 .. MaxCSeq

\* 401 and 407: the request is to be made again, with credentials.
Challenge == "401"

\* Of a plan: the phones whose users change the call, e.g. hold it, and the
\* classes of the responses the proxy may give itself, and how far its phones
\* may count.
\* Both phones changing the call, with challenges to that, is left out: a
\* dialog can then be made to answer an INVITE of its own.
ASSUME DialogAssumption ==
  /\ Caller # Callee
  /\ Plans \subseteq [reInviters : SUBSET Phones,
                       proxyAnswers : SUBSET {Challenge, Failure},
                       maxCSeq : CSeqs]
  /\ \A l \in Plans :
       l.reInviters # Phones \/ Challenge \notin l.proxyAnswers
  /\ MaxAttempts \in Nat
  /\ MaxCSeq \in Nat \ {0}

Peer(p) == CHOOSE q \in Phones : q # p

VARIABLES
  status,        \* InviteDialog.status, without the prefix "D_"
  localCSeq,     \* DialogInfo.local_cseq
  remoteCSeq,    \* DialogInfo.remote_cseq
  tagged,        \* both tags are known, so that dialog_id is final
  attempts,      \* ExtendedInviteDialog.attempts
  inviteReq,     \* CSeq number of invite_req, 0 once an own BYE has got there
  inviteTc,      \* own INVITEs whose InviteTransactionClient has yet to report
  retryTc,       \* own INVITEs made again, in a plain TransactionClient
  byeTc,         \* own BYEs whose TransactionClient has yet to report
  inviteTs,      \* state of the server transaction of each INVITE received
  ackTs,         \* INVITEs whose AckTransactionServer is running
  currentAck,    \* the INVITE of the AckTransactionServer in ack_ts
  wire,          \* the messages sent
  plan           \* which plan it is, from the start

clientVars == <<inviteTc, retryTc, byeTc>>
serverVars == <<inviteTs, ackTs, currentAck>>
cseqVars   == <<localCSeq, remoteCSeq, tagged, inviteReq>>
vars == <<status, cseqVars, attempts, clientVars, serverVars, wire, plan>>

DialogStates == {"INIT", "WAITING", "INVITING", "INVITED", "REFUSED", "ACCEPTED",
                 "CALL", "BYEING", "CLOSE",
                 "ReINVITING", "ReINVITED", "ReREFUSED", "ReACCEPTED"}

Invited  == {"INVITED", "ReINVITED"}
Inviting == {"INVITING", "ReINVITING"}
Accepted == {"ACCEPTED", "ReACCEPTED"}
Refused  == {"REFUSED", "ReREFUSED"}

\* A message; `tags' says that it carries the tags of both phones.
TaggedMsg(to, m, n, tags) == [to |-> to, msg |-> m, cseq |-> n, tags |-> tags]

Msg(to, m, n) == TaggedMsg(to, m, n, TRUE)

Send(ms) == wire' = wire \cup ms

Sent(p, m, n) == Msg(p, m, n) \in wire

\* The proxy has answered request m of p's peer in place of p.
Stopped(p, m, n) ==
  \E c \in {Challenge, Failure} : Sent(Peer(p), Response(m, c), n)

\* changeStatus(): the table of the SipProvider follows, since a dialog is
\* entered there with its first dialog_id and leaves it with D_CLOSE.
Becomes(p, st) == status' = [status EXCEPT ![p] = st]

\* The SipProvider finds the dialog by the identifier of a message that
\* carries both tags.
Dispatched(p) == tagged[p] /\ status[p] # "CLOSE"

Init ==
  /\ status     = [p \in Phones |-> "INIT"]
  /\ localCSeq  = [p \in Phones |-> 0]
  /\ remoteCSeq = [p \in Phones |-> 0]
  /\ tagged     = [p \in Phones |-> FALSE]
  /\ attempts   = [p \in Phones |-> 0]
  /\ inviteReq  = [p \in Phones |-> 0]
  /\ inviteTc   = [p \in Phones |-> {}]
  /\ retryTc    = [p \in Phones |-> {}]
  /\ byeTc      = [p \in Phones |-> {}]
  /\ inviteTs   = [p \in Phones |-> [n \in CSeqs |-> "none"]]
  /\ ackTs      = [p \in Phones |-> {}]
  /\ currentAck = [p \in Phones |-> 0]
  /\ wire       = {}
  /\ plan \in Plans

-----------------------------------------------------------------------------
(* What the user of the dialog does.                                       *)

\* listen()
Listen ==
  /\ status[Callee] = "INIT"
  /\ Becomes(Callee, "WAITING")
  /\ UNCHANGED <<cseqVars, attempts, clientVars, serverVars, wire>>

\* MUTANT of SendsInvite: the sequence number is not kept.
SendsInviteUncounted(p) ==
  LET n == localCSeq[p] + 1 IN
  /\ n <= plan.maxCSeq
  /\ inviteReq' = [inviteReq EXCEPT ![p] = n]
  /\ inviteTc' = [inviteTc EXCEPT ![p] = @ \cup {n}]
  /\ Send({TaggedMsg(Peer(p), Invite, n, tagged[p])})
  /\ UNCHANGED <<localCSeq, remoteCSeq, tagged, attempts, retryTc, byeTc, serverVars>>

\* An INVITE of p with the next sequence number goes out.
SendsInvite(p) ==
  LET n == localCSeq[p] + 1 IN
  /\ n <= plan.maxCSeq
  /\ localCSeq' = [localCSeq EXCEPT ![p] = n]
  /\ inviteReq' = [inviteReq EXCEPT ![p] = n]
  /\ inviteTc' = [inviteTc EXCEPT ![p] = @ \cup {n}]
  /\ Send({TaggedMsg(Peer(p), Invite, n, tagged[p])})
  /\ UNCHANGED <<remoteCSeq, tagged, attempts, retryTc, byeTc, serverVars>>

\* invite()
InvitePeer ==
  /\ status[Caller] = "INIT"
  /\ Becomes(Caller, "INVITING")
  /\ SendsInvite(Caller)

\* reInvite()
ReInvite(p) ==
  /\ p \in plan.reInviters
  /\ status[p] = "CALL"
  /\ Becomes(p, "ReINVITING")
  /\ SendsInvite(p)

\* MUTANT of Accept: the success goes out without an AckTransactionServer.
AcceptUnattended(p) ==
  LET n == inviteReq[p] IN
  /\ status[p] \in Invited /\ n # 0
  /\ Becomes(p, IF status[p] = "INVITED" THEN "ACCEPTED" ELSE "ReACCEPTED")
  /\ inviteTs' = [inviteTs EXCEPT ![p][n] = "ended"]
  /\ tagged' = [tagged EXCEPT ![p] = TRUE]
  /\ remoteCSeq' = [remoteCSeq EXCEPT ![p] = n]
  /\ Send({Msg(Peer(p), Response("INVITE", Success), n)})
  /\ UNCHANGED <<localCSeq, inviteReq, attempts, clientVars, ackTs, currentAck>>

\* respond() with a success, as accept() does: the INVITE transaction is
\* terminated and an AckTransactionServer sends the response.
Accept(p) ==
  LET n == inviteReq[p] IN
  /\ status[p] \in Invited /\ n # 0
  /\ Becomes(p, IF status[p] = "INVITED" THEN "ACCEPTED" ELSE "ReACCEPTED")
  /\ inviteTs' = [inviteTs EXCEPT ![p][n] = "ended"]
  /\ ackTs' = [ackTs EXCEPT ![p] = @ \cup {n}]
  /\ currentAck' = [currentAck EXCEPT ![p] = n]
  /\ tagged' = [tagged EXCEPT ![p] = TRUE]
  /\ remoteCSeq' = [remoteCSeq EXCEPT ![p] = n]
  /\ Send({Msg(Peer(p), Response("INVITE", Success), n)})
  /\ UNCHANGED <<localCSeq, inviteReq, attempts, clientVars>>

\* MUTANT of Fails: the status is not looked at, nor is what was answered.
FailsWhateverWasAnswered(p) ==
  LET n == inviteReq[p] IN
  /\ n # 0 /\ inviteTs[p][n] # "none"
  /\ Becomes(p, IF status[p] = "ReINVITED" THEN "ReREFUSED" ELSE "REFUSED")
  /\ inviteTs' = [inviteTs EXCEPT ![p][n] = "completed"]
  /\ remoteCSeq' = [remoteCSeq EXCEPT ![p] = n]
  /\ Send({Msg(Peer(p), Response("INVITE", Failure), n)})
  /\ UNCHANGED <<localCSeq, tagged, inviteReq, attempts, clientVars, ackTs, currentAck>>

\* What respond() does with a failure.
Fails(p) ==
  LET n == inviteReq[p] IN
  /\ status[p] \in Invited /\ n # 0
  /\ Becomes(p, IF status[p] = "INVITED" THEN "REFUSED" ELSE "ReREFUSED")
  /\ inviteTs' = [inviteTs EXCEPT ![p][n] = IF @ = "open" THEN "completed" ELSE @]
  /\ remoteCSeq' = [remoteCSeq EXCEPT ![p] = n]
  /\ Send(IF inviteTs[p][n] = "open" THEN {Msg(Peer(p), Response("INVITE", Failure), n)} ELSE {})
  /\ UNCHANGED <<localCSeq, tagged, inviteReq, attempts, clientVars, ackTs, currentAck>>

\* refuse() and busy()
Refuse(p) == Fails(p)

\* The CANCEL is made from invite_req, and carries the tags that had.
CancelMsg(p) ==
  TaggedMsg(Peer(p), Request("CANCEL"), inviteReq[p], status[p] = "ReINVITING")

\* cancel() of an INVITE: the dialog keeps its status.
Cancel(p) ==
  /\ status[p] \in Inviting
  /\ Send({CancelMsg(p)})
  /\ UNCHANGED <<status, cseqVars, attempts, clientVars, serverVars>>

\* bye()
Bye(p) ==
  LET n == localCSeq[p] + 1 IN
  /\ status[p] = "CALL"
  /\ n <= plan.maxCSeq
  /\ Becomes(p, "BYEING")
  /\ localCSeq' = [localCSeq EXCEPT ![p] = n]
  /\ byeTc' = [byeTc EXCEPT ![p] = @ \cup {n}]
  /\ Send({Msg(Peer(p), Request("BYE"), n)})
  /\ UNCHANGED <<remoteCSeq, tagged, inviteReq, attempts, inviteTc, retryTc, serverVars>>

-----------------------------------------------------------------------------
(* What the transactions report.                                           *)

\* The client transaction of INVITE n makes its report.
Pending(p) == inviteTc[p] \cup retryTc[p]

Reports(p, n) ==
  /\ n \in Pending(p)
  /\ inviteTc' = [inviteTc EXCEPT ![p] = @ \ {n}]
  /\ retryTc' = [retryTc EXCEPT ![p] = @ \ {n}]

\* onTransSuccessResponse() of an INVITE.
InviteSucceeds(p, n) ==
  /\ Sent(p, Response("INVITE", Success), n)
  /\ Reports(p, n)
  /\ IF status[p] \in Inviting
     THEN /\ Becomes(p, "CALL")
          /\ tagged' = [tagged EXCEPT ![p] = TRUE]
          /\ localCSeq' = [localCSeq EXCEPT ![p] = n]
          /\ Send({Msg(Peer(p), SuccessAck, n)})
     ELSE UNCHANGED <<status, tagged, localCSeq, wire>>
  /\ attempts' = [attempts EXCEPT ![p] = 0]
  /\ UNCHANGED <<remoteCSeq, inviteReq, byeTc, serverVars>>

\* A failure response to request m of p is passed on to the InviteDialog: it
\* is no challenge, or one too many.
GivesUp(p, m, n) ==
  \/ Sent(p, Response(m, Failure), n)
  \/ Sent(p, Response(m, Challenge), n) /\ attempts[p] >= MaxAttempts

\* The ACK that an InviteTransactionClient sends for any failure; the plain
\* TransactionClient of an INVITE made again sends none.
AcksFailure(p, n) == IF n \in inviteTc[p] THEN {Msg(Peer(p), FailureAck, n)} ELSE {}

\* MUTANT of InviteFails: a first INVITE is taken for a re-INVITE.
InviteFailsIntoCall(p, n) ==
  /\ GivesUp(p, "INVITE", n)
  /\ Reports(p, n)
  /\ Send(AcksFailure(p, n))
  /\ IF status[p] \in Inviting THEN Becomes(p, "CALL") ELSE UNCHANGED status
  /\ UNCHANGED <<cseqVars, attempts, byeTc, serverVars>>

\* MUTANT of InviteFails: the dialog stays as it is.
InviteFailsUnnoticed(p, n) ==
  /\ GivesUp(p, "INVITE", n)
  /\ Reports(p, n)
  /\ Send(AcksFailure(p, n))
  /\ UNCHANGED <<status, cseqVars, attempts, byeTc, serverVars>>

\* onTransFailureResponse() of an INVITE.
InviteFails(p, n) ==
  /\ GivesUp(p, "INVITE", n)
  /\ Reports(p, n)
  /\ Send(AcksFailure(p, n))
  /\ CASE status[p] = "INVITING"   -> Becomes(p, "CLOSE")
       [] status[p] = "ReINVITING" -> Becomes(p, "CALL")
       [] OTHER                    -> UNCHANGED status
  /\ UNCHANGED <<cseqVars, attempts, byeTc, serverVars>>

\* MUTANT of Retries: without end.
RetriesForever(p, n) ==
  /\ n + 1 <= plan.maxCSeq
  /\ attempts' = [attempts EXCEPT ![p] = @ + 1]

\* A challenged request is made again with the next sequence number, which
\* the dialog does not take note of; nor does it look at its own status.
\* The request becomes invite_req whatever its method.
Retries(p, n) ==
  /\ attempts[p] < MaxAttempts
  /\ n + 1 <= plan.maxCSeq
  /\ attempts' = [attempts EXCEPT ![p] = @ + 1]

InviteChallenged(p, n) ==
  /\ n \in Pending(p)
  /\ Sent(p, Response("INVITE", Challenge), n)
  /\ Retries(p, n)
  /\ inviteReq' = [inviteReq EXCEPT ![p] = n + 1]
  /\ inviteTc' = [inviteTc EXCEPT ![p] = @ \ {n}]
  /\ retryTc' = [retryTc EXCEPT ![p] = (@ \ {n}) \cup {n + 1}]
  /\ \E tags \in BOOLEAN :
       /\ TaggedMsg(Peer(p), Invite, n, tags) \in wire
       /\ Send(AcksFailure(p, n) \cup {TaggedMsg(Peer(p), Invite, n + 1, tags)})
  /\ UNCHANGED <<status, localCSeq, remoteCSeq, tagged, byeTc, serverVars>>

ByeChallenged(p, n) ==
  /\ n \in byeTc[p]
  /\ Sent(p, Response("BYE", Challenge), n)
  /\ Retries(p, n)
  /\ inviteReq' = [inviteReq EXCEPT ![p] = 0]
  /\ byeTc' = [byeTc EXCEPT ![p] = (@ \ {n}) \cup {n + 1}]
  /\ Send({Msg(Peer(p), Request("BYE"), n + 1)})
  /\ UNCHANGED <<status, localCSeq, remoteCSeq, tagged, inviteTc, retryTc, serverVars>>

\* onTransFailureResponse() of a BYE: the dialog goes back to the call.
ByeFails(p, n) ==
  /\ n \in byeTc[p]
  /\ GivesUp(p, "BYE", n)
  /\ byeTc' = [byeTc EXCEPT ![p] = @ \ {n}]
  /\ IF status[p] = "BYEING" THEN Becomes(p, "CALL") ELSE UNCHANGED status
  /\ UNCHANGED <<cseqVars, attempts, inviteTc, retryTc, serverVars, wire>>

\* onTransTimeout() of an INVITE: a CANCEL goes out and the dialog closes.
InviteTimesOut(p, n) ==
  /\ Reports(p, n)
  /\ IF status[p] \in Inviting
     THEN /\ Send({CancelMsg(p)})
          /\ Becomes(p, "CLOSE")
     ELSE UNCHANGED <<status, wire>>
  /\ UNCHANGED <<cseqVars, attempts, byeTc, serverVars>>

\* What a BYE that is over does to the dialog, answered or not.
ByeEnds(p, n) ==
  /\ n \in byeTc[p]
  /\ byeTc' = [byeTc EXCEPT ![p] = @ \ {n}]
  /\ IF status[p] = "BYEING" THEN Becomes(p, "CLOSE") ELSE UNCHANGED status
  /\ UNCHANGED <<cseqVars, inviteTc, retryTc, serverVars, wire>>

\* onTransSuccessResponse() of a BYE.
ByeSucceeds(p, n) ==
  /\ Sent(p, Response("BYE", Success), n)
  /\ ByeEnds(p, n)
  /\ attempts' = [attempts EXCEPT ![p] = 0]

\* onTransTimeout() of a BYE.
ByeTimesOut(p, n) == ByeEnds(p, n) /\ UNCHANGED attempts

\* onTransRequest(): the transaction that listens has got the INVITE.
ReceiveFirstInvite(n) ==
  /\ TaggedMsg(Callee, Invite, n, FALSE) \in wire /\ ~Stopped(Callee, "INVITE", n)
  /\ status[Callee] = "WAITING"
  /\ Becomes(Callee, "INVITED")
  /\ inviteReq' = [inviteReq EXCEPT ![Callee] = n]
  /\ inviteTs' = [inviteTs EXCEPT ![Callee][n] = "open"]
  /\ remoteCSeq' = [remoteCSeq EXCEPT ![Callee] = n]
  /\ UNCHANGED <<localCSeq, tagged, attempts, clientVars, ackTs, currentAck, wire>>

\* onTransFailureAck(), whichever INVITE the ACK is for: that of a transaction
\* that is there.
ReceiveFailureAck(p, n) ==
  /\ inviteTs[p][n] = "completed"
  /\ Sent(p, FailureAck, n)
  /\ inviteTs' = [inviteTs EXCEPT ![p][n] = "ended"]
  /\ CASE status[p] = "REFUSED"   -> Becomes(p, "CLOSE")
       [] status[p] = "ReREFUSED" -> Becomes(p, "CALL")
       [] OTHER                   -> UNCHANGED status
  /\ UNCHANGED <<cseqVars, attempts, clientVars, ackTs, currentAck, wire>>

\* The end timeout of the server transaction, of which no one is told.
FailureAckTimesOut(p, n) ==
  /\ inviteTs[p][n] = "completed"
  /\ inviteTs' = [inviteTs EXCEPT ![p][n] = "ended"]
  /\ UNCHANGED <<status, cseqVars, attempts, clientVars, ackTs, currentAck, wire>>

\* onTransAckTimeout(), whichever INVITE the AckTransactionServer is for.
AckTimesOut(p, n) ==
  /\ n \in ackTs[p]
  /\ ackTs' = [ackTs EXCEPT ![p] = @ \ {n}]
  /\ IF status[p] \in Accepted \cup Refused THEN Becomes(p, "CLOSE") ELSE UNCHANGED status
  /\ UNCHANGED <<cseqVars, attempts, clientVars, inviteTs, currentAck, wire>>

-----------------------------------------------------------------------------
(* What comes to the dialog itself: onReceivedMessage().                   *)

\* An INVITE within the dialog.  verifyStatus() complains of a status other
\* than D_INIT and D_CALL, and the INVITE is taken all the same.
ReceiveReInvite(p, n) ==
  /\ Dispatched(p) /\ Sent(p, Invite, n) /\ ~Stopped(p, "INVITE", n)
  /\ inviteTs[p][n] = "none"
  /\ n > remoteCSeq[p]
  /\ Becomes(p, "ReINVITED")
  /\ inviteReq' = [inviteReq EXCEPT ![p] = n]
  /\ inviteTs' = [inviteTs EXCEPT ![p][n] = "open"]
  /\ remoteCSeq' = [remoteCSeq EXCEPT ![p] = n]
  /\ UNCHANGED <<localCSeq, tagged, attempts, clientVars, ackTs, currentAck, wire>>

\* The ACK of a success has no transaction, nor has the late or repeated ACK of
\* a failure.  That of the proxy's own answer does not get here.
AckWithoutTransaction(p, n) ==
  \/ Sent(p, SuccessAck, n)
  \/ Sent(p, FailureAck, n) /\ inviteTs[p][n] = "ended"

\* Any such ACK is taken for that of the success, whichever INVITE it is for.
ReceiveAck(p, n) ==
  /\ Dispatched(p) /\ AckWithoutTransaction(p, n)
  /\ status[p] \in Accepted
  /\ Becomes(p, "CALL")
  /\ ackTs' = [ackTs EXCEPT ![p] = @ \ {currentAck[p]}]
  /\ UNCHANGED <<cseqVars, attempts, clientVars, inviteTs, currentAck, wire>>

\* MUTANT of ReceiveBye: answered, and the call goes on.
ReceiveByeStays(p, n) ==
  /\ Dispatched(p) /\ Sent(p, Request("BYE"), n) /\ ~Stopped(p, "BYE", n)
  /\ n > remoteCSeq[p]
  /\ status[p] \in {"CALL", "BYEING"}
  /\ Send({Msg(Peer(p), Response("BYE", Success), n)})
  /\ UNCHANGED <<status, cseqVars, attempts, clientVars, serverVars>>

\* A BYE: answered at once, the dialog passing through D_BYED to D_CLOSE.
ReceiveBye(p, n) ==
  /\ Dispatched(p) /\ Sent(p, Request("BYE"), n) /\ ~Stopped(p, "BYE", n)
  /\ n > remoteCSeq[p]
  /\ status[p] \in {"CALL", "BYEING"}
  /\ Becomes(p, "CLOSE")
  /\ Send({Msg(Peer(p), Response("BYE", Success), n)})
  /\ UNCHANGED <<cseqVars, attempts, clientVars, serverVars>>

\* A CANCEL: answered, like the INVITE it is taken to be for; its sequence
\* number is not looked at.  The CANCEL of a first INVITE carries no tag of
\* the callee, and finds the dialog only while dialog_id has none either.
ReceiveCancel(p, n) ==
  /\ TaggedMsg(p, Request("CANCEL"), n, tagged[p]) \in wire
  /\ Fails(p)

-----------------------------------------------------------------------------
(* The proxy between the phones.                                           *)

\* A request that the peer has not got is answered in its place.
ProxyAnswersRequest(p, m, n) ==
  /\ \E tags \in BOOLEAN : TaggedMsg(p, Request(m), n, tags) \in wire
  /\ ~Stopped(p, m, n)
  /\ CASE m = "INVITE" -> inviteTs[p][n] = "none"
       [] m = "BYE"    -> ~Sent(Peer(p), Response(m, Success), n)
  /\ \E c \in plan.proxyAnswers : Send({Msg(Peer(p), Response(m, c), n)})
  /\ UNCHANGED <<status, cseqVars, attempts, clientVars, serverVars>>

-----------------------------------------------------------------------------
UserStep ==
  \/ Listen
  \/ InvitePeer
  \/ \E p \in Phones : ReInvite(p) \/ Accept(p) \/ Refuse(p) \/ Cancel(p) \/ Bye(p)

ClientStep(p, n) ==
  \/ InviteSucceeds(p, n) \/ InviteFails(p, n) \/ InviteChallenged(p, n) \/ InviteTimesOut(p, n)
  \/ ByeSucceeds(p, n) \/ ByeFails(p, n) \/ ByeChallenged(p, n) \/ ByeTimesOut(p, n)

ServerStep(p, n) ==
  \/ ReceiveFailureAck(p, n) \/ FailureAckTimesOut(p, n) \/ AckTimesOut(p, n)
  \/ ReceiveReInvite(p, n) \/ ReceiveAck(p, n)
  \/ ReceiveBye(p, n) \/ ReceiveCancel(p, n)

Step ==
  \/ UserStep
  \/ \E n \in CSeqs : ReceiveFirstInvite(n)
  \/ \E p \in Phones, n \in CSeqs : ClientStep(p, n) \/ ServerStep(p, n)
  \/ \E p \in Phones, m \in {"INVITE", "BYE"}, n \in CSeqs : ProxyAnswersRequest(p, m, n)

Next == Step /\ UNCHANGED plan

\* The timers of the transactions run; the network and the users may not.
Fairness == \A p \in Phones, n \in CSeqs :
  /\ WF_vars(ByeTimesOut(p, n) /\ UNCHANGED plan)
  /\ WF_vars(AckTimesOut(p, n) /\ UNCHANGED plan)
  /\ WF_vars(FailureAckTimesOut(p, n) /\ UNCHANGED plan)

Spec == Init /\ [][Next]_vars /\ Fairness

-----------------------------------------------------------------------------
(* Properties.                                                             *)

TypeOK ==
  /\ status \in [Phones -> DialogStates]
  /\ localCSeq \in [Phones -> CSeqs]
  /\ remoteCSeq \in [Phones -> CSeqs]
  /\ tagged \in [Phones -> BOOLEAN]
  /\ attempts \in [Phones -> 0 .. MaxAttempts]
  /\ inviteReq \in [Phones -> CSeqs]
  /\ inviteTc \in [Phones -> SUBSET CSeqs]
  /\ retryTc \in [Phones -> SUBSET CSeqs]
  /\ byeTc \in [Phones -> SUBSET CSeqs]
  /\ inviteTs \in [Phones -> [CSeqs -> {"none", "open", "completed", "ended"}]]
  /\ ackTs \in [Phones -> SUBSET CSeqs]
  /\ currentAck \in [Phones -> CSeqs]
  /\ wire \subseteq
       [to : Phones, cseq : CSeqs, tags : BOOLEAN,
        msg : InviteMessages \cup Messages("BYE")
              \cup {Request("CANCEL"), Response("INVITE", Challenge), Response("BYE", Challenge)}]

Modifying == {"ReINVITING", "ReINVITED", "ReREFUSED", "ReACCEPTED"}

\* Nobody is alone in a call: the caller in it talks to a callee that has
\* accepted and has not been refused since, the callee to a caller that knows
\* it has been; either may have left meanwhile.
CallHasTwo ==
  /\ status[Caller] = "CALL" =>
       status[Callee] \in {"ACCEPTED", "CALL", "BYEING", "CLOSE"} \cup Modifying
  /\ status[Callee] = "CALL" =>
       status[Caller] \in {"CALL", "BYEING", "CLOSE"} \cup Modifying

\* An INVITE has one answer: no copies of two different answers to the same
\* INVITE are ever under way.
OneAnswerPerInvite ==
  \A p \in Phones, n \in CSeqs : \A c, d \in {Success, Failure, Challenge} :
    Sent(p, Response("INVITE", c), n) /\ Sent(p, Response("INVITE", d), n) => c = d

\* Cancelled or refused, by the callee or on the way, an INVITE that sets up a
\* call leaves neither phone in one.
RefusedIsNoCall ==
  (plan.reInviters = {} /\ \E n \in CSeqs : Sent(Caller, Response("INVITE", Failure), n))
    => /\ status[Caller] \in {"INVITING", "CLOSE"}
       /\ status[Callee] \notin {"ACCEPTED", "CALL", "BYEING"}

\* The next request of a phone in a call has a number its peer will accept.
CSeqsOrdered ==
  \A p \in Phones : status[p] = "CALL" => remoteCSeq[Peer(p)] <= localCSeq[p]

\* A dialog that waits for the other phone has a transaction that will end
\* the wait by a report.
WaitsAreCovered ==
  \A p \in Phones :
    /\ status[p] \in Inviting => inviteReq[p] \in Pending(p)
    /\ status[p] = "BYEING" => byeTc[p] # {}
    /\ status[p] \in Accepted => ackTs[p] # {}

\* A phone that has accepted gets the ACK or closes.
AcceptedSettles ==
  \A p \in Phones : status[p] = "ACCEPTED" ~> status[p] # "ACCEPTED"

\* What the comment on bye() says: the sequence number is incremented, so that
\* a BYE comes after every INVITE of its phone.
ByeIncrementsCSeq ==
  [][\A p \in Phones : status[p] = "CALL" /\ status'[p] = "BYEING" =>
       \A m \in wire : m.to = Peer(p) /\ m.msg = Invite => m.cseq < localCSeq'[p]]_vars

\* The answer to a BYE means that both phones have left a call that nobody has
\* been changing: the late failure of an INVITE in the call takes a dialog that
\* is BYEING back to CALL.
ByeEndsForBoth ==
  \A p \in Phones : \A n \in CSeqs :
    plan.reInviters = {} /\ Sent(p, Response("BYE", Success), n)
      => status[Peer(p)] = "CLOSE" /\ status[p] \in {"BYEING", "CLOSE"}
=============================================================================
