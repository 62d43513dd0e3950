-------------------------- MODULE InviteDialogProofs --------------------------
(***************************************************************************)
(* Proofs about InviteDialog, for every plan the assumption admits, every  *)
(* limit on repeated requests, and any bound on the sequence numbers.      *)
(*                                                                         *)
(* SetupInv follows the two phones from the first INVITE into the call;    *)
(* MessagesInv and RoleInv say which of them may challenge and change the  *)
(* call, and which transactions each can have then; AnswerInv and          *)
(* ServingInv say what an INVITE has been answered by a server transaction *)
(* in a given state, or by the proxy.  InvitesInv and ByesInv are about the *)
(* calls nobody changes: all INVITEs but one are challenged, and a BYE that *)
(* is over has been answered in place of the peer, or has closed the       *)
(* dialog.  RemoteInv and OrderInv relate the numbers a phone has sent to  *)
(* the number its peer has taken.                                          *)
(***************************************************************************)
EXTENDS InviteDialog, TLAPS

\* What has been sent: INVITEs, with and without both tags, and their answers;
\* ACKs of successes; BYEs and their answers.
AskedAs(p, n, tags) == TaggedMsg(p, Invite, n, tags) \in wire
Asked(p, n) == \E tags \in BOOLEAN : AskedAs(p, n, tags)
Answered(p, n, c) == Sent(p, Response("INVITE", c), n)
Acked(p, n) == Sent(p, SuccessAck, n)
ByeSent(p, n) == Sent(p, Request("BYE"), n)
ByeAnswered(p, n, c) == Sent(p, Response("BYE", c), n)

AnswerClasses == {Success, Failure, Challenge}

InCall == {"CALL", "BYEING"} \cup Modifying

\* The callee has accepted; the caller has shown that it knows.
Succeeded == \E n \in CSeqs : Answered(Caller, n, Success)
Confirmed == \E n \in CSeqs : Acked(Callee, n) \/ AskedAs(Callee, n, TRUE)

\* A phone is in the call, tagged or not, after the success of the callee; the
\* callee is in it when the caller has shown that it is.
SetupInv ==
  /\ status[Caller] \in {"INIT", "INVITING", "CLOSE"} \cup InCall
  /\ status[Callee] # "INVITING"
  /\ tagged[Caller] => status[Caller] \in InCall \cup {"CLOSE"}
  /\ tagged[Callee] => status[Callee] \in {"ACCEPTED", "CLOSE"} \cup InCall
  /\ status[Caller] \in InCall \/ tagged[Caller] => Succeeded
  /\ status[Callee] \in {"ACCEPTED"} \cup InCall => Succeeded
  /\ Succeeded => status[Callee] \in {"ACCEPTED", "CLOSE"} \cup InCall
  /\ Confirmed \/ status[Callee] \in InCall => status[Caller] \in InCall \cup {"CLOSE"}

\* Challenges come from a proxy that challenges, and INVITEs with both tags
\* from a phone that changes the call.
MessagesInv == \A p \in Phones, n \in CSeqs :
  /\ Answered(p, n, Challenge) \/ ByeAnswered(p, n, Challenge) => Challenge \in plan.proxyAnswers
  /\ AskedAs(p, n, TRUE) => Peer(p) \in plan.reInviters

\* Only a phone that changes the call has an own INVITE pending outside of
\* INVITING, or more than one; only a phone whose call is changed leaves
\* BYEING, other than for CLOSE, before its BYE is over.
RoleInv ==
  /\ \A p \in Phones :
     /\ status[p] = "ReINVITING" => p \in plan.reInviters
     /\ status[p] = "ReINVITED" => Peer(p) \in plan.reInviters
     /\ p \notin plan.reInviters =>
          /\ Pending(p) # {} => status[p] = "INVITING"
          /\ \A m, n \in Pending(p) : m = n
     /\ status[p] \in {"INIT", "INVITING"} => byeTc[p] = {}
     /\ Peer(p) \notin plan.reInviters =>
          /\ byeTc[p] # {} => status[p] \in {"BYEING", "CLOSE"}
          /\ \A m, n \in byeTc[p] : m = n
  /\ status[Callee] \in {"INIT", "WAITING", "INVITED"} => Pending(Callee) = {}

Unanswered(p, n) == \A c \in AnswerClasses : ~Answered(Peer(p), n, c)

\* What a server transaction has answered, or the proxy in its place.
AnswerInv ==
  \A p \in Phones, n \in CSeqs :
    /\ inviteTs[p][n] = "none" => ~Answered(Peer(p), n, Success)
    /\ inviteTs[p][n] = "open" => Unanswered(p, n)
    /\ (inviteTs[p][n] = "none" /\ Unanswered(p, n)) \/ Asked(p, n)

\* The INVITE that a phone may answer has not been answered.
ServingInv ==
  /\ \A p \in Phones :
       status[p] \in Invited /\ inviteReq[p] # 0 => inviteTs[p][inviteReq[p]] = "open"
  /\ status[Callee] \in {"INIT", "WAITING"} => \A n \in CSeqs : inviteTs[Callee][n] = "none"

\* The ACK of a failure follows it; and while the callee has not been in the
\* call, an INVITE it is done with is one it has accepted.
FailureAckInv == \A p \in Phones, n \in CSeqs :
  Sent(p, FailureAck, n) => Answered(Peer(p), n, Failure) \/ Answered(Peer(p), n, Challenge)

FirstInv ==
  status[Callee] \in {"INVITED", "ACCEPTED"} => \A n \in CSeqs :
    \/ inviteTs[Callee][n] \in {"none", "open"}
    \/ inviteTs[Callee][n] = "ended" /\ Answered(Caller, n, Success)

\* Of the INVITEs that set up a call that nobody changes all but one have been
\* challenged, and all but the pending one if there is one.
InvitesInv ==
  plan.reInviters = {} =>
    /\ status[Caller] = "INIT" => \A n \in CSeqs : ~Asked(Callee, n)
    /\ \A n \in Pending(Caller), m \in CSeqs :
         Asked(Callee, m) /\ m # n => Answered(Caller, m, Challenge)
    /\ \A m, n \in CSeqs : Asked(Callee, m) /\ Asked(Callee, n) /\ m # n =>
         Answered(Caller, m, Challenge) \/ Answered(Caller, n, Challenge)

\* A BYE that is over has closed its phone, if it was not answered in place of
\* the peer; and it has closed the peer that has answered it.
ByesInv ==
  \A p \in Phones, n \in CSeqs :
    /\ Peer(p) \notin plan.reInviters /\ ByeSent(Peer(p), n) =>
         \/ n \in byeTc[p] \/ status[p] = "CLOSE"
         \/ ByeAnswered(p, n, Failure) \/ ByeAnswered(p, n, Challenge)
    /\ ByeAnswered(p, n, Success) =>
         /\ ByeSent(Peer(p), n) /\ status[Peer(p)] = "CLOSE"
         /\ ~ByeAnswered(p, n, Failure) /\ ~ByeAnswered(p, n, Challenge)

\* The plans whose sequence numbers keep their order: one phone at most changes
\* the call, and no request is challenged if one does.
Orderly(l) == l.reInviters # Phones /\ (Challenge \in l.proxyAnswers => l.reInviters = {})

\* A phone takes the numbers of its peer from INVITEs of the peer.
RemoteInv == \A p \in Phones : remoteCSeq[p] # 0 => Asked(p, remoteCSeq[p])

\* The pending INVITE is the last; when there is none, the last has a number
\* that its phone has counted.
OrderInv ==
  Orderly(plan) => \A p \in Phones :
    /\ Pending(p) # {} => status[p] \in Inviting \cup {"CLOSE"}
    /\ \A m, n \in Pending(p) : m = n
    /\ \A n \in Pending(p), m \in CSeqs : Asked(Peer(p), m) => m <= n
    /\ p \in plan.reInviters => \A n \in Pending(p) : n <= localCSeq[p]
    /\ Pending(p) = {} /\ status[p] # "CLOSE" =>
         \A m \in CSeqs : Asked(Peer(p), m) => m <= localCSeq[p]

Typed == TypeOK /\ plan \in Plans

IInv ==
  /\ Typed
  /\ SetupInv
  /\ MessagesInv
  /\ RoleInv
  /\ WaitsAreCovered
  /\ AnswerInv
  /\ ServingInv
  /\ OneAnswerPerInvite
  /\ FailureAckInv
  /\ FirstInv
  /\ InvitesInv
  /\ ByesInv
  /\ RemoteInv
  /\ OrderInv

-----------------------------------------------------------------------------
(* The phones, and what a message that is sent adds to what has been.      *)

\* There are two phones, and each is the peer of the other.
LEMMA PeerFacts ==
  /\ Caller # Callee /\ Phones = {Caller, Callee}
  /\ Peer(Caller) = Callee /\ Peer(Callee) = Caller
  /\ \A p \in Phones : Peer(p) \in Phones /\ Peer(p) # p /\ Peer(Peer(p)) = p
<1>1. Caller # Callee /\ Phones = {Caller, Callee}
  BY DialogAssumption DEF Phones
<1>2. Peer(Caller) = Callee
  BY <1>1 DEF Peer
<1>3. Peer(Callee) = Caller
  BY <1>1 DEF Peer
<1> QED BY <1>1, <1>2, <1>3

\* Messages are equal when all they consist of is.
LEMMA MsgEqual ==
  ASSUME NEW p, NEW q, NEW m, NEW k, NEW a, NEW b, NEW s, NEW t
  PROVE  TaggedMsg(p, m, a, s) = TaggedMsg(q, k, b, t) <=> p = q /\ m = k /\ a = b /\ s = t
BY DEF TaggedMsg

\* The kinds of messages differ from one another.
LEMMA KindsDiffer ==
  /\ Invite # SuccessAck /\ Invite # Request("BYE") /\ Invite # FailureAck
  /\ Invite # Request("CANCEL") /\ SuccessAck # FailureAck
  /\ SuccessAck # Request("BYE") /\ SuccessAck # Request("CANCEL")
  /\ Request("BYE") # FailureAck /\ Request("BYE") # Request("CANCEL")
  /\ \A m \in {"INVITE", "BYE"}, c \in AnswerClasses :
       /\ Response(m, c) # Invite /\ Response(m, c) # SuccessAck
       /\ Response(m, c) # FailureAck /\ Response(m, c) # Request("BYE")
       /\ Response(m, c) # Request("CANCEL")
  /\ \A c, d \in AnswerClasses : Response("INVITE", c) # Response("BYE", d)
  /\ \A m \in {"INVITE", "BYE"}, c, d \in AnswerClasses : Response(m, c) = Response(m, d) => c = d
  /\ Success # Failure /\ Success # Challenge /\ Failure # Challenge
BY DEF Invite, SuccessAck, FailureAck, Request, Response, AnswerClasses, Success, Failure,
     Challenge

\* What a step leaves as it was.
SameAsked == \A p \in Phones, n \in CSeqs, t \in BOOLEAN : AskedAs(p, n, t)' <=> AskedAs(p, n, t)
SameAnswers == \A p \in Phones, n \in CSeqs, c \in AnswerClasses : Answered(p, n, c)'
  <=> Answered(p, n, c)
SameAcks == \A p \in Phones, n \in CSeqs : Acked(p, n)' <=> Acked(p, n)
SameByes == \A p \in Phones, n \in CSeqs : ByeSent(p, n)' <=> ByeSent(p, n)
SameByeAnswers ==
  \A p \in Phones, n \in CSeqs, c \in AnswerClasses : ByeAnswered(p, n, c)'
    <=> ByeAnswered(p, n, c)

SameViews == SameAsked /\ SameAnswers /\ SameAcks /\ SameByes /\ SameByeAnswers

\* Where nothing is sent, what has been sent is as it was.
LEMMA NothingSent ==
  ASSUME UNCHANGED wire
  PROVE  SameViews
BY DEF SameViews, SameAsked, SameAnswers, SameAcks, SameByes, SameByeAnswers, AskedAs,
     Answered, Acked, ByeSent, ByeAnswered, Sent

\* What comes of a message that is sent, for the message and for the others.
LEMMA OneSent ==
  ASSUME NEW q, NEW m, NEW k, NEW s, Send({TaggedMsg(q, m, k, s)}),
         NEW p, NEW o, NEW n, NEW t
  PROVE  TaggedMsg(p, o, n, t) \in wire' <=>
           TaggedMsg(p, o, n, t) \in wire \/ (p = q /\ o = m /\ n = k /\ t = s)
<1>1. TaggedMsg(p, o, n, t) = TaggedMsg(q, m, k, s) <=> p = q /\ o = m /\ n = k /\ t = s
  BY MsgEqual
<1> QED BY <1>1 DEF Send

\* Of a set of messages that is sent none is of the kinds o.
LEMMA NoneSent ==
  ASSUME NEW ms, Send(ms), NEW p, NEW o, NEW n, NEW t, TaggedMsg(p, o, n, t) \notin ms
  PROVE  TaggedMsg(p, o, n, t) \in wire' <=> TaggedMsg(p, o, n, t) \in wire
BY DEF Send

Without(ms, o) == \A p, n, t : TaggedMsg(p, o, n, t) \notin ms

\* A message of one kind adds nothing to what has been sent of another.
LEMMA OthersStay ==
  ASSUME NEW ms, Send(ms)
  PROVE  /\ Without(ms, Invite) => SameAsked
         /\ Without(ms, SuccessAck) => SameAcks
         /\ Without(ms, Request("BYE")) => SameByes
         /\ (\A c \in AnswerClasses : Without(ms, Response("INVITE", c))) => SameAnswers
         /\ (\A c \in AnswerClasses : Without(ms, Response("BYE", c))) => SameByeAnswers
<1>1. ASSUME NEW o, Without(ms, o), NEW p, NEW n, NEW t
      PROVE  TaggedMsg(p, o, n, t) \in wire' <=> TaggedMsg(p, o, n, t) \in wire
  BY <1>1, NoneSent DEF Without
<1>2. Without(ms, Invite) => SameAsked
  BY <1>1 DEF SameAsked, AskedAs
<1>3. Without(ms, SuccessAck) => SameAcks
  BY <1>1 DEF SameAcks, Acked, Sent, Msg
<1>4. Without(ms, Request("BYE")) => SameByes
  BY <1>1 DEF SameByes, ByeSent, Sent, Msg
<1>5. (\A c \in AnswerClasses : Without(ms, Response("INVITE", c))) => SameAnswers
  BY <1>1 DEF SameAnswers, Answered, Sent, Msg
<1>6. (\A c \in AnswerClasses : Without(ms, Response("BYE", c))) => SameByeAnswers
  BY <1>1 DEF SameByeAnswers, ByeAnswered, Sent, Msg
<1> QED BY <1>2, <1>3, <1>4, <1>5, <1>6

\* A single message is of no other kind than its own.
LEMMA WithoutOne ==
  ASSUME NEW q, NEW m, NEW k, NEW s, NEW o, o # m
  PROVE  Without({TaggedMsg(q, m, k, s)}, o)
BY MsgEqual DEF Without

\* What two sets lack, their union lacks.
LEMMA WithoutBoth ==
  ASSUME NEW ms, NEW ns, NEW o, Without(ms, o), Without(ns, o)
  PROVE  Without(ms \cup ns, o)
BY DEF Without

\* The same of a message without tags.
LEMMA WithoutMsg ==
  ASSUME NEW q, NEW m, NEW k, NEW o, o # m
  PROVE  Without({Msg(q, m, k)}, o)
BY WithoutOne DEF Msg

\* What has been sent after a single message without tags.
LEMMA MsgSent ==
  ASSUME NEW q, NEW m, NEW k, Send({Msg(q, m, k)}), NEW p, NEW o, NEW n
  PROVE  Sent(p, o, n)' <=> Sent(p, o, n) \/ (p = q /\ o = m /\ n = k)
<1>1. Msg(p, o, n) = Msg(q, m, k) <=> p = q /\ o = m /\ n = k
  BY DEF Msg, TaggedMsg
<1> QED BY <1>1 DEF Sent, Send

\* The ACK of a failure is of no other kind.
LEMMA WithoutAcks ==
  ASSUME NEW p, NEW n, NEW o, o # FailureAck
  PROVE  Without(AcksFailure(p, n), o)
<1>1. Without({}, o)
  BY DEF Without
<1>2. Without({Msg(Peer(p), FailureAck, n)}, o)
  BY WithoutMsg
<1> QED BY <1>1, <1>2 DEF AcksFailure

\* ACKs of failures and CANCELs are not looked at.
LEMMA OtherSent ==
  ASSUME NEW m \in {FailureAck, Request("CANCEL")}, NEW q, NEW k, NEW s,
         Send({TaggedMsg(q, m, k, s)})
  PROVE  SameViews
<1> DEFINE ms == {TaggedMsg(q, m, k, s)}
<1>1. Without(ms, Invite) /\ Without(ms, SuccessAck) /\ Without(ms, Request("BYE"))
  BY KindsDiffer, WithoutOne
<1>2. \A c \in AnswerClasses : Without(ms, Response("INVITE", c))
        /\ Without(ms, Response("BYE", c))
  BY KindsDiffer, WithoutOne
<1> HIDE DEF ms
<1>3. Send(ms)
  BY DEF ms
<1> QED BY <1>1, <1>2, <1>3, OthersStay DEF SameViews

\* What has been sent after an INVITE.
LEMMA InviteSent ==
  ASSUME NEW q, NEW k, NEW s, Send({TaggedMsg(q, Invite, k, s)})
  PROVE  /\ SameAnswers /\ SameAcks /\ SameByes /\ SameByeAnswers
         /\ \A p \in Phones, n \in CSeqs, t \in BOOLEAN :
              AskedAs(p, n, t)' <=> AskedAs(p, n, t) \/ (p = q /\ n = k /\ t = s)
<1> DEFINE ms == {TaggedMsg(q, Invite, k, s)}
<1>1. Without(ms, SuccessAck) /\ Without(ms, Request("BYE"))
  BY KindsDiffer, WithoutOne
<1>2. \A c \in AnswerClasses : Without(ms, Response("INVITE", c))
        /\ Without(ms, Response("BYE", c))
  BY KindsDiffer, WithoutOne
<1>3. ASSUME NEW p, NEW n, NEW t
      PROVE  AskedAs(p, n, t)' <=> AskedAs(p, n, t) \/ (p = q /\ n = k /\ t = s)
  BY OneSent DEF AskedAs
<1> HIDE DEF ms
<1>4. Send(ms)
  BY DEF ms
<1> QED BY <1>1, <1>2, <1>3, <1>4, OthersStay

\* The same with the ACK of a failure.
LEMMA InviteSentAgain ==
  ASSUME NEW q, NEW k, NEW s, NEW r, NEW j,
         Send(AcksFailure(r, j) \cup {TaggedMsg(q, Invite, k, s)})
  PROVE  /\ SameAnswers /\ SameAcks /\ SameByes /\ SameByeAnswers
         /\ \A p \in Phones, n \in CSeqs, t \in BOOLEAN :
              AskedAs(p, n, t)' <=> AskedAs(p, n, t) \/ (p = q /\ n = k /\ t = s)
<1> DEFINE one == {TaggedMsg(q, Invite, k, s)}
           ms == AcksFailure(r, j) \cup one
<1>1. ASSUME NEW o, o # Invite, o # FailureAck
      PROVE  Without(ms, o)
  BY <1>1, WithoutOne, WithoutAcks, WithoutBoth
<1>2. ASSUME NEW p, NEW n, NEW t
      PROVE  AskedAs(p, n, t)' <=> AskedAs(p, n, t) \/ (p = q /\ n = k /\ t = s)
  <2>1. TaggedMsg(p, Invite, n, t) \notin AcksFailure(r, j)
    BY WithoutAcks, KindsDiffer DEF Without
  <2>2. TaggedMsg(p, Invite, n, t) \in one <=> p = q /\ n = k /\ t = s
    BY MsgEqual
  <2> HIDE DEF one
  <2>3. wire' = wire \cup (AcksFailure(r, j) \cup one)
    BY DEF Send, one
  <2> QED BY <2>1, <2>2, <2>3 DEF AskedAs
<1>3. Without(ms, SuccessAck) /\ Without(ms, Request("BYE"))
  BY <1>1, KindsDiffer
<1>4. \A c \in AnswerClasses : Without(ms, Response("INVITE", c))
        /\ Without(ms, Response("BYE", c))
  BY <1>1, KindsDiffer
<1> HIDE DEF ms
<1>5. Send(ms)
  BY DEF ms
<1> QED BY <1>2, <1>3, <1>4, <1>5, OthersStay

\* What has been sent after the ACK of a success.
LEMMA AckSent ==
  ASSUME NEW q, NEW k, Send({Msg(q, SuccessAck, k)})
  PROVE  /\ SameAsked /\ SameAnswers /\ SameByes /\ SameByeAnswers
         /\ \A p \in Phones, n \in CSeqs : Acked(p, n)' <=> Acked(p, n) \/ (p = q /\ n = k)
<1> DEFINE ms == {Msg(q, SuccessAck, k)}
<1>1. Send(ms)
  OBVIOUS
<1>2. ASSUME NEW p, NEW n
      PROVE  Acked(p, n)' <=> Acked(p, n) \/ (p = q /\ n = k)
  BY MsgSent DEF Acked
<1>3. Without(ms, Invite) /\ Without(ms, Request("BYE"))
  BY KindsDiffer, WithoutMsg
<1>4. \A c \in AnswerClasses : Without(ms, Response("INVITE", c))
  BY KindsDiffer, WithoutMsg
<1>5. \A c \in AnswerClasses : Without(ms, Response("BYE", c))
  BY KindsDiffer, WithoutMsg
<1> HIDE DEF ms
<1> QED BY <1>1, <1>2, <1>3, <1>4, <1>5, OthersStay

\* What has been sent after a BYE.
LEMMA ByeIsSent ==
  ASSUME NEW q, NEW k, Send({Msg(q, Request("BYE"), k)})
  PROVE  /\ SameAsked /\ SameAnswers /\ SameAcks /\ SameByeAnswers
         /\ \A p \in Phones, n \in CSeqs : ByeSent(p, n)' <=> ByeSent(p, n) \/ (p = q /\ n = k)
<1> DEFINE ms == {Msg(q, Request("BYE"), k)}
<1>1. Send(ms)
  OBVIOUS
<1>2. ASSUME NEW p, NEW n
      PROVE  ByeSent(p, n)' <=> ByeSent(p, n) \/ (p = q /\ n = k)
  BY MsgSent DEF ByeSent
<1>3. Without(ms, Invite) /\ Without(ms, SuccessAck)
  BY KindsDiffer, WithoutMsg
<1>4. \A c \in AnswerClasses : Without(ms, Response("INVITE", c))
  BY KindsDiffer, WithoutMsg
<1>5. \A c \in AnswerClasses : Without(ms, Response("BYE", c))
  BY KindsDiffer, WithoutMsg
<1> HIDE DEF ms
<1> QED BY <1>1, <1>2, <1>3, <1>4, <1>5, OthersStay

\* What has been sent after an answer to an INVITE.
LEMMA AnswerSent ==
  ASSUME NEW q, NEW k, NEW d \in AnswerClasses, Send({Msg(q, Response("INVITE", d), k)})
  PROVE  /\ SameAsked /\ SameAcks /\ SameByes /\ SameByeAnswers
         /\ \A p \in Phones, n \in CSeqs, c \in AnswerClasses : Answered(p, n, c)'
              <=> Answered(p, n, c) \/ (p = q /\ n = k /\ c = d)
<1> DEFINE ms == {Msg(q, Response("INVITE", d), k)}
<1>1. Send(ms)
  OBVIOUS
<1>2. ASSUME NEW p, NEW n, NEW c \in AnswerClasses
      PROVE  Answered(p, n, c)' <=> Answered(p, n, c) \/ (p = q /\ n = k /\ c = d)
  <2>1. Response("INVITE", c) = Response("INVITE", d) <=> c = d
    BY KindsDiffer
  <2> QED BY <2>1, MsgSent DEF Answered
<1>3. Without(ms, Invite) /\ Without(ms, SuccessAck) /\ Without(ms, Request("BYE"))
  BY KindsDiffer, WithoutMsg
<1>4. \A c \in AnswerClasses : Without(ms, Response("BYE", c))
  BY KindsDiffer, WithoutMsg
<1> HIDE DEF ms
<1> QED BY <1>1, <1>2, <1>3, <1>4, OthersStay

\* What has been sent after an answer to a BYE.
LEMMA ByeAnswerSent ==
  ASSUME NEW q, NEW k, NEW d \in AnswerClasses, Send({Msg(q, Response("BYE", d), k)})
  PROVE  /\ SameAsked /\ SameAnswers /\ SameAcks /\ SameByes
         /\ \A p \in Phones, n \in CSeqs, c \in AnswerClasses : ByeAnswered(p, n, c)'
              <=> ByeAnswered(p, n, c) \/ (p = q /\ n = k /\ c = d)
<1> DEFINE ms == {Msg(q, Response("BYE", d), k)}
<1>1. Send(ms)
  OBVIOUS
<1>2. ASSUME NEW p, NEW n, NEW c \in AnswerClasses
      PROVE  ByeAnswered(p, n, c)' <=> ByeAnswered(p, n, c) \/ (p = q /\ n = k /\ c = d)
  <2>1. Response("BYE", c) = Response("BYE", d) <=> c = d
    BY KindsDiffer
  <2> QED BY <2>1, MsgSent DEF ByeAnswered
<1>3. Without(ms, Invite) /\ Without(ms, SuccessAck) /\ Without(ms, Request("BYE"))
  BY KindsDiffer, WithoutMsg
<1>4. \A c \in AnswerClasses : Without(ms, Response("INVITE", c))
  BY KindsDiffer, WithoutMsg
<1> HIDE DEF ms
<1> QED BY <1>1, <1>2, <1>3, <1>4, OthersStay

-----------------------------------------------------------------------------
(* Type correctness.                                                       *)

Kinds ==
  InviteMessages \cup Messages("BYE")
    \cup {Request("CANCEL"), Response("INVITE", Challenge), Response("BYE", Challenge)}

Wires == [to : Phones, cseq : CSeqs, tags : BOOLEAN, msg : Kinds]

\* The variables of the phones.
PhonesOK ==
  /\ status \in [Phones -> DialogStates]
  /\ localCSeq \in [Phones -> CSeqs]
  /\ remoteCSeq \in [Phones -> CSeqs]
  /\ tagged \in [Phones -> BOOLEAN]
  /\ attempts \in [Phones -> 0 .. MaxAttempts]
  /\ inviteReq \in [Phones -> CSeqs]
  /\ inviteTc \in [Phones -> SUBSET CSeqs]
  /\ retryTc \in [Phones -> SUBSET CSeqs]
  /\ byeTc \in [Phones -> SUBSET CSeqs]
  /\ inviteTs \in [Phones -> [CSeqs -> {"none", "open", "completed", "ended"}]]
  /\ ackTs \in [Phones -> SUBSET CSeqs]
  /\ currentAck \in [Phones -> CSeqs]

\* The type of the phones' variables, and that of the messages.
LEMMA TypeOKParts == TypeOK <=> PhonesOK /\ wire \subseteq Wires
BY DEF TypeOK, PhonesOK, Wires, Kinds

\* The kinds of messages the program sends are those of the type.
LEMMA KindsAre ==
  /\ Invite \in Kinds /\ SuccessAck \in Kinds /\ FailureAck \in Kinds
  /\ Request("BYE") \in Kinds /\ Request("CANCEL") \in Kinds
  /\ \A m \in {"INVITE", "BYE"}, c \in AnswerClasses : Response(m, c) \in Kinds
<1>1. \A m \in {"INVITE", "BYE"} : Request(m) \in Kinds
  BY DEF Kinds, InviteMessages, Messages
<1>2. Invite \in Kinds /\ SuccessAck \in Kinds /\ FailureAck \in Kinds
  BY <1>1 DEF Kinds, InviteMessages, Invite
<1>3. \A c \in {Success, Failure} : Response("INVITE", c) \in Kinds
        /\ Response("BYE", c) \in Kinds
  BY DEF Kinds, InviteMessages, Messages, Classes, FinalClasses
<1>4. \A m \in {"INVITE", "BYE"}, c \in AnswerClasses : Response(m, c) \in Kinds
  BY <1>3 DEF Kinds, AnswerClasses
<1>5. Request("CANCEL") \in Kinds
  BY DEF Kinds
<1> QED BY <1>1, <1>2, <1>4, <1>5

\* A message of one of these kinds has the type of messages.
LEMMA MsgTyped ==
  ASSUME NEW p \in Phones, NEW n \in CSeqs, NEW t \in BOOLEAN, NEW m \in Kinds
  PROVE  TaggedMsg(p, m, n, t) \in Wires /\ Msg(p, m, n) \in Wires
BY DEF TaggedMsg, Msg, Wires

\* A sequence number that the plan allows.
LEMMA CSeqTyped ==
  ASSUME plan \in Plans, NEW n \in CSeqs, n + 1 <= plan.maxCSeq
  PROVE  n + 1 \in CSeqs
BY DialogAssumption DEF CSeqs

\* Messages of the type, sent, leave what has been sent of the type.
LEMMA WireTyped ==
  ASSUME wire \subseteq Wires, NEW ms, ms \subseteq Wires, Send(ms)
  PROVE  wire' \subseteq Wires
BY DEF Send

\* What the assumption says of a plan.
LEMMA PlanFacts ==
  ASSUME plan \in Plans
  PROVE  /\ plan.reInviters \subseteq Phones
         /\ plan.proxyAnswers \subseteq {Challenge, Failure}
         /\ Challenge \in plan.proxyAnswers => plan.reInviters # Phones
BY DialogAssumption

\* The phones' variables keep to their types.
LEMMA PhonesStay ==
  ASSUME Typed, Step
  PROVE  PhonesOK'
<1> USE DEF PhonesOK
<1>t. PhonesOK /\ plan \in Plans /\ \A p \in Phones : Peer(p) \in Phones
  BY TypeOKParts, PeerFacts DEF Typed
<1>1. ASSUME Listen PROVE PhonesOK'
  BY <1>t, <1>1, PeerFacts DEF Listen, Becomes, DialogStates, cseqVars, clientVars,
       serverVars
<1>2. ASSUME InvitePeer PROVE PhonesOK'
  BY <1>t, <1>2, CSeqTyped, PeerFacts DEF InvitePeer, Becomes, DialogStates, serverVars,
       SendsInvite
<1>3. ASSUME NEW p \in Phones, ReInvite(p) PROVE PhonesOK'
  BY <1>t, <1>3, CSeqTyped DEF ReInvite, Becomes, DialogStates, serverVars, SendsInvite
<1>4. ASSUME NEW p \in Phones, Accept(p) PROVE PhonesOK'
  BY <1>t, <1>4 DEF Accept, Becomes, DialogStates, clientVars
<1>5. ASSUME NEW p \in Phones, Refuse(p) PROVE PhonesOK'
  BY <1>t, <1>5 DEF Refuse, Becomes, DialogStates, clientVars, Fails
<1>6. ASSUME NEW p \in Phones, Cancel(p) PROVE PhonesOK'
  BY <1>t, <1>6 DEF Cancel, cseqVars, clientVars, serverVars
<1>7. ASSUME NEW p \in Phones, Bye(p) PROVE PhonesOK'
  BY <1>t, <1>7, CSeqTyped DEF Bye, Becomes, DialogStates, serverVars
<1>8. ASSUME NEW p \in Phones, NEW n \in CSeqs, InviteSucceeds(p, n) PROVE PhonesOK'
  <2>a. attempts' \in [Phones -> 0 .. MaxAttempts]
    BY <1>t, <1>8, DialogAssumption DEF InviteSucceeds
  <2>b. inviteTc' \in [Phones -> SUBSET CSeqs] /\ retryTc' \in [Phones -> SUBSET CSeqs]
    BY <1>t, <1>8 DEF InviteSucceeds, Reports
  <2>1. CASE status[p] \in Inviting
    <3>1. /\ status' = [status EXCEPT ![p] = "CALL"]
          /\ tagged' = [tagged EXCEPT ![p] = TRUE]
          /\ localCSeq' = [localCSeq EXCEPT ![p] = n]
          /\ UNCHANGED <<remoteCSeq, inviteReq, byeTc, serverVars>>
      BY <1>8, <2>1 DEF InviteSucceeds, Becomes
    <3>2. tagged' \in [Phones -> BOOLEAN] /\ localCSeq' \in [Phones -> CSeqs]
      BY <1>t, <3>1
    <3>3. status' \in [Phones -> DialogStates]
      BY <1>t, <3>1 DEF DialogStates
    <3> QED BY <1>t, <2>a, <2>b, <3>1, <3>3 DEF serverVars
  <2>2. CASE status[p] \notin Inviting
    BY <1>t, <1>8, <2>2, <2>a DEF InviteSucceeds, serverVars, Reports
  <2> QED BY <2>1, <2>2
<1>9. ASSUME NEW p \in Phones, NEW n \in CSeqs, InviteFails(p, n) PROVE PhonesOK'
  BY <1>t, <1>9, PeerFacts DEF InviteFails, Becomes, DialogStates, cseqVars, serverVars,
       Reports
<1>10. ASSUME NEW p \in Phones, NEW n \in CSeqs, InviteChallenged(p, n) PROVE PhonesOK'
  BY <1>t, <1>10, CSeqTyped, DialogAssumption DEF InviteChallenged, serverVars, Retries
<1>11. ASSUME NEW p \in Phones, NEW n \in CSeqs, InviteTimesOut(p, n) PROVE PhonesOK'
  BY <1>t, <1>11, PeerFacts DEF InviteTimesOut, Becomes, DialogStates, cseqVars, serverVars,
       Reports
<1>12. ASSUME NEW p \in Phones, NEW n \in CSeqs, ByeSucceeds(p, n) PROVE PhonesOK'
  BY <1>t, <1>12, DialogAssumption DEF ByeSucceeds, Becomes, DialogStates, cseqVars,
       serverVars, ByeEnds
<1>13. ASSUME NEW p \in Phones, NEW n \in CSeqs, ByeFails(p, n) PROVE PhonesOK'
  BY <1>t, <1>13 DEF ByeFails, Becomes, DialogStates, cseqVars, serverVars
<1>14. ASSUME NEW p \in Phones, NEW n \in CSeqs, ByeChallenged(p, n) PROVE PhonesOK'
  <2>1. n + 1 \in CSeqs /\ 0 \in CSeqs
    BY <1>t, <1>14, DialogAssumption DEF ByeChallenged, Retries, CSeqs
  <2>2. attempts' \in [Phones -> 0 .. MaxAttempts]
    BY <1>t, <1>14, DialogAssumption DEF ByeChallenged, Retries
  <2> QED BY <1>t, <1>14, <2>1, <2>2 DEF ByeChallenged, serverVars
<1>15. ASSUME NEW p \in Phones, NEW n \in CSeqs, ByeTimesOut(p, n) PROVE PhonesOK'
  BY <1>t, <1>15, PeerFacts DEF ByeTimesOut, Becomes, DialogStates, cseqVars, serverVars,
       ByeEnds
<1>16. ASSUME NEW n \in CSeqs, ReceiveFirstInvite(n) PROVE PhonesOK'
  BY <1>t, <1>16, PeerFacts DEF ReceiveFirstInvite, Becomes, DialogStates, clientVars
<1>17. ASSUME NEW p \in Phones, NEW n \in CSeqs, ReceiveFailureAck(p, n) PROVE PhonesOK'
  BY <1>t, <1>17, PeerFacts DEF ReceiveFailureAck, Becomes, DialogStates, cseqVars,
       clientVars
<1>18. ASSUME NEW p \in Phones, NEW n \in CSeqs, FailureAckTimesOut(p, n) PROVE PhonesOK'
  BY <1>t, <1>18 DEF FailureAckTimesOut, cseqVars, clientVars
<1>19. ASSUME NEW p \in Phones, NEW n \in CSeqs, AckTimesOut(p, n) PROVE PhonesOK'
  BY <1>t, <1>19 DEF AckTimesOut, Becomes, DialogStates, cseqVars, clientVars
<1>20. ASSUME NEW p \in Phones, NEW n \in CSeqs, ReceiveReInvite(p, n) PROVE PhonesOK'
  BY <1>t, <1>20 DEF ReceiveReInvite, Becomes, DialogStates, clientVars
<1>21. ASSUME NEW p \in Phones, NEW n \in CSeqs, ReceiveAck(p, n) PROVE PhonesOK'
  BY <1>t, <1>21 DEF ReceiveAck, Becomes, DialogStates, cseqVars, clientVars
<1>22. ASSUME NEW p \in Phones, NEW n \in CSeqs, ReceiveBye(p, n) PROVE PhonesOK'
  BY <1>t, <1>22 DEF ReceiveBye, Becomes, DialogStates, cseqVars, clientVars, serverVars
<1>23. ASSUME NEW p \in Phones, NEW n \in CSeqs, ReceiveCancel(p, n) PROVE PhonesOK'
  BY <1>t, <1>23 DEF ReceiveCancel, Becomes, DialogStates, clientVars, Fails
<1>24. ASSUME NEW p \in Phones, NEW m \in {"INVITE", "BYE"}, NEW n \in CSeqs,
              ProxyAnswersRequest(p, m, n)
       PROVE PhonesOK'
  BY <1>t, <1>24 DEF ProxyAnswersRequest, cseqVars, clientVars, serverVars
<1> QED BY <1>1, <1>2, <1>3, <1>4, <1>5, <1>6, <1>7, <1>8, <1>9, <1>10, <1>11, <1>12, <1>13,
     <1>14, <1>15, <1>16, <1>17, <1>18, <1>19, <1>20, <1>21, <1>22, <1>23, <1>24 DEF Step,
     UserStep, ClientStep, ServerStep

\* What is sent keeps to the type of messages.
LEMMA WireStays ==
  ASSUME Typed, Step
  PROVE  wire' \subseteq Wires
<1>t. PhonesOK /\ wire \subseteq Wires /\ plan \in Plans /\ \A p \in Phones : Peer(p) \in Phones
  BY TypeOKParts, PeerFacts DEF Typed
<1>c. Caller \in Phones
  BY PeerFacts
<1>i. ASSUME NEW p \in Phones, SendsInvite(p) PROVE wire' \subseteq Wires
  <2> DEFINE n == localCSeq[p] + 1
  <2>1. n \in CSeqs
    BY <1>t, <1>i, CSeqTyped DEF SendsInvite, PhonesOK
  <2>2. TaggedMsg(Peer(p), Invite, n, tagged[p]) \in Wires
    BY <1>t, <2>1, MsgTyped, KindsAre DEF PhonesOK
  <2> QED BY <1>t, <1>i, <2>2, WireTyped DEF SendsInvite
<1>f. ASSUME NEW p \in Phones, Fails(p) PROVE wire' \subseteq Wires
  <2>1. Msg(Peer(p), Response("INVITE", Failure), inviteReq[p]) \in Wires
    BY <1>t, MsgTyped, KindsAre DEF PhonesOK, AnswerClasses
  <2> QED BY <1>t, <1>f, <2>1, WireTyped DEF Fails
<1>a. \A p \in Phones, n \in CSeqs : AcksFailure(p, n) \subseteq Wires
  BY <1>t, MsgTyped, KindsAre DEF AcksFailure
<1>d. \A p \in Phones : CancelMsg(p) \in Wires
  BY <1>t, MsgTyped, KindsAre DEF CancelMsg, PhonesOK
<1>1. ASSUME Listen PROVE wire' \subseteq Wires
  BY <1>t, <1>1 DEF Listen
<1>2. ASSUME InvitePeer PROVE wire' \subseteq Wires
  BY <1>i, <1>c, <1>2 DEF InvitePeer
<1>3. ASSUME NEW p \in Phones, ReInvite(p) PROVE wire' \subseteq Wires
  BY <1>i, <1>c, <1>3 DEF ReInvite
<1>4. ASSUME NEW p \in Phones, Accept(p) PROVE wire' \subseteq Wires
  <2>1. Msg(Peer(p), Response("INVITE", Success), inviteReq[p]) \in Wires
    BY <1>t, MsgTyped, KindsAre DEF PhonesOK, AnswerClasses
  <2> QED BY <1>t, <1>4, <2>1, WireTyped DEF Accept
<1>5. ASSUME NEW p \in Phones, Refuse(p) PROVE wire' \subseteq Wires
  BY <1>f, <1>5 DEF Refuse
<1>6. ASSUME NEW p \in Phones, Cancel(p) PROVE wire' \subseteq Wires
  BY <1>t, <1>d, <1>6, WireTyped DEF Cancel
<1>7. ASSUME NEW p \in Phones, Bye(p) PROVE wire' \subseteq Wires
  <2>1. localCSeq[p] + 1 \in CSeqs
    BY <1>t, <1>7, CSeqTyped DEF Bye, PhonesOK
  <2>2. Msg(Peer(p), Request("BYE"), localCSeq[p] + 1) \in Wires
    BY <1>t, <2>1, MsgTyped, KindsAre
  <2> QED BY <1>t, <1>7, <2>2, WireTyped DEF Bye
<1>8. ASSUME NEW p \in Phones, NEW n \in CSeqs, InviteSucceeds(p, n)
      PROVE wire' \subseteq Wires
  <2>1. Msg(Peer(p), SuccessAck, n) \in Wires
    BY <1>t, MsgTyped, KindsAre DEF PhonesOK, AnswerClasses
  <2> QED BY <1>t, <1>8, <2>1, WireTyped DEF InviteSucceeds
<1>9. ASSUME NEW p \in Phones, NEW n \in CSeqs, InviteFails(p, n)
      PROVE wire' \subseteq Wires
  BY <1>t, <1>a, <1>9, WireTyped DEF InviteFails
<1>10. ASSUME NEW p \in Phones, NEW n \in CSeqs, InviteChallenged(p, n)
       PROVE wire' \subseteq Wires
  <2>1. n + 1 \in CSeqs
    BY <1>t, <1>10, CSeqTyped DEF InviteChallenged, Retries
  <2>2. \A tags \in BOOLEAN : TaggedMsg(Peer(p), Invite, n + 1, tags) \in Wires
    BY <1>t, <2>1, MsgTyped, KindsAre
  <2> QED BY <1>t, <1>a, <1>10, <2>2, WireTyped DEF InviteChallenged
<1>11. ASSUME NEW p \in Phones, NEW n \in CSeqs, InviteTimesOut(p, n)
       PROVE wire' \subseteq Wires
  BY <1>t, <1>d, <1>11, WireTyped DEF InviteTimesOut
<1>12. ASSUME NEW p \in Phones, NEW n \in CSeqs, ByeSucceeds(p, n)
       PROVE wire' \subseteq Wires
  BY <1>t, <1>12 DEF ByeSucceeds, ByeEnds
<1>13. ASSUME NEW p \in Phones, NEW n \in CSeqs, ByeFails(p, n) PROVE wire' \subseteq Wires
  BY <1>t, <1>13 DEF ByeFails
<1>14. ASSUME NEW p \in Phones, NEW n \in CSeqs, ByeChallenged(p, n)
       PROVE wire' \subseteq Wires
  <2>1. n + 1 \in CSeqs
    BY <1>t, <1>14, CSeqTyped DEF ByeChallenged, Retries
  <2>2. Msg(Peer(p), Request("BYE"), n + 1) \in Wires
    BY <1>t, <2>1, MsgTyped, KindsAre
  <2> QED BY <1>t, <1>14, <2>2, WireTyped DEF ByeChallenged
<1>15. ASSUME NEW p \in Phones, NEW n \in CSeqs, ByeTimesOut(p, n)
       PROVE wire' \subseteq Wires
  BY <1>t, <1>15 DEF ByeTimesOut, ByeEnds
<1>16. ASSUME NEW n \in CSeqs, ReceiveFirstInvite(n) PROVE wire' \subseteq Wires
  BY <1>t, <1>16 DEF ReceiveFirstInvite
<1>17. ASSUME NEW p \in Phones, NEW n \in CSeqs, ReceiveFailureAck(p, n)
       PROVE wire' \subseteq Wires
  BY <1>t, <1>17 DEF ReceiveFailureAck
<1>18. ASSUME NEW p \in Phones, NEW n \in CSeqs, FailureAckTimesOut(p, n)
       PROVE wire' \subseteq Wires
  BY <1>t, <1>18 DEF FailureAckTimesOut
<1>19. ASSUME NEW p \in Phones, NEW n \in CSeqs, AckTimesOut(p, n)
       PROVE wire' \subseteq Wires
  BY <1>t, <1>19 DEF AckTimesOut
<1>20. ASSUME NEW p \in Phones, NEW n \in CSeqs, ReceiveReInvite(p, n)
       PROVE wire' \subseteq Wires
  BY <1>t, <1>20 DEF ReceiveReInvite
<1>21. ASSUME NEW p \in Phones, NEW n \in CSeqs, ReceiveAck(p, n)
       PROVE wire' \subseteq Wires
  BY <1>t, <1>21 DEF ReceiveAck
<1>22. ASSUME NEW p \in Phones, NEW n \in CSeqs, ReceiveBye(p, n)
       PROVE wire' \subseteq Wires
  <2>1. Msg(Peer(p), Response("BYE", Success), n) \in Wires
    BY <1>t, MsgTyped, KindsAre DEF PhonesOK, AnswerClasses
  <2> QED BY <1>t, <1>22, <2>1, WireTyped DEF ReceiveBye
<1>23. ASSUME NEW p \in Phones, NEW n \in CSeqs, ReceiveCancel(p, n)
       PROVE wire' \subseteq Wires
  BY <1>f, <1>23 DEF ReceiveCancel
<1>24. ASSUME NEW p \in Phones, NEW m \in {"INVITE", "BYE"}, NEW n \in CSeqs,
              ProxyAnswersRequest(p, m, n)
       PROVE wire' \subseteq Wires
  <2>1. \A c \in plan.proxyAnswers : Msg(Peer(p), Response(m, c), n) \in Wires
    BY <1>t, MsgTyped, KindsAre, PlanFacts DEF AnswerClasses
  <2> QED BY <1>t, <1>24, <2>1, WireTyped DEF ProxyAnswersRequest
<1> QED BY <1>1, <1>2, <1>3, <1>4, <1>5, <1>6, <1>7, <1>8, <1>9, <1>10, <1>11, <1>12, <1>13,
     <1>14, <1>15, <1>16, <1>17, <1>18, <1>19, <1>20, <1>21, <1>22, <1>23, <1>24 DEF Step,
     UserStep, ClientStep, ServerStep

-----------------------------------------------------------------------------
(* Setting up the call.                                                    *)

\* Who has succeeded and who has confirmed depends only on what has been sent.
LEMMA SetupViews ==
  /\ SameAnswers => (Succeeded' <=> Succeeded)
  /\ SameAsked /\ SameAcks => (Confirmed' <=> Confirmed)
  /\ SameViews => (Succeeded' <=> Succeeded) /\ (Confirmed' <=> Confirmed)
<1>1. SameAnswers => (Succeeded' <=> Succeeded)
  BY PeerFacts DEF SameAnswers, Succeeded, AnswerClasses, Answered, Sent
<1>2. SameAsked /\ SameAcks => (Confirmed' <=> Confirmed)
  BY PeerFacts DEF SameAsked, SameAcks, Confirmed, AskedAs, Acked, Sent
<1> QED BY <1>1, <1>2 DEF SameViews

\* What a step says of the call, if it does: nothing, a success, or a request
\* or an ACK that shows that its phone is in the call.
LEMMA SetupKept ==
  ASSUME NEW ms, Send(ms), Without(ms, SuccessAck), Without(ms, Invite),
         Without(ms, Response("INVITE", Success))
  PROVE  (Succeeded' <=> Succeeded) /\ (Confirmed' <=> Confirmed)
<1>1. \A n : Sent(Caller, Response("INVITE", Success), n)'
        <=> Sent(Caller, Response("INVITE", Success), n)
  BY NoneSent DEF Without, Sent, Msg
<1>2. \A n : Sent(Callee, SuccessAck, n)' <=> Sent(Callee, SuccessAck, n)
  BY NoneSent DEF Without, Sent, Msg
<1>3. \A n : AskedAs(Callee, n, TRUE)' <=> AskedAs(Callee, n, TRUE)
  BY NoneSent DEF Without, AskedAs
<1>4. Succeeded' <=> Succeeded
  BY <1>1 DEF Succeeded, Answered
<1> QED BY <1>2, <1>3, <1>4 DEF Confirmed, Acked

\* Every step keeps to the way two phones come into a call.
LEMMA SetupStays ==
  ASSUME Typed, SetupInv, OneAnswerPerInvite, FailureAckInv, FirstInv, Step
  PROVE  SetupInv'
<1>t. PhonesOK /\ Caller # Callee /\ Phones = {Caller, Callee}
      /\ Peer(Caller) = Callee /\ Peer(Callee) = Caller
  BY TypeOKParts, PeerFacts DEF Typed
<1> USE DEF SetupInv, InCall, Modifying, Inviting, Invited, Accepted, Refused
<1>s. ASSUME NEW p \in Phones, SendsInvite(p)
      PROVE  /\ Succeeded' <=> Succeeded
             /\ Confirmed' => Confirmed \/ (p = Caller /\ tagged[p] = TRUE)
             /\ UNCHANGED tagged
  <2>1. SameAnswers /\ SameAcks
    BY <1>s, InviteSent DEF SendsInvite
  <2>2. \A n \in CSeqs : AskedAs(Callee, n, TRUE)' =>
          AskedAs(Callee, n, TRUE) \/ (p = Caller /\ tagged[p] = TRUE)
    <3> DEFINE k == localCSeq[p] + 1
    <3>1. Send({TaggedMsg(Peer(p), Invite, k, tagged[p])})
      BY <1>s DEF SendsInvite
    <3>2. \A n \in CSeqs, t \in BOOLEAN : AskedAs(Callee, n, t)' <=>
            AskedAs(Callee, n, t) \/ (Callee = Peer(p) /\ n = k /\ t = tagged[p])
      BY <1>t, <3>1, InviteSent
    <3>3. \A n \in CSeqs : AskedAs(Callee, n, TRUE)' =>
            AskedAs(Callee, n, TRUE) \/ (Callee = Peer(p) /\ tagged[p] = TRUE)
      BY <3>2
    <3>4. Callee = Peer(p) => p = Caller
      BY <1>t
    <3> QED BY <3>3, <3>4
  <2> QED BY <1>s, <1>t, <2>1, <2>2, SetupViews DEF SendsInvite, Confirmed, SameAcks, Acked
<1>f. ASSUME NEW p \in Phones, Fails(p)
      PROVE  (Succeeded' <=> Succeeded) /\ (Confirmed' <=> Confirmed)
  <2>1. \A o : o # Response("INVITE", Failure) =>
          Without(IF inviteTs[p][inviteReq[p]] = "open"
                  THEN {Msg(Peer(p), Response("INVITE", Failure), inviteReq[p])} ELSE {}, o)
    BY WithoutMsg DEF Without
  <2> QED BY <1>f, <2>1, SetupKept, KindsDiffer DEF Fails, AnswerClasses
<1>1. ASSUME Listen PROVE SetupInv'
  BY <1>t, <1>1, NothingSent, SetupViews DEF Listen, Becomes, cseqVars
<1>2. ASSUME InvitePeer PROVE SetupInv'
  BY <1>t, <1>s, <1>2 DEF InvitePeer, Becomes, PhonesOK
<1>3. ASSUME NEW p \in Phones, ReInvite(p) PROVE SetupInv'
  BY <1>t, <1>s, <1>3 DEF ReInvite, Becomes, PhonesOK
<1>4. ASSUME NEW p \in Phones, Accept(p) PROVE SetupInv'
  <2>1. /\ Confirmed' <=> Confirmed
        /\ Succeeded' <=> Succeeded \/ p = Callee
    <3>1. SameAsked /\ SameAcks /\ \A q \in Phones, n \in CSeqs, c \in AnswerClasses :
            Answered(q, n, c)'
              <=> Answered(q, n, c) \/ (q = Peer(p) /\ n = inviteReq[p] /\ c = Success)
      <4>1. Success \in AnswerClasses
              /\ Send({Msg(Peer(p), Response("INVITE", Success), inviteReq[p])})
        BY <1>4 DEF Accept, AnswerClasses
      <4> QED BY <4>1, AnswerSent
    <3> QED BY <1>t, <3>1, SetupViews DEF Succeeded, AnswerClasses, PhonesOK
  <2> QED BY <1>t, <1>4, <2>1 DEF Accept, Becomes, PhonesOK
<1>5. ASSUME NEW p \in Phones, Refuse(p) PROVE SetupInv'
  BY <1>t, <1>5, <1>f DEF Refuse, Becomes, cseqVars, PhonesOK, Fails
<1>6. ASSUME NEW p \in Phones, Cancel(p) PROVE SetupInv'
  <2>1. (Succeeded' <=> Succeeded) /\ (Confirmed' <=> Confirmed)
    BY <1>6, OtherSent, SetupViews DEF Cancel, CancelMsg
  <2> QED BY <1>6, <2>1 DEF Cancel, cseqVars
<1>7. ASSUME NEW p \in Phones, Bye(p) PROVE SetupInv'
  <2>1. (Succeeded' <=> Succeeded) /\ (Confirmed' <=> Confirmed)
    BY <1>7, ByeIsSent, SetupViews DEF Bye
  <2> QED BY <1>7, <2>1 DEF Bye, Becomes
<1>8. ASSUME NEW p \in Phones, NEW n \in CSeqs, InviteSucceeds(p, n) PROVE SetupInv'
  <2>1. /\ Succeeded' <=> Succeeded
        /\ p = Caller => Succeeded
        /\ Confirmed' => Confirmed \/ (p = Caller /\ status[p] \in Inviting)
    <3>1. p = Caller => Succeeded
      BY <1>8 DEF InviteSucceeds, Succeeded, Answered
    <3>2. CASE status[p] \in Inviting
      <4>1. SameAsked /\ SameAnswers /\ \A q \in Phones, k \in CSeqs :
              Acked(q, k)' <=> Acked(q, k) \/ (q = Peer(p) /\ k = n)
        BY <1>8, <3>2, AckSent DEF InviteSucceeds
      <4> QED BY <1>t, <3>1, <3>2, <4>1, SetupViews DEF Confirmed, SameAsked, AskedAs
    <3>3. CASE status[p] \notin Inviting
      BY <1>8, <3>1, <3>3, NothingSent, SetupViews DEF InviteSucceeds
    <3> QED BY <3>2, <3>3
  <2> QED BY <1>t, <1>8, <2>1 DEF InviteSucceeds, Becomes, PhonesOK
<1>9. ASSUME NEW p \in Phones, NEW n \in CSeqs, InviteFails(p, n) PROVE SetupInv'
  <2>1. (Succeeded' <=> Succeeded) /\ (Confirmed' <=> Confirmed)
    BY <1>9, WithoutAcks, SetupKept, KindsDiffer DEF InviteFails, AnswerClasses
  <2> QED BY <1>t, <1>9, <2>1 DEF InviteFails, Becomes, cseqVars, PhonesOK
<1>10. ASSUME NEW p \in Phones, NEW n \in CSeqs, InviteChallenged(p, n) PROVE SetupInv'
  <2>1. (Succeeded' <=> Succeeded) /\ (Confirmed' => Confirmed)
    <3>1. PICK tags \in BOOLEAN :
            /\ TaggedMsg(Peer(p), Invite, n, tags) \in wire
            /\ Send(AcksFailure(p, n) \cup {TaggedMsg(Peer(p), Invite, n + 1, tags)})
      BY <1>10 DEF InviteChallenged
    <3>2. SameAnswers /\ SameAcks /\ \A q \in Phones, k \in CSeqs, t \in BOOLEAN :
            AskedAs(q, k, t)' <=> AskedAs(q, k, t) \/ (q = Peer(p) /\ k = n + 1 /\ t = tags)
      BY <3>1, InviteSentAgain
    <3>3. AskedAs(Peer(p), n, tags)
      BY <3>1 DEF AskedAs
    <3> QED BY <1>t, <3>2, <3>3, SetupViews DEF Confirmed, SameAcks, Acked
  <2> QED BY <1>10, <2>1 DEF InviteChallenged
<1>11. ASSUME NEW p \in Phones, NEW n \in CSeqs, InviteTimesOut(p, n) PROVE SetupInv'
  <2>1. (Succeeded' <=> Succeeded) /\ (Confirmed' <=> Confirmed)
    BY <1>11, OtherSent, NothingSent, SetupViews DEF InviteTimesOut, CancelMsg
  <2> QED BY <1>t, <1>11, <2>1 DEF InviteTimesOut, Becomes, cseqVars, PhonesOK
<1>12. ASSUME NEW p \in Phones, NEW n \in CSeqs, ByeSucceeds(p, n) PROVE SetupInv'
  BY <1>t, <1>12, NothingSent, SetupViews DEF ByeSucceeds, Becomes, cseqVars, PhonesOK,
       ByeEnds
<1>13. ASSUME NEW p \in Phones, NEW n \in CSeqs, ByeFails(p, n) PROVE SetupInv'
  BY <1>t, <1>13, NothingSent, SetupViews DEF ByeFails, Becomes, cseqVars, PhonesOK
<1>14. ASSUME NEW p \in Phones, NEW n \in CSeqs, ByeChallenged(p, n) PROVE SetupInv'
  <2>1. (Succeeded' <=> Succeeded) /\ (Confirmed' <=> Confirmed)
    BY <1>14, ByeIsSent, SetupViews DEF ByeChallenged
  <2> QED BY <1>14, <2>1 DEF ByeChallenged
<1>15. ASSUME NEW p \in Phones, NEW n \in CSeqs, ByeTimesOut(p, n) PROVE SetupInv'
  BY <1>t, <1>15, NothingSent, SetupViews DEF ByeTimesOut, Becomes, cseqVars, PhonesOK,
       ByeEnds
<1>16. ASSUME NEW n \in CSeqs, ReceiveFirstInvite(n) PROVE SetupInv'
  BY <1>16, NothingSent, SetupViews DEF ReceiveFirstInvite, Becomes
<1>17. ASSUME NEW p \in Phones, NEW n \in CSeqs, ReceiveFailureAck(p, n) PROVE SetupInv'
  BY <1>t, <1>17, NothingSent, SetupViews DEF ReceiveFailureAck, Becomes, cseqVars, PhonesOK
<1>18. ASSUME NEW p \in Phones, NEW n \in CSeqs, FailureAckTimesOut(p, n) PROVE SetupInv'
  BY <1>18, NothingSent, SetupViews DEF FailureAckTimesOut, cseqVars
<1>19. ASSUME NEW p \in Phones, NEW n \in CSeqs, AckTimesOut(p, n) PROVE SetupInv'
  BY <1>t, <1>19, NothingSent, SetupViews DEF AckTimesOut, Becomes, cseqVars, PhonesOK
<1>20. ASSUME NEW p \in Phones, NEW n \in CSeqs, ReceiveReInvite(p, n) PROVE SetupInv'
  <2>1. p = Callee => Confirmed
    BY <1>20 DEF ReceiveReInvite, Confirmed, AskedAs, Sent, Msg
  <2> QED BY <1>20, <2>1, NothingSent, SetupViews DEF ReceiveReInvite, Becomes, Dispatched
<1>21. ASSUME NEW p \in Phones, NEW n \in CSeqs, ReceiveAck(p, n) PROVE SetupInv'
  <2>1. p = Callee /\ Sent(p, SuccessAck, n) => Confirmed
    BY <1>21 DEF Confirmed, Acked
  <2>2. ASSUME p = Callee, status[p] = "ACCEPTED", Sent(p, FailureAck, n), inviteTs[p][n] = "ended"
        PROVE  FALSE
    <3>1. Answered(Caller, n, Failure) \/ Answered(Caller, n, Challenge)
      BY <1>t, <2>2 DEF FailureAckInv
    <3>2. Answered(Caller, n, Success)
      BY <2>2 DEF FirstInv
    <3> QED BY <1>t, <3>1, <3>2, KindsDiffer DEF OneAnswerPerInvite, Answered
  <2>3. p = Callee => Confirmed \/ status[p] = "ReACCEPTED"
    BY <1>21, <2>1, <2>2 DEF ReceiveAck, AckWithoutTransaction
  <2> QED BY <1>t, <1>21, <2>3, NothingSent, SetupViews DEF ReceiveAck, Becomes
<1>22. ASSUME NEW p \in Phones, NEW n \in CSeqs, ReceiveBye(p, n) PROVE SetupInv'
  <2>1. (Succeeded' <=> Succeeded) /\ (Confirmed' <=> Confirmed)
    BY <1>22, ByeAnswerSent, SetupViews DEF ReceiveBye, AnswerClasses
  <2> QED BY <1>t, <1>22, <2>1 DEF ReceiveBye, Becomes
<1>23. ASSUME NEW p \in Phones, NEW n \in CSeqs, ReceiveCancel(p, n) PROVE SetupInv'
  BY <1>t, <1>23, <1>f DEF ReceiveCancel, Becomes, cseqVars, PhonesOK, Fails
<1>24. ASSUME NEW p \in Phones, NEW m \in {"INVITE", "BYE"}, NEW n \in CSeqs,
              ProxyAnswersRequest(p, m, n)
       PROVE SetupInv'
  <2>1. (Succeeded' <=> Succeeded) /\ (Confirmed' <=> Confirmed)
    <3>1. PICK c \in plan.proxyAnswers : Send({Msg(Peer(p), Response(m, c), n)})
      BY <1>24 DEF ProxyAnswersRequest
    <3>2. c \in AnswerClasses /\ c # Success
      BY PlanFacts, KindsDiffer DEF Typed, AnswerClasses
    <3>3. Response(m, c) # Response("INVITE", Success)
      BY <3>2 DEF Response
    <3> QED BY <3>1, <3>2, <3>3, WithoutMsg, SetupKept, KindsDiffer
  <2> QED BY <1>24, <2>1 DEF ProxyAnswersRequest, cseqVars
<1> QED BY <1>1, <1>2, <1>3, <1>4, <1>5, <1>6, <1>7, <1>8, <1>9, <1>10, <1>11, <1>12, <1>13,
     <1>14, <1>15, <1>16, <1>17, <1>18, <1>19, <1>20, <1>21, <1>22, <1>23, <1>24 DEF Step,
     UserStep, ClientStep, ServerStep

-----------------------------------------------------------------------------
(* Who may do what.                                                        *)

\* Messages of which MessagesInv says nothing.
Unmarked(ms) ==
  /\ \A m \in {"INVITE", "BYE"} : Without(ms, Response(m, Challenge))
  /\ \A p, n : TaggedMsg(p, Invite, n, TRUE) \notin ms

\* Messages that are neither challenges nor change a call say nothing of the plan.
LEMMA MessagesKept ==
  ASSUME MessagesInv, UNCHANGED plan, NEW ms, Send(ms), Unmarked(ms)
  PROVE  MessagesInv'
<1>1. \A p, n : Sent(p, Response("INVITE", Challenge), n)'
        <=> Sent(p, Response("INVITE", Challenge), n)
  BY NoneSent DEF Unmarked, Without, Sent, Msg
<1>2. \A p, n : Sent(p, Response("BYE", Challenge), n)' <=> Sent(p, Response("BYE", Challenge), n)
  BY NoneSent DEF Unmarked, Without, Sent, Msg
<1>3. \A p, n : AskedAs(p, n, TRUE)' <=> AskedAs(p, n, TRUE)
  BY NoneSent DEF Unmarked, AskedAs
<1> QED BY <1>1, <1>2, <1>3 DEF MessagesInv, Answered, ByeAnswered

\* Which messages those are.
LEMMA UnmarkedMsg ==
  ASSUME NEW q, NEW m, NEW n, NEW t,
         m # Response("INVITE", Challenge), m # Response("BYE", Challenge), m # Invite \/ t # TRUE
  PROVE  Unmarked({TaggedMsg(q, m, n, t)})
<1>1. \A k \in {"INVITE", "BYE"} : Without({TaggedMsg(q, m, n, t)}, Response(k, Challenge))
  BY WithoutOne
<1>2. \A p, k : TaggedMsg(p, Invite, k, TRUE) # TaggedMsg(q, m, n, t)
  BY DEF TaggedMsg
<1> QED BY <1>1, <1>2 DEF Unmarked

\* Only a plan's proxies challenge, and only its re-inviters change the call.
LEMMA MessagesStay ==
  ASSUME Typed, SetupInv, MessagesInv, RoleInv, Next
  PROVE  MessagesInv'
<1>t. /\ PhonesOK /\ plan \in Plans /\ UNCHANGED plan /\ Step
      /\ Caller # Callee /\ Phones = {Caller, Callee}
      /\ \A p \in Phones : Peer(p) \in Phones /\ Peer(p) # p /\ Peer(Peer(p)) = p
  BY TypeOKParts, PeerFacts DEF Typed, Next
<1>k. \A m \in {"INVITE", "BYE"} :
        /\ Response(m, Challenge) # Invite /\ Response(m, Challenge) # SuccessAck
        /\ Response(m, Challenge) # FailureAck /\ Response(m, Challenge) # Request("BYE")
        /\ Response(m, Challenge) # Request("CANCEL")
        /\ \A k \in {"INVITE", "BYE"}, c \in {Success, Failure} :
             Response(m, Challenge) # Response(k, c)
        /\ \A k \in {"INVITE", "BYE"}, c \in {Success, Failure} : Response(k, c) # Invite
  BY KindsDiffer DEF AnswerClasses, Response
<1>e. Unmarked({})
  BY DEF Unmarked, Without
<1>u. UNCHANGED wire => MessagesInv'
  <2>1. UNCHANGED wire => Send({})
    BY DEF Send
  <2> QED BY <1>t, <1>e, <2>1, MessagesKept
\* INVITEs, with the tags of a phone that changes the call.
<1>i. ASSUME NEW p \in Phones, NEW k, NEW t \in BOOLEAN, NEW j,
             \/ Send({TaggedMsg(Peer(p), Invite, k, t)})
             \/ Send(AcksFailure(p, j) \cup {TaggedMsg(Peer(p), Invite, k, t)}),
             t = TRUE => p \in plan.reInviters
      PROVE  MessagesInv'
  <2>1. SameAnswers /\ SameByeAnswers
    BY <1>i, InviteSent, InviteSentAgain
  <2>2. \A q \in Phones, n \in CSeqs, s \in BOOLEAN :
          AskedAs(q, n, s)' <=> AskedAs(q, n, s) \/ (q = Peer(p) /\ n = k /\ s = t)
    BY <1>i, InviteSent, InviteSentAgain
  <2>3. \A q \in Phones, n \in CSeqs : AskedAs(q, n, TRUE)' =>
          AskedAs(q, n, TRUE) \/ (q = Peer(p) /\ TRUE = t)
    BY <2>2
  <2> QED BY <1>t, <1>i, <2>1, <2>3 DEF MessagesInv, SameAnswers, SameByeAnswers,
       AnswerClasses
<1>s. ASSUME NEW p \in Phones, SendsInvite(p), tagged[p] = TRUE => p \in plan.reInviters
      PROVE  MessagesInv'
  BY <1>t, <1>s, <1>i DEF SendsInvite, PhonesOK
<1>f. ASSUME NEW p \in Phones, Fails(p) PROVE MessagesInv'
  <2>1. Unmarked({Msg(Peer(p), Response("INVITE", Failure), inviteReq[p])})
    BY <1>k, UnmarkedMsg DEF Msg
  <2> QED BY <1>t, <1>f, <1>e, <2>1, MessagesKept DEF Fails
<1>c. \A p \in Phones : Unmarked({CancelMsg(p)})
  BY <1>k, UnmarkedMsg, KindsDiffer DEF CancelMsg
<1>a. \A p \in Phones, n \in CSeqs : Unmarked(AcksFailure(p, n))
  BY <1>k, <1>e, UnmarkedMsg, KindsDiffer DEF AcksFailure, Msg
<1>1. ASSUME Listen PROVE MessagesInv'
  BY <1>u, <1>1 DEF Listen
<1>2. ASSUME InvitePeer PROVE MessagesInv'
  <2>1. ~tagged[Caller]
    BY <1>2 DEF InvitePeer, SetupInv, InCall, Modifying
  <2> QED BY <1>t, <1>s, <1>2, <2>1 DEF InvitePeer, PhonesOK
<1>3. ASSUME NEW p \in Phones, ReInvite(p) PROVE MessagesInv'
  BY <1>s, <1>3 DEF ReInvite
<1>4. ASSUME NEW p \in Phones, Accept(p) PROVE MessagesInv'
  <2>1. Unmarked({Msg(Peer(p), Response("INVITE", Success), inviteReq[p])})
    BY <1>k, UnmarkedMsg, KindsDiffer DEF Msg
  <2> QED BY <1>t, <1>4, <2>1, MessagesKept DEF Accept
<1>5. ASSUME NEW p \in Phones, Refuse(p) PROVE MessagesInv'
  BY <1>f, <1>5 DEF Refuse
<1>6. ASSUME NEW p \in Phones, Cancel(p) PROVE MessagesInv'
  BY <1>t, <1>u, <1>c, <1>6, MessagesKept DEF Cancel
<1>7. ASSUME NEW p \in Phones, Bye(p) PROVE MessagesInv'
  <2>1. Unmarked({Msg(Peer(p), Request("BYE"), localCSeq[p] + 1)})
    BY <1>k, UnmarkedMsg, KindsDiffer DEF Msg
  <2> QED BY <1>t, <1>7, <2>1, MessagesKept DEF Bye
<1>8. ASSUME NEW p \in Phones, NEW n \in CSeqs, InviteSucceeds(p, n) PROVE MessagesInv'
  <2>1. Unmarked({Msg(Peer(p), SuccessAck, n)})
    BY <1>k, UnmarkedMsg, KindsDiffer DEF Msg
  <2> QED BY <1>t, <1>u, <1>8, <2>1, MessagesKept DEF InviteSucceeds
<1>9. ASSUME NEW p \in Phones, NEW n \in CSeqs, InviteFails(p, n) PROVE MessagesInv'
  BY <1>t, <1>a, <1>9, MessagesKept DEF InviteFails
<1>10. ASSUME NEW p \in Phones, NEW n \in CSeqs, InviteChallenged(p, n) PROVE MessagesInv'
  <2>1. PICK tags \in BOOLEAN :
          /\ TaggedMsg(Peer(p), Invite, n, tags) \in wire
          /\ Send(AcksFailure(p, n) \cup {TaggedMsg(Peer(p), Invite, n + 1, tags)})
    BY <1>10 DEF InviteChallenged
  <2>2. tags = TRUE => p \in plan.reInviters
    BY <1>t, <2>1 DEF MessagesInv, AskedAs
  <2> QED BY <1>i, <2>1, <2>2
<1>11. ASSUME NEW p \in Phones, NEW n \in CSeqs, InviteTimesOut(p, n) PROVE MessagesInv'
  BY <1>t, <1>u, <1>c, <1>11, MessagesKept DEF InviteTimesOut
<1>12. ASSUME NEW p \in Phones, NEW n \in CSeqs, ByeSucceeds(p, n) PROVE MessagesInv'
  BY <1>u, <1>12 DEF ByeSucceeds, ByeEnds
<1>13. ASSUME NEW p \in Phones, NEW n \in CSeqs, ByeFails(p, n) PROVE MessagesInv'
  BY <1>u, <1>13 DEF ByeFails
<1>14. ASSUME NEW p \in Phones, NEW n \in CSeqs, ByeChallenged(p, n) PROVE MessagesInv'
  <2>1. Unmarked({Msg(Peer(p), Request("BYE"), n + 1)})
    BY <1>k, UnmarkedMsg, KindsDiffer DEF Msg
  <2> QED BY <1>t, <1>14, <2>1, MessagesKept DEF ByeChallenged
<1>15. ASSUME NEW p \in Phones, NEW n \in CSeqs, ByeTimesOut(p, n) PROVE MessagesInv'
  BY <1>u, <1>15 DEF ByeTimesOut, ByeEnds
<1>16. ASSUME NEW n \in CSeqs, ReceiveFirstInvite(n) PROVE MessagesInv'
  BY <1>u, <1>16 DEF ReceiveFirstInvite
<1>17. ASSUME NEW p \in Phones, NEW n \in CSeqs, ReceiveFailureAck(p, n) PROVE MessagesInv'
  BY <1>u, <1>17 DEF ReceiveFailureAck
<1>18. ASSUME NEW p \in Phones, NEW n \in CSeqs, FailureAckTimesOut(p, n) PROVE MessagesInv'
  BY <1>u, <1>18 DEF FailureAckTimesOut
<1>19. ASSUME NEW p \in Phones, NEW n \in CSeqs, AckTimesOut(p, n) PROVE MessagesInv'
  BY <1>u, <1>19 DEF AckTimesOut
<1>20. ASSUME NEW p \in Phones, NEW n \in CSeqs, ReceiveReInvite(p, n) PROVE MessagesInv'
  BY <1>u, <1>20 DEF ReceiveReInvite
<1>21. ASSUME NEW p \in Phones, NEW n \in CSeqs, ReceiveAck(p, n) PROVE MessagesInv'
  BY <1>u, <1>21 DEF ReceiveAck
<1>22. ASSUME NEW p \in Phones, NEW n \in CSeqs, ReceiveBye(p, n) PROVE MessagesInv'
  <2>1. Unmarked({Msg(Peer(p), Response("BYE", Success), n)})
    BY <1>k, UnmarkedMsg, KindsDiffer DEF Msg
  <2> QED BY <1>t, <1>22, <2>1, MessagesKept DEF ReceiveBye
<1>23. ASSUME NEW p \in Phones, NEW n \in CSeqs, ReceiveCancel(p, n) PROVE MessagesInv'
  BY <1>f, <1>23 DEF ReceiveCancel
<1>24. ASSUME NEW p \in Phones, NEW m \in {"INVITE", "BYE"}, NEW n \in CSeqs,
              ProxyAnswersRequest(p, m, n)
       PROVE MessagesInv'
  <2>1. PICK c \in plan.proxyAnswers : Send({Msg(Peer(p), Response(m, c), n)})
    BY <1>24 DEF ProxyAnswersRequest
  <2>2. CASE c = Challenge
    <3>1. Send({Msg(Peer(p), Response(m, Challenge), n)}) /\ Challenge \in AnswerClasses
      BY <2>1, <2>2 DEF AnswerClasses
    <3>2. SameAsked
      BY <3>1, AnswerSent, ByeAnswerSent
    <3> QED BY <1>t, <2>2, <3>2 DEF MessagesInv, SameAsked
  <2>3. CASE c # Challenge
    <3>1. c \in {Success, Failure}
      BY <1>t, <2>3, PlanFacts
    <3>2. Unmarked({Msg(Peer(p), Response(m, c), n)})
      BY <1>k, <3>1, UnmarkedMsg DEF Msg
    <3> QED BY <1>t, <2>1, <3>2, MessagesKept
  <2> QED BY <2>2, <2>3
<1>25. Step
  BY <1>t
<1> QED BY <1>25, <1>1, <1>2, <1>3, <1>4, <1>5, <1>6, <1>7, <1>8, <1>9, <1>10, <1>11, <1>12,
     <1>13, <1>14, <1>15, <1>16, <1>17, <1>18, <1>19, <1>20, <1>21, <1>22, <1>23, <1>24
     DEF Step, UserStep, ClientStep, ServerStep

\* A phone has the transactions its role in the call gives it.
LEMMA RolesStay ==
  ASSUME Typed, SetupInv, MessagesInv, RoleInv, WaitsAreCovered, Next
  PROVE  RoleInv' /\ WaitsAreCovered'
<1>t. /\ PhonesOK /\ UNCHANGED plan /\ Step
      /\ Caller # Callee /\ Phones = {Caller, Callee}
      /\ Peer(Caller) = Callee /\ Peer(Callee) = Caller
  BY TypeOKParts, PeerFacts DEF Typed, Next
<1>p. /\ plan.reInviters \subseteq Phones
      /\ Challenge \in plan.proxyAnswers => plan.reInviters # Phones
  BY PlanFacts DEF Typed
<1> USE DEF RoleInv, WaitsAreCovered, Pending, Inviting, Invited, Accepted, Refused
<1>1. ASSUME Listen PROVE RoleInv' /\ WaitsAreCovered'
  BY <1>t, <1>1 DEF Listen, Becomes, cseqVars, clientVars, serverVars
<1>2. ASSUME InvitePeer PROVE RoleInv' /\ WaitsAreCovered'
  BY <1>t, <1>2 DEF InvitePeer, Becomes, PhonesOK, serverVars, SendsInvite
<1>3. ASSUME NEW p \in Phones, ReInvite(p) PROVE RoleInv' /\ WaitsAreCovered'
  BY <1>t, <1>3 DEF ReInvite, Becomes, PhonesOK, serverVars, SendsInvite
<1>4. ASSUME NEW p \in Phones, Accept(p) PROVE RoleInv' /\ WaitsAreCovered'
  BY <1>t, <1>4 DEF Accept, Becomes, PhonesOK, clientVars
<1>5. ASSUME NEW p \in Phones, Refuse(p) PROVE RoleInv' /\ WaitsAreCovered'
  BY <1>t, <1>5 DEF Refuse, Becomes, clientVars, Fails
<1>6. ASSUME NEW p \in Phones, Cancel(p) PROVE RoleInv' /\ WaitsAreCovered'
  BY <1>t, <1>6 DEF Cancel, cseqVars, clientVars, serverVars
<1>7. ASSUME NEW p \in Phones, Bye(p) PROVE RoleInv' /\ WaitsAreCovered'
  BY <1>t, <1>7 DEF Bye, Becomes, PhonesOK, serverVars
<1>8. ASSUME NEW p \in Phones, NEW n \in CSeqs, InviteSucceeds(p, n)
      PROVE RoleInv' /\ WaitsAreCovered'
  BY <1>t, <1>8 DEF InviteSucceeds, Becomes, PhonesOK, serverVars, Reports
<1>9. ASSUME NEW p \in Phones, NEW n \in CSeqs, InviteFails(p, n)
      PROVE RoleInv' /\ WaitsAreCovered'
  BY <1>t, <1>9 DEF InviteFails, Becomes, PhonesOK, cseqVars, serverVars, Reports
<1>10. ASSUME NEW p \in Phones, NEW n \in CSeqs, InviteChallenged(p, n)
       PROVE RoleInv' /\ WaitsAreCovered'
  <2>1. Challenge \in plan.proxyAnswers
    BY <1>10 DEF InviteChallenged, MessagesInv, Answered
  <2>2. plan.reInviters # Phones
    BY <1>p, <2>1
  <2> QED BY <1>t, <1>10 DEF InviteChallenged, PhonesOK, serverVars
<1>11. ASSUME NEW p \in Phones, NEW n \in CSeqs, InviteTimesOut(p, n)
       PROVE RoleInv' /\ WaitsAreCovered'
  BY <1>t, <1>11 DEF InviteTimesOut, Becomes, PhonesOK, cseqVars, serverVars, Reports
<1>12. ASSUME NEW p \in Phones, NEW n \in CSeqs, ByeSucceeds(p, n)
       PROVE RoleInv' /\ WaitsAreCovered'
  BY <1>t, <1>12 DEF ByeSucceeds, Becomes, PhonesOK, cseqVars, serverVars, ByeEnds
<1>13. ASSUME NEW p \in Phones, NEW n \in CSeqs, ByeFails(p, n)
       PROVE RoleInv' /\ WaitsAreCovered'
  BY <1>t, <1>13 DEF ByeFails, Becomes, PhonesOK, cseqVars, serverVars
<1>14. ASSUME NEW p \in Phones, NEW n \in CSeqs, ByeChallenged(p, n)
       PROVE RoleInv' /\ WaitsAreCovered'
  <2>1. Challenge \in plan.proxyAnswers
    BY <1>14 DEF ByeChallenged, MessagesInv, ByeAnswered
  <2>2. plan.reInviters # Phones
    BY <1>p, <2>1
  <2>3. p \notin plan.reInviters \/ Peer(p) \notin plan.reInviters
    BY <1>t, <1>p, <2>2
  <2>4. status[p] \notin Inviting
    BY <1>14, <2>3 DEF ByeChallenged
  <2>5. byeTc' = [byeTc EXCEPT ![p] = (@ \ {n}) \cup {n + 1}] /\ n \in byeTc[p]
          /\ inviteReq' = [inviteReq EXCEPT ![p] = 0]
    BY <1>14 DEF ByeChallenged
  <2>6. UNCHANGED <<status, inviteTc, retryTc, ackTs, plan>>
    BY <1>t, <1>14 DEF ByeChallenged, serverVars
  <2>7. byeTc'[p] # {} /\ byeTc[p] # {} /\ byeTc'[p] = (byeTc[p] \ {n}) \cup {n + 1}
    BY <1>t, <2>5 DEF PhonesOK
  <2>8. \A q \in Phones : q # p => byeTc'[q] = byeTc[q] /\ inviteReq'[q] = inviteReq[q]
    BY <1>t, <2>5 DEF PhonesOK
  <2>9. WaitsAreCovered'
    BY <1>t, <2>4, <2>6, <2>7, <2>8
  <2>10. RoleInv'
    BY <1>t, <2>5, <2>6, <2>7, <2>8
  <2> QED BY <2>9, <2>10
<1>15. ASSUME NEW p \in Phones, NEW n \in CSeqs, ByeTimesOut(p, n)
       PROVE RoleInv' /\ WaitsAreCovered'
  BY <1>t, <1>15 DEF ByeTimesOut, Becomes, PhonesOK, cseqVars, serverVars, ByeEnds
<1>16. ASSUME NEW n \in CSeqs, ReceiveFirstInvite(n) PROVE RoleInv' /\ WaitsAreCovered'
  BY <1>t, <1>16 DEF ReceiveFirstInvite, Becomes, clientVars
<1>17. ASSUME NEW p \in Phones, NEW n \in CSeqs, ReceiveFailureAck(p, n)
       PROVE RoleInv' /\ WaitsAreCovered'
  BY <1>t, <1>17 DEF ReceiveFailureAck, Becomes, PhonesOK, cseqVars, clientVars
<1>18. ASSUME NEW p \in Phones, NEW n \in CSeqs, FailureAckTimesOut(p, n)
       PROVE RoleInv' /\ WaitsAreCovered'
  BY <1>t, <1>18 DEF FailureAckTimesOut, cseqVars, clientVars
<1>19. ASSUME NEW p \in Phones, NEW n \in CSeqs, AckTimesOut(p, n)
       PROVE RoleInv' /\ WaitsAreCovered'
  BY <1>t, <1>19 DEF AckTimesOut, Becomes, PhonesOK, cseqVars, clientVars
<1>20. ASSUME NEW p \in Phones, NEW n \in CSeqs, ReceiveReInvite(p, n)
       PROVE RoleInv' /\ WaitsAreCovered'
  <2>1. Peer(p) \in plan.reInviters
    BY <1>20 DEF ReceiveReInvite, MessagesInv, AskedAs, Sent, Msg
  <2>2. status[p] # "INVITING"
    BY <1>t, <1>20 DEF ReceiveReInvite, Dispatched, SetupInv, InCall, Modifying
  <2> QED BY <1>t, <1>20, <2>1, <2>2 DEF ReceiveReInvite, Becomes, PhonesOK, clientVars
<1>21. ASSUME NEW p \in Phones, NEW n \in CSeqs, ReceiveAck(p, n)
       PROVE RoleInv' /\ WaitsAreCovered'
  BY <1>t, <1>21 DEF ReceiveAck, Becomes, PhonesOK, cseqVars, clientVars
<1>22. ASSUME NEW p \in Phones, NEW n \in CSeqs, ReceiveBye(p, n)
       PROVE RoleInv' /\ WaitsAreCovered'
  BY <1>t, <1>22 DEF ReceiveBye, Becomes, cseqVars, clientVars, serverVars
<1>23. ASSUME NEW p \in Phones, NEW n \in CSeqs, ReceiveCancel(p, n)
       PROVE RoleInv' /\ WaitsAreCovered'
  BY <1>t, <1>23 DEF ReceiveCancel, Becomes, clientVars, Fails
<1>24. ASSUME NEW p \in Phones, NEW m \in {"INVITE", "BYE"}, NEW n \in CSeqs,
              ProxyAnswersRequest(p, m, n)
       PROVE RoleInv' /\ WaitsAreCovered'
  BY <1>t, <1>24 DEF ProxyAnswersRequest, cseqVars, clientVars, serverVars
<1>25. Step
  BY <1>t
<1> QED BY <1>25, <1>1, <1>2, <1>3, <1>4, <1>5, <1>6, <1>7, <1>8, <1>9, <1>10, <1>11, <1>12,
     <1>13, <1>14, <1>15, <1>16, <1>17, <1>18, <1>19, <1>20, <1>21, <1>22, <1>23, <1>24
     DEF Step, UserStep, ClientStep, ServerStep

-----------------------------------------------------------------------------
(* What INVITEs are answered.                                              *)

AskedGrows == \A p \in Phones, n \in CSeqs : Asked(p, n) => Asked(p, n)'

\* A request that has been sent stays sent.
LEMMA WireGrows ==
  ASSUME wire \subseteq wire'
  PROVE  AskedGrows
BY DEF AskedGrows, Asked, AskedAs

\* The server transactions other than that of INVITE n of p.
OthersServe(p, n) ==
  \A q \in Phones, k \in CSeqs : q # p \/ k # n => inviteTs'[q][k] = inviteTs[q][k]

\* Where nothing is answered, what has been answered stays so.
LEMMA AnswersKept ==
  ASSUME AnswerInv, OneAnswerPerInvite, UNCHANGED inviteTs, SameAnswers, AskedGrows
  PROVE  AnswerInv' /\ OneAnswerPerInvite'
<1>1. \A p \in Phones, n \in CSeqs : Unanswered(p, n)' <=> Unanswered(p, n)
  BY PeerFacts DEF SameAnswers, Unanswered
<1>2. AnswerInv'
  BY <1>1, PeerFacts DEF AnswerInv, SameAnswers, AskedGrows, AnswerClasses
<1>3. OneAnswerPerInvite'
  BY DEF OneAnswerPerInvite, SameAnswers, Answered, AnswerClasses
<1> QED BY <1>2, <1>3

\* A server transaction that no answer comes of.
LEMMA ServerMoves ==
  ASSUME AnswerInv, OneAnswerPerInvite, NEW p \in Phones, NEW n \in CSeqs,
         SameAnswers, AskedGrows, OthersServe(p, n),
         Asked(p, n), inviteTs'[p][n] # "none", inviteTs'[p][n] = "open" => Unanswered(p, n)
  PROVE  AnswerInv' /\ OneAnswerPerInvite'
<1>1. \A q \in Phones, k \in CSeqs : Unanswered(q, k)' <=> Unanswered(q, k)
  BY PeerFacts DEF SameAnswers, Unanswered
<1>2. ASSUME NEW q \in Phones, NEW k \in CSeqs
      PROVE  /\ inviteTs'[q][k] = "none" => ~Answered(Peer(q), k, Success)'
             /\ inviteTs'[q][k] = "open" => Unanswered(q, k)'
             /\ (inviteTs'[q][k] = "none" /\ Unanswered(q, k)') \/ Asked(q, k)'
  <2>1. CASE q = p /\ k = n
    BY <1>1, <2>1 DEF AskedGrows
  <2>2. CASE q # p \/ k # n
    BY <1>1, PeerFacts DEF AnswerInv, SameAnswers, AskedGrows, AnswerClasses, OthersServe
  <2> QED BY <2>1, <2>2
<1>3. OneAnswerPerInvite'
  BY DEF OneAnswerPerInvite, SameAnswers, Answered, AnswerClasses
<1> QED BY <1>2, <1>3 DEF AnswerInv

\* The first answer to an INVITE.
LEMMA FirstAnswer ==
  ASSUME AnswerInv, OneAnswerPerInvite,
         NEW p \in Phones, NEW n \in CSeqs, NEW d \in AnswerClasses,
         Send({Msg(Peer(p), Response("INVITE", d), n)}), OthersServe(p, n),
         Asked(p, n), Unanswered(p, n),
         inviteTs'[p][n] # "open", inviteTs'[p][n] = "none" => d # Success
  PROVE  AnswerInv' /\ OneAnswerPerInvite'
<1>1. SameAsked /\ \A q \in Phones, k \in CSeqs, c \in AnswerClasses :
        Answered(q, k, c)' <=> Answered(q, k, c) \/ (q = Peer(p) /\ k = n /\ c = d)
  BY AnswerSent
<1>2. \A q \in Phones, k \in CSeqs, c \in AnswerClasses : q # p \/ k # n =>
        (Answered(Peer(q), k, c)' <=> Answered(Peer(q), k, c))
  BY <1>1, PeerFacts
<1>3. \A q \in Phones, k \in CSeqs : q # p \/ k # n => (Unanswered(q, k)' <=> Unanswered(q, k))
  BY <1>2 DEF Unanswered
<1>4. AskedGrows
  BY <1>1 DEF AskedGrows, SameAsked, Asked
<1>5. \A c \in AnswerClasses : Answered(Peer(p), n, c)' => c = d
  BY <1>1, PeerFacts DEF Unanswered
<1>6. ASSUME NEW q \in Phones, NEW k \in CSeqs
      PROVE  /\ inviteTs'[q][k] = "none" => ~Answered(Peer(q), k, Success)'
             /\ inviteTs'[q][k] = "open" => Unanswered(q, k)'
             /\ (inviteTs'[q][k] = "none" /\ Unanswered(q, k)') \/ Asked(q, k)'
  <2>1. CASE q = p /\ k = n
    BY <1>4, <1>5, <2>1 DEF AskedGrows, AnswerClasses
  <2>2. CASE q # p \/ k # n
    BY <1>2, <1>3, <1>4, <2>2 DEF AnswerInv, AskedGrows, AnswerClasses, OthersServe
  <2> QED BY <2>1, <2>2
<1>7. ASSUME NEW q \in Phones, NEW k \in CSeqs, NEW b \in AnswerClasses, NEW c \in AnswerClasses,
             Answered(Peer(q), k, b)', Answered(Peer(q), k, c)'
      PROVE  b = c
  <2>1. CASE q = p /\ k = n
    BY <1>5, <1>7, <2>1
  <2>2. CASE q # p \/ k # n
    BY <1>2, <1>7, <2>2, PeerFacts DEF OneAnswerPerInvite, Answered, AnswerClasses
  <2> QED BY <2>1, <2>2
<1>8. OneAnswerPerInvite'
  BY <1>7, PeerFacts DEF OneAnswerPerInvite, Answered, AnswerClasses
<1> QED BY <1>6, <1>8 DEF AnswerInv

\* An INVITE without server transaction that no proxy has stopped has no answer.
LEMMA UnansweredMeans ==
  ASSUME NEW p \in Phones, NEW n \in CSeqs, AnswerInv,
         inviteTs[p][n] = "none", ~Stopped(p, "INVITE", n)
  PROVE  Unanswered(p, n)
BY DEF AnswerInv, Stopped, Unanswered, Answered, AnswerClasses

\* An INVITE is answered once, by the proxy or by its server transaction.
LEMMA AnswersStay ==
  ASSUME Typed, AnswerInv, ServingInv, OneAnswerPerInvite, Step
  PROVE  AnswerInv' /\ OneAnswerPerInvite'
<1>t. /\ PhonesOK /\ plan \in Plans
      /\ \A p \in Phones : Peer(p) \in Phones
  BY TypeOKParts, PeerFacts DEF Typed
<1>n. UNCHANGED <<wire, inviteTs>> => AnswerInv' /\ OneAnswerPerInvite'
  BY NothingSent, WireGrows, AnswersKept DEF SameViews
<1>w. \A ms : Send(ms) => AskedGrows
  BY WireGrows DEF Send
<1>k. UNCHANGED inviteTs /\ SameAnswers /\ AskedGrows => AnswerInv' /\ OneAnswerPerInvite'
  BY AnswersKept
<1>s. ASSUME NEW p \in Phones, SendsInvite(p) PROVE AnswerInv' /\ OneAnswerPerInvite'
  BY <1>k, <1>w, <1>s, InviteSent DEF SendsInvite, serverVars
<1>o. ASSUME NEW p \in Phones, NEW n \in CSeqs, n = inviteReq[p], status[p] \in Invited, n # 0
      PROVE  inviteTs[p][n] = "open" /\ Asked(p, n) /\ Unanswered(p, n)
  BY <1>o DEF AnswerInv, ServingInv
<1>f. ASSUME NEW p \in Phones, Fails(p) PROVE AnswerInv' /\ OneAnswerPerInvite'
  <2> DEFINE n == inviteReq[p]
  <2>1. n \in CSeqs /\ inviteTs[p][n] = "open" /\ Asked(p, n) /\ Unanswered(p, n)
    BY <1>t, <1>f, <1>o DEF Fails, PhonesOK
  <2>2. /\ inviteTs' = [inviteTs EXCEPT ![p][n] = "completed"]
        /\ Send({Msg(Peer(p), Response("INVITE", Failure), n)})
    BY <1>t, <1>f, <2>1 DEF Fails, PhonesOK
  <2> HIDE DEF n
  <2>3. inviteTs'[p][n] = "completed" /\ OthersServe(p, n)
    BY <1>t, <2>1, <2>2 DEF OthersServe, PhonesOK
  <2> QED BY <2>1, <2>2, <2>3, FirstAnswer DEF AnswerClasses
<1>1. ASSUME Listen PROVE AnswerInv' /\ OneAnswerPerInvite'
  BY <1>n, <1>1 DEF Listen, serverVars
<1>2. ASSUME InvitePeer PROVE AnswerInv' /\ OneAnswerPerInvite'
  BY <1>s, <1>2, PeerFacts DEF InvitePeer
<1>3. ASSUME NEW p \in Phones, ReInvite(p) PROVE AnswerInv' /\ OneAnswerPerInvite'
  BY <1>s, <1>3, PeerFacts DEF ReInvite
<1>4. ASSUME NEW p \in Phones, Accept(p) PROVE AnswerInv' /\ OneAnswerPerInvite'
  <2> DEFINE n == inviteReq[p]
  <2>1. n \in CSeqs /\ inviteTs[p][n] = "open" /\ Asked(p, n) /\ Unanswered(p, n)
    BY <1>t, <1>4, <1>o DEF Accept, PhonesOK
  <2>2. /\ inviteTs' = [inviteTs EXCEPT ![p][n] = "ended"]
        /\ Send({Msg(Peer(p), Response("INVITE", Success), n)})
    BY <1>4 DEF Accept
  <2> HIDE DEF n
  <2>3. inviteTs'[p][n] = "ended" /\ OthersServe(p, n)
    BY <1>t, <2>1, <2>2 DEF OthersServe, PhonesOK
  <2> QED BY <2>1, <2>2, <2>3, FirstAnswer DEF AnswerClasses
<1>5. ASSUME NEW p \in Phones, Refuse(p) PROVE AnswerInv' /\ OneAnswerPerInvite'
  BY <1>f, <1>5 DEF Refuse
<1>6. ASSUME NEW p \in Phones, Cancel(p) PROVE AnswerInv' /\ OneAnswerPerInvite'
  BY <1>k, <1>w, <1>6, OtherSent DEF Cancel, CancelMsg, serverVars, SameViews
<1>7. ASSUME NEW p \in Phones, Bye(p) PROVE AnswerInv' /\ OneAnswerPerInvite'
  BY <1>k, <1>w, <1>7, ByeIsSent DEF Bye, serverVars
<1>8. ASSUME NEW p \in Phones, NEW n \in CSeqs, InviteSucceeds(p, n)
      PROVE AnswerInv' /\ OneAnswerPerInvite'
  BY <1>k, <1>n, <1>w, <1>8, AckSent DEF InviteSucceeds, serverVars
<1>9. ASSUME NEW p \in Phones, NEW n \in CSeqs, InviteFails(p, n)
      PROVE AnswerInv' /\ OneAnswerPerInvite'
  <2>1. SameAnswers
    BY <1>9, WithoutAcks, OthersStay, KindsDiffer DEF InviteFails
  <2> QED BY <1>k, <1>w, <1>9, <2>1 DEF InviteFails, serverVars
<1>10. ASSUME NEW p \in Phones, NEW n \in CSeqs, InviteChallenged(p, n)
       PROVE AnswerInv' /\ OneAnswerPerInvite'
  <2>1. SameAnswers
    BY <1>10, InviteSentAgain DEF InviteChallenged
  <2> QED BY <1>k, <1>w, <1>10, <2>1 DEF InviteChallenged, serverVars
<1>11. ASSUME NEW p \in Phones, NEW n \in CSeqs, InviteTimesOut(p, n)
       PROVE AnswerInv' /\ OneAnswerPerInvite'
  BY <1>k, <1>n, <1>w, <1>11, OtherSent DEF InviteTimesOut, CancelMsg, serverVars, SameViews
<1>12. ASSUME NEW p \in Phones, NEW n \in CSeqs, ByeSucceeds(p, n)
       PROVE AnswerInv' /\ OneAnswerPerInvite'
  BY <1>n, <1>12 DEF ByeSucceeds, ByeEnds, serverVars
<1>13. ASSUME NEW p \in Phones, NEW n \in CSeqs, ByeFails(p, n)
       PROVE AnswerInv' /\ OneAnswerPerInvite'
  BY <1>n, <1>13 DEF ByeFails, serverVars
<1>14. ASSUME NEW p \in Phones, NEW n \in CSeqs, ByeChallenged(p, n)
       PROVE AnswerInv' /\ OneAnswerPerInvite'
  BY <1>k, <1>w, <1>14, ByeIsSent DEF ByeChallenged, serverVars
<1>15. ASSUME NEW p \in Phones, NEW n \in CSeqs, ByeTimesOut(p, n)
       PROVE AnswerInv' /\ OneAnswerPerInvite'
  BY <1>n, <1>15 DEF ByeTimesOut, ByeEnds, serverVars
<1>16. ASSUME NEW n \in CSeqs, ReceiveFirstInvite(n) PROVE AnswerInv' /\ OneAnswerPerInvite'
  <2>1. Callee \in Phones /\ inviteTs[Callee][n] = "none" /\ Asked(Callee, n)
    BY <1>16, PeerFacts DEF ReceiveFirstInvite, ServingInv, Asked, AskedAs
  <2>2. Unanswered(Callee, n)
    BY <1>16, <2>1, UnansweredMeans DEF ReceiveFirstInvite
  <2>3. inviteTs'[Callee][n] = "open" /\ OthersServe(Callee, n)
    BY <1>t, <1>16, <2>1 DEF ReceiveFirstInvite, OthersServe, PhonesOK
  <2> QED BY <1>16, <2>1, <2>2, <2>3, NothingSent, WireGrows, ServerMoves
       DEF ReceiveFirstInvite, SameViews
<1>17. ASSUME NEW p \in Phones, NEW n \in CSeqs, ReceiveFailureAck(p, n)
       PROVE AnswerInv' /\ OneAnswerPerInvite'
  <2>1. Asked(p, n)
    BY <1>17 DEF ReceiveFailureAck, AnswerInv
  <2>2. inviteTs'[p][n] = "ended" /\ OthersServe(p, n)
    BY <1>t, <1>17 DEF ReceiveFailureAck, OthersServe, PhonesOK
  <2> QED BY <1>17, <2>1, <2>2, NothingSent, WireGrows, ServerMoves DEF ReceiveFailureAck,
       SameViews
<1>18. ASSUME NEW p \in Phones, NEW n \in CSeqs, FailureAckTimesOut(p, n)
       PROVE AnswerInv' /\ OneAnswerPerInvite'
  <2>1. Asked(p, n)
    BY <1>18 DEF FailureAckTimesOut, AnswerInv
  <2>2. inviteTs'[p][n] = "ended" /\ OthersServe(p, n)
    BY <1>t, <1>18 DEF FailureAckTimesOut, OthersServe, PhonesOK
  <2> QED BY <1>18, <2>1, <2>2, NothingSent, WireGrows, ServerMoves DEF FailureAckTimesOut,
       SameViews
<1>19. ASSUME NEW p \in Phones, NEW n \in CSeqs, AckTimesOut(p, n)
       PROVE AnswerInv' /\ OneAnswerPerInvite'
  BY <1>n, <1>19 DEF AckTimesOut, serverVars
<1>20. ASSUME NEW p \in Phones, NEW n \in CSeqs, ReceiveReInvite(p, n)
       PROVE AnswerInv' /\ OneAnswerPerInvite'
  <2>1. inviteTs[p][n] = "none" /\ Asked(p, n)
    BY <1>20 DEF ReceiveReInvite, Asked, AskedAs, Sent, Msg
  <2>2. Unanswered(p, n)
    BY <1>20, <2>1, UnansweredMeans DEF ReceiveReInvite
  <2>3. inviteTs'[p][n] = "open" /\ OthersServe(p, n)
    BY <1>t, <1>20 DEF ReceiveReInvite, OthersServe, PhonesOK
  <2> QED BY <1>20, <2>1, <2>2, <2>3, NothingSent, WireGrows, ServerMoves
       DEF ReceiveReInvite, SameViews
<1>21. ASSUME NEW p \in Phones, NEW n \in CSeqs, ReceiveAck(p, n)
       PROVE AnswerInv' /\ OneAnswerPerInvite'
  BY <1>n, <1>21 DEF ReceiveAck, serverVars
<1>22. ASSUME NEW p \in Phones, NEW n \in CSeqs, ReceiveBye(p, n)
       PROVE AnswerInv' /\ OneAnswerPerInvite'
  BY <1>k, <1>w, <1>22, ByeAnswerSent DEF ReceiveBye, serverVars, AnswerClasses
<1>23. ASSUME NEW p \in Phones, NEW n \in CSeqs, ReceiveCancel(p, n)
       PROVE AnswerInv' /\ OneAnswerPerInvite'
  BY <1>f, <1>23 DEF ReceiveCancel
<1>24. ASSUME NEW p \in Phones, NEW m \in {"INVITE", "BYE"}, NEW n \in CSeqs,
              ProxyAnswersRequest(p, m, n)
       PROVE AnswerInv' /\ OneAnswerPerInvite'
  <2>1. PICK c \in plan.proxyAnswers : Send({Msg(Peer(p), Response(m, c), n)})
    BY <1>24 DEF ProxyAnswersRequest
  <2>2. c \in AnswerClasses /\ c # Success
    BY <1>t, PlanFacts, KindsDiffer DEF AnswerClasses
  <2>3. CASE m = "BYE"
    BY <1>k, <1>w, <1>24, <2>1, <2>2, <2>3, ByeAnswerSent DEF ProxyAnswersRequest,
         serverVars
  <2>4. CASE m = "INVITE"
    <3>1. inviteTs[p][n] = "none" /\ Asked(p, n) /\ Unanswered(p, n)
      BY <1>24, <2>4, UnansweredMeans DEF ProxyAnswersRequest, Asked, AskedAs, Invite
    <3>2. OthersServe(p, n) /\ inviteTs'[p][n] = inviteTs[p][n]
      BY <1>24 DEF ProxyAnswersRequest, OthersServe, serverVars
    <3> QED BY <2>1, <2>2, <2>4, <3>1, <3>2, FirstAnswer
  <2> QED BY <2>3, <2>4
<1> QED BY <1>1, <1>2, <1>3, <1>4, <1>5, <1>6, <1>7, <1>8, <1>9, <1>10, <1>11, <1>12, <1>13,
     <1>14, <1>15, <1>16, <1>17, <1>18, <1>19, <1>20, <1>21, <1>22, <1>23, <1>24 DEF Step,
     UserStep, ClientStep, ServerStep

\* Which server transactions a dialog may have, given its state.
LEMMA ServingStays ==
  ASSUME Typed, SetupInv, MessagesInv, RoleInv, ServingInv, Next
  PROVE  ServingInv'
<1>t. /\ PhonesOK /\ UNCHANGED plan /\ Step /\ Callee \in Phones
      /\ Caller # Callee /\ Phones = {Caller, Callee}
      /\ Peer(Caller) = Callee /\ Peer(Callee) = Caller
  BY TypeOKParts, PeerFacts DEF Typed, Next
<1> USE DEF ServingInv, Inviting, Invited, Accepted, Refused
<1>1. ASSUME Listen PROVE ServingInv'
  BY <1>1 DEF Listen, Becomes, cseqVars, serverVars
<1>2. ASSUME InvitePeer PROVE ServingInv'
  BY <1>2 DEF InvitePeer, Becomes, serverVars, SendsInvite
<1>3. ASSUME NEW p \in Phones, ReInvite(p) PROVE ServingInv'
  BY <1>3 DEF ReInvite, Becomes, serverVars, SendsInvite
<1>4. ASSUME NEW p \in Phones, Accept(p) PROVE ServingInv'
  BY <1>t, <1>4 DEF Accept, Becomes, PhonesOK
<1>5. ASSUME NEW p \in Phones, Refuse(p) PROVE ServingInv'
  BY <1>t, <1>5 DEF Refuse, Becomes, PhonesOK, Fails
<1>6. ASSUME NEW p \in Phones, Cancel(p) PROVE ServingInv'
  BY <1>6 DEF Cancel, cseqVars, serverVars
<1>7. ASSUME NEW p \in Phones, Bye(p) PROVE ServingInv'
  BY <1>7 DEF Bye, Becomes, serverVars
<1>8. ASSUME NEW p \in Phones, NEW n \in CSeqs, InviteSucceeds(p, n) PROVE ServingInv'
  BY <1>t, <1>8 DEF InviteSucceeds, Becomes, PhonesOK, serverVars
<1>9. ASSUME NEW p \in Phones, NEW n \in CSeqs, InviteFails(p, n) PROVE ServingInv'
  BY <1>t, <1>9 DEF InviteFails, Becomes, PhonesOK, cseqVars, serverVars
<1>10. ASSUME NEW p \in Phones, NEW n \in CSeqs, InviteChallenged(p, n) PROVE ServingInv'
  <2>1. Challenge \in plan.proxyAnswers
    BY <1>10 DEF InviteChallenged, MessagesInv, Answered
  <2>2. plan.reInviters # Phones /\ plan.reInviters \subseteq Phones
    BY <2>1, PlanFacts DEF Typed
  <2>3. p \notin plan.reInviters \/ Peer(p) \notin plan.reInviters
    BY <1>t, <2>2
  <2>4. status[p] \notin Invited
    <3>1. Pending(p) # {}
      BY <1>10 DEF InviteChallenged
    <3>2. status[p] # "INVITED"
      BY <1>t, <3>1 DEF SetupInv, RoleInv, InCall, Modifying
    <3> QED BY <1>t, <2>3, <3>1, <3>2 DEF RoleInv
  <2> QED BY <1>10, <2>4 DEF InviteChallenged, serverVars
<1>11. ASSUME NEW p \in Phones, NEW n \in CSeqs, InviteTimesOut(p, n) PROVE ServingInv'
  BY <1>t, <1>11 DEF InviteTimesOut, Becomes, PhonesOK, cseqVars, serverVars
<1>12. ASSUME NEW p \in Phones, NEW n \in CSeqs, ByeSucceeds(p, n) PROVE ServingInv'
  BY <1>t, <1>12 DEF ByeSucceeds, Becomes, PhonesOK, cseqVars, serverVars, ByeEnds
<1>13. ASSUME NEW p \in Phones, NEW n \in CSeqs, ByeFails(p, n) PROVE ServingInv'
  BY <1>t, <1>13 DEF ByeFails, Becomes, PhonesOK, cseqVars, serverVars
<1>14. ASSUME NEW p \in Phones, NEW n \in CSeqs, ByeChallenged(p, n) PROVE ServingInv'
  BY <1>14 DEF ByeChallenged, serverVars
<1>15. ASSUME NEW p \in Phones, NEW n \in CSeqs, ByeTimesOut(p, n) PROVE ServingInv'
  BY <1>t, <1>15 DEF ByeTimesOut, Becomes, PhonesOK, cseqVars, serverVars, ByeEnds
<1>16. ASSUME NEW n \in CSeqs, ReceiveFirstInvite(n) PROVE ServingInv'
  BY <1>t, <1>16 DEF ReceiveFirstInvite, Becomes, PhonesOK
<1>17. ASSUME NEW p \in Phones, NEW n \in CSeqs, ReceiveFailureAck(p, n) PROVE ServingInv'
  BY <1>t, <1>17 DEF ReceiveFailureAck, Becomes, PhonesOK, cseqVars
<1>18. ASSUME NEW p \in Phones, NEW n \in CSeqs, FailureAckTimesOut(p, n) PROVE ServingInv'
  BY <1>18 DEF FailureAckTimesOut, cseqVars
<1>19. ASSUME NEW p \in Phones, NEW n \in CSeqs, AckTimesOut(p, n) PROVE ServingInv'
  BY <1>t, <1>19 DEF AckTimesOut, Becomes, PhonesOK, cseqVars
<1>20. ASSUME NEW p \in Phones, NEW n \in CSeqs, ReceiveReInvite(p, n) PROVE ServingInv'
  <2>1. p = Callee => status[p] \notin {"INIT", "WAITING"}
    BY <1>20 DEF ReceiveReInvite, Dispatched, SetupInv, InCall, Modifying
  <2> QED BY <1>t, <1>20 DEF ReceiveReInvite, Becomes, PhonesOK
<1>21. ASSUME NEW p \in Phones, NEW n \in CSeqs, ReceiveAck(p, n) PROVE ServingInv'
  BY <1>21 DEF ReceiveAck, Becomes, cseqVars
<1>22. ASSUME NEW p \in Phones, NEW n \in CSeqs, ReceiveBye(p, n) PROVE ServingInv'
  BY <1>22 DEF ReceiveBye, Becomes, cseqVars, serverVars
<1>23. ASSUME NEW p \in Phones, NEW n \in CSeqs, ReceiveCancel(p, n) PROVE ServingInv'
  BY <1>t, <1>23 DEF ReceiveCancel, Becomes, PhonesOK, Fails
<1>24. ASSUME NEW p \in Phones, NEW m \in {"INVITE", "BYE"}, NEW n \in CSeqs,
              ProxyAnswersRequest(p, m, n)
       PROVE ServingInv'
  BY <1>24 DEF ProxyAnswersRequest, cseqVars, serverVars
<1>25. Step
  BY <1>t
<1> QED BY <1>25, <1>1, <1>2, <1>3, <1>4, <1>5, <1>6, <1>7, <1>8, <1>9, <1>10, <1>11, <1>12,
     <1>13, <1>14, <1>15, <1>16, <1>17, <1>18, <1>19, <1>20, <1>21, <1>22, <1>23, <1>24
     DEF Step, UserStep, ClientStep, ServerStep

-----------------------------------------------------------------------------
(* Calls that nobody changes, and how they end.                            *)

\* A step that sends no INVITE and begins none leaves the challenged ones behind.
LEMMA InvitesKept ==
  ASSUME InvitesInv, UNCHANGED plan, SameAsked, Pending(Caller)' \subseteq Pending(Caller),
         status'[Caller] = "INIT" => status[Caller] = "INIT",
         \A n \in CSeqs : Answered(Caller, n, Challenge) => Answered(Caller, n, Challenge)'
  PROVE  InvitesInv'
<1>1. \A n \in CSeqs : Asked(Callee, n)' <=> Asked(Callee, n)
  BY PeerFacts DEF SameAsked, Asked
<1> QED BY <1>1 DEF InvitesInv

\* Of the INVITEs of a call that nobody changes, all but one are challenged.
LEMMA InvitesStay ==
  ASSUME Typed, SetupInv, RoleInv, InvitesInv, Next
  PROVE  InvitesInv'
<1>t. /\ PhonesOK /\ plan \in Plans /\ UNCHANGED plan /\ Step
      /\ Caller # Callee /\ Phones = {Caller, Callee}
      /\ Peer(Caller) = Callee /\ Peer(Callee) = Caller
  BY TypeOKParts, PeerFacts DEF Typed, Next
<1> SUFFICES ASSUME plan.reInviters = {} PROVE InvitesInv'
  BY <1>t DEF InvitesInv
<1>w. \A ms : Send(ms) => \A n \in CSeqs : Answered(Caller, n, Challenge)
        => Answered(Caller, n, Challenge)'
  BY DEF Send, Answered, Sent
<1>k. ASSUME NEW ms, Send(ms), Without(ms, Invite), Pending(Caller)' \subseteq Pending(Caller),
             status'[Caller] = "INIT" => status[Caller] = "INIT"
      PROVE  InvitesInv'
  BY <1>t, <1>w, <1>k, OthersStay, InvitesKept
<1>n. ASSUME UNCHANGED wire, Pending(Caller)' \subseteq Pending(Caller),
             status'[Caller] = "INIT" => status[Caller] = "INIT"
      PROVE  InvitesInv'
  <2>1. Send({}) /\ Without({}, Invite)
    BY <1>n DEF Send, Without
  <2> QED BY <1>k, <1>n, <2>1
<1>r. \A p \in Phones, n \in CSeqs : Without(AcksFailure(p, n), Invite)
  BY WithoutAcks, KindsDiffer
<1>m. \A q, k, m : m # Invite => Without({Msg(q, m, k)}, Invite)
  BY WithoutMsg
<1>v. Without({}, Invite) /\ \A p : Without({CancelMsg(p)}, Invite)
  BY WithoutOne, KindsDiffer DEF Without, CancelMsg
<1>i. ASSUME NEW p \in Phones, SendsInvite(p), p = Caller, status[p] = "INIT", status'[p] # "INIT"
      PROVE  InvitesInv'
  <2> DEFINE n == localCSeq[p] + 1
  <2>1. Pending(Caller) = {}
    BY <1>t, <1>i DEF RoleInv
  <2>2. Pending(Caller)' = {n}
    BY <1>t, <1>i, <2>1 DEF SendsInvite, PhonesOK, Pending
  <2>3. \A k \in CSeqs, t \in BOOLEAN :
          AskedAs(Callee, k, t)' <=> AskedAs(Callee, k, t) \/ (k = n /\ t = tagged[p])
    <3> HIDE DEF n
    <3>1. Send({TaggedMsg(Peer(p), Invite, n, tagged[p])})
      BY <1>i DEF SendsInvite, n
    <3> QED BY <1>t, <1>i, <3>1, InviteSent
  <2> HIDE DEF n
  <2>4. \A k \in CSeqs : Asked(Callee, k)' => k = n
    BY <1>i, <2>3 DEF Asked, InvitesInv
  <2> QED BY <1>i, <2>2, <2>4 DEF InvitesInv
<1>1. ASSUME Listen PROVE InvitesInv'
  BY <1>n, <1>1 DEF Listen, Becomes, Pending, clientVars
<1>2. ASSUME InvitePeer PROVE InvitesInv'
  BY <1>t, <1>i, <1>2 DEF InvitePeer, Becomes, PhonesOK
<1>3. ASSUME NEW p \in Phones, ReInvite(p) PROVE InvitesInv'
  BY <1>3 DEF ReInvite
<1>4. ASSUME NEW p \in Phones, Accept(p) PROVE InvitesInv'
  <2>1. Response("INVITE", Success) # Invite
    BY KindsDiffer DEF AnswerClasses
  <2>2. Pending(Caller)' \subseteq Pending(Caller) /\ (status'[Caller] = "INIT"
          => status[Caller] = "INIT")
    BY <1>4 DEF Accept, Becomes, Pending, clientVars
  <2> QED BY <1>k, <1>m, <1>4, <2>1, <2>2 DEF Accept
<1>5. ASSUME NEW p \in Phones, Refuse(p) PROVE InvitesInv'
  <2>1. Response("INVITE", Failure) # Invite
    BY KindsDiffer DEF AnswerClasses
  <2>2. Pending(Caller)' \subseteq Pending(Caller) /\ (status'[Caller] = "INIT"
          => status[Caller] = "INIT")
    BY <1>5 DEF Refuse, Fails, Becomes, Pending, clientVars
  <2> QED BY <1>k, <1>m, <1>v, <2>1, <1>5, <2>2 DEF Refuse, Fails
<1>6. ASSUME NEW p \in Phones, Cancel(p) PROVE InvitesInv'
  <2>1. Pending(Caller)' \subseteq Pending(Caller) /\ (status'[Caller] = "INIT"
          => status[Caller] = "INIT")
    BY <1>6 DEF Cancel, Pending, clientVars
  <2> QED BY <1>k, <1>v, <1>6, <2>1 DEF Cancel
<1>7. ASSUME NEW p \in Phones, Bye(p) PROVE InvitesInv'
  <2>1. Request("BYE") # Invite
    BY KindsDiffer DEF AnswerClasses
  <2>2. Pending(Caller)' \subseteq Pending(Caller) /\ (status'[Caller] = "INIT"
          => status[Caller] = "INIT")
    BY <1>7 DEF Bye, Becomes, Pending
  <2> QED BY <1>k, <1>m, <1>7, <2>1, <2>2 DEF Bye
<1>8. ASSUME NEW p \in Phones, NEW n \in CSeqs, InviteSucceeds(p, n) PROVE InvitesInv'
  <2>1. Without({Msg(Peer(p), SuccessAck, n)}, Invite)
    BY <1>m, KindsDiffer
  <2>2. Pending(Caller)' \subseteq Pending(Caller) /\ (status'[Caller] = "INIT"
          => status[Caller] = "INIT")
    BY <1>t, <1>8 DEF InviteSucceeds, Reports, Becomes, Pending, PhonesOK
  <2> QED BY <1>k, <1>n, <1>8, <2>1, <2>2 DEF InviteSucceeds
<1>9. ASSUME NEW p \in Phones, NEW n \in CSeqs, InviteFails(p, n) PROVE InvitesInv'
  <2>1. Pending(Caller)' \subseteq Pending(Caller) /\ (status'[Caller] = "INIT"
          => status[Caller] = "INIT")
    BY <1>t, <1>9 DEF InviteFails, Reports, Becomes, Pending, PhonesOK
  <2> QED BY <1>k, <1>r, <1>9, <2>1 DEF InviteFails
<1>10. ASSUME NEW p \in Phones, NEW n \in CSeqs, InviteChallenged(p, n) PROVE InvitesInv'
  <2>1. p = Caller /\ \A k \in Pending(Caller) : k = n
    BY <1>t, <1>10 DEF InviteChallenged, RoleInv, SetupInv
  <2>2. Answered(Caller, n, Challenge)
    BY <1>10, <2>1 DEF InviteChallenged, Answered
  <2>3. Pending(Caller)' \subseteq {n + 1} /\ n \in Pending(Caller)
    BY <1>t, <1>10, <2>1 DEF InviteChallenged, Pending, PhonesOK
  <2>4. PICK tags \in BOOLEAN :
          Send(AcksFailure(p, n) \cup {TaggedMsg(Peer(p), Invite, n + 1, tags)})
    BY <1>10 DEF InviteChallenged
  <2> DEFINE j == n + 1
  <2> HIDE DEF j
  <2>5. Send(AcksFailure(p, n) \cup {TaggedMsg(Peer(p), Invite, j, tags)})
    BY <2>4 DEF j
  <2>6. SameAnswers /\ \A q \in Phones, k \in CSeqs, t \in BOOLEAN :
          AskedAs(q, k, t)' <=> AskedAs(q, k, t) \/ (q = Peer(p) /\ k = j /\ t = tags)
    BY <2>5, InviteSentAgain
  <2>7. \A k \in CSeqs : Asked(Callee, k)' => Asked(Callee, k) \/ k = j
    BY <1>t, <2>6 DEF Asked
  <2>8. \A k \in CSeqs : Asked(Callee, k) => Answered(Caller, k, Challenge)
    BY <2>2, <2>3 DEF InvitesInv
  <2>9. \A k \in CSeqs : Answered(Caller, k, Challenge)' <=> Answered(Caller, k, Challenge)
    BY <1>t, <2>6 DEF SameAnswers, AnswerClasses
  <2>10. status'[Caller] # "INIT"
    BY <1>t, <1>10, <2>1 DEF InviteChallenged, RoleInv
  <2>11. Pending(Caller)' \subseteq {j}
    BY <2>3 DEF j
  <2> QED BY <2>7, <2>8, <2>9, <2>10, <2>11 DEF InvitesInv
<1>11. ASSUME NEW p \in Phones, NEW n \in CSeqs, InviteTimesOut(p, n) PROVE InvitesInv'
  <2>1. Pending(Caller)' \subseteq Pending(Caller) /\ (status'[Caller] = "INIT"
          => status[Caller] = "INIT")
    BY <1>t, <1>11 DEF InviteTimesOut, Reports, Becomes, Pending, PhonesOK
  <2> QED BY <1>k, <1>n, <1>v, <1>11, <2>1 DEF InviteTimesOut
<1>12. ASSUME NEW p \in Phones, NEW n \in CSeqs, ByeSucceeds(p, n) PROVE InvitesInv'
  BY <1>t, <1>n, <1>12 DEF ByeSucceeds, ByeEnds, Becomes, Pending, PhonesOK
<1>13. ASSUME NEW p \in Phones, NEW n \in CSeqs, ByeFails(p, n) PROVE InvitesInv'
  BY <1>t, <1>n, <1>13 DEF ByeFails, Becomes, Pending, PhonesOK
<1>14. ASSUME NEW p \in Phones, NEW n \in CSeqs, ByeChallenged(p, n) PROVE InvitesInv'
  <2>1. Request("BYE") # Invite
    BY KindsDiffer DEF AnswerClasses
  <2>2. Pending(Caller)' \subseteq Pending(Caller) /\ (status'[Caller] = "INIT"
          => status[Caller] = "INIT")
    BY <1>14 DEF ByeChallenged, Pending
  <2> QED BY <1>k, <1>m, <1>14, <2>1, <2>2 DEF ByeChallenged
<1>15. ASSUME NEW p \in Phones, NEW n \in CSeqs, ByeTimesOut(p, n) PROVE InvitesInv'
  BY <1>t, <1>n, <1>15 DEF ByeTimesOut, ByeEnds, Becomes, Pending, PhonesOK
<1>16. ASSUME NEW n \in CSeqs, ReceiveFirstInvite(n) PROVE InvitesInv'
  BY <1>n, <1>16 DEF ReceiveFirstInvite, Becomes, Pending, clientVars
<1>17. ASSUME NEW p \in Phones, NEW n \in CSeqs, ReceiveFailureAck(p, n) PROVE InvitesInv'
  BY <1>t, <1>n, <1>17 DEF ReceiveFailureAck, Becomes, Pending, PhonesOK, clientVars
<1>18. ASSUME NEW p \in Phones, NEW n \in CSeqs, FailureAckTimesOut(p, n) PROVE InvitesInv'
  BY <1>n, <1>18 DEF FailureAckTimesOut, Pending, clientVars
<1>19. ASSUME NEW p \in Phones, NEW n \in CSeqs, AckTimesOut(p, n) PROVE InvitesInv'
  BY <1>t, <1>n, <1>19 DEF AckTimesOut, Becomes, Pending, PhonesOK, clientVars
<1>20. ASSUME NEW p \in Phones, NEW n \in CSeqs, ReceiveReInvite(p, n) PROVE InvitesInv'
  BY <1>n, <1>20 DEF ReceiveReInvite, Becomes, Pending, clientVars
<1>21. ASSUME NEW p \in Phones, NEW n \in CSeqs, ReceiveAck(p, n) PROVE InvitesInv'
  BY <1>n, <1>21 DEF ReceiveAck, Becomes, Pending, clientVars
<1>22. ASSUME NEW p \in Phones, NEW n \in CSeqs, ReceiveBye(p, n) PROVE InvitesInv'
  <2>1. Response("BYE", Success) # Invite
    BY KindsDiffer DEF AnswerClasses
  <2>2. Pending(Caller)' \subseteq Pending(Caller) /\ (status'[Caller] = "INIT"
          => status[Caller] = "INIT")
    BY <1>22 DEF ReceiveBye, Becomes, Pending, clientVars
  <2> QED BY <1>k, <1>m, <1>22, <2>1, <2>2 DEF ReceiveBye
<1>23. ASSUME NEW p \in Phones, NEW n \in CSeqs, ReceiveCancel(p, n) PROVE InvitesInv'
  <2>1. Response("INVITE", Failure) # Invite
    BY KindsDiffer DEF AnswerClasses
  <2>2. Pending(Caller)' \subseteq Pending(Caller) /\ (status'[Caller] = "INIT"
          => status[Caller] = "INIT")
    BY <1>23 DEF ReceiveCancel, Fails, Becomes, Pending, clientVars
  <2> QED BY <1>k, <1>m, <1>v, <2>1, <1>23, <2>2 DEF ReceiveCancel, Fails
<1>24. ASSUME NEW p \in Phones, NEW m \in {"INVITE", "BYE"}, NEW n \in CSeqs,
              ProxyAnswersRequest(p, m, n)
       PROVE InvitesInv'
  <2>1. \A c \in plan.proxyAnswers : Response(m, c) # Invite
    BY <1>t, PlanFacts, KindsDiffer DEF AnswerClasses
  <2>2. Pending(Caller)' \subseteq Pending(Caller) /\ (status'[Caller] = "INIT"
          => status[Caller] = "INIT")
    BY <1>24 DEF ProxyAnswersRequest, Pending, clientVars
  <2> QED BY <1>k, <1>m, <2>1, <1>24, <2>2 DEF ProxyAnswersRequest
<1>25. Step
  BY <1>t
<1> QED BY <1>25, <1>1, <1>2, <1>3, <1>4, <1>5, <1>6, <1>7, <1>8, <1>9, <1>10, <1>11, <1>12,
     <1>13, <1>14, <1>15, <1>16, <1>17, <1>18, <1>19, <1>20, <1>21, <1>22, <1>23, <1>24
     DEF Step, UserStep, ClientStep, ServerStep

\* No phone comes back once its dialog is closed.
ClosedStay == \A p \in Phones : status[p] = "CLOSE" => status'[p] = "CLOSE"

\* A step that has nothing to do with BYEs leaves them as they are.
LEMMA ByesKept ==
  ASSUME ByesInv, UNCHANGED <<plan, byeTc>>, SameByes, SameByeAnswers, ClosedStay
  PROVE  ByesInv'
BY PeerFacts DEF ByesInv, SameByes, SameByeAnswers, ClosedStay, AnswerClasses

\* A BYE that is over has been answered in place of the peer or has closed it.
LEMMA ByesStay ==
  ASSUME Typed, RoleInv, ByesInv, Next
  PROVE  ByesInv'
<1>t. /\ PhonesOK /\ plan \in Plans /\ UNCHANGED plan /\ Step
      /\ Caller # Callee /\ Phones = {Caller, Callee}
      /\ \A p \in Phones : Peer(p) \in Phones /\ Peer(p) # p /\ Peer(Peer(p)) = p
  BY TypeOKParts, PeerFacts DEF Typed, Next
<1> USE DEF Inviting, Invited, Accepted, Refused
<1>k. ASSUME NEW ms, Send(ms), UNCHANGED byeTc, ClosedStay, Without(ms, Request("BYE")),
             \A c \in AnswerClasses : Without(ms, Response("BYE", c))
      PROVE  ByesInv'
  BY <1>t, <1>k, OthersStay, ByesKept
<1>n. UNCHANGED <<wire, byeTc>> /\ ClosedStay => ByesInv'
  BY <1>t, NothingSent, ByesKept DEF SameViews
<1>m. \A q, m, k : m # Request("BYE") /\ (\A c \in AnswerClasses : m # Response("BYE", c)) =>
        /\ Without({Msg(q, m, k)}, Request("BYE"))
        /\ \A c \in AnswerClasses : Without({Msg(q, m, k)}, Response("BYE", c))
  BY WithoutMsg
<1>f. ASSUME NEW p \in Phones, Fails(p) PROVE ByesInv'
  <2>1. UNCHANGED byeTc /\ ClosedStay
    BY <1>f DEF Fails, Becomes, ClosedStay, clientVars
  <2>2. CASE inviteTs[p][inviteReq[p]] = "open"
    <3>1. Response("INVITE", Failure) # Request("BYE")
          /\ \A c \in AnswerClasses : Response("INVITE", Failure) # Response("BYE", c)
      BY KindsDiffer DEF AnswerClasses
    <3> QED BY <1>k, <1>m, <1>f, <2>1, <2>2, <3>1 DEF Fails
  <2>3. CASE inviteTs[p][inviteReq[p]] # "open"
    <3>1. Without({}, Request("BYE")) /\ \A c \in AnswerClasses : Without({}, Response("BYE", c))
      BY DEF Without
    <3> QED BY <1>k, <1>f, <2>1, <2>3, <3>1 DEF Fails
  <2> QED BY <2>2, <2>3
<1>i. ASSUME NEW p \in Phones, NEW k, NEW t, NEW j, UNCHANGED byeTc, ClosedStay,
             \/ Send({TaggedMsg(Peer(p), Invite, k, t)})
             \/ Send(AcksFailure(p, j) \cup {TaggedMsg(Peer(p), Invite, k, t)})
      PROVE  ByesInv'
  BY <1>t, <1>i, InviteSent, InviteSentAgain, ByesKept
\* A BYE of p that is over, its last message apart.
<1>b. ASSUME NEW p \in Phones, NEW n \in CSeqs, UNCHANGED wire, n \in byeTc[p],
             byeTc' = [byeTc EXCEPT ![p] = @ \ {n}], ClosedStay,
             \/ ByeAnswered(p, n, Failure) \/ ByeAnswered(p, n, Challenge)
             \/ status'[p] = "CLOSE" \/ Peer(p) \in plan.reInviters
      PROVE  ByesInv'
  <2>1. SameByes /\ SameByeAnswers
    BY <1>b, NothingSent DEF SameViews
  <2>2. \A q \in Phones, k \in CSeqs : k \in byeTc[q] => k \in byeTc'[q] \/ (q = p /\ k = n)
    BY <1>t, <1>b DEF PhonesOK
  <2> QED BY <1>t, <1>b, <2>1 DEF ByesInv, SameByes, SameByeAnswers, ClosedStay,
       AnswerClasses
\* A BYE that p sends.
<1>s. ASSUME NEW p \in Phones, NEW n, NEW k \in CSeqs,
             Send({Msg(Peer(p), Request("BYE"), n)}), n \in byeTc'[p],
             \A q \in Phones, j \in CSeqs : j \in byeTc[q] => j \in byeTc'[q] \/ (q = p /\ j = k),
             k \in byeTc'[p] \/ ByeAnswered(p, k, Challenge), ClosedStay
      PROVE  ByesInv'
  <2>1. SameByeAnswers /\ \A q \in Phones, j \in CSeqs :
          ByeSent(q, j)' <=> ByeSent(q, j) \/ (q = Peer(p) /\ j = n)
    BY <1>s, ByeIsSent
  <2>2. \A q \in Phones, j \in CSeqs :
          ByeSent(Peer(q), j)' <=> ByeSent(Peer(q), j) \/ (q = p /\ j = n)
    BY <1>t, <2>1
  <2> QED BY <1>t, <1>s, <2>1 DEF ByesInv, SameByeAnswers, ClosedStay, AnswerClasses
<1>1. ASSUME Listen PROVE ByesInv'
  <2>1. UNCHANGED byeTc /\ ClosedStay
    BY <1>1 DEF Listen, Becomes, ClosedStay, clientVars
  <2> QED BY <1>n, <1>1, <2>1 DEF Listen
<1>2. ASSUME InvitePeer PROVE ByesInv'
  <2>1. UNCHANGED byeTc /\ ClosedStay
    BY <1>2 DEF InvitePeer, SendsInvite, Becomes, ClosedStay
  <2> QED BY <1>t, <1>i, <1>2, <2>1 DEF InvitePeer, SendsInvite
<1>3. ASSUME NEW p \in Phones, ReInvite(p) PROVE ByesInv'
  <2>1. UNCHANGED byeTc /\ ClosedStay
    BY <1>3 DEF ReInvite, SendsInvite, Becomes, ClosedStay
  <2> QED BY <1>t, <1>i, <1>3, <2>1 DEF ReInvite, SendsInvite
<1>4. ASSUME NEW p \in Phones, Accept(p) PROVE ByesInv'
  <2>1. UNCHANGED byeTc /\ ClosedStay
    BY <1>4 DEF Accept, Becomes, ClosedStay, clientVars
  <2>2. Response("INVITE", Success) # Request("BYE")
        /\ \A c \in AnswerClasses : Response("INVITE", Success) # Response("BYE", c)
    BY KindsDiffer DEF AnswerClasses
  <2> QED BY <1>k, <1>m, <1>4, <2>1, <2>2 DEF Accept
<1>5. ASSUME NEW p \in Phones, Refuse(p) PROVE ByesInv'
  BY <1>f, <1>5 DEF Refuse
<1>6. ASSUME NEW p \in Phones, Cancel(p) PROVE ByesInv'
  <2>1. UNCHANGED byeTc /\ ClosedStay
    BY <1>6 DEF Cancel, ClosedStay, clientVars
  <2> QED BY <1>t, <1>6, <2>1, OtherSent, ByesKept DEF Cancel, CancelMsg, SameViews
<1>7. ASSUME NEW p \in Phones, Bye(p) PROVE ByesInv'
  <2> DEFINE n == localCSeq[p] + 1
  <2>1. ClosedStay
    BY <1>t, <1>7 DEF Bye, Becomes, ClosedStay, PhonesOK
  <2>2. Send({Msg(Peer(p), Request("BYE"), n)}) /\ byeTc' = [byeTc EXCEPT ![p] = @ \cup {n}]
    BY <1>7 DEF Bye
  <2> HIDE DEF n
  <2>3. n \in byeTc'[p] /\ \A q \in Phones, j \in CSeqs : j \in byeTc[q] => j \in byeTc'[q]
    BY <1>t, <2>2 DEF PhonesOK
  <2>4. status[p] = "CALL" /\ \A q \in Phones, j \in CSeqs : j \in byeTc[q] => j \in byeTc'[q]
    BY <1>7, <2>3 DEF Bye
  <2>5. SameByeAnswers /\ \A q \in Phones, j \in CSeqs :
          ByeSent(q, j)' <=> ByeSent(q, j) \/ (q = Peer(p) /\ j = n)
    BY <2>2, ByeIsSent
  <2>6. \A q \in Phones, j \in CSeqs :
          ByeSent(Peer(q), j)' <=> ByeSent(Peer(q), j) \/ (q = p /\ j = n)
    BY <1>t, <2>5
  <2> QED BY <1>t, <2>1, <2>3, <2>5 DEF ByesInv, SameByeAnswers, ClosedStay, AnswerClasses
<1>8. ASSUME NEW p \in Phones, NEW n \in CSeqs, InviteSucceeds(p, n) PROVE ByesInv'
  <2>1. UNCHANGED byeTc /\ ClosedStay
    BY <1>t, <1>8 DEF InviteSucceeds, Becomes, ClosedStay, PhonesOK
  <2> QED BY <1>t, <1>n, <1>8, <2>1, AckSent, ByesKept DEF InviteSucceeds
<1>9. ASSUME NEW p \in Phones, NEW n \in CSeqs, InviteFails(p, n) PROVE ByesInv'
  <2>1. UNCHANGED byeTc /\ ClosedStay
    BY <1>t, <1>9 DEF InviteFails, Becomes, ClosedStay, PhonesOK
  <2>2. Without(AcksFailure(p, n), Request("BYE"))
        /\ \A c \in AnswerClasses : Without(AcksFailure(p, n), Response("BYE", c))
    BY WithoutAcks, KindsDiffer
  <2> QED BY <1>k, <1>9, <2>1, <2>2 DEF InviteFails
<1>10. ASSUME NEW p \in Phones, NEW n \in CSeqs, InviteChallenged(p, n) PROVE ByesInv'
  <2>1. UNCHANGED byeTc /\ ClosedStay
    BY <1>10 DEF InviteChallenged, ClosedStay
  <2> QED BY <1>i, <1>10, <2>1 DEF InviteChallenged
<1>11. ASSUME NEW p \in Phones, NEW n \in CSeqs, InviteTimesOut(p, n) PROVE ByesInv'
  <2>1. UNCHANGED byeTc /\ ClosedStay
    BY <1>t, <1>11 DEF InviteTimesOut, Becomes, ClosedStay, PhonesOK
  <2> QED BY <1>t, <1>n, <1>11, <2>1, OtherSent, ByesKept DEF InviteTimesOut, CancelMsg,
       SameViews
<1>12. ASSUME NEW p \in Phones, NEW n \in CSeqs, ByeSucceeds(p, n) PROVE ByesInv'
  <2>1. ClosedStay
    BY <1>t, <1>12 DEF ByeSucceeds, ByeEnds, Becomes, ClosedStay, PhonesOK
  <2>2. status'[p] = "CLOSE" \/ Peer(p) \in plan.reInviters
    BY <1>t, <1>12 DEF ByeSucceeds, ByeEnds, Becomes, RoleInv, PhonesOK
  <2> QED BY <1>b, <1>12, <2>1, <2>2 DEF ByeSucceeds, ByeEnds
<1>13. ASSUME NEW p \in Phones, NEW n \in CSeqs, ByeFails(p, n) PROVE ByesInv'
  <2>1. ClosedStay
    BY <1>t, <1>13 DEF ByeFails, Becomes, ClosedStay, PhonesOK
  <2>2. ByeAnswered(p, n, Failure) \/ ByeAnswered(p, n, Challenge)
    BY <1>13 DEF ByeFails, GivesUp, ByeAnswered
  <2> QED BY <1>b, <1>13, <2>1, <2>2 DEF ByeFails
<1>14. ASSUME NEW p \in Phones, NEW n \in CSeqs, ByeChallenged(p, n) PROVE ByesInv'
  <2> DEFINE j == n + 1
  <2>1. ClosedStay
    BY <1>14 DEF ByeChallenged, ClosedStay
  <2>2. Send({Msg(Peer(p), Request("BYE"), j)})
          /\ byeTc' = [byeTc EXCEPT ![p] = (@ \ {n}) \cup {j}]
    BY <1>14 DEF ByeChallenged
  <2>3. ByeAnswered(p, n, Challenge)
    BY <1>14 DEF ByeChallenged, ByeAnswered
  <2> HIDE DEF j
  <2>4. j \in byeTc'[p]
          /\ \A q \in Phones, k \in CSeqs : k \in byeTc[q] => k \in byeTc'[q] \/ (q = p /\ k = n)
    BY <1>t, <2>2 DEF PhonesOK
  <2> QED BY <1>s, <2>1, <2>2, <2>3, <2>4
<1>15. ASSUME NEW p \in Phones, NEW n \in CSeqs, ByeTimesOut(p, n) PROVE ByesInv'
  <2>1. ClosedStay
    BY <1>t, <1>15 DEF ByeTimesOut, ByeEnds, Becomes, ClosedStay, PhonesOK
  <2>2. status'[p] = "CLOSE" \/ Peer(p) \in plan.reInviters
    BY <1>t, <1>15 DEF ByeTimesOut, ByeEnds, Becomes, RoleInv, PhonesOK
  <2> QED BY <1>b, <1>15, <2>1, <2>2 DEF ByeTimesOut, ByeEnds
<1>16. ASSUME NEW n \in CSeqs, ReceiveFirstInvite(n) PROVE ByesInv'
  <2>1. UNCHANGED byeTc /\ ClosedStay
    BY <1>16 DEF ReceiveFirstInvite, Becomes, ClosedStay, clientVars
  <2> QED BY <1>n, <1>16, <2>1 DEF ReceiveFirstInvite
<1>17. ASSUME NEW p \in Phones, NEW n \in CSeqs, ReceiveFailureAck(p, n) PROVE ByesInv'
  <2>1. UNCHANGED byeTc /\ ClosedStay
    BY <1>t, <1>17 DEF ReceiveFailureAck, Becomes, ClosedStay, PhonesOK, clientVars
  <2> QED BY <1>n, <1>17, <2>1 DEF ReceiveFailureAck
<1>18. ASSUME NEW p \in Phones, NEW n \in CSeqs, FailureAckTimesOut(p, n) PROVE ByesInv'
  <2>1. UNCHANGED byeTc /\ ClosedStay
    BY <1>18 DEF FailureAckTimesOut, ClosedStay, clientVars
  <2> QED BY <1>n, <1>18, <2>1 DEF FailureAckTimesOut
<1>19. ASSUME NEW p \in Phones, NEW n \in CSeqs, AckTimesOut(p, n) PROVE ByesInv'
  <2>1. UNCHANGED byeTc /\ ClosedStay
    BY <1>t, <1>19 DEF AckTimesOut, Becomes, ClosedStay, PhonesOK, clientVars
  <2> QED BY <1>n, <1>19, <2>1 DEF AckTimesOut
<1>20. ASSUME NEW p \in Phones, NEW n \in CSeqs, ReceiveReInvite(p, n) PROVE ByesInv'
  <2>1. UNCHANGED byeTc /\ ClosedStay
    BY <1>20 DEF ReceiveReInvite, Becomes, ClosedStay, clientVars, Dispatched
  <2> QED BY <1>n, <1>20, <2>1 DEF ReceiveReInvite
<1>21. ASSUME NEW p \in Phones, NEW n \in CSeqs, ReceiveAck(p, n) PROVE ByesInv'
  <2>1. UNCHANGED byeTc /\ ClosedStay
    BY <1>21 DEF ReceiveAck, Becomes, ClosedStay, clientVars
  <2> QED BY <1>n, <1>21, <2>1 DEF ReceiveAck
<1>22. ASSUME NEW p \in Phones, NEW n \in CSeqs, ReceiveBye(p, n) PROVE ByesInv'
  <2>1. UNCHANGED byeTc /\ ClosedStay /\ status'[p] = "CLOSE"
    BY <1>t, <1>22 DEF ReceiveBye, Becomes, ClosedStay, PhonesOK, clientVars
  <2>2. ByeSent(p, n) /\ ~ByeAnswered(Peer(p), n, Failure) /\ ~ByeAnswered(Peer(p), n, Challenge)
    BY <1>22 DEF ReceiveBye, ByeSent, ByeAnswered, Stopped
  <2>3. SameByes /\ \A q \in Phones, k \in CSeqs, c \in AnswerClasses :
          ByeAnswered(q, k, c)' <=> ByeAnswered(q, k, c) \/ (q = Peer(p) /\ k = n /\ c = Success)
    <3>1. Send({Msg(Peer(p), Response("BYE", Success), n)}) /\ Success \in AnswerClasses
      BY <1>22 DEF ReceiveBye, AnswerClasses
    <3> QED BY <3>1, ByeAnswerSent
  <2>4. \A q \in Phones, k \in CSeqs :
          /\ ByeAnswered(q, k, Failure)' <=> ByeAnswered(q, k, Failure)
          /\ ByeAnswered(q, k, Challenge)' <=> ByeAnswered(q, k, Challenge)
          /\ ByeAnswered(q, k, Success)' <=> ByeAnswered(q, k, Success) \/ (q = Peer(p) /\ k = n)
    BY <2>3, KindsDiffer DEF AnswerClasses
  <2> QED BY <1>t, <2>1, <2>2, <2>3, <2>4 DEF ByesInv, SameByes, ClosedStay
<1>23. ASSUME NEW p \in Phones, NEW n \in CSeqs, ReceiveCancel(p, n) PROVE ByesInv'
  BY <1>f, <1>23 DEF ReceiveCancel
<1>24. ASSUME NEW p \in Phones, NEW m \in {"INVITE", "BYE"}, NEW n \in CSeqs,
              ProxyAnswersRequest(p, m, n)
       PROVE ByesInv'
  <2>1. UNCHANGED byeTc /\ ClosedStay
    BY <1>t, <1>24 DEF ProxyAnswersRequest, ClosedStay, clientVars
  <2>2. PICK c \in plan.proxyAnswers : Send({Msg(Peer(p), Response(m, c), n)})
    BY <1>24 DEF ProxyAnswersRequest
  <2>3. c \in AnswerClasses /\ c # Success
    BY <1>t, PlanFacts, KindsDiffer DEF AnswerClasses
  <2>4. CASE m = "INVITE"
    BY <1>t, <2>1, <2>2, <2>3, <2>4, AnswerSent, ByesKept
  <2>5. CASE m = "BYE"
    <3>1. ~ByeAnswered(Peer(p), n, Success)
      BY <1>24, <2>5 DEF ProxyAnswersRequest, ByeAnswered
    <3>2. SameByes /\ \A q \in Phones, k \in CSeqs, e \in AnswerClasses :
            ByeAnswered(q, k, e)' <=> ByeAnswered(q, k, e) \/ (q = Peer(p) /\ k = n /\ e = c)
      BY <2>2, <2>3, <2>5, ByeAnswerSent
    <3>3. \A q \in Phones, k \in CSeqs :
            /\ ByeAnswered(q, k, Failure) => ByeAnswered(q, k, Failure)'
            /\ ByeAnswered(q, k, Challenge) => ByeAnswered(q, k, Challenge)'
            /\ q # Peer(p) \/ k # n =>
                 /\ ByeAnswered(q, k, Failure)' <=> ByeAnswered(q, k, Failure)
                 /\ ByeAnswered(q, k, Challenge)' <=> ByeAnswered(q, k, Challenge)
            /\ ByeAnswered(q, k, Success)' <=> ByeAnswered(q, k, Success)
      BY <2>3, <3>2, KindsDiffer DEF AnswerClasses
    <3> QED BY <1>t, <2>1, <3>1, <3>2, <3>3 DEF ByesInv, SameByes, ClosedStay
  <2> QED BY <2>4, <2>5
<1>25. Step
  BY <1>t
<1> QED BY <1>25, <1>1, <1>2, <1>3, <1>4, <1>5, <1>6, <1>7, <1>8, <1>9, <1>10, <1>11, <1>12,
     <1>13, <1>14, <1>15, <1>16, <1>17, <1>18, <1>19, <1>20, <1>21, <1>22, <1>23, <1>24
     DEF Step, UserStep, ClientStep, ServerStep

-----------------------------------------------------------------------------
(* The order of the sequence numbers.                                      *)

\* INVITEs stay sent whatever their tags.
LEMMA AskedStays ==
  ASSUME SameAsked
  PROVE  \A p \in Phones, n \in CSeqs : Asked(p, n)' <=> Asked(p, n)
BY DEF SameAsked, Asked

\* Every step adds to the wire, or leaves it.
LEMMA WireOnlyGrows == ASSUME Step PROVE wire \subseteq wire'
<1> USE DEF Send
<1>1. ASSUME Listen PROVE wire \subseteq wire'
  BY <1>1 DEF Listen
<1>2. ASSUME InvitePeer PROVE wire \subseteq wire'
  BY <1>2 DEF InvitePeer, SendsInvite
<1>3. ASSUME NEW p \in Phones, ReInvite(p) PROVE wire \subseteq wire'
  BY <1>3 DEF ReInvite, SendsInvite
<1>4. ASSUME NEW p \in Phones, Accept(p) PROVE wire \subseteq wire'
  BY <1>4 DEF Accept
<1>5. ASSUME NEW p \in Phones, Refuse(p) PROVE wire \subseteq wire'
  BY <1>5 DEF Refuse, Fails
<1>6. ASSUME NEW p \in Phones, Cancel(p) PROVE wire \subseteq wire'
  BY <1>6 DEF Cancel
<1>7. ASSUME NEW p \in Phones, Bye(p) PROVE wire \subseteq wire'
  BY <1>7 DEF Bye
<1>8. ASSUME NEW p \in Phones, NEW n \in CSeqs, InviteSucceeds(p, n)
      PROVE wire \subseteq wire'
  BY <1>8 DEF InviteSucceeds
<1>9. ASSUME NEW p \in Phones, NEW n \in CSeqs, InviteFails(p, n)
      PROVE wire \subseteq wire'
  BY <1>9 DEF InviteFails
<1>10. ASSUME NEW p \in Phones, NEW n \in CSeqs, InviteChallenged(p, n)
       PROVE wire \subseteq wire'
  BY <1>10 DEF InviteChallenged
<1>11. ASSUME NEW p \in Phones, NEW n \in CSeqs, InviteTimesOut(p, n)
       PROVE wire \subseteq wire'
  BY <1>11 DEF InviteTimesOut
<1>12. ASSUME NEW p \in Phones, NEW n \in CSeqs, ByeSucceeds(p, n)
       PROVE wire \subseteq wire'
  BY <1>12 DEF ByeSucceeds, ByeEnds
<1>13. ASSUME NEW p \in Phones, NEW n \in CSeqs, ByeFails(p, n) PROVE wire \subseteq wire'
  BY <1>13 DEF ByeFails
<1>14. ASSUME NEW p \in Phones, NEW n \in CSeqs, ByeChallenged(p, n)
       PROVE wire \subseteq wire'
  BY <1>14 DEF ByeChallenged
<1>15. ASSUME NEW p \in Phones, NEW n \in CSeqs, ByeTimesOut(p, n)
       PROVE wire \subseteq wire'
  BY <1>15 DEF ByeTimesOut, ByeEnds
<1>16. ASSUME NEW n \in CSeqs, ReceiveFirstInvite(n) PROVE wire \subseteq wire'
  BY <1>16 DEF ReceiveFirstInvite
<1>17. ASSUME NEW p \in Phones, NEW n \in CSeqs, ReceiveFailureAck(p, n)
       PROVE wire \subseteq wire'
  BY <1>17 DEF ReceiveFailureAck
<1>18. ASSUME NEW p \in Phones, NEW n \in CSeqs, FailureAckTimesOut(p, n)
       PROVE wire \subseteq wire'
  BY <1>18 DEF FailureAckTimesOut
<1>19. ASSUME NEW p \in Phones, NEW n \in CSeqs, AckTimesOut(p, n)
       PROVE wire \subseteq wire'
  BY <1>19 DEF AckTimesOut
<1>20. ASSUME NEW p \in Phones, NEW n \in CSeqs, ReceiveReInvite(p, n)
       PROVE wire \subseteq wire'
  BY <1>20 DEF ReceiveReInvite
<1>21. ASSUME NEW p \in Phones, NEW n \in CSeqs, ReceiveAck(p, n)
       PROVE wire \subseteq wire'
  BY <1>21 DEF ReceiveAck
<1>22. ASSUME NEW p \in Phones, NEW n \in CSeqs, ReceiveBye(p, n)
       PROVE wire \subseteq wire'
  BY <1>22 DEF ReceiveBye
<1>23. ASSUME NEW p \in Phones, NEW n \in CSeqs, ReceiveCancel(p, n)
       PROVE wire \subseteq wire'
  BY <1>23 DEF ReceiveCancel, Fails
<1>24. ASSUME NEW p \in Phones, NEW m \in {"INVITE", "BYE"}, NEW n \in CSeqs,
              ProxyAnswersRequest(p, m, n)
       PROVE wire \subseteq wire'
  BY <1>24 DEF ProxyAnswersRequest
<1> QED BY <1>1, <1>2, <1>3, <1>4, <1>5, <1>6, <1>7, <1>8, <1>9, <1>10, <1>11, <1>12,
     <1>13, <1>14, <1>15, <1>16, <1>17, <1>18, <1>19, <1>20, <1>21, <1>22, <1>23, <1>24
     DEF Step, UserStep, ClientStep, ServerStep

LEMMA StepGrows == ASSUME Step PROVE AskedGrows
BY WireOnlyGrows, WireGrows

\* The number a phone has taken is that of a request it has been sent.
LEMMA RemotesStay ==
  ASSUME Typed, AnswerInv, ServingInv, RemoteInv, Step
  PROVE  RemoteInv'
<1>t. PhonesOK /\ AskedGrows
  BY TypeOKParts, StepGrows DEF Typed
<1>n. UNCHANGED remoteCSeq => RemoteInv'
  BY <1>t DEF RemoteInv, AskedGrows, PhonesOK
<1>r. ASSUME NEW p \in Phones, NEW n \in CSeqs,
             Asked(p, n), remoteCSeq' = [remoteCSeq EXCEPT ![p] = n]
      PROVE  RemoteInv'
  <2>1. Asked(p, n)' /\ remoteCSeq'[p] = n
          /\ \A q \in Phones : q # p => remoteCSeq'[q] = remoteCSeq[q]
    BY <1>t, <1>r DEF AskedGrows, PhonesOK
  <2> QED BY <1>t, <2>1 DEF RemoteInv, AskedGrows, PhonesOK
<1>o. ASSUME NEW p \in Phones, status[p] \in Invited, inviteReq[p] # 0
      PROVE  inviteReq[p] \in CSeqs /\ Asked(p, inviteReq[p])
  BY <1>t, <1>o DEF AnswerInv, ServingInv, PhonesOK
<1>1. ASSUME Listen PROVE RemoteInv'
  BY <1>n, <1>1 DEF Listen, cseqVars
<1>2. ASSUME InvitePeer PROVE RemoteInv'
  BY <1>n, <1>2 DEF InvitePeer, SendsInvite, cseqVars
<1>3. ASSUME NEW p \in Phones, ReInvite(p) PROVE RemoteInv'
  BY <1>n, <1>3 DEF ReInvite, SendsInvite, cseqVars
<1>4. ASSUME NEW p \in Phones, Accept(p) PROVE RemoteInv'
  BY <1>r, <1>o, <1>4 DEF Accept
<1>5. ASSUME NEW p \in Phones, Refuse(p) PROVE RemoteInv'
  BY <1>r, <1>o, <1>5 DEF Refuse, Fails
<1>6. ASSUME NEW p \in Phones, Cancel(p) PROVE RemoteInv'
  BY <1>n, <1>6 DEF Cancel, cseqVars
<1>7. ASSUME NEW p \in Phones, Bye(p) PROVE RemoteInv'
  BY <1>n, <1>7 DEF Bye, cseqVars
<1>8. ASSUME NEW p \in Phones, NEW n \in CSeqs, InviteSucceeds(p, n) PROVE RemoteInv'
  BY <1>n, <1>8 DEF InviteSucceeds, cseqVars
<1>9. ASSUME NEW p \in Phones, NEW n \in CSeqs, InviteFails(p, n) PROVE RemoteInv'
  BY <1>n, <1>9 DEF InviteFails, cseqVars
<1>10. ASSUME NEW p \in Phones, NEW n \in CSeqs, InviteChallenged(p, n) PROVE RemoteInv'
  BY <1>n, <1>10 DEF InviteChallenged, cseqVars
<1>11. ASSUME NEW p \in Phones, NEW n \in CSeqs, InviteTimesOut(p, n) PROVE RemoteInv'
  BY <1>n, <1>11 DEF InviteTimesOut, cseqVars
<1>12. ASSUME NEW p \in Phones, NEW n \in CSeqs, ByeSucceeds(p, n) PROVE RemoteInv'
  BY <1>n, <1>12 DEF ByeSucceeds, ByeEnds, cseqVars
<1>13. ASSUME NEW p \in Phones, NEW n \in CSeqs, ByeFails(p, n) PROVE RemoteInv'
  BY <1>n, <1>13 DEF ByeFails, cseqVars
<1>14. ASSUME NEW p \in Phones, NEW n \in CSeqs, ByeChallenged(p, n) PROVE RemoteInv'
  BY <1>n, <1>14 DEF ByeChallenged, cseqVars
<1>15. ASSUME NEW p \in Phones, NEW n \in CSeqs, ByeTimesOut(p, n) PROVE RemoteInv'
  BY <1>n, <1>15 DEF ByeTimesOut, ByeEnds, cseqVars
<1>16. ASSUME NEW n \in CSeqs, ReceiveFirstInvite(n) PROVE RemoteInv'
  BY <1>r, <1>16, PeerFacts DEF ReceiveFirstInvite, Asked, AskedAs
<1>17. ASSUME NEW p \in Phones, NEW n \in CSeqs, ReceiveFailureAck(p, n) PROVE RemoteInv'
  BY <1>n, <1>17 DEF ReceiveFailureAck, cseqVars
<1>18. ASSUME NEW p \in Phones, NEW n \in CSeqs, FailureAckTimesOut(p, n) PROVE RemoteInv'
  BY <1>n, <1>18 DEF FailureAckTimesOut, cseqVars
<1>19. ASSUME NEW p \in Phones, NEW n \in CSeqs, AckTimesOut(p, n) PROVE RemoteInv'
  BY <1>n, <1>19 DEF AckTimesOut, cseqVars
<1>20. ASSUME NEW p \in Phones, NEW n \in CSeqs, ReceiveReInvite(p, n) PROVE RemoteInv'
  BY <1>r, <1>20 DEF ReceiveReInvite, Asked, AskedAs, Sent, Msg
<1>21. ASSUME NEW p \in Phones, NEW n \in CSeqs, ReceiveAck(p, n) PROVE RemoteInv'
  BY <1>n, <1>21 DEF ReceiveAck, cseqVars
<1>22. ASSUME NEW p \in Phones, NEW n \in CSeqs, ReceiveBye(p, n) PROVE RemoteInv'
  BY <1>n, <1>22 DEF ReceiveBye, cseqVars
<1>23. ASSUME NEW p \in Phones, NEW n \in CSeqs, ReceiveCancel(p, n) PROVE RemoteInv'
  BY <1>r, <1>o, <1>23 DEF ReceiveCancel, Fails
<1>24. ASSUME NEW p \in Phones, NEW m \in {"INVITE", "BYE"}, NEW n \in CSeqs,
              ProxyAnswersRequest(p, m, n)
       PROVE RemoteInv'
  BY <1>n, <1>24 DEF ProxyAnswersRequest, cseqVars
<1> QED BY <1>1, <1>2, <1>3, <1>4, <1>5, <1>6, <1>7, <1>8, <1>9, <1>10, <1>11, <1>12, <1>13,
     <1>14, <1>15, <1>16, <1>17, <1>18, <1>19, <1>20, <1>21, <1>22, <1>23, <1>24 DEF Step,
     UserStep, ClientStep, ServerStep

\* What OrderInv says of one phone.
Ordered(p) ==
  /\ Pending(p) # {} => status[p] \in Inviting \cup {"CLOSE"}
  /\ \A m, n \in Pending(p) : m = n
  /\ \A n \in Pending(p), m \in CSeqs : Asked(Peer(p), m) => m <= n
  /\ p \in plan.reInviters => \A n \in Pending(p) : n <= localCSeq[p]
  /\ Pending(p) = {} /\ status[p] # "CLOSE" =>
       \A m \in CSeqs : Asked(Peer(p), m) => m <= localCSeq[p]

\* A phone that asks nothing and counts nothing.
LEMMA OrderedKept ==
  ASSUME UNCHANGED plan, NEW p \in Phones, Ordered(p),
         \A m \in CSeqs : Asked(Peer(p), m)' => Asked(Peer(p), m),
         UNCHANGED <<inviteTc, retryTc>>, localCSeq'[p] = localCSeq[p],
         status[p] = "CLOSE" => status'[p] = "CLOSE",
         Pending(p) # {} => status'[p] \in Inviting \cup {"CLOSE"}
  PROVE  Ordered(p)'
<1>1. Pending(p)' = Pending(p)
  BY DEF Pending
<1> QED BY <1>1 DEF Ordered

\* A phone whose one pending INVITE has been reported.
LEMMA OrderedReports ==
  ASSUME PhonesOK, UNCHANGED plan, NEW p \in Phones, NEW n \in CSeqs, Ordered(p), Reports(p, n),
         \A m \in CSeqs : Asked(Peer(p), m)' => Asked(Peer(p), m),
         localCSeq'[p] \in CSeqs, status'[p] = "CLOSE" \/ n <= localCSeq'[p]
  PROVE  Ordered(p)'
<1>1. Pending(p)' = {} /\ n \in Pending(p)
  BY DEF Ordered, Reports, Pending, PhonesOK
<1>2. \A m \in CSeqs : Asked(Peer(p), m)' => m <= n
  BY <1>1 DEF Ordered
<1>3. \A m \in CSeqs : m <= n /\ n <= localCSeq'[p] => m <= localCSeq'[p]
  BY DEF CSeqs
<1>4. status'[p] # "CLOSE" => \A m \in CSeqs : Asked(Peer(p), m)' => m <= localCSeq'[p]
  BY <1>2, <1>3
<1> QED BY <1>1, <1>4 DEF Ordered

\* In an orderly plan a phone counts on from what its peer has taken.
LEMMA OrderStays ==
  ASSUME Typed, SetupInv, MessagesInv, RoleInv, OrderInv, Next
  PROVE  OrderInv'
<1>t. /\ PhonesOK /\ plan \in Plans /\ UNCHANGED plan /\ Step
      /\ Caller # Callee /\ Phones = {Caller, Callee}
      /\ Peer(Caller) = Callee /\ Peer(Callee) = Caller
      /\ \A p \in Phones : Peer(p) \in Phones /\ Peer(p) # p /\ Peer(Peer(p)) = p
  BY TypeOKParts, PeerFacts DEF Typed, Next
<1> SUFFICES ASSUME Orderly(plan) PROVE \A p \in Phones : Ordered(p)'
  BY <1>t DEF OrderInv, Orderly, Ordered
<1>o. \A p \in Phones : Ordered(p)
  BY DEF OrderInv, Ordered
<1>p. \A p \in Phones : p \notin plan.reInviters \/ Peer(p) \notin plan.reInviters
  BY <1>t, PlanFacts DEF Orderly
<1>i. \A p \in Phones : status[p] \notin Inviting \cup {"CLOSE"} => Pending(p) = {}
  BY <1>o DEF Ordered
<1> DEFINE AskedKept == \A p \in Phones, m \in CSeqs : Asked(p, m)' => Asked(p, m)
<1>a. SameAsked => AskedKept
  BY AskedStays
<1>w. \A ms : Send(ms) /\ Without(ms, Invite) => AskedKept
  BY <1>a, OthersStay
<1>n. UNCHANGED wire => AskedKept
  BY <1>a, NothingSent DEF SameViews
<1> HIDE DEF AskedKept
<1>k. ASSUME AskedKept, UNCHANGED <<inviteTc, retryTc, localCSeq>>,
             \A p \in Phones : status[p] = "CLOSE" => status'[p] = "CLOSE",
             \A p \in Phones : Pending(p) # {} => status'[p] \in Inviting \cup {"CLOSE"}
      PROVE  \A p \in Phones : Ordered(p)'
  BY <1>t, <1>o, <1>k, OrderedKept DEF AskedKept
\* The phone that has not made the step.
<1>q. ASSUME NEW p \in Phones, \A m \in CSeqs : Asked(p, m)' => Asked(p, m),
             inviteTc'[Peer(p)] = inviteTc[Peer(p)], retryTc'[Peer(p)] = retryTc[Peer(p)],
             localCSeq'[Peer(p)] = localCSeq[Peer(p)], status'[Peer(p)] = status[Peer(p)]
      PROVE  Ordered(Peer(p))'
  <2>1. Pending(Peer(p))' = Pending(Peer(p))
    BY <1>q DEF Pending
  <2> QED BY <1>t, <1>o, <1>q, <2>1 DEF Ordered
<1>e. ASSUME NEW p \in Phones, Ordered(p)', Ordered(Peer(p))'
      PROVE \A q \in Phones : Ordered(q)'
  BY <1>t, <1>e
<1>s. ASSUME NEW p \in Phones, SendsInvite(p), status[p] \notin Inviting \cup {"CLOSE"},
             status'[p] \in Inviting, status'[Peer(p)] = status[Peer(p)]
      PROVE  \A q \in Phones : Ordered(q)'
  <2> DEFINE n == localCSeq[p] + 1
  <2>1. n \in CSeqs /\ localCSeq[p] \in CSeqs
    BY <1>t, <1>s, CSeqTyped DEF SendsInvite, PhonesOK
  <2>2. Pending(p) = {} /\ Pending(p)' = {n} /\ localCSeq'[p] = n
    BY <1>t, <1>i, <1>s DEF SendsInvite, PhonesOK, Pending
  <2>3. /\ inviteTc'[Peer(p)] = inviteTc[Peer(p)] /\ retryTc'[Peer(p)] = retryTc[Peer(p)]
        /\ localCSeq'[Peer(p)] = localCSeq[Peer(p)]
    BY <1>t, <1>s DEF SendsInvite, PhonesOK
  <2>4. \A m \in CSeqs : m <= localCSeq[p] => m <= n
    BY <2>1 DEF CSeqs
  <2> DEFINE s == tagged[p]
  <2>5. Send({TaggedMsg(Peer(p), Invite, n, s)})
    BY <1>s DEF SendsInvite
  <2> HIDE DEF n, s
  <2>6. \A q \in Phones, k \in CSeqs, t \in BOOLEAN :
          AskedAs(q, k, t)' <=> AskedAs(q, k, t) \/ (q = Peer(p) /\ k = n /\ t = s)
    BY <2>5, InviteSent
  <2>7. \A q \in Phones, k \in CSeqs : Asked(q, k)' => Asked(q, k) \/ (q = Peer(p) /\ k = n)
    BY <2>6 DEF Asked
  <2>8. n <= n
    BY <2>1 DEF CSeqs
  <2>9. \A m \in CSeqs : Asked(Peer(p), m) => m <= localCSeq[p]
    BY <1>o, <1>s, <2>2 DEF Ordered
  <2>10. \A m \in CSeqs : Asked(Peer(p), m)' => m <= n
    BY <1>t, <2>4, <2>7, <2>8, <2>9
  <2>11. Ordered(p)'
    BY <1>s, <2>2, <2>8, <2>10 DEF Ordered
  <2>12. Ordered(Peer(p))'
    BY <1>t, <1>q, <1>s, <2>3, <2>7
  <2> QED BY <1>e, <2>11, <2>12
\* A report of the client transaction of an INVITE.
<1>r. ASSUME NEW p \in Phones, NEW n \in CSeqs, Reports(p, n), AskedKept,
             localCSeq'[p] \in CSeqs, status'[p] = "CLOSE" \/ n <= localCSeq'[p],
             localCSeq'[Peer(p)] = localCSeq[Peer(p)], status'[Peer(p)] = status[Peer(p)]
      PROVE  \A q \in Phones : Ordered(q)'
  <2>1. inviteTc'[Peer(p)] = inviteTc[Peer(p)] /\ retryTc'[Peer(p)] = retryTc[Peer(p)]
    BY <1>t, <1>r DEF Reports, PhonesOK
  <2>2. Ordered(p)'
    BY <1>t, <1>o, <1>r, OrderedReports DEF AskedKept
  <2>3. Ordered(Peer(p))'
    BY <1>q, <1>r, <2>1 DEF AskedKept
  <2> QED BY <1>e, <2>2, <2>3
<1>f. ASSUME NEW p \in Phones, Fails(p) PROVE AskedKept
  <2>1. Without({}, Invite)
          /\ Without({Msg(Peer(p), Response("INVITE", Failure), inviteReq[p])}, Invite)
    BY WithoutMsg, KindsDiffer DEF Without, AnswerClasses
  <2> QED BY <1>w, <1>f, <2>1 DEF Fails
<1>m. \A q, k, m : m # Invite => Without({Msg(q, m, k)}, Invite)
  BY WithoutMsg
<1>c. \A p : Without({CancelMsg(p)}, Invite)
  BY WithoutOne, KindsDiffer DEF CancelMsg
<1>g. \A p \in Phones : \A n \in Pending(p) : n \in CSeqs
  BY <1>t DEF Pending, PhonesOK
<1>l. \A n \in CSeqs : n <= n
  BY DEF CSeqs
<1> USE DEF Inviting, Invited, Accepted, Refused
<1>1. ASSUME Listen PROVE \A q \in Phones : Ordered(q)'
  <2>1. AskedKept
    BY <1>n, <1>1 DEF Listen
  <2>2. /\ UNCHANGED <<inviteTc, retryTc, localCSeq>>
        /\ \A q \in Phones : status[q] = "CLOSE" => status'[q] = "CLOSE"
        /\ \A q \in Phones : Pending(q) # {} => status'[q] \in Inviting \cup {"CLOSE"}
    BY <1>i, <1>1 DEF Listen, Becomes, clientVars, cseqVars
  <2> QED BY <1>k, <2>1, <2>2
<1>2. ASSUME InvitePeer PROVE \A q \in Phones : Ordered(q)'
  BY <1>t, <1>s, <1>2 DEF InvitePeer, Becomes, PhonesOK
<1>3. ASSUME NEW p \in Phones, ReInvite(p) PROVE \A q \in Phones : Ordered(q)'
  BY <1>t, <1>s, <1>3 DEF ReInvite, Becomes, PhonesOK
<1>4. ASSUME NEW p \in Phones, Accept(p) PROVE \A q \in Phones : Ordered(q)'
  <2>1. AskedKept
    <3>1. Response("INVITE", Success) # Invite
      BY KindsDiffer DEF AnswerClasses
    <3> QED BY <1>m, <1>w, <1>4, <3>1 DEF Accept
  <2>2. /\ UNCHANGED <<inviteTc, retryTc, localCSeq>>
        /\ \A q \in Phones : status[q] = "CLOSE" => status'[q] = "CLOSE"
        /\ \A q \in Phones : Pending(q) # {} => status'[q] \in Inviting \cup {"CLOSE"}
    BY <1>i, <1>4 DEF Accept, Becomes, clientVars
  <2> QED BY <1>k, <2>1, <2>2
<1>5. ASSUME NEW p \in Phones, Refuse(p) PROVE \A q \in Phones : Ordered(q)'
  <2>1. AskedKept
    BY <1>f, <1>5 DEF Refuse
  <2>2. /\ UNCHANGED <<inviteTc, retryTc, localCSeq>>
        /\ \A q \in Phones : status[q] = "CLOSE" => status'[q] = "CLOSE"
        /\ \A q \in Phones : Pending(q) # {} => status'[q] \in Inviting \cup {"CLOSE"}
    BY <1>i, <1>5 DEF Refuse, Fails, Becomes, clientVars
  <2> QED BY <1>k, <2>1, <2>2
<1>6. ASSUME NEW p \in Phones, Cancel(p) PROVE \A q \in Phones : Ordered(q)'
  <2>1. AskedKept
    BY <1>w, <1>c, <1>6 DEF Cancel
  <2>2. /\ UNCHANGED <<inviteTc, retryTc, localCSeq>>
        /\ \A q \in Phones : status[q] = "CLOSE" => status'[q] = "CLOSE"
        /\ \A q \in Phones : Pending(q) # {} => status'[q] \in Inviting \cup {"CLOSE"}
    BY <1>i, <1>6 DEF Cancel, clientVars, cseqVars
  <2> QED BY <1>k, <2>1, <2>2
<1>7. ASSUME NEW p \in Phones, Bye(p) PROVE \A q \in Phones : Ordered(q)'
  <2>1. AskedKept
    <3>1. Request("BYE") # Invite
      BY KindsDiffer DEF AnswerClasses
    <3> QED BY <1>m, <1>w, <1>7, <3>1 DEF Bye
  <2>2. /\ Pending(p) = {} /\ Pending(p)' = {} /\ status[p] # "CLOSE"
        /\ inviteTc'[Peer(p)] = inviteTc[Peer(p)] /\ retryTc'[Peer(p)] = retryTc[Peer(p)]
        /\ localCSeq'[Peer(p)] = localCSeq[Peer(p)] /\ status'[Peer(p)] = status[Peer(p)]
    BY <1>t, <1>i, <1>7 DEF Bye, Becomes, Pending
  <2>3. \A m \in CSeqs : m <= localCSeq[p] => m <= localCSeq'[p]
    BY <1>t, <1>7 DEF Bye, PhonesOK, CSeqs
  <2>4. Ordered(p)'
    BY <1>t, <1>o, <2>1, <2>2, <2>3 DEF Ordered, AskedKept
  <2> QED BY <1>q, <1>e, <2>1, <2>2, <2>4 DEF AskedKept
<1>8. ASSUME NEW p \in Phones, NEW n \in CSeqs, InviteSucceeds(p, n)
      PROVE \A q \in Phones : Ordered(q)'
  <2>1. AskedKept
    <3>1. Without({Msg(Peer(p), SuccessAck, n)}, Invite)
      BY <1>m, KindsDiffer
    <3> QED BY <1>n, <1>w, <1>8, <3>1 DEF InviteSucceeds
  <2>2. CASE status[p] \in Inviting
    BY <1>t, <1>r, <1>l, <1>8, <2>1, <2>2 DEF InviteSucceeds, Becomes, PhonesOK
  <2>3. CASE status[p] \notin Inviting
    <3>1. status[p] = "CLOSE"
      BY <1>i, <1>8, <2>3 DEF InviteSucceeds, Reports
    <3> QED BY <1>t, <1>r, <1>8, <2>1, <3>1 DEF InviteSucceeds, PhonesOK
  <2> QED BY <2>2, <2>3
<1>9. ASSUME NEW p \in Phones, NEW n \in CSeqs, InviteFails(p, n)
      PROVE \A q \in Phones : Ordered(q)'
  <2>1. AskedKept
    <3>1. Without(AcksFailure(p, n), Invite)
      BY WithoutAcks, KindsDiffer
    <3> QED BY <1>w, <1>9, <3>1 DEF InviteFails
  <2>2. n \in Pending(p)
    BY <1>9 DEF InviteFails, Reports
  <2>3. status[p] = "ReINVITING" => n <= localCSeq[p]
    BY <1>o, <2>2 DEF RoleInv, Ordered
  <2>4. status[p] \in Inviting \cup {"CLOSE"}
    BY <1>i, <2>2
  <2>5. UNCHANGED localCSeq /\ localCSeq[p] \in CSeqs
    BY <1>t, <1>9 DEF InviteFails, cseqVars, PhonesOK
  <2>6. status'[Peer(p)] = status[Peer(p)] /\ (status'[p] = "CLOSE" \/ n <= localCSeq[p])
    BY <1>t, <1>9, <2>3, <2>4 DEF InviteFails, Becomes, PhonesOK
  <2>7. Reports(p, n)
    BY <1>9 DEF InviteFails
  <2> QED BY <1>r, <2>1, <2>5, <2>6, <2>7
<1>10. ASSUME NEW p \in Phones, NEW n \in CSeqs, InviteChallenged(p, n)
       PROVE \A q \in Phones : Ordered(q)'
  <2>1. plan.reInviters = {}
    BY <1>10 DEF InviteChallenged, MessagesInv, Answered, Orderly
  <2>2. n \in Pending(p)
    BY <1>10 DEF InviteChallenged
  <2> DEFINE j == n + 1
  <2>3. Pending(p)' = {j}
    BY <1>t, <1>o, <1>10 DEF InviteChallenged, Ordered, Pending, PhonesOK
  <2>4. j \in CSeqs /\ j <= j /\ \A m \in CSeqs : m <= n => m <= j
    BY <1>t, <1>10, CSeqTyped DEF InviteChallenged, Retries, CSeqs
  <2>5. /\ inviteTc'[Peer(p)] = inviteTc[Peer(p)] /\ retryTc'[Peer(p)] = retryTc[Peer(p)]
        /\ localCSeq' = localCSeq /\ status' = status
    BY <1>t, <1>10 DEF InviteChallenged, PhonesOK
  <2>6. PICK tags \in BOOLEAN : Send(AcksFailure(p, n) \cup {TaggedMsg(Peer(p), Invite, j, tags)})
    BY <1>10 DEF InviteChallenged
  <2> HIDE DEF j
  <2>7. \A q \in Phones, k \in CSeqs, t \in BOOLEAN :
          AskedAs(q, k, t)' <=> AskedAs(q, k, t) \/ (q = Peer(p) /\ k = j /\ t = tags)
    BY <2>6, InviteSentAgain
  <2>8. \A q \in Phones, k \in CSeqs : Asked(q, k)' => Asked(q, k) \/ (q = Peer(p) /\ k = j)
    BY <2>7 DEF Asked
  <2>9. \A m \in CSeqs : Asked(Peer(p), m)' => m <= j
    BY <1>t, <1>o, <2>2, <2>4, <2>8 DEF Ordered
  <2>10. Ordered(p)'
    BY <1>t, <1>i, <2>1, <2>2, <2>3, <2>5, <2>9 DEF Ordered
  <2>11. Ordered(Peer(p))'
    BY <1>t, <1>q, <2>5, <2>8
  <2> QED BY <1>e, <2>10, <2>11
<1>11. ASSUME NEW p \in Phones, NEW n \in CSeqs, InviteTimesOut(p, n)
       PROVE \A q \in Phones : Ordered(q)'
  <2>1. AskedKept
    BY <1>n, <1>w, <1>c, <1>11 DEF InviteTimesOut
  <2>2. status[p] \in Inviting \cup {"CLOSE"}
    BY <1>i, <1>11 DEF InviteTimesOut, Reports
  <2>3. UNCHANGED localCSeq /\ localCSeq[p] \in CSeqs
    BY <1>t, <1>11 DEF InviteTimesOut, cseqVars, PhonesOK
  <2>4. status'[Peer(p)] = status[Peer(p)] /\ status'[p] = "CLOSE"
    BY <1>t, <1>11, <2>2 DEF InviteTimesOut, Becomes, PhonesOK
  <2>5. Reports(p, n)
    BY <1>11 DEF InviteTimesOut
  <2> QED BY <1>r, <2>1, <2>3, <2>4, <2>5
<1>12. ASSUME NEW p \in Phones, NEW n \in CSeqs, ByeSucceeds(p, n)
       PROVE \A q \in Phones : Ordered(q)'
  <2>1. AskedKept
    BY <1>n, <1>12 DEF ByeSucceeds, ByeEnds
  <2>2. /\ UNCHANGED <<inviteTc, retryTc, localCSeq>>
        /\ \A q \in Phones : status[q] = "CLOSE" => status'[q] = "CLOSE"
        /\ \A q \in Phones : Pending(q) # {} => status'[q] \in Inviting \cup {"CLOSE"}
    BY <1>t, <1>i, <1>12 DEF ByeSucceeds, ByeEnds, Becomes, PhonesOK, cseqVars
  <2> QED BY <1>k, <2>1, <2>2
<1>13. ASSUME NEW p \in Phones, NEW n \in CSeqs, ByeFails(p, n)
       PROVE \A q \in Phones : Ordered(q)'
  <2>1. AskedKept
    BY <1>n, <1>13 DEF ByeFails
  <2>2. /\ UNCHANGED <<inviteTc, retryTc, localCSeq>>
        /\ \A q \in Phones : status[q] = "CLOSE" => status'[q] = "CLOSE"
        /\ \A q \in Phones : Pending(q) # {} => status'[q] \in Inviting \cup {"CLOSE"}
    BY <1>t, <1>i, <1>13 DEF ByeFails, Becomes, PhonesOK, cseqVars
  <2> QED BY <1>k, <2>1, <2>2
<1>14. ASSUME NEW p \in Phones, NEW n \in CSeqs, ByeChallenged(p, n)
       PROVE \A q \in Phones : Ordered(q)'
  <2>1. AskedKept
    <3>1. Request("BYE") # Invite
      BY KindsDiffer DEF AnswerClasses
    <3> QED BY <1>m, <1>w, <1>14, <3>1 DEF ByeChallenged
  <2>2. /\ UNCHANGED <<inviteTc, retryTc, localCSeq>>
        /\ \A q \in Phones : status[q] = "CLOSE" => status'[q] = "CLOSE"
        /\ \A q \in Phones : Pending(q) # {} => status'[q] \in Inviting \cup {"CLOSE"}
    BY <1>i, <1>14 DEF ByeChallenged
  <2> QED BY <1>k, <2>1, <2>2
<1>15. ASSUME NEW p \in Phones, NEW n \in CSeqs, ByeTimesOut(p, n)
       PROVE \A q \in Phones : Ordered(q)'
  <2>1. AskedKept
    BY <1>n, <1>15 DEF ByeTimesOut, ByeEnds
  <2>2. /\ UNCHANGED <<inviteTc, retryTc, localCSeq>>
        /\ \A q \in Phones : status[q] = "CLOSE" => status'[q] = "CLOSE"
        /\ \A q \in Phones : Pending(q) # {} => status'[q] \in Inviting \cup {"CLOSE"}
    BY <1>t, <1>i, <1>15 DEF ByeTimesOut, ByeEnds, Becomes, PhonesOK, cseqVars
  <2> QED BY <1>k, <2>1, <2>2
<1>16. ASSUME NEW n \in CSeqs, ReceiveFirstInvite(n) PROVE \A q \in Phones : Ordered(q)'
  <2>1. AskedKept
    BY <1>n, <1>16 DEF ReceiveFirstInvite
  <2>2. /\ UNCHANGED <<inviteTc, retryTc, localCSeq>>
        /\ \A q \in Phones : status[q] = "CLOSE" => status'[q] = "CLOSE"
        /\ \A q \in Phones : Pending(q) # {} => status'[q] \in Inviting \cup {"CLOSE"}
    BY <1>i, <1>16 DEF ReceiveFirstInvite, Becomes, clientVars
  <2> QED BY <1>k, <2>1, <2>2
<1>17. ASSUME NEW p \in Phones, NEW n \in CSeqs, ReceiveFailureAck(p, n)
       PROVE \A q \in Phones : Ordered(q)'
  <2>1. AskedKept
    BY <1>n, <1>17 DEF ReceiveFailureAck
  <2>2. /\ UNCHANGED <<inviteTc, retryTc, localCSeq>>
        /\ \A q \in Phones : status[q] = "CLOSE" => status'[q] = "CLOSE"
        /\ \A q \in Phones : Pending(q) # {} => status'[q] \in Inviting \cup {"CLOSE"}
    BY <1>t, <1>i, <1>17 DEF ReceiveFailureAck, Becomes, PhonesOK, clientVars, cseqVars
  <2> QED BY <1>k, <2>1, <2>2
<1>18. ASSUME NEW p \in Phones, NEW n \in CSeqs, FailureAckTimesOut(p, n)
       PROVE \A q \in Phones : Ordered(q)'
  <2>1. AskedKept
    BY <1>n, <1>18 DEF FailureAckTimesOut
  <2>2. /\ UNCHANGED <<inviteTc, retryTc, localCSeq>>
        /\ \A q \in Phones : status[q] = "CLOSE" => status'[q] = "CLOSE"
        /\ \A q \in Phones : Pending(q) # {} => status'[q] \in Inviting \cup {"CLOSE"}
    BY <1>i, <1>18 DEF FailureAckTimesOut, clientVars, cseqVars
  <2> QED BY <1>k, <2>1, <2>2
<1>19. ASSUME NEW p \in Phones, NEW n \in CSeqs, AckTimesOut(p, n)
       PROVE \A q \in Phones : Ordered(q)'
  <2>1. AskedKept
    BY <1>n, <1>19 DEF AckTimesOut
  <2>2. /\ UNCHANGED <<inviteTc, retryTc, localCSeq>>
        /\ \A q \in Phones : status[q] = "CLOSE" => status'[q] = "CLOSE"
        /\ \A q \in Phones : Pending(q) # {} => status'[q] \in Inviting \cup {"CLOSE"}
    BY <1>t, <1>i, <1>19 DEF AckTimesOut, Becomes, PhonesOK, clientVars, cseqVars
  <2> QED BY <1>k, <2>1, <2>2
<1>20. ASSUME NEW p \in Phones, NEW n \in CSeqs, ReceiveReInvite(p, n)
       PROVE \A q \in Phones : Ordered(q)'
  <2>1. AskedKept
    BY <1>n, <1>20 DEF ReceiveReInvite
  <2>2. Peer(p) \in plan.reInviters
    BY <1>20 DEF ReceiveReInvite, MessagesInv, AskedAs, Sent, Msg
  <2>3. Pending(p) = {}
    <3>1. Pending(p) # {} => status[p] = "INVITING"
      BY <1>p, <2>2 DEF RoleInv
    <3>2. status[p] # "INVITING"
      BY <1>t, <1>20 DEF ReceiveReInvite, Dispatched, SetupInv, InCall, Modifying
    <3> QED BY <3>1, <3>2
  <2>4. /\ UNCHANGED <<inviteTc, retryTc, localCSeq>>
        /\ \A q \in Phones : status[q] = "CLOSE" => status'[q] = "CLOSE"
        /\ \A q \in Phones : Pending(q) # {} => status'[q] \in Inviting \cup {"CLOSE"}
    BY <1>i, <2>3, <1>20 DEF ReceiveReInvite, Becomes, clientVars, Dispatched
  <2> QED BY <1>k, <2>1, <2>4
<1>21. ASSUME NEW p \in Phones, NEW n \in CSeqs, ReceiveAck(p, n)
       PROVE \A q \in Phones : Ordered(q)'
  <2>1. AskedKept
    BY <1>n, <1>21 DEF ReceiveAck
  <2>2. /\ UNCHANGED <<inviteTc, retryTc, localCSeq>>
        /\ \A q \in Phones : status[q] = "CLOSE" => status'[q] = "CLOSE"
        /\ \A q \in Phones : Pending(q) # {} => status'[q] \in Inviting \cup {"CLOSE"}
    BY <1>i, <1>21 DEF ReceiveAck, Becomes, clientVars, cseqVars
  <2> QED BY <1>k, <2>1, <2>2
<1>22. ASSUME NEW p \in Phones, NEW n \in CSeqs, ReceiveBye(p, n)
       PROVE \A q \in Phones : Ordered(q)'
  <2>1. AskedKept
    <3>1. Response("BYE", Success) # Invite
      BY KindsDiffer DEF AnswerClasses
    <3> QED BY <1>m, <1>w, <1>22, <3>1 DEF ReceiveBye
  <2>2. /\ UNCHANGED <<inviteTc, retryTc, localCSeq>>
        /\ \A q \in Phones : status[q] = "CLOSE" => status'[q] = "CLOSE"
        /\ \A q \in Phones : Pending(q) # {} => status'[q] \in Inviting \cup {"CLOSE"}
    BY <1>i, <1>22 DEF ReceiveBye, Becomes, clientVars, cseqVars
  <2> QED BY <1>k, <2>1, <2>2
<1>23. ASSUME NEW p \in Phones, NEW n \in CSeqs, ReceiveCancel(p, n)
       PROVE \A q \in Phones : Ordered(q)'
  <2>1. AskedKept
    BY <1>f, <1>23 DEF ReceiveCancel
  <2>2. /\ UNCHANGED <<inviteTc, retryTc, localCSeq>>
        /\ \A q \in Phones : status[q] = "CLOSE" => status'[q] = "CLOSE"
        /\ \A q \in Phones : Pending(q) # {} => status'[q] \in Inviting \cup {"CLOSE"}
    BY <1>i, <1>23 DEF ReceiveCancel, Fails, Becomes, clientVars
  <2> QED BY <1>k, <2>1, <2>2
<1>24. ASSUME NEW p \in Phones, NEW m \in {"INVITE", "BYE"}, NEW n \in CSeqs,
              ProxyAnswersRequest(p, m, n)
       PROVE \A q \in Phones : Ordered(q)'
  <2>1. AskedKept
    <3>1. \A c \in plan.proxyAnswers : Without({Msg(Peer(p), Response(m, c), n)}, Invite)
      BY <1>t, <1>m, PlanFacts, KindsDiffer DEF AnswerClasses
    <3> QED BY <1>w, <1>24, <3>1 DEF ProxyAnswersRequest
  <2>2. /\ UNCHANGED <<inviteTc, retryTc, localCSeq>>
        /\ \A q \in Phones : status[q] = "CLOSE" => status'[q] = "CLOSE"
        /\ \A q \in Phones : Pending(q) # {} => status'[q] \in Inviting \cup {"CLOSE"}
    BY <1>i, <1>24 DEF ProxyAnswersRequest, clientVars, cseqVars
  <2> QED BY <1>k, <2>1, <2>2
<1>25. Step
  BY <1>t
<1> QED BY <1>25, <1>1, <1>2, <1>3, <1>4, <1>5, <1>6, <1>7, <1>8, <1>9, <1>10, <1>11, <1>12,
     <1>13, <1>14, <1>15, <1>16, <1>17, <1>18, <1>19, <1>20, <1>21, <1>22, <1>23, <1>24
     DEF Step, UserStep, ClientStep, ServerStep

-----------------------------------------------------------------------------
(* The ACKs of failures.                                                   *)

\* A failure ACK that has been sent was sent before.
NoFailureAckSent ==
  \A p \in Phones, n \in CSeqs : Sent(p, FailureAck, n)' => Sent(p, FailureAck, n)

\* Nothing but the ACK of a failure is of that kind.
LEMMA OthersAreNoFailureAck ==
  ASSUME NEW ms, Send(ms), Without(ms, FailureAck)
  PROVE  NoFailureAckSent
BY NoneSent DEF NoFailureAckSent, Without, Sent, Msg

LEMMA OtherIsNoFailureAck ==
  ASSUME NEW q, NEW m, NEW k, NEW s, Send({TaggedMsg(q, m, k, s)}), m # FailureAck
  PROVE  NoFailureAckSent
BY OthersAreNoFailureAck, WithoutOne

LEMMA NothingIsNoFailureAck ==
  ASSUME UNCHANGED wire
  PROVE  NoFailureAckSent
BY DEF NoFailureAckSent, Sent

\* The answers stay, so that only a new ACK needs a failure.
LEMMA FailureAcksKept ==
  ASSUME FailureAckInv, wire \subseteq wire', NoFailureAckSent
  PROVE  FailureAckInv'
BY DEF FailureAckInv, NoFailureAckSent, Answered, Sent

\* An ACK goes out for a failure that has been received.
LEMMA FailureAckSent ==
  ASSUME FailureAckInv, wire \subseteq wire', NEW p \in Phones, NEW n \in CSeqs, NEW ms,
         Send(AcksFailure(p, n) \cup ms), Without(ms, FailureAck),
         Answered(p, n, Failure) \/ Answered(p, n, Challenge)
  PROVE  FailureAckInv'
<1>1. ASSUME NEW q \in Phones, NEW k \in CSeqs, Sent(q, FailureAck, k)', ~Sent(q, FailureAck, k)
      PROVE  q = Peer(p) /\ k = n
  <2>1. Msg(q, FailureAck, k) \in AcksFailure(p, n)
    BY <1>1 DEF Sent, Send, Without, Msg
  <2> QED BY <2>1 DEF AcksFailure, Msg, TaggedMsg
<1>2. Peer(Peer(p)) = p
  BY PeerFacts
<1> QED BY <1>1, <1>2 DEF FailureAckInv, Answered, Sent

\* Every ACK of a failure answers one.
LEMMA FailureAcksStay ==
  ASSUME FailureAckInv, Step
  PROVE  FailureAckInv'
<1>w. wire \subseteq wire'
  BY WireOnlyGrows
<1>n. NoFailureAckSent => FailureAckInv'
  BY <1>w, FailureAcksKept
<1>k. \A m \in {"INVITE", "BYE"}, c \in AnswerClasses : Response(m, c) # FailureAck
  BY KindsDiffer
<1>c. Request("CANCEL") # FailureAck
  BY DEF Request, FailureAck
<1>1. ASSUME Listen PROVE FailureAckInv'
  BY <1>n, <1>1, NothingIsNoFailureAck DEF Listen
<1>2. ASSUME InvitePeer PROVE FailureAckInv'
  BY <1>n, <1>2, OtherIsNoFailureAck, KindsDiffer DEF InvitePeer, SendsInvite
<1>3. ASSUME NEW p \in Phones, ReInvite(p) PROVE FailureAckInv'
  BY <1>n, <1>3, OtherIsNoFailureAck, KindsDiffer DEF ReInvite, SendsInvite
<1>4. ASSUME NEW p \in Phones, Accept(p) PROVE FailureAckInv'
  BY <1>n, <1>k, <1>4, OtherIsNoFailureAck DEF Accept, Msg, AnswerClasses
<1>f. ASSUME NEW p \in Phones, Fails(p) PROVE FailureAckInv'
  <2>1. CASE inviteTs[p][inviteReq[p]] = "open"
    BY <1>n, <1>k, <1>f, <2>1, OtherIsNoFailureAck DEF Fails, Msg, AnswerClasses
  <2>2. CASE inviteTs[p][inviteReq[p]] # "open"
    BY <1>n, <1>f, <2>2, NothingIsNoFailureAck DEF Fails, Send
  <2> QED BY <2>1, <2>2
<1>5. ASSUME NEW p \in Phones, Refuse(p) PROVE FailureAckInv'
  BY <1>f, <1>5 DEF Refuse
<1>6. ASSUME NEW p \in Phones, Cancel(p) PROVE FailureAckInv'
  BY <1>n, <1>c, <1>6, OtherIsNoFailureAck DEF Cancel, CancelMsg
<1>7. ASSUME NEW p \in Phones, Bye(p) PROVE FailureAckInv'
  BY <1>n, <1>7, OtherIsNoFailureAck, KindsDiffer DEF Bye, Msg
<1>8. ASSUME NEW p \in Phones, NEW n \in CSeqs, InviteSucceeds(p, n) PROVE FailureAckInv'
  <2>1. CASE status[p] \in Inviting
    BY <1>n, <1>8, <2>1, OtherIsNoFailureAck, KindsDiffer DEF InviteSucceeds, Msg
  <2>2. CASE status[p] \notin Inviting
    BY <1>n, <1>8, <2>2, NothingIsNoFailureAck DEF InviteSucceeds
  <2> QED BY <2>1, <2>2
<1>9. ASSUME NEW p \in Phones, NEW n \in CSeqs, InviteFails(p, n) PROVE FailureAckInv'
  <2>1. Answered(p, n, Failure) \/ Answered(p, n, Challenge)
    BY <1>9 DEF InviteFails, GivesUp, Answered
  <2>2. Send(AcksFailure(p, n) \cup {}) /\ Without({}, FailureAck)
    BY <1>9 DEF InviteFails, Send, Without
  <2> QED BY <1>w, <2>1, <2>2, FailureAckSent
<1>10. ASSUME NEW p \in Phones, NEW n \in CSeqs, InviteChallenged(p, n) PROVE FailureAckInv'
  <2>1. Answered(p, n, Challenge)
    BY <1>10 DEF InviteChallenged, Answered
  <2>2. PICK tags \in BOOLEAN :
          Send(AcksFailure(p, n) \cup {TaggedMsg(Peer(p), Invite, n + 1, tags)})
    BY <1>10 DEF InviteChallenged
  <2>3. Without({TaggedMsg(Peer(p), Invite, n + 1, tags)}, FailureAck)
    BY WithoutOne, KindsDiffer
  <2> QED BY <1>w, <2>1, <2>2, <2>3, FailureAckSent
<1>11. ASSUME NEW p \in Phones, NEW n \in CSeqs, InviteTimesOut(p, n) PROVE FailureAckInv'
  <2>1. CASE status[p] \in Inviting
    BY <1>n, <1>c, <1>11, <2>1, OtherIsNoFailureAck DEF InviteTimesOut, CancelMsg
  <2>2. CASE status[p] \notin Inviting
    BY <1>n, <1>11, <2>2, NothingIsNoFailureAck DEF InviteTimesOut
  <2> QED BY <2>1, <2>2
<1>12. ASSUME NEW p \in Phones, NEW n \in CSeqs,
              ByeSucceeds(p, n) \/ ByeFails(p, n) \/ ByeTimesOut(p, n)
       PROVE  FailureAckInv'
  BY <1>n, <1>12, NothingIsNoFailureAck DEF ByeSucceeds, ByeFails, ByeTimesOut, ByeEnds
<1>14. ASSUME NEW p \in Phones, NEW n \in CSeqs, ByeChallenged(p, n) PROVE FailureAckInv'
  BY <1>n, <1>14, OtherIsNoFailureAck, KindsDiffer DEF ByeChallenged, Msg
<1>16. ASSUME NEW n \in CSeqs, ReceiveFirstInvite(n) PROVE FailureAckInv'
  BY <1>n, <1>16, NothingIsNoFailureAck DEF ReceiveFirstInvite
<1>17. ASSUME NEW p \in Phones, NEW n \in CSeqs,
              ReceiveFailureAck(p, n) \/ FailureAckTimesOut(p, n) \/ AckTimesOut(p, n)
       PROVE  FailureAckInv'
  BY <1>n, <1>17, NothingIsNoFailureAck DEF ReceiveFailureAck, FailureAckTimesOut, AckTimesOut
<1>20. ASSUME NEW p \in Phones, NEW n \in CSeqs, ReceiveReInvite(p, n) \/ ReceiveAck(p, n)
       PROVE  FailureAckInv'
  BY <1>n, <1>20, NothingIsNoFailureAck DEF ReceiveReInvite, ReceiveAck
<1>22. ASSUME NEW p \in Phones, NEW n \in CSeqs, ReceiveBye(p, n) PROVE FailureAckInv'
  BY <1>n, <1>k, <1>22, OtherIsNoFailureAck DEF ReceiveBye, Msg, AnswerClasses
<1>23. ASSUME NEW p \in Phones, NEW n \in CSeqs, ReceiveCancel(p, n) PROVE FailureAckInv'
  BY <1>f, <1>23 DEF ReceiveCancel
<1>24. ASSUME NEW p \in Phones, NEW m \in {"INVITE", "BYE"}, NEW n \in CSeqs,
              ProxyAnswersRequest(p, m, n)
       PROVE FailureAckInv'
  <2>1. PICK c \in plan.proxyAnswers : Send({Msg(Peer(p), Response(m, c), n)})
    BY <1>24 DEF ProxyAnswersRequest
  <2>2. Response(m, c) # FailureAck
    BY DEF Response, FailureAck, Request
  <2> QED BY <1>n, <2>1, <2>2, OtherIsNoFailureAck DEF Msg
<1> QED BY <1>1, <1>2, <1>3, <1>4, <1>5, <1>6, <1>7, <1>8, <1>9, <1>10, <1>11, <1>12,
     <1>14, <1>16, <1>17, <1>20, <1>22, <1>23, <1>24
     DEF Step, UserStep, ClientStep, ServerStep

\* Before the call the callee is done with no INVITE but the one it accepts.
LEMMA FirstStays ==
  ASSUME Typed, ServingInv, FirstInv, Step
  PROVE  FirstInv'
<1>t. /\ PhonesOK /\ Caller # Callee /\ Callee \in Phones /\ Phones = {Caller, Callee}
      /\ Peer(Callee) = Caller
  BY TypeOKParts, PeerFacts DEF Typed
<1>w. \A n : Answered(Caller, n, Success) => Answered(Caller, n, Success)'
  BY WireOnlyGrows DEF Answered, Sent
<1>k. UNCHANGED inviteTs[Callee] /\ (status'[Callee] \in {"INVITED", "ACCEPTED"} =>
        status[Callee] = status'[Callee]) => FirstInv'
  BY <1>w DEF FirstInv
<1> USE DEF Becomes, cseqVars, serverVars, PhonesOK
<1>1. ASSUME Listen PROVE FirstInv'
  BY <1>t, <1>k, <1>1 DEF Listen
<1>2. ASSUME InvitePeer PROVE FirstInv'
  BY <1>t, <1>k, <1>2 DEF InvitePeer, SendsInvite
<1>3. ASSUME NEW p \in Phones, ReInvite(p) PROVE FirstInv'
  BY <1>t, <1>k, <1>3 DEF ReInvite, SendsInvite
<1>4. ASSUME NEW p \in Phones, Accept(p) PROVE FirstInv'
  <2>1. CASE p # Callee
    BY <1>t, <1>k, <1>4, <2>1 DEF Accept
  <2>2. CASE p = Callee /\ status[p] = "INVITED"
    <3>1. Answered(Caller, inviteReq[p], Success)'
      BY <1>t, <1>4, <2>2, MsgSent DEF Accept, Answered
    <3> QED BY <1>t, <1>w, <1>4, <2>2, <3>1 DEF Accept, FirstInv
  <2>3. CASE p = Callee /\ status[p] # "INVITED"
    BY <1>t, <1>4, <2>3 DEF Accept, FirstInv, Invited
  <2> QED BY <2>1, <2>2, <2>3
<1>f. ASSUME NEW p \in Phones, Fails(p) PROVE FirstInv'
  <2>1. CASE p # Callee
    BY <1>t, <1>k, <1>f, <2>1 DEF Fails
  <2>2. CASE p = Callee
    BY <1>t, <1>f, <2>2 DEF Fails, FirstInv, Invited
  <2> QED BY <2>1, <2>2
<1>5. ASSUME NEW p \in Phones, Refuse(p) PROVE FirstInv'
  BY <1>f, <1>5 DEF Refuse
<1>6. ASSUME NEW p \in Phones, Cancel(p) PROVE FirstInv'
  BY <1>t, <1>k, <1>6 DEF Cancel
<1>7. ASSUME NEW p \in Phones, Bye(p) PROVE FirstInv'
  BY <1>t, <1>k, <1>7 DEF Bye
<1>8. ASSUME NEW p \in Phones, NEW n \in CSeqs, InviteSucceeds(p, n) PROVE FirstInv'
  BY <1>t, <1>k, <1>8 DEF InviteSucceeds
<1>9. ASSUME NEW p \in Phones, NEW n \in CSeqs, InviteFails(p, n) PROVE FirstInv'
  BY <1>t, <1>k, <1>9 DEF InviteFails
<1>10. ASSUME NEW p \in Phones, NEW n \in CSeqs, InviteChallenged(p, n) PROVE FirstInv'
  BY <1>t, <1>k, <1>10 DEF InviteChallenged
<1>11. ASSUME NEW p \in Phones, NEW n \in CSeqs, InviteTimesOut(p, n) PROVE FirstInv'
  BY <1>t, <1>k, <1>11 DEF InviteTimesOut
<1>12. ASSUME NEW p \in Phones, NEW n \in CSeqs, ByeSucceeds(p, n) PROVE FirstInv'
  BY <1>t, <1>k, <1>12 DEF ByeSucceeds, ByeEnds
<1>13. ASSUME NEW p \in Phones, NEW n \in CSeqs, ByeFails(p, n) PROVE FirstInv'
  BY <1>t, <1>k, <1>13 DEF ByeFails
<1>14. ASSUME NEW p \in Phones, NEW n \in CSeqs, ByeChallenged(p, n) PROVE FirstInv'
  BY <1>t, <1>k, <1>14 DEF ByeChallenged
<1>15. ASSUME NEW p \in Phones, NEW n \in CSeqs, ByeTimesOut(p, n) PROVE FirstInv'
  BY <1>t, <1>k, <1>15 DEF ByeTimesOut, ByeEnds
<1>16. ASSUME NEW n \in CSeqs, ReceiveFirstInvite(n) PROVE FirstInv'
  BY <1>t, <1>16 DEF ReceiveFirstInvite, ServingInv, FirstInv
<1>d. ASSUME NEW p \in Phones, NEW n \in CSeqs, inviteTs[p][n] = "completed",
             inviteTs' = [inviteTs EXCEPT ![p][n] = "ended"],
             status'[Callee] \in {"INVITED", "ACCEPTED"} => status[Callee] = status'[Callee]
      PROVE  FirstInv'
  <2>1. CASE p # Callee
    BY <1>t, <1>k, <1>d, <2>1
  <2>2. CASE p = Callee
    BY <1>d, <2>2 DEF FirstInv
  <2> QED BY <2>1, <2>2
<1>17. ASSUME NEW p \in Phones, NEW n \in CSeqs, ReceiveFailureAck(p, n) PROVE FirstInv'
  BY <1>t, <1>d, <1>17 DEF ReceiveFailureAck
<1>18. ASSUME NEW p \in Phones, NEW n \in CSeqs, FailureAckTimesOut(p, n) PROVE FirstInv'
  BY <1>t, <1>d, <1>18 DEF FailureAckTimesOut
<1>19. ASSUME NEW p \in Phones, NEW n \in CSeqs, AckTimesOut(p, n) PROVE FirstInv'
  BY <1>t, <1>k, <1>19 DEF AckTimesOut
<1>20. ASSUME NEW p \in Phones, NEW n \in CSeqs, ReceiveReInvite(p, n) PROVE FirstInv'
  <2>1. CASE p # Callee
    BY <1>t, <1>k, <1>20, <2>1 DEF ReceiveReInvite
  <2>2. CASE p = Callee
    BY <1>t, <1>20, <2>2 DEF ReceiveReInvite, FirstInv
  <2> QED BY <2>1, <2>2
<1>21. ASSUME NEW p \in Phones, NEW n \in CSeqs, ReceiveAck(p, n) PROVE FirstInv'
  BY <1>t, <1>k, <1>21 DEF ReceiveAck
<1>22. ASSUME NEW p \in Phones, NEW n \in CSeqs, ReceiveBye(p, n) PROVE FirstInv'
  BY <1>t, <1>k, <1>22 DEF ReceiveBye
<1>23. ASSUME NEW p \in Phones, NEW n \in CSeqs, ReceiveCancel(p, n) PROVE FirstInv'
  BY <1>f, <1>23 DEF ReceiveCancel
<1>24. ASSUME NEW p \in Phones, NEW m \in {"INVITE", "BYE"}, NEW n \in CSeqs,
              ProxyAnswersRequest(p, m, n)
       PROVE FirstInv'
  BY <1>t, <1>k, <1>24 DEF ProxyAnswersRequest
<1> QED BY <1>1, <1>2, <1>3, <1>4, <1>5, <1>6, <1>7, <1>8, <1>9, <1>10, <1>11, <1>12,
     <1>13, <1>14, <1>15, <1>16, <1>17, <1>18, <1>19, <1>20, <1>21, <1>22, <1>23, <1>24
     DEF Step, UserStep, ClientStep, ServerStep

-----------------------------------------------------------------------------
(* The theorems.                                                           *)

\* The invariant holds before the first INVITE.
LEMMA InitHolds == Init => IInv
<1> SUFFICES ASSUME Init PROVE IInv
  OBVIOUS
<1>1. Caller # Callee /\ Phones = {Caller, Callee} /\ \A p \in Phones : Peer(p) \in Phones
  BY PeerFacts
<1>2. \A p, m, n, t : TaggedMsg(p, m, n, t) \notin wire
  BY DEF Init
<1>3. PhonesOK
  BY DialogAssumption DEF Init, PhonesOK, DialogStates, CSeqs
<1>4. Typed
  BY <1>3, TypeOKParts DEF Init, Typed
<1>5. \A p, n, c : ~Answered(p, n, c) /\ ~ByeAnswered(p, n, c)
  BY <1>2 DEF Answered, ByeAnswered, Sent, Msg
<1>6. \A p, n : ~Acked(p, n) /\ ~ByeSent(p, n) /\ ~Asked(p, n) /\ ~AskedAs(p, n, TRUE)
  BY <1>2 DEF Acked, ByeSent, Asked, AskedAs, Sent, Msg
<1>7. SetupInv
  BY <1>1, <1>5, <1>6 DEF Init, SetupInv, Succeeded, Confirmed, InCall, Modifying
<1>8. MessagesInv
  BY <1>5, <1>6 DEF MessagesInv
<1>9. RoleInv /\ WaitsAreCovered
  BY <1>1 DEF Init, RoleInv, WaitsAreCovered, Pending, Inviting, Accepted
<1>10. AnswerInv /\ ServingInv
  BY <1>1, <1>5 DEF Init, AnswerInv, ServingInv, Unanswered
<1>11. OneAnswerPerInvite
  BY <1>5 DEF OneAnswerPerInvite, Answered
<1>12. InvitesInv /\ ByesInv
  BY <1>1, <1>5, <1>6 DEF Init, InvitesInv, ByesInv, Pending
<1>14. FailureAckInv /\ FirstInv
  BY <1>1, <1>2 DEF Init, FailureAckInv, FirstInv, Sent, Msg
<1>13. RemoteInv /\ OrderInv
  BY <1>1, <1>6 DEF Init, RemoteInv, OrderInv, Pending
<1> QED BY <1>4, <1>7, <1>8, <1>9, <1>10, <1>11, <1>12, <1>13, <1>14 DEF IInv

\* Every step keeps the invariant.
LEMMA StepHolds == IInv /\ [Next]_vars => IInv'
<1> SUFFICES ASSUME IInv, [Next]_vars PROVE IInv'
  OBVIOUS
<1> USE DEF IInv
<1>1. CASE Next
  <2>1. Typed'
    <3>1. PhonesOK' /\ wire' \subseteq Wires
      BY <1>1, PhonesStay, WireStays DEF Next
    <3>2. TypeOK'
      BY <3>1 DEF TypeOK, PhonesOK, Wires, Kinds
    <3> QED BY <1>1, <3>2 DEF Typed, Next
  <2>2. SetupInv' /\ MessagesInv' /\ RoleInv' /\ WaitsAreCovered'
    BY <1>1, SetupStays, MessagesStay, RolesStay DEF Next
  <2>3. AnswerInv' /\ OneAnswerPerInvite' /\ ServingInv'
    BY <1>1, AnswersStay, ServingStays DEF Next
  <2>4. InvitesInv' /\ ByesInv'
    BY <1>1, InvitesStay, ByesStay
  <2>5. RemoteInv' /\ OrderInv'
    BY <1>1, RemotesStay, OrderStays DEF Next
  <2>6. FailureAckInv' /\ FirstInv'
    BY <1>1, FailureAcksStay, FirstStays DEF Next
  <2> QED BY <2>1, <2>2, <2>3, <2>4, <2>5, <2>6
<1>2. CASE UNCHANGED vars
  <2>1. /\ UNCHANGED <<status, tagged, inviteReq, inviteTc, retryTc, byeTc, inviteTs, ackTs,
             plan>>
        /\ UNCHANGED <<localCSeq, remoteCSeq, attempts, currentAck, wire>>
    BY <1>2 DEF vars, cseqVars, clientVars, serverVars
  <2>2. Typed'
    BY <2>1 DEF Typed, TypeOK
  <2>3. SetupInv' /\ MessagesInv'
    BY <2>1 DEF SetupInv, Succeeded, Confirmed, MessagesInv, Answered, ByeAnswered, Acked,
         AskedAs, Sent
  <2>4. RoleInv' /\ WaitsAreCovered'
    BY <2>1 DEF RoleInv, WaitsAreCovered, Pending
  <2>5. AnswerInv' /\ ServingInv'
    BY <2>1 DEF AnswerInv, Unanswered, ServingInv, Asked, AskedAs, Answered, Sent
  <2>6. OneAnswerPerInvite'
    BY <2>1 DEF OneAnswerPerInvite, Sent
  <2>7. InvitesInv'
    BY <2>1 DEF InvitesInv, Pending, Asked, AskedAs, Answered, Sent
  <2>8. ByesInv'
    BY <2>1 DEF ByesInv, ByeSent, ByeAnswered, Sent
  <2>9. RemoteInv' /\ OrderInv'
    BY <2>1 DEF RemoteInv, OrderInv, Pending, Asked, AskedAs
  <2>10. FailureAckInv' /\ FirstInv'
    BY <2>1 DEF FailureAckInv, FirstInv, Answered, Sent
  <2> QED BY <2>2, <2>3, <2>4, <2>5, <2>6, <2>7, <2>8, <2>9, <2>10
<1> QED BY <1>1, <1>2 DEF vars

\* What the dialogs of a call keep to, together: the inductive invariant.
THEOREM Invariant == Spec => []IInv
BY InitHolds, StepHolds, PTL DEF Spec

\* The variables of the dialogs keep to their types.
THEOREM TypeCorrect == Spec => []TypeOK
<1>1. IInv => TypeOK
  BY DEF IInv, Typed
<1> QED BY Invariant, <1>1, PTL

\* The table of D_ states: no phone is left in CALL with a peer that has never
\* got there.
THEOREM NobodyIsAlone == Spec => []CallHasTwo
<1>1. IInv => CallHasTwo
  BY DEF IInv, SetupInv, CallHasTwo, InCall
<1> QED BY Invariant, <1>1, PTL

\* Whatever state a dialog waits in, one of its transactions is bound to report.
THEOREM WaitsEnd == Spec => []WaitsAreCovered
<1>1. IInv => WaitsAreCovered
  BY DEF IInv
<1> QED BY Invariant, <1>1, PTL

\* respond(), cancellations and the proxy never give an INVITE two answers.
THEOREM AnsweredOnce == Spec => []OneAnswerPerInvite
<1>1. IInv => OneAnswerPerInvite
  BY DEF IInv
<1> QED BY Invariant, <1>1, PTL

\* refuse(), cancel() and the proxy's failures: a call that was refused while
\* it was set up is not begun by either phone.
THEOREM NoCallAfterRefusal == Spec => []RefusedIsNoCall
<1>1. IInv => RefusedIsNoCall
  <2> SUFFICES ASSUME IInv, plan.reInviters = {}, NEW n \in CSeqs, Answered(Caller, n, Failure)
               PROVE  /\ status[Caller] \in {"INVITING", "CLOSE"}
                      /\ status[Callee] \notin {"ACCEPTED", "CALL", "BYEING"}
    BY DEF RefusedIsNoCall, Answered
  <2> USE DEF IInv
  <2>1. \A k \in CSeqs, c \in AnswerClasses : Answered(Caller, k, c) => Asked(Callee, k)
    BY PeerFacts DEF AnswerInv, Unanswered
  <2>2. \A k \in CSeqs, c, d \in AnswerClasses : Answered(Caller, k, c) /\ Answered(Caller, k, d)
          => c = d
    BY PeerFacts DEF OneAnswerPerInvite, Answered, AnswerClasses
  <2>3. Asked(Callee, n)
    BY <2>1 DEF AnswerClasses
  <2>4. ~Succeeded
    <3> SUFFICES ASSUME NEW k \in CSeqs, Answered(Caller, k, Success) PROVE FALSE
      BY DEF Succeeded
    <3>1. Asked(Callee, k) /\ k # n
      BY <2>1, <2>2, KindsDiffer DEF AnswerClasses
    <3>2. Answered(Caller, k, Challenge) \/ Answered(Caller, n, Challenge)
      BY <2>3, <3>1 DEF InvitesInv
    <3> QED BY <2>2, <3>2, KindsDiffer DEF AnswerClasses
  <2>5. status[Caller] # "INIT"
    BY <2>3 DEF InvitesInv
  <2> QED BY <2>4, <2>5 DEF SetupInv, InCall
<1> QED BY Invariant, <1>1, PTL

\* onTransSuccessResponse() of a BYE: its answer means that the peer has closed,
\* and that this phone is not back in the call.
THEOREM ByeIsForBoth == Spec => []ByeEndsForBoth
<1>1. IInv => ByeEndsForBoth
  <2> SUFFICES ASSUME IInv, plan.reInviters = {}, NEW p \in Phones, NEW n \in CSeqs,
                      ByeAnswered(p, n, Success)
               PROVE  status[Peer(p)] = "CLOSE" /\ status[p] \in {"BYEING", "CLOSE"}
    BY DEF ByeEndsForBoth, ByeAnswered
  <2> USE DEF IInv
  <2>1. /\ ByeSent(Peer(p), n) /\ status[Peer(p)] = "CLOSE"
        /\ n \in byeTc[p] \/ status[p] = "CLOSE"
    BY PeerFacts DEF ByesInv
  <2>2. byeTc[p] # {} => status[p] \in {"BYEING", "CLOSE"}
    BY DEF RoleInv
  <2> QED BY <2>1, <2>2
<1> QED BY Invariant, <1>1, PTL

\* Dialog.update() takes the number of every request, and onReceivedMessage() of
\* InviteDialog discards a request whose number is not greater: a phone in a call
\* counts on from what its peer has taken, as long as one phone at most changes
\* the call and no change of a call is challenged.
\* It is false of other plans: a late success sets the number back to that of an
\* older INVITE, and a challenged one is repeated with a number nobody counts.
THEOREM NumbersAreAccepted ==
  ASSUME \A l \in Plans : Orderly(l)
  PROVE  Spec => []CSeqsOrdered
<1>1. IInv => CSeqsOrdered
  <2> SUFFICES ASSUME IInv, NEW p \in Phones, status[p] = "CALL"
               PROVE  remoteCSeq[Peer(p)] <= localCSeq[p]
    BY DEF CSeqsOrdered
  <2> USE DEF IInv
  <2>1. localCSeq[p] \in CSeqs /\ remoteCSeq[Peer(p)] \in CSeqs
    BY PeerFacts, TypeOKParts DEF Typed, PhonesOK
  <2>2. \A m \in CSeqs : Asked(Peer(p), m) => m <= localCSeq[p]
    BY DEF Typed, OrderInv, Inviting
  <2>3. 0 <= localCSeq[p]
    BY <2>1 DEF CSeqs
  <2> QED BY <2>1, <2>2, <2>3, PeerFacts DEF RemoteInv
<1> QED BY Invariant, <1>1, PTL

==============================================================================
