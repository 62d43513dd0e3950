-------------------------- MODULE RegistrationProofs --------------------------
(***************************************************************************)
(* Proofs about Registration, for any lines, any limit on repeated         *)
(* requests, and any bound on the requests that exist at a time.           *)
(*                                                                         *)
(* Two invariants hold however the threads meet: PendingIsServed, which is *)
(* inductive as it stands, and the types.  The others speak of threads     *)
(* that do not act between the steps of another.  A line is then idle, or  *)
(* has exactly one transaction, which is the agent's own and of the kind   *)
(* its state says (Orderly).  What the registrar will have heard last is   *)
(* known as well: the transaction's request is behind every one that has   *)
(* been given up, so that an answer means that nothing is on the way.      *)
(*                                                                         *)
(* The last section proves, of registrars that grant registrations for     *)
(* long, that a registered line has an alarm: a halt, which cancels it, is *)
(* done with every other line by then (RenewalIsSet).                      *)
(***************************************************************************)
EXTENDS Registration, FiniteSetTheorems, SequenceTheorems, TLAPS

Pending == {"REGISTERING", "DEREGISTERING"}

PendingState(kind) == IF kind = "register" THEN "REGISTERING" ELSE "DEREGISTERING"

\* A line that waits for nothing.
Idle(a, isBound) ==
  /\ a.state \notin Pending
  /\ a.live = {} /\ a.callbacks = {} /\ a.answers = {}
  /\ a.locks = 0 /\ ~a.screen
  /\ a.state = "REGISTERED" => isBound /\ a.queue = <<>>

\* A line whose transaction is under way: its request is the last one sent,
\* and an answer to it the registrar's last word.
Asking(a, isBound, tx) ==
  /\ tx \in Requests
  /\ a.t = tx.n /\ a.state = PendingState(tx.kind)
  /\ a.live = {tx} /\ a.callbacks = {}
  /\ \A i \in DOMAIN a.queue : a.queue[i] = tx => i = Len(a.queue)
  /\ a.answers # {} => a.queue = <<>>
  /\ \A r \in a.answers :
       r.n = tx.n /\ (r.class = "2xx" => (isBound <=> tx.kind = "register"))

\* A line whose transaction has its outcome.
Hearing(a, isBound, c) ==
  /\ c \in Callbacks
  /\ a.t = c.tx.n /\ a.state = PendingState(c.tx.kind)
  /\ a.live = {} /\ a.callbacks = {c} /\ a.answers = {}
  /\ c.outcome = "2xx" => a.queue = <<>> /\ (isBound <=> c.tx.kind = "register")

\* Each of the two holds the wake lock, unless it is about to be acquired.
Orderly(a, isBound, awaited) ==
  \/ ~awaited /\ Idle(a, isBound)
  \/ /\ \/ \E tx \in Requests : Asking(a, isBound, tx)
        \/ \E c \in Callbacks : Hearing(a, isBound, c)
     /\ a.locks = IF awaited THEN 0 ELSE 1

\* Where no thread acts between the steps of another, every line is orderly.
LinesAreOrderly ==
  ~overlap => \A l \in Lines : Orderly(agent[l], bound[l], l \in acquiring)

\* The main thread acquires the lock of one line.
OneAcquires == \A k, l \in acquiring : k = l

IInv == TypeOK /\ PendingIsServed /\ LinesAreOrderly /\ OneAcquires

\* While the engine halts, nothing is to be visited, and the lines that it is
\* done with have nothing on their way; a time of renewal has an alarm.
Halting == halting \cup leaving

Gone(a) == a.state = "UNDEFINED" /\ a.live = {} /\ a.callbacks = {}

RenewalIsSet ==
  /\ \A k, l \in leaving : k = l
  /\ Halting # {} => visit = {} /\ acquiring \subseteq leaving
  /\ Halting # {} => \A l \in Lines \ Halting : Gone(agent[l])
  /\ renewAt # "none" => alarm

RenewalInv == RenewalIsSet /\ RegisteredIsRenewed

-----------------------------------------------------------------------------
(* Sequences.                                                              *)

\* RemoveAt() takes one element out and closes the gap.
LEMMA RemoveAtFacts ==
  ASSUME NEW S, NEW s \in Seq(S), NEW i \in DOMAIN s
  PROVE  /\ RemoveAt(s, i) \in Seq(S)
         /\ Len(RemoveAt(s, i)) = Len(s) - 1
         /\ \A j \in DOMAIN RemoveAt(s, i) :
              RemoveAt(s, i)[j] = IF j < i THEN s[j] ELSE s[j + 1]
<1> DEFINE before == SubSeq(s, 1, i - 1)
           after == SubSeq(s, i + 1, Len(s))
<1>1. i \in 1 .. Len(s) /\ Len(s) \in Nat
  BY LenProperties
<1>2. /\ before \in Seq(S) /\ Len(before) = i - 1
      /\ \A j \in 1 .. i - 1 : before[j] = s[j]
  BY <1>1, SubSeqProperties, \A j \in 1 .. i - 1 : j \in 1 .. Len(s)
<1>3. /\ after \in Seq(S) /\ Len(after) = Len(s) - i
      /\ \A j \in 1 .. Len(s) - i : after[j] = s[i + j]
  BY <1>1, SubSeqProperties, \A j \in i + 1 .. Len(s) : j \in 1 .. Len(s)
<1> HIDE DEF before, after
<1>4. RemoveAt(s, i) = before \o after
  BY DEF RemoveAt, before, after
<1> QED BY <1>1, <1>2, <1>3, <1>4, ConcatProperties, LenProperties

-----------------------------------------------------------------------------
(* An agent, before and after a part of a handler.                         *)

\* A line for which nothing is on its way.
Bare(a) == a.live = {} /\ a.callbacks = {} /\ a.answers = {}

\* One that is not stuck.
Serving(a) == a.state \in Pending => a.live # {} \/ a.callbacks # {}

\* The requests an agent uses are requests.
LEMMA UsedFacts ==
  ASSUME NEW a \in Agents
  PROVE  Used(a) \subseteq RequestIds
<1>1. ToSet(a.queue) \subseteq Requests
  <2>1. a.queue \in Seq(Requests)
    BY DEF Agents
  <2> QED BY <2>1 DEF ToSet
<1> QED BY <1>1 DEF Agents, Used, Requests, Callbacks

\* An agent with fewer transactions and callbacks uses fewer requests.
LEMMA UsedMonotonic ==
  ASSUME NEW a, NEW b, b.queue = a.queue,
         b.live \subseteq a.live, b.callbacks \subseteq a.callbacks
  PROVE  Used(b) \subseteq Used(a)
BY DEF Used

\* An agent with the same transactions and callbacks uses the same.
LEMMA UsedSame ==
  ASSUME NEW a, NEW b, b.queue = a.queue, b.live = a.live, b.callbacks = a.callbacks
  PROVE  Used(b) = Used(a)
BY DEF Used

\* What a new transaction changes.
LEMMA SendsFacts ==
  ASSUME NEW a \in Agents, NEW kind \in {"register", "unregister"},
         Used(a) # RequestIds
  PROVE  \E tx \in Requests :
           /\ tx.n \notin Used(a) /\ tx.kind = kind
           /\ Sends(a, kind) = [a EXCEPT !.t = tx.n, !.live = @ \cup {tx}, !.queue = Append(@, tx)]
           /\ Sends(a, kind) \in Agents
<1> DEFINE n == CHOOSE m \in RequestIds : m \notin Used(a)
           tx == [n |-> n, kind |-> kind]
<1>1. n \in RequestIds /\ n \notin Used(a)
  BY UsedFacts
<1>2. tx \in Requests
  BY <1>1 DEF Requests
<1>3. Sends(a, kind) = [a EXCEPT !.t = n, !.live = @ \cup {tx}, !.queue = Append(@, tx)]
  BY DEF Sends
<1> HIDE DEF n
<1>4. Append(a.queue, tx) \in Seq(Requests)
  BY <1>2 DEF Agents
<1>5. n \in 0 .. MaxRequests
  BY <1>1, RegistrationAssumption DEF RequestIds
<1>6. Sends(a, kind) \in Agents
  BY <1>2, <1>3, <1>4, <1>5 DEF Agents
<1> QED BY <1>1, <1>2, <1>3, <1>6

\* A line that waits for nothing but is in the state of a request, and then
\* sends it, is asking.
LEMMA SendsAsks ==
  ASSUME NEW a \in Agents, NEW kind \in {"register", "unregister"},
         Used(a) # RequestIds
  PROVE  LET b == Sends(a, kind) IN
         /\ b \in Agents /\ b.live # {}
         /\ b.state = a.state /\ b.locks = a.locks /\ b.screen = a.screen
         /\ Bare(a) /\ a.state = PendingState(kind) =>
              \A isBound \in BOOLEAN : \E tx \in Requests : Asking(b, isBound, tx)
<1> DEFINE b == Sends(a, kind)
<1>1. PICK tx \in Requests :
        /\ tx.n \notin Used(a) /\ tx.kind = kind
        /\ b = [a EXCEPT !.t = tx.n, !.live = @ \cup {tx}, !.queue = Append(@, tx)]
        /\ b \in Agents
  BY SendsFacts
<1>2. /\ b.state = a.state /\ b.t = tx.n
      /\ b.live = a.live \cup {tx} /\ b.queue = Append(a.queue, tx)
      /\ b.locks = a.locks /\ b.screen = a.screen
      /\ b.callbacks = a.callbacks /\ b.answers = a.answers
  BY <1>1 DEF Agents
<1>3. \A i \in DOMAIN b.queue : b.queue[i] = tx => i = Len(b.queue)
  <2> SUFFICES ASSUME NEW i \in DOMAIN b.queue, b.queue[i] = tx, i # Len(b.queue)
               PROVE  FALSE
    OBVIOUS
  <2>1. a.queue \in Seq(Requests)
    BY DEF Agents
  <2>2. i \in DOMAIN a.queue /\ a.queue[i] = tx
    BY <2>1, <1>2, AppendProperties, LenProperties
  <2>3. tx \in ToSet(a.queue)
    BY <2>2 DEF ToSet
  <2> QED BY <2>3, <1>1 DEF Used
<1> HIDE DEF b
<1>4. ASSUME Bare(a), a.state = PendingState(kind), NEW isBound \in BOOLEAN
      PROVE  Asking(b, isBound, tx)
  BY <1>1, <1>2, <1>3, <1>4 DEF Asking, Bare
<1> QED BY <1>1, <1>2, <1>4 DEF b

\* register() or unregister() of an agent makes a new transaction, and gives
\* a line that waits for nothing something to wait for.
Begins(a, kind) == Sends([a EXCEPT !.state = PendingState(kind), !.attempts = 0], kind)

\* register() and unregister() begin a request in the same way.
LEMMA BeginsIs ==
  ASSUME NEW a
  PROVE  Registers(a) = Begins(a, "register") /\ Unregisters(a) = Begins(a, "unregister")
BY DEF Registers, Unregisters, Begins, PendingState

\* An agent that begins a request waits for it.
LEMMA BeginsFacts ==
  ASSUME NEW a \in Agents, NEW kind \in {"register", "unregister"},
         Used(a) # RequestIds
  PROVE  LET b == Begins(a, kind) IN
         /\ b \in Agents /\ b.live # {}
         /\ b.state = PendingState(kind)
         /\ b.locks = a.locks /\ b.screen = a.screen
         /\ Bare(a) => \A isBound \in BOOLEAN : \E tx \in Requests : Asking(b, isBound, tx)
<1> DEFINE c == [a EXCEPT !.state = PendingState(kind), !.attempts = 0]
<1>1. PendingState(kind) \in States
  BY DEF PendingState, States
<1>2. c \in Agents
  <2>1. 0 \in 0 .. MaxAttempts
    BY RegistrationAssumption
  <2> QED BY <1>1, <2>1 DEF Agents
<1>3. /\ c.queue = a.queue /\ c.live = a.live /\ c.callbacks = a.callbacks
      /\ c.answers = a.answers /\ c.state = PendingState(kind)
      /\ c.locks = a.locks /\ c.screen = a.screen
  BY DEF Agents
<1>4. Begins(a, kind) = Sends(c, kind)
  BY DEF Begins
<1> HIDE DEF c
<1>5. Used(c) # RequestIds
  BY <1>3, UsedSame
<1>6. Bare(a) => Bare(c)
  BY <1>3 DEF Bare
<1> QED BY <1>2, <1>3, <1>4, <1>5, <1>6, SendsAsks

\* terminate() of the own transaction leaves an agent that waits for less.
LEMMA TerminationsFacts ==
  ASSUME NEW a \in Agents, NEW b \in Terminations(a)
  PROVE  /\ b \in Agents /\ Used(b) \subseteq Used(a)
         /\ b.state = a.state /\ b.attempts = a.attempts /\ b.t = a.t
         /\ b.locks = a.locks /\ b.screen = a.screen /\ b.queue = a.queue
         /\ b.live = {tx \in a.live : tx.n # a.t}
         /\ b.answers = {r \in a.answers : r.n # a.t}
         /\ b.callbacks \subseteq a.callbacks
<1> DEFINE c == [a EXCEPT !.live = {tx \in @ : tx.n # a.t}, !.answers = {r \in @ : r.n # a.t}]
           d == [c EXCEPT !.callbacks = {x \in @ : x.tx.n # a.t}]
<1>1. b = c \/ b = d
  BY DEF Terminations
<1>2. CASE b = c
  <2>1. c \in Agents
    BY DEF Agents
  <2>2. /\ c.queue = a.queue /\ c.callbacks = a.callbacks
        /\ c.live = {tx \in a.live : tx.n # a.t}
    BY DEF Agents
  <2>3. Used(c) \subseteq Used(a)
    BY <2>2, UsedMonotonic
  <2> QED BY <1>2, <2>1, <2>3 DEF Agents
<1>3. CASE b = d
  <2>1. d \in Agents
    BY DEF Agents
  <2>2. /\ d.queue = a.queue /\ d.callbacks = {x \in a.callbacks : x.tx.n # a.t}
        /\ d.live = {tx \in a.live : tx.n # a.t}
    BY DEF Agents
  <2>3. Used(d) \subseteq Used(a)
    BY <2>2, UsedMonotonic
  <2> QED BY <1>3, <2>1, <2>3 DEF Agents
<1> QED BY <1>1, <1>2, <1>3

\* releaseLocks() leaves the requests and the state alone.
LEMMA ReleasedFacts ==
  ASSUME NEW a \in Agents
  PROVE  LET b == Released(a) IN
         /\ b \in Agents /\ Used(b) = Used(a)
         /\ b.state = a.state /\ b.attempts = a.attempts /\ b.t = a.t
         /\ b.queue = a.queue /\ b.live = a.live
         /\ b.answers = a.answers /\ b.callbacks = a.callbacks
         /\ a.locks = 1 => b.locks = 0 /\ ~b.screen
         /\ a.locks = 0 => b = a
<1>1. Used(Released(a)) = Used(a)
  <2>1. /\ Released(a).queue = a.queue /\ Released(a).live = a.live
        /\ Released(a).callbacks = a.callbacks
    BY DEF Released, Agents
  <2> QED BY <2>1, UsedSame
<1>2. a.locks \in Nat
  BY DEF Agents
<1>3. CASE a.locks > 0
  <2>1. Released(a) = [a EXCEPT !.locks = a.locks - 1, !.screen = FALSE]
    BY <1>3 DEF Released
  <2>2. a.locks - 1 \in Nat
    BY <1>2, <1>3
  <2>3. Released(a) \in Agents
    BY <2>1, <2>2 DEF Agents
  <2>4. /\ Released(a).state = a.state /\ Released(a).attempts = a.attempts
        /\ Released(a).t = a.t /\ Released(a).queue = a.queue
        /\ Released(a).live = a.live /\ Released(a).answers = a.answers
        /\ Released(a).callbacks = a.callbacks
        /\ Released(a).locks = a.locks - 1 /\ Released(a).screen = FALSE
    BY <2>1 DEF Agents
  <2> QED BY <1>1, <1>2, <1>3, <2>3, <2>4
<1>4. CASE ~(a.locks > 0)
  BY <1>1, <1>2, <1>4 DEF Released
<1> QED BY <1>3, <1>4

\* So does the acquisition of a lock.
LEMMA AcquiredFacts ==
  ASSUME NEW a \in Agents
  PROVE  LET b == Acquired(a) IN
         /\ b \in Agents /\ Used(b) = Used(a)
         /\ b.state = a.state /\ b.attempts = a.attempts /\ b.t = a.t
         /\ b.queue = a.queue /\ b.live = a.live
         /\ b.answers = a.answers /\ b.callbacks = a.callbacks
         /\ b.locks = a.locks + 1 /\ b.screen = a.screen
<1>1. Used(Acquired(a)) = Used(a)
  <2>1. /\ Acquired(a).queue = a.queue /\ Acquired(a).live = a.live
        /\ Acquired(a).callbacks = a.callbacks
    BY DEF Acquired, Agents
  <2> QED BY <2>1, UsedSame
<1> QED BY <1>1 DEF Acquired, Agents

\* The locks do not matter to what a line waits for.
LEMMA AskingStays ==
  ASSUME NEW a, NEW b, NEW isBound, NEW tx, Asking(a, isBound, tx),
         b.state = a.state, b.t = a.t, b.live = a.live, b.queue = a.queue,
         b.answers = a.answers, b.callbacks = a.callbacks
  PROVE  Asking(b, isBound, tx)
BY DEF Asking

\* What the fallback of a failed request makes of an agent.
LEMMA RevisitedFacts ==
  ASSUME NEW a \in Agents, NEW fast \in BOOLEAN, Used(a) # RequestIds,
         a.state \in {"UNREGISTERED", "UNDEFINED"}
  PROVE  LET b == Revisited(a, fast) IN
         /\ b \in Agents
         /\ \/ b.state = a.state /\ Used(b) = Used(a)
               /\ b.live = a.live /\ b.callbacks = a.callbacks
               /\ b.answers = a.answers /\ b.locks = a.locks
            \/ /\ b.state \in Pending /\ b.live # {} /\ b.locks = a.locks + 1
               /\ Bare(a) => \A isBound \in BOOLEAN : \E tx \in Requests : Asking(b, isBound, tx)
<1>1. ASSUME NEW kind \in {"register", "unregister"},
             Revisited(a, fast) = Acquired(Begins(a, kind))
      PROVE  /\ Revisited(a, fast) \in Agents
             /\ Revisited(a, fast).state \in Pending
             /\ Revisited(a, fast).live # {}
             /\ Revisited(a, fast).locks = a.locks + 1
             /\ Bare(a) => \A isBound \in BOOLEAN :
                             \E tx \in Requests : Asking(Revisited(a, fast), isBound, tx)
  <2> DEFINE b == Begins(a, kind)
  <2>1. /\ b \in Agents /\ b.live # {} /\ b.state \in Pending /\ b.locks = a.locks
        /\ Bare(a) => \A isBound \in BOOLEAN : \E tx \in Requests : Asking(b, isBound, tx)
    BY BeginsFacts DEF Bare, PendingState, Pending
  <2> HIDE DEF b
  <2>2. /\ Acquired(b) \in Agents /\ Acquired(b).state = b.state
        /\ Acquired(b).t = b.t /\ Acquired(b).queue = b.queue
        /\ Acquired(b).live = b.live /\ Acquired(b).answers = b.answers
        /\ Acquired(b).callbacks = b.callbacks /\ Acquired(b).locks = b.locks + 1
    BY <2>1, AcquiredFacts
  <2>3. ASSUME NEW isBound \in BOOLEAN, NEW tx \in Requests, Asking(b, isBound, tx)
        PROVE  Asking(Acquired(b), isBound, tx)
    BY <2>2, <2>3, AskingStays
  <2> QED BY <1>1, <2>1, <2>2, <2>3 DEF b
<1>2. CASE fast /\ MayRegister(a)
  BY <1>1, <1>2, BeginsIs DEF Revisited
<1>3. CASE ~fast /\ MayUnregister(a)
  BY <1>1, <1>3, BeginsIs DEF Revisited
<1>4. CASE ~(fast /\ MayRegister(a)) /\ ~(~fast /\ MayUnregister(a))
  <2> DEFINE b == [a EXCEPT !.attempts = 0]
  <2>1. Revisited(a, fast) = b
    BY <1>4 DEF Revisited
  <2>2. 0 \in 0 .. MaxAttempts
    BY RegistrationAssumption
  <2>3. /\ b \in Agents /\ b.state = a.state /\ b.live = a.live
        /\ b.queue = a.queue /\ b.callbacks = a.callbacks
        /\ b.answers = a.answers /\ b.locks = a.locks
    BY <2>2 DEF Agents
  <2>4. Used(b) = Used(a)
    BY <2>3, UsedSame
  <2> HIDE DEF b
  <2> QED BY <2>1, <2>3, <2>4
<1> QED BY <1>2, <1>3, <1>4

\* What an agent f can be that had a transaction without success and was a: if
\* it has not begun again, a further request can be sent; and if nothing else
\* was on its way, it is orderly.
Settled(f, a) ==
  /\ f \in Agents
  /\ Serving(f) /\ f.state # "REGISTERED"
  /\ f.state \notin Pending => Used(f) # RequestIds
  /\ Bare(a) /\ a.locks = 1 => \A isBound \in BOOLEAN : Orderly(f, isBound, FALSE)

\* An agent that releases its lock has settled.
LEMMA ReleasedSettles ==
  ASSUME NEW a \in Agents, Used(a) # RequestIds,
         a.state \in {"UNREGISTERED", "UNDEFINED"}
  PROVE  Settled(Released(a), a)
<1> DEFINE f == Released(a)
<1>1. /\ f \in Agents /\ Used(f) = Used(a) /\ f.state = a.state
      /\ f.live = a.live /\ f.callbacks = a.callbacks /\ f.answers = a.answers
      /\ a.locks = 1 => f.locks = 0 /\ ~f.screen
  BY ReleasedFacts
<1> HIDE DEF f
<1>2. Serving(f) /\ f.state # "REGISTERED" /\ f.state \notin Pending
  BY <1>1 DEF Serving, Pending
<1>3. ASSUME Bare(a), a.locks = 1, NEW isBound \in BOOLEAN
      PROVE  Orderly(f, isBound, FALSE)
  BY <1>1, <1>2, <1>3 DEF Orderly, Idle, Bare
<1> QED BY <1>1, <1>2, <1>3 DEF Settled, f

\* An agent whose request fails has settled, or has begun another.
LEMMA FailsSettles ==
  ASSUME NEW a \in Agents, NEW again \in BOOLEAN, NEW fast \in BOOLEAN,
         Used(a) # RequestIds, a.state \in {"UNREGISTERED", "UNDEFINED"}
  PROVE  Settled(Fails(a, again, fast), a)
<1> DEFINE locks == IF a.locks > 0 THEN a.locks - 1 ELSE 0
           c == [a EXCEPT !.locks = locks, !.screen = TRUE]
           b == Revisited(c, fast)
           screen == b.locks > 0
           f == [b EXCEPT !.screen = screen]
<1>1. CASE ~(again /\ KeepOn /\ ~a.screen)
  <2>1. Fails(a, again, fast) = Released(a)
    BY <1>1 DEF Fails
  <2> QED BY <2>1, ReleasedSettles
<1>2. CASE again /\ KeepOn /\ ~a.screen
  <2>1. Fails(a, again, fast) = f
    BY <1>2 DEF Fails
  <2>2. a.locks \in Nat
    BY DEF Agents
  <2>3. locks \in Nat /\ (a.locks = 1 => locks = 0)
    BY <2>2
  <2> HIDE DEF locks
  <2>4. /\ c \in Agents /\ c.state = a.state /\ c.live = a.live
        /\ c.queue = a.queue /\ c.answers = a.answers /\ c.callbacks = a.callbacks
        /\ c.locks = locks
    BY <2>3 DEF Agents
  <2> HIDE DEF c
  <2>5. Used(c) = Used(a)
    BY <2>4, UsedSame
  <2>6. /\ b \in Agents
        /\ \/ b.state = c.state /\ Used(b) = Used(c)
              /\ b.live = c.live /\ b.callbacks = c.callbacks
              /\ b.answers = c.answers /\ b.locks = c.locks
           \/ /\ b.state \in Pending /\ b.live # {} /\ b.locks = c.locks + 1
              /\ Bare(c) => \A isBound \in BOOLEAN : \E tx \in Requests : Asking(b, isBound, tx)
    BY <2>4, <2>5, RevisitedFacts
  <2> HIDE DEF b
  <2>7. b.locks \in Nat /\ screen \in BOOLEAN /\ (b.locks = 0 => ~screen)
    BY <2>6 DEF Agents
  <2> HIDE DEF screen
  <2>8. /\ f \in Agents /\ f.state = b.state /\ f.live = b.live /\ f.t = b.t
        /\ f.queue = b.queue /\ f.answers = b.answers /\ f.callbacks = b.callbacks
        /\ f.locks = b.locks /\ f.screen = screen
    BY <2>6, <2>7 DEF Agents
  <2> HIDE DEF f
  <2>9. Used(f) = Used(b)
    BY <2>8, UsedSame
  <2>10. Serving(f) /\ f.state # "REGISTERED" /\ (f.state \notin Pending => Used(f) # RequestIds)
    BY <2>4, <2>5, <2>6, <2>8, <2>9 DEF Serving, Pending
  <2>11. ASSUME Bare(a), a.locks = 1, NEW isBound \in BOOLEAN
         PROVE  Orderly(f, isBound, FALSE)
    <3>1. Bare(c) /\ c.locks = 0
      BY <2>3, <2>4, <2>11 DEF Bare
    <3>2. CASE b.state = c.state /\ b.live = c.live /\ b.callbacks = c.callbacks
               /\ b.answers = c.answers /\ b.locks = c.locks
      BY <3>1, <3>2, <2>4, <2>7, <2>8 DEF Orderly, Idle, Bare, Pending
    <3>3. CASE /\ b.locks = c.locks + 1
               /\ Bare(c) => \A isB \in BOOLEAN : \E tx \in Requests : Asking(b, isB, tx)
      <4>1. PICK tx \in Requests : Asking(b, isBound, tx)
        BY <3>1, <3>3
      <4>2. Asking(f, isBound, tx)
        BY <4>1, <2>8, AskingStays
      <4> QED BY <4>2, <3>1, <3>3, <2>8 DEF Orderly
    <3> QED BY <3>2, <3>3, <2>6
  <2> QED BY <2>1, <2>8, <2>10, <2>11 DEF Settled
<1> QED BY <1>1, <1>2

\* onTransTimeout(), when it runs or when register() gives a transaction up.
LEMMA TimedOutSettles ==
  ASSUME NEW a \in Agents, NEW pub \in BOOLEAN, NEW again \in BOOLEAN, NEW fast \in BOOLEAN,
         Used(a) # RequestIds
  PROVE  Settled(TimedOut(a, pub, again, fast), a)
<1>1. ASSUME NEW state \in {"UNREGISTERED", "UNDEFINED"}
      PROVE  LET b == [a EXCEPT !.state = state] IN
             /\ b \in Agents /\ b.state = state /\ Used(b) # RequestIds
             /\ b.locks = a.locks /\ (Bare(b) <=> Bare(a))
  <2> DEFINE b == [a EXCEPT !.state = state]
  <2>1. state \in States
    BY DEF States
  <2>2. /\ b \in Agents /\ b.state = state /\ b.live = a.live
        /\ b.queue = a.queue /\ b.answers = a.answers /\ b.callbacks = a.callbacks
        /\ b.locks = a.locks
    BY <2>1 DEF Agents
  <2> HIDE DEF b
  <2>3. Used(b) = Used(a)
    BY <2>2, UsedSame
  <2> QED BY <2>2, <2>3 DEF Bare, b
<1>2. CASE a.state = "REGISTERING" \/ pub
  <2> DEFINE b == [a EXCEPT !.state = "UNDEFINED"]
  <2>1. TimedOut(a, pub, again, fast) = Fails(b, again, fast)
    BY <1>2 DEF TimedOut
  <2>2. /\ b \in Agents /\ b.state = "UNDEFINED" /\ Used(b) # RequestIds
        /\ b.locks = a.locks /\ (Bare(b) <=> Bare(a))
    BY <1>1
  <2> HIDE DEF b
  <2>3. Settled(Fails(b, again, fast), b)
    BY <2>2, FailsSettles
  <2> QED BY <2>1, <2>2, <2>3 DEF Settled
<1>3. CASE ~(a.state = "REGISTERING" \/ pub)
  <2> DEFINE b == [a EXCEPT !.state = "UNREGISTERED"]
  <2>1. TimedOut(a, pub, again, fast) = Released(b)
    BY <1>3 DEF TimedOut, Succeeds
  <2>2. /\ b \in Agents /\ b.state = "UNREGISTERED" /\ Used(b) # RequestIds
        /\ b.locks = a.locks /\ (Bare(b) <=> Bare(a))
    BY <1>1
  <2> HIDE DEF b
  <2>3. Settled(Released(b), b)
    BY <2>2, ReleasedSettles
  <2> QED BY <2>1, <2>2, <2>3 DEF Settled
<1> QED BY <1>2, <1>3

\* What is left of an agent when the opposite request is given up.
LEMMA GivenUpFacts ==
  ASSUME NEW a \in Agents, NEW opposite \in Pending, NEW pub \in BOOLEAN,
         Used(a) # RequestIds, NEW g \in GivenUp(a, opposite, pub)
  PROVE  /\ g \in Agents
         /\ Serving(a) => Serving(g)
         /\ g.state = "REGISTERED" => a.state = "REGISTERED"
         /\ g.state \notin Pending => Used(g) # RequestIds
         /\ \A isBound \in BOOLEAN :
              Orderly(a, isBound, FALSE) /\ a.callbacks = {} => Orderly(g, isBound, FALSE)
<1>1. CASE a.state # opposite
  <2>1. g = a
    BY <1>1 DEF GivenUp
  <2> QED BY <2>1
<1>2. CASE a.state = opposite
  <2>1. PICK b \in Terminations(a), again \in BOOLEAN, fast \in BOOLEAN :
          g = TimedOut(b, pub, again, fast)
    BY <1>2 DEF GivenUp
  <2>2. /\ b \in Agents /\ Used(b) \subseteq Used(a) /\ b.locks = a.locks
        /\ b.live = {tx \in a.live : tx.n # a.t}
        /\ b.answers = {r \in a.answers : r.n # a.t}
        /\ b.callbacks \subseteq a.callbacks
    BY TerminationsFacts
  <2>3. Used(b) # RequestIds
    BY <2>2, UsedFacts
  <2>4. Settled(g, b)
    BY <2>1, <2>2, <2>3, TimedOutSettles
  <2>5. ASSUME NEW isBound \in BOOLEAN, Orderly(a, isBound, FALSE), a.callbacks = {}
        PROVE  Bare(b) /\ b.locks = 1
    <3>1. PICK tx \in Requests : Asking(a, isBound, tx)
      BY <1>2, <2>5 DEF Orderly, Idle, Hearing
    <3>2. a.locks = 1
      BY <1>2, <2>5 DEF Orderly, Idle
    <3> QED BY <2>2, <2>5, <3>1, <3>2 DEF Asking, Bare
  <2> QED BY <2>4, <2>5 DEF Settled
<1> QED BY <1>1, <1>2

\* A visit to a line by register() or unregister(): it gives up the opposite
\* request and, if nothing is pending then, makes its own.
Reset(a) == [a EXCEPT !.attempts = 0]

Visited(g, kind, may) == IF may THEN Begins(g, kind) ELSE g

\* What it makes of the agent a.
VisitOf(a, v, may) ==
  /\ v \in Agents
  /\ Serving(a) => Serving(v)
  /\ v.state = "REGISTERED" => a.state = "REGISTERED"
  /\ \A isBound \in BOOLEAN :
       Orderly(a, isBound, FALSE) /\ a.callbacks = {} => Orderly(v, isBound, may)

\* What a visit of the receiver makes of an agent.
LEMMA VisitedFacts ==
  ASSUME NEW a \in Agents, NEW opposite \in Pending, NEW pub \in BOOLEAN,
         Used(a) # RequestIds,
         NEW g \in GivenUp(Reset(a), opposite, pub),
         NEW kind \in {"register", "unregister"},
         NEW may \in BOOLEAN, may => g.state \notin Pending
  PROVE  VisitOf(a, Visited(g, kind, may), may)
<1> DEFINE b == Reset(a)
           v == Visited(g, kind, may)
<1>1. 0 \in 0 .. MaxAttempts
  BY RegistrationAssumption
<1>2. /\ b \in Agents /\ b.state = a.state /\ b.live = a.live /\ b.t = a.t
      /\ b.queue = a.queue /\ b.callbacks = a.callbacks /\ b.screen = a.screen
      /\ b.answers = a.answers /\ b.locks = a.locks
  BY <1>1 DEF Agents, Reset
<1>3. g \in GivenUp(b, opposite, pub)
  OBVIOUS
<1> HIDE DEF b
<1>4. Used(b) # RequestIds
  BY <1>2, UsedSame
<1>5. /\ g \in Agents
      /\ Serving(b) => Serving(g)
      /\ g.state = "REGISTERED" => b.state = "REGISTERED"
      /\ g.state \notin Pending => Used(g) # RequestIds
      /\ \A isBound \in BOOLEAN :
           Orderly(b, isBound, FALSE) /\ b.callbacks = {} => Orderly(g, isBound, FALSE)
  BY <1>2, <1>3, <1>4, GivenUpFacts
<1>6. Serving(a) => Serving(b)
  BY <1>2 DEF Serving
<1>7. ASSUME NEW isBound \in BOOLEAN, Orderly(a, isBound, FALSE), a.callbacks = {}
      PROVE  Orderly(g, isBound, FALSE)
  <2>1. Orderly(b, isBound, FALSE)
    <3>1. Idle(a, isBound) => Idle(b, isBound)
      BY <1>2 DEF Idle
    <3>2. \A tx : Asking(a, isBound, tx) => Asking(b, isBound, tx)
      BY <1>2, AskingStays
    <3>3. \A c : Hearing(a, isBound, c) => Hearing(b, isBound, c)
      BY <1>2 DEF Hearing
    <3> QED BY <1>2, <1>7, <3>1, <3>2, <3>3 DEF Orderly
  <2> QED BY <2>1, <1>2, <1>5, <1>7
<1>8. CASE ~may
  <2>1. v = g
    BY <1>8 DEF Visited
  <2>2. may = FALSE
    BY <1>8
  <2> HIDE DEF v
  <2> QED BY <2>1, <2>2, <1>2, <1>5, <1>6, <1>7 DEF v, VisitOf
<1>9. CASE may
  <2>1. v = Begins(g, kind)
    BY <1>9 DEF Visited
  <2>2. /\ v \in Agents /\ v.live # {} /\ v.state \in Pending
        /\ v.locks = g.locks
        /\ Bare(g) =>
             \A isBound \in BOOLEAN : \E tx \in Requests : Asking(v, isBound, tx)
    <3>1. Used(g) # RequestIds
      BY <1>5, <1>9
    <3>2. LET w == Begins(g, kind) IN
          /\ w \in Agents /\ w.live # {} /\ w.state = PendingState(kind)
          /\ w.locks = g.locks
          /\ Bare(g) =>
               \A isBound \in BOOLEAN : \E tx \in Requests : Asking(w, isBound, tx)
      BY <1>5, <3>1, BeginsFacts
    <3>3. PendingState(kind) \in Pending
      BY DEF PendingState, Pending
    <3> QED BY <2>1, <3>2, <3>3
  <2> HIDE DEF v
  <2>3. ASSUME NEW isBound \in BOOLEAN, Orderly(g, isBound, FALSE)
        PROVE  Orderly(v, isBound, TRUE)
    <3>1. Idle(g, isBound)
      BY <1>9, <2>3 DEF Orderly, Asking, Hearing, PendingState, Pending
    <3> QED BY <3>1, <2>2 DEF Idle, Orderly, Bare
  <2>4. Serving(v) /\ v.state # "REGISTERED"
    BY <2>2 DEF Serving, Pending
  <2>5. may = TRUE
    BY <1>9
  <2> QED BY <2>2, <2>3, <2>4, <2>5, <1>7 DEF v, VisitOf
<1> QED BY <1>8, <1>9

-----------------------------------------------------------------------------
(* The invariant of types and orderly lines, action by action.             *)

\* What TypeOK says of everything but the agents.
Surroundings ==
  /\ bound \in [Lines -> BOOLEAN]
  /\ visit \subseteq Lines /\ acquiring \subseteq Lines
  /\ halting \subseteq Lines /\ leaving \subseteq Lines
  /\ renewAt \in {"none", "ahead", "passed"}
  /\ alarm \in BOOLEAN
  /\ overlap \in BOOLEAN

\* The invariant says of each line what is said here of its agent.
LEMMA ServedMeansServing ==
  PendingIsServed <=> \A l \in Lines : Serving(agent[l])
BY DEF PendingIsServed, Serving, Pending

\* A step of one line.
LEMMA OneLineSteps ==
  ASSUME IInv, Surroundings', OneAcquires', overlap' = overlap,
         NEW l \in Lines, NEW a \in Agents, Becomes(l, a), Serving(a),
         \A k \in Lines \ {l} : bound'[k] = bound[k] /\ (k \in acquiring' <=> k \in acquiring),
         ~overlap => Orderly(a, bound'[l], l \in acquiring')
  PROVE  IInv'
<1>1. /\ agent \in [Lines -> Agents]
      /\ \A k \in Lines : Serving(agent[k])
      /\ ~overlap => \A k \in Lines : Orderly(agent[k], bound[k], k \in acquiring)
  BY ServedMeansServing DEF IInv, TypeOK, LinesAreOrderly
<1>2. agent' \in [Lines -> Agents] /\ agent'[l] = a
  BY <1>1 DEF Becomes
<1>3. \A k \in Lines \ {l} : agent'[k] = agent[k]
  BY <1>1 DEF Becomes
<1>4. \A k \in Lines : Serving(agent'[k])
  BY <1>1, <1>2, <1>3
<1>5. ASSUME ~overlap, NEW k \in Lines
      PROVE  Orderly(agent'[k], bound'[k], k \in acquiring')
  <2>1. CASE k = l
    BY <1>2, <1>5, <2>1
  <2>2. CASE k # l
    <3>1. (k \in acquiring') = (k \in acquiring)
      BY <2>2
    <3>2. Orderly(agent[k], bound[k], k \in acquiring)
      BY <1>1, <1>5
    <3> QED BY <1>3, <2>2, <3>1, <3>2
  <2> QED BY <2>1, <2>2
<1>6. TypeOK'
  BY <1>2 DEF Surroundings, TypeOK
<1>7. PendingIsServed'
  BY <1>4 DEF PendingIsServed, Serving, Pending
<1>8. LinesAreOrderly' /\ OneAcquires'
  BY <1>5 DEF LinesAreOrderly
<1> QED BY <1>6, <1>7, <1>8 DEF IInv

\* A step of none.
LEMMA LinesStay ==
  ASSUME IInv, Surroundings', overlap' = overlap,
         UNCHANGED <<agent, bound, acquiring>>
  PROVE  IInv'
BY DEF IInv, TypeOK, Surroundings, PendingIsServed, LinesAreOrderly, OneAcquires

\* The renewal's variables keep to their types.
LEMMA ReRegisterTypes ==
  ASSUME TypeOK, NEW period, ReRegister(period) \/ UNCHANGED renewalVars
  PROVE  renewAt' \in {"none", "ahead", "passed"} /\ alarm' \in BOOLEAN
<1>1. (period = Long) \in BOOLEAN
  OBVIOUS
<1> QED BY <1>1 DEF TypeOK, ReRegister, renewalVars

\* The invariant holds when the program starts.
LEMMA InitOrderly ==
  ASSUME Init
  PROVE  IInv
<1>1. Surroundings
  BY RegistrationAssumption DEF Init, Surroundings
<1>2. NewAgent(0) \in Agents
  <2>1. 0 \in 0 .. MaxAttempts /\ 0 \in 0 .. MaxRequests
    BY RegistrationAssumption
  <2>2. <<>> \in Seq(Requests)
    OBVIOUS
  <2> QED BY <2>1, <2>2 DEF NewAgent, Agents, States
<1>3. \A l \in Lines : agent[l] = NewAgent(0)
  BY DEF Init
<1>4. TypeOK
  BY <1>1, <1>2 DEF Init, Surroundings, TypeOK
<1>5. PendingIsServed
  BY <1>3 DEF PendingIsServed, NewAgent
<1>6. LinesAreOrderly
  <2>1. \A isBound : Idle(NewAgent(0), isBound)
    BY DEF Idle, NewAgent, Pending
  <2>2. acquiring = {}
    BY DEF Init
  <2> QED BY <1>3, <2>1, <2>2 DEF LinesAreOrderly, Orderly
<1>7. OneAcquires
  BY DEF Init, OneAcquires
<1> QED BY <1>4, <1>5, <1>6, <1>7 DEF IInv

\* The call of register() for all lines keeps the invariant.
LEMMA StartRegisterKeeps ==
  ASSUME IInv, StartRegister, overlap' = overlap
  PROVE  IInv'
<1>1. Surroundings'
  BY DEF IInv, TypeOK, Surroundings, StartRegister, renewalVars
<1> QED BY <1>1, LinesStay DEF StartRegister

\* So does that of halt().
LEMMA StartHaltKeeps ==
  ASSUME IInv, StartHalt, overlap' = overlap
  PROVE  IInv'
<1>1. Surroundings'
  BY DEF IInv, TypeOK, Surroundings, StartHalt, renewalVars
<1> QED BY <1>1, LinesStay DEF StartHalt

\* So does the time of the renewal.
LEMMA TimePassesKeeps ==
  ASSUME IInv, TimePasses, overlap' = overlap
  PROVE  IInv'
<1>1. Surroundings'
  BY DEF IInv, TypeOK, Surroundings, TimePasses, mainVars
<1> QED BY <1>1, LinesStay DEF TimePasses, mainVars

\* So does the end of a registration at the registrar.
LEMMA ExpireKeeps ==
  ASSUME IInv, Expire, overlap' = overlap
  PROVE  IInv'
<1>1. Surroundings'
  BY DEF IInv, TypeOK, Surroundings, Expire
<1> DEFINE Unregistered(a) == IF a.state = "REGISTERED" THEN [a EXCEPT !.state = "UNREGISTERED"] ELSE a
<1>2. /\ agent' = [l \in Lines |-> Unregistered(agent[l])]
      /\ bound' = bound /\ acquiring' = acquiring
  BY DEF Expire
<1>3. ASSUME NEW a \in Agents
      PROVE  LET b == Unregistered(a) IN
             /\ b \in Agents
             /\ Serving(a) => Serving(b)
             /\ \A isBound, awaited : Orderly(a, isBound, awaited) => Orderly(b, isBound, awaited)
  <2>1. CASE a.state # "REGISTERED"
    BY <2>1
  <2>2. CASE a.state = "REGISTERED"
    <3> DEFINE b == [a EXCEPT !.state = "UNREGISTERED"]
    <3>1. Unregistered(a) = b
      BY <2>2
    <3>2. /\ b \in Agents /\ b.state = "UNREGISTERED" /\ b.live = a.live
          /\ b.callbacks = a.callbacks /\ b.answers = a.answers
          /\ b.locks = a.locks /\ b.screen = a.screen
      BY DEF Agents, States
    <3> HIDE DEF b
    <3>3. Serving(b)
      BY <3>2 DEF Serving, Pending
    <3>4. ASSUME NEW isBound, NEW awaited, Orderly(a, isBound, awaited)
          PROVE  Orderly(b, isBound, awaited)
      <4>1. Idle(a, isBound) /\ ~awaited
        BY <2>2, <3>4 DEF Orderly, Asking, Hearing, PendingState
      <4> QED BY <3>2, <4>1 DEF Orderly, Idle, Pending
    <3> QED BY <3>1, <3>2, <3>3, <3>4
  <2> QED BY <2>1, <2>2
<1>4. \A l \in Lines : agent'[l] = Unregistered(agent[l])
  BY <1>2
<1> HIDE DEF Unregistered
<1>5. agent \in [Lines -> Agents]
  BY DEF IInv, TypeOK
<1>6. TypeOK'
  BY <1>1, <1>2, <1>3, <1>5 DEF Surroundings, TypeOK
<1>7. PendingIsServed'
  <2>1. \A l \in Lines : Serving(agent[l])
    BY ServedMeansServing DEF IInv
  <2>2. \A l \in Lines : Serving(agent'[l])
    BY <1>3, <1>4, <1>5, <2>1
  <2> QED BY <2>2 DEF PendingIsServed, Serving, Pending
<1>8. LinesAreOrderly'
  BY <1>2, <1>3, <1>4, <1>5 DEF IInv, LinesAreOrderly
<1>9. OneAcquires'
  BY <1>2 DEF IInv, OneAcquires
<1> QED BY <1>6, <1>7, <1>8, <1>9 DEF IInv

\* The visit to a line, in all three actions that make one.
LEMMA VisitKeeps ==
  ASSUME IInv, Surroundings', overlap' = overlap, bound' = bound,
         NEW l \in Lines, MainActs, CanSend(l),
         NEW opposite \in Pending, NEW pub \in BOOLEAN,
         NEW g \in GivenUp(Reset(agent[l]), opposite, pub),
         NEW kind \in {"register", "unregister"},
         NEW may \in BOOLEAN, may => g.state \notin Pending,
         Becomes(l, Visited(g, kind, may)),
         acquiring' = IF may THEN {l} ELSE {}
  PROVE  IInv'
<1> DEFINE v == Visited(g, kind, may)
<1>1. agent[l] \in Agents /\ bound[l] \in BOOLEAN
  BY DEF IInv, TypeOK
<1>2. Used(agent[l]) # RequestIds
  BY DEF CanSend
<1>3. /\ v \in Agents
      /\ Serving(agent[l]) => Serving(v)
      /\ Orderly(agent[l], bound[l], FALSE) /\ agent[l].callbacks = {} => Orderly(v, bound[l], may)
  <2>1. VisitOf(agent[l], v, may)
    BY <1>1, <1>2, VisitedFacts
  <2> HIDE DEF v
  <2> QED BY <1>1, <2>1 DEF VisitOf
<1>4. Becomes(l, v)
  OBVIOUS
<1> HIDE DEF v
<1>5. Serving(v)
  BY <1>3, ServedMeansServing DEF IInv
<1>6. acquiring = {}
  BY DEF MainActs
<1>7. ASSUME ~overlap
      PROVE  Orderly(v, bound[l], l \in acquiring')
  <2>1. agent[l].callbacks = {}
    BY <1>7 DEF MainActs, NoCallback
  <2>2. (l \in acquiring) = FALSE /\ (l \in acquiring') = may
    BY <1>6
  <2>3. Orderly(agent[l], bound[l], FALSE)
    BY <1>7, <2>2 DEF IInv, LinesAreOrderly
  <2> QED BY <1>3, <2>1, <2>2, <2>3
<1>8. \A k \in Lines \ {l} : bound'[k] = bound[k] /\ (k \in acquiring' <=> k \in acquiring)
  BY <1>6
<1>9. OneAcquires'
  BY DEF OneAcquires
<1> QED BY <1>3, <1>4, <1>5, <1>7, <1>8, <1>9, OneLineSteps

\* So does the registration of one line.
LEMMA RegisterLineKeeps ==
  ASSUME IInv, NEW l \in Lines, RegisterLine(l), overlap' = overlap
  PROVE  IInv'
<1> PICK pub \in BOOLEAN : \E g \in GivenUp(Reset(agent[l]), "DEREGISTERING", pub) :
        /\ Becomes(l, IF MayRegister(g) THEN Registers(g) ELSE g)
        /\ acquiring' = IF MayRegister(g) THEN {l} ELSE {}
        /\ RenewsIf(agent[l].state = "DEREGISTERING" /\ pub)
  BY DEF RegisterLine, Reset
<1>1. PICK g \in GivenUp(Reset(agent[l]), "DEREGISTERING", pub) :
        /\ Becomes(l, IF MayRegister(g) THEN Registers(g) ELSE g)
        /\ acquiring' = IF MayRegister(g) THEN {l} ELSE {}
        /\ RenewsIf(agent[l].state = "DEREGISTERING" /\ pub)
  OBVIOUS
<1>2. Becomes(l, Visited(g, "register", MayRegister(g)))
  BY <1>1, BeginsIs DEF Visited
<1>3. MayRegister(g) \in BOOLEAN /\ (MayRegister(g) => g.state \notin Pending)
  BY DEF MayRegister, Pending
<1>4. Surroundings'
  <2>1. renewAt' \in {"none", "ahead", "passed"} /\ alarm' \in BOOLEAN
    BY <1>1, ReRegisterTypes DEF RenewsIf, IInv
  <2> QED BY <1>1, <2>1 DEF IInv, TypeOK, Surroundings, RegisterLine
<1>5. MainActs /\ CanSend(l) /\ bound' = bound
  BY DEF RegisterLine
<1>6. "DEREGISTERING" \in Pending
  BY DEF Pending
<1> QED BY <1>1, <1>2, <1>3, <1>4, <1>5, <1>6, VisitKeeps

\* So does its unregistration.
LEMMA UnregisterLineKeeps ==
  ASSUME IInv, NEW l \in Lines, UnregisterLine(l), overlap' = overlap,
         visit' \subseteq Lines, halting' \subseteq Lines, leaving' \subseteq Lines
  PROVE  IInv'
<1>1. PICK g \in GivenUp(Reset(agent[l]), "REGISTERING", TRUE) :
        /\ Becomes(l, IF MayUnregister(g) THEN Unregisters(g) ELSE g)
        /\ acquiring' = IF MayUnregister(g) THEN {l} ELSE {}
  BY DEF UnregisterLine, Reset
<1>2. Becomes(l, Visited(g, "unregister", MayUnregister(g)))
  BY <1>1, BeginsIs DEF Visited
<1>3. MayUnregister(g) \in BOOLEAN /\ (MayUnregister(g) => g.state \notin Pending)
  BY DEF MayUnregister, Pending
<1>4. Surroundings'
  <2>1. renewAt' \in {"none", "ahead", "passed"} /\ alarm' \in BOOLEAN
    BY ReRegisterTypes DEF RenewsIf, IInv, UnregisterLine
  <2> QED BY <1>1, <2>1 DEF IInv, TypeOK, Surroundings, UnregisterLine
<1>5. MainActs /\ CanSend(l) /\ bound' = bound
  BY DEF UnregisterLine
<1>6. "REGISTERING" \in Pending
  BY DEF Pending
<1> QED BY <1>1, <1>2, <1>3, <1>4, <1>5, <1>6, VisitKeeps

\* So does the acquisition of its wake lock.
LEMMA AcquireKeeps ==
  ASSUME IInv, NEW l \in Lines, Acquire(l), overlap' = overlap
  PROVE  IInv'
<1> DEFINE a == agent[l]
           b == Acquired(a)
<1>1. a \in Agents /\ Becomes(l, b)
  BY DEF IInv, TypeOK, Acquire
<1>2. /\ b \in Agents
      /\ b.state = a.state /\ b.attempts = a.attempts /\ b.t = a.t
      /\ b.queue = a.queue /\ b.live = a.live
      /\ b.answers = a.answers /\ b.callbacks = a.callbacks
      /\ b.locks = a.locks + 1
  BY <1>1, AcquiredFacts
<1> HIDE DEF b
<1>3. Serving(b)
  <2>1. Serving(a)
    BY ServedMeansServing DEF IInv
  <2> QED BY <1>2, <2>1 DEF Serving
<1>4. Surroundings'
  BY DEF IInv, TypeOK, Surroundings, Acquire, renewalVars
<1>5. acquiring' = {} /\ l \in acquiring /\ bound' = bound
  BY DEF Acquire
<1>6. ASSUME ~overlap
      PROVE  Orderly(b, bound'[l], l \in acquiring')
  <2>1. (l \in acquiring) = TRUE /\ (l \in acquiring') = FALSE
    BY <1>5
  <2>2. Orderly(a, bound[l], TRUE)
    BY <1>6, <2>1 DEF IInv, LinesAreOrderly
  <2>3. b.locks = 1
    BY <1>2, <2>2 DEF Orderly
  <2>4. \A tx : Asking(a, bound[l], tx) => Asking(b, bound[l], tx)
    BY <1>2, AskingStays
  <2>5. \A c : Hearing(a, bound[l], c) => Hearing(b, bound[l], c)
    BY <1>2 DEF Hearing
  <2> QED BY <1>5, <2>1, <2>2, <2>3, <2>4, <2>5 DEF Orderly
<1>7. \A k \in Lines \ {l} : bound'[k] = bound[k] /\ (k \in acquiring' <=> k \in acquiring)
  BY <1>5 DEF IInv, OneAcquires
<1>8. OneAcquires'
  BY <1>5 DEF OneAcquires
<1> QED BY <1>1, <1>2, <1>3, <1>4, <1>6, <1>7, <1>8, OneLineSteps

\* So does the end of halt() for one line.
LEMMA HaltDoneKeeps ==
  ASSUME IInv, NEW l \in Lines, HaltDone(l), overlap' = overlap
  PROVE  IInv'
<1> DEFINE a == Released(agent[l])
           n == NewAgent(a.locks)
           queue == IF overlap THEN a.queue ELSE <<>>
           b == [n EXCEPT !.screen = a.screen, !.queue = queue]
<1>1. /\ agent[l] \in Agents /\ a \in Agents
      /\ agent[l].locks = 1 => a.locks = 0 /\ ~a.screen
      /\ agent[l].locks = 0 => a = agent[l]
  BY ReleasedFacts DEF IInv, TypeOK
<1>2. Becomes(l, b)
  BY DEF HaltDone
<1> HIDE DEF a
<1>3. a.locks \in Nat /\ queue \in Seq(Requests) /\ a.screen \in BOOLEAN
  BY <1>1 DEF Agents
<1>4. ~overlap => queue = <<>>
  OBVIOUS
<1> HIDE DEF queue
<1>5. /\ n \in Agents /\ n.state = "UNDEFINED" /\ n.live = {} /\ n.callbacks = {}
      /\ n.answers = {} /\ n.locks = a.locks
  <2>1. 0 \in 0 .. MaxAttempts /\ 0 \in 0 .. MaxRequests
    BY RegistrationAssumption
  <2>2. <<>> \in Seq(Requests)
    OBVIOUS
  <2> QED BY <1>3, <2>1, <2>2 DEF NewAgent, Agents, States
<1> HIDE DEF n
<1>6. /\ b \in Agents /\ b.state = "UNDEFINED" /\ b.live = {} /\ b.callbacks = {}
      /\ b.answers = {} /\ b.locks = a.locks /\ b.screen = a.screen
  BY <1>3, <1>5 DEF Agents
<1> HIDE DEF b
<1>7. Surroundings'
  <2>1. renewAt' \in {"none", "ahead", "passed"} /\ alarm' \in BOOLEAN
    BY ReRegisterTypes DEF HaltDone, IInv, renewalVars
  <2>2. visit' \subseteq Lines
    BY DEF HaltDone, IInv, TypeOK
  <2> QED BY <2>1, <2>2 DEF IInv, TypeOK, Surroundings, HaltDone
<1>8. MainActs /\ acquiring = {} /\ acquiring' = {} /\ bound' = bound
  BY DEF HaltDone, MainActs
<1>9. ASSUME ~overlap
      PROVE  Orderly(b, bound'[l], l \in acquiring')
  <2>1. (l \in acquiring) = FALSE /\ (l \in acquiring') = FALSE
    BY <1>8
  <2>2. Orderly(agent[l], bound[l], FALSE)
    BY <1>9, <2>1 DEF IInv, LinesAreOrderly
  <2>3. a.locks = 0 /\ ~a.screen
    BY <1>1, <2>2 DEF Orderly, Idle
  <2>4. Idle(b, bound[l])
    BY <1>6, <2>3 DEF Idle, Pending
  <2> QED BY <1>8, <2>1, <2>4 DEF Orderly
<1>10. Serving(b)
  BY <1>6 DEF Serving, Pending
<1>11. OneAcquires'
  BY <1>8 DEF OneAcquires
<1> QED BY <1>2, <1>6, <1>7, <1>8, <1>9, <1>10, <1>11, OneLineSteps

\* The queue of a line loses a request.
LEMMA QueueShrinks ==
  ASSUME NEW a \in Agents, NEW i \in DOMAIN a.queue
  PROVE  /\ RemoveAt(a.queue, i) \in Seq(Requests)
         /\ a.queue # <<>> /\ a.queue[i] \in Requests
         /\ \A tx : i = 1 /\ (\A j \in DOMAIN a.queue : a.queue[j] = tx => j = Len(a.queue)) =>
              /\ a.queue[i] = tx => RemoveAt(a.queue, i) = <<>>
              /\ \A j \in DOMAIN RemoveAt(a.queue, i) :
                   RemoveAt(a.queue, i)[j] = tx => j = Len(RemoveAt(a.queue, i))
<1> DEFINE q == a.queue
           r == RemoveAt(q, i)
<1>1. q \in Seq(Requests) /\ i \in 1 .. Len(q) /\ Len(q) \in Nat
  BY LenProperties DEF Agents
<1>2. /\ r \in Seq(Requests) /\ Len(r) = Len(q) - 1
      /\ \A j \in DOMAIN r : r[j] = IF j < i THEN q[j] ELSE q[j + 1]
  BY <1>1, RemoveAtFacts
<1>3. q # <<>> /\ q[i] \in Requests
  BY <1>1, ElementOfSeq
<1> HIDE DEF r
<1>4. ASSUME NEW tx, i = 1, \A j \in DOMAIN q : q[j] = tx => j = Len(q)
      PROVE  /\ q[i] = tx => r = <<>>
             /\ \A j \in DOMAIN r : r[j] = tx => j = Len(r)
  <2>1. ASSUME q[i] = tx
        PROVE  r = <<>>
    <3>1. 1 \in DOMAIN q /\ q[1] = tx
      BY <1>4, <2>1
    <3>2. 1 = Len(q)
      BY <1>4, <3>1
    <3> QED BY <3>2, <1>2, EmptySeq
  <2>2. ASSUME NEW j \in DOMAIN r, r[j] = tx
        PROVE  j = Len(r)
    <3>1. j \in 1 .. Len(r) /\ Len(r) \in Nat
      BY <1>2, LenProperties
    <3>2. r[j] = q[j + 1]
      BY <1>2, <1>4, <3>1
    <3>3. j + 1 \in DOMAIN q
      BY <1>1, <1>2, <3>1, LenProperties
    <3>4. j + 1 = Len(q)
      BY <1>4, <2>2, <3>2, <3>3
    <3> QED BY <1>1, <1>2, <3>1, <3>4
  <2> QED BY <2>1, <2>2
<1> QED BY <1>2, <1>3, <1>4 DEF r

\* So does a request that is lost.
LEMMA LoseRequestKeeps ==
  ASSUME IInv, NEW l \in Lines, LoseRequest(l), overlap' = overlap
  PROVE  IInv'
<1> DEFINE a == agent[l]
<1>1. PICK i \in Arriving(l) : Becomes(l, [a EXCEPT !.queue = RemoveAt(@, i)])
  BY DEF LoseRequest
<1> DEFINE q == RemoveAt(a.queue, i)
           b == [a EXCEPT !.queue = q]
<1>2. a \in Agents /\ bound[l] \in BOOLEAN
  BY DEF IInv, TypeOK
<1>3. i \in DOMAIN a.queue /\ (~overlap => i = 1)
  BY DEF Arriving
<1>4. /\ q \in Seq(Requests) /\ a.queue # <<>>
      /\ ~overlap => \A tx : (\A j \in DOMAIN a.queue : a.queue[j] = tx => j = Len(a.queue)) =>
           \A j \in DOMAIN q : q[j] = tx => j = Len(q)
  BY <1>2, <1>3, QueueShrinks
<1>5. Becomes(l, b)
  BY <1>1
<1> HIDE DEF q
<1>6. /\ b \in Agents /\ b.state = a.state /\ b.t = a.t /\ b.live = a.live /\ b.queue = q
      /\ b.answers = a.answers /\ b.callbacks = a.callbacks
      /\ b.locks = a.locks /\ b.screen = a.screen
  BY <1>2, <1>4 DEF Agents
<1> HIDE DEF b
<1>7. Serving(b)
  BY <1>6, ServedMeansServing DEF IInv, Serving
<1>8. Surroundings' /\ OneAcquires' /\ bound' = bound /\ acquiring' = acquiring
  BY DEF IInv, TypeOK, Surroundings, OneAcquires, LoseRequest, mainVars, renewalVars
<1>9. ASSUME ~overlap
      PROVE  Orderly(b, bound'[l], l \in acquiring')
  <2>1. Orderly(a, bound[l], l \in acquiring)
    BY <1>9 DEF IInv, LinesAreOrderly
  <2>2. Idle(a, bound[l]) => Idle(b, bound[l])
    BY <1>4, <1>6 DEF Idle
  <2>3. ASSUME NEW tx, Asking(a, bound[l], tx)
        PROVE  Asking(b, bound[l], tx)
    <3>1. \A j \in DOMAIN q : q[j] = tx => j = Len(q)
      BY <1>4, <1>9, <2>3 DEF Asking
    <3> QED BY <3>1, <1>4, <1>6, <2>3 DEF Asking
  <2>4. \A c : Hearing(a, bound[l], c) => Hearing(b, bound[l], c)
    BY <1>4, <1>6 DEF Hearing
  <2>5. (l \in acquiring') = (l \in acquiring)
    BY <1>8
  <2> QED BY <1>6, <1>8, <2>1, <2>2, <2>3, <2>4, <2>5 DEF Orderly
<1> QED BY <1>5, <1>6, <1>7, <1>8, <1>9, OneLineSteps

\* So does an answer of the registrar.
LEMMA AnswerRequestKeeps ==
  ASSUME IInv, NEW l \in Lines, AnswerRequest(l), overlap' = overlap
  PROVE  IInv'
<1> DEFINE a == agent[l]
<1>1. PICK i \in Arriving(l), class \in {"2xx"} \cup Refusals :
        /\ bound' = [bound EXCEPT ![l] = IF class = "2xx" THEN a.queue[i].kind = "register" ELSE @]
        /\ Becomes(l, [a EXCEPT
             !.queue = RemoveAt(@, i),
             !.answers = IF a.queue[i] \in a.live THEN @ \cup {[n |-> a.queue[i].n, class |-> class]} ELSE @])
  BY DEF AnswerRequest
<1> DEFINE q == RemoveAt(a.queue, i)
           tx == a.queue[i]
           r == [n |-> tx.n, class |-> class]
           answers == IF tx \in a.live THEN a.answers \cup {r} ELSE a.answers
           registers == tx.kind = "register"
           has == IF class = "2xx" THEN registers ELSE bound[l]
           b == [a EXCEPT !.queue = q, !.answers = answers]
<1>2. a \in Agents /\ bound[l] \in BOOLEAN /\ bound \in [Lines -> BOOLEAN]
  BY DEF IInv, TypeOK
<1>3. i \in DOMAIN a.queue /\ (~overlap => i = 1)
  BY DEF Arriving
<1>4. /\ q \in Seq(Requests) /\ a.queue # <<>> /\ tx \in Requests
      /\ ~overlap => \A x : (\A j \in DOMAIN a.queue : a.queue[j] = x => j = Len(a.queue)) =>
           /\ tx = x => q = <<>>
           /\ \A j \in DOMAIN q : q[j] = x => j = Len(q)
  BY <1>2, <1>3, QueueShrinks
<1>5. Becomes(l, b) /\ bound' = [bound EXCEPT ![l] = has]
  BY <1>1
<1> HIDE DEF q, tx
<1>6. answers \subseteq [n : RequestIds, class : {"2xx"} \cup Refusals]
  <2>1. r \in [n : RequestIds, class : {"2xx"} \cup Refusals]
    BY <1>4 DEF Requests
  <2>2. a.answers \subseteq [n : RequestIds, class : {"2xx"} \cup Refusals]
    BY <1>2 DEF Agents
  <2> HIDE DEF r
  <2> QED BY <2>1, <2>2
<1>7. /\ tx \notin a.live => answers = a.answers
      /\ \A s \in answers : s \in a.answers \/ (s.n = tx.n /\ s.class = class)
  OBVIOUS
<1> HIDE DEF answers
<1>8. /\ b \in Agents /\ b.state = a.state /\ b.t = a.t /\ b.live = a.live /\ b.queue = q
      /\ b.answers = answers /\ b.callbacks = a.callbacks
      /\ b.locks = a.locks /\ b.screen = a.screen
  BY <1>2, <1>4, <1>6 DEF Agents
<1> HIDE DEF b
<1>9. has \in BOOLEAN /\ (class = "2xx" => (has <=> tx.kind = "register"))
  BY <1>2
<1> HIDE DEF has
<1>10. bound' \in [Lines -> BOOLEAN] /\ bound'[l] = has /\ \A k \in Lines \ {l} : bound'[k] = bound[k]
  BY <1>2, <1>5, <1>9
<1>11. Serving(b)
  BY <1>8, ServedMeansServing DEF IInv, Serving
<1>12. Surroundings' /\ OneAcquires' /\ acquiring' = acquiring
  BY <1>10 DEF IInv, TypeOK, Surroundings, OneAcquires, AnswerRequest, mainVars, renewalVars
<1>13. ASSUME ~overlap
       PROVE  Orderly(b, has, l \in acquiring)
  <2>1. Orderly(a, bound[l], l \in acquiring)
    BY <1>13 DEF IInv, LinesAreOrderly
  <2>2. Idle(a, bound[l]) => Idle(b, has)
    BY <1>4, <1>7, <1>8 DEF Idle
  <2>3. ASSUME NEW x, Asking(a, bound[l], x)
        PROVE  Asking(b, has, x)
    <3>1. /\ tx = x => q = <<>>
          /\ \A j \in DOMAIN q : q[j] = x => j = Len(q)
      BY <1>4, <1>13, <2>3 DEF Asking
    <3>2. a.answers = {}
      BY <1>4, <2>3 DEF Asking
    <3>3. CASE tx = x
      <4>1. q = <<>>
        BY <3>1, <3>3
      <4>2. \A s \in answers : s.n = x.n /\ s.class = class
        BY <3>2, <3>3, <1>7
      <4>3. \A s \in answers : s.n = x.n /\ (s.class = "2xx" => (has <=> x.kind = "register"))
        BY <4>2, <3>3, <1>9
      <4> QED BY <3>1, <4>1, <4>3, <1>8, <2>3 DEF Asking
    <3>4. CASE tx # x
      <4>1. answers = {}
        BY <3>2, <3>4, <1>7, <2>3 DEF Asking
      <4> QED BY <3>1, <4>1, <1>8, <2>3 DEF Asking
    <3> QED BY <3>3, <3>4
  <2>4. \A c : Hearing(a, bound[l], c) => Hearing(b, has, c)
    BY <1>4, <1>7, <1>8 DEF Hearing
  <2> QED BY <1>8, <2>1, <2>2, <2>3, <2>4 DEF Orderly
<1>14. ~overlap => Orderly(b, bound'[l], l \in acquiring')
  BY <1>10, <1>12, <1>13
<1> QED BY <1>5, <1>8, <1>10, <1>11, <1>12, <1>14, OneLineSteps

\* So does a transaction that reports its outcome.
LEMMA TakeOutcomeKeeps ==
  ASSUME IInv, NEW l \in Lines, TakeOutcome(l), overlap' = overlap
  PROVE  IInv'
<1> DEFINE a == agent[l]
           Heard(tx) == {r.class : r \in {q \in a.answers : q.n = tx.n}} \cup {"timeout"}
           After(tx, outcome) ==
             [a EXCEPT !.live = @ \ {tx},
                       !.answers = {r \in @ : r.n # tx.n},
                       !.callbacks = @ \cup {[tx |-> tx, outcome |-> outcome]}]
<1> PICK tx \in a.live : \E outcome \in Heard(tx) : Becomes(l, After(tx, outcome))
  BY DEF TakeOutcome
<1>1. PICK outcome \in Heard(tx) : Becomes(l, After(tx, outcome))
  OBVIOUS
<1> DEFINE c == [tx |-> tx, outcome |-> outcome]
           b == After(tx, outcome)
<1>2. a \in Agents /\ bound[l] \in BOOLEAN
  BY DEF IInv, TypeOK
<1>3. tx \in Requests /\ outcome \in Outcomes
  BY <1>2, <1>1 DEF Agents, Outcomes
<1>4. c \in Callbacks
  BY <1>3 DEF Callbacks
<1>5. b = [a EXCEPT !.live = @ \ {tx}, !.answers = {r \in @ : r.n # tx.n}, !.callbacks = @ \cup {c}]
  OBVIOUS
<1>6. c.tx = tx /\ c.outcome = outcome
  OBVIOUS
<1>7. outcome = "2xx" => \E r \in a.answers : r.n = tx.n /\ r.class = "2xx"
  BY <1>1
<1>8. Becomes(l, b)
  BY <1>1
<1> HIDE DEF c, b
<1>9. /\ b \in Agents /\ b.state = a.state /\ b.t = a.t /\ b.queue = a.queue
      /\ b.live = a.live \ {tx} /\ b.answers = {r \in a.answers : r.n # tx.n}
      /\ b.callbacks = a.callbacks \cup {c}
      /\ b.locks = a.locks /\ b.screen = a.screen
  BY <1>2, <1>4, <1>5 DEF Agents
<1>10. Serving(b)
  BY <1>9 DEF Serving
<1>11. Surroundings' /\ OneAcquires' /\ bound' = bound /\ acquiring' = acquiring
  BY DEF IInv, TypeOK, Surroundings, OneAcquires, TakeOutcome, mainVars, renewalVars
<1>12. ASSUME ~overlap
       PROVE  Orderly(b, bound'[l], l \in acquiring')
  <2>1. Orderly(a, bound[l], l \in acquiring)
    BY <1>12 DEF IInv, LinesAreOrderly
  <2>2. Asking(a, bound[l], tx) /\ a.locks = IF l \in acquiring THEN 0 ELSE 1
    BY <2>1 DEF Orderly, Idle, Asking, Hearing
  <2>3. Hearing(b, bound[l], c)
    <3>1. b.live = {} /\ b.answers = {} /\ b.callbacks = {c}
      BY <1>9, <2>2 DEF Asking
    <3>2. c.outcome = "2xx" => b.queue = <<>> /\ (bound[l] <=> c.tx.kind = "register")
      BY <1>6, <1>7, <1>9, <2>2 DEF Asking
    <3> QED BY <1>4, <1>6, <1>9, <2>2, <3>1, <3>2 DEF Asking, Hearing
  <2>4. (l \in acquiring') = (l \in acquiring)
    BY <1>11
  <2> QED BY <1>4, <1>9, <1>11, <2>2, <2>3, <2>4 DEF Orderly
<1> QED BY <1>8, <1>9, <1>10, <1>11, <1>12, OneLineSteps

\* The agent whose callback runs; where it is orderly, nothing else is on its
\* way and it holds the lock.
LEMMA CalledFacts ==
  ASSUME IInv, NEW l \in Lines, NEW c, Runs(l, c)
  PROVE  LET a == Called(l, c) IN
         /\ c \in Callbacks
         /\ a \in Agents /\ Used(a) \subseteq Used(agent[l])
         /\ a.state = agent[l].state /\ a.attempts = agent[l].attempts
         /\ a.queue = agent[l].queue
         /\ ~overlap =>
              /\ Bare(a) /\ a.locks = 1 /\ l \notin acquiring
              /\ Hearing(agent[l], bound[l], c)
<1> DEFINE a == Called(l, c)
<1>1. agent[l] \in Agents /\ c \in agent[l].callbacks
  BY DEF IInv, TypeOK, Runs
<1>2. c \in Callbacks
  BY <1>1 DEF Agents
<1>3. /\ a \in Agents /\ a.state = agent[l].state /\ a.attempts = agent[l].attempts
      /\ a.queue = agent[l].queue /\ a.live = agent[l].live /\ a.answers = agent[l].answers
      /\ a.callbacks = agent[l].callbacks \ {c} /\ a.locks = agent[l].locks
  BY <1>1 DEF Called, Agents
<1> HIDE DEF a
<1>4. Used(a) \subseteq Used(agent[l])
  BY <1>3, UsedMonotonic
<1>5. ASSUME ~overlap
      PROVE  Bare(a) /\ a.locks = 1 /\ l \notin acquiring /\ Hearing(agent[l], bound[l], c)
  <2>1. l \notin acquiring
    BY <1>5 DEF Runs
  <2>2. Orderly(agent[l], bound[l], FALSE)
    <3>1. (l \in acquiring) = FALSE
      BY <2>1
    <3> QED BY <1>5, <3>1 DEF IInv, LinesAreOrderly
  <2>3. Hearing(agent[l], bound[l], c) /\ agent[l].locks = 1
    BY <1>1, <2>2 DEF Orderly, Idle, Asking, Hearing
  <2> QED BY <1>3, <2>1, <2>3 DEF Hearing, Bare
<1> QED BY <1>2, <1>3, <1>4, <1>5 DEF a

\* The step of a callback, which makes f of the line.
LEMMA CallbackKeeps ==
  ASSUME IInv, overlap' = overlap, NEW l \in Lines, NEW f \in Agents,
         Becomes(l, f), Serving(f), UNCHANGED <<bound, mainVars>>,
         renewAt' \in {"none", "ahead", "passed"}, alarm' \in BOOLEAN,
         ~overlap => l \notin acquiring /\ Orderly(f, bound[l], FALSE)
  PROVE  IInv'
<1>1. Surroundings' /\ OneAcquires' /\ bound' = bound /\ acquiring' = acquiring
  BY DEF IInv, TypeOK, Surroundings, OneAcquires, mainVars
<1>2. ASSUME ~overlap
      PROVE  Orderly(f, bound'[l], l \in acquiring')
  <2>1. (l \in acquiring') = FALSE
    BY <1>1, <1>2
  <2> QED BY <1>1, <1>2, <2>1
<1> QED BY <1>1, <1>2, OneLineSteps

\* So does the callback of a success.
LEMMA RegistrationSucceedsKeeps ==
  ASSUME IInv, NEW l \in Lines, NEW c, RegistrationSucceeds(l, c), overlap' = overlap
  PROVE  IInv'
<1> DEFINE a == Called(l, c)
           state == IF agent[l].state = "REGISTERING" THEN "REGISTERED" ELSE "UNREGISTERED"
           b == [a EXCEPT !.state = state]
           f == Released(b)
<1>1. /\ c.outcome = "2xx"
      /\ a \in Agents /\ a.state = agent[l].state /\ a.queue = agent[l].queue
      /\ ~overlap =>
           /\ Bare(a) /\ a.locks = 1 /\ l \notin acquiring
           /\ Hearing(agent[l], bound[l], c)
  BY CalledFacts DEF RegistrationSucceeds
<1>2. Becomes(l, f)
  BY DEF RegistrationSucceeds, Succeeds
<1> HIDE DEF a
<1>3. /\ state \in States /\ state \notin Pending
      /\ state = "REGISTERED" => agent[l].state = "REGISTERING"
  BY DEF States, Pending
<1> HIDE DEF state
<1>4. /\ b \in Agents /\ b.state = state /\ b.queue = a.queue /\ b.live = a.live
      /\ b.callbacks = a.callbacks /\ b.answers = a.answers /\ b.locks = a.locks
  BY <1>1, <1>3 DEF Agents
<1> HIDE DEF b
<1>5. /\ f \in Agents /\ f.state = state /\ f.queue = a.queue /\ f.live = a.live
      /\ f.callbacks = a.callbacks /\ f.answers = a.answers
      /\ a.locks = 1 => f.locks = 0 /\ ~f.screen
  BY <1>4, ReleasedFacts
<1> HIDE DEF f
<1>6. Serving(f)
  BY <1>3, <1>5 DEF Serving
<1>7. ASSUME ~overlap
      PROVE  l \notin acquiring /\ Orderly(f, bound[l], FALSE)
  <2>1. Bare(a) /\ a.locks = 1 /\ l \notin acquiring /\ Hearing(agent[l], bound[l], c)
    BY <1>1, <1>7
  <2>2. state = "REGISTERED" => bound[l] /\ f.queue = <<>>
    <3> SUFFICES ASSUME state = "REGISTERED"
                 PROVE  bound[l] /\ f.queue = <<>>
      OBVIOUS
    <3>1. c.tx.kind = "register"
      BY <1>3, <2>1 DEF Hearing, PendingState, Callbacks, Requests
    <3> QED BY <1>1, <1>5, <2>1, <3>1 DEF Hearing
  <2>3. Idle(f, bound[l])
    BY <1>3, <1>5, <2>1, <2>2 DEF Idle, Bare
  <2> QED BY <2>1, <2>3 DEF Orderly
<1>8. renewAt' \in {"none", "ahead", "passed"} /\ alarm' \in BOOLEAN
  <2>1. (\E p \in Periods : ReRegister(p)) \/ UNCHANGED renewalVars
    BY DEF RegistrationSucceeds
  <2> QED BY <2>1, ReRegisterTypes DEF IInv
<1>9. UNCHANGED <<bound, mainVars>>
  BY DEF RegistrationSucceeds
<1> QED BY <1>2, <1>5, <1>6, <1>7, <1>8, <1>9, CallbackKeeps

\* So does the callback of a challenge.
LEMMA RegistrationRepeatedKeeps ==
  ASSUME IInv, NEW l \in Lines, NEW c, RegistrationRepeated(l, c), overlap' = overlap
  PROVE  IInv'
<1> DEFINE a == Called(l, c)
           b == [a EXCEPT !.attempts = @ + 1]
           f == Sends(b, c.tx.kind)
<1>1. /\ c \in Callbacks /\ a \in Agents /\ Used(a) \subseteq Used(agent[l])
      /\ a.state = agent[l].state
      /\ ~overlap =>
           /\ Bare(a) /\ a.locks = 1 /\ l \notin acquiring
           /\ Hearing(agent[l], bound[l], c)
  BY CalledFacts DEF RegistrationRepeated
<1>2. Becomes(l, f) /\ a.attempts < MaxAttempts /\ Used(agent[l]) # RequestIds
  BY DEF RegistrationRepeated, CanSend
<1> HIDE DEF a
<1>3. a.attempts + 1 \in 0 .. MaxAttempts
  BY <1>1, <1>2, RegistrationAssumption DEF Agents
<1>4. /\ b \in Agents /\ b.state = a.state /\ b.queue = a.queue /\ b.live = a.live
      /\ b.callbacks = a.callbacks /\ b.answers = a.answers /\ b.locks = a.locks
  BY <1>1, <1>3 DEF Agents
<1> HIDE DEF b
<1>5. Used(b) # RequestIds
  <2>1. Used(agent[l]) \subseteq RequestIds
    BY UsedFacts DEF IInv, TypeOK
  <2>2. Used(b) = Used(a)
    BY <1>4, UsedSame
  <2> QED BY <1>1, <1>2, <2>1, <2>2
<1>6. c.tx.kind \in {"register", "unregister"}
  BY <1>1 DEF Callbacks, Requests
<1>7. /\ f \in Agents /\ f.live # {} /\ f.locks = b.locks
      /\ Bare(b) /\ b.state = PendingState(c.tx.kind) =>
           \A isBound \in BOOLEAN : \E tx \in Requests : Asking(f, isBound, tx)
  BY <1>4, <1>5, <1>6, SendsAsks
<1> HIDE DEF f
<1>8. Serving(f)
  BY <1>7 DEF Serving
<1>9. ASSUME ~overlap
      PROVE  l \notin acquiring /\ Orderly(f, bound[l], FALSE)
  <2>1. Bare(b) /\ b.locks = 1 /\ l \notin acquiring /\ b.state = PendingState(c.tx.kind)
    BY <1>1, <1>4, <1>9 DEF Bare, Hearing
  <2>2. bound[l] \in BOOLEAN
    BY DEF IInv, TypeOK
  <2> QED BY <1>7, <2>1, <2>2 DEF Orderly
<1>10. renewAt' \in {"none", "ahead", "passed"} /\ alarm' \in BOOLEAN
  BY DEF IInv, TypeOK, RegistrationRepeated, renewalVars
<1>11. UNCHANGED <<bound, mainVars>>
  BY DEF RegistrationRepeated
<1> QED BY <1>2, <1>7, <1>8, <1>9, <1>10, <1>11, CallbackKeeps

\* A callback that reports no success settles the line.
LEMMA SettledKeeps ==
  ASSUME IInv, overlap' = overlap, NEW l \in Lines, NEW b, NEW f,
         Becomes(l, f), Settled(f, b), UNCHANGED <<bound, mainVars>>,
         ~overlap => l \notin acquiring /\ Bare(b) /\ b.locks = 1,
         renewAt' \in {"none", "ahead", "passed"}, alarm' \in BOOLEAN
  PROVE  IInv'
<1>1. bound[l] \in BOOLEAN
  BY DEF IInv, TypeOK
<1>2. f \in Agents /\ Serving(f) /\ (~overlap => l \notin acquiring /\ Orderly(f, bound[l], FALSE))
  BY <1>1 DEF Settled
<1> QED BY <1>2, CallbackKeeps

\* So does the callback of a failure.
LEMMA RegistrationRefusedKeeps ==
  ASSUME IInv, NEW l \in Lines, NEW c, RegistrationRefused(l, c), overlap' = overlap
  PROVE  IInv'
<1> DEFINE a == Called(l, c)
           attempts == IF a.attempts < MaxAttempts THEN a.attempts + 1 ELSE a.attempts
           d == [a EXCEPT !.attempts = IF @ < MaxAttempts THEN @ + 1 ELSE @]
           b == [d EXCEPT !.state = "UNREGISTERED"]
<1>1. /\ a \in Agents /\ Used(a) \subseteq Used(agent[l])
      /\ ~overlap => Bare(a) /\ a.locks = 1 /\ l \notin acquiring
  BY CalledFacts DEF RegistrationRefused
<1>2. /\ Used(agent[l]) # RequestIds
      /\ \/ \E again, fast \in BOOLEAN : Becomes(l, Fails(b, again, fast))
         \/ Becomes(l, Released(b))
  BY DEF RegistrationRefused, CanSend, Succeeds
<1> HIDE DEF a
<1>3. attempts \in 0 .. MaxAttempts /\ d = [a EXCEPT !.attempts = attempts]
  BY <1>1, RegistrationAssumption DEF Agents
<1> HIDE DEF attempts, d
<1>4. /\ d \in Agents /\ d.queue = a.queue /\ d.live = a.live
      /\ d.callbacks = a.callbacks /\ d.answers = a.answers /\ d.locks = a.locks
  BY <1>1, <1>3 DEF Agents
<1>5. /\ b \in Agents /\ b.state = "UNREGISTERED" /\ b.queue = d.queue /\ b.live = d.live
      /\ b.callbacks = d.callbacks /\ b.answers = d.answers /\ b.locks = d.locks
  BY <1>4 DEF Agents, States
<1> HIDE DEF b
<1>6. Used(b) # RequestIds
  <2>1. Used(agent[l]) \subseteq RequestIds
    BY UsedFacts DEF IInv, TypeOK
  <2>2. Used(b) = Used(a)
    BY <1>4, <1>5, UsedSame
  <2> QED BY <1>1, <1>2, <2>1, <2>2
<1>7. PICK f : Becomes(l, f) /\ Settled(f, b)
  <2>1. ASSUME NEW again \in BOOLEAN, NEW fast \in BOOLEAN
        PROVE  Settled(Fails(b, again, fast), b)
    BY <1>5, <1>6, FailsSettles
  <2>2. Settled(Released(b), b)
    BY <1>5, <1>6, ReleasedSettles
  <2> QED BY <1>2, <2>1, <2>2
<1>8. ~overlap => l \notin acquiring /\ Bare(b) /\ b.locks = 1
  BY <1>1, <1>4, <1>5 DEF Bare
<1>9. renewAt' \in {"none", "ahead", "passed"} /\ alarm' \in BOOLEAN
  <2>1. ReRegister(Long) \/ UNCHANGED renewalVars
    BY DEF RegistrationRefused
  <2> QED BY <2>1, ReRegisterTypes DEF IInv
<1>10. UNCHANGED <<bound, mainVars>>
  BY DEF RegistrationRefused
<1> QED BY <1>7, <1>8, <1>9, <1>10, SettledKeeps

\* So does the callback of a timeout.
LEMMA RegistrationTimesOutKeeps ==
  ASSUME IInv, NEW l \in Lines, NEW c, RegistrationTimesOut(l, c), overlap' = overlap
  PROVE  IInv'
<1> DEFINE a == Called(l, c)
<1>1. /\ a \in Agents /\ Used(a) \subseteq Used(agent[l])
      /\ ~overlap => Bare(a) /\ a.locks = 1 /\ l \notin acquiring
  BY CalledFacts DEF RegistrationTimesOut
<1>2. PICK pub \in BOOLEAN, again \in BOOLEAN, fast \in BOOLEAN :
        /\ Becomes(l, TimedOut(a, pub, again, fast))
        /\ RenewsIf(agent[l].state = "REGISTERING" \/ pub)
  BY DEF RegistrationTimesOut
<1>3. Used(agent[l]) # RequestIds /\ UNCHANGED <<bound, mainVars>>
  BY DEF RegistrationTimesOut, CanSend
<1> HIDE DEF a
<1>4. Used(a) # RequestIds
  <2>1. Used(agent[l]) \subseteq RequestIds
    BY UsedFacts DEF IInv, TypeOK
  <2> QED BY <1>1, <1>3, <2>1
<1>5. Settled(TimedOut(a, pub, again, fast), a)
  BY <1>1, <1>4, TimedOutSettles
<1>6. renewAt' \in {"none", "ahead", "passed"} /\ alarm' \in BOOLEAN
  BY <1>2, ReRegisterTypes DEF IInv, RenewsIf
<1> QED BY <1>1, <1>2, <1>3, <1>5, <1>6, SettledKeeps

\* Every step keeps the invariant.
LEMMA StepOrderly ==
  ASSUME IInv, [Next]_vars
  PROVE  IInv'
<1>1. CASE UNCHANGED vars
  <2>1. Surroundings'
    BY <1>1 DEF IInv, TypeOK, Surroundings, vars, mainVars, renewalVars
  <2> QED BY <1>1, <2>1, LinesStay DEF vars, mainVars
<1>2. CASE Next
  <2>1. overlap' = overlap
    BY <1>2 DEF Next
  <2>2. CASE StartRegister \/ Expire \/ StartHalt
    BY <2>1, <2>2, StartRegisterKeeps, ExpireKeeps, StartHaltKeeps
  <2>3. ASSUME NEW l \in Lines, RegisterLine(l) \/ UnregisterSlow(l) \/ Acquire(l)
                                \/ HaltLine(l) \/ HaltDone(l)
        PROVE  IInv'
    <3>1. CASE UnregisterSlow(l)
      <4>1. visit' \subseteq Lines /\ halting' \subseteq Lines /\ leaving' \subseteq Lines
        BY <3>1 DEF UnregisterSlow, IInv, TypeOK
      <4> QED BY <2>1, <3>1, <4>1, UnregisterLineKeeps DEF UnregisterSlow
    <3>2. CASE HaltLine(l)
      <4>1. visit' \subseteq Lines /\ halting' \subseteq Lines /\ leaving' \subseteq Lines
        BY <3>2 DEF HaltLine, IInv, TypeOK
      <4> QED BY <2>1, <3>2, <4>1, UnregisterLineKeeps DEF HaltLine
    <3> QED BY <2>1, <2>3, <3>1, <3>2, RegisterLineKeeps, AcquireKeeps, HaltDoneKeeps
  <2>4. CASE NetworkStep \/ TimePasses \/ \E l \in Lines : TakeOutcome(l)
    BY <2>1, <2>4, LoseRequestKeeps, AnswerRequestKeeps, TimePassesKeeps, TakeOutcomeKeeps
       DEF NetworkStep
  <2>5. ASSUME NEW l \in Lines, NEW c \in agent[l].callbacks, CallbackStep(l, c)
        PROVE  IInv'
    BY <2>1, <2>5, RegistrationSucceedsKeeps, RegistrationRepeatedKeeps,
       RegistrationRefusedKeeps, RegistrationTimesOutKeeps DEF CallbackStep
  <2> QED BY <1>2, <2>2, <2>3, <2>4, <2>5 DEF Next, Step, MainStep
<1> QED BY <1>1, <1>2

\* The invariant of types, of lines that are not stuck, and of orderly lines.
THEOREM Invariant == Spec => []IInv
<1>1. Init => IInv
  BY InitOrderly
<1>2. IInv /\ [Next]_vars => IInv'
  BY StepOrderly
<1> QED BY <1>1, <1>2, PTL DEF Spec

\* Every variable has its type: a request that is made finds a number no other
\* request has, and no counter passes its limit.
THEOREM TypeCorrect == Spec => []TypeOK
<1>1. IInv => TypeOK
  BY DEF IInv
<1> QED BY <1>1, Invariant, PTL

\* No line is stuck (the guards of register() and unregister(), against the
\* callbacks), however the threads of the agents meet.
THEOREM NoLineIsStuck == Spec => []PendingIsServed
<1>1. IInv => PendingIsServed
  BY DEF IInv
<1> QED BY <1>1, Invariant, PTL

\* Where requests keep their order, a line that says it is registered has its
\* contact at the registrar.
THEOREM RegisteredMeansBound == Spec => []RegisteredIsBound
<1>1. IInv => RegisteredIsBound
  BY DEF IInv, LinesAreOrderly, Orderly, Idle, Asking, Hearing, PendingState, RegisteredIsBound
<1> QED BY <1>1, Invariant, PTL

\* Where no thread acts between the steps of another, the wake lock is held for
\* as long as a line waits, and the screen is kept on during a wait only.
THEOREM AwakeForTheWait == Spec => []AwakeWhileWaiting
<1>1. ASSUME IInv
      PROVE  AwakeWhileWaiting
  <2> SUFFICES ASSUME ~overlap, NEW l \in Lines
               PROVE  LET a == agent[l]
                          waits == Cardinality(a.live \cup {c.tx : c \in a.callbacks}) IN
                      /\ acquiring = {} => a.locks = waits
                      /\ waits <= 1
                      /\ a.screen => waits = 1
    BY DEF AwakeWhileWaiting
  <2> DEFINE a == agent[l]
             waiting == a.live \cup {c.tx : c \in a.callbacks}
             Awake(waits) == /\ acquiring = {} => a.locks = waits
                             /\ waits <= 1
                             /\ a.screen => waits = 1
  <2>1. Orderly(a, bound[l], l \in acquiring)
    BY <1>1 DEF IInv, LinesAreOrderly
  <2>2. CASE Idle(a, bound[l]) /\ l \notin acquiring
    <3>1. waiting = {}
      BY <2>2 DEF Idle
    <3>2. a.locks = 0 /\ ~a.screen
      BY <2>2 DEF Idle
    <3> HIDE DEF waiting
    <3>3. Cardinality(waiting) = 0
      BY <3>1, FS_EmptySet
    <3>4. Awake(Cardinality(waiting))
      BY <3>2, <3>3
    <3> QED BY <3>4 DEF waiting
  <2>3. ASSUME NEW tx, waiting = {tx}, a.locks = IF l \in acquiring THEN 0 ELSE 1
        PROVE  Awake(Cardinality(waiting))
    <3> HIDE DEF waiting
    <3>1. Cardinality(waiting) = 1
      BY <2>3, FS_Singleton
    <3> QED BY <2>3, <3>1
  <2>4. ASSUME NEW tx \in Requests, Asking(a, bound[l], tx)
        PROVE  waiting = {tx}
    BY <2>4 DEF Asking
  <2>5. ASSUME NEW c \in Callbacks, Hearing(a, bound[l], c)
        PROVE  waiting = {c.tx}
    <3>1. a.live = {} /\ a.callbacks = {c}
      BY <2>5 DEF Hearing
    <3> QED BY <3>1
  <2>6. Awake(Cardinality(waiting))
    <3>1. CASE Idle(a, bound[l]) /\ l \notin acquiring
      BY <2>2, <3>1
    <3>2. CASE \E tx \in Requests : Asking(a, bound[l], tx) /\ a.locks = IF l \in acquiring THEN 0 ELSE 1
      BY <2>3, <2>4, <3>2
    <3>3. CASE \E c \in Callbacks : Hearing(a, bound[l], c) /\ a.locks = IF l \in acquiring THEN 0 ELSE 1
      BY <2>3, <2>5, <3>3
    <3> QED BY <2>1, <3>1, <3>2, <3>3 DEF Orderly
  <2> QED BY <2>6
<1> QED BY <1>1, Invariant, PTL

-----------------------------------------------------------------------------
(* The renewal of registrations that are granted for long.                 *)

\* A long period sets the alarm.
LEMMA LongRenews ==
  ASSUME RenewalInv, ReRegister(Long)
  PROVE  alarm' /\ renewAt' # "none"
BY DEF RenewalInv, RenewalIsSet, ReRegister, renewalVars, Long, None

\* A step of one line, which may move it on in a halt.
LEMMA OneLineRenews ==
  ASSUME IInv, RenewalInv, NEW l \in Lines, NEW f, Becomes(l, f),
         \A k, m \in leaving' : k = m,
         Halting' # {} => visit' = {} /\ acquiring' \subseteq leaving',
         Halting' # {} => Halting # {} /\ Halting \subseteq Halting' \cup {l},
         Halting' # {} /\ l \notin Halting' => Gone(f),
         renewAt' # "none" => alarm',
         f.state = "REGISTERED" => alarm',
         \A k \in Lines \ {l} : agent[k].state = "REGISTERED" => alarm'
  PROVE  RenewalInv'
<1>1. agent \in [Lines -> Agents]
  BY DEF IInv, TypeOK
<1>2. agent'[l] = f /\ \A k \in Lines \ {l} : agent'[k] = agent[k]
  BY <1>1 DEF Becomes
<1>3. Halting' # {} => \A k \in Lines \ Halting' : Gone(agent'[k])
  BY <1>2 DEF RenewalInv, RenewalIsSet
<1>4. RegisteredIsRenewed'
  BY <1>2 DEF RegisteredIsRenewed
<1>5. RenewalIsSet'
  BY <1>3 DEF RenewalIsSet
<1> QED BY <1>4, <1>5 DEF RenewalInv

\* What a visit does not do.
LEMMA VisitRegistersNot ==
  ASSUME IInv, NEW l \in Lines, CanSend(l),
         NEW opposite \in Pending, NEW pub \in BOOLEAN,
         NEW g \in GivenUp(Reset(agent[l]), opposite, pub),
         NEW kind \in {"register", "unregister"},
         NEW may \in BOOLEAN, may => g.state \notin Pending
  PROVE  Visited(g, kind, may).state = "REGISTERED" => agent[l].state = "REGISTERED"
<1> DEFINE v == Visited(g, kind, may)
<1>1. agent[l] \in Agents /\ Used(agent[l]) # RequestIds
  BY DEF IInv, TypeOK, CanSend
<1>2. VisitOf(agent[l], v, may)
  BY <1>1, VisitedFacts
<1> HIDE DEF v
<1>3. v.state = "REGISTERED" => agent[l].state = "REGISTERED"
  BY <1>2 DEF VisitOf
<1> QED BY <1>3 DEF v

\* The registration of a line keeps what is said of the renewal.
LEMMA RegisterLineRenews ==
  ASSUME IInv, RenewalInv, NEW l \in Lines, RegisterLine(l)
  PROVE  RenewalInv'
<1> PICK pub \in BOOLEAN : \E g \in GivenUp(Reset(agent[l]), "DEREGISTERING", pub) :
        /\ Becomes(l, IF MayRegister(g) THEN Registers(g) ELSE g)
        /\ RenewsIf(agent[l].state = "DEREGISTERING" /\ pub)
  BY DEF RegisterLine, Reset
<1>1. PICK g \in GivenUp(Reset(agent[l]), "DEREGISTERING", pub) :
        /\ Becomes(l, IF MayRegister(g) THEN Registers(g) ELSE g)
        /\ RenewsIf(agent[l].state = "DEREGISTERING" /\ pub)
  OBVIOUS
<1> DEFINE f == Visited(g, "register", MayRegister(g))
<1>2. Becomes(l, f)
  BY <1>1, BeginsIs DEF Visited
<1>3. f.state = "REGISTERED" => agent[l].state = "REGISTERED"
  <2>1. MayRegister(g) \in BOOLEAN /\ (MayRegister(g) => g.state \notin Pending)
    BY DEF MayRegister, Pending
  <2>2. CanSend(l) /\ "DEREGISTERING" \in Pending
    BY DEF RegisterLine, Pending
  <2> QED BY <2>1, <2>2, VisitRegistersNot
<1> HIDE DEF f
<1>4. Halting = {} /\ Halting' = {} /\ leaving' = leaving
  BY DEF RegisterLine, RenewalInv, RenewalIsSet, Halting
<1>5. (renewAt' # "none" => alarm') /\ (alarm => alarm')
  BY <1>1, LongRenews DEF RenewsIf, RenewalInv, RenewalIsSet, renewalVars
<1>6. \A k \in Lines : agent[k].state = "REGISTERED" => alarm'
  BY <1>5 DEF RenewalInv, RegisteredIsRenewed
<1>7. \A k, m \in leaving' : k = m
  BY <1>4 DEF RenewalInv, RenewalIsSet
<1> QED BY <1>2, <1>3, <1>4, <1>5, <1>6, <1>7, OneLineRenews

\* So does its unregistration.
LEMMA UnregisterLineRenews ==
  ASSUME IInv, RenewalInv, NEW l \in Lines, UnregisterLine(l),
         \A k, m \in leaving' : k = m,
         Halting' # {} => visit' = {} /\ acquiring' \subseteq leaving',
         Halting' = Halting, Halting # {} => l \in Halting
  PROVE  RenewalInv'
<1>1. PICK g \in GivenUp(Reset(agent[l]), "REGISTERING", TRUE) :
        Becomes(l, IF MayUnregister(g) THEN Unregisters(g) ELSE g)
  BY DEF UnregisterLine, Reset
<1> DEFINE f == Visited(g, "unregister", MayUnregister(g))
<1>2. Becomes(l, f)
  BY <1>1, BeginsIs DEF Visited
<1>3. f.state = "REGISTERED" => agent[l].state = "REGISTERED"
  <2>1. MayUnregister(g) \in BOOLEAN /\ (MayUnregister(g) => g.state \notin Pending)
    BY DEF MayUnregister, Pending
  <2>2. CanSend(l) /\ "REGISTERING" \in Pending
    BY DEF UnregisterLine, Pending
  <2> QED BY <2>1, <2>2, VisitRegistersNot
<1> HIDE DEF f
<1>4. (renewAt' # "none" => alarm') /\ (alarm => alarm')
  BY LongRenews DEF UnregisterLine, RenewsIf, RenewalInv, RenewalIsSet, renewalVars
<1>5. \A k \in Lines : agent[k].state = "REGISTERED" => alarm'
  BY <1>4 DEF RenewalInv, RegisteredIsRenewed
<1> QED BY <1>2, <1>3, <1>4, <1>5, OneLineRenews

\* A step that leaves the main thread and the alarm as they are, of a line
\* that the engine is not done with or that it does not wake.
LEMMA QuietStepRenews ==
  ASSUME IInv, RenewalInv, NEW l \in Lines, NEW f, Becomes(l, f),
         UNCHANGED <<visit, halting, leaving>>, acquiring' \subseteq acquiring,
         Gone(agent[l]) => Gone(f),
         (UNCHANGED renewalVars /\ (f.state = "REGISTERED" => agent[l].state = "REGISTERED"))
           \/ ReRegister(Long)
  PROVE  RenewalInv'
<1>1. Halting' = Halting
  BY DEF Halting
<1>2. (renewAt' # "none" => alarm') /\ (alarm => alarm')
  BY LongRenews DEF RenewalInv, RenewalIsSet, renewalVars
<1>3. \A k \in Lines : agent[k].state = "REGISTERED" => alarm'
  BY <1>2 DEF RenewalInv, RegisteredIsRenewed
<1>4. f.state = "REGISTERED" => alarm'
  BY <1>3, LongRenews
<1>5. Halting' # {} /\ l \notin Halting' => Gone(f)
  BY <1>1 DEF RenewalInv, RenewalIsSet
<1>6. /\ \A k, m \in leaving' : k = m
      /\ Halting' # {} => visit' = {} /\ acquiring' \subseteq leaving'
  BY <1>1 DEF RenewalInv, RenewalIsSet
<1> QED BY <1>1, <1>2, <1>3, <1>4, <1>5, <1>6, OneLineRenews

\* So does the end of halt() for one line.
LEMMA HaltDoneRenews ==
  ASSUME IInv, RenewalInv, NEW l \in Lines, HaltDone(l)
  PROVE  RenewalInv'
<1> DEFINE a == Released(agent[l])
           n == NewAgent(a.locks)
           queue == IF overlap THEN a.queue ELSE <<>>
           f == [n EXCEPT !.screen = a.screen, !.queue = queue]
<1>1. Becomes(l, f)
  BY DEF HaltDone
<1> HIDE DEF a, queue
<1>2. Gone(f)
  BY DEF NewAgent, Gone
<1> HIDE DEF f
<1>3. l \in leaving /\ leaving' = {} /\ Halting' = halting /\ halting' = halting
  BY DEF HaltDone, Halting
<1>4. acquiring' = {} /\ (halting # {} => visit' = {} /\ UNCHANGED renewalVars)
  BY <1>3 DEF HaltDone, MainActs, RenewalInv, RenewalIsSet, Halting
<1>5. Halting # {} /\ Halting \subseteq halting \cup {l}
  BY <1>3 DEF RenewalInv, RenewalIsSet, Halting
<1>6. CASE UNCHANGED renewalVars
  <2>1. alarm' = alarm /\ renewAt' = renewAt
    BY <1>6 DEF renewalVars
  <2>2. \A k \in Lines : agent[k].state = "REGISTERED" => alarm'
    BY <2>1 DEF RenewalInv, RegisteredIsRenewed
  <2>3. renewAt' # "none" => alarm'
    BY <2>1 DEF RenewalInv, RenewalIsSet
  <2> QED BY <1>1, <1>2, <1>3, <1>4, <1>5, <2>2, <2>3, OneLineRenews DEF Gone
<1>7. CASE halting = {} /\ ReRegister(None)
  <2>1. renewAt' = "none"
    BY <1>7 DEF ReRegister
  <2>2. \A k \in Lines \ {l} : agent[k].state # "REGISTERED"
    BY <1>5, <1>7 DEF RenewalInv, RenewalIsSet, Gone
  <2> QED BY <1>1, <1>2, <1>3, <1>4, <1>5, <1>7, <2>1, <2>2, OneLineRenews DEF Gone
<1>8. UNCHANGED renewalVars \/ (halting = {} /\ ReRegister(None))
  BY DEF HaltDone
<1> QED BY <1>6, <1>7, <1>8

\* The callbacks.
LEMMA CallbackRenews ==
  ASSUME Periods \subseteq {Long}, IInv, RenewalInv, NEW l \in Lines,
         NEW c \in agent[l].callbacks, CallbackStep(l, c)
  PROVE  RenewalInv'
<1> DEFINE a == Called(l, c)
<1>1. /\ agent[l] \in Agents /\ ~Gone(agent[l]) /\ Runs(l, c) /\ UNCHANGED mainVars
  BY DEF IInv, TypeOK, Gone, CallbackStep, RegistrationSucceeds, RegistrationRepeated,
         RegistrationRefused, RegistrationTimesOut
<1>2. /\ a \in Agents /\ a.state = agent[l].state /\ Used(a) \subseteq Used(agent[l])
      /\ c \in Callbacks
  BY <1>1, CalledFacts
<1>3. Used(agent[l]) # RequestIds => Used(a) # RequestIds
  BY <1>1, <1>2, UsedFacts
<1>4. ASSUME NEW f, Becomes(l, f),
             (UNCHANGED renewalVars /\ (f.state = "REGISTERED" => agent[l].state = "REGISTERED"))
               \/ ReRegister(Long)
      PROVE  RenewalInv'
  BY <1>1, <1>4, QuietStepRenews DEF mainVars
<1>5. CASE RegistrationSucceeds(l, c)
  <2>1. CASE agent[l].state = "REGISTERING"
    <3>1. ReRegister(Long)
      BY <1>5, <2>1 DEF RegistrationSucceeds
    <3>2. \E f : Becomes(l, f)
      BY <1>5 DEF RegistrationSucceeds
    <3> QED BY <3>1, <3>2, <1>4
  <2>2. CASE agent[l].state # "REGISTERING"
    <3> DEFINE b == [a EXCEPT !.state = "UNREGISTERED"]
    <3>1. Becomes(l, Released(b)) /\ UNCHANGED renewalVars
      BY <1>5, <2>2 DEF RegistrationSucceeds, Succeeds
    <3> HIDE DEF a
    <3>2. b \in Agents /\ b.state = "UNREGISTERED"
      BY <1>2 DEF Agents, States
    <3> HIDE DEF b
    <3>3. Released(b).state = "UNREGISTERED"
      BY <3>2, ReleasedFacts
    <3> QED BY <3>1, <3>3, <1>4
  <2> QED BY <2>1, <2>2
<1>6. CASE RegistrationRepeated(l, c)
  <2> DEFINE b == [a EXCEPT !.attempts = @ + 1]
             f == Sends(b, c.tx.kind)
  <2>1. /\ Becomes(l, f) /\ UNCHANGED renewalVars
        /\ a.attempts < MaxAttempts /\ Used(agent[l]) # RequestIds
    BY <1>6 DEF RegistrationRepeated, CanSend
  <2> HIDE DEF a
  <2>2. a.attempts + 1 \in 0 .. MaxAttempts
    BY <1>2, <2>1, RegistrationAssumption DEF Agents
  <2>3. /\ b \in Agents /\ b.state = a.state /\ b.queue = a.queue /\ b.live = a.live
        /\ b.callbacks = a.callbacks
    BY <1>2, <2>2 DEF Agents
  <2> HIDE DEF b
  <2>4. Used(b) # RequestIds
    BY <1>3, <2>1, <2>3, UsedSame
  <2>5. c.tx.kind \in {"register", "unregister"}
    BY <1>2 DEF Callbacks, Requests
  <2>6. f.state = b.state
    BY <2>3, <2>4, <2>5, SendsAsks
  <2> HIDE DEF f
  <2> QED BY <1>2, <1>4, <2>1, <2>3, <2>6
<1>7. CASE RegistrationRefused(l, c)
  <2>1. CASE agent[l].state = "REGISTERING"
    <3>1. ReRegister(Long) /\ \E f : Becomes(l, f)
      BY <1>7, <2>1 DEF RegistrationRefused
    <3> QED BY <3>1, <1>4
  <2>2. CASE agent[l].state # "REGISTERING"
    <3> DEFINE attempts == IF a.attempts < MaxAttempts THEN a.attempts + 1 ELSE a.attempts
               d == [a EXCEPT !.attempts = IF @ < MaxAttempts THEN @ + 1 ELSE @]
               b == [d EXCEPT !.state = "UNREGISTERED"]
    <3>1. Becomes(l, Released(b)) /\ UNCHANGED renewalVars
      BY <1>7, <2>2 DEF RegistrationRefused, Succeeds
    <3> HIDE DEF a
    <3>2. attempts \in 0 .. MaxAttempts /\ d = [a EXCEPT !.attempts = attempts]
      BY <1>2, RegistrationAssumption DEF Agents
    <3> HIDE DEF attempts, d
    <3>3. d \in Agents
      BY <1>2, <3>2 DEF Agents
    <3>4. b \in Agents /\ b.state = "UNREGISTERED"
      BY <3>3 DEF Agents, States
    <3> HIDE DEF b
    <3>5. Released(b).state = "UNREGISTERED"
      BY <3>4, ReleasedFacts
    <3> QED BY <3>1, <3>5, <1>4
  <2> QED BY <2>1, <2>2
<1>8. CASE RegistrationTimesOut(l, c)
  <2>1. PICK pub \in BOOLEAN, again \in BOOLEAN, fast \in BOOLEAN :
          /\ Becomes(l, TimedOut(a, pub, again, fast))
          /\ RenewsIf(agent[l].state = "REGISTERING" \/ pub)
    BY <1>8 DEF RegistrationTimesOut
  <2>2. Used(agent[l]) # RequestIds
    BY <1>8 DEF RegistrationTimesOut, CanSend
  <2> HIDE DEF a
  <2>3. Settled(TimedOut(a, pub, again, fast), a)
    BY <1>2, <1>3, <2>2, TimedOutSettles
  <2>4. TimedOut(a, pub, again, fast).state # "REGISTERED"
    BY <2>3 DEF Settled
  <2> QED BY <1>4, <2>1, <2>4 DEF RenewsIf
<1> QED BY <1>5, <1>6, <1>7, <1>8 DEF CallbackStep

\* The network, and a transaction that has its outcome.
LEMMA NetworkRenews ==
  ASSUME IInv, RenewalInv, NEW l \in Lines,
         LoseRequest(l) \/ AnswerRequest(l) \/ TakeOutcome(l)
  PROVE  RenewalInv'
<1> DEFINE a == agent[l]
<1>1. a \in Agents
  BY DEF IInv, TypeOK
<1>2. UNCHANGED <<mainVars, renewalVars>>
  BY DEF LoseRequest, AnswerRequest, TakeOutcome
<1>3. ASSUME NEW f, Becomes(l, f), f.state = a.state, Gone(a) => Gone(f)
      PROVE  RenewalInv'
  BY <1>2, <1>3, QuietStepRenews DEF mainVars
<1>4. CASE LoseRequest(l)
  <2>1. PICK i : Becomes(l, [a EXCEPT !.queue = RemoveAt(@, i)])
    BY <1>4 DEF LoseRequest
  <2> DEFINE f == [a EXCEPT !.queue = RemoveAt(@, i)]
  <2>2. f.state = a.state /\ f.live = a.live /\ f.callbacks = a.callbacks
    BY <1>1 DEF Agents
  <2> HIDE DEF f
  <2> QED BY <1>3, <2>1, <2>2 DEF Gone, f
<1>5. CASE AnswerRequest(l)
  <2>1. PICK q, answers : Becomes(l, [a EXCEPT !.queue = q, !.answers = answers])
    BY <1>5 DEF AnswerRequest
  <2> DEFINE f == [a EXCEPT !.queue = q, !.answers = answers]
  <2>2. f.state = a.state /\ f.live = a.live /\ f.callbacks = a.callbacks
    BY <1>1 DEF Agents
  <2> HIDE DEF f
  <2> QED BY <1>3, <2>1, <2>2 DEF Gone, f
<1>6. CASE TakeOutcome(l)
  <2>1. a.live # {}
    BY <1>6 DEF TakeOutcome
  <2>2. PICK live, answers, callbacks :
          Becomes(l, [a EXCEPT !.live = live, !.answers = answers, !.callbacks = callbacks])
    BY <1>6 DEF TakeOutcome
  <2> DEFINE f == [a EXCEPT !.live = live, !.answers = answers, !.callbacks = callbacks]
  <2>3. f.state = a.state
    BY <1>1 DEF Agents
  <2> HIDE DEF f
  <2> QED BY <1>3, <2>1, <2>2, <2>3 DEF Gone, f
<1> QED BY <1>4, <1>5, <1>6

\* So does every step, where all periods are long.
LEMMA StepRenews ==
  ASSUME Periods \subseteq {Long}, IInv, RenewalInv, [Next]_vars
  PROVE  RenewalInv'
<1>1. CASE UNCHANGED vars
  BY <1>1 DEF RenewalInv, RenewalIsSet, RegisteredIsRenewed, Halting, vars, mainVars, renewalVars
<1>2. CASE StartRegister
  BY <1>2 DEF StartRegister, MainIdle, RenewalInv, RenewalIsSet, RegisteredIsRenewed, Halting, renewalVars
<1>3. CASE Expire
  <2>1. \A k \in Lines : agent'[k].state # "REGISTERED"
    <3>1. agent \in [Lines -> Agents]
      BY DEF IInv, TypeOK
    <3> QED BY <1>3, <3>1 DEF Expire, Agents
  <2>2. Halting' = {} /\ leaving' = {} /\ renewAt' = "none"
    BY <1>3 DEF Expire, MainIdle, Halting
  <2> QED BY <2>1, <2>2 DEF RenewalInv, RenewalIsSet, RegisteredIsRenewed
<1>4. CASE StartHalt
  <2>1. /\ leaving' = {} /\ Halting' = Lines /\ visit' = {} /\ acquiring' = {}
        /\ UNCHANGED <<agent, renewAt, alarm>>
    BY <1>4 DEF StartHalt, MainIdle, MainActs, Halting, renewalVars
  <2> QED BY <2>1 DEF RenewalInv, RenewalIsSet, RegisteredIsRenewed
<1>5. CASE TimePasses
  BY <1>5 DEF TimePasses, RenewalInv, RenewalIsSet, RegisteredIsRenewed, Halting, mainVars
<1>6. ASSUME NEW l \in Lines, UnregisterSlow(l)
      PROVE  RenewalInv'
  <2>1. Halting = {} /\ Halting' = {} /\ leaving' = leaving /\ UnregisterLine(l)
    BY <1>6 DEF UnregisterSlow, RenewalInv, RenewalIsSet, Halting
  <2>2. \A k, m \in leaving' : k = m
    BY <2>1 DEF RenewalInv, RenewalIsSet
  <2> QED BY <2>1, <2>2, UnregisterLineRenews
<1>7. ASSUME NEW l \in Lines, HaltLine(l)
      PROVE  RenewalInv'
  <2>1. /\ l \in halting /\ leaving = {} /\ halting' = halting \ {l} /\ leaving' = {l}
        /\ UnregisterLine(l) /\ visit' = visit
    BY <1>7 DEF HaltLine
  <2>2. Halting' = Halting /\ l \in Halting
    BY <2>1 DEF Halting
  <2>3. visit' = {} /\ acquiring' \subseteq leaving'
    BY <2>1, <2>2 DEF RenewalInv, RenewalIsSet, UnregisterLine
  <2> QED BY <2>1, <2>2, <2>3, UnregisterLineRenews
<1>8. ASSUME NEW l \in Lines, Acquire(l)
      PROVE  RenewalInv'
  <2> DEFINE f == Acquired(agent[l])
  <2>1. /\ Becomes(l, f) /\ acquiring' = {} /\ l \in acquiring
        /\ UNCHANGED <<visit, halting, leaving, renewalVars>>
    BY <1>8 DEF Acquire
  <2>2. agent[l] \in Agents
    BY DEF IInv, TypeOK
  <2>3. f.state = agent[l].state /\ f.live = agent[l].live /\ f.callbacks = agent[l].callbacks
    BY <2>2, AcquiredFacts
  <2> HIDE DEF f
  <2>4. Gone(agent[l]) => Gone(f)
    BY <2>3 DEF Gone
  <2> QED BY <2>1, <2>3, <2>4, QuietStepRenews
<1>9. ASSUME NEW l \in Lines, NEW c \in agent[l].callbacks, CallbackStep(l, c)
      PROVE  RenewalInv'
  BY <1>9, CallbackRenews
<1>10. CASE MainStep
  BY <1>2, <1>3, <1>4, <1>6, <1>7, <1>8, <1>10, RegisterLineRenews, HaltDoneRenews DEF MainStep
<1>11. CASE NetworkStep \/ \E l \in Lines : TakeOutcome(l)
  BY <1>11, NetworkRenews DEF NetworkStep
<1> QED BY <1>1, <1>5, <1>9, <1>10, <1>11 DEF Next, Step

\* A line that says it is registered will be renewed, if registrars grant their
\* registrations for longer than the margin at which they are to be renewed
\* (reRegister() and expire(), against halt() and every callback).  The run
\* registration_renewal shows that the hypothesis is needed.
THEOREM LongIsRenewed ==
  ASSUME Periods \subseteq {Long}
  PROVE  Spec => []RegisteredIsRenewed
<1>1. Init => RenewalInv
  BY DEF Init, RenewalInv, RenewalIsSet, RegisteredIsRenewed, NewAgent, Halting
<1>2. IInv /\ RenewalInv /\ [Next]_vars => RenewalInv'
  BY StepRenews
<1>3. RenewalInv => RegisteredIsRenewed
  BY DEF RenewalInv
<1> QED BY <1>1, <1>2, <1>3, Invariant, PTL DEF Spec

================================================================================
