----------------------------- MODULE Registration -----------------------------
(***************************************************************************)
(* The registration of the phone's lines with their registrars: the state  *)
(* machine of RegisterAgent.java, its TransactionClients, the callbacks of *)
(* SipdroidEngine.java with the two wake locks of a line, and the alarm    *)
(* of Receiver.java by which registrations are renewed.                    *)
(*                                                                         *)
(* Three kinds of threads meet here without a lock: the main thread, which *)
(* registers, unregisters, takes alarms and halts the engine; the thread   *)
(* that receives messages; and the timers of the transactions.  A response *)
(* or timeout is therefore two steps: the transaction takes it, and the    *)
(* callback of the agent runs.  `overlap' says whether anything may happen *)
(* in between, and between a register() and the acquire() after it.  Each  *)
(* handler of the agent is one step, with the callbacks of the engine that *)
(* it makes.                                                               *)
(*                                                                         *)
(* The voice-mail subscription that accompanies a registration shares no   *)
(* state with it and is left out.                                          *)
(***************************************************************************)
EXTENDS Naturals, FiniteSets, Sequences, SequencesExt

CONSTANTS
  Lines,            \* the accounts of the phone, SipdroidEngine.LINES of them
  MaxAttempts,      \* RegisterAgent.MAX_ATTEMPTS
  MaxRequests,      \* bound on the requests of a line that exist at a time
  Periods,          \* for how long registrars grant a registration
  KeepOn,           \* Settings.PREF_KEEPON: lines have a lock for the screen
  Overlaps          \* the values `overlap' may have

\* How long a registration is granted: not at all, up to the 15 seconds
\* before its end at which it is to be renewed, or longer.
None  == "none"
Short == "short"
Long  == "long"

ASSUME RegistrationAssumption ==
  /\ MaxAttempts \in Nat
  /\ MaxRequests \in Nat \ {0}
  /\ Periods \subseteq {None, Short, Long}
  /\ KeepOn \in BOOLEAN /\ Overlaps \subseteq BOOLEAN

VARIABLES
  agent,            \* the RegisterAgent of each line, with its transactions and locks
  bound,            \* the registrar has the line's contact
  visit,            \* lines that a register() of the engine has still to visit
  acquiring,        \* the line whose wl.acquire() is the main thread's next step
  halting,          \* lines that a halt() of the engine has still to deal with
  leaving,          \* the line whose de-registration halt() waits for
  renewAt,          \* Receiver.expire_time: "none", "ahead" of now, or "passed"
  alarm,            \* the alarm for OneShotAlarm is set
  overlap           \* threads may act between a transaction and its callback, and
                    \* requests travel by UDP, which does not keep their order

renewalVars == <<renewAt, alarm>>
mainVars    == <<visit, acquiring, halting, leaving>>
vars        == <<agent, bound, mainVars, renewalVars, overlap>>

States == {"UNDEFINED", "UNREGISTERED", "REGISTERING", "REGISTERED", "DEREGISTERING"}

RequestIds == 1 .. MaxRequests
Requests == [n : RequestIds, kind : {"register", "unregister"}]

Refusals == {"401", "3xx"}
Outcomes == {"2xx", "timeout"} \cup Refusals

NewAgent(locks) ==
  [state     |-> "UNDEFINED",      \* CurrentState
   attempts  |-> 0,                \* attempts
   t         |-> 0,                \* number of the request of t
   live      |-> {},               \* requests whose transaction has no outcome yet
   queue     |-> <<>>,             \* requests on their way to the registrar
   answers   |-> {},               \* answers on their way back
   callbacks |-> {},               \* outcomes whose callback has yet to run
   locks     |-> locks,            \* count of the wake lock wl
   screen    |-> FALSE]            \* pwl is held

Init ==
  /\ agent = [l \in Lines |-> NewAgent(0)]
  /\ bound = [l \in Lines |-> FALSE]
  /\ visit = Lines /\ acquiring = {} /\ halting = {} /\ leaving = {}
  /\ renewAt = "none" /\ alarm = FALSE
  /\ overlap \in Overlaps

-----------------------------------------------------------------------------
(* An agent and its locks, before and after a part of a handler.           *)

Used(a) == {tx.n : tx \in a.live \cup ToSet(a.queue) \cup {c.tx : c \in a.callbacks}}

\* A new TransactionClient, which becomes t.
Sends(a, kind) ==
  LET tx == [n |-> CHOOSE n \in RequestIds : n \notin Used(a), kind |-> kind]
  IN [a EXCEPT !.t = tx.n, !.live = @ \cup {tx}, !.queue = Append(@, tx)]

\* MUTANT of Terminations: the transaction goes on.
TerminationsNone(a) == {a}

\* t.terminate(): the transaction makes no call any more, except for one that
\* is already on its way, which may run or find the listener gone.
Terminations(a) ==
  LET b == [a EXCEPT !.live = {tx \in @ : tx.n # a.t}, !.answers = {r \in @ : r.n # a.t}]
  IN {b, [b EXCEPT !.callbacks = {c \in @ : c.tx.n # a.t}]}

Acquired(a) == [a EXCEPT !.locks = @ + 1]

\* MUTANT of Released: the screen is forgotten.
ReleasedOnlyWl(a) == IF a.locks > 0 THEN [a EXCEPT !.locks = @ - 1] ELSE a

\* Release of wl and with it of pwl, as all callbacks do.
Released(a) == IF a.locks > 0 THEN [a EXCEPT !.locks = @ - 1, !.screen = FALSE] ELSE a

\* register() of the agent from a state in which nothing is pending.
MayRegister(a) == a.state \in {"UNREGISTERED", "REGISTERED", "UNDEFINED"}

Registers(a) ==
  Sends([a EXCEPT !.state = "REGISTERING", !.attempts = 0], "register")

MayUnregister(a) == a.state \in {"REGISTERED", "UNDEFINED"}

Unregisters(a) ==
  Sends([a EXCEPT !.state = "DEREGISTERING", !.attempts = 0], "unregister")

\* onUaRegistrationSuccess(), which is also called for a de-registration that
\* was refused or not answered.
Succeeds(a) == Released(a)

\* The visit that register() of the engine, called in a callback, pays to the
\* line itself.
Revisited(a, fast) ==
  CASE fast /\ MayRegister(a)    -> Acquired(Registers(a))
    [] ~fast /\ MayUnregister(a) -> Acquired(Unregisters(a))
    [] OTHER                     -> [a EXCEPT !.attempts = 0]

\* onUaRegistrationFailure(), for a line that is not registered.  Every 45
\* seconds at most, and on a wireless network, the engine registers again with
\* the screen on; `again' says that it may now, `fast' that the network is one
\* to register on.  Its visits to other lines are a StartRegister.
Fails(a, again, fast) ==
  LET b == Revisited([a EXCEPT !.locks = IF @ > 0 THEN @ - 1 ELSE 0, !.screen = TRUE], fast)
  IN IF again /\ KeepOn /\ ~a.screen
     THEN [b EXCEPT !.screen = b.locks > 0]
     ELSE Released(a)

\* MUTANT of TimedOut: a de-registration without an answer changes no state.
TimedOutUnnoticed(a, pub, again, fast) ==
  IF a.state = "REGISTERING" \/ pub
  THEN Fails([a EXCEPT !.state = "UNDEFINED"], again, fast)
  ELSE Succeeds(a)

\* onTransTimeout().  A de-registration without an answer counts as a failure
\* only if the line may use a mobile network, outside airplane mode (`pub').
TimedOut(a, pub, again, fast) ==
  IF a.state = "REGISTERING" \/ pub
  THEN Fails([a EXCEPT !.state = "UNDEFINED"], again, fast)
  ELSE Succeeds([a EXCEPT !.state = "UNREGISTERED"])

-----------------------------------------------------------------------------
(* Receiver.reRegister(): the earlier of the old time and the new one.     *)

ReRegister(period) ==
  \/ /\ period = None
     /\ renewAt' = "none" /\ alarm' = FALSE
  \/ /\ period # None /\ renewAt # "none"
     /\ UNCHANGED renewalVars
  \/ /\ period # None /\ renewAt # "passed"
     /\ renewAt' = "ahead" /\ alarm' = (period = Long)

\* The time in Receiver.expire_time goes by.
TimePasses ==
  /\ renewAt = "ahead"
  /\ renewAt' = "passed"
  /\ UNCHANGED <<agent, bound, mainVars, alarm>>

-----------------------------------------------------------------------------
(* The main thread.                                                        *)

NoCallback == \A l \in Lines : agent[l].callbacks = {}

MainActs == acquiring = {} /\ (overlap \/ NoCallback)

MainIdle == MainActs /\ visit = {} /\ halting = {} /\ leaving = {}

CanSend(l) == Used(agent[l]) # RequestIds

Becomes(l, a) == agent' = [agent EXCEPT ![l] = a]

\* register(), registerMore() and registerUdp() of the engine.
StartRegister ==
  /\ MainIdle
  /\ visit' \in SUBSET Lines \ {{}}
  /\ UNCHANGED <<agent, bound, acquiring, halting, leaving, renewalVars>>

\* MUTANT of Expire: the time of the last renewal is kept.
ExpireKeepsTime ==
  /\ MainIdle /\ alarm
  /\ alarm' = FALSE
  /\ agent' = [l \in Lines |->
       IF agent[l].state = "REGISTERED" THEN [agent[l] EXCEPT !.state = "UNREGISTERED"] ELSE agent[l]]
  /\ visit' = Lines
  /\ UNCHANGED <<bound, acquiring, halting, leaving, renewAt>>

\* expire(), called by OneShotAlarm.
Expire ==
  /\ MainIdle /\ alarm
  /\ renewAt' = "none" /\ alarm' = FALSE
  /\ agent' = [l \in Lines |->
       IF agent[l].state = "REGISTERED" THEN [agent[l] EXCEPT !.state = "UNREGISTERED"] ELSE agent[l]]
  /\ visit' = Lines
  /\ UNCHANGED <<bound, acquiring, halting, leaving>>

\* register(expire_time) gives up a request that asks for the opposite.
GivenUp(a, opposite, pub) ==
  IF a.state = opposite
  THEN {TimedOut(b, pub, again, fast) : b \in Terminations(a), again, fast \in BOOLEAN}
  ELSE {a}

RenewsIf(failed) == IF failed THEN ReRegister(Long) ELSE UNCHANGED renewalVars

\* register() of the agent, on a network that is fast enough for the line.
RegisterLine(l) ==
  /\ l \in visit /\ MainActs /\ CanSend(l)
  /\ visit' = visit \ {l}
  /\ \E pub \in BOOLEAN : \E a \in GivenUp([agent[l] EXCEPT !.attempts = 0], "DEREGISTERING", pub) :
       /\ Becomes(l, IF MayRegister(a) THEN Registers(a) ELSE a)
       /\ acquiring' = IF MayRegister(a) THEN {l} ELSE {}
       /\ RenewsIf(agent[l].state = "DEREGISTERING" /\ pub)
  /\ UNCHANGED <<bound, halting, leaving>>

\* unregister() of the agent.
UnregisterLine(l) ==
  /\ MainActs /\ CanSend(l)
  /\ \E a \in GivenUp([agent[l] EXCEPT !.attempts = 0], "REGISTERING", TRUE) :
       /\ Becomes(l, IF MayUnregister(a) THEN Unregisters(a) ELSE a)
       /\ acquiring' = IF MayUnregister(a) THEN {l} ELSE {}
  /\ RenewsIf(agent[l].state = "REGISTERING")
  /\ UNCHANGED bound

\* The engine visits a line whose network is not fast enough.
UnregisterSlow(l) ==
  /\ l \in visit
  /\ visit' = visit \ {l}
  /\ UnregisterLine(l)
  /\ UNCHANGED <<halting, leaving>>

\* wl.acquire(), after register() or unregister() has returned true.
Acquire(l) ==
  /\ l \in acquiring
  /\ acquiring' = {}
  /\ Becomes(l, Acquired(agent[l]))
  /\ UNCHANGED <<bound, visit, halting, leaving, renewalVars>>

\* halt() of the engine, which goes from line to line.
StartHalt ==
  /\ MainIdle
  /\ halting' = Lines
  /\ UNCHANGED <<agent, bound, visit, acquiring, leaving, renewalVars>>

HaltLine(l) ==
  /\ l \in halting /\ leaving = {}
  /\ halting' = halting \ {l} /\ leaving' = {l}
  /\ UnregisterLine(l)
  /\ UNCHANGED visit

\* It waits until the line is UNREGISTERED, but not for long, and drops the
\* agent; what is on its way over a connection is lost when that is closed.
\* After the last line the engine starts again with new agents, at once
\* (Settings) or later (Exit, which also cancels the alarm).
HaltDone(l) ==
  /\ l \in leaving /\ MainActs
  /\ leaving' = {}
  /\ LET a == Released(agent[l])
     IN Becomes(l, [NewAgent(a.locks) EXCEPT
          !.screen = a.screen,
          !.queue = IF overlap THEN a.queue ELSE <<>>])
  /\ IF halting = {}
     THEN visit' = Lines /\ (UNCHANGED renewalVars \/ ReRegister(None))
     ELSE UNCHANGED <<visit, renewalVars>>
  /\ UNCHANGED <<bound, acquiring, halting>>

-----------------------------------------------------------------------------
(* The registrar and the way to it, on which requests may be lost.  One    *)
(* that is retransmitted is in `queue' as long as a copy of it is.         *)

\* The places in `queue' of the requests that may come out next.
Arriving(l) == {i \in DOMAIN agent[l].queue : overlap \/ i = 1}

LoseRequest(l) ==
  /\ \E i \in Arriving(l) : Becomes(l, [agent[l] EXCEPT !.queue = RemoveAt(@, i)])
  /\ UNCHANGED <<bound, mainVars, renewalVars>>

\* The registrar answers; nobody takes the answer to a terminated request.
AnswerRequest(l) ==
  /\ \E i \in Arriving(l), class \in {"2xx"} \cup Refusals :
       LET tx == agent[l].queue[i] IN
       /\ bound' = [bound EXCEPT ![l] = IF class = "2xx" THEN tx.kind = "register" ELSE @]
       /\ Becomes(l, [agent[l] EXCEPT
            !.queue = RemoveAt(@, i),
            !.answers = IF tx \in agent[l].live THEN @ \cup {[n |-> tx.n, class |-> class]} ELSE @])
  /\ UNCHANGED <<mainVars, renewalVars>>

\* A transaction has got its answer, or has waited for 30 seconds.
TakeOutcome(l) ==
  /\ \E tx \in agent[l].live :
     \E outcome \in {r.class : r \in {q \in agent[l].answers : q.n = tx.n}} \cup {"timeout"} :
       Becomes(l, [agent[l] EXCEPT
         !.live = @ \ {tx},
         !.answers = {r \in @ : r.n # tx.n},
         !.callbacks = @ \cup {[tx |-> tx, outcome |-> outcome]}])
  /\ UNCHANGED <<bound, mainVars, renewalVars>>

-----------------------------------------------------------------------------
(* The callbacks of the agent.                                             *)

\* A callback runs; none of them asks whether its transaction is still t.
Runs(l, c) == c \in agent[l].callbacks /\ (overlap \/ acquiring = {})

Called(l, c) == [agent[l] EXCEPT !.callbacks = @ \ {c}]

\* onTransSuccessResponse()
RegistrationSucceeds(l, c) ==
  /\ Runs(l, c) /\ c.outcome = "2xx"
  /\ IF agent[l].state = "REGISTERING"
     THEN /\ Becomes(l, Succeeds([Called(l, c) EXCEPT !.state = "REGISTERED"]))
          /\ \E p \in Periods : ReRegister(p)
     ELSE /\ Becomes(l, Succeeds([Called(l, c) EXCEPT !.state = "UNREGISTERED"]))
          /\ UNCHANGED renewalVars
  /\ UNCHANGED <<bound, mainVars>>

\* MUTANT of RegistrationRepeated: without a limit.
RegistrationRepeatedForEver(l, c) ==
  LET a == Called(l, c) IN
  /\ Runs(l, c) /\ c.outcome = "401" /\ CanSend(l)
  /\ Becomes(l, Sends([a EXCEPT !.attempts = @ + 1], c.tx.kind))
  /\ UNCHANGED <<bound, mainVars, renewalVars>>

\* onTransFailureResponse() of a challenge that is answered: the request is
\* made again, whatever has become of the agent, and its transaction is t.
RegistrationRepeated(l, c) ==
  LET a == Called(l, c) IN
  /\ Runs(l, c) /\ c.outcome = "401"
  /\ a.attempts < MaxAttempts /\ CanSend(l)
  /\ Becomes(l, Sends([a EXCEPT !.attempts = @ + 1], c.tx.kind))
  /\ UNCHANGED <<bound, mainVars, renewalVars>>

\* onTransFailureResponse() otherwise.  Up to the limit every refusal counts
\* as an attempt.
RegistrationRefused(l, c) ==
  LET a == [Called(l, c) EXCEPT !.attempts = IF @ < MaxAttempts THEN @ + 1 ELSE @]
      b == [a EXCEPT !.state = "UNREGISTERED"] IN
  /\ Runs(l, c) /\ CanSend(l)
  /\ c.outcome \in Refusals
  /\ c.outcome = "401" => agent[l].attempts >= MaxAttempts
  /\ IF agent[l].state = "REGISTERING"
     THEN /\ \E again, fast \in BOOLEAN : Becomes(l, Fails(b, again, fast))
          /\ ReRegister(Long)
     ELSE /\ Becomes(l, Succeeds(b))
          /\ UNCHANGED renewalVars
  /\ UNCHANGED <<bound, mainVars>>

\* onTransTimeout()
RegistrationTimesOut(l, c) ==
  /\ Runs(l, c) /\ c.outcome = "timeout" /\ CanSend(l)
  /\ \E pub, again, fast \in BOOLEAN :
       /\ Becomes(l, TimedOut(Called(l, c), pub, again, fast))
       /\ RenewsIf(agent[l].state = "REGISTERING" \/ pub)
  /\ UNCHANGED <<bound, mainVars>>

-----------------------------------------------------------------------------
MainStep ==
  \/ StartRegister \/ Expire \/ StartHalt
  \/ \E l \in Lines : \/ RegisterLine(l) \/ UnregisterSlow(l) \/ Acquire(l)
                      \/ HaltLine(l) \/ HaltDone(l)

NetworkStep == \E l \in Lines : LoseRequest(l) \/ AnswerRequest(l)

CallbackStep(l, c) ==
  \/ RegistrationSucceeds(l, c) \/ RegistrationRepeated(l, c)
  \/ RegistrationRefused(l, c) \/ RegistrationTimesOut(l, c)

Step ==
  \/ MainStep \/ NetworkStep \/ TimePasses
  \/ \E l \in Lines : TakeOutcome(l)
  \/ \E l \in Lines : \E c \in agent[l].callbacks : CallbackStep(l, c)

Next == Step /\ UNCHANGED overlap

Spec == Init /\ [][Next]_vars

-----------------------------------------------------------------------------
(* Properties.                                                             *)

Callbacks == [tx : Requests, outcome : Outcomes]

Agents ==
  [state : States, attempts : 0 .. MaxAttempts, t : 0 .. MaxRequests,
   live : SUBSET Requests, queue : Seq(Requests),
   answers : SUBSET [n : RequestIds, class : {"2xx"} \cup Refusals],
   callbacks : SUBSET Callbacks, locks : Nat, screen : BOOLEAN]

TypeOK ==
  /\ agent \in [Lines -> Agents]
  /\ bound \in [Lines -> BOOLEAN]
  /\ visit \subseteq Lines /\ acquiring \subseteq Lines
  /\ halting \subseteq Lines /\ leaving \subseteq Lines
  /\ renewAt \in {"none", "ahead", "passed"}
  /\ alarm \in BOOLEAN
  /\ overlap \in BOOLEAN

\* A line is not stuck: while its state makes register() or unregister()
\* return without doing anything, a transaction will report and change that.
PendingIsServed ==
  \A l \in Lines : agent[l].state \in {"REGISTERING", "DEREGISTERING"}
    => agent[l].live # {} \/ agent[l].callbacks # {}

\* Where requests keep their order, a line that says it is registered is: the
\* registrar's last word on its requests was the same, whatever was given up and
\* begun again before.  (That
\* registrars forget a contact after its period is left out.)
RegisteredIsBound ==
  \A l \in Lines : ~overlap /\ agent[l].state = "REGISTERED" => bound[l]

\* While no thread acts between the steps of another, the phone is kept awake
\* for as long as a line waits for its registrar, and no longer; the screen is only kept on during such a wait.
AwakeWhileWaiting ==
  ~overlap => \A l \in Lines :
    LET a == agent[l]
        waits == Cardinality(a.live \cup {c.tx : c \in a.callbacks}) IN
    /\ acquiring = {} => a.locks = waits
    /\ waits <= 1
    /\ a.screen => waits = 1

\* A registered line will be renewed ("Whether it is periodically
\* registering.", RegisterAgent.isRegistered()).
RegisteredIsRenewed ==
  \A l \in Lines : agent[l].state = "REGISTERED" => alarm
===============================================================================
