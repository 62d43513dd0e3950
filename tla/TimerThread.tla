----------------------------- MODULE TimerThread -----------------------------
(***************************************************************************)
(* Timer.java and InnerTimer.java, one Java statement per step.            *)
(*                                                                         *)
(* Every Timer object owns a thread (SipStack.single_timer is false) that  *)
(* sleeps and then runs onInnerTimeout().  The thread that uses the timer  *)
(* calls start() and halt().  Neither method is synchronized: the test     *)
(* `active && listener != null' and the call that follows it interleave    *)
(* with the two assignments of halt().                                     *)
(***************************************************************************)
EXTENDS SipTimer

CONSTANT Timers

VARIABLES
  active,     \* Timer.active
  listener,   \* Timer.listener # null
  thread,     \* where the timer's thread is
  user,       \* what the user of the timer has called so far
  fired       \* the body of TimerListener.onTimeout() has been entered

vars == <<active, listener, thread, user, fired>>

ThreadStates == {"unborn", "sleeping", "sawActive", "sawListener", "calling",
                 "inHandler", "clearing", "clearingActive", "dead"}

UserStates == {"created", "started", "halting", "halted"}

TypeOK ==
  /\ active \in [Timers -> BOOLEAN]
  /\ listener \in [Timers -> BOOLEAN]
  /\ thread \in [Timers -> ThreadStates]
  /\ user \in [Timers -> UserStates]
  /\ fired \in [Timers -> BOOLEAN]

Init ==
  /\ active = [k \in Timers |-> FALSE]
  /\ listener = [k \in Timers |-> TRUE]
  /\ thread = [k \in Timers |-> "unborn"]
  /\ user = [k \in Timers |-> "created"]
  /\ fired = [k \in Timers |-> FALSE]

Moves(k, from, to) ==
  /\ thread[k] = from
  /\ thread' = [thread EXCEPT ![k] = to]

-----------------------------------------------------------------------------
(* The user of the timer.                                                  *)

Start(k) ==
  /\ user[k] = "created"
  /\ user' = [user EXCEPT ![k] = "started"]
  /\ active' = [active EXCEPT ![k] = TRUE]
  /\ Moves(k, "unborn", "sleeping")
  /\ UNCHANGED <<listener, fired>>

\* First assignment of halt().
HaltActive(k) ==
  /\ user[k] \in {"created", "started"}
  /\ user' = [user EXCEPT ![k] = "halting"]
  /\ active' = [active EXCEPT ![k] = FALSE]
  /\ UNCHANGED <<listener, thread, fired>>

\* Second assignment of halt(), after which it returns.
HaltListener(k) ==
  /\ user[k] = "halting"
  /\ user' = [user EXCEPT ![k] = "halted"]
  /\ listener' = [listener EXCEPT ![k] = FALSE]
  /\ UNCHANGED <<active, thread, fired>>

-----------------------------------------------------------------------------
(* The timer's thread.                                                     *)

\* MUTANT: onInnerTimeout() does not test `active'.
WakeUnchecked(k) ==
  /\ Moves(k, "sleeping", "sawActive")
  /\ UNCHANGED <<active, listener, user, fired>>

\* The sleep ends and onInnerTimeout() reads `active'.
Wake(k) ==
  /\ Moves(k, "sleeping", IF active[k] THEN "sawActive" ELSE "clearing")
  /\ UNCHANGED <<active, listener, user, fired>>

\* The second operand of the test, `listener != null'.
CheckListener(k) ==
  /\ Moves(k, "sawActive", IF listener[k] THEN "sawListener" ELSE "clearing")
  /\ UNCHANGED <<active, listener, user, fired>>

\* The field is read again for the call; a null there throws, and
\* InnerTimer.run() swallows the exception.
LoadListener(k) ==
  /\ Moves(k, "sawListener", IF listener[k] THEN "calling" ELSE "dead")
  /\ UNCHANGED <<active, listener, user, fired>>

\* MUTANT: the thread goes back to sleep, as a periodic timer would.
LeaveHandlerPeriodic(k) ==
  /\ Moves(k, "inHandler", "sleeping")
  /\ UNCHANGED <<active, listener, user, fired>>

EnterHandler(k) ==
  /\ Moves(k, "calling", "inHandler")
  /\ fired' = [fired EXCEPT ![k] = TRUE]
  /\ UNCHANGED <<active, listener, user>>

LeaveHandler(k) ==
  /\ Moves(k, "inHandler", "clearing")
  /\ UNCHANGED <<active, listener, user, fired>>

ClearListener(k) ==
  /\ Moves(k, "clearing", "clearingActive")
  /\ listener' = [listener EXCEPT ![k] = FALSE]
  /\ UNCHANGED <<active, user, fired>>

ClearActive(k) ==
  /\ Moves(k, "clearingActive", "dead")
  /\ active' = [active EXCEPT ![k] = FALSE]
  /\ UNCHANGED <<listener, user, fired>>

-----------------------------------------------------------------------------
UserStep(k) == Start(k) \/ HaltActive(k) \/ HaltListener(k)

ThreadStep(k) ==
  \/ Wake(k) \/ CheckListener(k) \/ LoadListener(k)
  \/ EnterHandler(k) \/ LeaveHandler(k)
  \/ ClearListener(k) \/ ClearActive(k)

Next == \E k \in Timers : UserStep(k) \/ ThreadStep(k)

\* A started thread runs; halt() returns once called.
Fairness == \A k \in Timers : WF_vars(ThreadStep(k)) /\ WF_vars(HaltListener(k))

Spec == Init /\ [][Next]_vars /\ Fairness

-----------------------------------------------------------------------------
(* Properties.                                                             *)

\* halt() called while the thread is asleep silences the timer: whatever
\* the thread reads afterwards, onTimeout() is never entered.
HaltedAsleepStaysSilent ==
  \A k \in Timers :
    [](user[k] \in {"halting", "halted"} /\ thread[k] = "sleeping" => []~fired[k])

\* The documentation of halt(), "Stops the Timer. The onTimeout() method
\* will not be fired": once halt() has returned, onTimeout() is not entered.
HaltReturnedMeansSilent ==
  [][\A k \in Timers : user[k] = "halted" => fired'[k] = fired[k]]_vars

\* The state of a timer as its user sees it.
Seen(k) ==
  CASE thread[k] = "sleeping" /\ active[k] -> "running"
    [] thread[k] \in {"sawActive", "sawListener", "calling"} /\ active[k] -> "due"
    [] thread[k] \in {"sawActive", "sawListener", "calling"} /\ ~active[k] -> "late"
    [] OTHER -> "idle"

Contract == INSTANCE TimerContract WITH timer <- [k \in Timers |-> Seen(k)]

\* The threads implement the four-state timer the SIP components are
\* modelled with.
ImplementsContract == Contract!Spec
=============================================================================
