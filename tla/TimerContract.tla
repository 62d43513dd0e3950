---------------------------- MODULE TimerContract ----------------------------
(***************************************************************************)
(* What a user of Timer.java may rely on: once started, a timer that is    *)
(* not halted fires, and fires once; a timer halted while its thread       *)
(* sleeps never fires; a timer halted later may or may not fire.           *)
(***************************************************************************)
EXTENDS SipTimer

CONSTANT Timers        \* timer objects

VARIABLES
  timer,               \* timer[k] is the state of timer k (see SipTimer)
  fired                \* fired[k]: onTimeout() has been invoked for k

vars == <<timer, fired>>

Init ==
  /\ timer = AllIdle(Timers)
  /\ fired = [k \in Timers |-> FALSE]

\* A timer object is started once.
Start(k) ==
  /\ timer[k] = "idle" /\ ~fired[k]
  /\ timer' = Started(timer, {k})
  /\ UNCHANGED fired

Halt(k) ==
  /\ timer' = Halted(timer, {k})
  /\ UNCHANGED fired

Expire(k) ==
  /\ timer[k] = "running"
  /\ timer' = Expired(timer, k)
  /\ UNCHANGED fired

\* onTimeout() is invoked.
Fire(k) ==
  /\ Fires(timer, k)
  /\ timer' = Done(timer, k)
  /\ fired' = [fired EXCEPT ![k] = TRUE]

\* A late call is lost: the thread finds the listener already null.
Drop(k) ==
  /\ timer[k] = "late"
  /\ timer' = Done(timer, k)
  /\ UNCHANGED fired

Next == \E k \in Timers : Start(k) \/ Halt(k) \/ Expire(k) \/ Fire(k) \/ Drop(k)

Fairness == \A k \in Timers : WF_vars(Expire(k)) /\ WF_vars(Fire(k) \/ Drop(k))

Spec == Init /\ [][Next]_vars /\ Fairness
=============================================================================
