------------------------------ MODULE SipTimer ------------------------------
(***************************************************************************)
(* The timers of the SIP stack (org/zoolu/tools/Timer.java), as the        *)
(* components that own them see them.  A family of timers is a function    *)
(* from timer names to one of four states:                                 *)
(*                                                                         *)
(*   "idle"     not started, halted before it expired, or finished;        *)
(*   "running"  started, its thread asleep;                                *)
(*   "due"      its thread has woken and found the timer active: the call  *)
(*              of onTimeout() is on its way;                              *)
(*   "late"     halt() was called on a due timer: the call may still       *)
(*              happen, or be lost to a null listener.                     *)
(*                                                                         *)
(* Nothing in Timer.java excludes the last state; TimerThread models the   *)
(* threads behind it and is checked to implement TimerContract, which is   *)
(* written with the operators below.                                       *)
(***************************************************************************)

TimerStates == {"idle", "running", "due", "late"}

AllIdle(names) == [k \in names |-> "idle"]

\* Timer.start()
Started(tm, names) ==
  [k \in DOMAIN tm |-> IF k \in names THEN "running" ELSE tm[k]]

\* Timer.halt(): a sleeping timer is stopped for good, a due one is not.
Halted(tm, names) ==
  [k \in DOMAIN tm |->
     IF k \notin names     THEN tm[k]
     ELSE IF tm[k] = "running" THEN "idle"
     ELSE IF tm[k] = "due"     THEN "late"
     ELSE tm[k]]

\* The timer's thread wakes up and passes the test of onInnerTimeout().
Expired(tm, k) == [tm EXCEPT ![k] = "due"]

\* The call of onTimeout() is over, or was lost.
Done(tm, k) == [tm EXCEPT ![k] = "idle"]

\* onTimeout() may be entered now.
Fires(tm, k) == tm[k] \in {"due", "late"}

\* The timer has been started and nobody has halted it since.
Pending(tm, k) == tm[k] \in {"running", "due"}
=============================================================================
