--------------------------- MODULE TimerThreadProofs ---------------------------
(***************************************************************************)
(* For any number of timers: a timer that is halted asleep stays silent,   *)
(* and the threads implement, step by step, the four-state timer that the  *)
(* models of the SIP components are built on.                              *)
(***************************************************************************)
EXTENDS TimerThread, TLAPS

-----------------------------------------------------------------------------
(* The inductive invariant.  `active' is set by start() only, so whoever   *)
(* has called halt() leaves it FALSE for good; and a thread that has not   *)
(* entered the handler yet has not fired.                                  *)

NotFired(k) ==
  thread[k] \in {"unborn", "sleeping", "sawActive", "sawListener", "calling"} => ~fired[k]

Unstarted(k) ==
  /\ user[k] = "created" => thread[k] = "unborn"
  /\ user[k] = "started" => thread[k] # "unborn"

TimerInv ==
  /\ TypeOK
  /\ \A k \in Timers : NotFired(k) /\ Unstarted(k)
  /\ \A k \in Timers : user[k] \in {"created", "halting", "halted"} => ~active[k]

\* The invariant holds before a timer is started.
LEMMA InitGivesInv == Init => TimerInv
BY DEF Init, TimerInv, TypeOK, NotFired, Unstarted, ThreadStates, UserStates

\* A step of one timer keeps it, as it leaves what the others' variables say.
LEMMA StepKeepsInv ==
  ASSUME TimerInv, NEW k \in Timers, UserStep(k) \/ ThreadStep(k)
  PROVE  TimerInv'
<1> USE DEF TimerInv, TypeOK, NotFired, Unstarted, ThreadStates, UserStates, Moves
<1>1. CASE Start(k)
  BY <1>1 DEF Start
<1>2. CASE HaltActive(k)
  BY <1>2 DEF HaltActive
<1>3. CASE HaltListener(k)
  BY <1>3 DEF HaltListener
<1>4. CASE Wake(k)
  BY <1>4 DEF Wake
<1>5. CASE CheckListener(k)
  BY <1>5 DEF CheckListener
<1>6. CASE LoadListener(k)
  BY <1>6 DEF LoadListener
<1>7. CASE EnterHandler(k)
  BY <1>7 DEF EnterHandler
<1>8. CASE LeaveHandler(k)
  BY <1>8 DEF LeaveHandler
<1>9. CASE ClearListener(k)
  BY <1>9 DEF ClearListener
<1>10. CASE ClearActive(k)
  BY <1>10 DEF ClearActive
<1> QED
  BY <1>1, <1>2, <1>3, <1>4, <1>5, <1>6, <1>7, <1>8, <1>9, <1>10 DEF UserStep, ThreadStep

\* So does a step of none of them.
LEMMA StutterKeepsInv == TimerInv /\ UNCHANGED vars => TimerInv'
BY DEF TimerInv, TypeOK, NotFired, Unstarted, vars

\* Between any two states of a behaviour; every variable has its type, whatever the
\* threads of two timers do in between.
THEOREM TimerInvariant == Spec => []TimerInv
<1>1. TimerInv /\ [Next]_vars => TimerInv'
  BY StepKeepsInv, StutterKeepsInv DEF Next
<1> QED BY InitGivesInv, <1>1, PTL DEF Spec

-----------------------------------------------------------------------------
(* Once halted in its sleep, a thread finds `active' FALSE and goes by the *)
(* handler.                                                                *)

Silent(k) ==
  /\ user[k] \in {"halting", "halted"}
  /\ thread[k] \in {"sleeping", "clearing", "clearingActive", "dead"}
  /\ ~fired[k]

\* A timer that cannot call its listener any more never will.
LEMMA SilenceLasts ==
  ASSUME NEW k \in Timers, TimerInv, Silent(k), [Next]_vars
  PROVE  Silent(k)'
<1> USE DEF TimerInv, TypeOK, Silent, ThreadStates, UserStates, Moves
<1>1. CASE UNCHANGED vars
  BY <1>1 DEF vars
<1>2. ASSUME NEW j \in Timers, UserStep(j)
      PROVE  Silent(k)'
  BY <1>2 DEF UserStep, Start, HaltActive, HaltListener
<1>3. ASSUME NEW j \in Timers, ThreadStep(j)
      PROVE  Silent(k)'
  BY <1>3 DEF ThreadStep, Wake, CheckListener, LoadListener, EnterHandler, LeaveHandler,
              ClearListener, ClearActive
<1> QED BY <1>1, <1>2, <1>3 DEF Next

(* halt() of Timer.java, called while the thread is asleep, keeps          *)
(* onTimeout() from ever being entered.                                    *)
THEOREM HaltedAsleepIsSilent == Spec => HaltedAsleepStaysSilent
<1> SUFFICES ASSUME NEW k \in Timers
             PROVE  Spec => [](user[k] \in {"halting", "halted"} /\ thread[k] = "sleeping"
                                 => []~fired[k])
  BY DEF HaltedAsleepStaysSilent
<1>1. TimerInv /\ user[k] \in {"halting", "halted"} /\ thread[k] = "sleeping" => Silent(k)
  BY DEF TimerInv, NotFired, Silent
<1>2. TimerInv /\ Silent(k) /\ [Next]_vars => Silent(k)'
  BY SilenceLasts
<1>3. Silent(k) => ~fired[k]
  BY DEF Silent
<1> QED BY <1>1, <1>2, <1>3, TimerInvariant, PTL DEF Spec

-----------------------------------------------------------------------------
(* The refinement.  Besides the invariant it needs that a listener is null *)
(* only once halt() is over or the thread has passed the handler.          *)

NullListener(k) ==
  ~listener[k] => user[k] = "halted" \/ thread[k] \in {"clearingActive", "dead"}

RefinementInv == TimerInv /\ \A k \in Timers : NullListener(k)

\* What the refinement rests on holds before a timer is started.
LEMMA InitGivesRefinementInv == Init => RefinementInv
BY InitGivesInv DEF RefinementInv, NullListener, Init

\* Every step keeps it.
LEMMA StepKeepsRefinementInv == RefinementInv /\ [Next]_vars => RefinementInv'
<1> SUFFICES ASSUME RefinementInv, [Next]_vars PROVE RefinementInv'
  OBVIOUS
<1>1. TimerInv'
  BY StepKeepsInv, StutterKeepsInv DEF RefinementInv, Next
<1> USE DEF RefinementInv, TimerInv, TypeOK, NullListener, Moves, UserStates, ThreadStates
<1>2. CASE UNCHANGED vars
  BY <1>1, <1>2 DEF vars
<1>3. ASSUME NEW j \in Timers, UserStep(j)
      PROVE  \A k \in Timers : NullListener(k)'
  BY <1>3 DEF UserStep, Start, HaltActive, HaltListener, Unstarted
<1>4. ASSUME NEW j \in Timers, ThreadStep(j)
      PROVE  \A k \in Timers : NullListener(k)'
  BY <1>4 DEF ThreadStep, Wake, CheckListener, LoadListener, EnterHandler, LeaveHandler,
              ClearListener, ClearActive
<1> QED BY <1>1, <1>2, <1>3, <1>4 DEF Next

seen == [k \in Timers |-> Seen(k)]

\* Nothing is seen of a step of one timer at the others.
LEMMA SeenElsewhere ==
  ASSUME TypeOK, NEW k \in Timers, UserStep(k) \/ ThreadStep(k), NEW j \in Timers, j # k
  PROVE  seen'[j] = seen[j]
<1>1. active'[j] = active[j] /\ thread'[j] = thread[j]
  BY DEF TypeOK, UserStep, Start, HaltActive, HaltListener, ThreadStep, Wake, CheckListener,
         LoadListener, EnterHandler, LeaveHandler, ClearListener, ClearActive, Moves
<1> QED BY <1>1 DEF seen, Seen

\* So a step is one of the timer it changes.
LEMMA SeenOne ==
  ASSUME TypeOK, NEW k \in Timers, UserStep(k) \/ ThreadStep(k), NEW state, seen'[k] = state
  PROVE  seen' = [seen EXCEPT ![k] = state]
<1>1. \A j \in Timers : j # k => seen'[j] = seen[j]
  BY SeenElsewhere
<1>2. seen = [j \in Timers |-> seen[j]] /\ seen' = [j \in Timers |-> seen'[j]]
  BY DEF seen
<1> HIDE DEF seen
<1> QED BY <1>1, <1>2

\* The first states are first states of the contract.
LEMMA InitRefines == Init => Contract!Init
BY DEF Init, Contract!Init, Contract!AllIdle, Seen

\* A step of a timer's user is one of the contract, or none.
LEMMA UserStepRefines ==
  ASSUME RefinementInv, NEW k \in Timers, UserStep(k)
  PROVE  Contract!Next \/ UNCHANGED Contract!vars
<1> USE DEF RefinementInv, TimerInv, TypeOK, Moves, UserStates, ThreadStates
<1>1. seen = [j \in Timers |-> seen[j]] /\ seen[k] = Seen(k) /\ seen'[k] = Seen(k)'
  BY DEF seen
<1>2. CASE Start(k)
  <2>1. seen[k] = "idle" /\ seen'[k] = "running" /\ ~fired[k] /\ fired' = fired
    BY <1>1, <1>2 DEF Start, Seen, NotFired
  <2>2. seen' = [seen EXCEPT ![k] = "running"]
    BY <2>1, SeenOne
  <2>3. seen' = Contract!Started(seen, {k})
    BY <2>2, <1>1 DEF Contract!Started
  <2>4. Contract!Start(k)
    BY <2>1, <2>3 DEF Contract!Start, seen
  <2> QED BY <2>4 DEF Contract!Next
<1>3. CASE HaltActive(k)
  <2>1. /\ seen'[k] = IF seen[k] = "running" THEN "idle"
                      ELSE IF seen[k] = "due" THEN "late" ELSE seen[k]
        /\ fired' = fired
    BY <1>1, <1>3 DEF HaltActive, Seen
  <2>2. seen' = [seen EXCEPT ![k] = IF seen[k] = "running" THEN "idle"
                                    ELSE IF seen[k] = "due" THEN "late" ELSE seen[k]]
    BY <2>1, SeenOne
  <2>3. seen' = Contract!Halted(seen, {k})
    BY <2>2, <1>1 DEF Contract!Halted
  <2>4. Contract!Halt(k)
    BY <2>1, <2>3 DEF Contract!Halt, seen
  <2> QED BY <2>4 DEF Contract!Next
<1>4. CASE HaltListener(k)
  BY <1>4 DEF HaltListener, Contract!vars, Seen
<1> QED BY <1>2, <1>3, <1>4 DEF UserStep

\* A thread that finds the listener null loses a call nobody wants any more.
LEMMA NullIsLate ==
  ASSUME RefinementInv, NEW k \in Timers, ~listener[k],
         thread[k] \in {"sawActive", "sawListener"}
  PROVE  seen[k] = "late"
BY DEF RefinementInv, TimerInv, NullListener, TypeOK, seen, Seen

\* So is a step of its thread.
LEMMA ThreadStepRefines ==
  ASSUME RefinementInv, NEW k \in Timers, ThreadStep(k)
  PROVE  Contract!Next \/ UNCHANGED Contract!vars
<1> USE DEF RefinementInv, TimerInv, TypeOK, Moves, UserStates, ThreadStates
<1>1. seen = [j \in Timers |-> seen[j]] /\ seen[k] = Seen(k) /\ seen'[k] = Seen(k)'
  BY DEF seen
<1>2. ASSUME seen[k] = "late", seen'[k] = "idle", fired' = fired
      PROVE  Contract!Next
  <2>1. seen' = [seen EXCEPT ![k] = "idle"]
    BY <1>2, SeenOne
  <2>2. Contract!Drop(k)
    BY <1>2, <2>1 DEF Contract!Drop, Contract!Done, seen
  <2> QED BY <2>2 DEF Contract!Next
<1>3. ASSUME seen'[k] = seen[k], fired' = fired
      PROVE  UNCHANGED Contract!vars
  <2>1. seen' = [seen EXCEPT ![k] = seen[k]]
    BY <1>3, SeenOne
  <2>2. seen' = seen
    BY <2>1, <1>1
  <2> QED BY <1>3, <2>2 DEF Contract!vars, seen
<1>4. CASE Wake(k)
  <2>1. CASE active[k]
    <3>1. seen[k] = "running" /\ seen'[k] = "due" /\ fired' = fired
      BY <1>1, <1>4, <2>1 DEF Wake, Seen
    <3>2. seen' = [seen EXCEPT ![k] = "due"]
      BY <3>1, SeenOne
    <3>3. Contract!Expire(k)
      BY <3>1, <3>2 DEF Contract!Expire, Contract!Expired, seen
    <3> QED BY <3>3 DEF Contract!Next
  <2>2. CASE ~active[k]
    BY <1>1, <1>3, <1>4, <2>2 DEF Wake, Seen
  <2> QED BY <2>1, <2>2
<1>5. CASE CheckListener(k)
  <2>1. CASE listener[k]
    BY <1>1, <1>3, <1>5, <2>1 DEF CheckListener, Seen
  <2>2. CASE ~listener[k]
    <3>1. seen[k] = "late"
      BY <1>5, <2>2, NullIsLate DEF CheckListener
    <3>2. seen'[k] = "idle" /\ fired' = fired
      BY <1>1, <1>5, <2>2 DEF CheckListener, Seen
    <3> QED BY <1>2, <3>1, <3>2
  <2> QED BY <2>1, <2>2
<1>6. CASE LoadListener(k)
  <2>1. CASE listener[k]
    BY <1>1, <1>3, <1>6, <2>1 DEF LoadListener, Seen
  <2>2. CASE ~listener[k]
    <3>1. seen[k] = "late"
      BY <1>6, <2>2, NullIsLate DEF LoadListener
    <3>2. seen'[k] = "idle" /\ fired' = fired
      BY <1>1, <1>6, <2>2 DEF LoadListener, Seen
    <3> QED BY <1>2, <3>1, <3>2
  <2> QED BY <2>1, <2>2
<1>7. CASE EnterHandler(k)
  <2>1. seen[k] \in {"due", "late"} /\ seen'[k] = "idle"
    BY <1>1, <1>7 DEF EnterHandler, Seen
  <2>2. seen' = [seen EXCEPT ![k] = "idle"]
    BY <2>1, SeenOne
  <2>3. Contract!Fire(k)
    BY <1>7, <2>1, <2>2
       DEF EnterHandler, Contract!Fire, Contract!Fires, Contract!Done, seen
  <2> QED BY <2>3 DEF Contract!Next
<1>8. CASE LeaveHandler(k)
  BY <1>1, <1>3, <1>8 DEF LeaveHandler, Seen
<1>9. CASE ClearListener(k)
  BY <1>1, <1>3, <1>9 DEF ClearListener, Seen
<1>10. CASE ClearActive(k)
  BY <1>1, <1>3, <1>10 DEF ClearActive, Seen
<1> QED BY <1>4, <1>5, <1>6, <1>7, <1>8, <1>9, <1>10 DEF ThreadStep

\* Where nothing changes, neither does what the contract sees.
LEMMA StutterRefines == UNCHANGED vars => UNCHANGED Contract!vars
BY DEF vars, Contract!vars, Seen

(* Timer.java and InnerTimer.java implement the timer of TimerContract,    *)
(* its fairness apart: every statement of the two threads is a step of the *)
(* abstract timer or none.                                                 *)
THEOREM ThreadsImplementTimer == Spec => Contract!Init /\ [][Contract!Next]_Contract!vars
<1>1. RefinementInv /\ [Next]_vars => [Contract!Next]_Contract!vars
  BY UserStepRefines, ThreadStepRefines, StutterRefines DEF Next
<1> QED BY <1>1, InitRefines, InitGivesRefinementInv, StepKeepsRefinementInv, PTL DEF Spec
=============================================================================
