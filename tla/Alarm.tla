------------------------------- MODULE Alarm -------------------------------
(***************************************************************************)
(* devices/timer.c of the threads project: timer_sleep(), which puts the    *)
(* calling thread on wait_list and downs its private sleep_semaphore, and   *)
(* the timer interrupt, which ticks, takes from the front of wait_list the  *)
(* threads whose time has come and ups their semaphores.                    *)
(*                                                                         *)
(* timer_sleep is three preemptible steps: compute the wakeup time, insert, *)
(* and down.  The interrupt handler can run between any two of them.        *)
(*                                                                         *)
(* Times are relative to `ticks': wakeup[t] is t's wakeup_time less the     *)
(* current tick count, so a tick takes one off it.  The code only compares  *)
(* wakeup times with each other and with ticks, which this leaves as it is. *)
(***************************************************************************)
EXTENDS Scheduler

CONSTANTS SleepChoices,   \* what timer_sleep may be called with
          Slack           \* wakeup times more than Slack ticks ago are not
                          \* told apart (a bound)

ASSUME SleepAssumption == SleepChoices \subseteq Int /\ Slack \in Nat

VARIABLES wakeup,       \* thread.wakeup_time - ticks
          waitList,     \* wait_list, front first
          sleepValue    \* thread.sleep_semaphore.value

alarmVars == <<wakeup, waitList, sleepValue>>
vars == <<schedVars, alarmVars>>

TypeOK ==
  /\ SchedTypeOK
  /\ wakeup \in [Thread -> Int]
  /\ waitList \in Seq(Thread)
  /\ sleepValue \in [Thread -> Nat]

Init ==
  /\ SchedInit
  /\ wakeup = [t \in Thread |-> 0]
  /\ waitList = <<>>
  /\ sleepValue = [t \in Thread |-> 0]

(***************************************************************************)
(* timer_sleep()                                                            *)
(***************************************************************************)

(* t->wakeup_time = ticks + timer_ticks(), with interrupts enabled.         *)
ComputeWakeup(t) ==
  /\ Running(t, "run")
  /\ \E n \in SleepChoices : wakeup' = [wakeup EXCEPT ![t] = n]
  /\ pc' = [pc EXCEPT ![t] = "computed"]
  /\ UNCHANGED <<running, status, readyList, priority, originalPri, arg,
                 waitList, sleepValue>>

(* The insertion in wait_list, with interrupts disabled.                    *)
GetOnWaitList(t) ==
  /\ Running(t, "computed")
  /\ waitList' = InsertAscending(waitList, t, wakeup)
  /\ pc' = [pc EXCEPT ![t] = "listed"]
  /\ UNCHANGED <<running, status, readyList, priority, originalPri, arg,
                 wakeup, sleepValue>>

(* The condition that ends sema_down's loop.                                *)
Upped(t) == sleepValue[t] > 0

(* sema_down(&t->sleep_semaphore), from its start or from where it resumes. *)
SleepDown(t) ==
  /\ running = t /\ pc[t] \in {"listed", "sleeping"}
  /\ \/ /\ Upped(t)
        /\ sleepValue' = [sleepValue EXCEPT ![t] = @ - 1]
        /\ pc' = [pc EXCEPT ![t] = "run"]
        /\ UNCHANGED <<running, status, readyList>>
     \/ /\ ~Upped(t)
        /\ pc' = [pc EXCEPT ![t] = "sleeping"]
        /\ Block(t)
        /\ UNCHANGED sleepValue
  /\ UNCHANGED <<priority, originalPri, arg, wakeup, waitList>>

(***************************************************************************)
(* timer_interrupt()                                                        *)
(***************************************************************************)

(* The wakeup times after one more tick.  A thread that has been taken off  *)
(* wait_list has no more use for its own.                                   *)
Ticked ==
  [t \in Thread |-> IF pc[t] = "computed" \/ t \in ToSet(waitList)
                    THEN Max({wakeup[t] - 1, -Slack}) ELSE wakeup[t]]

(* How many threads the handler's loop takes off the front of wait_list: it *)
(* stops at the first whose time has not come.                              *)
DueCount(w) == Max({n \in 0..Len(waitList) : \A i \in 1..n : w[waitList[i]] <= 0})

(* A mutant of SleepValueAfter: an up that only a blocked thread notices.   *)
SignalOnly(due) ==
  [t \in Thread |-> IF t \in ToSet(due) /\ status[t] = "blocked"
                    THEN sleepValue[t] + 1 ELSE sleepValue[t]]

(* The semaphores after sema_up for each thread of due.                     *)
SleepValueAfter(due) ==
  [t \in Thread |-> IF t \in ToSet(due) THEN sleepValue[t] + 1 ELSE sleepValue[t]]

(* The ready list after the same calls: each unblocks its thread if it has  *)
(* got as far as blocking.                                                  *)
ReadyListAfter(due) ==
  LET after[n \in 0..Len(due)] ==
        IF n = 0 THEN readyList
        ELSE IF status[due[n]] = "blocked"
             THEN InsertDescending(after[n-1], due[n], priority)
             ELSE after[n-1]
  IN  after[Len(due)]

(* The statuses after them.                                                 *)
StatusAfter(due) ==
  [t \in Thread |-> IF t \in ToSet(due) /\ status[t] = "blocked" THEN "ready"
                    ELSE status[t]]

(* One tick.  Each sema_up asks for a yield on return, as does the end of a *)
(* time slice (thread_tick).  (A quantifier over a singleton names a value.) *)
TimerInterrupt(sliceOver) ==
  /\ Interruptible
  /\ wakeup' = Ticked
  /\ \E due \in {SubSeq(waitList, 1, DueCount(Ticked))} :
       /\ waitList' = SubSeq(waitList, Len(due) + 1, Len(waitList))
       /\ sleepValue' = SleepValueAfter(due)
       /\ IF due # <<>> \/ sliceOver
          THEN \E q \in {ReadyListAfter(due)} : YieldWith(q, StatusAfter(due))
          ELSE UNCHANGED <<running, status, readyList>>
  /\ UNCHANGED <<priority, originalPri, pc, arg>>

(***************************************************************************)
(* The whole system                                                         *)
(***************************************************************************)

Call(t) ==
  \/ ((\E u \in Thread : ThreadCreate(t, u)) \/ ThreadExit(t)) /\ UNCHANGED alarmVars
  \/ ComputeWakeup(t)

(* The rest of a call that has begun.                                       *)
CallProceeds(t) ==
  \/ ThreadCreated(t) /\ UNCHANGED alarmVars
  \/ GetOnWaitList(t)
  \/ SleepDown(t)

Next ==
  \/ \E t \in Thread : Call(t) \/ CallProceeds(t)
  \/ \E sliceOver \in BOOLEAN : TimerInterrupt(sliceOver)

Spec == Init /\ [][Next]_vars

(* The timer goes on ticking and ends time slices (a tick that arrives with *)
(* interrupts disabled is only late), and a thread that gets the CPU again  *)
(* and again gets on with its call.                                         *)
FairSpec ==
  /\ Spec
  /\ SF_vars(TimerInterrupt(TRUE))
  /\ \A t \in Thread : SF_vars(CallProceeds(t))

(***************************************************************************)
(* Properties                                                               *)
(***************************************************************************)

(* Between the insertion in wait_list and its up, a thread is on the list   *)
(* and its semaphore is 0; after the up it is off the list and, until it    *)
(* has run, its semaphore is 1.  So an interrupt anywhere inside            *)
(* timer_sleep is neither lost nor counted twice, and nobody sleeps without *)
(* being on the list.                                                       *)
UpOncePerSleep ==
  /\ TypeOK
  /\ IsInjective(waitList)
  /\ \A t \in Thread :
       /\ t \in ToSet(waitList) <=> pc[t] \in {"listed", "sleeping"} /\ sleepValue[t] = 0
       /\ sleepValue[t] = IF pc[t] \in {"listed", "sleeping"} /\ t \notin ToSet(waitList)
                          THEN 1 ELSE 0
       /\ status[t] = "blocked" => t \in ToSet(waitList)

(* timer_sleep never returns before its time, and a tick that wakes anybody *)
(* wakes everybody who is due: the handler stops at the first thread of     *)
(* wait_list that is not, which takes a list in order of wakeup times       *)
(* (DESIGNDOC A3), whatever the order the threads got on it.                *)
WokenOnTime ==
  [][/\ \A t \in Thread : pc[t] \in {"listed", "sleeping"} /\ pc'[t] = "run"
                            => wakeup[t] <= 0
     /\ Len(waitList') < Len(waitList)
          => \A t \in ToSet(waitList') : wakeup'[t] > 0]_vars

(* Every sleeper returns, when no other thread has a higher priority.       *)
EverySleeperReturns ==
  \A t \in Thread : pc[t] \in {"computed", "listed", "sleeping"} ~> pc[t] = "run"
=============================================================================
