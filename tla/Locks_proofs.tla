---------------------------- MODULE Locks_proofs ----------------------------
(***************************************************************************)
(* Theorems about modules Synch and Monitor, for any number of threads,     *)
(* locks and priorities.  Of the locks: type correctness, one list per      *)
(* thread, mutual exclusion, no lost wakeup, the order of the ready list,   *)
(* that the locks implement LockSpec, that the highest priority runs, and   *)
(* that donations have donors.  Of the condition variable: it keeps its     *)
(* types and loses no signal, and the scheduler and the locks under it keep *)
(* their invariant.                                                         *)
(***************************************************************************)
EXTENDS Monitor, Scheduler_proofs

(***************************************************************************)
(* The inductive invariant                                                  *)
(***************************************************************************)

(* Where a thread is in an operation, and what that says of its argument.   *)
ArgInv ==
  /\ \A t \in Thread :
       /\ pc[t] \in {"down", "waiting", "got", "sethold", "tried", "up"} => arg[t] \in Lock
       /\ pc[t] = "created" => arg[t] \in Thread
       /\ pc[t] \in {"got", "tried", "up"} => arg[t] \notin locksHeld[t]
       /\ pc[t] = "sethold" => arg[t] \in locksHeld[t]
  /\ \A l \in Lock : \A t \in Thread : holder[l] = t => l \in locksHeld[t]

IInv ==
  /\ TypeOK
  /\ ArgInv
  /\ OneListPerThread
  /\ MutualExclusion
  /\ NoLostWakeup
  /\ ReadyListSorted

(***************************************************************************)
(* The scheduler                                                            *)
(***************************************************************************)

(* The scheduler's part of the invariant.                                   *)
LEMMA SchedulerConsistent ==
  ASSUME IInv
  PROVE  /\ priority \in [Thread -> Priority]
         /\ running \in Thread \cup {Idle}
         /\ status \in [Thread -> Status]
         /\ Queued(readyList, status)
         /\ \A t \in Thread : status[t] = "running" <=> running = t
BY DEF IInv, TypeOK, SchedTypeOK, OneListPerThread, Queued

(* thread_yield() from a consistent state.                                  *)
LEMMA PlainYield ==
  ASSUME IInv, Yield
  PROVE  Dispatched(status)
BY SchedulerConsistent, YieldDispatches DEF Yield

(* thread_unblock() of u puts it on the ready list, in order.               *)
LEMMA QueueAfterUnblock ==
  ASSUME IInv, NEW u \in Thread, u \notin ToSet(readyList)
  PROVE  /\ QueueWith(u) \in Seq(Thread)
         /\ ToSet(QueueWith(u)) = ToSet(readyList) \cup {u}
         /\ IsInjective(QueueWith(u))
         /\ IsDescending(QueueWith(u), priority)
<1>1. /\ priority \in [Thread -> Int] /\ readyList \in Seq(Thread)
      /\ IsInjective(readyList) /\ IsDescending(readyList, priority)
  BY SchedulerConsistent, PriorityIsInt DEF Queued, IInv, ReadyListSorted
<1>2. QED
  BY <1>1, InsertDescendingCorrect DEF QueueWith

(* thread_yield() after thread_unblock() of u from a consistent state.      *)
LEMMA YieldAfterUnblock ==
  ASSUME IInv, NEW u \in Thread, status[u] \in {"blocked", "unborn"},
         YieldWith(QueueWith(u), StatusWith(u))
  PROVE  Dispatched(StatusWith(u))
<1> DEFINE q == QueueWith(u)
           st == StatusWith(u)
<1>1. /\ st \in [Thread -> Status]
      /\ \A t \in Thread : st[t] = IF t = u THEN "ready" ELSE status[t]
  BY SchedulerConsistent DEF StatusWith, Status
<1>2. u \notin ToSet(readyList)
  BY SchedulerConsistent DEF Queued
<1>3. /\ q \in Seq(Thread)
      /\ ToSet(q) = ToSet(readyList) \cup {u}
      /\ IsInjective(q)
  BY <1>2, QueueAfterUnblock
<1> HIDE DEF q, st
<1>4. Queued(q, st)
  BY <1>1, <1>3, SchedulerConsistent DEF Queued
<1>5. \A t \in Thread : st[t] = "running" <=> running = t
  BY <1>1, SchedulerConsistent
<1>6. QED
  BY <1>1, <1>4, <1>5, SchedulerConsistent, YieldDispatches DEF q, st

(* schedule() after the running thread t has become x.                      *)
LEMMA ScheduleAway ==
  ASSUME IInv, NEW t \in Thread, running = t, NEW x \in {"blocked", "dying"},
         Schedule(readyList, [status EXCEPT ![t] = x])
  PROVE  Dispatched([status EXCEPT ![t] = x])
<1> DEFINE st == [status EXCEPT ![t] = x]
<1>1. /\ st \in [Thread -> Status]
      /\ \A u \in Thread : st[u] = IF u = t THEN x ELSE status[u]
  BY SchedulerConsistent DEF Status
<1> HIDE DEF st
<1>2. Queued(readyList, st) /\ \A u \in Thread : st[u] # "running"
  BY <1>1, SchedulerConsistent DEF Queued
<1>3. QED
  BY <1>1, <1>2, SchedulerConsistent, ScheduleDispatches DEF st

(***************************************************************************)
(* What a step that does not concern a lock leaves true                     *)
(***************************************************************************)

(* Mutual exclusion, when nobody takes or gives up a lock.                  *)
LEMMA SameOwners ==
  ASSUME IInv, value' = value,
         \A t \in Thread, l \in Lock : Owns(t, l)' <=> Owns(t, l)
  PROVE  MutualExclusion'
BY DEF IInv, MutualExclusion

(* No lost wakeup, when the waiters are the same and whoever was awake and  *)
(* about to retry still is.                                                 *)
LEMMA SameWakeups ==
  ASSUME IInv, value' = value, waiters' = waiters,
         \A t \in Thread :
           pc[t] = "waiting" /\ status[t] # "blocked" =>
             pc'[t] = "waiting" /\ arg'[t] = arg[t] /\ status'[t] # "blocked"
  PROVE  NoLostWakeup'
<1> SUFFICES ASSUME NEW l \in Lock, value'[l] > 0, waiters'[l] # <<>>
             PROVE  \E t \in Thread : /\ pc'[t] = "waiting" /\ arg'[t] = l
                                      /\ status'[t] # "blocked"
  BY DEF NoLostWakeup
<1>1. PICK t \in Thread : pc[t] = "waiting" /\ arg[t] = l /\ status[t] # "blocked"
  BY DEF IInv, NoLostWakeup
<1>2. QED
  BY <1>1

(* One list per thread, after a context switch with the same waiters.       *)
LEMMA SameLists ==
  ASSUME IInv, NEW st, Dispatched(st), waiters' = waiters,
         \A t \in Thread, l \in Lock : WaitsFor(t, l)' <=> WaitsFor(t, l)
  PROVE  OneListPerThread'
BY DEF IInv, OneListPerThread, Dispatched, Queued

(* A context switch of a thread that is not in a lock operation before it   *)
(* and not in one after it, and that does nothing else.                     *)
LEMMA PlainSwitch ==
  ASSUME IInv, NEW t \in Thread, NEW st \in [Thread -> Status], NEW x \in PC,
         pc[t] \in {"run", "created", "yield", "asleep", "condwait"},
         x \in {"run", "asleep", "condwait"},
         pc' = [pc EXCEPT ![t] = x],
         arg' = arg \/ arg' = [arg EXCEPT ![t] = None],
         UNCHANGED <<priority, originalPri, lockVars, panicked>>,
         Dispatched(st),
         \A u \in Thread \ {t} : (st[u] = "blocked") <=> (status[u] = "blocked")
  PROVE  IInv'
<1>1. /\ pc \in [Thread -> PC] /\ arg \in [Thread -> Thread \cup Lock \cup {None}]
      /\ status \in [Thread -> Status]
  BY DEF IInv, TypeOK, SchedTypeOK
<1>2. /\ pc' \in [Thread -> PC] /\ arg' \in [Thread -> Thread \cup Lock \cup {None}]
      /\ pc'[t] = x
      /\ \A u \in Thread \ {t} : pc'[u] = pc[u] /\ arg'[u] = arg[u]
  BY <1>1
<1>3. \A u \in Thread \ {t} : (status'[u] = "blocked") <=> (status[u] = "blocked")
  BY DEF Dispatched
<1>4. TypeOK'
  BY <1>2 DEF IInv, TypeOK, SchedTypeOK, Dispatched, Queued, lockVars
<1>5. ArgInv'
  BY <1>2 DEF IInv, ArgInv, lockVars
<1>6. \A u \in Thread, l \in Lock : Owns(u, l)' <=> Owns(u, l)
  BY <1>2 DEF Owns, lockVars
<1>7. \A u \in Thread, l \in Lock : WaitsFor(u, l)' <=> WaitsFor(u, l)
  BY <1>2, <1>3 DEF WaitsFor
<1>8. OneListPerThread'
  BY <1>7, SameLists DEF lockVars
<1>9. MutualExclusion'
  BY <1>6, SameOwners DEF lockVars
<1>10. NoLostWakeup'
  BY <1>2, <1>3, SameWakeups DEF lockVars
<1>11. ReadyListSorted'
  BY DEF Dispatched, ReadyListSorted
<1>12. QED
  BY <1>4, <1>5, <1>8, <1>9, <1>10, <1>11 DEF IInv

(***************************************************************************)
(* The scheduler's actions                                                  *)
(***************************************************************************)

LEMMA ThreadCreateKeeps ==
  ASSUME IInv, NEW t \in Thread, NEW u \in Thread, ThreadCreate(t, u),
         UNCHANGED <<lockVars, panicked>>
  PROVE  IInv'
<1>1. /\ running = t /\ pc[t] = "run" /\ status[u] = "unborn" /\ u # t
      /\ u \notin ToSet(readyList)
  BY SchedulerConsistent DEF ThreadCreate, Running, Queued
<1>3. /\ readyList' \in Seq(Thread)
      /\ ToSet(readyList') = ToSet(readyList) \cup {u}
      /\ IsInjective(readyList')
      /\ IsDescending(readyList', priority)
  BY <1>1, QueueAfterUnblock DEF ThreadCreate
<1>4. /\ status' \in [Thread -> Status]
      /\ \A v \in Thread : status'[v] = IF v = u THEN "ready" ELSE status[v]
  BY SchedulerConsistent DEF ThreadCreate, StatusWith, Status
<1>5. /\ pc' \in [Thread -> PC] /\ arg' \in [Thread -> Thread \cup Lock \cup {None}]
      /\ pc'[t] = "created" /\ arg'[t] = u
      /\ \A v \in Thread \ {t} : pc'[v] = pc[v] /\ arg'[v] = arg[v]
  BY DEF ThreadCreate, IInv, TypeOK, SchedTypeOK, PC
<1>6. /\ running' = running /\ priority' = priority /\ originalPri' = originalPri
      /\ UNCHANGED lockVars /\ panicked' = panicked
  BY DEF ThreadCreate
<1>7. TypeOK'
  BY <1>3, <1>4, <1>5, <1>6 DEF IInv, TypeOK, SchedTypeOK, lockVars
<1>8. ArgInv'
  BY <1>1, <1>5, <1>6 DEF IInv, ArgInv, lockVars
<1>9. \A v \in Thread, l \in Lock : (Owns(v, l)' <=> Owns(v, l)) /\ (WaitsFor(v, l)' <=> WaitsFor(v, l))
  BY <1>1, <1>4, <1>5, <1>6 DEF Owns, WaitsFor, lockVars
<1>10. OneListPerThread'
  <2>1. ToSet(readyList') = {v \in Thread : status'[v] = "ready"}
    BY <1>3, <1>4, SchedulerConsistent DEF Queued
  <2>2. \A v \in Thread : status'[v] = "running" <=> running' = v
    BY <1>1, <1>4, <1>6, SchedulerConsistent
  <2>3. QED
    BY <1>3, <1>6, <1>9, <2>1, <2>2 DEF IInv, OneListPerThread, lockVars
<1>11. MutualExclusion'
  BY <1>6, <1>9, SameOwners DEF lockVars
<1>12. NoLostWakeup'
  BY <1>1, <1>4, <1>5, <1>6, SameWakeups DEF lockVars
<1>13. ReadyListSorted'
  BY <1>3, <1>6 DEF ReadyListSorted
<1>14. QED
  BY <1>7, <1>8, <1>10, <1>11, <1>12, <1>13 DEF IInv

(* A step of the running thread that does not switch threads and changes    *)
(* only its priorities and where it is.                                     *)
LEMMA PlainStep ==
  ASSUME IInv, NEW t \in Thread, running = t,
         NEW x \in {"run", "yield"}, pc[t] \in {"run", "created", "condwait"},
         pc' = [pc EXCEPT ![t] = x],
         arg' = arg \/ arg' = [arg EXCEPT ![t] = None],
         UNCHANGED <<running, status, readyList, lockVars, panicked>>,
         priority' \in [Thread -> Priority], originalPri' \in [Thread -> Priority],
         \A u \in Thread \ {t} : priority'[u] = priority[u]
  PROVE  IInv'
<1>1. /\ pc' \in [Thread -> PC] /\ arg' \in [Thread -> Thread \cup Lock \cup {None}]
      /\ pc'[t] = x
      /\ \A u \in Thread \ {t} : pc'[u] = pc[u] /\ arg'[u] = arg[u]
  BY DEF IInv, TypeOK, SchedTypeOK, PC
<1>2. TypeOK'
  BY <1>1 DEF IInv, TypeOK, SchedTypeOK, lockVars
<1>3. ArgInv'
  BY <1>1 DEF IInv, ArgInv, lockVars
<1>4. \A u \in Thread, l \in Lock : (Owns(u, l)' <=> Owns(u, l)) /\ (WaitsFor(u, l)' <=> WaitsFor(u, l))
  BY <1>1, SchedulerConsistent DEF Owns, WaitsFor, lockVars
<1>5. OneListPerThread'
  BY <1>4 DEF IInv, OneListPerThread, lockVars
<1>6. MutualExclusion'
  BY <1>4, SameOwners DEF lockVars
<1>7. NoLostWakeup'
  BY <1>1, SameWakeups DEF lockVars
<1>8. ReadyListSorted'
  <2>1. t \notin ToSet(readyList)
    BY SchedulerConsistent DEF Queued
  <2>2. \A i \in 1..Len(readyList) : readyList[i] \in Thread \ {t}
    BY <2>1, SchedulerConsistent DEF Queued, ToSet
  <2>3. QED
    BY <2>2 DEF IInv, ReadyListSorted, IsDescending
<1>9. QED
  BY <1>2, <1>3, <1>5, <1>6, <1>7, <1>8 DEF IInv

LEMMA SetPriorityKeeps ==
  ASSUME IInv, NEW t \in Thread, NEW p \in PriorityChoices, SetPriority(t, p),
         UNCHANGED <<lockVars, panicked>>
  PROVE  IInv'
<1>1. p \in Priority
  BY PriorityAssumption
<1>2. /\ priority' \in [Thread -> Priority] /\ originalPri' \in [Thread -> Priority]
      /\ \A u \in Thread \ {t} : priority'[u] = priority[u]
  BY <1>1 DEF SetPriority, IInv, TypeOK, SchedTypeOK
<1>3. QED
  BY <1>2, PlainStep DEF SetPriority, Running

LEMMA ThreadCreatedKeeps ==
  ASSUME IInv, NEW t \in Thread, ThreadCreated(t), UNCHANGED <<lockVars, panicked>>
  PROVE  IInv'
<1>1. CASE BasePri[arg[t]] > priority[t]
  <2>1. Dispatched(status)
    BY <1>1, PlainYield DEF ThreadCreated
  <2>2. QED
    BY <2>1, SchedulerConsistent, PlainSwitch DEF ThreadCreated, Running, PC
<1>2. CASE ~(BasePri[arg[t]] > priority[t])
  BY <1>2, PlainStep DEF ThreadCreated, Running, IInv, TypeOK, SchedTypeOK
<1>3. QED
  BY <1>1, <1>2

LEMMA SetPriorityYieldKeeps ==
  ASSUME IInv, NEW t \in Thread, SetPriorityYield(t), UNCHANGED <<lockVars, panicked>>
  PROVE  IInv'
<1>1. Dispatched(status)
  BY PlainYield DEF SetPriorityYield
<1>2. QED
  BY <1>1, SchedulerConsistent, PlainSwitch DEF SetPriorityYield, Running, PC

LEMMA ThreadExitKeeps ==
  ASSUME IInv, NEW t \in Thread, ThreadExit(t), UNCHANGED <<lockVars, panicked>>
  PROVE  IInv'
<1> DEFINE st == [status EXCEPT ![t] = "dying"]
<1>1. Dispatched(st)
  BY ScheduleAway DEF ThreadExit, Running
<1>2. st \in [Thread -> Status] /\ \A u \in Thread \ {t} : st[u] = status[u]
  BY SchedulerConsistent DEF Status
<1>3. pc' = [pc EXCEPT ![t] = "run"]
  BY DEF ThreadExit, Running, IInv, TypeOK, SchedTypeOK
<1> HIDE DEF st
<1>4. QED
  BY <1>1, <1>2, <1>3, PlainSwitch DEF ThreadExit, Running, PC

LEMMA SleepKeeps ==
  ASSUME IInv, NEW t \in Thread, Sleep(t), UNCHANGED <<lockVars, panicked>>
  PROVE  IInv'
<1> DEFINE st == [status EXCEPT ![t] = "blocked"]
<1>1. Dispatched(st)
  BY ScheduleAway DEF Sleep, Block, Running
<1>2. st \in [Thread -> Status] /\ \A u \in Thread \ {t} : st[u] = status[u]
  BY SchedulerConsistent DEF Status
<1> HIDE DEF st
<1>3. QED
  BY <1>1, <1>2, PlainSwitch DEF Sleep, Running, PC

LEMMA WakeKeeps ==
  ASSUME IInv, NEW t \in Thread, Wake(t), UNCHANGED <<lockVars, panicked>>
  PROVE  IInv'
<1> DEFINE st == StatusWith(t)
<1>1. Dispatched(st)
  BY YieldAfterUnblock DEF Wake
<1>2. st \in [Thread -> Status] /\ \A u \in Thread \ {t} : st[u] = status[u]
  BY SchedulerConsistent DEF StatusWith, Status
<1> HIDE DEF st
<1>3. QED
  BY <1>1, <1>2, PlainSwitch DEF Wake, PC

(* thread_yield() and nothing else.                                         *)
LEMMA YieldKeeps ==
  ASSUME IInv, Yield, UNCHANGED <<priority, originalPri, pc, arg, lockVars, panicked>>
  PROVE  IInv'
<1>1. Dispatched(status)
  BY PlainYield
<1>2. UNCHANGED <<priority, originalPri, pc, arg>>
  OBVIOUS
<1>3. \A u \in Thread : (status'[u] = "blocked") <=> (status[u] = "blocked")
  BY <1>1 DEF Dispatched
<1>4. TypeOK' /\ ArgInv'
  BY <1>1, <1>2 DEF IInv, ArgInv, TypeOK, SchedTypeOK, Dispatched, Queued, lockVars
<1>5. \A u \in Thread, l \in Lock : (Owns(u, l)' <=> Owns(u, l)) /\ (WaitsFor(u, l)' <=> WaitsFor(u, l))
  BY <1>2, <1>3 DEF Owns, WaitsFor, lockVars
<1>6. OneListPerThread' /\ MutualExclusion'
  BY <1>1, <1>5, SameLists, SameOwners DEF lockVars
<1>7. NoLostWakeup' /\ ReadyListSorted'
  BY <1>1, <1>2, <1>3, SameWakeups DEF lockVars, Dispatched, ReadyListSorted
<1>8. QED
  BY <1>4, <1>6, <1>7 DEF IInv

LEMMA PreemptKeeps ==
  ASSUME IInv, Preempt, UNCHANGED <<lockVars, panicked>>
  PROVE  IInv'
BY YieldKeeps DEF Preempt

LEMMA SchedulerStepKeeps ==
  ASSUME IInv, SchedulerStep
  PROVE  IInv'
BY ThreadCreateKeeps, SetPriorityKeeps, ThreadCreatedKeeps, SetPriorityYieldKeeps,
   ThreadExitKeeps, SleepKeeps, WakeKeeps, PreemptKeeps DEF SchedulerStep

(***************************************************************************)
(* The locks' actions                                                       *)
(***************************************************************************)

(* What the invariant says of a lock whose semaphore is up, and down.       *)
LEMMA SemaphoreCountsOwners ==
  ASSUME IInv, NEW l \in Lock
  PROVE  /\ value[l] \in {0, 1}
         /\ value[l] = 1 => \A t \in Thread : ~Owns(t, l)
         /\ \A t \in Thread : Owns(t, l) =>
              /\ value[l] = 0
              /\ \A u \in Thread : Owns(u, l) => u = t
BY DEF IInv, MutualExclusion

(* A thread that takes a free lock becomes its one owner.                   *)
LEMMA TakingKeepsExclusion ==
  ASSUME IInv, NEW t \in Thread, NEW l \in Lock, value[l] # 0,
         value' = [value EXCEPT ![l] = @ - 1],
         \A u \in Thread, m \in Lock : Owns(u, m)' <=> (Owns(u, m) \/ (u = t /\ m = l))
  PROVE  MutualExclusion'
<1>1. value[l] = 1 /\ \A u \in Thread : ~Owns(u, l)
  BY SemaphoreCountsOwners
<1>2. /\ value'[l] = 0
      /\ \A m \in Lock \ {l} : value'[m] = value[m]
  BY <1>1 DEF IInv, TypeOK
<1> SUFFICES ASSUME NEW m \in Lock
             PROVE  /\ \A u, v \in Thread : Owns(u, m)' /\ Owns(v, m)' => u = v
                    /\ value'[m] = IF \E u \in Thread : Owns(u, m)' THEN 0 ELSE 1
  BY DEF MutualExclusion
<1>3. CASE m = l
  BY <1>1, <1>2, <1>3
<1>4. CASE m # l
  BY <1>2, <1>4 DEF IInv, MutualExclusion
<1>5. QED
  BY <1>3, <1>4

LEMMA BeforeGettingInLineKeeps ==
  ASSUME IInv, NEW t \in Thread, NEW l \in Lock, BeforeGettingInLine(t, l)
  PROVE  IInv'
<1> DEFINE p == priority[t]
           raised == [u \in Thread |-> IF u \in Donees(l, p) THEN p ELSE priority[u]]
<1>1. /\ running = t /\ pc[t] = "run"
      /\ blockedBy' = [blockedBy EXCEPT ![t] = l]
      /\ pc' = [pc EXCEPT ![t] = "down"] /\ arg' = [arg EXCEPT ![t] = l]
      /\ UNCHANGED <<running, status, originalPri, value, waiters, holder, locksHeld>>
  BY DEF BeforeGettingInLine, Running
<1>2. \/ /\ lockMax' = [lockMax EXCEPT ![l] = p] /\ panicked' \in BOOLEAN
         /\ priority' = raised
         /\ readyList' = IF SortsReadyList(l, p) THEN ListSort(readyList, raised)
                                                 ELSE readyList
      \/ UNCHANGED <<lockMax, panicked, priority, readyList>>
  BY DEF BeforeGettingInLine
<1>3. /\ p \in Priority /\ raised \in [Thread -> Priority]
  BY SchedulerConsistent
<1>4. priority' \in [Thread -> Priority] /\ lockMax' \in [Lock -> Priority] /\ panicked' \in BOOLEAN
  BY <1>2, <1>3 DEF IInv, TypeOK, SchedTypeOK
<1>5. /\ pc' \in [Thread -> PC] /\ arg' \in [Thread -> Thread \cup Lock \cup {None}]
      /\ pc'[t] = "down" /\ arg'[t] = l
      /\ \A u \in Thread \ {t} : pc'[u] = pc[u] /\ arg'[u] = arg[u]
      /\ blockedBy' \in [Thread -> Lock \cup {None}]
  BY <1>1 DEF IInv, TypeOK, SchedTypeOK, PC
<1>6. /\ readyList' \in Seq(Thread) /\ IsInjective(readyList')
      /\ ToSet(readyList') = ToSet(readyList)
      /\ IsDescending(readyList', priority')
  <2>1. readyList \in Seq(Thread) /\ IsInjective(readyList) /\ IsDescending(readyList, priority)
    BY SchedulerConsistent DEF Queued, IInv, ReadyListSorted
  <2>2. CASE UNCHANGED <<lockMax, panicked, priority, readyList>>
    BY <2>1, <2>2
  <2>3. CASE priority' = raised /\ readyList' = ListSort(readyList, raised)
    <3>1. raised \in [Thread -> Int]
      BY <1>3, PriorityIsInt
    <3> HIDE DEF raised
    <3>2. QED
      BY <2>1, <2>3, <3>1, ListSortSorts
  <2>4. CASE priority' = raised /\ readyList' = readyList /\ ~SortsReadyList(l, p)
    <3>1. \A u \in Thread : status[u] = "ready" => raised[u] = priority[u]
      BY <2>4 DEF SortsReadyList
    <3>2. \A i \in 1..Len(readyList) : readyList[i] \in Thread /\ status[readyList[i]] = "ready"
      BY <2>1, SchedulerConsistent DEF Queued, ToSet
    <3>3. QED
      BY <2>1, <2>4, <3>1, <3>2 DEF IsDescending
  <2>5. QED
    BY <1>2, <2>2, <2>3, <2>4
<1>7. TypeOK'
  BY <1>1, <1>4, <1>5, <1>6 DEF IInv, TypeOK, SchedTypeOK
<1>8. ArgInv'
  BY <1>1, <1>5 DEF IInv, ArgInv
<1>9. \A u \in Thread, m \in Lock : (Owns(u, m)' <=> Owns(u, m)) /\ (WaitsFor(u, m)' <=> WaitsFor(u, m))
  BY <1>1, <1>5 DEF Owns, WaitsFor
<1>10. OneListPerThread'
  BY <1>1, <1>6, <1>9 DEF IInv, OneListPerThread
<1>11. MutualExclusion'
  BY <1>1, <1>9, SameOwners
<1>12. NoLostWakeup'
  BY <1>1, <1>5, SameWakeups
<1>13. ReadyListSorted'
  BY <1>6 DEF ReadyListSorted
<1>14. QED
  BY <1>7, <1>8, <1>10, <1>11, <1>12, <1>13 DEF IInv

(* sema_down() that finds the semaphore up.                                 *)
LEMMA SemaDownTakesKeeps ==
  ASSUME IInv, NEW t \in Thread, SemaDown(t), ~MustWait(t, arg[t])
  PROVE  IInv'
<1> DEFINE l == arg[t]
<1>1. /\ running = t /\ pc[t] \in {"down", "waiting"} /\ l \in Lock /\ value[l] # 0
      /\ value' = [value EXCEPT ![l] = @ - 1] /\ pc' = [pc EXCEPT ![t] = "got"]
      /\ UNCHANGED <<running, status, readyList, waiters, priority, originalPri, arg, holder,
                     lockMax, locksHeld, blockedBy, panicked>>
  BY DEF SemaDown, MustWait, IInv, ArgInv
<1>2. /\ pc' \in [Thread -> PC] /\ pc'[t] = "got"
      /\ \A u \in Thread \ {t} : pc'[u] = pc[u]
  BY <1>1 DEF IInv, TypeOK, SchedTypeOK, PC
<1>3. /\ value[l] = 1 /\ \A u \in Thread : ~Owns(u, l)
      /\ value' \in [Lock -> Nat] /\ value'[l] = 0
      /\ \A m \in Lock \ {l} : value'[m] = value[m]
  BY <1>1, SemaphoreCountsOwners DEF IInv, TypeOK
<1>4. TypeOK'
  BY <1>1, <1>2, <1>3 DEF IInv, TypeOK, SchedTypeOK
<1>5. ArgInv'
  BY <1>1, <1>2, <1>3 DEF IInv, ArgInv, Owns
<1>6. \A u \in Thread, m \in Lock : Owns(u, m)' <=> (Owns(u, m) \/ (u = t /\ m = l))
  BY <1>1, <1>2 DEF Owns
<1>7. MutualExclusion'
  BY <1>1, <1>6, TakingKeepsExclusion
<1>8. \A u \in Thread, m \in Lock : WaitsFor(u, m)' <=> WaitsFor(u, m)
  BY <1>1, <1>2, SchedulerConsistent DEF WaitsFor
<1>9. OneListPerThread'
  BY <1>1, <1>8 DEF IInv, OneListPerThread
<1>10. NoLostWakeup'
  <2> SUFFICES ASSUME NEW m \in Lock, value'[m] > 0, waiters'[m] # <<>>
               PROVE  \E u \in Thread : pc'[u] = "waiting" /\ arg'[u] = m /\ status'[u] # "blocked"
    BY DEF NoLostWakeup
  <2>1. m # l /\ value[m] > 0 /\ waiters[m] # <<>>
    BY <1>1, <1>3
  <2>2. PICK u \in Thread : pc[u] = "waiting" /\ arg[u] = m /\ status[u] # "blocked"
    BY <2>1 DEF IInv, NoLostWakeup
  <2>3. QED
    BY <1>1, <1>2, <2>1, <2>2
<1>11. ReadyListSorted'
  BY <1>1 DEF IInv, ReadyListSorted
<1>12. QED
  BY <1>4, <1>5, <1>7, <1>9, <1>10, <1>11 DEF IInv

(* sema_down() that finds it down: the thread gets in line and blocks.      *)
LEMMA SemaDownWaitsKeeps ==
  ASSUME IInv, NEW t \in Thread, SemaDown(t), MustWait(t, arg[t])
  PROVE  IInv'
<1> DEFINE l == arg[t]
           st == [status EXCEPT ![t] = "blocked"]
<1>1. /\ running = t /\ pc[t] \in {"down", "waiting"} /\ l \in Lock /\ value[l] = 0
      /\ waiters' = [waiters EXCEPT ![l] = InsertDescending(@, t, priority)]
      /\ pc' = [pc EXCEPT ![t] = "waiting"] /\ Schedule(readyList, st)
      /\ UNCHANGED <<value, priority, originalPri, arg, holder,
                     lockMax, locksHeld, blockedBy, panicked>>
  BY DEF SemaDown, MustWait, Block, IInv, ArgInv
<1>2. /\ pc' \in [Thread -> PC] /\ pc'[t] = "waiting"
      /\ \A u \in Thread \ {t} : pc'[u] = pc[u]
  BY <1>1 DEF IInv, TypeOK, SchedTypeOK, PC
<1>3. Dispatched(st)
  BY <1>1, ScheduleAway
<1>4. \A u \in Thread : (status'[u] = "blocked") <=> (status[u] = "blocked" \/ u = t)
  BY <1>3, SchedulerConsistent DEF Dispatched
<1>5. status[t] = "running"
  BY <1>1, SchedulerConsistent
<1>6. /\ waiters[l] \in Seq(Thread) /\ IsInjective(waiters[l])
      /\ ToSet(waiters[l]) = {u \in Thread : WaitsFor(u, l)}
      /\ t \notin ToSet(waiters[l])
  BY <1>1, <1>5 DEF IInv, TypeOK, OneListPerThread, WaitsFor
<1>7. LET w == InsertDescending(waiters[l], t, priority)
      IN  w \in Seq(Thread) /\ IsInjective(w) /\ ToSet(w) = ToSet(waiters[l]) \cup {t}
  <2>1. priority \in [Thread -> Int]
    BY SchedulerConsistent, PriorityIsInt
  <2> QED
    BY <1>6, <2>1, InsertDescendingCorrect
<1>8. /\ waiters' \in [Lock -> Seq(Thread)]
      /\ IsInjective(waiters'[l]) /\ ToSet(waiters'[l]) = ToSet(waiters[l]) \cup {t}
      /\ \A m \in Lock \ {l} : waiters'[m] = waiters[m]
  BY <1>1, <1>7 DEF IInv, TypeOK
<1> HIDE DEF st
<1>9. TypeOK'
  BY <1>1, <1>2, <1>3, <1>8 DEF IInv, TypeOK, SchedTypeOK, Dispatched, Queued
<1>10. ArgInv'
  BY <1>1, <1>2 DEF IInv, ArgInv
<1>11. \A u \in Thread, m \in Lock : WaitsFor(u, m)' <=> (WaitsFor(u, m) \/ (u = t /\ m = l))
  BY <1>1, <1>2, <1>4, <1>5 DEF WaitsFor
<1>12. OneListPerThread'
  <2>1. \A m \in Lock : IsInjective(waiters'[m]) /\ ToSet(waiters'[m]) = {u \in Thread : WaitsFor(u, m)'}
    <3> SUFFICES ASSUME NEW m \in Lock
                 PROVE  IsInjective(waiters'[m]) /\ ToSet(waiters'[m]) = {u \in Thread : WaitsFor(u, m)'}
      OBVIOUS
    <3>1. CASE m = l
      BY <1>6, <1>8, <1>11, <3>1
    <3>2. CASE m # l
      BY <1>8, <1>11, <3>2 DEF IInv, OneListPerThread
    <3>3. QED
      BY <3>1, <3>2
  <2>2. QED
    BY <1>3, <2>1 DEF OneListPerThread, Dispatched, Queued
<1>13. MutualExclusion'
  BY <1>1, <1>2, SameOwners DEF Owns
<1>14. NoLostWakeup'
  <2> SUFFICES ASSUME NEW m \in Lock, value'[m] > 0, waiters'[m] # <<>>
               PROVE  \E u \in Thread : pc'[u] = "waiting" /\ arg'[u] = m /\ status'[u] # "blocked"
    BY DEF NoLostWakeup
  <2>1. m # l /\ value[m] > 0 /\ waiters[m] # <<>>
    BY <1>1, <1>8
  <2>2. PICK u \in Thread : pc[u] = "waiting" /\ arg[u] = m /\ status[u] # "blocked"
    BY <2>1 DEF IInv, NoLostWakeup
  <2>3. QED
    BY <1>1, <1>2, <1>4, <2>1, <2>2
<1>15. ReadyListSorted'
  BY <1>1, <1>3 DEF ReadyListSorted, Dispatched
<1>16. QED
  BY <1>9, <1>10, <1>12, <1>13, <1>14, <1>15 DEF IInv

(* upon_getting_the_lock()                                                  *)
LEMMA UponGettingTheLockKeeps ==
  ASSUME IInv, NEW t \in Thread, UponGettingTheLock(t)
  PROVE  IInv'
<1> DEFINE l == arg[t]
<1>1. /\ running = t /\ pc[t] = "got" /\ l \in Lock /\ l \notin locksHeld[t]
      /\ blockedBy' = [blockedBy EXCEPT ![t] = None]
      /\ locksHeld' = [locksHeld EXCEPT ![t] = @ \cup {l}]
      /\ lockMax' = [lockMax EXCEPT ![l] = MaxWaiterPriority(l)]
      /\ pc' = [pc EXCEPT ![t] = "sethold"]
      /\ UNCHANGED <<running, status, readyList, priority, originalPri, arg,
                     value, waiters, holder, panicked>>
  BY DEF UponGettingTheLock, Running, IInv, ArgInv
<1>2. MaxWaiterPriority(l) \in Priority
  <2> DEFINE T == {0} \cup {priority[u] : u \in ToSet(waiters[l])}
  <2>1. \A u \in ToSet(waiters[l]) : priority[u] \in Priority
    BY <1>1, SchedulerConsistent DEF IInv, OneListPerThread
  <2>2. 0 \in Priority
    BY PriorityAssumption DEF Priority
  <2>3. T \in SUBSET Priority /\ T # {}
    BY <2>1, <2>2
  <2>4. QED
    BY <2>3, PriorityMax DEF MaxWaiterPriority
<1>3. /\ pc' \in [Thread -> PC] /\ pc'[t] = "sethold"
      /\ \A u \in Thread \ {t} : pc'[u] = pc[u]
  BY <1>1 DEF IInv, TypeOK, SchedTypeOK, PC
<1>4. /\ locksHeld' \in [Thread -> SUBSET Lock] /\ locksHeld'[t] = locksHeld[t] \cup {l}
      /\ \A u \in Thread \ {t} : locksHeld'[u] = locksHeld[u]
  BY <1>1 DEF IInv, TypeOK
<1>5. TypeOK'
  BY <1>1, <1>2, <1>3, <1>4 DEF IInv, TypeOK, SchedTypeOK
<1>6. ArgInv'
  BY <1>1, <1>3, <1>4 DEF IInv, ArgInv
<1>7. \A u \in Thread, m \in Lock : Owns(u, m)' <=> Owns(u, m)
  BY <1>1, <1>3, <1>4 DEF Owns
<1>8. \A u \in Thread, m \in Lock : WaitsFor(u, m)' <=> WaitsFor(u, m)
  BY <1>1, <1>3 DEF WaitsFor
<1>9. OneListPerThread' /\ MutualExclusion'
  BY <1>1, <1>7, <1>8, SameOwners DEF IInv, OneListPerThread
<1>10. NoLostWakeup' /\ ReadyListSorted'
  BY <1>1, <1>3, SameWakeups DEF IInv, ReadyListSorted
<1>11. QED
  BY <1>5, <1>6, <1>9, <1>10 DEF IInv

(* The end of lock_acquire() and of lock_try_acquire(): the holder is       *)
(* written by a thread that owns the lock already.                          *)
LEMMA HolderSetKeeps ==
  ASSUME IInv, NEW t \in Thread, SetHolder(t) \/ TryAcquired(t)
  PROVE  IInv'
<1> DEFINE l == arg[t]
<1>1. /\ running = t /\ pc[t] \in {"sethold", "tried"} /\ l \in Lock
      /\ holder' = [holder EXCEPT ![l] = t]
      /\ locksHeld' = [locksHeld EXCEPT ![t] = @ \cup {l}]
      /\ pc' = [pc EXCEPT ![t] = "run"] /\ arg' = [arg EXCEPT ![t] = None]
      /\ UNCHANGED <<running, status, readyList, priority, originalPri, value,
                     waiters, lockMax, blockedBy, panicked>>
  <2>1. CASE SetHolder(t)
    <3>1. pc[t] = "sethold" /\ l \in Lock /\ l \in locksHeld[t]
      BY <2>1 DEF SetHolder, Running, IInv, ArgInv
    <3>2. locksHeld' = [locksHeld EXCEPT ![t] = @ \cup {l}]
      BY <2>1, <3>1 DEF SetHolder, IInv, TypeOK
    <3>3. QED
      BY <2>1, <3>1, <3>2 DEF SetHolder, Running
  <2>2. CASE TryAcquired(t)
    BY <2>2 DEF TryAcquired, Running, IInv, ArgInv
  <2>3. QED
    BY <2>1, <2>2
<1>2. pc[t] = "sethold" => l \in locksHeld[t]
  BY DEF IInv, ArgInv
<1>3. /\ pc' \in [Thread -> PC] /\ pc'[t] = "run"
      /\ arg' \in [Thread -> Thread \cup Lock \cup {None}] /\ arg'[t] = None
      /\ \A u \in Thread \ {t} : pc'[u] = pc[u] /\ arg'[u] = arg[u]
  BY <1>1 DEF IInv, TypeOK, SchedTypeOK, PC
<1>4. /\ locksHeld' \in [Thread -> SUBSET Lock] /\ locksHeld'[t] = locksHeld[t] \cup {l}
      /\ \A u \in Thread \ {t} : locksHeld'[u] = locksHeld[u]
      /\ holder' \in [Lock -> Thread \cup {None}] /\ holder'[l] = t
      /\ \A m \in Lock \ {l} : holder'[m] = holder[m]
  BY <1>1 DEF IInv, TypeOK
<1>5. TypeOK'
  BY <1>1, <1>3, <1>4 DEF IInv, TypeOK, SchedTypeOK
<1>6. ArgInv'
  BY <1>1, <1>3, <1>4 DEF IInv, ArgInv
<1>7. \A u \in Thread, m \in Lock : Owns(u, m)' <=> Owns(u, m)
  BY <1>1, <1>2, <1>3, <1>4 DEF Owns
<1>8. \A u \in Thread, m \in Lock : WaitsFor(u, m)' <=> WaitsFor(u, m)
  BY <1>1, <1>3 DEF WaitsFor
<1>9. OneListPerThread' /\ MutualExclusion'
  BY <1>1, <1>7, <1>8, SameOwners DEF IInv, OneListPerThread
<1>10. NoLostWakeup' /\ ReadyListSorted'
  BY <1>1, <1>3, SameWakeups DEF IInv, ReadyListSorted
<1>11. QED
  BY <1>5, <1>6, <1>9, <1>10 DEF IInv

(* A successful sema_try_down()                                             *)
LEMMA SemaTryDownKeeps ==
  ASSUME IInv, NEW t \in Thread, NEW l \in Lock, SemaTryDown(t, l)
  PROVE  IInv'
<1>1. /\ running = t /\ pc[t] = "run" /\ l \notin locksHeld[t] /\ value[l] # 0
      /\ value' = [value EXCEPT ![l] = @ - 1]
      /\ pc' = [pc EXCEPT ![t] = "tried"] /\ arg' = [arg EXCEPT ![t] = l]
      /\ UNCHANGED <<running, status, readyList, priority, originalPri, waiters,
                     holder, lockMax, locksHeld, blockedBy, panicked>>
  BY DEF SemaTryDown, Running
<1>2. /\ pc' \in [Thread -> PC] /\ pc'[t] = "tried"
      /\ arg' \in [Thread -> Thread \cup Lock \cup {None}] /\ arg'[t] = l
      /\ \A u \in Thread \ {t} : pc'[u] = pc[u] /\ arg'[u] = arg[u]
  BY <1>1 DEF IInv, TypeOK, SchedTypeOK, PC
<1>3. /\ value[l] = 1 /\ value' \in [Lock -> Nat] /\ value'[l] = 0
      /\ \A m \in Lock \ {l} : value'[m] = value[m]
  BY <1>1, SemaphoreCountsOwners DEF IInv, TypeOK
<1>4. TypeOK'
  BY <1>1, <1>2, <1>3 DEF IInv, TypeOK, SchedTypeOK
<1>5. ArgInv'
  BY <1>1, <1>2 DEF IInv, ArgInv
<1>6. \A u \in Thread, m \in Lock : Owns(u, m)' <=> (Owns(u, m) \/ (u = t /\ m = l))
  BY <1>1, <1>2 DEF Owns
<1>7. MutualExclusion'
  BY <1>1, <1>6, TakingKeepsExclusion
<1>8. \A u \in Thread, m \in Lock : WaitsFor(u, m)' <=> WaitsFor(u, m)
  BY <1>1, <1>2, SchedulerConsistent DEF WaitsFor
<1>9. OneListPerThread' /\ ReadyListSorted'
  BY <1>1, <1>8 DEF IInv, OneListPerThread, ReadyListSorted
<1>10. NoLostWakeup'
  <2> SUFFICES ASSUME NEW m \in Lock, value'[m] > 0, waiters'[m] # <<>>
               PROVE  \E u \in Thread : pc'[u] = "waiting" /\ arg'[u] = m /\ status'[u] # "blocked"
    BY DEF NoLostWakeup
  <2>1. m # l /\ value[m] > 0 /\ waiters[m] # <<>>
    BY <1>1, <1>3
  <2>2. PICK u \in Thread : pc[u] = "waiting" /\ arg[u] = m /\ status[u] # "blocked"
    BY <2>1 DEF IInv, NoLostWakeup
  <2>3. QED
    BY <1>1, <1>2, <2>1, <2>2
<1>11. QED
  BY <1>4, <1>5, <1>7, <1>9, <1>10 DEF IInv

(* The first part of lock_release()                                         *)
LEMMA LockReleaseKeeps ==
  ASSUME IInv, NEW t \in Thread, NEW l \in Lock, LockRelease(t, l)
  PROVE  IInv'
<1>1. /\ running = t /\ pc[t] = "run" /\ holder[l] = t /\ l \in locksHeld[t]
      /\ holder' = [holder EXCEPT ![l] = None]
      /\ locksHeld' = [locksHeld EXCEPT ![t] = @ \ {l}]
      /\ priority' = [priority EXCEPT ![t] = PriorityWith(t, locksHeld[t] \ {l})]
      /\ pc' = [pc EXCEPT ![t] = "up"] /\ arg' = [arg EXCEPT ![t] = l]
      /\ UNCHANGED <<running, status, readyList, originalPri, value, waiters,
                     lockMax, blockedBy, panicked>>
  BY DEF LockRelease, Running, IInv, ArgInv
<1>2. PriorityWith(t, locksHeld[t] \ {l}) \in Priority
  <2> DEFINE T == {originalPri[t]} \cup {lockMax[m] : m \in locksHeld[t] \ {l}}
  <2>1. T \in SUBSET Priority /\ T # {}
    BY DEF IInv, TypeOK, SchedTypeOK
  <2>2. QED
    BY <2>1, PriorityMax DEF PriorityWith
<1>3. /\ pc' \in [Thread -> PC] /\ pc'[t] = "up"
      /\ arg' \in [Thread -> Thread \cup Lock \cup {None}] /\ arg'[t] = l
      /\ \A u \in Thread \ {t} : pc'[u] = pc[u] /\ arg'[u] = arg[u]
      /\ priority' \in [Thread -> Priority]
      /\ \A u \in Thread \ {t} : priority'[u] = priority[u]
  BY <1>1, <1>2 DEF IInv, TypeOK, SchedTypeOK, PC
<1>4. /\ locksHeld' \in [Thread -> SUBSET Lock] /\ locksHeld'[t] = locksHeld[t] \ {l}
      /\ \A u \in Thread \ {t} : locksHeld'[u] = locksHeld[u]
      /\ holder' \in [Lock -> Thread \cup {None}] /\ holder'[l] = None
      /\ \A m \in Lock \ {l} : holder'[m] = holder[m]
  BY <1>1 DEF IInv, TypeOK
<1>5. TypeOK'
  BY <1>1, <1>3, <1>4 DEF IInv, TypeOK, SchedTypeOK
<1>6. ArgInv'
  BY <1>1, <1>3, <1>4, ThreadAssumption DEF IInv, ArgInv
<1>7. \A u \in Thread, m \in Lock : Owns(u, m)' <=> Owns(u, m)
  BY <1>1, <1>3, <1>4 DEF Owns
<1>8. \A u \in Thread, m \in Lock : WaitsFor(u, m)' <=> WaitsFor(u, m)
  BY <1>1, <1>3 DEF WaitsFor
<1>9. OneListPerThread' /\ MutualExclusion'
  BY <1>1, <1>7, <1>8, SameOwners DEF IInv, OneListPerThread
<1>10. NoLostWakeup'
  BY <1>1, <1>3, SameWakeups
<1>11. ReadyListSorted'
  <2>1. \A i \in 1..Len(readyList) : readyList[i] \in Thread \ {t}
    BY <1>1, SchedulerConsistent DEF Queued, ToSet
  <2>2. QED
    BY <1>1, <1>3, <2>1 DEF IInv, ReadyListSorted, IsDescending
<1>12. QED
  BY <1>5, <1>6, <1>9, <1>10, <1>11 DEF IInv

(* An empty list has no elements, and only an empty one.                    *)
LEMMA EmptyToSet ==
  ASSUME NEW S, NEW q \in Seq(S)
  PROVE  ToSet(q) = {} <=> q = <<>>
BY DEF ToSet

(* What sema_up() of lock l does to its waiters: of those who were blocked   *)
(* the woken are not, and the woken leave the line.                         *)
HandsOver(l, st, woken) ==
  /\ Dispatched(st)
  /\ \A u \in Thread : (st[u] = "blocked") <=> (status[u] = "blocked" /\ u \notin woken)
  /\ \A u \in Thread : st[u] = "unborn" => status[u] = "unborn"
  /\ \A u \in woken : WaitsFor(u, l)
  /\ woken = {} => waiters[l] = <<>>
  /\ waiters'[l] \in Seq(Thread) /\ IsInjective(waiters'[l])
  /\ ToSet(waiters'[l]) = ToSet(waiters[l]) \ woken
  /\ waiters' \in [Lock -> Seq(Thread)]
  /\ \A m \in Lock \ {l} : waiters'[m] = waiters[m]

(* The front of the sorted waiters is the one thread that stops waiting.    *)
LEMMA SemaUpHandsOver ==
  ASSUME IInv, NEW t \in Thread, SemaUp(t), arg[t] \in Lock
  PROVE  \E st \in [Thread -> Status], woken \in SUBSET Thread : HandsOver(arg[t], st, woken)
<1> DEFINE l == arg[t]
           sorted == ListSort(waiters[l], priority)
           w == Head(sorted)
<1>1. /\ waiters[l] \in Seq(Thread) /\ IsInjective(waiters[l])
      /\ ToSet(waiters[l]) = {u \in Thread : WaitsFor(u, l)}
  BY DEF IInv, TypeOK, OneListPerThread
<1>2. CASE waiters[l] = <<>>
  <2>1. Yield /\ waiters' = waiters
    BY <1>2 DEF SemaUp
  <2>2. Dispatched(status)
    BY <2>1, PlainYield
  <2>3. status \in [Thread -> Status]
    BY SchedulerConsistent
  <2>4. WITNESS status \in [Thread -> Status]
  <2>5. WITNESS {} \in SUBSET Thread
  <2>6. QED
    BY <1>1, <1>2, <2>1, <2>2 DEF HandsOver, IInv, TypeOK
<1>3. CASE waiters[l] # <<>>
  <2>1. /\ waiters' = [waiters EXCEPT ![l] = Tail(sorted)]
        /\ YieldWith(QueueWith(w), StatusWith(w))
    BY <1>3 DEF SemaUp, WaitersAfterPop
  <2>2. priority \in [Thread -> Int]
    BY SchedulerConsistent, PriorityIsInt
  <2>3. /\ sorted \in Seq(Thread) /\ IsInjective(sorted)
        /\ Len(sorted) = Len(waiters[l])
        /\ ToSet(sorted) = ToSet(waiters[l])
    BY <1>1, <2>2, ListSortSorts
  <2> HIDE DEF sorted
  <2>4. sorted # <<>>
    BY <1>1, <1>3, <2>3, EmptySeq
  <2>5. /\ w \in Thread /\ w \in ToSet(sorted)
        /\ Tail(sorted) \in Seq(Thread) /\ IsInjective(Tail(sorted))
        /\ ToSet(sorted) = ToSet(Tail(sorted)) \cup {w} /\ w \notin ToSet(Tail(sorted))
    BY <2>3, <2>4, PopFrontCorrect
  <2> HIDE DEF w
  <2>6. WaitsFor(w, l) /\ status[w] = "blocked"
    BY <1>1, <2>3, <2>5 DEF WaitsFor
  <2>7. Dispatched(StatusWith(w))
    BY <2>1, <2>5, <2>6, YieldAfterUnblock
  <2>8. /\ StatusWith(w) \in [Thread -> Status]
        /\ \A u \in Thread : StatusWith(w)[u] = IF u = w THEN "ready" ELSE status[u]
    BY <2>5, SchedulerConsistent DEF StatusWith, Status
  <2>9. /\ waiters' \in [Lock -> Seq(Thread)] /\ waiters'[l] = Tail(sorted)
        /\ \A m \in Lock \ {l} : waiters'[m] = waiters[m]
    BY <2>1, <2>5 DEF IInv, TypeOK
  <2>10. ToSet(waiters'[l]) = ToSet(waiters[l]) \ {w}
    BY <2>3, <2>5, <2>9
  <2>11. {w} \in SUBSET Thread /\ {w} # {}
    BY <2>5
  <2> StatusWith(w) \in [Thread -> Status] /\ {w} \in SUBSET Thread
    BY <2>8, <2>11
  <2>12. WITNESS StatusWith(w) \in [Thread -> Status]
  <2>13. WITNESS {w} \in SUBSET Thread
  <2>14. QED
    BY <2>5, <2>6, <2>7, <2>8, <2>9, <2>10 DEF HandsOver
<1>4. QED
  BY <1>2, <1>3

(* sema_up(), the second part of lock_release()                             *)
LEMMA SemaUpKeeps ==
  ASSUME IInv, NEW t \in Thread, SemaUp(t)
  PROVE  IInv'
<1> DEFINE l == arg[t]
<1>1. /\ running = t /\ pc[t] = "up" /\ l \in Lock /\ l \notin locksHeld[t] /\ Owns(t, l)
      /\ value' = [value EXCEPT ![l] = @ + 1]
      /\ pc' = [pc EXCEPT ![t] = "run"] /\ arg' = [arg EXCEPT ![t] = None]
      /\ UNCHANGED <<priority, originalPri, holder, lockMax, locksHeld,
                     blockedBy, panicked>>
  BY DEF SemaUp, Running, IInv, ArgInv, Owns
<1>2. /\ pc' \in [Thread -> PC] /\ pc'[t] = "run"
      /\ arg' \in [Thread -> Thread \cup Lock \cup {None}] /\ arg'[t] = None
      /\ \A u \in Thread \ {t} : pc'[u] = pc[u] /\ arg'[u] = arg[u]
  BY <1>1 DEF IInv, TypeOK, SchedTypeOK, PC
<1>3. /\ value[l] = 0 /\ \A u \in Thread : Owns(u, l) => u = t
      /\ value' \in [Lock -> Nat] /\ value'[l] = 1
      /\ \A m \in Lock \ {l} : value'[m] = value[m]
  BY <1>1, SemaphoreCountsOwners DEF IInv, TypeOK
<1>4. /\ waiters[l] \in Seq(Thread) /\ IsInjective(waiters[l])
      /\ ToSet(waiters[l]) = {u \in Thread : WaitsFor(u, l)}
  BY <1>1 DEF IInv, TypeOK, OneListPerThread
<1>5. status[t] = "running"
  BY <1>1, SchedulerConsistent
<1>6. PICK st \in [Thread -> Status], woken \in SUBSET Thread : HandsOver(l, st, woken)
  BY <1>1, SemaUpHandsOver
<1>7. /\ Dispatched(st)
      /\ \A u \in Thread : (st[u] = "blocked") <=> (status[u] = "blocked" /\ u \notin woken)
      /\ \A u \in Thread : st[u] = "unborn" => status[u] = "unborn"
      /\ \A u \in woken : WaitsFor(u, l)
      /\ woken = {} => waiters[l] = <<>>
      /\ waiters'[l] \in Seq(Thread) /\ IsInjective(waiters'[l])
      /\ ToSet(waiters'[l]) = ToSet(waiters[l]) \ woken
      /\ waiters' \in [Lock -> Seq(Thread)]
      /\ \A m \in Lock \ {l} : waiters'[m] = waiters[m]
  BY <1>6 DEF HandsOver
<1> HIDE DEF l
<1>8. \A u \in Thread : (status'[u] = "blocked") <=> (status[u] = "blocked" /\ u \notin woken)
  BY <1>7 DEF Dispatched
<1>9. t \notin woken
  BY <1>5, <1>7 DEF WaitsFor
<1>10. TypeOK'
  BY <1>1, <1>2, <1>3, <1>7 DEF IInv, TypeOK, SchedTypeOK, Dispatched, Queued
<1>11. ArgInv'
  BY <1>1, <1>2 DEF IInv, ArgInv
<1>12. \A u \in Thread, m \in Lock :
         WaitsFor(u, m)' <=> (WaitsFor(u, m) /\ u \notin woken)
  BY <1>1, <1>2, <1>5, <1>8 DEF WaitsFor
<1>13. OneListPerThread'
  <2>1. ASSUME NEW m \in Lock
        PROVE  IsInjective(waiters'[m]) /\ ToSet(waiters'[m]) = {u \in Thread : WaitsFor(u, m)'}
    <3>1. CASE m = l
      BY <1>4, <1>7, <1>12, <3>1
    <3>2. CASE m # l
      <4>1. \A u \in woken : ~WaitsFor(u, m)
        BY <1>7, <3>2 DEF WaitsFor
      <4>2. \A u \in Thread : WaitsFor(u, m)' <=> WaitsFor(u, m)
        BY <1>12, <4>1
      <4>3. /\ waiters'[m] = waiters[m]
            /\ IsInjective(waiters[m]) /\ ToSet(waiters[m]) = {u \in Thread : WaitsFor(u, m)}
        BY <1>7, <3>2 DEF IInv, OneListPerThread
      <4>4. QED
        BY <4>2, <4>3
    <3>3. QED
      BY <3>1, <3>2
  <2>2. QED
    BY <1>7, <2>1 DEF OneListPerThread, Dispatched, Queued
<1>14. \A u \in Thread, m \in Lock : Owns(u, m)' <=> (Owns(u, m) /\ m # l)
  BY <1>1, <1>2, <1>3 DEF Owns, l
<1>15. MutualExclusion'
  <2> SUFFICES ASSUME NEW m \in Lock
               PROVE  /\ \A u, v \in Thread : Owns(u, m)' /\ Owns(v, m)' => u = v
                      /\ value'[m] = IF \E u \in Thread : Owns(u, m)' THEN 0 ELSE 1
    BY DEF MutualExclusion
  <2>1. CASE m = l
    BY <1>3, <1>14, <2>1
  <2>2. CASE m # l
    BY <1>3, <1>14, <2>2 DEF IInv, MutualExclusion
  <2>3. QED
    BY <2>1, <2>2
<1>16. NoLostWakeup'
  <2> SUFFICES ASSUME NEW m \in Lock, value'[m] > 0, waiters'[m] # <<>>
               PROVE  \E u \in Thread : pc'[u] = "waiting" /\ arg'[u] = m /\ status'[u] # "blocked"
    BY DEF NoLostWakeup
  <2>1. CASE m = l
    <3>1. waiters[l] # <<>>
      <4> SUFFICES ASSUME waiters[l] = <<>> PROVE FALSE
        OBVIOUS
      <4>1. ToSet(waiters[l]) = {}
        BY <1>4, EmptyToSet
      <4>2. ToSet(waiters'[l]) = {} /\ waiters'[l] \in Seq(Thread)
        BY <1>7, <4>1
      <4>3. QED
        BY <2>1, <4>2, EmptyToSet
    <3>2. PICK u \in woken : WaitsFor(u, l)
      BY <1>7, <3>1
    <3>3. QED
      BY <1>2, <1>8, <1>9, <2>1, <3>2 DEF WaitsFor
  <2>2. CASE m # l
    <3>1. PICK u \in Thread : pc[u] = "waiting" /\ arg[u] = m /\ status[u] # "blocked"
      BY <1>3, <1>7, <2>2 DEF IInv, NoLostWakeup
    <3>2. QED
      BY <1>1, <1>2, <1>8, <3>1
  <2>3. QED
    BY <2>1, <2>2
<1>17. ReadyListSorted'
  BY <1>1, <1>7 DEF ReadyListSorted, Dispatched
<1>18. QED
  BY <1>10, <1>11, <1>13, <1>15, <1>16, <1>17 DEF IInv

LEMMA LockStepKeeps ==
  ASSUME IInv, LockStep
  PROVE  IInv'
<1>1. CASE \E t \in Thread : SemaDown(t)
  BY <1>1, SemaDownTakesKeeps, SemaDownWaitsKeeps
<1>2. QED
  BY <1>1, BeforeGettingInLineKeeps, SemaTryDownKeeps, LockReleaseKeeps,
     UponGettingTheLockKeeps, HolderSetKeeps, SemaUpKeeps DEF LockStep

(***************************************************************************)
(* Invariance                                                               *)
(***************************************************************************)

LEMMA InitEstablishes ==
  ASSUME Init
  PROVE  IInv
<1>1. /\ running = Main /\ readyList = <<>> /\ Main \in Thread
      /\ \A t \in Thread : status[t] = IF t = Main THEN "running" ELSE "unborn"
      /\ \A t \in Thread : pc[t] = "run" /\ arg[t] = None /\ locksHeld[t] = {}
      /\ \A l \in Lock : value[l] = 1 /\ waiters[l] = <<>> /\ holder[l] = None
  BY ThreadAssumption DEF Init, SchedInit
<1>2. TypeOK
  <2>1. 0 \in Priority /\ BasePri \in [Thread -> Priority]
    BY PriorityAssumption DEF Priority
  <2>2. SchedTypeOK
    BY <1>1, <2>1 DEF Init, SchedInit, SchedTypeOK, Status, PC
  <2>3. <<>> \in Seq(Thread)
    OBVIOUS
  <2>4. /\ value \in [Lock -> Nat] /\ waiters \in [Lock -> Seq(Thread)]
        /\ holder \in [Lock -> Thread \cup {None}] /\ lockMax \in [Lock -> Priority]
    BY <2>1, <2>3 DEF Init
  <2>5. /\ locksHeld \in [Thread -> SUBSET Lock] /\ blockedBy \in [Thread -> Lock \cup {None}]
        /\ panicked \in BOOLEAN
    BY DEF Init
  <2>6. QED
    BY <2>2, <2>4, <2>5 DEF TypeOK
<1>3. ArgInv
  BY <1>1, ThreadAssumption DEF ArgInv
<1>4. ToSet(<<>>) = {} /\ IsInjective(<<>>)
  BY DEF ToSet, IsInjective
<1>5. OneListPerThread
  BY <1>1, <1>4 DEF OneListPerThread, WaitsFor
<1>6. MutualExclusion
  BY <1>1 DEF MutualExclusion, Owns
<1>7. NoLostWakeup /\ ReadyListSorted
  BY <1>1 DEF NoLostWakeup, ReadyListSorted, IsDescending
<1>8. QED
  BY <1>2, <1>3, <1>5, <1>6, <1>7 DEF IInv

LEMMA NextKeeps ==
  ASSUME IInv, [Next]_vars
  PROVE  IInv'
<1>1. CASE Next
  BY <1>1, SchedulerStepKeeps, LockStepKeeps DEF Next
<1>2. CASE UNCHANGED vars
  <2>1. UNCHANGED <<running, status, readyList, priority, originalPri, pc, arg, value, waiters,
                    holder, lockMax, locksHeld, blockedBy, panicked>>
    BY <1>2 DEF vars, schedVars, lockVars
  <2>2. TypeOK' /\ ArgInv'
    BY <2>1 DEF IInv, TypeOK, SchedTypeOK, ArgInv
  <2>3. OneListPerThread' /\ MutualExclusion' /\ NoLostWakeup' /\ ReadyListSorted'
    BY <2>1 DEF IInv, OneListPerThread, WaitsFor, MutualExclusion, Owns, NoLostWakeup,
                ReadyListSorted, IsDescending
  <2>4. QED
    BY <2>2, <2>3 DEF IInv
<1>3. QED
  BY <1>1, <1>2

(* The inductive invariant holds in every reachable state.                  *)
THEOREM Invariance == Spec => []IInv
<1>1. Init => IInv
  BY InitEstablishes
<1>2. IInv /\ [Next]_vars => IInv'
  BY NextKeeps
<1>3. QED
  BY <1>1, <1>2, PTL DEF Spec

(* Every variable keeps its type: in particular no donation or release      *)
(* computes a priority outside PRI_MIN..PRI_MAX, and no semaphore of a lock *)
(* goes below 0.                                                            *)
THEOREM TypeCorrect == Spec => []TypeOK
<1>1. IInv => TypeOK
  BY DEF IInv
<1>2. QED
  BY <1>1, Invariance, PTL

(* At most one owner per lock, and the semaphore counts owners, at every    *)
(* preemption point of lock_acquire, lock_try_acquire and lock_release.     *)
THEOREM LocksExclude == Spec => []MutualExclusion
<1>1. IInv => MutualExclusion
  BY DEF IInv
<1>2. QED
  BY <1>1, Invariance, PTL

(* No thread is ever on two lists, or on the list of another status: the    *)
(* shared list element is never inserted twice.                             *)
THEOREM ListsDisjoint == Spec => []OneListPerThread
<1>1. IInv => OneListPerThread
  BY DEF IInv
<1>2. QED
  BY <1>1, Invariance, PTL

(* A free lock with waiters always has a woken thread about to retry.       *)
THEOREM WakeupsKept == Spec => []NoLostWakeup
<1>1. IInv => NoLostWakeup
  BY DEF IInv
<1>2. QED
  BY <1>1, Invariance, PTL

(* Donations never leave the ready list out of priority order.              *)
THEOREM ReadyListStaysSorted == Spec => []ReadyListSorted
<1>1. IInv => ReadyListSorted
  BY DEF IInv
<1>2. QED
  BY <1>1, Invariance, PTL

(***************************************************************************)
(* The locks implement LockSpec                                             *)
(***************************************************************************)

(* What a step does to the owners.                                          *)
OwnersStay     == \A u \in Thread, m \in Lock : Owns(u, m)' <=> Owns(u, m)
Takes(t, l)    == /\ \A u \in Thread : ~Owns(u, l)
                  /\ \A u \in Thread, m \in Lock :
                       Owns(u, m)' <=> (Owns(u, m) \/ (u = t /\ m = l))
GivesUp(t, l)  == /\ Owns(t, l)
                  /\ \A u \in Thread, m \in Lock : Owns(u, m)' <=> (Owns(u, m) /\ m # l)

LEMMA SchedulerKeepsOwners ==
  ASSUME IInv, SchedulerStep
  PROVE  OwnersStay
<1>1. pc \in [Thread -> PC] /\ arg \in [Thread -> Thread \cup Lock \cup {None}]
      /\ locksHeld' = locksHeld
  BY DEF IInv, TypeOK, SchedTypeOK, SchedulerStep, lockVars
<1>2. \A u \in Thread : \/ pc'[u] = pc[u] /\ arg'[u] = arg[u]
                        \/ {pc[u], pc'[u]} \subseteq {"run", "created", "yield", "asleep"}
  BY <1>1 DEF SchedulerStep, ThreadCreate, SetPriority, ThreadCreated, SetPriorityYield,
              ThreadExit, Sleep, Wake, Preempt, Running
<1>3. QED
  BY <1>1, <1>2 DEF OwnersStay, Owns

LEMMA LocksChangeOwners ==
  ASSUME IInv, LockStep
  PROVE  OwnersStay \/ \E t \in Thread, l \in Lock : Takes(t, l) \/ GivesUp(t, l)
<1>1. /\ pc \in [Thread -> PC] /\ arg \in [Thread -> Thread \cup Lock \cup {None}]
      /\ locksHeld \in [Thread -> SUBSET Lock]
  BY DEF IInv, TypeOK, SchedTypeOK
<1>2. ASSUME NEW t \in Thread, NEW l \in Lock, BeforeGettingInLine(t, l)
      PROVE  OwnersStay
  BY <1>1, <1>2 DEF BeforeGettingInLine, Running, OwnersStay, Owns
<1>3. ASSUME NEW t \in Thread, NEW l \in Lock, SemaTryDown(t, l)
      PROVE  Takes(t, l)
  <2>1. \A u \in Thread : ~Owns(u, l)
    BY <1>3, SemaphoreCountsOwners DEF SemaTryDown
  <2>2. QED
    BY <1>1, <1>3, <2>1 DEF SemaTryDown, Running, Takes, Owns
<1>4. ASSUME NEW t \in Thread, NEW l \in Lock, LockRelease(t, l)
      PROVE  OwnersStay
  BY <1>1, <1>4 DEF LockRelease, Running, OwnersStay, Owns, IInv, ArgInv
<1>5. ASSUME NEW t \in Thread, SemaDown(t)
      PROVE  OwnersStay \/ (Takes(t, arg[t]) /\ arg[t] \in Lock)
  <2>1. arg[t] \in Lock /\ pc[t] \in {"down", "waiting"}
    BY <1>5 DEF SemaDown, IInv, ArgInv
  <2>2. CASE MustWait(t, arg[t])
    BY <1>1, <1>5, <2>1, <2>2 DEF SemaDown, OwnersStay, Owns
  <2>3. CASE ~MustWait(t, arg[t])
    <3>1. \A u \in Thread : ~Owns(u, arg[t])
      BY <2>1, <2>3, SemaphoreCountsOwners DEF MustWait
    <3>2. QED
      BY <1>1, <1>5, <2>1, <2>3, <3>1 DEF SemaDown, Takes, Owns
  <2>4. QED
    BY <2>2, <2>3
<1>6. ASSUME NEW t \in Thread, UponGettingTheLock(t)
      PROVE  OwnersStay
  BY <1>1, <1>6 DEF UponGettingTheLock, Running, OwnersStay, Owns
<1>7. ASSUME NEW t \in Thread, SetHolder(t)
      PROVE  OwnersStay
  BY <1>1, <1>7 DEF SetHolder, Running, OwnersStay, Owns
<1>8. ASSUME NEW t \in Thread, TryAcquired(t)
      PROVE  OwnersStay
  BY <1>1, <1>8 DEF TryAcquired, Running, OwnersStay, Owns
<1>9. ASSUME NEW t \in Thread, SemaUp(t)
      PROVE  GivesUp(t, arg[t]) /\ arg[t] \in Lock
  <2>1. arg[t] \in Lock /\ arg[t] \notin locksHeld[t] /\ Owns(t, arg[t])
    BY <1>9 DEF SemaUp, Running, Owns, IInv, ArgInv
  <2>2. \A u \in Thread : Owns(u, arg[t]) => u = t
    BY <2>1, SemaphoreCountsOwners
  <2>3. /\ locksHeld' = locksHeld /\ pc[t] = "up" /\ pc'[t] = "run"
        /\ \A u \in Thread \ {t} : pc'[u] = pc[u] /\ arg'[u] = arg[u]
    BY <1>1, <1>9 DEF SemaUp, Running
  <2>4. QED
    BY <2>1, <2>2, <2>3 DEF GivesUp, Owns
<1>10. QED
  BY <1>2, <1>3, <1>4, <1>5, <1>6, <1>7, <1>8, <1>9 DEF LockStep

(* Owner(l) names the one thread that owns l, if there is one.              *)
LEMMA OwnerIs ==
  ASSUME MutualExclusion, NEW l \in Lock
  PROVE  /\ \A t \in Thread : Owns(t, l) => Owner(l) = t
         /\ (\A t \in Thread : ~Owns(t, l)) => Owner(l) = None
BY DEF MutualExclusion, Owner

(* Every step of Synch is a step of LockSpec or leaves its state unchanged. *)
LEMMA StepRefines ==
  ASSUME IInv, IInv', [Next]_vars
  PROVE  [LS!Next]_([l \in Lock |-> Owner(l)])
<1> DEFINE owner == [l \in Lock |-> Owner(l)]
<1>1. MutualExclusion /\ MutualExclusion'
  BY DEF IInv
<1>2. /\ \A l \in Lock, t \in Thread : Owns(t, l) => Owner(l) = t
      /\ \A l \in Lock : (\A t \in Thread : ~Owns(t, l)) => Owner(l) = None
  BY <1>1, OwnerIs
<1>3. /\ \A l \in Lock, t \in Thread : Owns(t, l)' => Owner(l)' = t
      /\ \A l \in Lock : (\A t \in Thread : ~Owns(t, l)') => Owner(l)' = None
  BY <1>1 DEF MutualExclusion, Owner
<1>4. CASE OwnersStay
  BY <1>2, <1>3, <1>4 DEF OwnersStay
<1>5. ASSUME NEW t \in Thread, NEW l \in Lock, Takes(t, l)
      PROVE  LS!Acquire(t, l)
  <2>1. Owner(l) = None /\ Owner(l)' = t
    BY <1>2, <1>3, <1>5 DEF Takes
  <2>2. \A m \in Lock \ {l} : Owner(m)' = Owner(m)
    BY <1>2, <1>3, <1>5 DEF Takes
  <2> QED
    BY <2>1, <2>2 DEF LS!Acquire
<1>6. ASSUME NEW t \in Thread, NEW l \in Lock, GivesUp(t, l)
      PROVE  LS!Release(t, l)
  <2>1. Owner(l) = t /\ Owner(l)' = None
    BY <1>2, <1>3, <1>6 DEF GivesUp
  <2>2. \A m \in Lock \ {l} : Owner(m)' = Owner(m)
    BY <1>2, <1>3, <1>6 DEF GivesUp
  <2> QED
    BY <2>1, <2>2 DEF LS!Release
<1>7. CASE UNCHANGED vars
  <2>1. pc' = pc /\ arg' = arg /\ locksHeld' = locksHeld
    BY <1>7 DEF vars, schedVars, lockVars
  <2>2. OwnersStay
    BY <2>1 DEF Owns, OwnersStay
  <2> QED
    BY <1>4, <2>2
<1>8. CASE Next
  BY <1>4, <1>5, <1>6, <1>8, SchedulerKeepsOwners, LocksChangeOwners DEF Next, LS!Next
<1>9. QED
  BY <1>7, <1>8

(* The locks of synch.c, with their preemption points and their hand-over   *)
(* by sema_up, are the mutexes their interface promises.                    *)
THEOREM LocksImplementLockSpec == Spec => ImplementsLockSpec
<1>1. Init => LS!Init
  BY DEF Init, SchedInit, LS!Init, Owner, Owns
<1>2. IInv /\ IInv' /\ [Next]_vars => [LS!Next]_([l \in Lock |-> Owner(l)])
  BY StepRefines
<1>3. QED
  BY <1>1, <1>2, Invariance, PTL DEF Spec, ImplementsLockSpec, LS!Spec

(***************************************************************************)
(* The highest priority runs                                                *)
(***************************************************************************)

(* Nobody on the ready list is above the thread on the CPU, except before a *)
(* yield; and in thread_create only the new thread may be, which still has  *)
(* the priority it was created with, the one thread_create compares.        *)
TurnInv ==
  /\ \A t \in Thread : status[t] = "unborn" => priority[t] = BasePri[t] /\ locksHeld[t] = {}
  /\ \A r \in ToSet(readyList) :
       /\ running # Idle
       /\ \/ pc[running] \in {"up", "yield"}
          \/ priority[running] >= priority[r]
          \/ pc[running] = "created" /\ r = arg[running] /\ priority[r] = BasePri[r]

(* After a context switch.                                                  *)
LEMMA TurnAfterSwitch ==
  ASSUME TurnInv, NEW st, Dispatched(st), priority' = priority, locksHeld' = locksHeld,
         \A u \in Thread : st[u] = "unborn" => status[u] = "unborn"
  PROVE  TurnInv'
<1>1. \A u \in Thread : status'[u] = "unborn" => status[u] = "unborn"
  BY DEF Dispatched
<1> QED
  BY <1>1 DEF TurnInv, Dispatched

(* After a step of the running thread that leaves it running and the others *)
(* on the ready list as they are.                                           *)
LEMMA TurnAfterStep ==
  ASSUME IInv, TurnInv, NEW t \in Thread, running = t,
         UNCHANGED <<running, status>>, ToSet(readyList') = ToSet(readyList),
         pc[t] \notin {"up", "yield", "created"},
         \A u \in Thread : locksHeld'[u] = locksHeld[u] \/ u = t,
         \A u \in Thread \ {t} : priority'[u] = priority[u],
         priority'[t] \in Int, priority'[t] >= priority[t] \/ pc'[t] \in {"up", "yield"}
  PROVE  TurnInv'
<1>1. /\ \A r \in ToSet(readyList) : r \in Thread /\ r # t
      /\ status[t] = "running" /\ priority \in [Thread -> Int] /\ t # Idle
  BY SchedulerConsistent, PriorityIsInt, ThreadAssumption DEF Queued
<1>2. \A u \in Thread : status'[u] = "unborn" => priority'[u] = BasePri[u] /\ locksHeld'[u] = {}
  BY <1>1 DEF TurnInv
<1>3. ASSUME NEW r \in ToSet(readyList')
      PROVE  /\ running' # Idle
             /\ \/ pc'[running'] \in {"up", "yield"}
                \/ priority'[running'] >= priority'[r]
                \/ pc'[running'] = "created" /\ r = arg'[running'] /\ priority'[r] = BasePri[r]
  <2>1. /\ r \in Thread /\ r # t /\ running' = t /\ priority'[r] = priority[r]
        /\ \/ pc[t] \in {"up", "yield"}
           \/ priority[t] >= priority[r]
           \/ pc[t] = "created" /\ r = arg[t] /\ priority[r] = BasePri[r]
    BY <1>1, <1>3 DEF TurnInv
  <2>2. priority[t] \in Int /\ priority[r] \in Int
    BY <1>1, <2>1
  <2> QED
    BY <1>1, <2>1, <2>2
<1> QED
  BY <1>2, <1>3 DEF TurnInv

LEMMA SchedulerKeepsTurns ==
  ASSUME IInv, TurnInv, SchedulerStep
  PROVE  TurnInv'
<1>1. UNCHANGED <<lockVars, panicked>> /\ locksHeld' = locksHeld
  BY DEF SchedulerStep, lockVars
<1>2. /\ priority \in [Thread -> Priority] /\ status \in [Thread -> Status]
      /\ originalPri \in [Thread -> Priority] /\ pc \in [Thread -> PC]
      /\ arg \in [Thread -> Thread \cup Lock \cup {None}] /\ Priority \subseteq Int
      /\ Queued(readyList, status) /\ \A t \in Thread : status[t] = "running" <=> running = t
  BY SchedulerConsistent, PriorityAssumption DEF IInv, TypeOK, SchedTypeOK, Priority
<1>3. ASSUME NEW t \in Thread, NEW u \in Thread, ThreadCreate(t, u)
      PROVE  TurnInv'
  <2>1. /\ running = t /\ running' = t /\ pc[t] = "run" /\ status[u] = "unborn" /\ priority' = priority
        /\ readyList' = QueueWith(u) /\ status' = StatusWith(u)
        /\ pc'[t] = "created" /\ arg'[t] = u
    BY <1>2, <1>3 DEF ThreadCreate, Running
  <2>2. ToSet(readyList') = ToSet(readyList) \cup {u}
    BY <1>2, <2>1, QueueAfterUnblock DEF Queued
  <2>3. /\ \A v \in Thread : status'[v] = "unborn" => status[v] = "unborn"
        /\ priority[u] = BasePri[u]
    BY <1>2, <2>1 DEF StatusWith, TurnInv
  <2>4. \A r \in ToSet(readyList) : priority[t] >= priority[r]
    BY <2>1 DEF TurnInv
  <2> QED
    BY <1>1, <2>1, <2>2, <2>3, <2>4, ThreadAssumption DEF TurnInv
<1>4. ASSUME NEW t \in Thread, NEW p \in PriorityChoices, SetPriority(t, p)
      PROVE  TurnInv'
  <2>1. /\ running = t /\ pc[t] = "run" /\ UNCHANGED <<running, status, readyList, arg>>
        /\ pc'[t] = IF ShouldYield(t, p) THEN "yield" ELSE "run"
    BY <1>2, <1>4 DEF SetPriority, Running
  <2>2. /\ p \in Int /\ priority'[t] \in {p, priority[t]}
        /\ \A u \in Thread \ {t} : priority'[u] = priority[u]
    BY <1>2, <1>4, PriorityAssumption DEF SetPriority
  <2>3. priority'[t] \in Int /\ (priority'[t] >= priority[t] \/ pc'[t] = "yield")
    <3>1. priority[t] \in Int
      BY <1>2
    <3>2. p < priority[t] => pc'[t] = "yield"
      BY <2>1 DEF ShouldYield
    <3> QED
      BY <2>2, <3>1, <3>2
  <2> QED
    BY <1>1, <2>1, <2>2, <2>3, TurnAfterStep
<1>5. ASSUME NEW t \in Thread, ThreadCreated(t)
      PROVE  TurnInv'
  <2>1. /\ running = t /\ pc[t] = "created" /\ priority' = priority
        /\ pc'[t] = "run"
    BY <1>2, <1>5 DEF ThreadCreated, Running
  <2>2. CASE BasePri[arg[t]] > priority[t]
    BY <1>1, <1>5, <2>1, <2>2, PlainYield, TurnAfterSwitch DEF ThreadCreated
  <2>3. CASE ~(BasePri[arg[t]] > priority[t])
    <3>1. UNCHANGED <<running, status, readyList>>
      BY <1>5, <2>3 DEF ThreadCreated
    <3>2. arg[t] \in Thread /\ BasePri[arg[t]] \in Int /\ priority[t] \in Int
      BY <1>2, <2>1, PriorityAssumption DEF IInv, ArgInv
    <3>3. \A r \in ToSet(readyList) : priority[t] >= priority[r]
      BY <2>1, <2>3, <3>2 DEF TurnInv
    <3> QED
      BY <1>1, <2>1, <3>1, <3>3 DEF TurnInv
  <2> QED
    BY <2>2, <2>3
<1>6. ASSUME NEW t \in Thread, SetPriorityYield(t)
      PROVE  TurnInv'
  BY <1>1, <1>6, PlainYield, TurnAfterSwitch DEF SetPriorityYield
<1>7. ASSUME NEW t \in Thread, NEW x \in {"blocked", "dying"}, running = t, priority' = priority,
             Schedule(readyList, [status EXCEPT ![t] = x])
      PROVE  TurnInv'
  <2>1. Dispatched([status EXCEPT ![t] = x])
    BY <1>7, ScheduleAway
  <2>2. \A u \in Thread : [status EXCEPT ![t] = x][u] = "unborn" => status[u] = "unborn"
    BY <1>2
  <2> QED
    BY <1>1, <1>7, <2>1, <2>2, TurnAfterSwitch
<1>8. ASSUME NEW t \in Thread, ThreadExit(t) \/ Sleep(t)
      PROVE  TurnInv'
  BY <1>7, <1>8 DEF ThreadExit, Sleep, Running, Block
<1>9. ASSUME NEW t \in Thread, Wake(t)
      PROVE  TurnInv'
  <2>1. Dispatched(StatusWith(t))
    BY <1>9, YieldAfterUnblock DEF Wake
  <2>2. \A u \in Thread : StatusWith(t)[u] = "unborn" => status[u] = "unborn"
    BY <1>2 DEF StatusWith
  <2> QED
    BY <1>1, <1>9, <2>1, <2>2, TurnAfterSwitch DEF Wake
<1>10. CASE Preempt
  BY <1>1, <1>10, PlainYield, TurnAfterSwitch DEF Preempt
<1> QED
  BY <1>3, <1>4, <1>5, <1>6, <1>8, <1>9, <1>10 DEF SchedulerStep

(* Whoever gets a donation has a lock, and a lower priority than the donor. *)
LEMMA DoneesHoldLocks ==
  ASSUME IInv, NEW l \in Lock, NEW p \in Priority, NEW u \in Donees(l, p)
  PROVE  /\ u \in Thread /\ priority[u] < p /\ locksHeld[u] # {}
         /\ \/ holder[l] = u
            \/ \E d \in Donees(l, p) : PassesOn(d) /\ holder[blockedBy[d]] = u
<1> DEFINE Closed(D) == /\ Receivers(l, p) \subseteq D
                        /\ \A v \in D : PassesOn(v) => Receivers(blockedBy[v], p) \subseteq D
           all  == Donees(l, p)
           from == {v \in all : /\ priority[v] < p
                                /\ \/ holder[l] = v
                                   \/ \E d \in all : PassesOn(d) /\ holder[blockedBy[d]] = v}
<1>1. all = {v \in Thread : \A D \in SUBSET Thread : Closed(D) => v \in D}
  BY DEF Donees
<1>2. Receivers(l, p) \subseteq all
  BY <1>1 DEF Receivers
<1>3. \A v \in all : PassesOn(v) => Receivers(blockedBy[v], p) \subseteq all
  BY <1>1 DEF Receivers
<1> HIDE DEF all
<1>4. Receivers(l, p) \subseteq from
  BY <1>2 DEF Receivers
<1>5. \A v \in from : PassesOn(v) => Receivers(blockedBy[v], p) \subseteq from
  BY <1>3 DEF Receivers
<1>6. from \in SUBSET Thread /\ u \in all
  BY <1>1 DEF all
<1>7. u \in from
  <2> HIDE DEF from
  <2> QED
    BY <1>1, <1>4, <1>5, <1>6
<1>8. \/ holder[l] = u
      \/ \E d \in all : PassesOn(d) /\ holder[blockedBy[d]] = u
  BY <1>7
<1>9. PICK m \in Lock : holder[m] = u
  BY <1>1, <1>8 DEF PassesOn, IInv, TypeOK
<1>10. u \in Thread /\ m \in locksHeld[u]
  BY <1>6, <1>7, <1>9 DEF IInv, ArgInv
<1> QED
  BY <1>7, <1>8, <1>10 DEF all

LEMMA LocksKeepTurns ==
  ASSUME IInv, TurnInv, LockStep
  PROVE  TurnInv'
<1>1. /\ priority \in [Thread -> Priority] /\ Priority \subseteq Int
      /\ status \in [Thread -> Status] /\ pc \in [Thread -> PC]
      /\ locksHeld \in [Thread -> SUBSET Lock]
  BY SchedulerConsistent, PriorityAssumption DEF IInv, TypeOK, SchedTypeOK, Priority
<1>2. ASSUME NEW t \in Thread, NEW l \in Lock, BeforeGettingInLine(t, l)
      PROVE  TurnInv'
  <2>1. PICK p \in Priority : p = priority[t]
    BY <1>1
  <2> DEFINE raised == [u \in Thread |-> IF u \in Donees(l, p) THEN p ELSE priority[u]]
  <2>2. /\ running = t /\ pc[t] = "run" /\ pc' = [pc EXCEPT ![t] = "down"]
        /\ UNCHANGED <<running, status, locksHeld>>
        /\ (priority' = priority \/ priority' = raised)
        /\ \/ readyList' = readyList
           \/ priority' = raised /\ readyList' = ListSort(readyList, raised)
    BY <1>2, <2>1 DEF BeforeGettingInLine, Running
  <2>3. \A u \in Donees(l, p) : u \in Thread /\ priority[u] < p /\ locksHeld[u] # {}
    BY DoneesHoldLocks
  <2>4. /\ priority' \in [Thread -> Int] /\ priority'[t] = p
        /\ \A u \in Thread : priority'[u] = priority[u]
                             \/ (priority'[u] = p /\ locksHeld[u] # {})
    <3>1. t \notin Donees(l, p)
      BY <1>1, <2>1, <2>3
    <3> QED
      BY <1>1, <2>1, <2>2, <2>3, <3>1
  <2>5. ToSet(readyList') = ToSet(readyList)
    <3>1. raised \in [Thread -> Int] /\ readyList \in Seq(Thread)
      BY <1>1, SchedulerConsistent DEF Queued
    <3> HIDE DEF raised
    <3> QED
      BY <2>2, <3>1, ListSortSorts
  <2>6. \A r \in ToSet(readyList) : r \in Thread /\ priority[t] >= priority[r]
    BY <2>2, SchedulerConsistent DEF TurnInv, Queued
  <2>7. \A r \in ToSet(readyList') : priority'[t] >= priority'[r]
    BY <2>1, <2>4, <2>5, <2>6
  <2>8. t # Idle
    BY ThreadAssumption
  <2> HIDE DEF raised
  <2> QED
    BY <2>2, <2>4, <2>7, <2>8 DEF TurnInv
<1>3. ASSUME NEW t \in Thread, running = t, UNCHANGED <<running, status, readyList>>,
             pc[t] \notin {"up", "yield", "created"},
             \A u \in Thread : locksHeld'[u] = locksHeld[u] \/ u = t,
             \A u \in Thread \ {t} : priority'[u] = priority[u],
             priority' = priority \/ (priority'[t] \in Int /\ pc'[t] = "up")
      PROVE  TurnInv'
  <2>1. /\ priority'[t] \in Int
        /\ priority'[t] >= priority[t] \/ pc'[t] \in {"up", "yield"}
    <3>1. priority[t] \in Int
      BY <1>1
    <3> QED
      BY <1>3, <3>1
  <2> QED
    BY <1>3, <2>1, TurnAfterStep
<1>4. ASSUME NEW t \in Thread, NEW l \in Lock, SemaTryDown(t, l)
      PROVE  TurnInv'
  BY <1>3, <1>4 DEF SemaTryDown, Running
<1>5. ASSUME NEW t \in Thread, NEW l \in Lock, LockRelease(t, l)
      PROVE  TurnInv'
  <2>1. IInv'
    BY <1>5, LockReleaseKeeps
  <2>2. priority'[t] \in Int
    BY <2>1, PriorityAssumption DEF IInv, TypeOK, SchedTypeOK, Priority
  <2>3. /\ running = t /\ pc[t] = "run" /\ pc'[t] = "up"
        /\ UNCHANGED <<running, status, readyList>>
        /\ \A u \in Thread \ {t} : priority'[u] = priority[u] /\ locksHeld'[u] = locksHeld[u]
    BY <1>1, <1>5 DEF LockRelease, Running
  <2> QED
    BY <1>3, <2>2, <2>3
<1>6. ASSUME NEW t \in Thread, SemaDown(t)
      PROVE  TurnInv'
  <2>1. running = t /\ pc[t] \in {"down", "waiting"} /\ UNCHANGED <<priority, locksHeld>>
    BY <1>6 DEF SemaDown
  <2>2. CASE UNCHANGED <<running, status, readyList>>
    BY <1>3, <2>1, <2>2
  <2>3. CASE Block(t)
    <3>1. Dispatched([status EXCEPT ![t] = "blocked"])
      BY <2>1, <2>3, ScheduleAway DEF Block
    <3>2. \A u \in Thread : [status EXCEPT ![t] = "blocked"][u] = "unborn" => status[u] = "unborn"
      BY <1>1
    <3> QED
      BY <2>1, <3>1, <3>2, TurnAfterSwitch
  <2> QED
    BY <1>6, <2>2, <2>3 DEF SemaDown
<1>7. ASSUME NEW t \in Thread, UponGettingTheLock(t)
      PROVE  TurnInv'
  <2>1. \A u \in Thread \ {t} : locksHeld'[u] = locksHeld[u]
    BY <1>1, <1>7 DEF UponGettingTheLock
  <2> QED
    BY <1>3, <1>7, <2>1 DEF UponGettingTheLock, Running
<1>8. ASSUME NEW t \in Thread, SetHolder(t) \/ TryAcquired(t)
      PROVE  TurnInv'
  <2>1. \A u \in Thread \ {t} : locksHeld'[u] = locksHeld[u]
    BY <1>1, <1>8 DEF SetHolder, TryAcquired
  <2> QED
    BY <1>3, <1>8, <2>1 DEF SetHolder, TryAcquired, Running
<1>9. ASSUME NEW t \in Thread, SemaUp(t)
      PROVE  TurnInv'
  <2>1. arg[t] \in Lock /\ UNCHANGED <<priority, locksHeld>>
    BY <1>9 DEF SemaUp, Running, IInv, ArgInv
  <2>2. PICK st \in [Thread -> Status], woken \in SUBSET Thread : HandsOver(arg[t], st, woken)
    BY <1>9, <2>1, SemaUpHandsOver
  <2> QED
    BY <2>1, <2>2, TurnAfterSwitch DEF HandsOver
<1> QED
  BY <1>2, <1>4, <1>5, <1>6, <1>7, <1>8, <1>9 DEF LockStep

(* The scheduler never leaves a thread waiting behind one of lower          *)
(* priority, whoever donates, yields or is woken: only the yields that      *)
(* thread_create, thread_set_priority and lock_release have yet to make     *)
(* can put that off.                                                        *)
THEOREM HighestRuns == Spec => []HighestPriorityRuns
<1>1. Init => TurnInv
  BY PriorityAssumption, ThreadAssumption DEF Init, SchedInit, TurnInv, ToSet
<1>2. ASSUME IInv, TurnInv, [Next]_vars
      PROVE  TurnInv'
  <2>1. CASE Next
    BY <1>2, <2>1, SchedulerKeepsTurns, LocksKeepTurns DEF Next
  <2>2. CASE UNCHANGED vars
    BY <1>2, <2>2 DEF vars, schedVars, lockVars, TurnInv
  <2> QED
    BY <1>2, <2>1, <2>2
<1>3. TurnInv => HighestPriorityRuns
  BY DEF TurnInv, HighestPriorityRuns
<1> QED
  BY <1>1, <1>2, <1>3, Invariance, PTL DEF Spec

(***************************************************************************)
(* Donations                                                                *)
(***************************************************************************)

(* The steps of lock_acquire between before_getting_in_line and             *)
(* upon_getting_the_lock.                                                   *)
InLine(t) == pc[t] \in {"down", "waiting", "got"}

(* Some thread of priority p or more is in line for lock l.                 *)
Donor(l, p) == \E u \in Thread : blockedBy[u] = l /\ priority[u] >= p

(* A thread's priority is its base priority, or a donor's; and so is what a *)
(* lock remembers as the maximum of its donors.                             *)
DonationInv ==
  /\ \A t \in Thread :
       /\ InLine(t) => blockedBy[t] = arg[t]
       /\ blockedBy[t] # None => InLine(t) /\ blockedBy[t] \notin locksHeld[t]
  /\ \A l \in Lock : lockMax[l] > 0 => Donor(l, lockMax[l])
  /\ \A t \in Thread :
       priority[t] # originalPri[t] => \E l \in locksHeld[t] : Donor(l, priority[t])

(* Steps that leave alone who is in line, and all priorities.               *)
LEMMA QuietDonations ==
  ASSUME DonationInv, UNCHANGED <<blockedBy, lockMax, priority, originalPri>>,
         \A t \in Thread : /\ locksHeld[t] \subseteq locksHeld'[t]
                           /\ locksHeld'[t] = locksHeld[t] \/ blockedBy[t] = None,
         \A t \in Thread : InLine(t)' <=> InLine(t),
         \A t \in Thread : InLine(t) => arg'[t] = arg[t]
  PROVE  DonationInv'
<1>1. \A l, p : Donor(l, p)' <=> Donor(l, p)
  BY DEF Donor
<1> QED
  BY <1>1 DEF DonationInv

LEMMA SchedulerKeepsDonations ==
  ASSUME IInv, DonationInv, SchedulerStep
  PROVE  DonationInv'
<1>1. UNCHANGED <<value, waiters, holder, lockMax, locksHeld, blockedBy>>
  BY DEF SchedulerStep, lockVars
<1>2. /\ priority \in [Thread -> Priority] /\ Priority \subseteq Int
      /\ originalPri \in [Thread -> Priority] /\ pc \in [Thread -> PC]
      /\ arg \in [Thread -> Thread \cup Lock \cup {None}]
      /\ \A t \in Thread : status[t] = "running" <=> running = t
  BY SchedulerConsistent, PriorityAssumption DEF IInv, TypeOK, SchedTypeOK, Priority
<1>3. ASSUME NEW t \in Thread, ~InLine(t), NEW x \in PC \ {"down", "waiting", "got"},
             UNCHANGED <<priority, originalPri>>, pc' = [pc EXCEPT ![t] = x],
             \A u \in Thread \ {t} : arg'[u] = arg[u]
      PROVE  DonationInv'
  <2>1. \A u \in Thread : (InLine(u)' <=> InLine(u)) /\ (InLine(u) => arg'[u] = arg[u])
    BY <1>2, <1>3 DEF InLine
  <2> QED
    BY <1>1, <1>3, <2>1, QuietDonations
<1>4. ASSUME NEW t \in Thread, NEW u \in Thread, ThreadCreate(t, u)
      PROVE  DonationInv'
  BY <1>2, <1>3, <1>4 DEF ThreadCreate, Running, InLine, PC
<1>5. ASSUME NEW t \in Thread, ThreadCreated(t) \/ SetPriorityYield(t) \/ Sleep(t) \/ Wake(t)
      PROVE  DonationInv'
  BY <1>2, <1>3, <1>5 DEF ThreadCreated, SetPriorityYield, Sleep, Wake, Running, InLine, PC
<1>6. CASE UNCHANGED <<priority, originalPri, pc, arg>>
  BY <1>1, <1>6, QuietDonations DEF InLine
<1>7. ASSUME NEW t \in Thread, NEW p \in PriorityChoices, SetPriority(t, p)
      PROVE  DonationInv'
  <2>1. /\ pc[t] = "run" /\ arg' = arg /\ pc'[t] \in {"yield", "run"}
        /\ \A u \in Thread \ {t} : /\ pc'[u] = pc[u] /\ priority'[u] = priority[u]
                                   /\ originalPri'[u] = originalPri[u]
        /\ priority'[t] # originalPri'[t] => /\ priority'[t] = priority[t]
                                             /\ priority[t] # originalPri[t]
    BY <1>2, <1>7 DEF SetPriority, Running
  <2>2. blockedBy[t] = None
    BY <2>1 DEF DonationInv, InLine
  <2>3. \A l \in Lock : \A q : Donor(l, q) => Donor(l, q)'
    <3>1. \A u \in Thread, l \in Lock : blockedBy[u] = l => u # t
      BY <2>2, LockAssumption
    <3> QED
      BY <1>1, <2>1, <3>1 DEF Donor
  <2>4. \A u \in Thread : (InLine(u)' <=> InLine(u)) /\ arg'[u] = arg[u]
    BY <2>1 DEF InLine
  <2>5. \A u \in Thread : locksHeld[u] \subseteq Lock
    BY DEF IInv, TypeOK
  <2>6. \A u \in Thread : priority'[u] # originalPri'[u] =>
          priority'[u] = priority[u] /\ \E l \in locksHeld'[u] : Donor(l, priority[u])'
    <3>1. ASSUME NEW u \in Thread, priority'[u] # originalPri'[u]
          PROVE  priority'[u] = priority[u] /\ priority[u] # originalPri[u]
      BY <2>1, <3>1
    <3> QED
      BY <1>1, <2>3, <2>5, <3>1 DEF DonationInv
  <2> QED
    BY <1>1, <2>3, <2>4, <2>6 DEF DonationInv, Donor
<1>8. ASSUME NEW t \in Thread, ThreadExit(t)
      PROVE  DonationInv'
  BY <1>6, <1>8 DEF ThreadExit
<1> QED
  BY <1>4, <1>5, <1>6, <1>7, <1>8 DEF SchedulerStep, Preempt

LEMMA BeforeGettingInLineKeepsDonations ==
  ASSUME IInv, DonationInv, NEW t \in Thread, NEW l \in Lock, BeforeGettingInLine(t, l)
  PROVE  DonationInv'
<1>1. PICK p \in Priority : p = priority[t]
  BY SchedulerConsistent
<1> DEFINE raised == [u \in Thread |-> IF u \in Donees(l, p) THEN p ELSE priority[u]]
<1>2. /\ priority \in [Thread -> Priority] /\ Priority \subseteq Int
      /\ lockMax \in [Lock -> Priority] /\ pc \in [Thread -> PC]
      /\ locksHeld \in [Thread -> SUBSET Lock] /\ blockedBy \in [Thread -> Lock \cup {None}]
      /\ arg \in [Thread -> Thread \cup Lock \cup {None}]
  BY PriorityAssumption DEF IInv, TypeOK, SchedTypeOK, Priority
<1>3. /\ pc[t] = "run" /\ \A m \in locksHeld[t] : m < l
      /\ blockedBy' = [blockedBy EXCEPT ![t] = l]
      /\ pc' = [pc EXCEPT ![t] = "down"] /\ arg' = [arg EXCEPT ![t] = l]
      /\ UNCHANGED <<originalPri, holder, locksHeld, status>>
      /\ \/ lockMax' = [lockMax EXCEPT ![l] = p] /\ priority' = raised
         \/ lockMax' = lockMax /\ priority' = priority /\ ~(p > lockMax[l])
  BY <1>1 DEF BeforeGettingInLine, Running
<1>4. /\ blockedBy[t] = None /\ blockedBy'[t] = l
      /\ \A u \in Thread \ {t} : blockedBy'[u] = blockedBy[u]
  <2>1. blockedBy[t] = None
    BY <1>3 DEF DonationInv, InLine
  <2> QED
    BY <1>2, <1>3, <2>1
<1>5. \A u \in Donees(l, p) :
        /\ u \in Thread /\ priority[u] < p /\ u # t
        /\ \/ holder[l] = u
           \/ \E d \in Donees(l, p) : PassesOn(d) /\ holder[blockedBy[d]] = u
  BY <1>1, <1>2, DoneesHoldLocks
<1>6. /\ priority' \in [Thread -> Priority] /\ priority'[t] = p
      /\ \A u \in Thread : priority'[u] >= priority[u]
      /\ \A u \in Thread : \/ priority'[u] = priority[u]
                           \/ (priority'[u] = p /\ u \in Donees(l, p) /\ priority' = raised)
  <2>1. \A u \in Thread : priority[u] \in Int /\ priority[u] >= priority[u]
    <3>1. \A u \in Thread : priority[u] \in Priority
      BY <1>2
    <3>2. \A x \in Int : x >= x
      OBVIOUS
    <3> QED
      BY <1>2, <3>1, <3>2
  <2>2. CASE priority' = priority
    BY <1>1, <1>2, <2>1, <2>2
  <2>3. CASE priority' = raised
    <3>1. \A u \in Thread : priority'[u] = IF u \in Donees(l, p) THEN p ELSE priority[u]
      BY <2>3
    <3>2. priority' \in [Thread -> Priority] /\ p \in Int
      BY <1>2, <2>3
    <3>3. \A u \in Donees(l, p) : p >= priority[u] /\ u # t
      BY <1>5, <2>1, <3>2
    <3> HIDE DEF raised
    <3> QED
      BY <1>1, <2>1, <2>3, <3>1, <3>2, <3>3
  <2> QED
    BY <1>3, <2>2, <2>3
<1> HIDE DEF raised
<1> DEFINE Given(m, q) == \E u \in Thread : blockedBy'[u] = m /\ priority'[u] >= q
<1>7. \A m \in Lock : \A q \in Int : Donor(m, q) => Given(m, q)
  <2> SUFFICES ASSUME NEW m \in Lock, NEW q \in Int, Donor(m, q)
               PROVE  Given(m, q)
    OBVIOUS
  <2>1. PICK u \in Thread : blockedBy[u] = m /\ priority[u] >= q
    BY DEF Donor
  <2>2. u # t /\ blockedBy'[u] = m
    BY <1>4, <2>1, LockAssumption
  <2>3. priority'[u] >= q
    <3>1. priority[u] \in Int /\ priority'[u] \in Int /\ priority'[u] >= priority[u]
      BY <1>2, <1>6
    <3> QED
      BY <2>1, <3>1
  <2> QED
    BY <2>2, <2>3
<1>8. Given(l, p)
  BY <1>2, <1>4, <1>6
<1> HIDE DEF Given
<1>9. ASSUME NEW u \in Thread
      PROVE  /\ InLine(u)' => blockedBy'[u] = arg'[u]
             /\ blockedBy'[u] # None => InLine(u)' /\ blockedBy'[u] \notin locksHeld'[u]
  <2>1. CASE u = t
    <3>1. l \in Int /\ ~(l < l)
      BY LockAssumption
    <3>2. pc'[t] = "down" /\ arg'[t] = l /\ l \notin locksHeld[t]
      BY <1>2, <1>3, <3>1
    <3> QED
      BY <1>3, <1>4, <2>1, <3>2 DEF InLine
  <2>2. CASE u # t
    <3>1. pc'[u] = pc[u] /\ arg'[u] = arg[u] /\ blockedBy'[u] = blockedBy[u]
      BY <1>2, <1>3, <1>4, <2>2
    <3> QED
      BY <1>3, <3>1 DEF DonationInv, InLine
  <2> QED
    BY <2>1, <2>2
<1>10. ASSUME NEW m \in Lock, lockMax'[m] > 0
       PROVE  Given(m, lockMax'[m])
  <2>1. CASE lockMax'[m] = lockMax[m]
    <3>1. Donor(m, lockMax[m]) /\ lockMax[m] \in Int
      BY <1>2, <1>10, <2>1 DEF DonationInv
    <3> QED
      BY <1>7, <2>1, <3>1
  <2>2. CASE lockMax'[m] # lockMax[m]
    <3>1. m = l /\ lockMax'[m] = p
      BY <1>2, <1>3, <2>2
    <3> QED
      BY <1>8, <3>1
  <2> QED
    BY <2>1, <2>2
<1>11. ASSUME NEW u \in Thread, priority'[u] # originalPri'[u]
       PROVE  \E m \in locksHeld'[u] : Given(m, priority'[u])
  <2>1. CASE priority'[u] = priority[u]
    <3>1. PICK m \in locksHeld[u] : Donor(m, priority[u])
      BY <1>3, <1>11, <2>1 DEF DonationInv
    <3>2. m \in Lock /\ priority[u] \in Int
      BY <1>2
    <3> QED
      BY <1>3, <1>7, <2>1, <3>1, <3>2
  <2>2. CASE priority'[u] # priority[u]
    <3>1. priority'[u] = p /\ u \in Donees(l, p) /\ priority' = raised
      BY <1>6, <2>2
    <3>2. CASE holder[l] = u
      <4>1. l \in locksHeld[u]
        BY <3>2 DEF IInv, ArgInv
      <4> QED
        BY <1>3, <1>8, <3>1, <4>1
    <3>3. CASE \E d \in Donees(l, p) : PassesOn(d) /\ holder[blockedBy[d]] = u
      <4>1. PICK d \in Donees(l, p) : PassesOn(d) /\ holder[blockedBy[d]] = u
        BY <3>3
      <4>2. PICK m \in Lock : m = blockedBy[d] /\ m \in locksHeld[u]
        BY <1>2, <1>5, <4>1 DEF IInv, ArgInv, PassesOn
      <4>3. d \in Thread /\ blockedBy'[d] = m
        BY <1>4, <1>5, <4>2
      <4>4. priority'[d] = p /\ p \in Int
        BY <1>2, <3>1, <4>3 DEF raised
      <4>5. Given(m, p)
        BY <4>3, <4>4 DEF Given
      <4> QED
        BY <1>3, <3>1, <4>2, <4>5
    <3> QED
      BY <1>5, <3>1, <3>2, <3>3
  <2> QED
    BY <2>1, <2>2
<1>12. /\ \A m \in Lock : lockMax'[m] > 0 =>
            \E u \in Thread : blockedBy'[u] = m /\ priority'[u] >= lockMax'[m]
       /\ \A u \in Thread : priority'[u] # originalPri'[u] =>
            \E m \in locksHeld'[u] : \E v \in Thread :
               blockedBy'[v] = m /\ priority'[v] >= priority'[u]
  BY <1>10, <1>11 DEF Given
<1> QED
  BY <1>9, <1>12 DEF DonationInv, Donor

LEMMA UponGettingTheLockKeepsDonations ==
  ASSUME IInv, DonationInv, NEW t \in Thread, UponGettingTheLock(t)
  PROVE  DonationInv'
<1>1. PICK l \in Lock : l = arg[t]
  BY DEF UponGettingTheLock, Running, IInv, ArgInv
<1>2. /\ pc[t] = "got" /\ pc' = [pc EXCEPT ![t] = "sethold"]
      /\ blockedBy' = [blockedBy EXCEPT ![t] = None]
      /\ locksHeld' = [locksHeld EXCEPT ![t] = @ \cup {l}]
      /\ lockMax' = [lockMax EXCEPT ![l] = MaxWaiterPriority(l)]
      /\ UNCHANGED <<priority, originalPri, arg>>
  BY <1>1 DEF UponGettingTheLock, Running
<1>3. /\ priority \in [Thread -> Priority] /\ lockMax \in [Lock -> Priority]
      /\ pc \in [Thread -> PC] /\ locksHeld \in [Thread -> SUBSET Lock]
      /\ blockedBy \in [Thread -> Lock \cup {None}]
  BY DEF IInv, TypeOK, SchedTypeOK
<1>4. /\ blockedBy'[t] = None /\ \A u \in Thread \ {t} : blockedBy'[u] = blockedBy[u]
      /\ locksHeld'[t] = locksHeld[t] \cup {l}
      /\ \A u \in Thread \ {t} : locksHeld'[u] = locksHeld[u] /\ pc'[u] = pc[u]
      /\ blockedBy[t] = l
  BY <1>1, <1>2, <1>3 DEF DonationInv, InLine
(* Those in line for other locks still are, and nobody else has this one. *)
<1>5. \A m \in Lock \ {l} : \A q : Donor(m, q) => Donor(m, q)'
  <2> SUFFICES ASSUME NEW m \in Lock \ {l}, NEW q, Donor(m, q)
               PROVE  Donor(m, q)'
    OBVIOUS
  <2>1. PICK u \in Thread : blockedBy[u] = m /\ priority[u] >= q
    BY DEF Donor
  <2> QED
    BY <1>2, <1>4, <2>1 DEF Donor
<1>6. \A u \in Thread : l \notin locksHeld[u]
  <2>1. Owns(t, l) /\ l \notin locksHeld[t]
    BY <1>1, <1>2 DEF Owns, IInv, ArgInv
  <2> QED
    BY <2>1, SemaphoreCountsOwners DEF Owns
<1>7. ASSUME NEW u \in Thread
      PROVE  /\ InLine(u)' => blockedBy'[u] = arg'[u]
             /\ blockedBy'[u] # None => InLine(u)' /\ blockedBy'[u] \notin locksHeld'[u]
  <2>1. CASE u = t
    BY <1>2, <1>3, <1>4, <2>1 DEF InLine
  <2>2. CASE u # t
    BY <1>2, <1>4, <2>2 DEF DonationInv, InLine
  <2> QED
    BY <2>1, <2>2
(* The maximum is that of waiters, who are in line. *)
<1>8. MaxWaiterPriority(l) > 0 =>
        \E u \in Thread : blockedBy'[u] = l /\ priority[u] >= MaxWaiterPriority(l)
  <2> DEFINE T == {0} \cup {priority[u] : u \in ToSet(waiters[l])}
  <2>1. ToSet(waiters[l]) = {u \in Thread : WaitsFor(u, l)}
    BY DEF IInv, OneListPerThread
  <2>2. T \in SUBSET Priority /\ T # {}
    BY <1>3, <2>1, PriorityAssumption DEF Priority
  <2>3. Max(T) \in T /\ Max(T) \in Priority
    BY <2>2, MaxNat, PriorityAssumption DEF Priority
  <2>4. MaxWaiterPriority(l) = Max(T)
    BY DEF MaxWaiterPriority
  <2> SUFFICES ASSUME Max(T) > 0
               PROVE  \E u \in Thread : blockedBy'[u] = l /\ priority[u] >= Max(T)
    BY <2>4
  <2>5. PICK u \in ToSet(waiters[l]) : priority[u] = Max(T)
    <3>1. Max(T) # 0
      BY <2>3, PriorityAssumption DEF Priority
    <3> QED
      BY <2>3, <3>1
  <2>6. u \in Thread /\ pc[u] = "waiting" /\ arg[u] = l
    BY <2>1, <2>5 DEF WaitsFor
  <2>7. blockedBy'[u] = l
    BY <1>2, <1>4, <2>6 DEF DonationInv, InLine
  <2>8. Max(T) \in Int
    BY <2>3, PriorityAssumption DEF Priority
  <2> HIDE DEF T
  <2> QED
    BY <2>5, <2>6, <2>7, <2>8
<1>9. \A m \in Lock : lockMax'[m] > 0 =>
        \E u \in Thread : blockedBy'[u] = m /\ priority'[u] >= lockMax'[m]
  <2> SUFFICES ASSUME NEW m \in Lock, lockMax'[m] > 0
               PROVE  \E u \in Thread : blockedBy'[u] = m /\ priority'[u] >= lockMax'[m]
    OBVIOUS
  <2>1. CASE m = l
    BY <1>2, <1>3, <1>8, <2>1
  <2>2. CASE m # l
    <3>1. lockMax'[m] = lockMax[m]
      BY <1>2, <1>3, <2>2
    <3>2. PICK u \in Thread : blockedBy[u] = m /\ priority[u] >= lockMax[m]
      BY <2>2, <3>1 DEF DonationInv, Donor
    <3> QED
      BY <1>2, <1>4, <2>2, <3>1, <3>2
  <2> QED
    BY <2>1, <2>2
<1>10. \A u \in Thread : priority'[u] # originalPri'[u] =>
         \E m \in locksHeld'[u] : \E v \in Thread : blockedBy'[v] = m /\ priority'[v] >= priority'[u]
  <2> SUFFICES ASSUME NEW u \in Thread, priority'[u] # originalPri'[u]
               PROVE  \E m \in locksHeld'[u] : \E v \in Thread :
                         blockedBy'[v] = m /\ priority'[v] >= priority'[u]
    OBVIOUS
  <2>1. PICK m \in locksHeld[u], v \in Thread : blockedBy[v] = m /\ priority[v] >= priority[u]
    BY <1>2 DEF DonationInv, Donor
  <2>2. m # l /\ v # t
    BY <1>4, <1>6, <2>1
  <2>3. m \in locksHeld'[u]
    BY <1>4
  <2> QED
    BY <1>2, <1>4, <2>1, <2>2, <2>3
<1> QED
  BY <1>7, <1>9, <1>10 DEF DonationInv, Donor

LEMMA LockReleaseKeepsDonations ==
  ASSUME IInv, DonationInv, NEW t \in Thread, NEW l \in Lock, LockRelease(t, l)
  PROVE  DonationInv'
<1>1. /\ pc[t] = "run" /\ l \in locksHeld[t]
      /\ locksHeld' = [locksHeld EXCEPT ![t] = @ \ {l}]
      /\ priority' = [priority EXCEPT ![t] = PriorityWith(t, locksHeld[t] \ {l})]
      /\ pc' = [pc EXCEPT ![t] = "up"] /\ arg' = [arg EXCEPT ![t] = l]
      /\ UNCHANGED <<originalPri, lockMax, blockedBy>>
  BY DEF LockRelease, Running, IInv, ArgInv
<1>2. /\ priority \in [Thread -> Priority] /\ lockMax \in [Lock -> Priority]
      /\ originalPri \in [Thread -> Priority]
      /\ pc \in [Thread -> PC] /\ locksHeld \in [Thread -> SUBSET Lock]
      /\ arg \in [Thread -> Thread \cup Lock \cup {None}]
  BY DEF IInv, TypeOK, SchedTypeOK
<1>3. /\ locksHeld'[t] = locksHeld[t] \ {l}
      /\ \A u \in Thread \ {t} : /\ locksHeld'[u] = locksHeld[u] /\ pc'[u] = pc[u]
                                 /\ arg'[u] = arg[u] /\ priority'[u] = priority[u]
      /\ blockedBy[t] = None /\ blockedBy' = blockedBy
  BY <1>1, <1>2 DEF DonationInv, InLine
<1>4. ASSUME NEW m \in Lock, NEW q, Donor(m, q)
      PROVE  \E v \in Thread : blockedBy'[v] = m /\ priority'[v] >= q
  <2>1. PICK v \in Thread : blockedBy[v] = m /\ priority[v] >= q
    BY <1>4 DEF Donor
  <2>2. v # t
    BY <1>3, <2>1, LockAssumption
  <2> QED
    BY <1>3, <2>1, <2>2
<1>5. ASSUME NEW u \in Thread
      PROVE  /\ InLine(u)' => blockedBy'[u] = arg'[u]
             /\ blockedBy'[u] # None => InLine(u)' /\ blockedBy'[u] \notin locksHeld'[u]
  <2>1. CASE u = t
    BY <1>1, <1>2, <1>3, <2>1 DEF InLine
  <2>2. CASE u # t
    BY <1>1, <1>3, <2>2 DEF DonationInv, InLine
  <2> QED
    BY <2>1, <2>2
<1>6. ASSUME NEW m \in Lock, lockMax'[m] > 0
      PROVE  \E u \in Thread : blockedBy'[u] = m /\ priority'[u] >= lockMax'[m]
  <2>1. lockMax'[m] = lockMax[m] /\ Donor(m, lockMax[m])
    BY <1>1, <1>6 DEF DonationInv
  <2> QED
    BY <1>4, <2>1
<1>7. ASSUME NEW u \in Thread, priority'[u] # originalPri'[u]
      PROVE  \E m \in locksHeld'[u] : \E v \in Thread :
               blockedBy'[v] = m /\ priority'[v] >= priority'[u]
  <2>1. CASE u = t
    <3> DEFINE T == {originalPri[t]} \cup {lockMax[m] : m \in locksHeld[t] \ {l}}
    <3>1. T \in SUBSET Priority /\ T # {} /\ originalPri[t] \in T
      BY <1>2
    <3>2. Max(T) \in T /\ (\A y \in T : y <= Max(T)) /\ Max(T) \in Priority
      BY <3>1, MaxNat, PriorityAssumption DEF Priority
    <3>3. priority'[t] = Max(T)
      BY <1>1, <1>2 DEF PriorityWith
    <3>4. Max(T) # originalPri[t]
      BY <1>1, <1>7, <2>1, <3>3
    <3>5. PICK m \in locksHeld[t] \ {l} : Max(T) = lockMax[m]
      BY <3>2, <3>4
    <3>6. originalPri[t] <= Max(T) /\ originalPri[t] \in Nat /\ Max(T) \in Nat
      BY <1>2, <3>1, <3>2, PriorityAssumption DEF Priority
    <3> HIDE DEF T
    <3>7. m \in Lock /\ lockMax[m] > 0
      BY <1>2, <3>4, <3>5, <3>6
    <3>8. Donor(m, lockMax[m])
      BY <3>7 DEF DonationInv
    <3> QED
      BY <1>3, <1>4, <2>1, <3>3, <3>5, <3>7, <3>8
  <2>2. CASE u # t
    <3>1. PICK m \in locksHeld[u] : Donor(m, priority[u])
      BY <1>1, <1>3, <1>7, <2>2 DEF DonationInv
    <3>2. m \in Lock
      BY <1>2
    <3> QED
      BY <1>3, <1>4, <2>2, <3>1, <3>2
  <2> QED
    BY <2>1, <2>2
<1> QED
  BY <1>5, <1>6, <1>7 DEF DonationInv, Donor

LEMMA LocksKeepDonations ==
  ASSUME IInv, DonationInv, LockStep
  PROVE  DonationInv'
<1>1. /\ pc \in [Thread -> PC] /\ arg \in [Thread -> Thread \cup Lock \cup {None}]
      /\ locksHeld \in [Thread -> SUBSET Lock]
  BY DEF IInv, TypeOK, SchedTypeOK
<1>2. ASSUME NEW t \in Thread, SemaDown(t) \/ SetHolder(t) \/ SemaUp(t)
      PROVE  DonationInv'
  <2>1. /\ UNCHANGED <<blockedBy, lockMax, priority, originalPri, locksHeld>>
        /\ \/ /\ pc[t] \in {"down", "waiting"} /\ pc'[t] \in {"waiting", "got"} /\ arg' = arg
           \/ /\ pc[t] \in {"sethold", "up"} /\ pc'[t] = "run"
        /\ \A u \in Thread \ {t} : pc'[u] = pc[u] /\ arg'[u] = arg[u]
    BY <1>1, <1>2 DEF SemaDown, SetHolder, SemaUp, Running
  <2>2. \A u \in Thread : (InLine(u)' <=> InLine(u)) /\ (InLine(u) => arg'[u] = arg[u])
    BY <2>1 DEF InLine
  <2> QED
    BY <2>1, <2>2, QuietDonations
<1>3. ASSUME NEW t \in Thread, TryAcquired(t) \/ \E l \in Lock : SemaTryDown(t, l)
      PROVE  DonationInv'
  <2>1. /\ UNCHANGED <<blockedBy, lockMax, priority, originalPri>>
        /\ pc[t] \in {"run", "tried"} /\ pc'[t] \in {"run", "tried"}
        /\ \A u \in Thread \ {t} : /\ pc'[u] = pc[u] /\ arg'[u] = arg[u]
                                   /\ locksHeld'[u] = locksHeld[u]
        /\ locksHeld[t] \subseteq locksHeld'[t]
    BY <1>1, <1>3 DEF TryAcquired, SemaTryDown, Running
  <2>2. blockedBy[t] = None
    BY <2>1 DEF DonationInv, InLine
  <2>3. \A u \in Thread : (InLine(u)' <=> InLine(u)) /\ (InLine(u) => arg'[u] = arg[u])
    BY <2>1 DEF InLine
  <2> QED
    BY <2>1, <2>2, <2>3, QuietDonations
<1> QED
  BY <1>2, <1>3, BeforeGettingInLineKeepsDonations, UponGettingTheLockKeepsDonations,
     LockReleaseKeepsDonations DEF LockStep

(* Donations are well founded in every reachable state.                     *)
LEMMA DonationInvariance == Spec => []DonationInv
<1>1. ASSUME Init
      PROVE  DonationInv
  <2>1. /\ \A t \in Thread : pc[t] = "run" /\ blockedBy[t] = None /\ priority[t] = originalPri[t]
        /\ \A l \in Lock : ~(lockMax[l] > 0)
    BY <1>1 DEF Init, SchedInit
  <2> QED
    BY <2>1 DEF DonationInv, InLine
<1>2. ASSUME IInv, DonationInv, [Next]_vars
      PROVE  DonationInv'
  <2>1. CASE Next
    BY <1>2, <2>1, SchedulerKeepsDonations, LocksKeepDonations DEF Next
  <2>2. CASE UNCHANGED vars
    <3>1. UNCHANGED <<pc, arg, priority, originalPri, lockMax, locksHeld, blockedBy>>
      BY <2>2 DEF vars, schedVars, lockVars
    <3> QED
      BY <1>2, <3>1, QuietDonations DEF InLine
  <2> QED
    BY <1>2, <2>1, <2>2
<1> QED
  BY <1>1, <1>2, Invariance, PTL DEF Spec

(* A thread that does not have its own priority has it from somebody in     *)
(* line for a lock it holds.                                                *)
LEMMA OtherPriorityHasDonor ==
  ASSUME IInv, DonationInv, NEW t \in Thread, priority[t] # originalPri[t]
  PROVE  \E u \in Thread \ {t} : blockedBy[u] \in locksHeld[t] /\ priority[u] >= priority[t]
<1>1. locksHeld[t] \subseteq Lock
  BY DEF IInv, TypeOK
<1>2. PICK l \in locksHeld[t], u \in Thread : blockedBy[u] = l /\ priority[u] >= priority[t]
  BY DEF DonationInv, Donor
<1>3. u # t
  BY <1>1, <1>2, LockAssumption DEF DonationInv
<1> QED
  BY <1>2, <1>3

(* A thread that has more than its own priority owes it to somebody in line *)
(* for a lock it holds, however donations were chained, locks released and  *)
(* base priorities changed in between.                                      *)
THEOREM DonationsHaveDonors == Spec => []DonationHasDonor
<1>1. ASSUME IInv, DonationInv, NEW t \in Thread, priority[t] > originalPri[t]
      PROVE  \E u \in Thread \ {t} : blockedBy[u] \in locksHeld[t] /\ priority[u] >= priority[t]
  <2>1. priority[t] # originalPri[t]
    BY <1>1, PriorityAssumption DEF IInv, TypeOK, SchedTypeOK, Priority
  <2> QED
    BY <1>1, <2>1, OtherPriorityHasDonor
<1>2. IInv /\ DonationInv => DonationHasDonor
  BY <1>1 DEF DonationHasDonor
<1> QED
  BY <1>2, Invariance, DonationInvariance, PTL

(* thread_set_priority: a thread that has less than its own priority, which *)
(* it has raised above a donation, has that of somebody in line for a lock  *)
(* it holds; its last lock_release gives it its own.                        *)
THEOREM LoweredHaveDonors == Spec => []BelowBaseHasDonor
<1>1. ASSUME IInv, DonationInv, NEW t \in Thread, priority[t] < originalPri[t]
      PROVE  \E u \in Thread \ {t} : blockedBy[u] \in locksHeld[t] /\ priority[u] >= priority[t]
  <2>1. priority[t] # originalPri[t]
    BY <1>1, PriorityAssumption DEF IInv, TypeOK, SchedTypeOK, Priority
  <2> QED
    BY <1>1, <2>1, OtherPriorityHasDonor
<1>2. IInv /\ DonationInv => BelowBaseHasDonor
  BY <1>1 DEF BelowBaseHasDonor
<1> QED
  BY <1>2, Invariance, DonationInvariance, PTL

(* No thread that has a donation sets its base priority above it.           *)
NoOvertaking ==
  \A t \in Thread : originalPri'[t] > priority[t] => priority[t] = originalPri[t]

(* Nobody is below its base priority.                                       *)
AboveBase == ~panicked /\ \A t \in Thread : originalPri[t] <= priority[t]

LEMMA StepKeepsAboveBase ==
  ASSUME IInv, AboveBase, Next, NoOvertaking
  PROVE  AboveBase'
<1>1. /\ priority \in [Thread -> Priority] /\ originalPri \in [Thread -> Priority]
      /\ locksHeld \in [Thread -> SUBSET Lock] /\ lockMax \in [Lock -> Priority]
      /\ Priority \subseteq Int
  BY PriorityAssumption DEF IInv, TypeOK, SchedTypeOK, Priority
<1>2. CASE UNCHANGED <<priority, originalPri, panicked>>
  BY <1>2 DEF AboveBase
<1>3. ASSUME NEW t \in Thread, NEW p \in PriorityChoices, SetPriority(t, p), UNCHANGED panicked
      PROVE  AboveBase'
  <2>1. /\ originalPri' = [originalPri EXCEPT ![t] = p]
        /\ priority' = IF priority[t] = originalPri[t] THEN [priority EXCEPT ![t] = p] ELSE priority
    BY <1>3 DEF SetPriority
  <2>2. p \in Int /\ priority[t] \in Int
    BY <1>1, PriorityAssumption
  <2>3. originalPri'[t] = p /\ (p > priority[t] => priority[t] = originalPri[t])
    BY <1>1, <2>1 DEF NoOvertaking
  <2>4. originalPri'[t] <= priority'[t]
    BY <1>1, <2>1, <2>2, <2>3
  <2>5. \A u \in Thread \ {t} : originalPri'[u] = originalPri[u] /\ priority'[u] = priority[u]
    BY <1>1, <2>1
  <2> QED
    BY <1>3, <2>4, <2>5 DEF AboveBase
<1>4. ASSUME NEW t \in Thread, NEW l \in Lock, LockRelease(t, l)
      PROVE  AboveBase'
  <2> DEFINE T == {originalPri[t]} \cup {lockMax[m] : m \in locksHeld[t] \ {l}}
  <2>1. T \in SUBSET Priority /\ T # {} /\ originalPri[t] \in T
    BY <1>1
  <2>2. originalPri[t] <= Max(T)
    BY <2>1, MaxNat, PriorityAssumption DEF Priority
  <2>3. UNCHANGED <<originalPri, panicked>> /\ priority' = [priority EXCEPT ![t] = Max(T)]
    BY <1>4 DEF LockRelease, PriorityWith
  <2> HIDE DEF T
  <2> QED
    BY <1>1, <2>2, <2>3 DEF AboveBase
<1>5. ASSUME NEW t \in Thread, NEW l \in Lock, BeforeGettingInLine(t, l)
      PROVE  AboveBase'
  <2>1. PICK p \in Priority : p = priority[t]
    BY <1>1
  <2> DEFINE raised == [u \in Thread |-> IF u \in Donees(l, p) THEN p ELSE priority[u]]
  <2>2. /\ originalPri' = originalPri
        /\ \/ /\ priority' = raised
              /\ panicked' = \E u \in Examined(t, l, p) : originalPri[u] > priority[u]
           \/ UNCHANGED <<priority, panicked>>
    BY <1>5, <2>1 DEF BeforeGettingInLine
  <2>3. CASE UNCHANGED <<priority, panicked>>
    BY <2>2, <2>3 DEF AboveBase
  <2>4. CASE /\ priority' = raised
             /\ panicked' = \E u \in Examined(t, l, p) : originalPri[u] > priority[u]
    <3>1. \A u \in Thread : originalPri[u] \in Int /\ priority[u] \in Int /\ p \in Int
      BY <1>1
    <3>2. ~panicked'
      <4>1. \A u \in Examined(t, l, p) : u \in Thread
        BY DEF Examined
      <4>2. \A u \in Thread : ~(originalPri[u] > priority[u])
        BY <3>1 DEF AboveBase
      <4> QED
        BY <2>4, <4>1, <4>2
    <3>3. \A u \in Donees(l, p) : priority[u] < p
      BY DoneesHoldLocks
    <3>4. ASSUME NEW u \in Thread
          PROVE  originalPri'[u] <= priority'[u]
      <4>1. originalPri[u] <= priority[u]
        BY DEF AboveBase
      <4>2. CASE u \in Donees(l, p)
        <5>1. priority'[u] = p /\ priority[u] < p
          BY <2>4, <3>3, <4>2
        <5> QED
          BY <2>2, <3>1, <4>1, <5>1
      <4>3. CASE u \notin Donees(l, p)
        BY <2>2, <2>4, <4>1, <4>3
      <4> QED
        BY <4>2, <4>3
    <3> QED
      BY <3>2, <3>4 DEF AboveBase
  <2> QED
    BY <2>2, <2>3, <2>4
<1>6. CASE SchedulerStep
  BY <1>2, <1>3, <1>6 DEF SchedulerStep, ThreadCreate, ThreadCreated, SetPriorityYield,
                          ThreadExit, Sleep, Wake, Preempt
<1>7. CASE LockStep
  BY <1>2, <1>4, <1>5, <1>7 DEF LockStep, SemaTryDown, SemaDown, UponGettingTheLock, SetHolder,
                                TryAcquired, SemaUp
<1> QED
  BY <1>6, <1>7 DEF Next

(* The ASSERTs of update_priorities hold as long as nobody who has a        *)
(* donation calls thread_set_priority with more than it: that call leaves   *)
(* the priority and raises the base priority above it, and the next         *)
(* donation that comes by stops the kernel.                                 *)
THEOREM AssertsHold == Spec /\ [][NoOvertaking]_vars => []~panicked
<1>1. Init => AboveBase
  <2>1. ASSUME Init PROVE AboveBase
    <3>1. \A t \in Thread : priority[t] = BasePri[t] /\ originalPri[t] = BasePri[t]
      BY <2>1 DEF Init, SchedInit
    <3>2. \A t \in Thread : BasePri[t] \in Int
      BY PriorityAssumption DEF Priority
    <3>3. ~panicked
      BY <2>1 DEF Init
    <3> QED
      BY <3>1, <3>2, <3>3 DEF AboveBase
  <2> QED
    BY <2>1
<1>2. IInv /\ AboveBase /\ [Next]_vars /\ [NoOvertaking]_vars => AboveBase'
  <2>1. CASE UNCHANGED vars
    BY <2>1 DEF vars, schedVars, AboveBase
  <2> QED
    BY <2>1, StepKeepsAboveBase
<1>3. AboveBase => ~panicked
  BY DEF AboveBase
<1> QED
  BY <1>1, <1>2, <1>3, Invariance, PTL DEF Spec

(***************************************************************************)
(* Monitor: the inductive invariant                                         *)
(***************************************************************************)

MonTypes ==
  /\ condWaiters \in Seq(Thread)
  /\ recorded \in [Thread -> Priority]
  /\ signals \in [Thread -> Nat]
  /\ call \in [Thread -> Calls]

(* Where a thread is in cond_wait, whether it has its signal, and whether   *)
(* it is on cond.waiters, agree.                                            *)
CondInv ==
  /\ IsInjective(condWaiters)
  /\ \A t \in Thread :
       /\ t \in ToSet(condWaiters) <=> (call[t] \in {"release", "down"} /\ signals[t] = 0)
       /\ signals[t] <= 1
       /\ pc[t] = "condwait" =>
            call[t] = "down" /\ (status[t] = "blocked" <=> signals[t] = 0)

MonInv == IInv /\ MonTypes /\ CondInv

(***************************************************************************)
(* Steps of the scheduler and of the locks                                  *)
(***************************************************************************)

(* What a step leaves of the threads that are in the loop of cond_wait's    *)
(* sema_down.                                                               *)
WaitersRest ==
  \A t \in Thread : /\ pc'[t] = "condwait" <=> pc[t] = "condwait"
                    /\ pc[t] = "condwait" => (status'[t] = "blocked" <=> status[t] = "blocked")

(* A context switch that blocks and unblocks nobody in cond_wait.           *)
LEMMA SwitchRests ==
  ASSUME NEW st, Dispatched(st),
         \A t \in Thread : pc'[t] = "condwait" <=> pc[t] = "condwait",
         \A t \in Thread : pc[t] = "condwait" => (st[t] = "blocked" <=> status[t] = "blocked")
  PROVE  WaitersRest
BY DEF Dispatched, WaitersRest

LEMMA SchedulerRests ==
  ASSUME IInv, SchedulerStep
  PROVE  WaitersRest
<1>1. /\ pc \in [Thread -> PC] /\ status \in [Thread -> Status]
      /\ \A t \in Thread : status[t] = "running" <=> running = t
  BY SchedulerConsistent DEF IInv, TypeOK, SchedTypeOK
<1>2. ASSUME NEW t \in Thread, pc[t] # "condwait", NEW x \in PC \ {"condwait"},
             pc' = [pc EXCEPT ![t] = x] \/ pc' = pc,
             NEW st, Dispatched(st) \/ st = status',
             \A u \in Thread \ {t} : st[u] = "blocked" <=> status[u] = "blocked"
      PROVE  WaitersRest
  <2>1. \A u \in Thread : pc'[u] = "condwait" <=> pc[u] = "condwait"
    BY <1>1, <1>2
  <2>2. \A u \in Thread : pc[u] = "condwait" => (st[u] = "blocked" <=> status[u] = "blocked")
    BY <1>2
  <2> QED
    BY <1>2, <2>1, <2>2, SwitchRests DEF WaitersRest
<1>3. ASSUME NEW t \in Thread, NEW u \in Thread, ThreadCreate(t, u)
      PROVE  WaitersRest
  <2>1. /\ pc[t] = "run" /\ pc' = [pc EXCEPT ![t] = "created"]
        /\ status[u] = "unborn" /\ status' = [status EXCEPT ![u] = "ready"]
    BY <1>3 DEF ThreadCreate, Running, StatusWith
  <2>2. \A v \in Thread : status'[v] = "blocked" <=> status[v] = "blocked"
    BY <1>1, <2>1
  <2> QED
    BY <1>1, <2>1, <2>2 DEF WaitersRest
<1>4. ASSUME NEW t \in Thread, NEW p \in PriorityChoices, SetPriority(t, p)
      PROVE  WaitersRest
  BY <1>1, <1>4 DEF SetPriority, Running, WaitersRest
<1>5. ASSUME NEW t \in Thread, ThreadCreated(t) \/ SetPriorityYield(t)
      PROVE  WaitersRest
  <2>1. /\ pc[t] \in {"created", "yield"} /\ pc' = [pc EXCEPT ![t] = "run"]
        /\ Yield \/ status' = status
    BY <1>5 DEF ThreadCreated, SetPriorityYield, Running
  <2>2. Dispatched(status) \/ status' = status
    BY <2>1, PlainYield
  <2> QED
    BY <1>2, <2>1, <2>2 DEF PC
<1>6. ASSUME NEW t \in Thread, ThreadExit(t) \/ Sleep(t)
      PROVE  WaitersRest
  <2>1. PICK x \in {"blocked", "dying"} :
          /\ running = t /\ pc[t] = "run" /\ (pc' = pc \/ pc' = [pc EXCEPT ![t] = "asleep"])
          /\ Schedule(readyList, [status EXCEPT ![t] = x])
    BY <1>6 DEF ThreadExit, Sleep, Running, Block
  <2>2. Dispatched([status EXCEPT ![t] = x])
    BY <2>1, ScheduleAway
  <2>3. \A u \in Thread : u # t => [status EXCEPT ![t] = x][u] = status[u]
    BY <1>1
  <2>4. \A u \in Thread : pc'[u] = "condwait" <=> pc[u] = "condwait"
    BY <1>1, <2>1
  <2> QED
    BY <2>1, <2>2, <2>3, <2>4, SwitchRests
<1>7. ASSUME NEW t \in Thread, Wake(t)
      PROVE  WaitersRest
  <2>1. Dispatched(StatusWith(t)) /\ pc[t] = "asleep" /\ pc' = [pc EXCEPT ![t] = "run"]
    BY <1>7, YieldAfterUnblock DEF Wake
  <2>2. \A u \in Thread \ {t} : StatusWith(t)[u] = status[u]
    BY <1>1 DEF StatusWith
  <2> QED
    BY <1>2, <2>1, <2>2 DEF PC
<1>8. CASE Preempt
  BY <1>8, PlainYield, SwitchRests DEF Preempt
<1> QED
  BY <1>3, <1>4, <1>5, <1>6, <1>7, <1>8 DEF SchedulerStep

LEMMA LocksRest ==
  ASSUME IInv, LockStep
  PROVE  WaitersRest
<1>1. /\ pc \in [Thread -> PC] /\ status \in [Thread -> Status]
  BY SchedulerConsistent DEF IInv, TypeOK, SchedTypeOK
<1>2. ASSUME NEW t \in Thread, NEW l \in Lock,
             BeforeGettingInLine(t, l) \/ SemaTryDown(t, l) \/ LockRelease(t, l)
      PROVE  WaitersRest
  BY <1>1, <1>2 DEF BeforeGettingInLine, SemaTryDown, LockRelease, Running, WaitersRest
<1>3. ASSUME NEW t \in Thread, UponGettingTheLock(t) \/ SetHolder(t) \/ TryAcquired(t)
      PROVE  WaitersRest
  BY <1>1, <1>3 DEF UponGettingTheLock, SetHolder, TryAcquired, Running, WaitersRest
<1>4. ASSUME NEW t \in Thread, SemaDown(t)
      PROVE  WaitersRest
  <2>1. /\ running = t /\ pc[t] \in {"down", "waiting"}
        /\ pc' = [pc EXCEPT ![t] = "got"] \/ pc' = [pc EXCEPT ![t] = "waiting"]
    BY <1>4 DEF SemaDown
  <2>2. CASE status' = status
    BY <1>1, <2>1, <2>2 DEF WaitersRest
  <2>3. CASE Block(t)
    <3>1. Dispatched([status EXCEPT ![t] = "blocked"])
      BY <2>1, <2>3, ScheduleAway DEF Block
    <3>2. \A u \in Thread : u # t => [status EXCEPT ![t] = "blocked"][u] = status[u]
      BY <1>1
    <3>3. \A u \in Thread : pc'[u] = "condwait" <=> pc[u] = "condwait"
      BY <1>1, <2>1
    <3> QED
      BY <2>1, <3>1, <3>2, <3>3, SwitchRests
  <2> QED
    BY <1>4, <2>2, <2>3 DEF SemaDown
<1>5. ASSUME NEW t \in Thread, SemaUp(t)
      PROVE  WaitersRest
  <2>1. pc[t] = "up" /\ arg[t] \in Lock /\ pc' = [pc EXCEPT ![t] = "run"]
    BY <1>5 DEF SemaUp, Running, IInv, ArgInv
  <2>2. PICK st \in [Thread -> Status], woken \in SUBSET Thread : HandsOver(arg[t], st, woken)
    BY <1>5, <2>1, SemaUpHandsOver
  <2>3. \A u \in Thread : pc[u] = "condwait" => u \notin woken
    BY <2>2 DEF HandsOver, WaitsFor
  <2>4. \A u \in Thread : pc[u] = "condwait" => (st[u] = "blocked" <=> status[u] = "blocked")
    BY <2>2, <2>3 DEF HandsOver
  <2>5. \A u \in Thread : pc'[u] = "condwait" <=> pc[u] = "condwait"
    BY <1>1, <2>1
  <2> QED
    BY <2>2, <2>4, <2>5, SwitchRests DEF HandsOver
<1> QED
  BY <1>2, <1>3, <1>4, <1>5 DEF LockStep

(* What is not the condition variable's business.                           *)
LEMMA OtherStepKeeps ==
  ASSUME MonInv, OtherStep
  PROVE  MonInv'
<1>1. UNCHANGED <<condWaiters, recorded, signals, call>>
  BY DEF OtherStep, monVars
<1>2. IInv' /\ WaitersRest
  <2>1. CASE Next
    BY <2>1, NextKeeps, SchedulerRests, LocksRest DEF MonInv, Next
  <2>2. CASE Interrupted
    <3>1. SchedulerStep
      BY <2>2 DEF Interrupted, SchedulerStep
    <3> QED
      BY <3>1, SchedulerStepKeeps, SchedulerRests DEF MonInv
  <2> QED
    BY <2>1, <2>2 DEF OtherStep
<1>3. CondInv'
  BY <1>1, <1>2 DEF MonInv, CondInv, WaitersRest
<1> QED
  BY <1>1, <1>2, <1>3 DEF MonInv, MonTypes

(***************************************************************************)
(* cond_wait() and cond_signal()                                            *)
(***************************************************************************)

LEMMA CondWaitKeeps ==
  ASSUME MonInv, NEW t \in Thread, CondWait(t)
  PROVE  MonInv'
<1>1. /\ pc[t] = "run" /\ call[t] = "none" /\ UNCHANGED vars
      /\ recorded' = [recorded EXCEPT ![t] = priority[t]]
      /\ signals' = [signals EXCEPT ![t] = 0] /\ call' = [call EXCEPT ![t] = "release"]
      /\ condWaiters' = InsertDescending(condWaiters, t, recorded')
  BY DEF CondWait, HoldsMonitor, Running
<1>2. IInv'
  BY <1>1, NextKeeps DEF MonInv
<1>3. /\ recorded' \in [Thread -> Priority] /\ signals' \in [Thread -> Nat]
      /\ call' \in [Thread -> Calls] /\ priority \in [Thread -> Priority]
  BY <1>1, SchedulerConsistent DEF MonInv, MonTypes, Calls
<1>4. t \notin ToSet(condWaiters)
  BY <1>1 DEF MonInv, CondInv
<1>5. /\ condWaiters' \in Seq(Thread) /\ IsInjective(condWaiters')
      /\ ToSet(condWaiters') = ToSet(condWaiters) \cup {t}
  <2>1. PICK key \in [Thread -> Priority] : key = recorded'
    BY <1>3
  <2>2. key \in [Thread -> Int] /\ condWaiters \in Seq(Thread) /\ IsInjective(condWaiters)
    BY PriorityIsInt DEF MonInv, MonTypes, CondInv
  <2>3. LET w == InsertDescending(condWaiters, t, key)
        IN  w \in Seq(Thread) /\ IsInjective(w) /\ ToSet(w) = ToSet(condWaiters) \cup {t}
    BY <1>4, <2>2, InsertDescendingCorrect
  <2> QED
    BY <1>1, <2>1, <2>3
<1>6. /\ signals'[t] = 0 /\ call'[t] = "release"
      /\ \A u \in Thread : u # t => signals'[u] = signals[u] /\ call'[u] = call[u]
  BY <1>1 DEF MonInv, MonTypes
<1>7. UNCHANGED <<pc, status>>
  BY <1>1 DEF vars, schedVars
<1>8. ASSUME NEW u \in Thread
      PROVE  /\ u \in ToSet(condWaiters') <=> (call'[u] \in {"release", "down"} /\ signals'[u] = 0)
             /\ signals'[u] <= 1
             /\ pc'[u] = "condwait" =>
                  call'[u] = "down" /\ (status'[u] = "blocked" <=> signals'[u] = 0)
  <2>1. CASE u = t
    <3>1. t \in ToSet(condWaiters') /\ pc'[t] = "run"
      BY <1>1, <1>5, <1>7
    <3> QED
      BY <1>6, <2>1, <3>1
  <2>2. CASE u # t
    BY <1>5, <1>6, <1>7, <2>2 DEF MonInv, CondInv
  <2> QED
    BY <2>1, <2>2
<1>9. CondInv'
  BY <1>5, <1>8 DEF CondInv
<1> QED
  BY <1>2, <1>3, <1>5, <1>9 DEF MonInv, MonTypes

(* The two calls that cond_wait makes of lock_release and lock_acquire.     *)
LEMMA CondReleaseKeeps ==
  ASSUME MonInv, NEW t \in Thread, CondRelease(t)
  PROVE  MonInv'
<1>1. /\ call[t] = "release" /\ LockRelease(t, CondLock)
      /\ call' = [call EXCEPT ![t] = "down"] /\ UNCHANGED <<condWaiters, recorded, signals>>
  BY DEF CondRelease
<1>2. IInv' /\ WaitersRest /\ pc[t] = "run"
  BY <1>1, LockReleaseKeeps, LocksRest, CondLockAssumption DEF MonInv, LockStep, LockRelease, Running
<1>3. /\ call' \in [Thread -> Calls] /\ call'[t] = "down"
      /\ \A u \in Thread : u # t => call'[u] = call[u]
  BY <1>1 DEF MonInv, MonTypes, Calls
<1>4. CondInv'
  BY <1>1, <1>2, <1>3 DEF MonInv, CondInv, WaitersRest
<1> QED
  BY <1>1, <1>2, <1>3, <1>4 DEF MonInv, MonTypes

LEMMA CondReacquireKeeps ==
  ASSUME MonInv, NEW t \in Thread, CondReacquire(t)
  PROVE  MonInv'
<1>1. /\ call[t] = "reacquire" /\ BeforeGettingInLine(t, CondLock)
      /\ call' = [call EXCEPT ![t] = "none"] /\ UNCHANGED <<condWaiters, recorded, signals>>
  BY DEF CondReacquire
<1>2. IInv' /\ WaitersRest /\ pc[t] = "run"
  BY <1>1, BeforeGettingInLineKeeps, LocksRest, CondLockAssumption
     DEF MonInv, LockStep, BeforeGettingInLine, Running
<1>3. /\ call' \in [Thread -> Calls] /\ call'[t] = "none"
      /\ \A u \in Thread : u # t => call'[u] = call[u]
  BY <1>1 DEF MonInv, MonTypes, Calls
<1>4. CondInv'
  BY <1>1, <1>2, <1>3 DEF MonInv, CondInv, WaitersRest
<1> QED
  BY <1>1, <1>2, <1>3, <1>4 DEF MonInv, MonTypes

(* sema_down of the private semaphore.                                      *)
LEMMA CondDownKeeps ==
  ASSUME MonInv, NEW t \in Thread, CondDown(t)
  PROVE  MonInv'
<1>1. /\ running = t /\ call[t] = "down" /\ pc[t] \in {"run", "condwait"}
      /\ UNCHANGED <<priority, originalPri, arg, lockVars, panicked, condWaiters, recorded>>
  BY DEF CondDown
<1>2. /\ pc \in [Thread -> PC] /\ status \in [Thread -> Status]
      /\ priority \in [Thread -> Priority] /\ originalPri \in [Thread -> Priority]
      /\ signals \in [Thread -> Nat] /\ call \in [Thread -> Calls]
      /\ status[t] = "running"
  BY <1>1, SchedulerConsistent DEF MonInv, MonTypes, IInv, TypeOK, SchedTypeOK
<1>3. CASE signals[t] > 0
  <2>1. /\ signals' = [signals EXCEPT ![t] = @ - 1] /\ pc' = [pc EXCEPT ![t] = "run"]
        /\ call' = [call EXCEPT ![t] = "reacquire"] /\ UNCHANGED <<running, status, readyList>>
    BY <1>2, <1>3 DEF CondDown
  <2>2. IInv'
    BY <1>1, <1>2, <2>1, PlainStep DEF MonInv
  <2>3. signals[t] = 1
    BY <1>2, <1>3 DEF MonInv, CondInv
  <2>4. /\ signals' \in [Thread -> Nat] /\ call' \in [Thread -> Calls]
        /\ signals'[t] = 0 /\ call'[t] = "reacquire" /\ pc'[t] = "run"
        /\ \A u \in Thread : u # t => /\ signals'[u] = signals[u] /\ call'[u] = call[u]
                                     /\ pc'[u] = pc[u]
    BY <1>2, <2>1, <2>3 DEF Calls
  <2>5. t \notin ToSet(condWaiters)
    BY <2>3 DEF MonInv, CondInv
  <2>6. CondInv'
    BY <1>1, <2>1, <2>4, <2>5 DEF MonInv, CondInv
  <2> QED
    BY <1>1, <2>2, <2>4, <2>6 DEF MonInv, MonTypes
<1>4. CASE signals[t] = 0
  <2> DEFINE st == [status EXCEPT ![t] = "blocked"]
  <2>1. /\ pc' = [pc EXCEPT ![t] = "condwait"] /\ Schedule(readyList, st)
        /\ UNCHANGED <<signals, call>>
    BY <1>4 DEF CondDown, Block
  <2>2. Dispatched(st)
    BY <1>1, <2>1, ScheduleAway DEF MonInv
  <2>3. /\ st \in [Thread -> Status]
        /\ \A u \in Thread : st[u] = IF u = t THEN "blocked" ELSE status[u]
    BY <1>2 DEF Status
  <2> HIDE DEF st
  <2>4. IInv'
    BY <1>1, <2>1, <2>2, <2>3, PlainSwitch DEF MonInv, PC
  <2>5. \A u \in Thread : status'[u] = "blocked" <=> st[u] = "blocked"
    BY <2>2 DEF Dispatched
  <2>6. pc'[t] = "condwait" /\ \A u \in Thread : u # t => pc'[u] = pc[u]
    BY <1>2, <2>1
  <2>7. CondInv'
    BY <1>1, <1>4, <2>1, <2>3, <2>5, <2>6 DEF MonInv, CondInv
  <2> QED
    BY <1>1, <2>1, <2>4, <2>7 DEF MonInv, MonTypes
<1> QED
  BY <1>3, <1>4 DEF CondDown

(* cond_signal, and a round of cond_broadcast.                              *)
LEMMA SignalKeeps ==
  ASSUME MonInv, NEW t \in Thread, running = t, pc[t] = "run", Signal(t),
         call[t] \in {"none", "broadcast"},
         NEW x \in {"none", "broadcast"}, call' = [call EXCEPT ![t] = x]
  PROVE  MonInv'
<1>1. PICK w : w = Head(condWaiters)
  OBVIOUS
<1>2. /\ condWaiters # <<>> /\ condWaiters' = Tail(condWaiters)
      /\ signals' = [signals EXCEPT ![w] = @ + 1]
      /\ IF pc[w] = "condwait" THEN YieldWith(QueueWith(w), StatusWith(w)) ELSE Yield
      /\ UNCHANGED <<priority, originalPri, pc, arg, lockVars, panicked, recorded>>
  BY <1>1 DEF Signal, SignalsAfter
<1>3. /\ condWaiters \in Seq(Thread) /\ IsInjective(condWaiters)
      /\ signals \in [Thread -> Nat] /\ call \in [Thread -> Calls]
      /\ pc \in [Thread -> PC] /\ status \in [Thread -> Status]
      /\ arg \in [Thread -> Thread \cup Lock \cup {None}]
  BY SchedulerConsistent DEF MonInv, MonTypes, CondInv, IInv, TypeOK, SchedTypeOK
<1>4. /\ w \in Thread /\ w \in ToSet(condWaiters)
      /\ condWaiters' \in Seq(Thread) /\ IsInjective(condWaiters')
      /\ ToSet(condWaiters) = ToSet(condWaiters') \cup {w} /\ w \notin ToSet(condWaiters')
  BY <1>1, <1>2, <1>3, PopFrontCorrect
<1>5. /\ call[w] \in {"release", "down"} /\ signals[w] = 0 /\ w # t
      /\ pc[w] = "condwait" => call[w] = "down" /\ status[w] = "blocked"
  BY <1>4 DEF MonInv, CondInv
<1>6. /\ signals' \in [Thread -> Nat] /\ signals'[w] = 1
      /\ \A u \in Thread : u # w => signals'[u] = signals[u]
      /\ call' \in [Thread -> Calls] /\ call'[t] = x
      /\ \A u \in Thread : u # t => call'[u] = call[u]
  BY <1>2, <1>3, <1>4, <1>5 DEF Calls
<1>7. IInv' /\ \A u \in Thread : pc[u] = "condwait" =>
                  (status'[u] = "blocked" <=> status[u] = "blocked" /\ u # w)
  <2>1. CASE pc[w] = "condwait"
    <3>1. /\ Dispatched(StatusWith(w)) /\ StatusWith(w) \in [Thread -> Status]
          /\ \A u \in Thread : StatusWith(w)[u] = IF u = w THEN "ready" ELSE status[u]
      BY <1>2, <1>3, <1>4, <1>5, <2>1, YieldAfterUnblock DEF MonInv, StatusWith, Status
    <3>2. pc' = [pc EXCEPT ![w] = "condwait"]
      BY <1>2, <1>3, <2>1
    <3>3. IInv'
      BY <1>2, <1>4, <2>1, <3>1, <3>2, PlainSwitch DEF MonInv, PC
    <3>4. \A u \in Thread : status'[u] = "blocked" <=> StatusWith(w)[u] = "blocked"
      BY <3>1 DEF Dispatched
    <3> QED
      BY <3>1, <3>3, <3>4
  <2>2. CASE pc[w] # "condwait"
    <3>1. Yield
      BY <1>2, <2>2
    <3>2. Dispatched(status) /\ IInv'
      BY <1>2, <3>1, PlainYield, YieldKeeps DEF MonInv
    <3>3. \A u \in Thread : status'[u] = "blocked" <=> status[u] = "blocked"
      BY <3>2 DEF Dispatched
    <3> QED
      BY <2>2, <3>2, <3>3
  <2> QED
    BY <2>1, <2>2
<1>8. CondInv'
  <2>1. ASSUME NEW u \in Thread
        PROVE  u \in ToSet(condWaiters') <=> (call'[u] \in {"release", "down"} /\ signals'[u] = 0)
    <3>1. u \in ToSet(condWaiters) <=> (call[u] \in {"release", "down"} /\ signals[u] = 0)
      BY DEF MonInv, CondInv
    <3>2. CASE u = w
      BY <1>4, <1>6, <3>2
    <3>3. CASE u = t
      BY <1>4, <1>5, <1>6, <3>1, <3>3
    <3>4. CASE u # w /\ u # t
      BY <1>4, <1>6, <3>1, <3>4
    <3> QED
      BY <3>2, <3>3, <3>4
  <2>2. ASSUME NEW u \in Thread
        PROVE  /\ signals'[u] <= 1
               /\ pc'[u] = "condwait" =>
                    call'[u] = "down" /\ (status'[u] = "blocked" <=> signals'[u] = 0)
    <3>1. /\ signals[u] <= 1
          /\ pc[u] = "condwait" => call[u] = "down" /\ (status[u] = "blocked" <=> signals[u] = 0)
      BY DEF MonInv, CondInv
    <3>2. CASE u = w
      BY <1>2, <1>5, <1>6, <1>7, <3>1, <3>2
    <3>3. CASE u # w
      BY <1>2, <1>5, <1>6, <1>7, <3>1, <3>3
    <3> QED
      BY <3>2, <3>3
  <2> QED
    BY <1>4, <2>1, <2>2 DEF CondInv
<1> QED
  BY <1>2, <1>4, <1>6, <1>7, <1>8 DEF MonInv, MonTypes

(***************************************************************************)
(* Invariance                                                               *)
(***************************************************************************)

LEMMA MonitorStepKeeps ==
  ASSUME MonInv, MonitorStep
  PROVE  MonInv'
<1>1. ASSUME NEW t \in Thread, CondSignal(t)
      PROVE  MonInv'
  <2>1. call \in [Thread -> Calls] /\ call' = call /\ call[t] = "none"
    BY <1>1 DEF CondSignal, MonInv, MonTypes
  <2>2. call' = [call EXCEPT ![t] = "none"]
    BY <2>1
  <2> QED
    BY <1>1, <2>1, <2>2, SignalKeeps DEF CondSignal, HoldsMonitor, Running
<1>2. ASSUME NEW t \in Thread, CondBroadcast(t)
      PROVE  MonInv'
  <2>1. PICK x \in {"none", "broadcast"} : call' = [call EXCEPT ![t] = x]
    BY <1>2 DEF CondBroadcast
  <2> QED
    BY <1>2, <2>1, SignalKeeps DEF CondBroadcast, HoldsMonitor, Running
<1> QED
  BY <1>1, <1>2, CondWaitKeeps, CondReleaseKeeps, CondDownKeeps, CondReacquireKeeps DEF MonitorStep

(* The inductive invariant holds in every reachable state.                  *)
THEOREM MonInvariance == MonSpec => []MonInv
<1>1. ASSUME MonInit
      PROVE  MonInv
  <2>1. /\ Init /\ condWaiters = <<>> /\ recorded = [t \in Thread |-> 0]
        /\ signals = [t \in Thread |-> 0] /\ call = [t \in Thread |-> "none"]
    BY <1>1 DEF MonInit
  <2>2. ToSet(<<>>) = {} /\ IsInjective(<<>>) /\ 0 \in Priority
    BY PriorityAssumption DEF ToSet, IsInjective, Priority
  <2>3. \A t \in Thread : pc[t] = "run"
    BY <2>1 DEF Init, SchedInit
  <2> QED
    BY <2>1, <2>2, <2>3, InitEstablishes DEF MonInv, MonTypes, CondInv, Calls
<1>2. ASSUME MonInv, [MonNext]_allVars
      PROVE  MonInv'
  <2>1. CASE UNCHANGED allVars
    <3>1. UNCHANGED <<vars, condWaiters, recorded, signals, call>>
      BY <2>1 DEF allVars, monVars
    <3>2. IInv' /\ UNCHANGED <<pc, status>>
      BY <1>2, <3>1, NextKeeps DEF MonInv, vars, schedVars
    <3> QED
      BY <1>2, <3>1, <3>2 DEF MonInv, MonTypes, CondInv
  <2> QED
    BY <1>2, <2>1, MonitorStepKeeps, OtherStepKeeps DEF MonNext
<1> QED
  BY <1>1, <1>2, PTL DEF MonSpec

(* The types of the condition variable, and those of the scheduler and the  *)
(* locks while cond_wait and cond_signal are used as well.                  *)
THEOREM MonTypeCorrect == MonSpec => []MonTypeOK
<1>1. MonInv => MonTypeOK
  BY DEF MonInv, MonTypes, MonTypeOK, IInv
<1> QED
  BY <1>1, MonInvariance, PTL

(* A signal is for one thread that got in line before it and is not lost,   *)
(* whether that thread has blocked, is between its lock_release and its     *)
(* sema_down, or has yet to release the lock.                               *)
THEOREM SignalsAreKept == MonSpec => []SignalsKept
<1>1. MonInv => SignalsKept
  BY DEF MonInv, CondInv, SignalsKept
<1> QED
  BY <1>1, MonInvariance, PTL
=============================================================================
