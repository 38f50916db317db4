------------------------------- MODULE Synch -------------------------------
(***************************************************************************)
(* threads/synch.c of the threads project (pintos-p1): semaphores, locks    *)
(* and priority donation, composed with the scheduler of module Scheduler.  *)
(*                                                                         *)
(* lock_acquire is four separately preemptible steps (announce and donate;  *)
(* sema_down, whose loop may block several times; record the lock; write    *)
(* the holder), lock_release is two (give up the lock and its donation;     *)
(* sema_up).  What happens between them is what this module is about.       *)
(*                                                                         *)
(* Client discipline, the one under which the kernel's callers are correct: *)
(* nobody acquires a lock it holds (an ASSERT), blocking acquisitions       *)
(* follow the order of the lock numbers, and nobody exits holding a lock.   *)
(***************************************************************************)
EXTENDS Scheduler

ASSUME LockAssumption == Lock \subseteq Int /\ IsFiniteSet(Lock) /\ None \notin Lock

VARIABLES value,       \* lock.semaphore.value
          waiters,     \* lock.semaphore.waiters, front first
          holder,      \* lock.holder
          lockMax,     \* lock.lock_max_priority
          locksHeld,   \* thread.locks_held, whose order no code depends on
          blockedBy,   \* thread.blocked_by
          panicked     \* an ASSERT has failed and the kernel has stopped

lockVars == <<value, waiters, holder, lockMax, locksHeld, blockedBy>>
vars == <<schedVars, lockVars, panicked>>

TypeOK ==
  /\ SchedTypeOK
  /\ value \in [Lock -> Nat]
  /\ waiters \in [Lock -> Seq(Thread)]
  /\ holder \in [Lock -> Thread \cup {None}]
  /\ lockMax \in [Lock -> Priority]
  /\ locksHeld \in [Thread -> SUBSET Lock]
  /\ blockedBy \in [Thread -> Lock \cup {None}]
  /\ panicked \in BOOLEAN

Init ==
  /\ SchedInit
  /\ value = [l \in Lock |-> 1]
  /\ waiters = [l \in Lock |-> <<>>]
  /\ holder = [l \in Lock |-> None]
  /\ lockMax = [l \in Lock |-> 0]
  /\ locksHeld = [t \in Thread |-> {}]
  /\ blockedBy = [t \in Thread |-> None]
  /\ panicked = FALSE

(***************************************************************************)
(* Donation: update_priorities()                                            *)
(***************************************************************************)

(* Who gets a donation of p through lock l: the lock's holder, if there is  *)
(* one and it has a lower priority.                                         *)
Receivers(l, p) == {u \in Thread : holder[l] = u /\ priority[u] < p}

(* A receiver passes the donation on only if its status is THREAD_BLOCKED   *)
(* and it is waiting for a lock.                                            *)
PassesOn(u) == status[u] = "blocked" /\ blockedBy[u] # None

(* The threads that update_priorities' loop raises to p, starting from a    *)
(* thread of priority p that waits for l: the least set that has l's        *)
(* receiver and the receivers of whatever its members wait for.  (Nobody is *)
(* raised to p twice, so the loop ends.)                                    *)
Donees(l, p) ==
  LET Closed(D) == /\ Receivers(l, p) \subseteq D
                   /\ \A u \in D : PassesOn(u) => Receivers(blockedBy[u], p) \subseteq D
  IN  {u \in Thread : \A D \in SUBSET Thread : Closed(D) => u \in D}

(* The threads whose priorities the loop's ASSERTs examine: the donor, and  *)
(* the holder of each lock on the way, the last of which gets no donation.  *)
Examined(t, l, p) ==
  ({t, holder[l]} \cup {holder[blockedBy[u]] : u \in {d \in Donees(l, p) : PassesOn(d)}})
    \cap Thread

(* A mutant of SortsReadyList: donation never sorts the ready list.         *)
NeverSorts(l, p) == FALSE

(* The loop falls through to sort_ready_list() only when its last donee     *)
(* was not blocked; every other way out is a return.                        *)
SortsReadyList(l, p) == \E u \in Donees(l, p) : status[u] # "blocked"

(* get_max_waiter_prio(): PRI_MIN without waiters.                          *)
MaxWaiterPriority(l) == Max({0} \cup {priority[u] : u \in ToSet(waiters[l])})

(***************************************************************************)
(* lock_acquire()                                                           *)
(***************************************************************************)

(* before_getting_in_line()                                                 *)
BeforeGettingInLine(t, l) ==
  /\ Running(t, "run")
  /\ \A m \in locksHeld[t] : m < l
  /\ blockedBy' = [blockedBy EXCEPT ![t] = l]
  /\ pc' = [pc EXCEPT ![t] = "down"]
  /\ arg' = [arg EXCEPT ![t] = l]
  /\ LET p == priority[t]
         raised == [u \in Thread |-> IF u \in Donees(l, p) THEN p ELSE priority[u]]
     IN  IF p > lockMax[l]
         THEN /\ lockMax' = [lockMax EXCEPT ![l] = p]
              /\ panicked' = \E u \in Examined(t, l, p) : originalPri[u] > priority[u]
              /\ priority' = raised
              /\ readyList' = IF SortsReadyList(l, p)
                              THEN ListSort(readyList, raised)
                              ELSE readyList
         ELSE UNCHANGED <<lockMax, panicked, priority, readyList>>
  /\ UNCHANGED <<running, status, originalPri, value, waiters, holder, locksHeld>>

(* Mutants of MustWait: "if" instead of "while", and a thread that never    *)
(* goes past others that are in line.                                       *)
WaitsOnce(t, l) == value[l] = 0 /\ pc[t] = "down"
WaitsBehindOthers(t, l) == value[l] = 0 \/ waiters[l] # <<>>

(* The condition of sema_down's loop, tested at its start and again each    *)
(* time the thread is woken.                                                *)
MustWait(t, l) == value[l] = 0

(* sema_down(): from its start, or from where schedule() returns inside the *)
(* loop, to the next thread_block() or to the end.                          *)
SemaDown(t) ==
  LET l == arg[t]
  IN  /\ running = t /\ pc[t] \in {"down", "waiting"}
      /\ \/ /\ ~MustWait(t, l)
            /\ value' = [value EXCEPT ![l] = @ - 1]
            /\ pc' = [pc EXCEPT ![t] = "got"]
            /\ UNCHANGED <<running, status, readyList, waiters>>
         \/ /\ MustWait(t, l)
            /\ waiters' = [waiters EXCEPT ![l] = InsertDescending(@, t, priority)]
            /\ pc' = [pc EXCEPT ![t] = "waiting"]
            /\ Block(t)
            /\ UNCHANGED value
      /\ UNCHANGED <<priority, originalPri, arg, holder, lockMax, locksHeld,
                     blockedBy, panicked>>

(* upon_getting_the_lock()                                                  *)
UponGettingTheLock(t) ==
  LET l == arg[t]
  IN  /\ Running(t, "got")
      /\ blockedBy' = [blockedBy EXCEPT ![t] = None]
      /\ locksHeld' = [locksHeld EXCEPT ![t] = @ \cup {l}]
      /\ lockMax' = [lockMax EXCEPT ![l] = MaxWaiterPriority(l)]
      /\ pc' = [pc EXCEPT ![t] = "sethold"]
      /\ UNCHANGED <<running, status, readyList, priority, originalPri, arg,
                     value, waiters, holder, panicked>>

(* lock->holder = thread_current(), with interrupts enabled: the end of     *)
(* lock_acquire().                                                          *)
SetHolder(t) ==
  /\ Running(t, "sethold")
  /\ holder' = [holder EXCEPT ![arg[t]] = t]
  /\ pc' = [pc EXCEPT ![t] = "run"]
  /\ arg' = [arg EXCEPT ![t] = None]
  /\ UNCHANGED <<running, status, readyList, priority, originalPri, value,
                 waiters, lockMax, locksHeld, blockedBy, panicked>>

(***************************************************************************)
(* lock_try_acquire()                                                       *)
(***************************************************************************)

(* A successful sema_try_down(); one that fails changes nothing.            *)
SemaTryDown(t, l) ==
  /\ Running(t, "run")
  /\ l \notin locksHeld[t]
  /\ value[l] > 0
  /\ value' = [value EXCEPT ![l] = @ - 1]
  /\ pc' = [pc EXCEPT ![t] = "tried"]
  /\ arg' = [arg EXCEPT ![t] = l]
  /\ UNCHANGED <<running, status, readyList, priority, originalPri, waiters,
                 holder, lockMax, locksHeld, blockedBy, panicked>>

(* The rest of lock_try_acquire(), with interrupts enabled.  Only the       *)
(* thread itself reads its locks_held, so one step does for both writes.    *)
TryAcquired(t) ==
  /\ Running(t, "tried")
  /\ locksHeld' = [locksHeld EXCEPT ![t] = @ \cup {arg[t]}]
  /\ holder' = [holder EXCEPT ![arg[t]] = t]
  /\ pc' = [pc EXCEPT ![t] = "run"]
  /\ arg' = [arg EXCEPT ![t] = None]
  /\ UNCHANGED <<running, status, readyList, priority, originalPri, value,
                 waiters, lockMax, blockedBy, panicked>>

(***************************************************************************)
(* lock_release()                                                           *)
(***************************************************************************)

(* Mutants of PriorityWith: a donation that is never given back, and one    *)
(* that is given back together with the base priority.                      *)
PriorityKept(t, kept) == priority[t]
DonationsOnly(t, kept) == Max({0} \cup {lockMax[m] : m \in kept})

(* update_thread_prio_based_on_locks_held() for a thread left with the      *)
(* locks `kept'.  For an empty list list_max() yields the list's tail, and  *)
(* what is then read as its lock_max_priority is the member after it in     *)
(* struct thread, blocked_by, which is null in a thread that releases.      *)
PriorityWith(t, kept) == Max({originalPri[t]} \cup {lockMax[m] : m \in kept})

LockRelease(t, l) ==
  /\ Running(t, "run")
  /\ holder[l] = t
  /\ holder' = [holder EXCEPT ![l] = None]
  /\ locksHeld' = [locksHeld EXCEPT ![t] = @ \ {l}]
  /\ priority' = [priority EXCEPT ![t] = PriorityWith(t, locksHeld[t] \ {l})]
  /\ pc' = [pc EXCEPT ![t] = "up"]
  /\ arg' = [arg EXCEPT ![t] = l]
  /\ UNCHANGED <<running, status, readyList, originalPri, value, waiters,
                 lockMax, blockedBy, panicked>>

(* A mutant of WaitersAfterPop: list_front where list_pop_front should be.  *)
NotPopped(sorted) == sorted

(* The waiters left when sema_up has popped the front of the sorted list.   *)
WaitersAfterPop(sorted) == Tail(sorted)

(* sema_up() outside an interrupt handler: wake the first of the sorted     *)
(* waiters, add one, and always yield.                                      *)
SemaUp(t) ==
  LET l == arg[t]
      sorted == ListSort(waiters[l], priority)
  IN  /\ Running(t, "up")
      /\ IF waiters[l] = <<>>
         THEN /\ Yield
              /\ UNCHANGED waiters
         ELSE /\ waiters' = [waiters EXCEPT ![l] = WaitersAfterPop(sorted)]
              /\ YieldWith(QueueWith(Head(sorted)), StatusWith(Head(sorted)))
      /\ value' = [value EXCEPT ![l] = @ + 1]
      /\ pc' = [pc EXCEPT ![t] = "run"]
      /\ arg' = [arg EXCEPT ![t] = None]
      /\ UNCHANGED <<priority, originalPri, holder, lockMax, locksHeld,
                     blockedBy, panicked>>

(***************************************************************************)
(* The whole system                                                         *)
(***************************************************************************)

SchedulerStep ==
  /\ \/ \E t, u \in Thread : ThreadCreate(t, u)
     \/ \E t \in Thread, p \in PriorityChoices : SetPriority(t, p)
     \/ \E t \in Thread : \/ ThreadCreated(t)
                          \/ SetPriorityYield(t)
                          \/ ThreadExit(t) /\ locksHeld[t] = {}
                          \/ Sleep(t)
                          \/ Wake(t)
     \/ Preempt
  /\ UNCHANGED <<lockVars, panicked>>

LockStep ==
  \/ \E t \in Thread, l \in Lock : \/ BeforeGettingInLine(t, l)
                                   \/ SemaTryDown(t, l)
                                   \/ LockRelease(t, l)
  \/ \E t \in Thread : \/ SemaDown(t)
                       \/ UponGettingTheLock(t)
                       \/ SetHolder(t)
                       \/ TryAcquired(t)
                       \/ SemaUp(t)

Next == ~panicked /\ (SchedulerStep \/ LockStep)

Spec == Init /\ [][Next]_vars

(***************************************************************************)
(* Fairness                                                                 *)
(***************************************************************************)

(* The timer goes on interrupting.  A tick that arrives while interrupts    *)
(* are disabled is delivered when they are enabled again, hence strong      *)
(* fairness.                                                                *)
TimerPreempts == Preempt /\ UNCHANGED <<lockVars, panicked>>

(* A thread that is given the CPU again and again gets on with the call     *)
(* it is in: a time slice is longer than any of these steps.                *)
CallProceeds(t) ==
  \/ (ThreadCreated(t) \/ SetPriorityYield(t)) /\ UNCHANGED <<lockVars, panicked>>
  \/ SemaDown(t)
  \/ UponGettingTheLock(t)
  \/ SetHolder(t)
  \/ TryAcquired(t)
  \/ SemaUp(t)

(* Devices answer, and a client gives every lock back in the end.           *)
Answered(t) == Wake(t) /\ UNCHANGED <<lockVars, panicked>>
GivesBack(t) == \E l \in Lock : LockRelease(t, l)

FairSpec ==
  /\ Spec
  /\ SF_vars(TimerPreempts)
  /\ \A t \in Thread : /\ SF_vars(CallProceeds(t))
                       /\ SF_vars(Answered(t))
                       /\ SF_vars(GivesBack(t))

(***************************************************************************)
(* Properties                                                               *)
(***************************************************************************)

(* Thread t has taken l's semaphore and not yet given it back.              *)
Owns(t, l) ==
  \/ l \in locksHeld[t]
  \/ pc[t] \in {"got", "tried", "up"} /\ arg[t] = l

(* A lock has at most one owner at a time, across every window in which     *)
(* lock->holder does not say who it is, and the semaphore counts the        *)
(* owners: it is 1 for a free lock and 0 for an owned one.                  *)
MutualExclusion ==
  \A l \in Lock :
    /\ \A t, u \in Thread : Owns(t, l) /\ Owns(u, l) => t = u
    /\ value[l] = IF \E t \in Thread : Owns(t, l) THEN 0 ELSE 1

(* A thread's one list element is on at most one list, once, and the list   *)
(* is the one its status says: the ready list for a ready thread, the       *)
(* waiters of the lock it is waiting for (or none, asleep) for a blocked    *)
(* one.  sema_down, sema_up and the scheduler share that element.           *)
WaitsFor(t, l) == status[t] = "blocked" /\ pc[t] = "waiting" /\ arg[t] = l

OneListPerThread ==
  /\ IsInjective(readyList)
  /\ ToSet(readyList) = {t \in Thread : status[t] = "ready"}
  /\ \A l \in Lock : /\ IsInjective(waiters[l])
                     /\ ToSet(waiters[l]) = {t \in Thread : WaitsFor(t, l)}
  /\ \A t \in Thread : status[t] = "running" <=> running = t

(* No wakeup is lost: while a lock is free and somebody is blocked on it,   *)
(* somebody it was handed to is awake and about to retry, however many      *)
(* threads slipped in between (sema_up wakes one waiter and adds one, but   *)
(* the woken thread must still win the race for the value).                 *)
NoLostWakeup ==
  \A l \in Lock :
    value[l] > 0 /\ waiters[l] # <<>> =>
      \E t \in Thread : pc[t] = "waiting" /\ arg[t] = l /\ status[t] # "blocked"

(* The ready list is in priority order even though donation changes the     *)
(* priority of threads on it: DESIGNDOC's "then we sort the ready list".    *)
ReadyListSorted == IsDescending(readyList, priority)

(* The thread on the CPU has the highest priority of all that could run,    *)
(* except in the windows between a step that changes that and the yield     *)
(* that makes up for it (after thread_create's unblock, between             *)
(* lock_release's two parts, before thread_set_priority's yield).           *)
HighestPriorityRuns ==
  \A r \in ToSet(readyList) :
    \/ running # Idle /\ pc[running] \in {"created", "up", "yield"}
    \/ running # Idle /\ priority[running] >= priority[r]

(* A raised priority always has a donor: some thread of at least that       *)
(* priority is in line for a lock the raised thread owns.  A donation is    *)
(* gone when the last donor is.                                             *)
DonationHasDonor ==
  \A t \in Thread :
    priority[t] > originalPri[t] =>
      \E u \in Thread \ {t} :
        /\ blockedBy[u] \in locksHeld[t]
        /\ priority[u] >= priority[t]

(* thread_set_priority leaves a donated priority, also when the new base     *)
(* priority is above it.  A thread is below its base priority, where the     *)
(* ASSERTs of update_priorities fail if a donation comes by, no longer than  *)
(* the donation lasts that it is overtaking: lock_release makes up for it.   *)
BelowBaseHasDonor ==
  \A t \in Thread :
    priority[t] < originalPri[t] =>
      \E u \in Thread \ {t} :
        /\ blockedBy[u] \in locksHeld[t]
        /\ priority[u] >= priority[t]

(* The locks implement LockSpec: every step of this module takes a lock     *)
(* nobody owns, gives up one the thread owns, or changes no owner.          *)
Owner(l) == IF \E t \in Thread : Owns(t, l)
            THEN CHOOSE t \in Thread : Owns(t, l) ELSE None
LS == INSTANCE LockSpec WITH owner <- [l \in Lock |-> Owner(l)]
ImplementsLockSpec == LS!Spec

(* Round robin: among threads of one priority, every thread that is ready   *)
(* gets the CPU, whatever the others do.  It rests on list_insert_ordered   *)
(* putting a thread behind its equals and on list_sort being stable.        *)
RoundRobin == \A t \in Thread : status[t] = "ready" ~> running = t

(* Progress: while somebody is in line for a lock, the lock is taken again  *)
(* and again.  (Not necessarily by the thread longest in line, nor by any   *)
(* given one: a woken thread may lose the race each time.)                  *)
LockProgress ==
  \A l \in Lock :
    waiters[l] # <<>> ~> \E t \in Thread : pc[t] \in {"got", "tried"} /\ arg[t] = l
=============================================================================
