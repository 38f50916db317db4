------------------------------ MODULE Monitor ------------------------------
(***************************************************************************)
(* The condition variables of threads/synch.c (pintos-p1) on top of its     *)
(* locks: one condition, protected by the lock CondLock.  Each cond_wait    *)
(* has a private semaphore on its stack (struct semaphore_elem), so a       *)
(* thread in cond_wait stands for its element.                              *)
(*                                                                         *)
(* cond_wait is a call of lock_release, sema_down and lock_acquire; `call'  *)
(* says which of them is next for a thread whose pc is "run".               *)
(***************************************************************************)
EXTENDS Synch

CONSTANT CondLock
ASSUME CondLockAssumption == CondLock \in Lock

VARIABLES condWaiters,   \* cond.waiters, front first
          recorded,      \* semaphore_elem.priority
          signals,       \* semaphore_elem.semaphore.value
          call           \* what is next in t's cond_wait or cond_broadcast

monVars == <<condWaiters, recorded, signals, call>>
allVars == <<vars, monVars>>

Calls == {"none", "release", "down", "reacquire", "broadcast"}

MonTypeOK ==
  /\ TypeOK
  /\ condWaiters \in Seq(Thread)
  /\ recorded \in [Thread -> Priority]
  /\ signals \in [Thread -> Nat]
  /\ call \in [Thread -> Calls]

MonInit ==
  /\ Init
  /\ condWaiters = <<>>
  /\ recorded = [t \in Thread |-> 0]
  /\ signals = [t \in Thread |-> 0]
  /\ call = [t \in Thread |-> "none"]

HoldsMonitor(t) == Running(t, "run") /\ holder[CondLock] = t

(***************************************************************************)
(* cond_wait()                                                              *)
(***************************************************************************)

(* Up to the call of lock_release.  The waiters are ordered by the          *)
(* priorities they had when they got in line.                               *)
CondWait(t) ==
  /\ HoldsMonitor(t) /\ call[t] = "none"
  /\ recorded' = [recorded EXCEPT ![t] = priority[t]]
  /\ signals' = [signals EXCEPT ![t] = 0]
  /\ condWaiters' = InsertDescending(condWaiters, t, recorded')
  /\ call' = [call EXCEPT ![t] = "release"]
  /\ UNCHANGED vars

(* The first part of lock_release; SemaUp is the second.                    *)
CondRelease(t) ==
  /\ call[t] = "release"
  /\ LockRelease(t, CondLock)
  /\ call' = [call EXCEPT ![t] = "down"]
  /\ UNCHANGED <<condWaiters, recorded, signals>>

(* sema_down(&waiter.semaphore), from its start or from where it resumes.   *)
CondDown(t) ==
  /\ running = t /\ call[t] = "down" /\ pc[t] \in {"run", "condwait"}
  /\ \/ /\ signals[t] > 0
        /\ signals' = [signals EXCEPT ![t] = @ - 1]
        /\ pc' = [pc EXCEPT ![t] = "run"]
        /\ call' = [call EXCEPT ![t] = "reacquire"]
        /\ UNCHANGED <<running, status, readyList>>
     \/ /\ signals[t] = 0
        /\ pc' = [pc EXCEPT ![t] = "condwait"]
        /\ Block(t)
        /\ UNCHANGED <<signals, call>>
  /\ UNCHANGED <<priority, originalPri, arg, lockVars, panicked, condWaiters, recorded>>

(* The start of lock_acquire; the rest is lock_acquire like any other.      *)
CondReacquire(t) ==
  /\ call[t] = "reacquire"
  /\ BeforeGettingInLine(t, CondLock)
  /\ call' = [call EXCEPT ![t] = "none"]
  /\ UNCHANGED <<condWaiters, recorded, signals>>

(***************************************************************************)
(* cond_signal() and cond_broadcast()                                       *)
(***************************************************************************)

(* A mutant of SignalsAfter: only a thread that has blocked gets a signal.  *)
BlockedOnly(w) ==
  IF status[w] = "blocked" THEN [signals EXCEPT ![w] = @ + 1] ELSE signals

(* The semaphores after the up of w's.                                      *)
SignalsAfter(w) == [signals EXCEPT ![w] = @ + 1]

(* cond_signal() when somebody waits: pop the front waiter and up its       *)
(* semaphore, which unblocks it if it is blocked already, and yields.       *)
Signal(t) ==
  LET w == Head(condWaiters)
  IN  /\ condWaiters # <<>>
      /\ condWaiters' = Tail(condWaiters)
      /\ signals' = SignalsAfter(w)
      /\ IF pc[w] = "condwait"
         THEN YieldWith(QueueWith(w), StatusWith(w))
         ELSE Yield
      /\ UNCHANGED <<priority, originalPri, pc, arg, lockVars, panicked, recorded>>

CondSignal(t) ==
  /\ HoldsMonitor(t) /\ call[t] = "none"
  /\ Signal(t)
  /\ UNCHANGED call

(* One round of cond_broadcast()'s loop.                                    *)
CondBroadcast(t) ==
  /\ HoldsMonitor(t) /\ call[t] \in {"none", "broadcast"}
  /\ Signal(t)
  /\ call' = [call EXCEPT ![t] = IF Len(condWaiters) > 1 THEN "broadcast" ELSE "none"]

(***************************************************************************)
(* The whole system                                                         *)
(***************************************************************************)

MonitorStep ==
  /\ ~panicked
  /\ \E t \in Thread : \/ CondWait(t)
                       \/ CondRelease(t)
                       \/ CondDown(t)
                       \/ CondReacquire(t)
                       \/ CondSignal(t)
                       \/ CondBroadcast(t)

(* The running thread is between two calls that cond_wait makes.            *)
MidCall == running # Idle /\ pc[running] = "run" /\ call[running] # "none"

Interrupted ==
  /\ Preempt \/ \E t \in Thread : Wake(t)
  /\ UNCHANGED <<lockVars, panicked>>

OtherStep ==
  /\ IF MidCall THEN ~panicked /\ Interrupted ELSE Next
  /\ UNCHANGED monVars

MonNext == MonitorStep \/ OtherStep

MonSpec == MonInit /\ [][MonNext]_allVars

(***************************************************************************)
(* Properties                                                               *)
(***************************************************************************)

(* Releasing the lock and waiting are atomic as far as signals go: from     *)
(* getting in line until it is signalled a thread is on cond.waiters, a     *)
(* signal given to it between its lock_release and its sema_down is kept by *)
(* its semaphore, and nobody is blocked in cond_wait after a signal.        *)
SignalsKept ==
  /\ IsInjective(condWaiters)
  /\ \A t \in Thread :
       /\ t \in ToSet(condWaiters) <=> call[t] \in {"release", "down"} /\ signals[t] = 0
       /\ signals[t] <= 1
       /\ pc[t] = "condwait" /\ status[t] = "blocked" => t \in ToSet(condWaiters)
=============================================================================
