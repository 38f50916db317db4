----------------------------- MODULE Scheduler -----------------------------
(***************************************************************************)
(* threads/thread.c of the threads project (pintos-p1): the ready list,     *)
(* thread states, the priority scheduler and its preemption points.         *)
(*                                                                         *)
(* One CPU.  A step is what one thread does with interrupts disabled, or    *)
(* one access to shared state made with interrupts enabled; the timer may   *)
(* preempt the running thread between any two steps, except while it is     *)
(* inside sema_down's loop (a pc in InLoop), which runs with interrupts     *)
(* disabled from the context switch that resumes it to the end of the loop. *)
(* `pc' says where in a multi-step operation each thread is, `arg' is that  *)
(* operation's argument (a lock, or the thread just created).               *)
(***************************************************************************)
EXTENDS KernelList

CONSTANTS Thread,           \* the threads that can be created
          Idle,             \* the idle thread, never on a list
          Main,             \* the initial thread
          Lock,             \* the locks threads may use
          PriMax,           \* priorities are 0..PriMax (PRI_MIN = 0)
          BasePri,          \* the priority each thread is created with
          PriorityChoices,  \* what thread_set_priority may be called with
          None              \* a null pointer

Priority == 0..PriMax

ASSUME ThreadAssumption ==
  /\ IsFiniteSet(Thread)
  /\ Main \in Thread
  /\ Idle \notin Thread
  /\ None \notin Thread \cup {Idle}
ASSUME PriorityAssumption ==
  /\ PriMax \in Nat
  /\ BasePri \in [Thread -> Priority]
  /\ PriorityChoices \subseteq Priority

VARIABLES running,       \* the thread on the CPU (running_thread())
          status,        \* struct thread.status, and "unborn" before create
          readyList,     \* ready_list, front first
          priority,      \* struct thread.priority, with donations
          originalPri,   \* struct thread.original_pri, without
          pc, arg        \* where each thread is in its current operation

schedVars == <<running, status, readyList, priority, originalPri, pc, arg>>

Status == {"unborn", "ready", "running", "blocked", "dying"}
PC == {"run", "created", "yield", "asleep",           \* this module
       "down", "waiting", "got", "sethold", "tried", "up",   \* Synch
       "computed", "listed", "sleeping",              \* Alarm
       "condwait"}                                    \* Monitor

(* The thread is in the loop of a sema_down that has blocked at least once. *)
InLoop == {"waiting", "sleeping", "condwait"}

SchedTypeOK ==
  /\ running \in Thread \cup {Idle}
  /\ status \in [Thread -> Status]
  /\ readyList \in Seq(Thread)
  /\ priority \in [Thread -> Priority]
  /\ originalPri \in [Thread -> Priority]
  /\ pc \in [Thread -> PC]
  /\ arg \in [Thread -> Thread \cup Lock \cup {None}]

SchedInit ==
  /\ running = Main
  /\ status = [t \in Thread |-> IF t = Main THEN "running" ELSE "unborn"]
  /\ readyList = <<>>
  /\ priority = BasePri
  /\ originalPri = BasePri
  /\ pc = [t \in Thread |-> "run"]
  /\ arg = [t \in Thread |-> None]

(***************************************************************************)
(* Pieces of steps                                                          *)
(***************************************************************************)

(* schedule() with next_thread_to_run(), given the ready list and statuses  *)
(* the caller leaves: sort the list, take its front, run it; run the idle   *)
(* thread when the list is empty.                                           *)
Schedule(q, st) ==
  LET sorted == ListSort(q, priority)
  IN  IF q = <<>>
      THEN /\ running' = Idle
           /\ readyList' = q
           /\ status' = st
      ELSE /\ running' = Head(sorted)
           /\ readyList' = Tail(sorted)
           /\ status' = [st EXCEPT ![Head(sorted)] = "running"]

(* thread_block() of the running thread.                                    *)
Block(t) == Schedule(readyList, [status EXCEPT ![t] = "blocked"])

(* thread_yield(), after the caller has already changed the ready list to   *)
(* q and the statuses to st.  The idle thread is not put on the list.       *)
YieldWith(q, st) ==
  IF running = Idle
  THEN Schedule(q, st)
  ELSE Schedule(InsertDescending(q, running, priority),
                [st EXCEPT ![running] = "ready"])

Yield == YieldWith(readyList, status)

(* The ready list and statuses after thread_unblock(u).                     *)
QueueWith(u)  == InsertDescending(readyList, u, priority)
StatusWith(u) == [status EXCEPT ![u] = "ready"]

(* The running thread executes with interrupts enabled.                     *)
Interruptible == running # Idle => pc[running] \notin InLoop

Running(t, where) == running = t /\ pc[t] = where

(***************************************************************************)
(* Operations of the running thread                                         *)
(***************************************************************************)

(* thread_create() up to thread_unblock() of the new thread.  Its use of    *)
(* tid_lock is a lock_acquire and a lock_release like any other.            *)
ThreadCreate(t, u) ==
  /\ Running(t, "run")
  /\ status[u] = "unborn"
  /\ readyList' = QueueWith(u)
  /\ status' = StatusWith(u)
  /\ pc' = [pc EXCEPT ![t] = "created"]
  /\ arg' = [arg EXCEPT ![t] = u]
  /\ UNCHANGED <<running, priority, originalPri>>

(* The end of thread_create(): yield to a new thread of higher priority.    *)
ThreadCreated(t) ==
  /\ Running(t, "created")
  /\ pc' = [pc EXCEPT ![t] = "run"]
  /\ arg' = [arg EXCEPT ![t] = None]
  /\ IF BasePri[arg[t]] > priority[t]
     THEN Yield
     ELSE UNCHANGED <<running, status, readyList>>
  /\ UNCHANGED <<priority, originalPri>>

(* A mutant of ShouldYield: thread_set_priority never yields.               *)
NeverYield(t, p) == FALSE

(* thread_set_priority's should_yield, with the priority t had before.      *)
ShouldYield(t, p) == p < priority[t]

(* thread_set_priority() up to intr_set_level().  A thread whose priority   *)
(* differs from its base priority is taken to have a donation.              *)
SetPriority(t, p) ==
  /\ Running(t, "run")
  /\ p \in PriorityChoices
  /\ originalPri' = [originalPri EXCEPT ![t] = p]
  /\ priority' = IF priority[t] = originalPri[t]
                 THEN [priority EXCEPT ![t] = p]
                 ELSE priority
  /\ pc' = [pc EXCEPT ![t] = IF ShouldYield(t, p) THEN "yield" ELSE "run"]
  /\ UNCHANGED <<running, status, readyList, arg>>

(* The thread_yield() at the end of thread_set_priority().                  *)
SetPriorityYield(t) ==
  /\ Running(t, "yield")
  /\ pc' = [pc EXCEPT ![t] = "run"]
  /\ Yield
  /\ UNCHANGED <<priority, originalPri, arg>>

(* thread_exit(): the thread is never scheduled again.                      *)
ThreadExit(t) ==
  /\ Running(t, "run")
  /\ Schedule(readyList, [status EXCEPT ![t] = "dying"])
  /\ UNCHANGED <<priority, originalPri, pc, arg>>

(* The thread waits for a device or the timer: sema_down on a semaphore     *)
(* of value 0 that only an interrupt handler ups.                           *)
Sleep(t) ==
  /\ Running(t, "run")
  /\ pc' = [pc EXCEPT ![t] = "asleep"]
  /\ Block(t)
  /\ UNCHANGED <<priority, originalPri, arg>>

(***************************************************************************)
(* Interrupts                                                               *)
(***************************************************************************)

(* sema_up on behalf of a sleeping thread inside an interrupt handler:      *)
(* thread_unblock, and thread_yield on return from the interrupt.           *)
Wake(t) ==
  /\ Interruptible
  /\ pc[t] = "asleep" /\ status[t] = "blocked"
  /\ pc' = [pc EXCEPT ![t] = "run"]
  /\ YieldWith(QueueWith(t), StatusWith(t))
  /\ UNCHANGED <<priority, originalPri, arg>>

(* thread_tick() at the end of a time slice: intr_yield_on_return().        *)
Preempt ==
  /\ Interruptible
  /\ running # Idle
  /\ Yield
  /\ UNCHANGED <<priority, originalPri, pc, arg>>
=============================================================================
