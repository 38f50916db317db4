-------------------------------- MODULE IntQ --------------------------------
(***************************************************************************)
(* devices/intq.c: the circular buffer that kernel threads share with       *)
(* interrupt handlers.  Either threads get what a handler puts (the input   *)
(* buffer of devices/input.c) or threads put what a handler gets (the       *)
(* transmit queue of devices/serial.c).                                     *)
(*                                                                         *)
(* A call runs with interrupts off, so a step is everything a thread does   *)
(* from one context switch to the next: to the thread_block() of a wait or  *)
(* of the queue's lock, to the thread_yield() that ends lock_release, or to *)
(* the end of the call.  A handler runs between two such steps.  Which of   *)
(* the runnable threads is next is left open.                               *)
(***************************************************************************)
EXTENDS Integers, Sequences, FiniteSets

CONSTANTS Thread,    \* the threads that call intq_getc or intq_putc
          Byte,      \* the values of a byte
          BufSize,   \* INTQ_BUFSIZE
          None       \* a null pointer

ASSUME IntQAssumption ==
  /\ BufSize \in Nat /\ BufSize > 1
  /\ 0 \in Byte
  /\ None \notin Thread

VARIABLES threadsGet,          \* the threads get and the handlers put, or the
                               \* other way round; it never changes
          head, tail, buf,
          notEmpty, notFull,   \* the thread waiting for each condition
          value, waiters,      \* the semaphore of q->lock
          blocked,             \* the threads whose status is THREAD_BLOCKED
          pc,                  \* where each thread is in its call
          taken,               \* the byte intq_getc returned last
          panicked             \* an ASSERT has failed

vars == <<threadsGet, head, tail, buf, notEmpty, notFull, value, waiters, blocked, pc,
          taken, panicked>>

PC == {"out",        \* not in a call
       "lock",       \* in lock_acquire's sema_down, having blocked
       "wait",       \* in wait()
       "released"}   \* in lock_release's yield

TypeOK ==
  /\ threadsGet \in BOOLEAN
  /\ head \in 0..BufSize - 1 /\ tail \in 0..BufSize - 1
  /\ buf \in [0..BufSize - 1 -> Byte]
  /\ notEmpty \in Thread \cup {None} /\ notFull \in Thread \cup {None}
  /\ value \in {0, 1}
  /\ waiters \subseteq Thread
  /\ blocked \subseteq Thread
  /\ pc \in [Thread -> PC]
  /\ taken \in Byte
  /\ panicked \in BOOLEAN

Init ==
  /\ threadsGet \in BOOLEAN
  /\ head = 0 /\ tail = 0
  /\ buf = [i \in 0..BufSize - 1 |-> 0]
  /\ notEmpty = None /\ notFull = None
  /\ value = 1 /\ waiters = {}
  /\ blocked = {}
  /\ pc = [t \in Thread |-> "out"]
  /\ taken = 0
  /\ panicked = FALSE

(***************************************************************************)
(* The buffer                                                               *)
(***************************************************************************)

(* A mutant of NextPos: no wrap.                                            *)
NoWrap(pos) == pos + 1

(* next()                                                                   *)
NextPos(pos) == (pos + 1) % BufSize

(* A mutant of Full: fills the slot that must stay free.                    *)
NeverFull(h, t) == FALSE

(* intq_empty() and intq_full()                                             *)
Empty(h, t) == h = t
Full(h, t)  == NextPos(h) = t

(* What a thread's call waits for the end of.                               *)
MustWait == IF threadsGet THEN Empty(head, tail) ELSE Full(head, tail)

(* A mutant of Awake: signal() forgets thread_unblock().                    *)
StaysBlocked(w) == blocked

(* The blocked threads after signal(): its waiter is unblocked.             *)
Awake(w) == blocked \ {w}

(* The end of intq_getc: take the byte and signal not_full.                 *)
TakeByte ==
  /\ taken' = buf[tail]
  /\ tail' = NextPos(tail)
  /\ notFull' = None
  /\ blocked' = Awake(notFull)
  /\ UNCHANGED <<threadsGet, head, buf, notEmpty>>

(* The end of intq_putc: store the byte and signal not_empty.               *)
StoreByte ==
  /\ \E b \in Byte : buf' = [buf EXCEPT ![head] = b]
  /\ head' = NextPos(head)
  /\ notEmpty' = None
  /\ blocked' = Awake(notEmpty)
  /\ UNCHANGED <<threadsGet, tail, notFull, taken>>

(***************************************************************************)
(* A thread's call                                                          *)
(***************************************************************************)

(* wait(), by the thread that has just got the lock: its ASSERT says that   *)
(* there still is something to wait for.                                    *)
Wait(t) ==
  /\ value' = 0
  /\ pc' = [pc EXCEPT ![t] = "wait"]
  /\ IF MustWait
     THEN /\ IF threadsGet
             THEN notEmpty' = t /\ UNCHANGED notFull
             ELSE notFull' = t /\ UNCHANGED notEmpty
          /\ blocked' = blocked \cup {t}
          /\ UNCHANGED panicked
     ELSE /\ panicked' = TRUE
          /\ UNCHANGED <<notEmpty, notFull, blocked>>
  /\ UNCHANGED <<threadsGet, head, tail, buf, waiters, taken>>

(* sema_down() of the lock's semaphore when it is down.                     *)
GetInLine(t) ==
  /\ waiters' = waiters \cup {t}
  /\ blocked' = blocked \cup {t}
  /\ pc' = [pc EXCEPT ![t] = "lock"]
  /\ UNCHANGED <<threadsGet, head, tail, buf, notEmpty, notFull, value, taken, panicked>>

(* A mutant of LockThenWait: wait() without the lock.                       *)
NoLock(t) == Wait(t)

(* lock_acquire(&q->lock) and wait().                                       *)
LockThenWait(t) == IF value = 0 THEN GetInLine(t) ELSE Wait(t)

(* The loop of intq_getc or intq_putc, entered or resumed at its condition. *)
Loop(t) ==
  /\ pc[t] \in {"out", "released"}
  /\ IF MustWait
     THEN LockThenWait(t)
     ELSE /\ IF threadsGet THEN TakeByte ELSE StoreByte
          /\ pc' = [pc EXCEPT ![t] = "out"]
          /\ UNCHANGED <<value, waiters, panicked>>

(* Back in lock_acquire, after the lock's holder has released it.           *)
ResumeLock(t) ==
  /\ pc[t] = "lock" /\ t \notin blocked
  /\ LockThenWait(t)

(* Back from wait(): lock_release() up to its yield.  Which waiter sema_up   *)
(* wakes depends on priorities, which are left out here: it may be any.     *)
ResumeWait(t) ==
  /\ pc[t] = "wait" /\ t \notin blocked
  /\ value' = 1
  /\ IF waiters = {}
     THEN UNCHANGED <<waiters, blocked>>
     ELSE \E w \in waiters : /\ waiters' = waiters \ {w}
                             /\ blocked' = blocked \ {w}
  /\ pc' = [pc EXCEPT ![t] = "released"]
  /\ UNCHANGED <<threadsGet, head, tail, buf, notEmpty, notFull, taken, panicked>>

(***************************************************************************)
(* Interrupt handlers                                                       *)
(***************************************************************************)

(* keyboard_interrupt and serial_interrupt put while the queue is not full; *)
(* serial_interrupt gets while it is not empty.                             *)
HandlerPuts ==
  /\ threadsGet /\ ~Full(head, tail)
  /\ StoreByte
  /\ UNCHANGED <<value, waiters, pc, panicked>>

HandlerGets ==
  /\ ~threadsGet /\ ~Empty(head, tail)
  /\ TakeByte
  /\ UNCHANGED <<value, waiters, pc, panicked>>

ThreadStep(t) == Loop(t) \/ ResumeLock(t) \/ ResumeWait(t)
HandlerStep == HandlerPuts \/ HandlerGets

Next == ~panicked /\ (HandlerStep \/ \E t \in Thread : ThreadStep(t))

Spec == Init /\ [][Next]_vars

(* Devices go on, and so does a thread that has been woken in a call.       *)
Continues(t) == ~panicked /\ pc[t] # "out" /\ ThreadStep(t)
FairSpec ==
  /\ Spec
  /\ WF_vars(~panicked /\ HandlerStep)
  /\ \A t \in Thread : SF_vars(Continues(t))

(***************************************************************************)
(* Properties                                                               *)
(***************************************************************************)

(* The buffer is a queue of BufSize - 1 bytes (one slot stays free to tell  *)
(* a full buffer from an empty one), whoever puts and gets.                 *)
Count == (head - tail) % BufSize
F == INSTANCE Fifo WITH
       Capacity <- BufSize - 1,
       contents <- [i \in 1..Count |-> buf[(tail + i - 1) % BufSize]]
ImplementsFifo == F!Spec

(* The lock admits one waiter at a time and is free when nobody is in       *)
(* wait(); while that waiter is blocked it has something to wait for and is *)
(* the thread that the next signal() wakes.  A thread blocked on the lock   *)
(* is in line for it.                                                       *)
OneWaiter ==
  /\ value = IF \E t \in Thread : pc[t] = "wait" THEN 0 ELSE 1
  /\ \A t, u \in Thread : pc[t] = "wait" /\ pc[u] = "wait" => t = u
  /\ \A t \in Thread : pc[t] = "wait" /\ t \in blocked
       => MustWait /\ t = IF threadsGet THEN notEmpty ELSE notFull
  /\ \A t \in Thread : pc[t] = "lock" /\ t \in blocked
                         <=> t \in waiters

(* A thread in wait() is woken as long as the device goes on.               *)
WaiterWoken == \A t \in Thread : pc[t] = "wait" ~> pc[t] # "wait" \/ panicked
=============================================================================
