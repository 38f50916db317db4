----------------------------- MODULE IntQ_proofs ----------------------------
(***************************************************************************)
(* Theorems about module IntQ, for any number of threads and any size of    *)
(* the buffer: the lock's discipline and that the buffer is a queue.        *)
(***************************************************************************)
EXTENDS IntQ, TLAPS

(***************************************************************************)
(* Positions in the buffer                                                  *)
(***************************************************************************)

(* A number's remainder is the only one of 0 .. n - 1 that differs from it  *)
(* by a multiple of n.                                                      *)
LEMMA ModRange ==
  ASSUME NEW a \in Int, NEW n \in Nat \ {0}
  PROVE  /\ a % n \in 0 .. n - 1
         /\ a \div n \in Int
         /\ a = n * (a \div n) + (a % n)
OBVIOUS

LEMMA MultipleGrows ==
  ASSUME NEW n \in Nat \ {0}, NEW q \in Int
  PROVE  /\ n * q \in Int
         /\ n * 0 = 0
         /\ n * (-1) = -n
         /\ q >= 1 => n * q >= n
         /\ q <= -1 => n * q <= -n
         /\ q >= 2 => n * q >= 2 * n
         /\ q <= -2 => n * q <= -(2 * n)
         /\ n * 1 = n
OBVIOUS

(* What the operands met here leave: they are less than one turn away.      *)
LEMMA ModNear ==
  ASSUME NEW a \in Int, NEW n \in Nat \ {0}, a >= -n, a < 2 * n
  PROVE  a % n = IF a < 0 THEN a + n ELSE IF a < n THEN a ELSE a - n
<1> DEFINE q == a \div n
<1>1. q \in Int /\ a % n \in 0 .. n - 1 /\ a = n * q + (a % n)
  BY ModRange
<1> HIDE DEF q
<1>2. q < 2 /\ q > -2
  BY <1>1, MultipleGrows
<1>3. q = 0 \/ q = 1 \/ q = -1
  BY <1>1, <1>2
<1>4. CASE q = 0
  BY <1>1, <1>4, MultipleGrows
<1>5. CASE q = 1
  BY <1>1, <1>5, MultipleGrows
<1>6. CASE q = -1
  BY <1>1, <1>6, MultipleGrows
<1> QED
  BY <1>3, <1>4, <1>5, <1>6

(* The next position is one on, or the first one.                           *)
LEMMA NextPosIs ==
  ASSUME NEW p \in 0..BufSize - 1
  PROVE  /\ NextPos(p) = IF p + 1 < BufSize THEN p + 1 ELSE 0
         /\ NextPos(p) \in 0..BufSize - 1
<1>1. BufSize \in Nat \ {0} /\ p + 1 \in Int /\ p + 1 >= -BufSize /\ p + 1 < 2 * BufSize
  BY IntQAssumption
<1>2. \A a \in Int : a >= -BufSize /\ a < 2 * BufSize
                     => a % BufSize = IF a < 0 THEN a + BufSize
                                      ELSE IF a < BufSize THEN a ELSE a - BufSize
  BY <1>1, ModNear
<1> QED
  BY <1>1, <1>2, IntQAssumption DEF NextPos

(***************************************************************************)
(* The inductive invariant                                                  *)
(***************************************************************************)

(* A thread is blocked in wait() or in line for the lock, once; the waiter  *)
(* a signal() would wake is one, of the side threads are on.                *)
Blocking ==
  /\ \A t \in blocked : pc[t] \in {"lock", "wait"}
  /\ notEmpty # None => threadsGet /\ notEmpty \in blocked /\ pc[notEmpty] = "wait"
  /\ notFull # None => ~threadsGet /\ notFull \in blocked /\ pc[notFull] = "wait"

IInv == TypeOK /\ Blocking /\ OneWaiter

LEMMA InitIInv == Init => IInv
<1> SUFFICES ASSUME Init
             PROVE  IInv
  OBVIOUS
<1>1. TypeOK
  <2>1. waiters \subseteq Thread /\ blocked \subseteq Thread /\ value \in {0, 1}
    BY DEF Init
  <2>2. pc \in [Thread -> PC] /\ buf \in [0..BufSize - 1 -> Byte] /\ taken \in Byte
    BY IntQAssumption DEF Init, PC
  <2>3. head \in 0..BufSize - 1 /\ tail \in 0..BufSize - 1
    BY IntQAssumption DEF Init
  <2>4. notEmpty \in Thread \cup {None} /\ notFull \in Thread \cup {None}
    BY DEF Init
  <2>5. threadsGet \in BOOLEAN /\ panicked \in BOOLEAN
    BY DEF Init
  <2> QED
    BY <2>1, <2>2, <2>3, <2>4, <2>5 DEF TypeOK
<1>2. Blocking /\ OneWaiter
  BY DEF Init, Blocking, OneWaiter
<1> QED
  BY <1>1, <1>2 DEF IInv

(* A byte taken or stored: the thread that waits for it, if any, is woken,  *)
(* and no thread is left blocked in wait().                                 *)
LEMMA ByteKeepsIInv ==
  ASSUME IInv,
         \/ TakeByte /\ (threadsGet => ~MustWait)
         \/ StoreByte /\ (~threadsGet => ~MustWait),
         UNCHANGED <<value, waiters, panicked>>,
         UNCHANGED pc \/ \E t \in Thread : /\ pc[t] \in {"out", "released"}
                                           /\ pc' = [pc EXCEPT ![t] = "out"]
  PROVE  IInv'
<1> USE DEF IInv
<1>1. /\ blocked' \subseteq blocked
      /\ pc' \in [Thread -> PC]
      /\ \A t \in Thread : pc[t] \in {"lock", "wait"} => pc'[t] = pc[t]
      /\ \A t \in Thread : pc'[t] \in {"lock", "wait"} => pc'[t] = pc[t]
  BY DEF TypeOK, PC, TakeByte, StoreByte, Awake
<1>2. TypeOK'
  <2>1. head' \in 0..BufSize - 1 /\ tail' \in 0..BufSize - 1
    BY NextPosIs DEF TypeOK, TakeByte, StoreByte
  <2>2. buf' \in [0..BufSize - 1 -> Byte] /\ taken' \in Byte
    BY DEF TypeOK, TakeByte, StoreByte
  <2>3. /\ threadsGet' \in BOOLEAN /\ value' \in {0, 1} /\ waiters' \subseteq Thread
        /\ panicked' \in BOOLEAN
        /\ notEmpty' \in Thread \cup {None} /\ notFull' \in Thread \cup {None}
    BY DEF TypeOK, TakeByte, StoreByte
  <2> QED
    BY <1>1, <2>1, <2>2, <2>3 DEF TypeOK
<1>3. /\ \/ /\ threadsGet => ~MustWait
            /\ notFull' = None /\ notEmpty' = notEmpty /\ blocked' = blocked \ {notFull}
         \/ /\ ~threadsGet => ~MustWait
            /\ notEmpty' = None /\ notFull' = notFull /\ blocked' = blocked \ {notEmpty}
      /\ threadsGet' = threadsGet /\ waiters' = waiters /\ value' = value
  BY DEF TakeByte, StoreByte, Awake
<1>4. /\ \A t \in blocked : pc[t] = "lock" => t \in blocked'
      /\ \A t \in blocked' : pc[t] # "wait"
  <2>1. \A t \in blocked : t \in Thread /\ t # None
    BY IntQAssumption DEF TypeOK
  <2>2. \A t \in blocked : pc[t] = "lock" => t # notFull /\ t # notEmpty
    BY <2>1 DEF Blocking
  <2>3. \A t \in blocked : pc[t] = "wait"
                            => MustWait /\ t = IF threadsGet THEN notEmpty ELSE notFull
    BY <2>1 DEF OneWaiter
  <2> QED
    BY <1>3, <2>2, <2>3 DEF TypeOK
<1>5. Blocking'
  <2>1. \A t \in blocked' : pc'[t] \in {"lock", "wait"}
    BY <1>1 DEF TypeOK, Blocking
  <2>2. /\ notEmpty' # None => threadsGet' /\ notEmpty' \in blocked' /\ pc'[notEmpty'] = "wait"
        /\ notFull' # None => ~threadsGet' /\ notFull' \in blocked' /\ pc'[notFull'] = "wait"
    BY <1>1, <1>3, IntQAssumption DEF TypeOK, Blocking
  <2> QED
    BY <1>3, <2>1, <2>2 DEF Blocking
<1>6. OneWaiter'
  <2>1. \A t \in Thread : /\ pc'[t] = "wait" <=> pc[t] = "wait"
                          /\ pc'[t] = "lock" <=> pc[t] = "lock"
    BY <1>1
  <2>2. value' = IF \E t \in Thread : pc'[t] = "wait" THEN 0 ELSE 1
    BY <1>3, <2>1 DEF OneWaiter
  <2>3. \A t, u \in Thread : pc'[t] = "wait" /\ pc'[u] = "wait" => t = u
    BY <2>1 DEF OneWaiter
  <2>4. \A t \in Thread : ~(pc'[t] = "wait" /\ t \in blocked')
    BY <1>4, <2>1
  <2>5. \A t \in Thread : pc'[t] = "lock" /\ t \in blocked'
                            <=> t \in waiters'
    BY <1>1, <1>3, <1>4, <2>1 DEF OneWaiter
  <2> QED
    BY <2>2, <2>3, <2>4, <2>5 DEF OneWaiter
<1> QED
  BY <1>2, <1>5, <1>6

(* wait(), by a thread that is not blocked, with the lock free.             *)
LEMMA WaitKeepsIInv ==
  ASSUME IInv, NEW t \in Thread, t \notin blocked, value = 1, Wait(t)
  PROVE  IInv'
<1> USE DEF IInv
<1>1. /\ pc' = [pc EXCEPT ![t] = "wait"]
      /\ UNCHANGED <<threadsGet, head, tail, buf, waiters, taken>>
      /\ value' = 0
  BY DEF Wait
<1>2. /\ pc'[t] = "wait" /\ \A u \in Thread \ {t} : pc'[u] = pc[u] /\ pc[u] # "wait"
      /\ pc[t] # "wait"
      /\ notEmpty = None /\ notFull = None
  BY <1>1 DEF TypeOK, Blocking, OneWaiter
<1>3. CASE MustWait
  <2>1. /\ blocked' = blocked \cup {t} /\ panicked' = panicked
        /\ notEmpty' = IF threadsGet THEN t ELSE None
        /\ notFull' = IF threadsGet THEN None ELSE t
    BY <1>2, <1>3 DEF Wait
  <2>2. TypeOK'
    BY <1>1, <2>1 DEF TypeOK, PC
  <2>3. MustWait'
    BY <1>1, <1>3 DEF MustWait, Empty, Full, NextPos
  <2>4. Blocking'
    BY <1>1, <1>2, <2>1, IntQAssumption DEF TypeOK, Blocking
  <2>5. OneWaiter'
    <3>1. \A u \in Thread : pc'[u] = "lock" /\ u \in blocked'
                              <=> u \in waiters'
      BY <1>1, <1>2, <2>1 DEF TypeOK, OneWaiter
    <3>2. \A u \in Thread : pc'[u] = "wait" <=> u = t
      BY <1>2
    <3> QED
      BY <1>1, <2>1, <2>3, <3>1, <3>2 DEF OneWaiter
  <2> QED
    BY <2>2, <2>4, <2>5
<1>4. CASE ~MustWait
  <2>1. UNCHANGED <<notEmpty, notFull, blocked>> /\ panicked' = TRUE
    BY <1>4 DEF Wait
  <2>2. TypeOK'
    BY <1>1, <2>1 DEF TypeOK, PC
  <2>3. Blocking'
    BY <1>1, <1>2, <2>1 DEF TypeOK, Blocking
  <2>4. OneWaiter'
    <3>1. \A u \in Thread : pc'[u] = "lock" /\ u \in blocked'
                              <=> u \in waiters'
      BY <1>1, <1>2, <2>1 DEF TypeOK, OneWaiter
    <3>2. \A u \in Thread : pc'[u] = "wait" <=> u = t
      BY <1>2
    <3> QED
      BY <1>1, <2>1, <3>1, <3>2 DEF OneWaiter
  <2> QED
    BY <2>2, <2>3, <2>4
<1> QED
  BY <1>3, <1>4

(* sema_down(), by a thread that is not blocked, with the lock taken.       *)
LEMMA InLineKeepsIInv ==
  ASSUME IInv, NEW t \in Thread, t \notin blocked, pc[t] # "wait", GetInLine(t)
  PROVE  IInv'
<1> USE DEF IInv
<1>1. /\ waiters' = waiters \cup {t}
      /\ blocked' = blocked \cup {t}
      /\ pc' = [pc EXCEPT ![t] = "lock"]
      /\ UNCHANGED <<threadsGet, head, tail, buf, notEmpty, notFull, value, taken, panicked>>
  BY DEF GetInLine
<1>2. /\ pc'[t] = "lock" /\ \A u \in Thread \ {t} : pc'[u] = pc[u]
      /\ notEmpty # t /\ notFull # t
  <2>1. t # None
    BY IntQAssumption
  <2>2. notEmpty # t /\ notFull # t
    BY <2>1 DEF Blocking
  <2> QED
    BY <1>1, <2>2 DEF TypeOK
<1>4. TypeOK'
  BY <1>1 DEF TypeOK, PC
<1>5. Blocking'
  <2>2. \A u \in blocked' : pc'[u] \in {"lock", "wait"}
    BY <1>1, <1>2 DEF TypeOK, Blocking
  <2>3. /\ notEmpty' # None => threadsGet' /\ notEmpty' \in blocked' /\ pc'[notEmpty'] = "wait"
        /\ notFull' # None => ~threadsGet' /\ notFull' \in blocked' /\ pc'[notFull'] = "wait"
    BY <1>1, <1>2 DEF TypeOK, Blocking
  <2> QED
    BY <2>2, <2>3 DEF Blocking
<1>6. OneWaiter'
  <2>1. \A u \in Thread : pc'[u] = "wait" <=> pc[u] = "wait"
    BY <1>2
  <2>2. MustWait' <=> MustWait
    BY <1>1 DEF MustWait, Empty, Full, NextPos
  <2>3. \A u \in Thread : pc'[u] = "lock" /\ u \in blocked'
                            <=> u \in waiters'
    BY <1>1, <1>2 DEF OneWaiter
  <2> QED
    BY <1>1, <1>2, <2>1, <2>2, <2>3 DEF OneWaiter
<1> QED
  BY <1>4, <1>5, <1>6

(* lock_release(), by the thread that was in wait().                        *)
LEMMA ReleaseKeepsIInv ==
  ASSUME IInv, NEW t \in Thread, ResumeWait(t)
  PROVE  IInv'
<1> USE DEF IInv
<1>1. /\ pc[t] = "wait" /\ t \notin blocked
      /\ value' = 1
      /\ pc' = [pc EXCEPT ![t] = "released"]
      /\ UNCHANGED <<threadsGet, head, tail, buf, notEmpty, notFull, taken, panicked>>
  BY DEF ResumeWait
<1>2. /\ \A u \in Thread \ {t} : pc'[u] = pc[u] /\ pc[u] # "wait"
      /\ pc'[t] = "released"
      /\ notEmpty = None /\ notFull = None
  BY <1>1 DEF TypeOK, Blocking, OneWaiter
<1>3. \A u \in Thread : pc'[u] # "wait"
  BY <1>2
<1>4. CASE waiters = {}
  <2>1. UNCHANGED <<waiters, blocked>>
    BY <1>4 DEF ResumeWait
  <2>2. TypeOK'
    BY <1>1, <2>1 DEF TypeOK, PC
  <2>3. Blocking'
    BY <1>1, <1>2, <2>1 DEF TypeOK, Blocking
  <2>4. OneWaiter'
    BY <1>1, <1>2, <1>3, <2>1 DEF OneWaiter
  <2> QED
    BY <2>2, <2>3, <2>4
<1>5. CASE waiters # {}
  <2>1. PICK w \in waiters : waiters' = waiters \ {w} /\ blocked' = blocked \ {w}
    BY <1>5 DEF ResumeWait
  <2>2. TypeOK'
    BY <1>1, <2>1 DEF TypeOK, PC
  <2>3. Blocking'
    BY <1>1, <1>2, <2>1 DEF TypeOK, Blocking
  <2>4. OneWaiter'
    <3>1. \A u \in Thread : pc'[u] = "lock" <=> pc[u] = "lock"
      BY <1>1, <1>2
    <3>2. \A u \in Thread : pc'[u] = "lock" /\ u \in blocked' <=> u \in waiters'
      BY <2>1, <3>1 DEF OneWaiter
    <3> QED
      BY <1>1, <1>3, <3>2 DEF OneWaiter
  <2> QED
    BY <2>2, <2>3, <2>4
<1> QED
  BY <1>4, <1>5

(***************************************************************************)
(* Every step keeps the invariant                                           *)
(***************************************************************************)

LEMMA LockThenWaitKeepsIInv ==
  ASSUME IInv, NEW t \in Thread, t \notin blocked, pc[t] # "wait", LockThenWait(t)
  PROVE  IInv'
<1>1. value \in {0, 1}
  BY DEF IInv, TypeOK
<1> QED
  BY <1>1, WaitKeepsIInv, InLineKeepsIInv DEF LockThenWait

LEMMA NextIInv == IInv /\ [Next]_vars => IInv'
<1> SUFFICES ASSUME IInv, [Next]_vars
             PROVE  IInv'
  OBVIOUS
<1>1. CASE HandlerPuts
  BY <1>1, ByteKeepsIInv DEF HandlerPuts
<1>2. CASE HandlerGets
  BY <1>2, ByteKeepsIInv DEF HandlerGets
<1>3. ASSUME NEW t \in Thread, Loop(t)
      PROVE  IInv'
  <2>1. pc[t] \in {"out", "released"} /\ t \notin blocked /\ pc[t] # "wait"
    BY <1>3 DEF Loop, IInv, Blocking
  <2>2. CASE MustWait
    BY <1>3, <2>1, <2>2, LockThenWaitKeepsIInv DEF Loop
  <2>3. CASE ~MustWait
    BY <1>3, <2>1, <2>3, ByteKeepsIInv DEF Loop
  <2> QED
    BY <2>2, <2>3
<1>4. ASSUME NEW t \in Thread, ResumeLock(t)
      PROVE  IInv'
  BY <1>4, LockThenWaitKeepsIInv DEF ResumeLock
<1>5. ASSUME NEW t \in Thread, ResumeWait(t)
      PROVE  IInv'
  BY <1>5, ReleaseKeepsIInv
<1>6. CASE UNCHANGED vars
  BY <1>6 DEF vars, IInv, TypeOK, Blocking, OneWaiter, MustWait, Empty, Full, NextPos
<1> QED
  BY <1>1, <1>2, <1>3, <1>4, <1>5, <1>6 DEF Next, HandlerStep, ThreadStep

(* The buffer's positions, the lock and the threads' states are of their    *)
(* types in every state (devices/intq.c).                                   *)
THEOREM SpecTypeOK == Spec => []TypeOK
<1>1. IInv => TypeOK
  BY DEF IInv
<1> QED
  BY InitIInv, NextIInv, <1>1, PTL DEF Spec

(* The lock of intq_getc and intq_putc admits one thread at a time to       *)
(* wait(); while it is blocked there it has something to wait for, and the  *)
(* next signal() is for it.                                                 *)
THEOREM SpecOneWaiter == Spec => []OneWaiter
<1>1. IInv => OneWaiter
  BY DEF IInv
<1> QED
  BY InitIInv, NextIInv, <1>1, PTL DEF Spec

(***************************************************************************)
(* The buffer is a queue                                                    *)
(***************************************************************************)

(* The bytes inside a buffer b of head h and tail t, oldest first.          *)
Inside(h, t, b) == [i \in 1..(h - t) % BufSize |-> b[(t + i - 1) % BufSize]]

(* The remainders that the positions of the buffer meet.                    *)
LEMMA Positions ==
  \A a \in Int : a >= -BufSize /\ a < 2 * BufSize
    => a % BufSize = IF a < 0 THEN a + BufSize ELSE IF a < BufSize THEN a ELSE a - BufSize
<1>1. BufSize \in Nat \ {0}
  BY IntQAssumption
<1> QED
  BY <1>1, ModNear

LEMMA CountIs ==
  ASSUME NEW h \in 0..BufSize - 1, NEW t \in 0..BufSize - 1
  PROVE  /\ (h - t) % BufSize = IF h >= t THEN h - t ELSE h - t + BufSize
         /\ (h - t) % BufSize \in 0..BufSize - 1
<1>1. BufSize \in Nat
  BY IntQAssumption
<1>2. h - t \in Int /\ h - t >= -BufSize /\ h - t < BufSize /\ h - t < 2 * BufSize
  BY <1>1
<1>3. (h - t) % BufSize = IF h - t < 0 THEN h - t + BufSize ELSE h - t
  BY <1>2, Positions
<1> QED
  BY <1>1, <1>2, <1>3

(* The position of the i-th byte inside.                                    *)
LEMMA PositionIs ==
  ASSUME NEW t \in 0..BufSize - 1, NEW i \in 1..BufSize
  PROVE  /\ (t + i - 1) % BufSize
              = IF t + i - 1 < BufSize THEN t + i - 1 ELSE t + i - 1 - BufSize
         /\ (t + i - 1) % BufSize \in 0..BufSize - 1
<1>1. BufSize \in Nat
  BY IntQAssumption
<1> DEFINE a == t + i - 1
<1>2. a \in Int /\ a >= 0 /\ a >= -BufSize /\ a < 2 * BufSize
  BY <1>1
<1> HIDE DEF a
<1>3. a % BufSize = IF a < BufSize THEN a ELSE a - BufSize
  BY <1>1, <1>2, Positions
<1>4. a % BufSize \in 0..BufSize - 1
  BY <1>1, <1>2, <1>3
<1> QED
  BY <1>1, <1>3, <1>4 DEF a

LEMMA InsideIs ==
  ASSUME NEW h \in 0..BufSize - 1, NEW t \in 0..BufSize - 1,
         NEW b \in [0..BufSize - 1 -> Byte]
  PROVE  /\ Inside(h, t, b) \in Seq(Byte)
         /\ Len(Inside(h, t, b)) = (h - t) % BufSize
         /\ \A i \in 1..(h - t) % BufSize : Inside(h, t, b)[i] = b[(t + i - 1) % BufSize]
<1> DEFINE n == (h - t) % BufSize
           f(i) == b[(t + i - 1) % BufSize]
<1>1. n \in 0..BufSize - 1 /\ BufSize \in Nat
  BY CountIs, IntQAssumption
<1>2. \A i \in 1..n : f(i) \in Byte
  <2> SUFFICES ASSUME NEW i \in 1..n
               PROVE  f(i) \in Byte
    OBVIOUS
  <2>1. i \in 1..BufSize
    BY <1>1
  <2>2. (t + i - 1) % BufSize \in 0..BufSize - 1
    BY <2>1, PositionIs
  <2> QED
    BY <2>2
<1>3. Inside(h, t, b) = [i \in 1..n |-> f(i)]
  BY DEF Inside
<1> HIDE DEF n, f
<1>4. /\ Inside(h, t, b) \in Seq(Byte) /\ Len(Inside(h, t, b)) = n
      /\ \A i \in 1..n : Inside(h, t, b)[i] = f(i)
  BY <1>1, <1>2, <1>3
<1> QED
  BY <1>4 DEF n, f

(* intq_putc, and a handler that puts, is Put.                              *)
LEMMA StoreIsPut ==
  ASSUME TypeOK, ~Full(head, tail), StoreByte
  PROVE  /\ Len(Inside(head, tail, buf)) < BufSize - 1
         /\ taken' = taken
         /\ \E b \in Byte : Inside(head', tail', buf') = Append(Inside(head, tail, buf), b)
<1> PICK b \in Byte : buf' = [buf EXCEPT ![head] = b]
  BY DEF StoreByte
<1> DEFINE n == (head - tail) % BufSize
           m == (head' - tail) % BufSize
           s == Inside(head, tail, buf)
           r == Inside(head', tail', buf')
<1>1. /\ head \in 0..BufSize - 1 /\ tail \in 0..BufSize - 1 /\ BufSize \in Nat /\ BufSize > 1
      /\ buf \in [0..BufSize - 1 -> Byte]
      /\ taken' = taken /\ tail' = tail
  BY IntQAssumption DEF TypeOK, StoreByte
<1>2. /\ head' = IF head + 1 < BufSize THEN head + 1 ELSE 0
      /\ head' \in 0..BufSize - 1 /\ head' # tail
  BY <1>1, NextPosIs DEF StoreByte, Full
<1>3. buf' \in [0..BufSize - 1 -> Byte]
  BY <1>1
<1>4. n = IF head >= tail THEN head - tail ELSE head - tail + BufSize
  BY <1>1, CountIs
<1>5. m = IF head' >= tail THEN head' - tail ELSE head' - tail + BufSize
  BY <1>1, <1>2, CountIs
<1>6. s \in Seq(Byte) /\ Len(s) = n /\ \A i \in 1..n : s[i] = buf[(tail + i - 1) % BufSize]
  BY <1>1, InsideIs
<1>7. r \in Seq(Byte) /\ Len(r) = m /\ \A i \in 1..m : r[i] = buf'[(tail + i - 1) % BufSize]
  <2> HIDE DEF s, n
  <2>1. PICK h \in 0..BufSize - 1 : h = head'
    BY <1>2
  <2>2. PICK c \in [0..BufSize - 1 -> Byte] : c = buf'
    BY <1>3
  <2>3. /\ Inside(h, tail, c) \in Seq(Byte)
        /\ Len(Inside(h, tail, c)) = (h - tail) % BufSize
        /\ \A i \in 1..(h - tail) % BufSize : Inside(h, tail, c)[i] = c[(tail + i - 1) % BufSize]
    BY <1>1, InsideIs
  <2> QED
    BY <1>1, <2>1, <2>2, <2>3
<1> HIDE DEF n, m, s, r
<1>8. n \in Nat /\ n < BufSize - 1 /\ m = n + 1
  BY <1>1, <1>2, <1>4, <1>5
<1>9. ASSUME NEW i \in 1..n
      PROVE  r[i] = s[i]
  <2>1. i \in 1..BufSize /\ i \in 1..m
    BY <1>1, <1>8
  <2>2. /\ (tail + i - 1) % BufSize
             = IF tail + i - 1 < BufSize THEN tail + i - 1 ELSE tail + i - 1 - BufSize
        /\ (tail + i - 1) % BufSize \in 0..BufSize - 1
    BY <1>1, <2>1, PositionIs
  <2>3. (tail + i - 1) % BufSize # head
    BY <1>1, <1>4, <1>8, <2>1, <2>2
  <2> QED
    BY <1>1, <1>6, <1>7, <2>1, <2>2, <2>3
<1>10. r[n + 1] = b
  <2>1. n + 1 \in 1..BufSize /\ n + 1 \in 1..m
    BY <1>1, <1>8
  <2>2. (tail + (n + 1) - 1) % BufSize
          = IF tail + (n + 1) - 1 < BufSize THEN tail + (n + 1) - 1
            ELSE tail + (n + 1) - 1 - BufSize
    BY <1>1, <2>1, PositionIs
  <2>3. (tail + (n + 1) - 1) % BufSize = head
    BY <1>1, <1>4, <1>8, <2>2
  <2> QED
    BY <1>1, <1>7, <2>1, <2>3
<1>11. r = Append(s, b)
  <2>1. Append(s, b) \in Seq(Byte) /\ Len(Append(s, b)) = n + 1
    BY <1>6, <1>8
  <2>2. \A i \in 1..n + 1 : Append(s, b)[i] = IF i \in 1..n THEN s[i] ELSE b
    BY <1>6, <1>8
  <2>3. \A i \in 1..n + 1 : r[i] = Append(s, b)[i]
    <3>1. \A i \in 1..n + 1 : i \in 1..n \/ i = n + 1
      BY <1>8
    <3> QED
      BY <1>8, <1>9, <1>10, <2>2, <3>1
  <2> QED
    BY <1>7, <1>8, <2>1, <2>3
<1> QED
  BY <1>1, <1>6, <1>8, <1>11 DEF s, r

(* intq_getc, and a handler that gets, is Get.                              *)
LEMMA TakeIsGet ==
  ASSUME TypeOK, ~Empty(head, tail), TakeByte
  PROVE  /\ Inside(head, tail, buf) # <<>>
         /\ taken' = Head(Inside(head, tail, buf))
         /\ Inside(head', tail', buf') = Tail(Inside(head, tail, buf))
<1> DEFINE n == (head - tail) % BufSize
           m == (head - tail') % BufSize
           s == Inside(head, tail, buf)
           r == Inside(head', tail', buf')
<1>1. /\ head \in 0..BufSize - 1 /\ tail \in 0..BufSize - 1 /\ BufSize \in Nat /\ BufSize > 1
      /\ buf \in [0..BufSize - 1 -> Byte]
      /\ head' = head /\ buf' = buf /\ taken' = buf[tail] /\ head # tail
  BY IntQAssumption DEF TypeOK, TakeByte, Empty
<1>2. /\ tail' = IF tail + 1 < BufSize THEN tail + 1 ELSE 0
      /\ tail' \in 0..BufSize - 1
  BY <1>1, NextPosIs DEF TakeByte
<1>4. n = IF head >= tail THEN head - tail ELSE head - tail + BufSize
  BY <1>1, CountIs
<1>5. m = IF head >= tail' THEN head - tail' ELSE head - tail' + BufSize
  BY <1>1, <1>2, CountIs
<1>6. s \in Seq(Byte) /\ Len(s) = n /\ \A i \in 1..n : s[i] = buf[(tail + i - 1) % BufSize]
  BY <1>1, InsideIs
<1>7. r \in Seq(Byte) /\ Len(r) = m /\ \A i \in 1..m : r[i] = buf[(tail' + i - 1) % BufSize]
  <2> HIDE DEF s, n
  <2>1. PICK h \in 0..BufSize - 1 : h = tail'
    BY <1>2
  <2>2. /\ Inside(head, h, buf) \in Seq(Byte)
        /\ Len(Inside(head, h, buf)) = (head - h) % BufSize
        /\ \A i \in 1..(head - h) % BufSize : Inside(head, h, buf)[i] = buf[(h + i - 1) % BufSize]
    BY <1>1, InsideIs
  <2> QED
    BY <1>1, <2>1, <2>2
<1> HIDE DEF n, m, s, r
<1>8. n \in Nat /\ n >= 1 /\ n < BufSize /\ m = n - 1
  BY <1>1, <1>2, <1>4, <1>5
<1>9. s # <<>> /\ taken' = Head(s)
  <2>1. 1 \in 1..BufSize /\ 1 \in 1..n
    BY <1>1, <1>8
  <2>2. (tail + 1 - 1) % BufSize
          = IF tail + 1 - 1 < BufSize THEN tail + 1 - 1 ELSE tail + 1 - 1 - BufSize
    BY <1>1, <2>1, PositionIs
  <2>3. (tail + 1 - 1) % BufSize = tail
    BY <1>1, <2>2
  <2> QED
    BY <1>1, <1>6, <1>8, <2>1, <2>3
<1>10. ASSUME NEW i \in 1..m
       PROVE  r[i] = s[i + 1]
  <2>1. i \in 1..BufSize /\ i + 1 \in 1..BufSize /\ i + 1 \in 1..n
    BY <1>1, <1>8
  <2>2. (tail' + i - 1) % BufSize
          = IF tail' + i - 1 < BufSize THEN tail' + i - 1 ELSE tail' + i - 1 - BufSize
    BY <1>2, <2>1, PositionIs
  <2>3. (tail + (i + 1) - 1) % BufSize
          = IF tail + (i + 1) - 1 < BufSize THEN tail + (i + 1) - 1
            ELSE tail + (i + 1) - 1 - BufSize
    BY <1>1, <2>1, PositionIs
  <2>4. (tail' + i - 1) % BufSize = (tail + (i + 1) - 1) % BufSize
    BY <1>1, <1>2, <1>8, <2>2, <2>3
  <2> QED
    BY <1>6, <1>7, <2>1, <2>4
<1>11. r = Tail(s)
  <2>1. Tail(s) \in Seq(Byte) /\ Len(Tail(s)) = n - 1 /\ \A i \in 1..n - 1 : Tail(s)[i] = s[i + 1]
    BY <1>6, <1>8, <1>9
  <2>2. \A i \in 1..n - 1 : r[i] = Tail(s)[i]
    BY <1>8, <1>10, <2>1
  <2> QED
    BY <1>7, <1>8, <2>1, <2>2
<1> QED
  BY <1>9, <1>11 DEF s, r

(* The circular buffer of devices/intq.c is a queue of INTQ_BUFSIZE - 1     *)
(* bytes: what threads and handlers put comes out once and in that order,   *)
(* and nothing is put into a full buffer or taken from an empty one.        *)
THEOREM SpecImplementsFifo == Spec => ImplementsFifo
<1> DEFINE contents == Inside(head, tail, buf)
<1>1. Init => F!Init
  <2> SUFFICES ASSUME Init
               PROVE  F!Init
    OBVIOUS
  <2>1. head = 0 /\ tail = 0 /\ 0 \in 0..BufSize - 1 /\ taken \in Byte
    BY IntQAssumption DEF Init
  <2>2. Count = 0
    BY <2>1, CountIs DEF Count
  <2> QED
    BY <2>1, <2>2 DEF F!Init
<1>2. ASSUME TypeOK, [Next]_vars
      PROVE  [F!Next]_<<contents, taken>>
  <2>1. ASSUME ~Full(head, tail), StoreByte
        PROVE  F!Next
    <3>1. PICK b \in Byte : contents' = Append(contents, b)
      BY <1>2, <2>1, StoreIsPut
    <3>2. Len(contents) < BufSize - 1 /\ taken' = taken
      BY <1>2, <2>1, StoreIsPut
    <3> QED
      BY <3>1, <3>2 DEF F!Next, F!Put, Inside, Count
  <2>2. ASSUME ~Empty(head, tail), TakeByte
        PROVE  F!Next
    <3>1. contents # <<>> /\ taken' = Head(contents) /\ contents' = Tail(contents)
      BY <1>2, <2>2, TakeIsGet
    <3> QED
      BY <3>1 DEF F!Next, F!Get, Inside, Count
  <2>3. ASSUME NEW t \in Thread, Wait(t) \/ GetInLine(t) \/ ResumeWait(t)
        PROVE  UNCHANGED <<contents, taken>>
    BY <2>3 DEF Wait, GetInLine, ResumeWait
  <2>4. CASE HandlerStep
    BY <2>1, <2>2, <2>4 DEF HandlerStep, HandlerPuts, HandlerGets
  <2>5. ASSUME NEW t \in Thread, Loop(t)
        PROVE  F!Next \/ UNCHANGED <<contents, taken>>
    <3>1. CASE MustWait
      BY <2>3, <2>5, <3>1 DEF Loop, LockThenWait
    <3>2. CASE ~MustWait
      BY <2>1, <2>2, <2>5, <3>2 DEF Loop, MustWait
    <3> QED
      BY <3>1, <3>2
  <2>6. ASSUME NEW t \in Thread, ResumeLock(t)
        PROVE  UNCHANGED <<contents, taken>>
    BY <2>3, <2>6 DEF ResumeLock, LockThenWait
  <2>7. CASE UNCHANGED vars
    BY <2>7 DEF vars
  <2> QED
    BY <1>2, <2>3, <2>4, <2>5, <2>6, <2>7 DEF Next, ThreadStep
<1>3. ImplementsFifo <=> F!Init /\ [][F!Next]_<<contents, taken>>
  BY DEF ImplementsFifo, F!Spec, Inside, Count
<1> QED
  BY <1>1, <1>2, <1>3, SpecTypeOK, PTL DEF Spec

=============================================================================
