---------------------------- MODULE Alarm_proofs ----------------------------
(***************************************************************************)
(* Theorems about module Alarm, for any threads, priorities and sleeping    *)
(* times: every sleep is upped exactly once, no sleeper returns early, and  *)
(* a tick that wakes anybody wakes all who are due.                         *)
(***************************************************************************)
EXTENDS Alarm, Scheduler_proofs

(***************************************************************************)
(* The inductive invariant                                                  *)
(***************************************************************************)

(* The scheduler's queue and CPU agree with the threads' statuses.          *)
Consistent ==
  /\ Queued(readyList, status)
  /\ \A t \in Thread : status[t] = "running" <=> running = t

(* wait_list is in order of wakeup times, and who has been taken off it was *)
(* due.                                                                     *)
Times ==
  /\ IsAscending(waitList, wakeup)
  /\ \A t \in Thread : pc[t] \in {"listed", "sleeping"} /\ t \notin ToSet(waitList)
                         => wakeup[t] <= 0

IInv == UpOncePerSleep /\ Consistent /\ Times

(***************************************************************************)
(* Lists                                                                    *)
(***************************************************************************)

(* Ascending order is descending order of the negated keys.                 *)
Negated(S, key) == [x \in S |-> -key[x]]

(* Inserting in one order is inserting in the other with negated keys.      *)
LEMMA NegatedOrder ==
  ASSUME NEW S, NEW q \in Seq(S), NEW key \in [S -> Int]
  PROVE  /\ Negated(S, key) \in [S -> Int]
         /\ IsAscending(q, key) <=> IsDescending(q, Negated(S, key))
         /\ \A e \in S : InsertAscending(q, e, key) = InsertDescending(q, e, Negated(S, key))
<1> DEFINE neg == Negated(S, key)
<1>1. neg \in [S -> Int] /\ \A x \in S : neg[x] = -key[x] /\ key[x] \in Int
  BY DEF Negated
<1> HIDE DEF neg
<1>2. \A x, y \in S : /\ key[x] <= key[y] <=> neg[x] >= neg[y]
                      /\ key[x] > key[y] <=> neg[x] < neg[y]
  BY <1>1
<1>3. \A i \in 1..Len(q) : q[i] \in S
  BY LenProperties
<1>4. IsAscending(q, key) <=> IsDescending(q, neg)
  BY <1>2, <1>3 DEF IsAscending, IsDescending
<1>5. ASSUME NEW e \in S
      PROVE  InsertAscending(q, e, key) = InsertDescending(q, e, neg)
  <2>1. {i \in 1..Len(q) : key[q[i]] > key[e]} = {i \in 1..Len(q) : neg[q[i]] < neg[e]}
    BY <1>2, <1>3
  <2> QED
    BY <2>1 DEF InsertAscending, InsertDescending
<1> QED
  BY <1>1, <1>4, <1>5 DEF neg

(* list_insert_ordered of wait_list: as for a descending order.             *)
LEMMA InsertAscendingCorrect ==
  ASSUME NEW S, NEW q \in Seq(S), NEW e \in S, NEW key \in [S -> Int]
  PROVE  LET r == InsertAscending(q, e, key)
         IN  /\ r \in Seq(S)
             /\ Len(r) = Len(q) + 1
             /\ ToSet(r) = ToSet(q) \cup {e}
             /\ IsInjective(q) /\ e \notin ToSet(q) => IsInjective(r)
             /\ IsAscending(q, key) => IsAscending(r, key)
<1> DEFINE neg == Negated(S, key)
           r == InsertDescending(q, e, neg)
<1>1. neg \in [S -> Int] /\ (IsAscending(q, key) <=> IsDescending(q, neg))
      /\ InsertAscending(q, e, key) = r
  BY NegatedOrder
<1> HIDE DEF neg
<1>2. /\ r \in Seq(S)
      /\ Len(r) = Len(q) + 1
      /\ ToSet(r) = ToSet(q) \cup {e}
      /\ IsInjective(q) /\ e \notin ToSet(q) => IsInjective(r)
      /\ IsDescending(q, neg) => IsDescending(r, neg)
  BY <1>1, InsertDescendingCorrect
<1> HIDE DEF r
<1>3. IsAscending(r, key) <=> IsDescending(r, neg)
  BY <1>2, NegatedOrder DEF neg
<1> QED
  BY <1>1, <1>2, <1>3

(* A list cut in two after its first n elements.                            *)
LEMMA CutProperties ==
  ASSUME NEW S, NEW q \in Seq(S), NEW n \in 0..Len(q)
  PROVE  LET front == SubSeq(q, 1, n)
             back  == SubSeq(q, n + 1, Len(q))
         IN  /\ front \in Seq(S) /\ Len(front) = n
             /\ \A i \in 1..n : front[i] = q[i]
             /\ back \in Seq(S) /\ Len(back) = Len(q) - n
             /\ \A i \in 1..Len(q) - n : back[i] = q[i + n]
<1>1. Len(q) \in Nat /\ \A i \in 1..Len(q) : q[i] \in S
  BY LenProperties
<1>2. 1 \in Int /\ n \in Int /\ n + 1 \in Int /\ Len(q) \in Int
  BY <1>1
<1> DEFINE front == SubSeq(q, 1, n)
           back  == SubSeq(q, n + 1, Len(q))
<1>3. /\ front \in Seq(S)
      /\ Len(front) = IF 1 <= n THEN n - 1 + 1 ELSE 0
      /\ \A i \in 1..n - 1 + 1 : front[i] = q[1 + i - 1]
  <2>1. \A i \in 1..n : q[i] \in S
    BY <1>1
  <2> HIDE DEF front
  <2> QED
    BY <1>2, <2>1, SubSeqProperties DEF front
<1>4. /\ back \in Seq(S)
      /\ Len(back) = IF n + 1 <= Len(q) THEN Len(q) - (n + 1) + 1 ELSE 0
      /\ \A i \in 1..Len(q) - (n + 1) + 1 : back[i] = q[n + 1 + i - 1]
  <2>1. \A i \in n + 1..Len(q) : q[i] \in S
    BY <1>1
  <2> HIDE DEF back
  <2> QED
    BY <1>2, <2>1, SubSeqProperties DEF back
<1> HIDE DEF front, back
<1>5. Len(front) = n /\ \A i \in 1..n : front[i] = q[i]
  BY <1>1, <1>3
<1>6. Len(back) = Len(q) - n
  BY <1>1, <1>4
<1>7. \A i \in 1..Len(q) - n : back[i] = q[i + n]
  <2>1. \A i \in 1..Len(q) - n : i \in 1..Len(q) - (n + 1) + 1 /\ n + 1 + i - 1 = i + n
    BY <1>1
  <2> QED
    BY <1>4, <2>1
<1> QED
  BY <1>3, <1>4, <1>5, <1>6, <1>7 DEF front, back

(* Cut in two, a list that repeats nothing has its elements in one part or  *)
(* the other, and each part is in order if it was.                          *)
LEMMA CutParts ==
  ASSUME NEW S, NEW q \in Seq(S), NEW n \in 0..Len(q), NEW key \in [S -> Int]
  PROVE  LET front == SubSeq(q, 1, n)
             back  == SubSeq(q, n + 1, Len(q))
         IN  /\ ToSet(q) = ToSet(front) \cup ToSet(back)
             /\ IsInjective(q) => /\ IsInjective(front) /\ IsInjective(back)
                                  /\ ToSet(front) \cap ToSet(back) = {}
             /\ IsAscending(q, key) => IsAscending(back, key)
<1> DEFINE front == SubSeq(q, 1, n)
           back  == SubSeq(q, n + 1, Len(q))
           m == Len(q)
<1>1. /\ front \in Seq(S) /\ Len(front) = n
      /\ \A i \in 1..n : front[i] = q[i]
      /\ back \in Seq(S) /\ Len(back) = m - n
      /\ \A i \in 1..m - n : back[i] = q[i + n]
  BY CutProperties
<1> HIDE DEF front, back
<1>2. /\ m \in Nat /\ n \in Nat /\ n <= m
      /\ DOMAIN q = 1..m /\ DOMAIN front = 1..n /\ DOMAIN back = 1..m - n
      /\ \A i \in 1..m : q[i] \in S /\ key[q[i]] \in Int
  BY <1>1, LenProperties
<1>a. IsAscending(q, key) <=> \A i, j \in 1..m : i < j => key[q[i]] <= key[q[j]]
  BY DEF IsAscending
<1> HIDE DEF m
<1>3. /\ \A i \in 1..n : i \in 1..m
      /\ \A i \in 1..m - n : i + n \in 1..m
      /\ \A i \in 1..m : i \notin 1..n => i - n \in 1..m - n /\ (i - n) + n = i
  BY <1>2
<1>4. ToSet(q) = ToSet(front) \cup ToSet(back)
  <2>1. ToSet(front) \subseteq ToSet(q) /\ ToSet(back) \subseteq ToSet(q)
    <3>1. \A i \in 1..n : front[i] = q[i] /\ i \in 1..m
      BY <1>1, <1>3
    <3>2. \A i \in 1..m - n : back[i] = q[i + n] /\ i + n \in 1..m
      BY <1>1, <1>3
    <3>3. ToSet(front) \subseteq ToSet(q)
      BY <1>2, <3>1, Zenon DEF ToSet
    <3>4. ToSet(back) \subseteq ToSet(q)
      BY <1>2, <3>2, Zenon DEF ToSet
    <3> QED
      BY <3>3, <3>4
  <2>2. ASSUME NEW i \in 1..m PROVE q[i] \in ToSet(front) \cup ToSet(back)
    <3>1. CASE i \in 1..n
      BY <1>1, <1>2, <3>1 DEF ToSet
    <3>2. CASE i \notin 1..n
      <4>1. i - n \in 1..m - n /\ back[i - n] = q[i]
        BY <1>1, <1>3, <3>2
      <4> QED
        BY <1>2, <4>1 DEF ToSet
    <3> QED
      BY <3>1, <3>2
  <2> QED
    BY <1>2, <2>1, <2>2 DEF ToSet
<1>5. ASSUME IsInjective(q)
      PROVE  /\ IsInjective(front) /\ IsInjective(back)
             /\ ToSet(front) \cap ToSet(back) = {}
  <2>1. \A i, j \in 1..m : q[i] = q[j] => i = j
    BY <1>2, <1>5 DEF IsInjective
  <2>2. IsInjective(front)
    BY <1>1, <1>2, <1>3, <2>1 DEF IsInjective
  <2>3. ASSUME NEW i \in 1..m - n, NEW j \in 1..m - n, back[i] = back[j]
        PROVE  i = j
    <3>1. i + n \in 1..m /\ j + n \in 1..m
      BY <1>3
    <3>2. q[i + n] = q[j + n]
      BY <1>1, <2>3
    <3> DEFINE i2 == i + n
               j2 == j + n
    <3>3. i2 = j2
      <4> HIDE DEF i2, j2
      <4>1. i2 \in 1..m /\ j2 \in 1..m /\ q[i2] = q[j2]
        BY <3>1, <3>2 DEF i2, j2
      <4> QED
        BY <2>1, <4>1
    <3> QED
      BY <1>2, <3>3
  <2>4. ASSUME NEW i \in 1..n, NEW j \in 1..m - n
        PROVE  front[i] # back[j]
    <3>1. i # j + n
      BY <1>2
    <3> QED
      BY <1>1, <1>3, <2>1, <3>1
  <2>5. IsInjective(back)
    BY <1>2, <2>3 DEF IsInjective
  <2>6. ToSet(front) \cap ToSet(back) = {}
    BY <1>2, <2>4 DEF ToSet
  <2> QED
    BY <2>2, <2>5, <2>6
<1>6. ASSUME IsAscending(q, key)
      PROVE  IsAscending(back, key)
  <2> SUFFICES ASSUME NEW i \in 1..m - n, NEW j \in 1..m - n, i < j
               PROVE  key[back[i]] <= key[back[j]]
    BY <1>1, <1>2 DEF IsAscending
  <2>1. i + n \in 1..m /\ j + n \in 1..m /\ i + n < j + n
    BY <1>2
  <2>2. key[q[i + n]] <= key[q[j + n]]
    BY <1>a, <1>6, <2>1
  <2> QED
    BY <1>1, <2>2
<1> QED
  BY <1>4, <1>5, <1>6 DEF front, back

(* Inserting, in turn, those of due that have status "blocked" in st: what  *)
(* ReadyListAfter does, for any list, statuses and priorities.              *)
InsertBlocked(q0, due, st, key) ==
  LET after[n \in 0..Len(due)] ==
        IF n = 0 THEN q0
        ELSE IF st[due[n]] = "blocked"
             THEN InsertDescending(after[n-1], due[n], key)
             ELSE after[n-1]
  IN  after[Len(due)]

BlockedIn(due, st) == {t \in ToSet(due) : st[t] = "blocked"}

(* The list gains exactly those, and still repeats nothing.                 *)
LEMMA InsertBlockedCorrect ==
  ASSUME NEW S, NEW q0 \in Seq(S), NEW due \in Seq(S), NEW key \in [S -> Int], NEW st,
         IsInjective(q0), IsInjective(due), BlockedIn(due, st) \cap ToSet(q0) = {}
  PROVE  LET r == InsertBlocked(q0, due, st, key)
         IN  /\ r \in Seq(S)
             /\ IsInjective(r)
             /\ ToSet(r) = ToSet(q0) \cup BlockedIn(due, st)
<1>1. \A q \in Seq(S), e \in S :
        /\ InsertDescending(q, e, key) \in Seq(S)
        /\ ToSet(InsertDescending(q, e, key)) = ToSet(q) \cup {e}
        /\ IsInjective(q) /\ e \notin ToSet(q) => IsInjective(InsertDescending(q, e, key))
  BY InsertDescendingCorrect
<1> DEFINE m == Len(due)
           Lists == Seq(S)
<1>2. m \in Nat
  BY LenProperties
<1> DEFINE blocked(k) == st[due[k]] = "blocked"
           One(k, q) == IF blocked(k) THEN InsertDescending(q, due[k], key) ELSE q
           F == [k \in 1..m |-> [q \in Lists |-> One(k, q)]]
           Def(f) == f = [n \in 0..m |-> IF n = 0 THEN q0
                                         ELSE IF st[due[n]] = "blocked"
                                              THEN InsertDescending(f[n-1], due[n], key)
                                              ELSE f[n-1]]
           after == CHOOSE f : Def(f)
<1>3. /\ m \in Nat /\ DOMAIN due = 1..m
      /\ \A k \in 1..m : due[k] \in S
      /\ key \in [S -> Int]
      /\ q0 \in Lists
  <2>1. m \in Nat /\ DOMAIN due = 1..m /\ \A k \in 1..m : due[k] \in S
    BY LenProperties
  <2> QED
    BY <2>1
<1> HIDE DEF m
<1>4. \A k \in 1..m : \A q \in Lists : One(k, q) \in Lists
  BY <1>1, <1>3
<1>5. PICK f \in [0..m -> Lists] : f[0] = q0 /\ \A k \in 1..m : f[k] = F[k][f[k-1]]
  <2>1. F \in Steps(m, Lists)
    BY <1>4 DEF Steps
  <2>2. q0 \in Lists
    OBVIOUS
  <2> HIDE DEF F, Lists
  <2>3. \E f \in Runs(m, Lists) : Recurs(f, m, q0, F)
    BY <1>2, <2>1, <2>2, RecursionUpTo, Zenon
  <2> QED
    BY <2>3, Zenon DEF Runs, Recurs
<1>6. \A k \in 1..m : f[k] = One(k, f[k-1])
  <2>1. \A k \in 1..m : k - 1 \in 0..m
    BY <1>3
  <2>2. \A k \in 1..m : f[k-1] \in Lists
    BY <2>1
  <2> HIDE DEF Lists, One
  <2> QED
    BY <1>5, <2>2 DEF F
<1>7. Def(f)
  <2>1. \A n \in 0..m : n # 0 => n \in 1..m
    BY <1>3
  <2>2. \A n \in 0..m : f[n] = IF n = 0 THEN q0 ELSE One(n, f[n-1])
    BY <1>5, <1>6, <2>1
  <2>3. f = [n \in 0..m |-> f[n]]
    OBVIOUS
  <2> QED
    BY <2>2, <2>3
<1>8. Def(after)
  <2> HIDE DEF Def
  <2> QED
    BY <1>7
<1>9. /\ after[0] = q0
      /\ \A k \in 1..m : after[k] = One(k, after[k-1])
  <2> HIDE DEF after
  <2>1. 0 \in 0..m /\ \A k \in 1..m : k \in 0..m /\ k # 0
    BY <1>3
  <2> QED
    BY <1>8, <2>1
<1> HIDE DEF after, Def
<1> DEFINE Woken(k) == {due[i] : i \in {j \in 1..k : blocked(j)}}
           Good(k) == /\ after[k] \in Lists
                      /\ IsInjective(after[k])
                      /\ ToSet(after[k]) = ToSet(q0) \cup Woken(k)
           T == {k \in 0..m : Good(k)}
<1>10. 0 \in T
  <2>1. Woken(0) = {} /\ 0 \in 0..m
    BY <1>3
  <2> QED
    BY <1>3, <1>9, <2>1
<1>11. ASSUME NEW k \in 1..m, k - 1 \in T
       PROVE  k \in T
  <2>1. Good(k - 1) /\ k \in 0..m
    BY <1>3, <1>11
  <2>2. after[k] = One(k, after[k-1]) /\ due[k] \in S
    BY <1>3, <1>9
  <2>3. \A i \in 1..k : i # k => i \in 1..k - 1
    BY <1>3
  <2>4. \A i \in 1..k - 1 : i \in 1..k /\ i \in 1..m /\ i # k
    BY <1>3
  <2>5. CASE blocked(k)
    <3>1. Woken(k) = Woken(k - 1) \cup {due[k]}
      <4>1. k \in 1..k
        BY <1>3
      <4> QED
        BY <2>3, <2>4, <2>5, <4>1, Zenon
    <3>2. due[k] \notin ToSet(q0)
      BY <1>3, <2>5 DEF ToSet, BlockedIn
    <3>3. due[k] \notin Woken(k - 1)
      <4>1. \A i, j \in 1..m : due[i] = due[j] => i = j
        BY <1>3 DEF IsInjective
      <4> QED
        BY <2>4, <4>1
    <3> HIDE DEF Woken
    <3>4. after[k] = InsertDescending(after[k-1], due[k], key)
      BY <2>2, <2>5
    <3>5. /\ after[k-1] \in Seq(S) /\ IsInjective(after[k-1])
          /\ ToSet(after[k-1]) = ToSet(q0) \cup Woken(k - 1)
      BY <2>1
    <3>6. due[k] \notin ToSet(after[k-1])
      BY <3>2, <3>3, <3>5
    <3>7. /\ after[k] \in Seq(S) /\ IsInjective(after[k])
          /\ ToSet(after[k]) = ToSet(after[k-1]) \cup {due[k]}
      <4>1. due[k] \in S /\ after[k-1] \in Seq(S)
        BY <2>2, <3>5
      <4>2. /\ InsertDescending(after[k-1], due[k], key) \in Seq(S)
            /\ ToSet(InsertDescending(after[k-1], due[k], key)) = ToSet(after[k-1]) \cup {due[k]}
        BY <1>1, <4>1, Zenon
      <4>3. IsInjective(InsertDescending(after[k-1], due[k], key))
        BY <1>1, <3>5, <3>6, <4>1, Zenon
      <4> QED
        BY <3>4, <4>2, <4>3, Zenon
    <3>8. Good(k)
      BY <3>1, <3>5, <3>7
    <3> QED
      BY <2>1, <3>8
  <2>6. CASE ~ blocked(k)
    <3>1. Woken(k) = Woken(k - 1)
      BY <2>3, <2>4, <2>6, Zenon
    <3>2. after[k] = after[k-1]
      BY <2>2, <2>6
    <3> HIDE DEF Woken
    <3> QED
      BY <2>1, <3>1, <3>2
  <2> QED
    BY <2>5, <2>6
<1>12. Good(m)
  <2> HIDE DEF T
  <2>1. \A k \in 0..m : k \in T
    BY <1>3, <1>10, <1>11, InductionUpTo
  <2>2. m \in 0..m
    BY <1>3
  <2> QED
    BY <2>1, <2>2 DEF T
<1>13. Woken(m) = BlockedIn(due, st)
  BY <1>3 DEF ToSet, BlockedIn
<1> HIDE DEF Woken
<1> QED
  BY <1>12, <1>13 DEF m, after, Def, InsertBlocked

(* Unblocking, in turn, those of due that are blocked leaves the ready list *)
(* and the statuses in agreement.                                           *)
LEMMA ReadyAfterAgrees ==
  ASSUME NEW due \in Seq(Thread), IsInjective(due),
         priority \in [Thread -> Priority], status \in [Thread -> Status],
         Queued(readyList, status)
  PROVE  Queued(ReadyListAfter(due), StatusAfter(due))
<1> DEFINE r == InsertBlocked(readyList, due, status, priority)
<1>0. ReadyListAfter(due) = r
  BY DEF ReadyListAfter, InsertBlocked
<1>1. priority \in [Thread -> Int] /\ readyList \in Seq(Thread) /\ IsInjective(readyList)
      /\ BlockedIn(due, status) \cap ToSet(readyList) = {}
  BY PriorityIsInt DEF Queued, BlockedIn
<1>2. /\ r \in Seq(Thread)
      /\ IsInjective(r)
      /\ ToSet(r) = ToSet(readyList) \cup BlockedIn(due, status)
  BY <1>1, InsertBlockedCorrect
<1>3. ToSet(due) \subseteq Thread
  BY LenProperties DEF ToSet
<1>4. \A t \in Thread :
         StatusAfter(due)[t] = IF t \in ToSet(due) /\ status[t] = "blocked" THEN "ready"
                               ELSE status[t]
  BY DEF StatusAfter
<1> HIDE DEF r
<1>5. ToSet(r) = {t \in Thread : StatusAfter(due)[t] = "ready"}
  BY <1>2, <1>3, <1>4 DEF Queued, BlockedIn
<1> QED
  BY <1>0, <1>2, <1>5 DEF Queued

(***************************************************************************)
(* The scheduler under the alarm                                            *)
(***************************************************************************)

(* The parts of UpOncePerSleep apart from the types and that wait_list       *)
(* repeats nothing.                                                         *)
UppedOnce ==
  \A t \in Thread :
    /\ t \in ToSet(waitList) <=> pc[t] \in {"listed", "sleeping"} /\ sleepValue[t] = 0
    /\ sleepValue[t] = IF pc[t] \in {"listed", "sleeping"} /\ t \notin ToSet(waitList)
                       THEN 1 ELSE 0

SleepersListed == \A t \in Thread : status[t] = "blocked" => t \in ToSet(waitList)

(* The invariant, taken apart and put together.                             *)
LEMMA Parts ==
  IInv <=> /\ TypeOK /\ IsInjective(waitList) /\ UppedOnce /\ SleepersListed
           /\ Consistent /\ Times
BY DEF IInv, UpOncePerSleep, UppedOnce, SleepersListed

LEMMA PartsNext ==
  ASSUME TypeOK', IsInjective(waitList)', UppedOnce', SleepersListed', Consistent', Times'
  PROVE  IInv'
BY DEF IInv, UpOncePerSleep, UppedOnce, SleepersListed

(* What a context switch that began with the statuses st leaves.            *)
LEMMA AfterSwitch ==
  ASSUME NEW st, Dispatched(st)
  PROVE  /\ running' \in Thread \cup {Idle}
         /\ status' \in [Thread -> Status]
         /\ readyList' \in Seq(Thread)
         /\ Consistent'
         /\ \A t \in Thread : status'[t] = "blocked" => st[t] = "blocked"
<1>1. /\ running' \in Thread \cup {Idle}
      /\ status' \in [Thread -> Status]
      /\ Queued(readyList', status')
      /\ \A t \in Thread : status'[t] = "running" <=> running' = t
      /\ \A t \in Thread :
           \/ status'[t] = st[t]
           \/ {st[t], status'[t]} \subseteq {"ready", "running"}
  BY DEF Dispatched
<1>2. Consistent'
  BY <1>1 DEF Consistent, Queued
<1>3. readyList' \in Seq(Thread)
  BY <1>1 DEF Queued
<1> QED
  BY <1>1, <1>2, <1>3

(* schedule() away from the running thread, which takes status s.           *)
LEMMA SwitchAway ==
  ASSUME TypeOK, Consistent, NEW t \in Thread, running = t,
         NEW s \in {"blocked", "dying"},
         Schedule(readyList, [status EXCEPT ![t] = s])
  PROVE  Dispatched([status EXCEPT ![t] = s])
<1> DEFINE st == [status EXCEPT ![t] = s]
<1>1. /\ priority \in [Thread -> Priority] /\ status \in [Thread -> Status]
      /\ Queued(readyList, status)
      /\ \A u \in Thread : status[u] = "running" <=> u = t
  BY DEF TypeOK, SchedTypeOK, Consistent
<1>2. st \in [Thread -> Status] /\ \A u \in Thread : st[u] = IF u = t THEN s ELSE status[u]
  BY <1>1 DEF Status
<1> HIDE DEF st
<1>3. \A u \in Thread : /\ st[u] = "ready" <=> status[u] = "ready"
                        /\ st[u] # "running"
  BY <1>1, <1>2
<1>4. Queued(readyList, st)
  BY <1>1, <1>3 DEF Queued
<1> QED
  BY <1>1, <1>2, <1>3, <1>4, ScheduleDispatches DEF st

(* thread_yield() with nothing else changed.                                *)
LEMMA PlainYield ==
  ASSUME TypeOK, Consistent, Yield
  PROVE  Dispatched(status)
BY YieldDispatches DEF TypeOK, SchedTypeOK, Consistent, Yield

(* A step of a thread that is not in timer_sleep before or after it.        *)
LEMMA OutsideSleep ==
  ASSUME IInv, UNCHANGED alarmVars, NEW t \in Thread, NEW x,
         pc' = [pc EXCEPT ![t] = x],
         {pc[t], x} \cap {"computed", "listed", "sleeping"} = {}
  PROVE  IsInjective(waitList)' /\ UppedOnce' /\ Times'
<1>1. waitList' = waitList /\ sleepValue' = sleepValue /\ wakeup' = wakeup
  BY DEF alarmVars
<1>2. \A u \in Thread : pc'[u] \in {"listed", "sleeping"} <=> pc[u] \in {"listed", "sleeping"}
  BY Parts DEF TypeOK, SchedTypeOK
<1>3. UppedOnce'
  BY <1>1, <1>2, Parts DEF UppedOnce
<1>4. Times'
  BY <1>1, <1>2, Parts DEF Times, IsAscending
<1> QED
  BY <1>1, <1>3, <1>4, Parts

(* thread_create() puts the new thread on the ready list.                   *)
LEMMA ThreadCreateKeeps ==
  ASSUME IInv, NEW t \in Thread, NEW u \in Thread, ThreadCreate(t, u), UNCHANGED alarmVars
  PROVE  IInv'
<1>1. /\ TypeOK /\ UppedOnce /\ SleepersListed /\ Consistent
  BY Parts
<1>2. /\ pc[t] = "run" /\ running = t /\ status[u] = "unborn"
      /\ readyList' = QueueWith(u) /\ status' = [status EXCEPT ![u] = "ready"]
      /\ pc' = [pc EXCEPT ![t] = "created"] /\ arg' = [arg EXCEPT ![t] = u]
      /\ running' = running /\ priority' = priority /\ originalPri' = originalPri
      /\ waitList' = waitList /\ sleepValue' = sleepValue /\ wakeup' = wakeup
  BY DEF ThreadCreate, Running, StatusWith, alarmVars
<1>3. IsInjective(waitList)' /\ UppedOnce' /\ Times'
  BY <1>2, OutsideSleep
<1>4. /\ priority \in [Thread -> Int] /\ status \in [Thread -> Status]
      /\ readyList \in Seq(Thread) /\ IsInjective(readyList)
      /\ ToSet(readyList) = {v \in Thread : status[v] = "ready"}
  BY <1>1, PriorityIsInt DEF TypeOK, SchedTypeOK, Consistent, Queued
<1>5. u \notin ToSet(readyList)
  BY <1>2, <1>4
<1>6. /\ QueueWith(u) \in Seq(Thread)
      /\ IsInjective(QueueWith(u))
      /\ ToSet(QueueWith(u)) = ToSet(readyList) \cup {u}
  <2>1. priority \in [Thread -> Int] /\ readyList \in Seq(Thread) /\ IsInjective(readyList)
    BY <1>4
  <2> QED
    BY <1>5, <2>1, InsertDescendingCorrect DEF QueueWith
<1>7. /\ status' \in [Thread -> Status]
      /\ \A v \in Thread : status'[v] = IF v = u THEN "ready" ELSE status[v]
  BY <1>2, <1>4 DEF Status
<1>8. ToSet(readyList') = {v \in Thread : status'[v] = "ready"}
  BY <1>2, <1>4, <1>6, <1>7
<1>9. \A v \in Thread : status'[v] = "running" <=> running' = v
  BY <1>1, <1>2, <1>7 DEF Consistent
<1>10. Consistent'
  BY <1>2, <1>6, <1>8, <1>9 DEF Consistent, Queued
<1>11. SleepersListed'
  BY <1>1, <1>2, <1>7 DEF SleepersListed
<1>12. TypeOK'
  <2>1. pc' \in [Thread -> PC] /\ arg' \in [Thread -> Thread \cup Lock \cup {None}]
    BY <1>1, <1>2 DEF TypeOK, SchedTypeOK, PC
  <2> QED
    BY <1>1, <1>2, <1>6, <1>7, <2>1 DEF TypeOK, SchedTypeOK
<1> QED
  BY <1>3, <1>10, <1>11, <1>12, PartsNext

(* thread_exit() is not called inside timer_sleep.                          *)
LEMMA ThreadExitKeeps ==
  ASSUME IInv, NEW t \in Thread, ThreadExit(t), UNCHANGED alarmVars
  PROVE  IInv'
<1> DEFINE st == [status EXCEPT ![t] = "dying"]
<1>1. /\ TypeOK /\ UppedOnce /\ SleepersListed /\ Consistent /\ Times
      /\ IsInjective(waitList)
  BY Parts
<1>2. /\ pc[t] = "run" /\ running = t /\ Schedule(readyList, st)
      /\ pc' = pc /\ arg' = arg /\ priority' = priority /\ originalPri' = originalPri
      /\ waitList' = waitList /\ sleepValue' = sleepValue /\ wakeup' = wakeup
  BY DEF ThreadExit, Running, alarmVars
<1>3. Dispatched(st)
  BY <1>1, <1>2, SwitchAway
<1>4. \A u \in Thread : st[u] = "blocked" => status[u] = "blocked"
  BY <1>1 DEF TypeOK, SchedTypeOK
<1> HIDE DEF st
<1>5. /\ running' \in Thread \cup {Idle} /\ status' \in [Thread -> Status]
      /\ readyList' \in Seq(Thread) /\ Consistent'
      /\ \A u \in Thread : status'[u] = "blocked" => st[u] = "blocked"
  BY <1>3, AfterSwitch
<1>6. SleepersListed'
  BY <1>1, <1>2, <1>4, <1>5 DEF SleepersListed
<1>7. UppedOnce' /\ IsInjective(waitList)'
  BY <1>1, <1>2 DEF UppedOnce
<1>8. Times'
  BY <1>1, <1>2 DEF Times, IsAscending
<1>9. TypeOK'
  BY <1>1, <1>2, <1>5 DEF TypeOK, SchedTypeOK
<1> QED
  BY <1>5, <1>6, <1>7, <1>8, <1>9, PartsNext

(* The end of thread_create() may yield.                                    *)
LEMMA ThreadCreatedKeeps ==
  ASSUME IInv, NEW t \in Thread, ThreadCreated(t), UNCHANGED alarmVars
  PROVE  IInv'
<1>1. /\ TypeOK /\ SleepersListed /\ Consistent
  BY Parts
<1>2. /\ pc[t] = "created"
      /\ pc' = [pc EXCEPT ![t] = "run"] /\ arg' = [arg EXCEPT ![t] = None]
      /\ Yield \/ UNCHANGED <<running, status, readyList>>
      /\ priority' = priority /\ originalPri' = originalPri
      /\ waitList' = waitList /\ sleepValue' = sleepValue /\ wakeup' = wakeup
  BY DEF ThreadCreated, Running, alarmVars
<1>3. IsInjective(waitList)' /\ UppedOnce' /\ Times'
  BY <1>2, OutsideSleep
<1>4. /\ running' \in Thread \cup {Idle} /\ status' \in [Thread -> Status]
      /\ readyList' \in Seq(Thread) /\ Consistent'
      /\ \A u \in Thread : status'[u] = "blocked" => status[u] = "blocked"
  <2>1. CASE Yield
    BY <1>1, <2>1, PlainYield, AfterSwitch
  <2>2. CASE UNCHANGED <<running, status, readyList>>
    BY <1>1, <2>2 DEF TypeOK, SchedTypeOK, Consistent, Queued
  <2> QED
    BY <1>2, <2>1, <2>2
<1>5. SleepersListed'
  BY <1>1, <1>2, <1>4 DEF SleepersListed
<1>6. TypeOK'
  <2>1. pc' \in [Thread -> PC] /\ arg' \in [Thread -> Thread \cup Lock \cup {None}]
    BY <1>1, <1>2 DEF TypeOK, SchedTypeOK, PC
  <2> QED
    BY <1>1, <1>2, <1>4, <2>1 DEF TypeOK, SchedTypeOK
<1> QED
  BY <1>3, <1>4, <1>5, <1>6, PartsNext

(***************************************************************************)
(* timer_sleep()                                                            *)
(***************************************************************************)

(* A thread that computes its wakeup time is not on wait_list, whose order  *)
(* therefore stands.                                                        *)
LEMMA ComputeWakeupKeeps ==
  ASSUME IInv, NEW t \in Thread, ComputeWakeup(t)
  PROVE  IInv'
<1>1. /\ TypeOK /\ UppedOnce /\ SleepersListed /\ Consistent /\ Times
      /\ IsInjective(waitList)
  BY Parts
<1>2. PICK n \in SleepChoices : wakeup' = [wakeup EXCEPT ![t] = n]
  BY DEF ComputeWakeup
<1>3. /\ pc[t] = "run" /\ pc' = [pc EXCEPT ![t] = "computed"]
      /\ UNCHANGED <<running, status, readyList, priority, originalPri, arg>>
      /\ waitList' = waitList /\ sleepValue' = sleepValue
  BY DEF ComputeWakeup, Running
<1>4. n \in Int /\ wakeup \in [Thread -> Int] /\ pc \in [Thread -> PC]
      /\ waitList \in Seq(Thread)
  BY <1>1, SleepAssumption DEF TypeOK, SchedTypeOK
<1>5. t \notin ToSet(waitList)
  BY <1>1, <1>3 DEF UppedOnce
<1>6. \A u \in Thread :
        /\ pc'[u] \in {"listed", "sleeping"} <=> pc[u] \in {"listed", "sleeping"}
        /\ pc'[u] \in {"listed", "sleeping"} => u # t
        /\ u # t => wakeup'[u] = wakeup[u]
  BY <1>2, <1>3, <1>4
<1>7. UppedOnce' /\ SleepersListed' /\ IsInjective(waitList)'
  BY <1>1, <1>3, <1>6 DEF UppedOnce, SleepersListed
<1>8. Consistent'
  BY <1>1, <1>3 DEF Consistent, Queued
<1>9. Times'
  <2>1. \A i \in 1..Len(waitList) : waitList[i] \in ToSet(waitList) /\ waitList[i] \in Thread
    BY <1>4, LenProperties DEF ToSet
  <2>2. \A i \in 1..Len(waitList) : wakeup'[waitList[i]] = wakeup[waitList[i]]
    BY <1>5, <1>6, <2>1
  <2>3. IsAscending(waitList, wakeup)'
    BY <1>1, <1>3, <2>2 DEF Times, IsAscending
  <2> QED
    BY <1>1, <1>3, <1>6, <2>3 DEF Times
<1>10. TypeOK'
  <2>1. pc' \in [Thread -> PC] /\ wakeup' \in [Thread -> Int]
    BY <1>2, <1>3, <1>4 DEF PC
  <2> QED
    BY <1>1, <1>3, <2>1 DEF TypeOK, SchedTypeOK
<1> QED
  BY <1>7, <1>8, <1>9, <1>10, PartsNext

(* The insertion keeps wait_list in order.                                  *)
LEMMA GetOnWaitListKeeps ==
  ASSUME IInv, NEW t \in Thread, GetOnWaitList(t)
  PROVE  IInv'
<1> DEFINE w == InsertAscending(waitList, t, wakeup)
<1>1. /\ TypeOK /\ UppedOnce /\ SleepersListed /\ Consistent /\ Times
      /\ IsInjective(waitList)
  BY Parts
<1>2. /\ pc[t] = "computed" /\ pc' = [pc EXCEPT ![t] = "listed"]
      /\ UNCHANGED <<running, status, readyList, priority, originalPri, arg>>
      /\ waitList' = w /\ sleepValue' = sleepValue /\ wakeup' = wakeup
  BY DEF GetOnWaitList, Running
<1>3. /\ wakeup \in [Thread -> Int] /\ pc \in [Thread -> PC]
      /\ waitList \in Seq(Thread)
  BY <1>1 DEF TypeOK, SchedTypeOK
<1>4. t \notin ToSet(waitList) /\ sleepValue[t] = 0
  BY <1>1, <1>2 DEF UppedOnce
<1>5. IsAscending(waitList, wakeup)
  BY <1>1 DEF Times
<1>6. /\ w \in Seq(Thread)
      /\ IsInjective(w)
      /\ ToSet(w) = ToSet(waitList) \cup {t}
      /\ IsAscending(w, wakeup)
  BY <1>1, <1>3, <1>4, <1>5, InsertAscendingCorrect
<1> HIDE DEF w
<1>7. \A u \in Thread : pc'[u] = IF u = t THEN "listed" ELSE pc[u]
  BY <1>2, <1>3
<1>8. UppedOnce'
  BY <1>1, <1>2, <1>4, <1>6, <1>7 DEF UppedOnce
<1>9. SleepersListed' /\ IsInjective(waitList)'
  BY <1>1, <1>2, <1>6 DEF SleepersListed
<1>10. Consistent'
  BY <1>1, <1>2 DEF Consistent, Queued
<1>11. Times'
  BY <1>1, <1>2, <1>6, <1>7 DEF Times, IsAscending
<1>12. TypeOK'
  <2>1. pc' \in [Thread -> PC]
    BY <1>2, <1>3 DEF PC
  <2> QED
    BY <1>1, <1>2, <1>6, <2>1 DEF TypeOK, SchedTypeOK
<1> QED
  BY <1>8, <1>9, <1>10, <1>11, <1>12, PartsNext

(* A thread that its semaphore lets through has been taken off wait_list; one*)
(* that blocks is still on it.                                              *)
LEMMA SleepDownKeeps ==
  ASSUME IInv, NEW t \in Thread, SleepDown(t)
  PROVE  IInv'
<1>1. /\ TypeOK /\ UppedOnce /\ SleepersListed /\ Consistent /\ Times
      /\ IsInjective(waitList)
  BY Parts
<1>2. /\ running = t /\ pc[t] \in {"listed", "sleeping"}
      /\ priority' = priority /\ originalPri' = originalPri /\ arg' = arg
      /\ wakeup' = wakeup /\ waitList' = waitList
  BY DEF SleepDown
<1>3. /\ pc \in [Thread -> PC] /\ sleepValue \in [Thread -> Nat]
      /\ status \in [Thread -> Status]
  BY <1>1 DEF TypeOK, SchedTypeOK
<1>4. CASE Upped(t)
  <2>1. /\ sleepValue' = [sleepValue EXCEPT ![t] = @ - 1]
        /\ pc' = [pc EXCEPT ![t] = "run"]
        /\ running' = running /\ status' = status /\ readyList' = readyList
    BY <1>4 DEF SleepDown
  <2>2. sleepValue[t] = 1 /\ t \notin ToSet(waitList)
    BY <1>1, <1>4 DEF UppedOnce, Upped
  <2>3. \A u \in Thread : /\ pc'[u] = IF u = t THEN "run" ELSE pc[u]
                          /\ sleepValue'[u] = IF u = t THEN 0 ELSE sleepValue[u]
    BY <1>3, <2>1, <2>2
  <2>4. UppedOnce'
    BY <1>1, <1>2, <2>2, <2>3 DEF UppedOnce
  <2>5. SleepersListed' /\ IsInjective(waitList)'
    BY <1>1, <1>2, <2>1 DEF SleepersListed
  <2>6. Consistent'
    BY <1>1, <2>1 DEF Consistent, Queued
  <2>7. Times'
    BY <1>1, <1>2, <2>3 DEF Times, IsAscending
  <2>8. TypeOK'
    <3>1. pc' \in [Thread -> PC] /\ sleepValue' \in [Thread -> Nat]
      BY <1>3, <2>1, <2>2 DEF PC
    <3> QED
      BY <1>1, <1>2, <2>1, <3>1 DEF TypeOK, SchedTypeOK
  <2> QED
    BY <2>4, <2>5, <2>6, <2>7, <2>8, PartsNext
<1>5. CASE ~ Upped(t)
  <2> DEFINE st == [status EXCEPT ![t] = "blocked"]
  <2>1. /\ pc' = [pc EXCEPT ![t] = "sleeping"] /\ sleepValue' = sleepValue
        /\ Schedule(readyList, st)
    BY <1>5 DEF SleepDown, Block
  <2>2. sleepValue[t] = 0
    BY <1>3, <1>5 DEF Upped
  <2>3. t \in ToSet(waitList)
    BY <1>1, <1>2, <2>2 DEF UppedOnce
  <2>4. Dispatched(st)
    BY <1>1, <1>2, <2>1, SwitchAway
  <2>5. \A u \in Thread : st[u] = "blocked" => u = t \/ status[u] = "blocked"
    BY <1>3
  <2> HIDE DEF st
  <2>6. /\ running' \in Thread \cup {Idle} /\ status' \in [Thread -> Status]
        /\ readyList' \in Seq(Thread) /\ Consistent'
        /\ \A u \in Thread : status'[u] = "blocked" => st[u] = "blocked"
    BY <2>4, AfterSwitch
  <2>7. \A u \in Thread :
          pc'[u] \in {"listed", "sleeping"} <=> pc[u] \in {"listed", "sleeping"}
    BY <1>2, <1>3, <2>1
  <2>8. UppedOnce'
    BY <1>1, <1>2, <2>1, <2>7 DEF UppedOnce
  <2>9. SleepersListed' /\ IsInjective(waitList)'
    BY <1>1, <1>2, <2>3, <2>5, <2>6 DEF SleepersListed
  <2>10. Times'
    BY <1>1, <1>2, <2>7 DEF Times, IsAscending
  <2>11. TypeOK'
    <3>1. pc' \in [Thread -> PC]
      BY <1>3, <2>1 DEF PC
    <3> QED
      BY <1>1, <1>2, <2>1, <2>6, <3>1 DEF TypeOK, SchedTypeOK
  <2> QED
    BY <2>6, <2>8, <2>9, <2>10, <2>11, PartsNext
<1> QED
  BY <1>4, <1>5

(***************************************************************************)
(* timer_interrupt()                                                        *)
(***************************************************************************)

(* FiniteSetsExt's Max of two integers.                                     *)
LEMMA MaxOfTwo ==
  ASSUME NEW a \in Int, NEW b \in Int
  PROVE  Max({a, b}) = IF a >= b THEN a ELSE b
<1>1. \E x \in {a, b} : \A y \in {a, b} : x >= y
  <2>1. CASE a >= b
    BY <2>1
  <2>2. CASE b >= a
    BY <2>2
  <2> QED
    BY <2>1, <2>2
<1>2. Max({a, b}) \in {a, b} /\ \A y \in {a, b} : Max({a, b}) >= y
  BY <1>1 DEF Max
<1> QED
  BY <1>2

(* A tick leaves the order of wait_list, and the times of those off it.     *)
LEMMA TickedProperties ==
  ASSUME TypeOK
  PROVE  /\ Ticked \in [Thread -> Int]
         /\ IsAscending(waitList, wakeup) => IsAscending(waitList, Ticked)
         /\ \A t \in Thread :
              pc[t] # "computed" /\ t \notin ToSet(waitList) => Ticked[t] = wakeup[t]
<1> DEFINE w == Ticked
           late(t) == IF wakeup[t] - 1 >= -Slack THEN wakeup[t] - 1 ELSE -Slack
<1>1. -Slack \in Int /\ \A t \in Thread : wakeup[t] \in Int /\ wakeup[t] - 1 \in Int
  BY SleepAssumption DEF TypeOK
<1>2. \A t \in Thread :
        w[t] = IF pc[t] = "computed" \/ t \in ToSet(waitList) THEN late(t) ELSE wakeup[t]
  <2> SUFFICES ASSUME NEW t \in Thread
               PROVE  w[t] = IF pc[t] = "computed" \/ t \in ToSet(waitList)
                             THEN late(t) ELSE wakeup[t]
    OBVIOUS
  <2>1. Max({wakeup[t] - 1, -Slack}) = late(t)
    BY <1>1, MaxOfTwo
  <2>2. w[t] = IF pc[t] = "computed" \/ t \in ToSet(waitList)
               THEN Max({wakeup[t] - 1, -Slack}) ELSE wakeup[t]
    BY DEF Ticked
  <2> QED
    BY <2>1, <2>2
<1>3. \A t \in Thread : late(t) \in Int
  BY <1>1
<1>4. w \in [Thread -> Int]
  <2>1. w = [t \in Thread |-> w[t]]
    BY DEF Ticked
  <2> HIDE DEF w, late
  <2>2. \A t \in Thread : w[t] \in Int
    BY <1>1, <1>2, <1>3
  <2> QED
    BY <2>1, <2>2
<1>5. ASSUME NEW t \in Thread, NEW u \in Thread, wakeup[t] <= wakeup[u]
      PROVE  late(t) <= late(u)
  BY <1>1, <1>5
<1> HIDE DEF w, late
<1>6. ASSUME IsAscending(waitList, wakeup)
      PROVE  IsAscending(waitList, w)
  <2>1. \A i \in 1..Len(waitList) : waitList[i] \in ToSet(waitList) /\ waitList[i] \in Thread
    BY LenProperties DEF ToSet, TypeOK
  <2>2. \A i \in 1..Len(waitList) : w[waitList[i]] = late(waitList[i])
    BY <1>2, <2>1
  <2> QED
    BY <1>5, <1>6, <2>1, <2>2 DEF IsAscending
<1> QED
  BY <1>2, <1>4, <1>6 DEF w

(* The loop of the handler takes off as many as are due, and stops at one   *)
(* that is not.                                                             *)
LEMMA DueCountProperties ==
  ASSUME waitList \in Seq(Thread), NEW w \in [Thread -> Int]
  PROVE  /\ DueCount(w) \in 0..Len(waitList)
         /\ \A i \in 1..DueCount(w) : w[waitList[i]] <= 0
         /\ DueCount(w) < Len(waitList) => w[waitList[DueCount(w) + 1]] > 0
<1> DEFINE m == Len(waitList)
           D == {n \in 0..m : \A i \in 1..n : w[waitList[i]] <= 0}
           d == DueCount(w)
<1>1. m \in Nat /\ \A i \in 1..m : w[waitList[i]] \in Int
  BY LenProperties
<1>2. d = Max(D)
  BY DEF DueCount
<1> HIDE DEF m, d
<1>3. D # {}
  <2>1. 0 \in 0..m /\ \A i \in 1..0 : FALSE
    BY <1>1
  <2>2. 0 \in D
    BY <2>1
  <2> QED
    BY <2>2
<1>4. d \in D /\ \A y \in D : y <= d
  <2>1. D \in SUBSET (0..m)
    OBVIOUS
  <2> HIDE DEF D
  <2> QED
    BY <1>1, <1>2, <1>3, <2>1, MaxNat
<1>5. ASSUME d < m, ~ (w[waitList[d + 1]] > 0)
      PROVE  FALSE
  <2>1. d + 1 \in 0..m /\ d + 1 \in 1..m /\ ~ (d + 1 <= d)
        /\ \A i \in 1..d + 1 : i = d + 1 \/ i \in 1..d
    BY <1>1, <1>4, <1>5
  <2>2. w[waitList[d + 1]] <= 0
    BY <1>1, <1>5, <2>1
  <2>3. \A i \in 1..d + 1 : w[waitList[i]] <= 0
    BY <1>4, <2>1, <2>2
  <2>4. d + 1 \in D
    BY <2>1, <2>3
  <2> HIDE DEF D
  <2> QED
    BY <1>4, <2>1, <2>4
<1>6. d \in 0..m /\ \A i \in 1..d : w[waitList[i]] <= 0
  BY <1>4
<1> QED
  BY <1>5, <1>6 DEF d, m

(* What one tick does to wait_list, in terms of the threads it takes off.   *)
LEMMA TickOfList ==
  ASSUME IInv, NEW sliceOver, TimerInterrupt(sliceOver)
  PROVE  \E due \in Seq(Thread) :
           /\ IsInjective(due) /\ IsInjective(waitList')
           /\ waitList' \in Seq(Thread)
           /\ ToSet(waitList) = ToSet(due) \cup ToSet(waitList')
           /\ ToSet(due) \cap ToSet(waitList') = {}
           /\ IsAscending(waitList', wakeup')
           /\ \A t \in ToSet(due) : wakeup'[t] <= 0
           /\ \A t \in ToSet(waitList') : wakeup'[t] > 0
           /\ sleepValue' = SleepValueAfter(due)
           /\ \/ YieldWith(ReadyListAfter(due), StatusAfter(due))
              \/ due = <<>> /\ UNCHANGED <<running, status, readyList>>
<1> DEFINE w == Ticked
           d == DueCount(Ticked)
           m == Len(waitList)
           due == SubSeq(waitList, 1, d)
           rest == SubSeq(waitList, d + 1, m)
<1>1. waitList \in Seq(Thread) /\ IsInjective(waitList) /\ IsAscending(waitList, wakeup)
  BY Parts DEF TypeOK, Times
<1>2. w \in [Thread -> Int] /\ IsAscending(waitList, w)
  BY <1>1, Parts, TickedProperties
<1>3. /\ d \in 0..m
      /\ \A i \in 1..d : w[waitList[i]] <= 0
      /\ d < m => w[waitList[d + 1]] > 0
  BY <1>1, <1>2, DueCountProperties
<1>4. /\ due \in Seq(Thread) /\ Len(due) = d
      /\ \A i \in 1..d : due[i] = waitList[i]
      /\ rest \in Seq(Thread) /\ Len(rest) = m - d
      /\ \A i \in 1..m - d : rest[i] = waitList[i + d]
  BY <1>1, <1>3, CutProperties
<1>5. /\ ToSet(waitList) = ToSet(due) \cup ToSet(rest)
      /\ IsInjective(due) /\ IsInjective(rest)
      /\ ToSet(due) \cap ToSet(rest) = {}
      /\ IsAscending(rest, w)
  BY <1>1, <1>2, <1>3, CutParts
<1>6. /\ wakeup' = w
      /\ waitList' = SubSeq(waitList, Len(due) + 1, Len(waitList))
      /\ sleepValue' = SleepValueAfter(due)
      /\ \/ YieldWith(ReadyListAfter(due), StatusAfter(due))
         \/ due = <<>> /\ UNCHANGED <<running, status, readyList>>
  BY DEF TimerInterrupt
<1>7. waitList' = rest
  BY <1>4, <1>6
<1>8. /\ DOMAIN waitList = 1..m /\ m \in Nat
      /\ DOMAIN due = 1..d /\ DOMAIN rest = 1..m - d
      /\ \A i \in 1..m : w[waitList[i]] \in Int
  BY <1>1, <1>2, <1>4, LenProperties
<1> HIDE DEF due, rest, w, d
<1>9. \A t \in ToSet(due) : w[t] <= 0
  BY <1>3, <1>4, <1>8 DEF ToSet
<1>10. \A t \in ToSet(rest) : w[t] > 0
  <2> SUFFICES ASSUME NEW i \in 1..m - d PROVE w[rest[i]] > 0
    BY <1>8 DEF ToSet
  <2>1. d < m /\ i + d \in 1..m /\ d + 1 \in 1..m /\ (d + 1 = i + d \/ d + 1 < i + d)
    BY <1>3, <1>8
  <2>2. w[waitList[d + 1]] <= w[waitList[i + d]]
    <3>1. CASE d + 1 = i + d
      <4>1. w[waitList[d + 1]] \in Int
        BY <1>8, <2>1
      <4> QED
        BY <3>1, <4>1
    <3>2. CASE d + 1 < i + d
      BY <1>2, <2>1, <3>2 DEF IsAscending
    <3> QED
      BY <2>1, <3>1, <3>2
  <2>3. w[waitList[d + 1]] > 0 /\ w[waitList[d + 1]] \in Int /\ w[waitList[i + d]] \in Int
    BY <1>3, <1>8, <2>1
  <2>4. w[waitList[i + d]] > 0
    BY <2>2, <2>3
  <2> QED
    BY <1>4, <2>4
<1> QED
  BY <1>4, <1>5, <1>6, <1>7, <1>9, <1>10

(* The threads due have their semaphores upped as they leave wait_list, and *)
(* are ready if they had blocked.                                           *)
LEMMA TimerInterruptKeeps ==
  ASSUME IInv, NEW sliceOver, TimerInterrupt(sliceOver)
  PROVE  IInv'
<1>1. /\ TypeOK /\ UppedOnce /\ SleepersListed /\ Consistent /\ Times
      /\ IsInjective(waitList)
  BY Parts
<1>2. PICK due \in Seq(Thread) :
           /\ IsInjective(due) /\ IsInjective(waitList')
           /\ waitList' \in Seq(Thread)
           /\ ToSet(waitList) = ToSet(due) \cup ToSet(waitList')
           /\ ToSet(due) \cap ToSet(waitList') = {}
           /\ IsAscending(waitList', wakeup')
           /\ \A t \in ToSet(due) : wakeup'[t] <= 0
           /\ \A t \in ToSet(waitList') : wakeup'[t] > 0
           /\ sleepValue' = SleepValueAfter(due)
           /\ \/ YieldWith(ReadyListAfter(due), StatusAfter(due))
              \/ due = <<>> /\ UNCHANGED <<running, status, readyList>>
  BY TickOfList
<1>3. /\ wakeup' = Ticked
      /\ pc' = pc /\ arg' = arg /\ priority' = priority /\ originalPri' = originalPri
  BY DEF TimerInterrupt
<1>4. /\ wakeup' \in [Thread -> Int]
      /\ \A t \in Thread :
           pc[t] # "computed" /\ t \notin ToSet(waitList) => wakeup'[t] = wakeup[t]
  BY <1>1, <1>3, TickedProperties
<1>5. /\ sleepValue' \in [Thread -> Nat]
      /\ \A t \in Thread : sleepValue'[t] = IF t \in ToSet(due) THEN sleepValue[t] + 1
                                             ELSE sleepValue[t]
  <2>1. sleepValue \in [Thread -> Nat]
    BY <1>1 DEF TypeOK
  <2> QED
    BY <1>2, <2>1 DEF SleepValueAfter
<1>6. UppedOnce'
  <2> SUFFICES ASSUME NEW t \in Thread
               PROVE  /\ t \in ToSet(waitList') <=>
                           pc'[t] \in {"listed", "sleeping"} /\ sleepValue'[t] = 0
                      /\ sleepValue'[t] =
                           IF pc'[t] \in {"listed", "sleeping"} /\ t \notin ToSet(waitList')
                           THEN 1 ELSE 0
    BY DEF UppedOnce
  <2>1. /\ t \in ToSet(waitList) <=> pc[t] \in {"listed", "sleeping"} /\ sleepValue[t] = 0
        /\ sleepValue[t] = IF pc[t] \in {"listed", "sleeping"} /\ t \notin ToSet(waitList)
                           THEN 1 ELSE 0
    BY <1>1 DEF UppedOnce
  <2>2. CASE t \in ToSet(due)
    <3>1. t \in ToSet(waitList) /\ t \notin ToSet(waitList')
      BY <1>2, <2>2
    <3>2. sleepValue[t] = 0 /\ sleepValue'[t] = 1
      BY <1>5, <2>1, <2>2, <3>1
    <3> QED
      BY <1>3, <2>1, <3>1, <3>2
  <2>3. CASE t \notin ToSet(due)
    <3>1. t \in ToSet(waitList) <=> t \in ToSet(waitList')
      BY <1>2, <2>3
    <3>2. sleepValue'[t] = sleepValue[t]
      BY <1>5, <2>3
    <3> QED
      BY <1>3, <2>1, <3>1, <3>2
  <2> QED
    BY <2>2, <2>3
<1>7. Times'
  <2> SUFFICES ASSUME NEW t \in Thread, pc'[t] \in {"listed", "sleeping"},
                      t \notin ToSet(waitList')
               PROVE  wakeup'[t] <= 0
    BY <1>2 DEF Times
  <2>1. CASE t \in ToSet(due)
    BY <1>2, <2>1
  <2>2. CASE t \notin ToSet(due)
    <3>1. t \notin ToSet(waitList) /\ pc[t] \in {"listed", "sleeping"}
      BY <1>2, <1>3, <2>2
    <3>2. wakeup'[t] = wakeup[t]
      BY <1>4, <3>1
    <3> QED
      BY <1>1, <3>1, <3>2 DEF Times
  <2> QED
    BY <2>1, <2>2
<1>8. \A t \in Thread :
        StatusAfter(due)[t] = IF t \in ToSet(due) /\ status[t] = "blocked" THEN "ready"
                              ELSE status[t]
  BY DEF StatusAfter
<1>9. /\ running' \in Thread \cup {Idle} /\ status' \in [Thread -> Status]
      /\ readyList' \in Seq(Thread) /\ Consistent'
      /\ \A t \in Thread : status'[t] = "blocked" => status[t] = "blocked" /\ t \notin ToSet(due)
  <2>1. /\ running \in Thread \cup {Idle} /\ status \in [Thread -> Status]
        /\ priority \in [Thread -> Priority] /\ readyList \in Seq(Thread)
        /\ Queued(readyList, status)
        /\ \A t \in Thread : status[t] = "running" <=> running = t
    BY <1>1 DEF TypeOK, SchedTypeOK, Consistent
  <2>2. CASE YieldWith(ReadyListAfter(due), StatusAfter(due))
    <3> DEFINE st == StatusAfter(due)
    <3>1. Queued(ReadyListAfter(due), st)
      BY <1>2, <2>1, ReadyAfterAgrees
    <3>2. st \in [Thread -> Status]
      BY <2>1 DEF StatusAfter, Status
    <3> HIDE DEF st
    <3>3. \A t \in Thread : st[t] = "running" <=> running = t
      BY <1>8, <2>1 DEF st
    <3>4. YieldWith(ReadyListAfter(due), st)
      BY <2>2 DEF st
    <3>5. Dispatched(st)
      BY <2>1, <3>1, <3>2, <3>3, <3>4, YieldDispatches
    <3>6. /\ running' \in Thread \cup {Idle} /\ status' \in [Thread -> Status]
          /\ readyList' \in Seq(Thread) /\ Consistent'
          /\ \A t \in Thread : status'[t] = "blocked" => st[t] = "blocked"
      BY <3>5, AfterSwitch
    <3>7. \A t \in Thread : st[t] = "blocked" => status[t] = "blocked" /\ t \notin ToSet(due)
      BY <1>8 DEF st
    <3> QED
      BY <3>6, <3>7
  <2>3. CASE due = <<>> /\ UNCHANGED <<running, status, readyList>>
    <3>1. ToSet(due) = {}
      BY <2>3 DEF ToSet
    <3>2. Consistent'
      BY <1>1, <2>3 DEF Consistent, Queued
    <3> QED
      BY <2>1, <2>3, <3>1, <3>2
  <2> QED
    BY <1>2, <2>2, <2>3
<1>10. SleepersListed'
  BY <1>1, <1>2, <1>9 DEF SleepersListed
<1>11. TypeOK'
  <2>1. pc' \in [Thread -> PC] /\ arg' \in [Thread -> Thread \cup Lock \cup {None}]
        /\ priority' \in [Thread -> Priority] /\ originalPri' \in [Thread -> Priority]
    BY <1>1, <1>3 DEF TypeOK, SchedTypeOK
  <2> QED
    BY <1>2, <1>4, <1>5, <1>9, <2>1 DEF TypeOK, SchedTypeOK
<1>12. IsInjective(waitList)'
  BY <1>2
<1> QED
  BY <1>6, <1>7, <1>9, <1>10, <1>11, <1>12, PartsNext

(***************************************************************************)
(* The whole system                                                         *)
(***************************************************************************)

(* The invariant holds at the start,                                        *)
LEMMA InitEstablishes == Init => IInv
<1> SUFFICES ASSUME Init PROVE IInv
  OBVIOUS
<1>1. /\ running = Main
      /\ status = [t \in Thread |-> IF t = Main THEN "running" ELSE "unborn"]
      /\ readyList = <<>> /\ priority = BasePri /\ originalPri = BasePri
      /\ pc = [t \in Thread |-> "run"] /\ arg = [t \in Thread |-> None]
      /\ wakeup = [t \in Thread |-> 0] /\ waitList = <<>>
      /\ sleepValue = [t \in Thread |-> 0]
  BY DEF Init, SchedInit
<1>2. ToSet(<<>>) = {} /\ IsInjective(<<>>) /\ IsAscending(<<>>, wakeup)
  BY DEF ToSet, IsInjective, IsAscending
<1>3. TypeOK
  <2>1. status \in [Thread -> Status] /\ pc \in [Thread -> PC]
    BY <1>1 DEF Status, PC
  <2>2. priority \in [Thread -> Priority] /\ running \in Thread
    BY <1>1, PriorityAssumption, ThreadAssumption
  <2>3. /\ arg \in [Thread -> Thread \cup Lock \cup {None}]
        /\ wakeup \in [Thread -> Int] /\ sleepValue \in [Thread -> Nat]
    BY <1>1
  <2> QED
    BY <1>1, <2>1, <2>2, <2>3 DEF TypeOK, SchedTypeOK
<1>4. UppedOnce /\ SleepersListed /\ Times
  BY <1>1, <1>2 DEF UppedOnce, SleepersListed, Times
<1>5. Consistent
  BY <1>1, <1>2 DEF Consistent, Queued
<1> QED
  BY <1>1, <1>2, <1>3, <1>4, <1>5, Parts

(* and every step keeps it.                                                 *)
LEMMA NextKeeps ==
  ASSUME IInv, [Next]_vars
  PROVE  IInv'
<1>1. CASE UNCHANGED vars
  <2>1. UNCHANGED <<running, status, readyList, priority, originalPri, pc, arg,
                    wakeup, waitList, sleepValue>>
    BY <1>1 DEF vars, schedVars, alarmVars
  <2>2. TypeOK' /\ IsInjective(waitList)' /\ UppedOnce' /\ SleepersListed'
    BY <2>1, Parts DEF TypeOK, SchedTypeOK, UppedOnce, SleepersListed
  <2>3. Consistent' /\ Times'
    BY <2>1, Parts DEF Consistent, Queued, Times, IsAscending
  <2> QED
    BY <2>2, <2>3, PartsNext
<1>2. ASSUME NEW t \in Thread, Call(t) PROVE IInv'
  BY <1>2, ThreadCreateKeeps, ThreadExitKeeps, ComputeWakeupKeeps DEF Call
<1>3. ASSUME NEW t \in Thread, CallProceeds(t) PROVE IInv'
  BY <1>3, ThreadCreatedKeeps, GetOnWaitListKeeps, SleepDownKeeps DEF CallProceeds
<1>4. ASSUME NEW sliceOver \in BOOLEAN, TimerInterrupt(sliceOver) PROVE IInv'
  BY <1>4, TimerInterruptKeeps
<1> QED
  BY <1>1, <1>2, <1>3, <1>4 DEF Next

(* The inductive invariant holds throughout.                                *)
LEMMA Invariance == Spec => []IInv
BY InitEstablishes, NextKeeps, PTL DEF Spec

(* An interrupt anywhere inside timer_sleep neither loses its sema_up nor   *)
(* makes it twice, and who is blocked is on wait_list.                      *)
THEOREM UppedOncePerSleep == Spec => []UpOncePerSleep
<1>1. IInv => UpOncePerSleep
  BY DEF IInv
<1> QED
  BY <1>1, Invariance, PTL

(* What WokenOnTime says of a step.                                         *)
OnTime ==
  /\ \A t \in Thread : pc[t] \in {"listed", "sleeping"} /\ pc'[t] = "run"
                        => wakeup[t] <= 0
  /\ Len(waitList') < Len(waitList) => \A t \in ToSet(waitList') : wakeup'[t] > 0

(* A return from sema_down finds its thread off wait_list, so its time has  *)
(* come; only the timer shortens the list.                                  *)
LEMMA StepsOnTime ==
  ASSUME IInv, Next
  PROVE  OnTime
<1>1. /\ TypeOK /\ UppedOnce /\ Times
      /\ pc \in [Thread -> PC] /\ Len(waitList) \in Nat
  BY Parts, LenProperties DEF TypeOK, SchedTypeOK
<1>2. ASSUME UNCHANGED waitList,
             NEW t \in Thread, NEW x, pc' = [pc EXCEPT ![t] = x],
             pc[t] \notin {"listed", "sleeping"} \/ x # "run"
      PROVE  OnTime
  <2>1. \A u \in Thread : pc'[u] = IF u = t THEN x ELSE pc[u]
    BY <1>1, <1>2
  <2>2. \A u \in Thread : ~ (pc[u] \in {"listed", "sleeping"} /\ pc'[u] = "run")
    BY <1>2, <2>1
  <2>3. ~ (Len(waitList') < Len(waitList))
    BY <1>1, <1>2
  <2> QED
    BY <2>2, <2>3 DEF OnTime
<1>3. ASSUME NEW t \in Thread, NEW u \in Thread, ThreadCreate(t, u), UNCHANGED alarmVars
      PROVE  OnTime
  <2>1. waitList' = waitList /\ pc[t] = "run" /\ pc' = [pc EXCEPT ![t] = "created"]
    BY <1>3 DEF ThreadCreate, Running, alarmVars
  <2> QED
    BY <1>2, <2>1
<1>4. ASSUME NEW t \in Thread, ThreadExit(t), UNCHANGED alarmVars
      PROVE  OnTime
  <2>1. waitList' = waitList /\ pc' = pc
    BY <1>4 DEF ThreadExit, alarmVars
  <2> QED
    BY <1>1, <2>1 DEF OnTime
<1>5. ASSUME NEW t \in Thread, ThreadCreated(t), UNCHANGED alarmVars
      PROVE  OnTime
  <2>1. waitList' = waitList /\ pc[t] = "created" /\ pc' = [pc EXCEPT ![t] = "run"]
    BY <1>5 DEF ThreadCreated, Running, alarmVars
  <2> QED
    BY <1>2, <2>1
<1>6. ASSUME NEW t \in Thread, ComputeWakeup(t)
      PROVE  OnTime
  <2>1. waitList' = waitList /\ pc[t] = "run" /\ pc' = [pc EXCEPT ![t] = "computed"]
    BY <1>6 DEF ComputeWakeup, Running
  <2> QED
    BY <1>2, <2>1
<1>7. ASSUME NEW t \in Thread, GetOnWaitList(t)
      PROVE  OnTime
  <2>1. /\ waitList' = InsertAscending(waitList, t, wakeup)
        /\ pc[t] = "computed" /\ pc' = [pc EXCEPT ![t] = "listed"]
    BY <1>7 DEF GetOnWaitList, Running
  <2>2. waitList \in Seq(Thread) /\ wakeup \in [Thread -> Int]
    BY <1>1 DEF TypeOK
  <2>3. Len(waitList') = Len(waitList) + 1
    BY <2>1, <2>2, InsertAscendingCorrect
  <2>4. \A u \in Thread : ~ (pc[u] \in {"listed", "sleeping"} /\ pc'[u] = "run")
    BY <1>1, <2>1
  <2>5. ~ (Len(waitList') < Len(waitList))
    BY <1>1, <2>3
  <2> QED
    BY <2>4, <2>5 DEF OnTime
<1>8. ASSUME NEW t \in Thread, SleepDown(t)
      PROVE  OnTime
  <2>1. /\ waitList' = waitList /\ pc[t] \in {"listed", "sleeping"}
        /\ \/ Upped(t) /\ pc' = [pc EXCEPT ![t] = "run"]
           \/ pc' = [pc EXCEPT ![t] = "sleeping"]
    BY <1>8 DEF SleepDown
  <2>2. CASE Upped(t) /\ pc' = [pc EXCEPT ![t] = "run"]
    <3>1. t \notin ToSet(waitList)
      BY <1>1, <2>2 DEF UppedOnce, Upped
    <3>2. wakeup[t] <= 0
      BY <1>1, <2>1, <3>1 DEF Times
    <3>3. \A u \in Thread : u # t => pc'[u] = pc[u]
      BY <1>1, <2>2
    <3>4. \A u \in Thread : pc[u] \in {"listed", "sleeping"} /\ pc'[u] = "run" => u = t
      BY <3>3
    <3>5. ~ (Len(waitList') < Len(waitList))
      BY <1>1, <2>1
    <3> QED
      BY <3>2, <3>4, <3>5 DEF OnTime
  <2>3. CASE pc' = [pc EXCEPT ![t] = "sleeping"]
    BY <1>2, <2>1, <2>3
  <2> QED
    BY <2>1, <2>2, <2>3
<1>9. ASSUME NEW sliceOver \in BOOLEAN, TimerInterrupt(sliceOver)
      PROVE  OnTime
  <2>1. pc' = pc
    BY <1>9 DEF TimerInterrupt
  <2>2. \A t \in ToSet(waitList') : wakeup'[t] > 0
    BY <1>9, TickOfList
  <2> QED
    BY <2>1, <2>2 DEF OnTime
<1>10. ASSUME NEW t \in Thread, Call(t) PROVE OnTime
  BY <1>3, <1>4, <1>6, <1>10 DEF Call
<1>11. ASSUME NEW t \in Thread, CallProceeds(t) PROVE OnTime
  BY <1>5, <1>7, <1>8, <1>11 DEF CallProceeds
<1> QED
  BY <1>9, <1>10, <1>11 DEF Next

(* timer_sleep does not return early, and a tick that takes anybody off     *)
(* wait_list leaves nobody on it whose time has come.                       *)
THEOREM SleepersWokenOnTime == Spec => WokenOnTime
<1>1. IInv /\ [Next]_vars =>
        [/\ \A t \in Thread : pc[t] \in {"listed", "sleeping"} /\ pc'[t] = "run"
                               => wakeup[t] <= 0
         /\ Len(waitList') < Len(waitList)
              => \A t \in ToSet(waitList') : wakeup'[t] > 0]_vars
  BY StepsOnTime DEF OnTime
<1> QED
  BY <1>1, Invariance, PTL DEF Spec, WokenOnTime
=============================================================================
