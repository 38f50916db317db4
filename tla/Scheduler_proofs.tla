-------------------------- MODULE Scheduler_proofs --------------------------
(***************************************************************************)
(* Theorems about modules KernelList and Scheduler, for any threads and     *)
(* priorities: what inserting, sorting and removing do to lists, and what    *)
(* a context switch does to the scheduler.                                  *)
(***************************************************************************)
EXTENDS Scheduler, FiniteSetTheorems, SequenceTheorems, WellFoundedInduction, TLAPS

(* A non-empty set of natural numbers has a least element.                  *)
LEMMA LeastNat ==
  ASSUME NEW T \in SUBSET Nat, T # {}
  PROVE  \E x \in T : \A y \in T : x <= y
<1> DEFINE R == OpToRel(<, Nat)
<1>1. IsWellFoundedOn(R, Nat)
  BY NatLessThanWellFounded
<1>2. \A x, y \in Nat : <<y, x>> \in R <=> y < x
  BY DEF OpToRel
<1> HIDE DEF R
<1>3. \E x \in T : \A y \in T : ~ (<<y, x>> \in R)
  BY <1>1, WFMin
<1>4. PICK x \in T : \A y \in T : ~ (<<y, x>> \in R)
  BY <1>3
<1>5. ASSUME NEW y \in T PROVE x <= y
  <2>1. x \in Nat /\ y \in Nat
    OBVIOUS
  <2>2. ~ (y < x)
    BY <1>2, <1>4, <2>1, Zenon
  <2>3. QED
    BY <2>1, <2>2
<1>6. QED
  BY <1>5

(* A non-empty set of natural numbers with an upper bound has a greatest    *)
(* element, which is what FiniteSetsExt's Max returns.                      *)
LEMMA MaxNat ==
  ASSUME NEW n \in Nat, NEW T \in SUBSET (0..n), T # {}
  PROVE  /\ Max(T) \in T
         /\ \A y \in T : y <= Max(T)
<1> DEFINE U == {n - x : x \in T}
<1>1. U \in SUBSET Nat /\ U # {}
  <2>1. \A x \in T : n - x \in Nat
    OBVIOUS
  <2>2. QED
    BY <2>1
<1>2. PICK u \in U : \A v \in U : u <= v
  BY <1>1, LeastNat
<1>3. PICK x \in T : u = n - x
  OBVIOUS
<1>4. \A y \in T : x >= y
  <2> SUFFICES ASSUME NEW y \in T PROVE x >= y
    OBVIOUS
  <2>1. n - x <= n - y
    BY <1>2, <1>3
  <2>2. x \in 0..n /\ y \in 0..n
    OBVIOUS
  <2>3. QED
    BY <2>1, <2>2
<1>5. Max(T) \in T /\ \A y \in T : Max(T) >= y
  BY <1>4 DEF Max
<1>6. QED
  BY <1>5

(* FiniteSetsExt's Min of a non-empty set of natural numbers.               *)
LEMMA MinNat ==
  ASSUME NEW T \in SUBSET Nat, T # {}
  PROVE  /\ Min(T) \in T
         /\ \A y \in T : Min(T) <= y
<1>1. PICK x \in T : \A y \in T : x <= y
  BY LeastNat
<1>2. QED
  BY <1>1 DEF Min

(* What SequencesExt's InsertAt returns.                                    *)
LEMMA InsertAtProperties ==
  ASSUME NEW S, NEW q \in Seq(S), NEW e \in S, NEW i \in 1..Len(q)+1
  PROVE  /\ InsertAt(q, i, e) \in Seq(S)
         /\ Len(InsertAt(q, i, e)) = Len(q) + 1
         /\ \A j \in 1..Len(q)+1 :
              InsertAt(q, i, e)[j] = IF j < i THEN q[j]
                                     ELSE IF j = i THEN e ELSE q[j-1]
<1> DEFINE front == SubSeq(q, 1, i-1)
           back  == SubSeq(q, i, Len(q))
<1>1. Len(q) \in Nat /\ \A j \in 1..Len(q) : q[j] \in S
  BY LenProperties
<1>2. /\ front \in Seq(S)
      /\ Len(front) = i - 1
      /\ \A j \in 1..i-1 : front[j] = q[j]
  <2>1. \A j \in 1..i-1 : q[j] \in S
    BY <1>1
  <2>2. 1 \in Int /\ i - 1 \in Int
    BY <1>1
  <2> HIDE DEF front
  <2>3. /\ front \in Seq(S)
        /\ Len(front) = IF 1 <= i-1 THEN (i-1)-1+1 ELSE 0
        /\ \A j \in 1..(i-1)-1+1 : front[j] = q[1+j-1]
    BY <2>1, <2>2, SubSeqProperties DEF front
  <2>4. QED
    BY <1>1, <2>3
<1>3. /\ back \in Seq(S)
      /\ Len(back) = Len(q) - i + 1
      /\ \A j \in 1..Len(q)-i+1 : back[j] = q[i+j-1]
  <2>1. \A j \in i..Len(q) : q[j] \in S
    BY <1>1
  <2>2. i \in Int /\ Len(q) \in Int
    BY <1>1
  <2> HIDE DEF back
  <2>3. /\ back \in Seq(S)
        /\ Len(back) = IF i <= Len(q) THEN Len(q)-i+1 ELSE 0
        /\ \A j \in 1..Len(q)-i+1 : back[j] = q[i+j-1]
    BY <2>1, <2>2, SubSeqProperties DEF back
  <2>4. QED
    BY <1>1, <2>3
<1> HIDE DEF front, back
<1>4. /\ <<e>> \in Seq(S)
      /\ Len(<<e>>) = 1
      /\ <<e>>[1] = e
  OBVIOUS
<1> DEFINE head == front \o <<e>>
<1>5. /\ head \in Seq(S)
      /\ Len(head) = i
      /\ \A j \in 1..i : head[j] = IF j <= i-1 THEN q[j] ELSE e
  <2> HIDE DEF head
  <2>1. /\ head \in Seq(S)
        /\ Len(head) = Len(front) + Len(<<e>>)
        /\ \A j \in 1..Len(front) + Len(<<e>>) :
             head[j] = IF j <= Len(front) THEN front[j] ELSE <<e>>[j - Len(front)]
    BY <1>2, <1>4, ConcatProperties DEF head
  <2>2. Len(head) = i
    BY <1>1, <1>2, <1>4, <2>1
  <2>3. ASSUME NEW j \in 1..i PROVE head[j] = IF j <= i-1 THEN q[j] ELSE e
    <3>1. j \in 1..Len(front) + Len(<<e>>)
      BY <1>1, <1>2, <1>4
    <3>2. CASE j <= i-1
      BY <1>1, <1>2, <2>1, <3>1, <3>2
    <3>3. CASE j = i
      <4>1. j - Len(front) = 1 /\ ~ (j <= Len(front)) /\ ~ (j <= i-1)
        BY <1>1, <1>2, <3>3
      <4>2. head[j] = <<e>>[j - Len(front)]
        BY <2>1, <3>1, <4>1
      <4>3. QED
        BY <1>4, <4>1, <4>2
    <3>4. QED
      BY <1>1, <3>2, <3>3
  <2>4. QED
    BY <2>1, <2>2, <2>3
<1> HIDE DEF head
<1>6. InsertAt(q, i, e) = head \o back
  BY DEF InsertAt, head, front, back
<1>7. /\ head \o back \in Seq(S)
      /\ Len(head \o back) = Len(head) + Len(back)
      /\ \A j \in 1..Len(head) + Len(back) :
           (head \o back)[j] = IF j <= Len(head) THEN head[j] ELSE back[j - Len(head)]
  BY <1>3, <1>5, ConcatProperties
<1>8. Len(head) + Len(back) = Len(q) + 1
  BY <1>1, <1>3, <1>5
<1>9. ASSUME NEW j \in 1..Len(q)+1
      PROVE  (head \o back)[j] = IF j < i THEN q[j] ELSE IF j = i THEN e ELSE q[j-1]
  <2>1. CASE j <= i
    BY <1>1, <1>5, <1>7, <1>8, <2>1
  <2>2. CASE j > i
    <3>1. j - i \in 1..Len(q)-i+1 /\ i + (j - i) - 1 = j - 1
      BY <1>1, <2>2
    <3>2. (head \o back)[j] = back[j - i]
      BY <1>1, <1>5, <1>7, <1>8, <2>2
    <3>3. QED
      BY <1>1, <1>3, <2>2, <3>1, <3>2
  <2>3. j <= i \/ j > i
    BY <1>1
  <2>4. QED
    BY <2>1, <2>2, <2>3, Zenon
<1>10. QED
  BY <1>6, <1>7, <1>8, <1>9

(* list_insert_ordered: the result has one more element, e; it repeats      *)
(* nothing if the list did not and e is new; and it is in order if the      *)
(* list was.                                                                *)
THEOREM InsertDescendingCorrect ==
  ASSUME NEW S, NEW q \in Seq(S), NEW e \in S, NEW key \in [S -> Int]
  PROVE  LET r == InsertDescending(q, e, key)
         IN  /\ r \in Seq(S)
             /\ Len(r) = Len(q) + 1
             /\ ToSet(r) = ToSet(q) \cup {e}
             /\ IsInjective(q) /\ e \notin ToSet(q) => IsInjective(r)
             /\ IsDescending(q, key) => IsDescending(r, key)
<1> DEFINE r == InsertDescending(q, e, key)
           smaller == {j \in 1..Len(q) : key[q[j]] < key[e]}
<1>1. /\ Len(q) \in Nat
      /\ DOMAIN q = 1..Len(q)
      /\ \A j \in 1..Len(q) : q[j] \in S /\ key[q[j]] \in Int
  BY LenProperties
<1>2. key[e] \in Int
  OBVIOUS
<1>3. \E i \in 1..Len(q)+1 :
        /\ r = InsertAt(q, i, e)
        /\ \A j \in 1..Len(q) : j < i => key[q[j]] >= key[e]
        /\ i <= Len(q) => key[q[i]] < key[e]
  <2>1. CASE smaller = {}
    <3>1. r = Append(q, e)
      BY <2>1 DEF InsertDescending
    <3>2. InsertAt(q, Len(q)+1, e) = SubSeq(q, 1, Len(q)) \o <<e>> \o SubSeq(q, Len(q)+1, Len(q))
      BY <1>1 DEF InsertAt
    <3>3. SubSeq(q, 1, Len(q)) = q /\ SubSeq(q, Len(q)+1, Len(q)) = <<>>
      BY <1>1, SubSeqFull, SubSeqEmpty
    <3>4. q \o <<e>> \in Seq(S) /\ Append(q, e) = q \o <<e>>
      BY AppendIsConcat, AppendProperties
    <3>5. InsertAt(q, Len(q)+1, e) = Append(q, e)
      BY <3>2, <3>3, <3>4, ConcatEmptySeq
    <3>6. \A j \in 1..Len(q) : key[q[j]] >= key[e]
      BY <1>1, <1>2, <2>1
    <3>7. Len(q)+1 \in 1..Len(q)+1 /\ ~ (Len(q)+1 <= Len(q))
      BY <1>1
    <3>8. QED
      BY <3>1, <3>5, <3>6, <3>7
  <2>2. CASE smaller # {}
    <3> DEFINE m == Min(smaller)
    <3>1. m \in smaller /\ \A j \in smaller : m <= j
      <4>1. smaller \in SUBSET Nat
        BY <1>1
      <4> HIDE DEF smaller
      <4>2. QED
        BY <2>2, <4>1, MinNat
    <3>2. r = InsertAt(q, m, e)
      BY <2>2 DEF InsertDescending
    <3> HIDE DEF m
    <3>3. ASSUME NEW j \in 1..Len(q), j < m PROVE key[q[j]] >= key[e]
      <4>1. m \in Nat
        BY <1>1, <3>1
      <4>2. j \notin smaller
        BY <1>1, <3>1, <3>3, <4>1
      <4>3. QED
        BY <4>2, <1>1, <1>2
    <3>4. m \in 1..Len(q)+1 /\ key[q[m]] < key[e]
      BY <1>1, <3>1
    <3>5. QED
      BY <3>2, <3>3, <3>4
  <2>3. QED
    BY <2>1, <2>2
<1>4. PICK i \in 1..Len(q)+1 :
        /\ r = InsertAt(q, i, e)
        /\ \A j \in 1..Len(q) : j < i => key[q[j]] >= key[e]
        /\ i <= Len(q) => key[q[i]] < key[e]
  BY <1>3
<1> HIDE DEF r, smaller
<1>5. /\ r \in Seq(S)
      /\ Len(r) = Len(q) + 1
      /\ \A j \in 1..Len(q)+1 : r[j] = IF j < i THEN q[j] ELSE IF j = i THEN e ELSE q[j-1]
  <2> DEFINE a == InsertAt(q, i, e)
  <2>1. r = a
    BY <1>4
  <2>2. /\ a \in Seq(S)
        /\ Len(a) = Len(q) + 1
        /\ \A j \in 1..Len(q)+1 : a[j] = IF j < i THEN q[j] ELSE IF j = i THEN e ELSE q[j-1]
    BY InsertAtProperties
  <2> HIDE DEF a
  <2>3. QED
    BY <2>1, <2>2
<1>6. DOMAIN r = 1..Len(q)+1
  BY <1>5, LenProperties
<1>7. ToSet(r) = ToSet(q) \cup {e}
  <2>1. ASSUME NEW j \in 1..Len(q)+1 PROVE r[j] \in ToSet(q) \cup {e}
    <3>1. CASE j < i
      <4>1. j \in 1..Len(q) /\ r[j] = q[j]
        BY <1>1, <1>5, <3>1
      <4>2. QED
        BY <1>1, <4>1 DEF ToSet
    <3>2. CASE j = i
      BY <1>1, <1>5, <3>2
    <3>3. CASE j > i
      <4>1. j-1 \in 1..Len(q) /\ r[j] = q[j-1]
        BY <1>1, <1>5, <3>3
      <4>2. QED
        BY <1>1, <4>1 DEF ToSet
    <3>4. QED
      BY <1>1, <3>1, <3>2, <3>3
  <2>2. ASSUME NEW j \in 1..Len(q) PROVE q[j] \in ToSet(r)
    <3>1. CASE j < i
      <4>1. j \in 1..Len(q)+1 /\ r[j] = q[j]
        BY <1>1, <1>5, <3>1
      <4>2. QED
        BY <1>6, <4>1 DEF ToSet
    <3>2. CASE j >= i
      <4>1. j+1 \in 1..Len(q)+1 /\ ~ (j+1 < i) /\ j+1 # i /\ (j+1)-1 = j
        BY <1>1, <3>2
      <4>2. r[j+1] = q[j]
        BY <1>5, <4>1
      <4>3. QED
        BY <1>6, <4>1, <4>2 DEF ToSet
    <3>3. QED
      BY <1>1, <3>1, <3>2
  <2>3. e \in ToSet(r)
    <3>1. r[i] = e
      BY <1>1, <1>5
    <3>2. QED
      BY <1>6, <3>1 DEF ToSet
  <2>4. QED
    BY <1>1, <1>6, <2>1, <2>2, <2>3 DEF ToSet
<1>8. ASSUME IsInjective(q), e \notin ToSet(q) PROVE IsInjective(r)
  <2>1. \A j \in 1..Len(q) : q[j] # e
    BY <1>1, <1>8 DEF ToSet
  <2>2. \A j, k \in 1..Len(q) : q[j] = q[k] => j = k
    BY <1>1, <1>8 DEF IsInjective
  <2>3. ASSUME NEW j \in 1..Len(q)+1, NEW k \in 1..Len(q)+1, r[j] = r[k]
        PROVE  j = k
    <3>1. r[j] = (IF j < i THEN q[j] ELSE IF j = i THEN e ELSE q[j-1])
      BY <1>5
    <3>2. r[k] = (IF k < i THEN q[k] ELSE IF k = i THEN e ELSE q[k-1])
      BY <1>5
    <3>3. /\ j < i => j \in 1..Len(q)
          /\ j > i => j-1 \in 1..Len(q)
          /\ k < i => k \in 1..Len(q)
          /\ k > i => k-1 \in 1..Len(q)
      BY <1>1
    <3>4. CASE j < i
      <4>1. r[j] = q[j] /\ q[j] # e
        BY <1>1, <2>1, <3>1, <3>3, <3>4
      <4>2. CASE k < i
        BY <1>1, <2>2, <2>3, <3>2, <3>3, <3>4, <4>1, <4>2
      <4>3. CASE k = i
        BY <1>1, <2>3, <3>2, <4>1, <4>3
      <4>4. CASE k > i
        <5>1. q[j] = q[k-1]
          BY <1>1, <2>3, <3>2, <4>1, <4>4
        <5>2. j = k-1
          BY <2>2, <3>3, <3>4, <4>4, <5>1
        <5>3. QED
          BY <1>1, <3>4, <4>4, <5>2
      <4>5. QED
        BY <1>1, <4>2, <4>3, <4>4
    <3>5. CASE j = i
      <4>1. r[j] = e
        BY <1>1, <3>1, <3>5
      <4>2. CASE k < i
        BY <1>1, <2>1, <2>3, <3>2, <3>3, <4>1, <4>2
      <4>3. CASE k > i
        BY <1>1, <2>1, <2>3, <3>2, <3>3, <4>1, <4>3
      <4>4. QED
        BY <1>1, <3>5, <4>2, <4>3
    <3>6. CASE j > i
      <4>1. r[j] = q[j-1] /\ q[j-1] # e
        BY <1>1, <2>1, <3>1, <3>3, <3>6
      <4>2. CASE k < i
        <5>1. q[j-1] = q[k]
          BY <1>1, <2>3, <3>2, <4>1, <4>2
        <5>2. j-1 = k
          BY <2>2, <3>3, <3>6, <4>2, <5>1
        <5>3. QED
          BY <1>1, <3>6, <4>2, <5>2
      <4>3. CASE k = i
        BY <1>1, <2>3, <3>2, <4>1, <4>3
      <4>4. CASE k > i
        <5>1. q[j-1] = q[k-1]
          BY <1>1, <2>3, <3>2, <4>1, <4>4
        <5>2. j-1 = k-1
          BY <2>2, <3>3, <3>6, <4>4, <5>1
        <5>3. QED
          BY <1>1, <5>2
      <4>5. QED
        BY <1>1, <4>2, <4>3, <4>4
    <3>7. QED
      BY <1>1, <3>4, <3>5, <3>6
  <2>4. QED
    BY <1>6, <2>3 DEF IsInjective
<1>9. ASSUME IsDescending(q, key) PROVE IsDescending(r, key)
  <2>1. \A j, k \in 1..Len(q) : j < k => key[q[j]] >= key[q[k]]
    BY <1>9 DEF IsDescending
  <2>2. ASSUME NEW j \in 1..Len(q)+1, NEW k \in 1..Len(q)+1, j < k
        PROVE  key[r[j]] >= key[r[k]]
    <3>1. r[j] = (IF j < i THEN q[j] ELSE IF j = i THEN e ELSE q[j-1])
      BY <1>5
    <3>2. r[k] = (IF k < i THEN q[k] ELSE IF k = i THEN e ELSE q[k-1])
      BY <1>5
    <3>3. CASE k < i
      BY <1>1, <2>1, <2>2, <3>1, <3>2, <3>3
    <3>4. CASE k = i
      BY <1>1, <1>4, <2>2, <3>1, <3>2, <3>4
    <3>5. CASE k > i
      <4>1. i \in 1..Len(q) /\ k-1 \in 1..Len(q) /\ r[k] = q[k-1]
        BY <1>1, <3>2, <3>5
      <4>2. key[e] >= key[q[k-1]]
        <5>1. key[q[i]] >= key[q[k-1]]
          BY <1>1, <2>1, <3>5, <4>1
        <5>2. QED
          BY <1>1, <1>2, <1>4, <4>1, <5>1
      <4>3. CASE j < i
        <5>1. j \in 1..Len(q) /\ j < k-1 /\ r[j] = q[j]
          BY <1>1, <3>1, <3>5, <4>1, <4>3
        <5>2. QED
          BY <2>1, <4>1, <5>1
      <4>4. CASE j = i
        BY <1>1, <3>1, <4>1, <4>2, <4>4
      <4>5. CASE j > i
        <5>1. j-1 \in 1..Len(q) /\ j-1 < k-1 /\ r[j] = q[j-1]
          BY <1>1, <2>2, <3>1, <4>5
        <5>2. QED
          BY <2>1, <4>1, <5>1
      <4>6. QED
        BY <1>1, <4>3, <4>4, <4>5
    <3>6. QED
      BY <1>1, <3>3, <3>4, <3>5
  <2>3. QED
    BY <1>5, <2>2 DEF IsDescending
<1>10. QED
  BY <1>5, <1>7, <1>8, <1>9 DEF r

(* Sorting puts every element in a place of its own: position i's element   *)
(* goes to place Rank(q, i, key), and the ranks are a permutation.          *)
LEMMA RankIsPermutation ==
  ASSUME NEW S, NEW q \in Seq(S), NEW key \in [S -> Int]
  PROVE  /\ \A i \in 1..Len(q) : Rank(q, i, key) \in 1..Len(q)
         /\ \A i, j \in 1..Len(q) :
              (key[q[i]] > key[q[j]] \/ (key[q[i]] = key[q[j]] /\ i < j))
                => Rank(q, i, key) < Rank(q, j, key)
         /\ \A k \in 1..Len(q) : \E i \in 1..Len(q) : Rank(q, i, key) = k
<1> DEFINE n == Len(q)
           P == 1..n
           A(i) == AtOrBefore(q, i, key)
           rank == [i \in P |-> Rank(q, i, key)]
<1>1. /\ n \in Nat
      /\ \A i \in P : key[q[i]] \in Int
  BY LenProperties
<1> HIDE DEF n
<1>2. IsFiniteSet(P) /\ Cardinality(P) = n
  BY <1>1, FS_Interval
<1>3. \A i, j : j \in A(i) <=> j \in P /\ (key[q[j]] > key[q[i]] \/ (key[q[j]] = key[q[i]] /\ j <= i))
  BY DEF AtOrBefore, n
<1>4. ASSUME NEW i \in P
      PROVE  A(i) \subseteq P /\ i \in A(i) /\ IsFiniteSet(A(i)) /\ Rank(q, i, key) \in P
  <2>1. A(i) \subseteq P /\ i \in A(i)
    BY <1>1, <1>3
  <2>2. IsFiniteSet(A(i)) /\ Cardinality(A(i)) <= n
    BY <1>2, <2>1, FS_Subset
  <2>3. Cardinality(A(i)) \in Nat /\ Cardinality(A(i)) # 0
    BY <2>1, <2>2, FS_CardinalityType, FS_EmptySet
  <2>4. QED
    BY <1>1, <2>1, <2>2, <2>3 DEF Rank
<1>5. ASSUME NEW i \in P, NEW j \in P,
             key[q[i]] > key[q[j]] \/ (key[q[i]] = key[q[j]] /\ i < j)
      PROVE  Rank(q, i, key) < Rank(q, j, key)
  <2>1. A(i) \subseteq A(j)
    <3> SUFFICES ASSUME NEW k \in A(i) PROVE k \in A(j)
      OBVIOUS
    <3>1. k \in P /\ (key[q[k]] > key[q[i]] \/ (key[q[k]] = key[q[i]] /\ k <= i))
      BY <1>3
    <3>2. k \in P /\ (key[q[k]] > key[q[j]] \/ (key[q[k]] = key[q[j]] /\ k <= j))
      BY <1>1, <1>5, <3>1
    <3>3. QED
      BY <1>3, <3>2
  <2>2. j \in A(j) /\ j \notin A(i)
    <3>1. ~ (key[q[j]] > key[q[i]] \/ (key[q[j]] = key[q[i]] /\ j <= i))
      BY <1>1, <1>5
    <3>2. QED
      BY <1>3, <1>4, <3>1
  <2>3. Cardinality(A(i)) <= Cardinality(A(j)) /\ Cardinality(A(j)) # Cardinality(A(i))
    <3>1. IsFiniteSet(A(j)) /\ A(i) \in SUBSET A(j)
      BY <1>4, <2>1
    <3>2. A(i) # A(j)
      BY <2>2
    <3> HIDE DEF A
    <3>3. QED
      BY <3>1, <3>2, FS_Subset
  <2>4. Rank(q, i, key) \in P /\ Rank(q, j, key) \in P
    BY <1>4
  <2>5. QED
    BY <1>1, <2>3, <2>4 DEF Rank
<1>6. rank \in Injection(P, P)
  <2>1. rank \in [P -> P]
    BY <1>4
  <2>2. ASSUME NEW i \in P, NEW j \in P, rank[i] = rank[j] PROVE i = j
    <3>1. Rank(q, i, key) = Rank(q, j, key) /\ Rank(q, i, key) \in P
      BY <1>4, <2>2
    <3>2. ~ (Rank(q, i, key) < Rank(q, j, key)) /\ ~ (Rank(q, j, key) < Rank(q, i, key))
      BY <1>1, <3>1
    <3>3. ~ (key[q[i]] > key[q[j]] \/ (key[q[i]] = key[q[j]] /\ i < j))
      BY <1>5, <3>2
    <3>4. ~ (key[q[j]] > key[q[i]] \/ (key[q[j]] = key[q[i]] /\ j < i))
      BY <1>5, <3>2
    <3>5. QED
      BY <1>1, <3>3, <3>4
  <2>3. QED
    BY <2>1, <2>2 DEF Injection, IsInjective
<1>7. \A k \in P : \E i \in P : rank[i] = k
  <2>1. rank \in Surjection(P, P)
    BY <1>2, <1>6, FS_Injection
  <2>2. QED
    BY <2>1 DEF Surjection
<1>8. QED
  BY <1>4, <1>5, <1>7 DEF n

(* The stable sort: the sorted list has the same elements, each as often,   *)
(* in descending order.                                                     *)
LEMMA SortDescendingCorrect ==
  ASSUME NEW S, NEW q \in Seq(S), NEW key \in [S -> Int]
  PROVE  LET r == SortDescending(q, key)
         IN  /\ r \in Seq(S)
             /\ Len(r) = Len(q)
             /\ ToSet(r) = ToSet(q)
             /\ IsInjective(q) => IsInjective(r)
             /\ IsDescending(r, key)
<1> DEFINE n == Len(q)
           P == 1..n
           from(k) == CHOOSE i \in P : Rank(q, i, key) = k
           r == SortDescending(q, key)
<1>1. /\ n \in Nat
      /\ q \in [P -> S]
      /\ \A i \in P : q[i] \in S /\ key[q[i]] \in Int
  BY LenProperties
<1>2. \A k \in P : from(k) \in P /\ Rank(q, from(k), key) = k
  BY RankIsPermutation
<1>3. \A i \in P : Rank(q, i, key) \in P
  BY RankIsPermutation
<1>4. \A i, j \in P : (key[q[i]] > key[q[j]] \/ (key[q[i]] = key[q[j]] /\ i < j))
                        => Rank(q, i, key) < Rank(q, j, key)
  BY RankIsPermutation
<1>5. r = [k \in P |-> q[from(k)]]
  BY DEF SortDescending
<1> HIDE DEF from, r, n
<1>6. r \in [P -> S] /\ r \in Seq(S) /\ Len(r) = n /\ DOMAIN r = P
  <2>1. r \in [P -> S]
    BY <1>1, <1>2, <1>5
  <2>2. QED
    BY <1>1, <2>1
<1>7. \A i \in P : from(Rank(q, i, key)) = i
  <2> SUFFICES ASSUME NEW i \in P PROVE from(Rank(q, i, key)) = i
    OBVIOUS
  <2> DEFINE j == from(Rank(q, i, key))
  <2>1. j \in P /\ Rank(q, j, key) = Rank(q, i, key) /\ Rank(q, i, key) \in P
    BY <1>2, <1>3
  <2> HIDE DEF j
  <2>2. ~ (Rank(q, i, key) < Rank(q, j, key)) /\ ~ (Rank(q, j, key) < Rank(q, i, key))
    BY <1>1, <2>1
  <2>3. i \in Int /\ j \in Int /\ key[q[i]] \in Int /\ key[q[j]] \in Int
    BY <1>1, <2>1
  <2>4. ~ (key[q[i]] > key[q[j]] \/ (key[q[i]] = key[q[j]] /\ i < j))
    BY <1>4, <2>1, <2>2
  <2>5. ~ (key[q[j]] > key[q[i]] \/ (key[q[j]] = key[q[i]] /\ j < i))
    BY <1>4, <2>1, <2>2
  <2>6. i = j
    BY <2>3, <2>4, <2>5
  <2>7. QED
    BY <2>6 DEF j
<1>8. ToSet(r) = ToSet(q)
  <2>1. ASSUME NEW k \in P PROVE r[k] \in ToSet(q)
    BY <1>1, <1>2, <1>5 DEF ToSet
  <2>2. ASSUME NEW i \in P PROVE q[i] \in ToSet(r)
    <3>1. r[Rank(q, i, key)] = q[i] /\ Rank(q, i, key) \in P
      BY <1>3, <1>5, <1>7
    <3>2. QED
      BY <1>6, <3>1 DEF ToSet
  <2>3. QED
    BY <1>1, <1>6, <2>1, <2>2 DEF ToSet
<1>9. ASSUME IsInjective(q) PROVE IsInjective(r)
  <2>1. ASSUME NEW k \in P, NEW m \in P, r[k] = r[m] PROVE k = m
    <3>1. q[from(k)] = q[from(m)] /\ from(k) \in P /\ from(m) \in P
      BY <1>2, <1>5, <2>1
    <3>2. from(k) = from(m)
      BY <1>1, <1>9, <3>1 DEF IsInjective
    <3>3. QED
      BY <1>2, <3>2
  <2>2. QED
    BY <1>6, <2>1 DEF IsInjective
<1>10. IsDescending(r, key)
  <2>1. ASSUME NEW k \in P, NEW m \in P, k < m PROVE key[r[k]] >= key[r[m]]
    <3>1. /\ from(k) \in P /\ Rank(q, from(k), key) = k
          /\ from(m) \in P /\ Rank(q, from(m), key) = m
      BY <1>2
    <3>2. ~ (m < k)
      BY <1>1, <2>1
    <3>3. ~ (key[q[from(m)]] > key[q[from(k)]])
      BY <1>4, <3>1, <3>2
    <3>4. key[q[from(k)]] >= key[q[from(m)]]
      BY <1>1, <3>1, <3>3
    <3>5. QED
      BY <1>5, <3>4
  <2>2. QED
    BY <1>6, <2>1 DEF IsDescending
<1>11. QED
  BY <1>6, <1>8, <1>9, <1>10 DEF r, n

(* Induction up to m, over a set.                                           *)
LEMMA InductionUpTo ==
  ASSUME NEW T, NEW m \in Nat, 0 \in T,
         \A k \in 1..m : k - 1 \in T => k \in T
  PROVE  \A k \in 0..m : k \in T
<1> DEFINE M == (0..m) \ T
<1>1. SUFFICES ASSUME M # {} PROVE FALSE
  OBVIOUS
<1>2. M \in SUBSET Nat
  OBVIOUS
<1>3. PICK k \in M : \A j \in M : k <= j
  <2> HIDE DEF M
  <2> QED
    BY <1>1, <1>2, LeastNat
<1>4. k \in 1..m
  BY <1>3
<1>5. k - 1 \notin T
  BY <1>3, <1>4
<1>6. k - 1 \in M /\ ~ (k <= k - 1)
  BY <1>4, <1>5
<1> QED
  BY <1>3, <1>6

(* A function defined by recursion over 0..m, from a by the steps F, exists. *)
Steps(m, S) == [1..m -> [S -> S]]
Runs(m, S) == [0..m -> S]
Recurs(f, m, a, F) == f[0] = a /\ \A k \in 1..m : f[k] = F[k][f[k-1]]

LEMMA RecursionUpTo ==
  ASSUME NEW S, NEW a \in S, NEW m \in Nat, NEW F \in Steps(m, S)
  PROVE  \E f \in Runs(m, S) : Recurs(f, m, a, F)
<1>0. F \in [1..m -> [S -> S]]
  BY DEF Steps
<1> DEFINE Up(n, g) == g[0] = a /\ \A k \in 1..n : g[k] = F[k][g[k-1]]
           T == {n \in 0..m : \E g \in [0..n -> S] : Up(n, g)}
<1>1. 0 \in T
  <2> DEFINE g == [k \in 0..0 |-> a]
  <2>1. g \in [0..0 -> S] /\ Up(0, g) /\ 0 \in 0..m
    OBVIOUS
  <2> HIDE DEF g, Up
  <2> QED
    BY <2>1
<1>2. ASSUME NEW n \in 1..m, n - 1 \in T
      PROVE  n \in T
  <2>1. PICK g \in [0..n - 1 -> S] : Up(n - 1, g)
    BY <1>2
  <2> DEFINE h == [k \in 0..n |-> IF k = n THEN F[n][g[n - 1]] ELSE g[k]]
  <2>2. n - 1 \in 0..n - 1 /\ \A k \in 0..n : k # n => k \in 0..n - 1
    OBVIOUS
  <2>3. F[n][g[n - 1]] \in S
    BY <1>0, <2>2
  <2>4. h \in [0..n -> S]
    BY <2>2, <2>3
  <2>5. 0 \in 0..n /\ 0 # n
    OBVIOUS
  <2>6. h[0] = a
    BY <2>1, <2>5
  <2>7. ASSUME NEW k \in 1..n PROVE h[k] = F[k][h[k-1]]
    <3>1. k \in 0..n /\ k - 1 \in 0..n /\ k - 1 # n
      OBVIOUS
    <3>2. h[k-1] = g[k-1]
      BY <3>1
    <3>3. CASE k = n
      BY <3>1, <3>2, <3>3
    <3>4. CASE k # n
      <4>1. k \in 1..n - 1
        BY <3>4
      <4>2. g[k] = F[k][g[k-1]]
        BY <2>1, <4>1
      <4>3. h[k] = g[k]
        BY <3>1, <3>4
      <4> QED
        BY <3>2, <4>2, <4>3
    <3> QED
      BY <3>3, <3>4
  <2> HIDE DEF h
  <2> QED
    BY <2>4, <2>6, <2>7
<1>3. m \in T
  <2> HIDE DEF T
  <2>1. \A k \in 0..m : k \in T
    BY <1>1, <1>2, InductionUpTo
  <2> QED
    BY <2>1
<1> QED
  BY <1>3 DEF Runs, Recurs

(* The elements of q at a to before b are in descending order.              *)
Downhill(q, a, b, key) == \A i, j \in a .. b - 1 : i < j => key[q[i]] >= key[q[j]]

(* Element i of r is element f[i] of q, each once, and equals have kept     *)
(* their order.                                                             *)
Places(f, r, q, n, key) ==
  /\ \A i, j \in 1..n : f[i] = f[j] => i = j
  /\ \A i \in 1..n : r[i] = q[f[i]]
  /\ \A i, j \in 1..n : i < j /\ key[r[i]] = key[r[j]] => f[i] < f[j]

Stable(r, q, n, key) == \E f \in [1..n -> 1..n] : Places(f, r, q, n, key)

(* A function on 1..n is a list of length n.                                *)
LEMMA ListLen ==
  ASSUME NEW S, NEW n \in Nat, NEW r \in [1..n -> S]
  PROVE  r \in Seq(S) /\ Len(r) = n
OBVIOUS

(* An element may go to the front of a stretch of smaller ones.             *)
LEMMA SplicedStable ==
  ASSUME NEW S, NEW key \in [S -> Int], NEW n \in Nat, NEW q, NEW r \in [1..n -> S],
         NEW a \in 1..n, NEW b \in 1..n, a < b,
         \A i \in a .. b - 1 : key[r[i]] < key[r[b]],
         Stable(r, q, n, key)
  PROVE  /\ Spliced(r, a, b) \in [1..n -> S]
         /\ Stable(Spliced(r, a, b), q, n, key)
<1> DEFINE P == 1..n
           pos(i) == IF i = a THEN b ELSE IF i \in a + 1 .. b THEN i - 1 ELSE i
           s == Spliced(r, a, b)
<1>1. PICK f \in [P -> P] : Places(f, r, q, n, key)
  BY DEF Stable
<1> DEFINE g == [i \in P |-> f[pos(i)]]
<1>2. \A i \in P : pos(i) \in P
  OBVIOUS
<1>3. \A i, j \in P : pos(i) = pos(j) => i = j
  OBVIOUS
<1>4. s = [i \in P |-> r[pos(i)]]
  <2>1. Len(r) = n
    BY ListLen
  <2> QED
    BY <2>1 DEF Spliced
<1>5. \A i, j \in P : i < j => pos(i) < pos(j) \/ (pos(i) = b /\ pos(j) \in a .. b - 1)
  OBVIOUS
<1> HIDE DEF pos, s
<1>6. s \in [P -> S] /\ g \in [P -> P]
  BY <1>2, <1>4
<1>7. \A i, j \in P : g[i] = g[j] => i = j
  <2>1. \A i \in P : g[i] = f[pos(i)]
    OBVIOUS
  <2> HIDE DEF g
  <2> QED
    BY <1>1, <1>2, <1>3, <2>1 DEF Places
<1>8. \A i \in P : s[i] = q[g[i]]
  BY <1>1, <1>2, <1>4 DEF Places
<1>9. ASSUME NEW i \in P, NEW j \in P, i < j, key[s[i]] = key[s[j]]
      PROVE  g[i] < g[j]
  <2>1. pos(i) \in P /\ pos(j) \in P /\ key[r[pos(i)]] = key[r[pos(j)]]
    BY <1>2, <1>4, <1>9
  <2>2. key[r[pos(i)]] \in Int /\ key[r[pos(j)]] \in Int
    BY <2>1
  <2>3. ~ (pos(i) = b /\ pos(j) \in a .. b - 1)
    BY <2>1, <2>2
  <2>4. pos(i) < pos(j)
    BY <1>5, <1>9, <2>3
  <2> QED
    BY <1>1, <2>1, <2>4 DEF Places
<1> HIDE DEF g
<1>10. Places(g, s, q, n, key)
  BY <1>7, <1>8, <1>9 DEF Places
<1> QED
  BY <1>6, <1>10 DEF Stable, s

(* What a stable sort returns is determined.                                *)
LEMMA StableSorted ==
  ASSUME NEW S, NEW key \in [S -> Int], NEW q \in Seq(S), NEW r \in [1..Len(q) -> S],
         Stable(r, q, Len(q), key), Downhill(r, 1, Len(q) + 1, key)
  PROVE  r = SortDescending(q, key)
<1> DEFINE n == Len(q)
           P == 1..n
<1>1. n \in Nat /\ q \in [P -> S]
  BY LenProperties
<1>2. PICK f \in [P -> P] : Places(f, r, q, n, key)
  BY DEF Stable
<1>3. \A i \in P : key[r[i]] \in Int /\ key[q[f[i]]] = key[r[i]]
  BY <1>2 DEF Places
<1>4. \A i, j \in P : i < j => key[r[i]] >= key[r[j]]
  BY <1>1 DEF Downhill
<1> HIDE DEF n
<1>5. f \in Surjection(P, P)
  <2>1. f \in Injection(P, P)
    BY <1>2 DEF Places, Injection, IsInjective
  <2>2. IsFiniteSet(P) /\ Cardinality(P) = n
    BY <1>1, FS_Interval
  <2> QED
    BY <2>1, <2>2, FS_Injection
<1>6. ASSUME NEW i \in P
      PROVE  Rank(q, f[i], key) = i
  <2>0. i \in Nat /\ 1 <= i /\ i <= n
    BY <1>1
  <2> DEFINE A == AtOrBefore(q, f[i], key)
             I == 1..i
             h == [j \in I |-> f[j]]
  <2>1. \A j \in P : f[j] \in A <=> j <= i
    <3> SUFFICES ASSUME NEW j \in P PROVE f[j] \in A <=> j <= i
      OBVIOUS
    <3>1. f[j] \in A <=> key[r[j]] > key[r[i]] \/ (key[r[j]] = key[r[i]] /\ f[j] <= f[i])
      BY <1>3 DEF AtOrBefore, n
    <3>2. /\ key[r[j]] \in Int /\ key[r[i]] \in Int
          /\ f[i] \in Int /\ f[j] \in Int /\ i \in Int /\ j \in Int
      <4>1. \A k \in P : k \in Int
        BY <1>1
      <4>2. f[i] \in P /\ f[j] \in P
        OBVIOUS
      <4> HIDE DEF P, A
      <4> QED
        BY <1>3, <4>1, <4>2
    <3>3. i < j => key[r[i]] >= key[r[j]] /\ (key[r[i]] = key[r[j]] => f[i] < f[j])
      BY <1>2, <1>4 DEF Places
    <3>4. j < i => key[r[j]] >= key[r[i]] /\ (key[r[j]] = key[r[i]] => f[j] < f[i])
      BY <1>2, <1>4 DEF Places
    <3>5. i = j => f[i] = f[j] /\ key[r[i]] = key[r[j]]
      OBVIOUS
    <3> HIDE DEF A
    <3> QED
      BY <3>1, <3>2, <3>3, <3>4, <3>5
  <2>2. I \subseteq P
    BY <1>1
  <2>3. A \subseteq P
    BY DEF AtOrBefore, n
  <2>4. h \in Bijection(I, A)
    <3> HIDE DEF A
    <3>1. \A j \in I : h[j] \in A
      <4>1. \A j \in I : j \in P /\ j <= i /\ h[j] = f[j]
        BY <1>1, <2>0, <2>2
      <4> HIDE DEF I, h, P
      <4> QED
        BY <2>1, <4>1
    <3>2. \A x \in A : \E j \in I : h[j] = x
      <4> SUFFICES ASSUME NEW x \in A PROVE \E j \in I : h[j] = x
        OBVIOUS
      <4>1. PICK j \in P : f[j] = x
        BY <1>5, <2>3 DEF Surjection
      <4>2. j \in I
        BY <1>1, <2>1, <4>1
      <4> QED
        BY <4>1, <4>2
    <3>3. \A j, k \in I : h[j] = h[k] => j = k
      BY <1>2, <2>2 DEF Places
    <3> QED
      BY <3>1, <3>2, <3>3 DEF Bijection, Injection, IsInjective, Surjection
  <2>5. IsFiniteSet(I) /\ Cardinality(I) = i
    BY <2>0, FS_Interval
  <2>6. Cardinality(A) = i
    <3> HIDE DEF A, h, I
    <3> QED
      BY <2>4, <2>5, FS_Bijection DEF ExistsBijection
  <2> QED
    BY <2>6 DEF Rank
<1> DEFINE from(k) == CHOOSE i \in P : Rank(q, i, key) = k
<1>7. ASSUME NEW k \in P PROVE from(k) = f[k]
  <2>1. Rank(q, f[k], key) = k /\ f[k] \in P
    BY <1>6
  <2>2. from(k) \in P /\ Rank(q, from(k), key) = k
    BY <2>1
  <2> HIDE DEF from
  <2>3. PICK j \in P : f[j] = from(k)
    BY <1>5, <2>2 DEF Surjection
  <2>4. j = k
    BY <1>6, <2>2, <2>3
  <2> QED
    BY <2>3, <2>4
<1>8. SortDescending(q, key) = [k \in P |-> q[from(k)]]
  BY DEF SortDescending, n
<1> HIDE DEF from
<1>9. \A k \in P : r[k] = q[from(k)]
  BY <1>2, <1>7 DEF Places
<1>10. r \in [P -> S]
  BY DEF n
<1> QED
  BY <1>8, <1>9, <1>10

(* inplace_merge so far: the runs from a to c and from c to b, of which     *)
(* what is before a is not smaller than anything in the second.             *)
Merging(x, lo, a, c, b, key) ==
  /\ a \in lo .. c /\ c \in lo .. b
  /\ Downhill(x, lo, c, key)
  /\ Downhill(x, c, b, key)
  /\ \A i \in lo .. a - 1, j \in c .. b - 1 : key[x[i]] >= key[x[j]]

SameOutside(x, y, lo, b, n) == \A i \in 1..n : i \notin lo .. b - 1 => x[i] = y[i]

(* The first run's front stays in front if the second's is not greater.     *)
LEMMA MergingNext ==
  ASSUME NEW S, NEW key \in [S -> Int], NEW n \in Nat, NEW x \in [1..n -> S],
         NEW lo \in 1..n, NEW b \in 1..n + 1, NEW a, NEW c,
         Merging(x, lo, a, c, b, key), a # c, c # b, key[x[c]] <= key[x[a]]
  PROVE  Merging(x, lo, a + 1, c, b, key)
<1>1. a \in lo .. c - 1 /\ c \in lo .. b - 1 /\ a \in 1..n /\ c \in 1..n
  BY DEF Merging
<1>2. \A i \in lo .. b - 1 : key[x[i]] \in Int
  OBVIOUS
<1>3. \A j \in c .. b - 1 : key[x[a]] >= key[x[j]]
  <2>1. \A j \in c .. b - 1 : j = c \/ key[x[c]] >= key[x[j]]
    BY <1>1 DEF Merging, Downhill
  <2>2. \A j \in c .. b - 1 : key[x[j]] \in Int
    BY <1>1, <1>2
  <2> QED
    BY <1>1, <1>2, <2>1, <2>2
<1>4. \A i \in lo .. a + 1 - 1, j \in c .. b - 1 : key[x[i]] >= key[x[j]]
  BY <1>1, <1>3 DEF Merging
<1> QED
  BY <1>1, <1>4 DEF Merging

(* A greater front of the second run is put in front of the first's.        *)
LEMMA MergingSplice ==
  ASSUME NEW S, NEW key \in [S -> Int], NEW n \in Nat, NEW x \in [1..n -> S],
         NEW lo \in 1..n, NEW b \in 1..n + 1, NEW a, NEW c,
         Merging(x, lo, a, c, b, key), a # c, c # b, key[x[c]] > key[x[a]]
  PROVE  /\ a \in 1..n /\ c \in 1..n /\ a < c
         /\ \A i \in a .. c - 1 : key[x[i]] < key[x[c]]
         /\ Merging(Spliced(x, a, c), lo, a + 1, c + 1, b, key)
         /\ SameOutside(Spliced(x, a, c), x, lo, b, n)
<1> DEFINE y == Spliced(x, a, c)
<1>1. a \in lo .. c - 1 /\ c \in lo .. b - 1 /\ a \in 1..n /\ c \in 1..n /\ a < c
  BY DEF Merging
<1>2. \A i \in 1..n : key[x[i]] \in Int
  OBVIOUS
<1>3. \A i \in a .. c - 1 : key[x[i]] < key[x[c]]
  <2>1. \A i \in a .. c - 1 : i = a \/ key[x[a]] >= key[x[i]]
    BY <1>1 DEF Merging, Downhill
  <2>2. \A i \in a .. c - 1 : key[x[i]] \in Int
    BY <1>1, <1>2
  <2> QED
    BY <1>1, <1>2, <2>1, <2>2
<1>4. \A i \in 1..n : y[i] = IF i = a THEN x[c] ELSE IF i \in a + 1 .. c THEN x[i - 1] ELSE x[i]
  <2>1. Len(x) = n
    BY ListLen
  <2> QED
    BY <2>1 DEF Spliced
<1> HIDE DEF y
<1>5. a + 1 \in lo .. c + 1 /\ c + 1 \in lo .. b
  BY <1>1
<1>6. /\ \A i \in lo .. a - 1 : y[i] = x[i]
      /\ y[a] = x[c]
      /\ \A i \in a + 1 .. c : y[i] = x[i - 1]
      /\ \A i \in c + 1 .. b - 1 : y[i] = x[i]
  BY <1>1, <1>4
<1>7. Downhill(y, lo, c + 1, key)
  <2> SUFFICES ASSUME NEW i \in lo .. c, NEW j \in lo .. c, i < j
               PROVE  key[y[i]] >= key[y[j]]
    BY <1>1 DEF Downhill
  <2>1. \A k, l \in lo .. c - 1 : k < l => key[x[k]] >= key[x[l]]
    BY DEF Merging, Downhill
  <2>2. \A k \in lo .. a - 1 : key[x[k]] >= key[x[c]]
    BY <1>1 DEF Merging
  <2>3. CASE j < a
    BY <1>1, <1>6, <2>1, <2>3
  <2>4. CASE j = a
    BY <1>1, <1>6, <2>2, <2>4
  <2>5. CASE j > a
    <3>1. y[j] = x[j - 1] /\ j - 1 \in a .. c - 1
      BY <1>1, <1>6, <2>5
    <3>2. CASE i < a
      BY <1>1, <1>6, <2>1, <3>1, <3>2
    <3>3. CASE i = a
      <4>1. key[x[j - 1]] < key[x[c]] /\ key[x[j - 1]] \in Int /\ key[x[c]] \in Int
        BY <1>1, <1>2, <1>3, <3>1
      <4> QED
        BY <1>6, <3>1, <3>3, <4>1
    <3>4. CASE i > a
      <4>1. y[i] = x[i - 1] /\ i - 1 \in lo .. c - 1 /\ j - 1 \in lo .. c - 1 /\ i - 1 < j - 1
        BY <1>1, <1>6, <3>1, <3>4
      <4> QED
        BY <2>1, <3>1, <4>1
    <3> QED
      BY <1>1, <3>2, <3>3, <3>4
  <2> QED
    BY <1>1, <2>3, <2>4, <2>5
<1>8. Downhill(y, c + 1, b, key)
  <2>1. \A k, l \in c .. b - 1 : k < l => key[x[k]] >= key[x[l]]
    BY DEF Merging, Downhill
  <2>2. \A i, j \in c + 1 .. b - 1 : i < j => key[y[i]] >= key[y[j]]
    BY <1>1, <1>6, <2>1
  <2> QED
    BY <2>2 DEF Downhill
<1>9. ASSUME NEW i \in lo .. a + 1 - 1, NEW j \in c + 1 .. b - 1
      PROVE  key[y[i]] >= key[y[j]]
  <2>1. y[j] = x[j]
    BY <1>6
  <2>2. CASE i = a
    <3>1. key[x[c]] >= key[x[j]]
      BY <1>1 DEF Merging, Downhill
    <3> QED
      BY <1>6, <2>1, <2>2, <3>1
  <2>3. CASE i # a
    <3>1. i \in lo .. a - 1 /\ j \in c .. b - 1
      BY <1>1, <2>3
    <3>2. key[x[i]] >= key[x[j]]
      BY <3>1 DEF Merging
    <3> QED
      BY <1>6, <2>1, <3>1, <3>2
  <2> QED
    BY <2>2, <2>3
<1>10. Merging(y, lo, a + 1, c + 1, b, key)
  BY <1>5, <1>7, <1>8, <1>9 DEF Merging
<1>11. SameOutside(y, x, lo, b, n)
  BY <1>1, <1>4 DEF SameOutside
<1> QED
  BY <1>1, <1>3, <1>10, <1>11 DEF y

(* When either run is used up, the two are one run.                         *)
LEMMA MergingDone ==
  ASSUME NEW S, NEW key \in [S -> Int], NEW n \in Nat, NEW x \in [1..n -> S],
         NEW lo \in 1..n, NEW b \in 1..n + 1, NEW a, NEW c,
         Merging(x, lo, a, c, b, key), a = c \/ c = b
  PROVE  Downhill(x, lo, b, key)
<1>1. CASE c = b
  BY <1>1 DEF Merging
<1>2. CASE a = c
  <2>1. a \in lo .. b
    BY <1>2 DEF Merging
  <2> SUFFICES ASSUME NEW i \in lo .. b - 1, NEW j \in lo .. b - 1, i < j
               PROVE  key[x[i]] >= key[x[j]]
    BY DEF Downhill
  <2>2. CASE j < c
    <3>1. i \in lo .. c - 1 /\ j \in lo .. c - 1
      BY <1>2, <2>1, <2>2
    <3> QED
      BY <3>1 DEF Merging, Downhill
  <2>3. CASE i >= c
    <3>1. i \in c .. b - 1 /\ j \in c .. b - 1
      BY <1>2, <2>1, <2>3
    <3> QED
      BY <3>1 DEF Merging, Downhill
  <2>4. CASE i < c /\ j >= c
    <3>1. i \in lo .. a - 1 /\ j \in c .. b - 1
      BY <1>2, <2>1, <2>4
    <3> QED
      BY <3>1 DEF Merging
  <2> QED
    BY <1>2, <2>1, <2>2, <2>3, <2>4
<1> QED
  BY <1>1, <1>2

(* A loop that makes the same step F each turn has a course.                *)
Turns(f, m, a, F) == f[0] = a /\ \A k \in 1..m : f[k] = F[f[k-1]]

LEMMA LoopExists ==
  ASSUME NEW T, NEW a \in T, NEW m \in Nat, NEW F \in [T -> T]
  PROVE  \E f \in [0..m -> T] : Turns(f, m, a, F)
<1> DEFINE G == [k \in 1..m |-> F]
<1>1. G \in Steps(m, T)
  BY DEF Steps
<1>2. PICK f \in Runs(m, T) : Recurs(f, m, a, G)
  <2> HIDE DEF G
  <2> QED
    BY <1>1, RecursionUpTo, Zenon
<1>3. f \in [0..m -> T] /\ f[0] = a /\ \A k \in 1..m : f[k] = G[k][f[k-1]]
  BY <1>2, Zenon DEF Runs, Recurs
<1>4. \A k \in 1..m : G[k] = F
  OBVIOUS
<1> HIDE DEF G
<1> QED
  BY <1>3, <1>4 DEF Turns

(* After makes its turns along a course that stays where F stays.           *)
StaysIn(F, T) == \A y \in T : F[y] \in T
Course(f, m, a, F) == Turns(f, m, a, F) /\ After(F, a, m) = f[m]

LEMMA AfterCourse ==
  ASSUME NEW T, NEW a \in T, NEW m \in Nat, NEW F, StaysIn(F, T)
  PROVE  \E f \in Runs(m, T) : Course(f, m, a, F)
<1> DEFINE G == [x \in T |-> F[x]]
           Def(g) == g = [k \in 0..m |-> IF k = 0 THEN a ELSE F[g[k-1]]]
           state == CHOOSE g : Def(g)
<1>1. PICK f \in [0..m -> T] : Turns(f, m, a, G)
  <2>1. G \in [T -> T]
    BY DEF StaysIn
  <2> HIDE DEF G
  <2> QED
    BY <2>1, LoopExists
<1>2. f[0] = a /\ \A k \in 1..m : f[k] = F[f[k-1]]
  <2>1. \A k \in 1..m : f[k-1] \in T
    OBVIOUS
  <2> QED
    BY <1>1, <2>1 DEF Turns
<1>3. Def(f)
  <2>1. \A k \in 0..m : f[k] = IF k = 0 THEN a ELSE F[f[k-1]]
    BY <1>2
  <2>2. f = [k \in 0..m |-> f[k]]
    OBVIOUS
  <2> QED
    BY <2>1, <2>2
<1>4. Def(state)
  <2> HIDE DEF Def
  <2> QED
    BY <1>3
<1>5. state[0] = a /\ \A k \in 1..m : state[k] = F[state[k-1]]
  <2> HIDE DEF state
  <2>1. 0 \in 0..m /\ \A k \in 1..m : k \in 0..m /\ k # 0
    OBVIOUS
  <2> QED
    BY <1>4, <2>1
<1> HIDE DEF state, Def
<1> DEFINE U == {k \in 0..m : state[k] = f[k]}
<1>6. 0 \in U
  BY <1>2, <1>5
<1>7. \A k \in 1..m : k - 1 \in U => k \in U
  BY <1>2, <1>5
<1>8. m \in U
  <2> HIDE DEF U
  <2>1. \A k \in 0..m : k \in U
    BY <1>6, <1>7, InductionUpTo
  <2> QED
    BY <2>1
<1>9. After(F, a, m) = state[m]
  BY DEF After, state, Def
<1> QED
  BY <1>2, <1>8, <1>9 DEF Turns, Runs, Course

Merges(S, n, q, x, lo, b, key) ==
  {m \in [q : [1..n -> S], a0 : Nat, a1b0 : Nat] :
     /\ Merging(m.q, lo, m.a0, m.a1b0, b, key)
     /\ Stable(m.q, q, n, key)
     /\ SameOutside(m.q, x, lo, b, n)}

MergeOver(m, b) == m.a0 = m.a1b0 \/ m.a1b0 = b

(* A turn of inplace_merge keeps what Merges says, and moves on if it can.  *)
LEMMA MergeTurnKeeps ==
  ASSUME NEW S, NEW key \in [S -> Int], NEW n \in Nat, NEW q, NEW x,
         NEW lo \in 1..n, NEW b \in 1..n + 1, NEW m \in Merges(S, n, q, x, lo, b, key)
  PROVE  /\ MergeTurn(m, b, key) \in Merges(S, n, q, x, lo, b, key)
         /\ MergeTurn(m, b, key).a0 = IF MergeOver(m, b) THEN m.a0 ELSE m.a0 + 1
         /\ MergeOver(m, b) => MergeTurn(m, b, key) = m
<1>1. /\ m.q \in [1..n -> S] /\ m.a0 \in Nat /\ m.a1b0 \in Nat
      /\ Merging(m.q, lo, m.a0, m.a1b0, b, key)
      /\ Stable(m.q, q, n, key)
      /\ SameOutside(m.q, x, lo, b, n)
  BY DEF Merges
<1>2. CASE MergeOver(m, b)
  BY <1>2 DEF MergeTurn, MergeOver
<1>3. CASE ~ MergeOver(m, b) /\ key[m.q[m.a1b0]] <= key[m.q[m.a0]]
  <2>1. MergeTurn(m, b, key) = [q |-> m.q, a0 |-> m.a0 + 1, a1b0 |-> m.a1b0]
    BY <1>3 DEF MergeTurn, MergeOver
  <2>2. Merging(m.q, lo, m.a0 + 1, m.a1b0, b, key)
    BY <1>1, <1>3, MergingNext DEF MergeOver
  <2> QED
    BY <1>1, <1>3, <2>1, <2>2 DEF Merges
<1>4. CASE ~ MergeOver(m, b) /\ key[m.q[m.a1b0]] > key[m.q[m.a0]]
  <2> DEFINE y == Spliced(m.q, m.a0, m.a1b0)
  <2>1. /\ m.a0 \in 1..n /\ m.a1b0 \in 1..n /\ m.a0 < m.a1b0
        /\ \A i \in m.a0 .. m.a1b0 - 1 : key[m.q[i]] < key[m.q[m.a1b0]]
        /\ Merging(y, lo, m.a0 + 1, m.a1b0 + 1, b, key)
        /\ SameOutside(y, m.q, lo, b, n)
    BY <1>1, <1>4, MergingSplice DEF MergeOver
  <2>2. y \in [1..n -> S] /\ Stable(y, q, n, key)
    BY <1>1, <2>1, SplicedStable
  <2>3. key[m.q[m.a1b0]] \in Int /\ key[m.q[m.a0]] \in Int
    BY <1>1, <2>1
  <2>4. MergeTurn(m, b, key) = [q |-> y, a0 |-> m.a0 + 1, a1b0 |-> m.a1b0 + 1]
    BY <1>4, <2>3 DEF MergeTurn, MergeOver
  <2> HIDE DEF y
  <2>5. SameOutside(y, x, lo, b, n)
    BY <1>1, <2>1 DEF SameOutside
  <2> QED
    <3> DEFINE w == [q |-> y, a0 |-> m.a0 + 1, a1b0 |-> m.a1b0 + 1]
    <3>1. /\ w.q = y /\ w.a0 = m.a0 + 1 /\ w.a1b0 = m.a1b0 + 1
          /\ w \in [q : [1..n -> S], a0 : Nat, a1b0 : Nat]
      BY <1>1, <2>2
    <3>2. MergeTurn(m, b, key) = w
      BY <2>4
    <3> HIDE DEF w
    <3>3. w \in Merges(S, n, q, x, lo, b, key)
      BY <2>1, <2>2, <2>5, <3>1 DEF Merges
    <3> QED
      BY <1>4, <3>1, <3>2, <3>3
<1>5. MergeOver(m, b) \/ (key[m.q[m.a1b0]] \in Int /\ key[m.q[m.a0]] \in Int)
  <2>1. ASSUME ~ MergeOver(m, b) PROVE m.a1b0 \in 1..n /\ m.a0 \in 1..n
    BY <1>1, <2>1 DEF Merging, MergeOver
  <2> QED
    BY <1>1, <2>1
<1> QED
  BY <1>2, <1>3, <1>4, <1>5

(* inplace_merge makes one run of two, and nothing else.                    *)
LEMMA InplaceMergeCorrect ==
  ASSUME NEW S, NEW key \in [S -> Int], NEW n \in Nat, NEW q, NEW x \in [1..n -> S],
         NEW lo \in 1..n, NEW c \in lo..n, NEW b \in c..n + 1,
         Downhill(x, lo, c, key), Downhill(x, c, b, key), Stable(x, q, n, key)
  PROVE  LET y == InplaceMerge(x, lo, c, b, key)
         IN  /\ y \in [1..n -> S] /\ Stable(y, q, n, key)
             /\ Downhill(y, lo, b, key)
             /\ SameOutside(y, x, lo, b, n)
<1> DEFINE T == Merges(S, n, q, x, lo, b, key)
           start == [q |-> x, a0 |-> lo, a1b0 |-> c]
           turn == [m \in [q : Seq(DOMAIN key), a0 : Nat, a1b0 : Nat] |-> MergeTurn(m, b, key)]
<1>1. lo \in 1..n /\ b \in 1..n + 1 /\ c \in 1..n /\ Len(x) = n
  BY ListLen
<1>2. start \in T
  <2>1. Merging(x, lo, lo, c, b, key)
    BY DEF Merging
  <2>2. SameOutside(x, x, lo, b, n)
    BY DEF SameOutside
  <2> QED
    BY <1>1, <2>1, <2>2 DEF Merges
<1>3. ASSUME NEW m \in T
      PROVE  /\ MergeTurn(m, b, key) \in T
             /\ MergeTurn(m, b, key).a0 = IF MergeOver(m, b) THEN m.a0 ELSE m.a0 + 1
             /\ MergeOver(m, b) => MergeTurn(m, b, key) = m
  BY <1>1, MergeTurnKeeps
<1>4. \A m \in T : turn[m] = MergeTurn(m, b, key)
  <2>1. \A m \in T : m \in [q : Seq(DOMAIN key), a0 : Nat, a1b0 : Nat]
    <3>1. DOMAIN key = S
      OBVIOUS
    <3>2. \A r \in [1..n -> S] : r \in Seq(S)
      OBVIOUS
    <3> QED
      BY <3>1, <3>2 DEF Merges
  <2> HIDE DEF T
  <2> QED
    BY <2>1
<1>5. InplaceMerge(x, lo, c, b, key) = After(turn, start, n).q
  BY <1>1 DEF InplaceMerge
<1> HIDE DEF start, T, turn
<1>6. PICK f \in Runs(n, T) : Course(f, n, start, turn)
  <2>1. StaysIn(turn, T)
    BY <1>3, <1>4 DEF StaysIn
  <2> QED
    BY <1>2, <2>1, AfterCourse, Zenon
<1>7. f[0] = start /\ \A k \in 1..n : f[k-1] \in T /\ f[k] = MergeTurn(f[k-1], b, key)
  <2>1. \A k \in 1..n : f[k-1] \in T
    BY DEF Runs
  <2> QED
    BY <1>4, <1>6, <2>1 DEF Turns, Course
<1> DEFINE Good(k) == f[k] \in T /\ (MergeOver(f[k], b) \/ f[k].a0 = lo + k)
           U == {k \in 0..n : Good(k)}
<1>8. 0 \in U
  <2>1. start.a0 = lo
    BY DEF start
  <2> QED
    BY <1>2, <1>7, <2>1
<1>9. ASSUME NEW k \in 1..n, k - 1 \in U PROVE k \in U
  <2> DEFINE m == f[k-1]
  <2>1. m \in T /\ (MergeOver(m, b) \/ m.a0 = lo + (k - 1))
    BY <1>9
  <2>2. f[k] = MergeTurn(m, b, key)
    BY <1>7
  <2> HIDE DEF m
  <2>3. f[k] \in T
    BY <1>3, <2>1, <2>2
  <2>4. CASE MergeOver(m, b)
    BY <1>3, <2>1, <2>2, <2>3, <2>4
  <2>5. CASE ~ MergeOver(m, b)
    BY <1>3, <2>1, <2>2, <2>3, <2>5
  <2> QED
    BY <2>4, <2>5
<1>10. Good(n)
  <2> HIDE DEF Good
  <2>1. \A k \in 0..n : k \in U
    <3> HIDE DEF U
    <3> QED
      BY <1>8, <1>9, InductionUpTo
  <2> QED
    BY <2>1
<1> DEFINE z == f[n]
<1>11. /\ z.q \in [1..n -> S] /\ z.a0 \in Nat /\ z.a1b0 \in Nat
       /\ Merging(z.q, lo, z.a0, z.a1b0, b, key)
       /\ Stable(z.q, q, n, key)
       /\ SameOutside(z.q, x, lo, b, n)
  BY <1>10 DEF T, Merges
<1>12. z.a0 = z.a1b0 \/ z.a1b0 = b
  <2>1. MergeOver(z, b) \/ z.a0 = lo + n
    BY <1>10
  <2> HIDE DEF z
  <2> QED
    BY <1>1, <1>11, <2>1 DEF Merging, MergeOver
<1>13. Downhill(z.q, lo, b, key)
  <2> HIDE DEF z
  <2> QED
    BY <1>1, <1>11, <1>12, MergingDone
<1>14. InplaceMerge(x, lo, c, b, key) = z.q
  BY <1>5, <1>6 DEF Course
<1> HIDE DEF z
<1> QED
  BY <1>11, <1>13, <1>14

(* find_end_of_run returns the end of the longest run from a on.            *)
LEMMA FindEndOfRunStops ==
  ASSUME NEW S, NEW key \in [S -> Int], NEW n \in Nat, NEW x \in [1..n -> S],
         NEW a \in 1..n
  PROVE  LET e == FindEndOfRun(x, a, key)
         IN  /\ e \in a + 1 .. n + 1
             /\ Downhill(x, a, e, key)
             /\ \A k \in a .. n + 1 : Downhill(x, a, k, key) => k <= e
<1> DEFINE e == FindEndOfRun(x, a, key)
           W == {j \in a + 1 .. n : key[x[j]] > key[x[j - 1]]}
           V == {n + 1} \cup W
<1>1. \A i \in 1..n : key[x[i]] \in Int
  OBVIOUS
<1>2. e = Min(V)
  BY ListLen DEF FindEndOfRun
<1>3. V \subseteq Nat /\ V # {}
  OBVIOUS
<1>4. e \in V /\ \A j \in V : e <= j
  <2> HIDE DEF V, e
  <2> QED
    BY <1>2, <1>3, MinNat
<1> HIDE DEF e
<1>5. e \in a + 1 .. n + 1
  BY <1>4
<1>6. \A j \in a + 1 .. e - 1 : key[x[j]] <= key[x[j - 1]]
  <2> SUFFICES ASSUME NEW j \in a + 1 .. e - 1 PROVE key[x[j]] <= key[x[j - 1]]
    OBVIOUS
  <2>1. j \in 1..n /\ j - 1 \in 1..n /\ j \in a + 1 .. n /\ ~ (e <= j)
    BY <1>5
  <2>2. j \notin W
    BY <1>4, <2>1
  <2> QED
    BY <1>1, <2>1, <2>2
<1>7. ASSUME NEW i \in a .. e - 1, NEW j \in a .. e - 1, i < j
      PROVE  key[x[i]] >= key[x[j]]
  <2> DEFINE U == {d \in 0..n : i + d < e => key[x[i]] >= key[x[i + d]]}
  <2>1. 0 \in U
    <3>1. key[x[i]] >= key[x[i]]
      BY <1>1, <1>5
    <3> QED
      BY <1>5, <3>1
  <2>2. ASSUME NEW d \in 1..n, d - 1 \in U PROVE d \in U
    <3> SUFFICES ASSUME i + d < e PROVE key[x[i]] >= key[x[i + d]]
      OBVIOUS
    <3>1. i \in 1..n /\ i + d \in 1..n /\ i + (d - 1) \in 1..n /\ i + d \in a + 1 .. e - 1
          /\ (i + d) - 1 = i + (d - 1) /\ i + (d - 1) < e
      BY <1>5
    <3>2. key[x[i]] >= key[x[i + (d - 1)]]
      BY <2>2, <3>1
    <3>3. key[x[i + d]] <= key[x[i + (d - 1)]]
      BY <1>6, <3>1
    <3>4. key[x[i]] \in Int /\ key[x[i + d]] \in Int /\ key[x[i + (d - 1)]] \in Int
      BY <1>1, <3>1
    <3> QED
      BY <3>2, <3>3, <3>4
  <2>3. \A d \in 0..n : d \in U
    <3> HIDE DEF U
    <3> QED
      BY <2>1, <2>2, InductionUpTo
  <2>4. j - i \in 0..n /\ i + (j - i) = j /\ j < e
    BY <1>5, <1>7
  <2>5. j - i \in U
    BY <2>3, <2>4
  <2> HIDE DEF W, V
  <2> QED
    BY <2>4, <2>5
<1>8. Downhill(x, a, e, key)
  BY <1>7 DEF Downhill
<1>9. ASSUME NEW k \in a .. n + 1, Downhill(x, a, k, key), ~ (k <= e) PROVE FALSE
  <2>1. e \in W /\ e \in a .. k - 1 /\ e - 1 \in a .. k - 1 /\ e - 1 < e /\ e \in 1..n /\ e - 1 \in 1..n
    BY <1>4, <1>5, <1>9
  <2>2. key[x[e - 1]] >= key[x[e]]
    BY <1>9, <2>1 DEF Downhill
  <2>3. key[x[e]] > key[x[e - 1]]
    BY <2>1
  <2> QED
    BY <1>1, <2>1, <2>2, <2>3
<1> QED
  BY <1>5, <1>8, <1>9 DEF e

(* A pass over x so far, x being the list q moved about and its first k     *)
(* elements a run: what it has put out begins with a run of c - 1 elements, *)
(* and is one run if it has put out one.                                    *)
Passes(S, n, q, x, c, key) ==
  {p \in [q : [1..n -> S], a0 : 1..n + 1, runs : Nat] :
     /\ Stable(p.q, q, n, key)
     /\ p.runs = 0 => p.q = x /\ p.a0 = 1
     /\ p.runs = 1 => Downhill(p.q, 1, p.a0, key)
     /\ p.runs > 0 => c <= p.a0 /\ Downhill(p.q, 1, c, key)}

(* So does a turn of a pass: it merges the next two runs.                   *)
LEMMA PassTurnKeeps ==
  ASSUME NEW S, NEW key \in [S -> Int], NEW n \in Nat, NEW q, NEW x \in [1..n -> S],
         NEW k \in 0..n, NEW c \in 1..n + 1, c <= k + 2, Downhill(x, 1, k + 1, key),
         NEW p \in Passes(S, n, q, x, c, key)
  PROVE  /\ PassTurn(p, key) \in Passes(S, n, q, x, c, key)
         /\ p.a0 = n + 1 => PassTurn(p, key) = p
         /\ p.a0 # n + 1 => PassTurn(p, key).a0 > p.a0
<1> DEFINE lo == p.a0
           a1b0 == FindEndOfRun(p.q, lo, key)
           b1 == FindEndOfRun(p.q, a1b0, key)
<1>1. /\ p.q \in [1..n -> S] /\ lo \in 1..n + 1 /\ p.runs \in Nat
      /\ p = [q |-> p.q, a0 |-> lo, runs |-> p.runs]
      /\ Stable(p.q, q, n, key)
      /\ p.runs = 0 => p.q = x /\ lo = 1
      /\ p.runs = 1 => Downhill(p.q, 1, lo, key)
      /\ p.runs > 0 => c <= lo /\ Downhill(p.q, 1, c, key)
  BY DEF Passes
<1>2. Len(p.q) = n
  BY <1>1, ListLen
<1>3. CASE lo = n + 1
  <2>1. PassTurn(p, key) = p
    BY <1>2, <1>3 DEF PassTurn
  <2> QED
    BY <1>3, <2>1
<1> HIDE DEF lo
<1>4. p.q \in [1..n -> S] /\ lo \in 1..n + 1 /\ p.runs \in Nat
  BY <1>1
<1>5. p.runs = 0 => p.q = x /\ lo = 1
  BY <1>1
<1>6. p.runs # 0 => c <= lo /\ Downhill(p.q, 1, c, key)
  BY <1>1
<1>7. CASE lo # n + 1
  <2>1. lo \in 1..n
    BY <1>1, <1>7
  <2> DEFINE e == FindEndOfRun(p.q, lo, key)
  <2>2. /\ e \in lo + 1 .. n + 1
        /\ Downhill(p.q, lo, e, key)
        /\ \A j \in lo .. n + 1 : Downhill(p.q, lo, j, key) => j <= e
    BY <1>1, <2>1, FindEndOfRunStops
  <2>3. e = a1b0
    OBVIOUS
  <2> HIDE DEF e
  <2>4. p.runs = 0 => k + 1 <= e
    <3> SUFFICES ASSUME p.runs = 0 PROVE k + 1 <= e
      OBVIOUS
    <3>1. lo = 1 /\ Downhill(p.q, lo, k + 1, key)
      BY <1>5
    <3>2. k + 1 \in lo .. n + 1
      BY <3>1
    <3> QED
      BY <2>2, <3>1, <3>2, Zenon
  <2>5. CASE e = n + 1
    <3> DEFINE w == [q |-> p.q, a0 |-> n + 1, runs |-> p.runs + 1]
    <3>1. PassTurn(p, key) = w
      BY <1>2, <1>7, <2>3, <2>5 DEF PassTurn, lo
    <3>2. w.q = p.q /\ w.a0 = n + 1 /\ w.runs = p.runs + 1
          /\ w \in [q : [1..n -> S], a0 : 1..n + 1, runs : Nat]
      BY <1>1
    <3> HIDE DEF w
    <3>3. p.runs = 0 => Downhill(p.q, 1, n + 1, key)
      BY <1>5, <2>2, <2>5, Zenon
    <3>4. w.runs # 0 /\ c <= w.a0 /\ (w.runs = 1 => Downhill(w.q, 1, w.a0, key))
      <4>1. w.runs # 0 /\ c <= w.a0 /\ (w.runs = 1 => p.runs = 0)
        BY <1>4, <3>2
      <4> QED
        BY <3>2, <3>3, <4>1, Zenon
    <3>5. Downhill(w.q, 1, c, key)
      <4>1. CASE p.runs = 0
        <5>1. \A i \in 1 .. c - 1 : i \in 1 .. (n + 1) - 1
          OBVIOUS
        <5> QED
          BY <3>2, <3>3, <4>1, <5>1, Zenon DEF Downhill
      <4>2. CASE p.runs # 0
        BY <1>6, <3>2, <4>2, Zenon
      <4> QED
        BY <4>1, <4>2
    <3>6. w \in Passes(S, n, q, x, c, key)
      BY <1>1, <3>2, <3>4, <3>5 DEF Passes
    <3> QED
      <4>1. w.a0 > lo
        BY <2>1, <3>2
      <4> QED
        BY <1>7, <3>1, <3>6, <4>1, Zenon DEF lo
  <2>6. CASE e # n + 1
    <3>1. e \in 1..n /\ e \in lo..n
      <4>1. e \in lo + 1 .. n + 1 /\ lo \in 1..n
        BY <2>1, <2>2
      <4> QED
        BY <2>6, <4>1
    <3> DEFINE b == FindEndOfRun(p.q, e, key)
    <3>2. b \in e + 1 .. n + 1 /\ Downhill(p.q, e, b, key)
      BY <1>1, <3>1, FindEndOfRunStops
    <3>3. b = b1
      BY <2>3
    <3> HIDE DEF b
    <3> DEFINE y == InplaceMerge(p.q, lo, e, b, key)
    <3>4. b \in e..n + 1
      BY <3>1, <3>2
    <3>5. /\ y \in [1..n -> S] /\ Stable(y, q, n, key)
          /\ Downhill(y, lo, b, key)
          /\ SameOutside(y, p.q, lo, b, n)
      BY <1>1, <2>1, <2>2, <3>1, <3>2, <3>4, InplaceMergeCorrect
    <3> DEFINE w == [q |-> y, a0 |-> b, runs |-> p.runs + 1]
    <3>6. PassTurn(p, key) = w
      BY <1>2, <1>7, <2>3, <2>6, <3>3 DEF PassTurn, lo
    <3> HIDE DEF y
    <3>7. b \in 1..n + 1 /\ b > lo
      BY <2>1, <3>1, <3>2
    <3>8. w.q = y /\ w.a0 = b /\ w.runs = p.runs + 1
          /\ w \in [q : [1..n -> S], a0 : 1..n + 1, runs : Nat]
      BY <1>1, <3>5, <3>7
    <3> HIDE DEF w
    <3>9. w.runs = 1 => Downhill(w.q, 1, w.a0, key)
      <4>1. w.runs = 1 => p.runs = 0
        BY <1>4, <3>8
      <4>2. p.runs = 0 => lo = 1
        BY <1>5
      <4>3. w.q = y /\ w.a0 = b
        BY <3>8
      <4> QED
        BY <3>5, <4>1, <4>2, <4>3, Zenon
    <3>10. w.runs # 0 /\ c <= w.a0
      <4>0. w.runs # 0 /\ w.a0 = b
        BY <1>4, <3>8
      <4>1. CASE p.runs = 0
        <5>1. k + 1 <= e /\ e \in 1..n /\ b \in e + 1 .. n + 1
          BY <2>4, <3>1, <3>2, <4>1
        <5> QED
          BY <4>0, <5>1
      <4>2. CASE p.runs # 0
        <5>1. c <= lo
          BY <1>6, <4>2
        <5> QED
          BY <1>4, <3>7, <4>0, <5>1
      <4> QED
        BY <4>1, <4>2
    <3>11. Downhill(w.q, 1, c, key)
      <4>1. CASE p.runs = 0
        <5>1. Downhill(y, 1, b, key)
          BY <1>5, <3>5, <4>1, Zenon
        <5>2. \A i \in 1 .. c - 1 : i \in 1 .. b - 1
          BY <3>7, <3>8, <3>10
        <5> QED
          BY <3>8, <5>1, <5>2, Zenon DEF Downhill
      <4>2. CASE p.runs # 0
        <5>1. c <= lo /\ Downhill(p.q, 1, c, key)
          BY <1>6, <4>2, Zenon
        <5>2. \A i \in 1 .. c - 1 : y[i] = p.q[i]
          BY <2>1, <3>5, <5>1 DEF SameOutside
        <5> QED
          BY <3>8, <5>1, <5>2, Zenon DEF Downhill
      <4> QED
        BY <4>1, <4>2
    <3>12. w \in Passes(S, n, q, x, c, key)
      BY <3>5, <3>8, <3>9, <3>10, <3>11 DEF Passes
    <3> QED
      <4>1. PassTurn(p, key).a0 > lo
        BY <3>6, <3>7, <3>8
      <4> QED
        BY <1>7, <3>6, <3>12, <4>1, Zenon DEF lo
  <2> QED
    BY <2>5, <2>6
<1> QED
  BY <1>3, <1>7 DEF lo

(* A pass keeps the sort stable, makes the first run one longer, and has    *)
(* sorted the list if it puts out one run.                                  *)
LEMMA PassCorrect ==
  ASSUME NEW S, NEW key \in [S -> Int], NEW n \in Nat, NEW q, NEW x \in [1..n -> S],
         Stable(x, q, n, key), NEW k \in 0..n, Downhill(x, 1, k + 1, key),
         NEW c \in 1..n + 1, c <= k + 2
  PROVE  LET p == Pass(x, key)
         IN  /\ p \in [q : [1..n -> S], a0 : 1..n + 1, runs : Nat]
             /\ Stable(p.q, q, n, key)
             /\ p.runs <= 1 => Downhill(p.q, 1, n + 1, key)
             /\ Downhill(p.q, 1, c, key)
<1> DEFINE T == Passes(S, n, q, x, c, key)
           start == [q |-> x, a0 |-> 1, runs |-> 0]
           turn == [p \in PassState(key) |-> PassTurn(p, key)]
<1>1. Len(x) = n
  BY ListLen
<1>2. start \in T
  BY DEF Passes
<1>3. ASSUME NEW p \in T
      PROVE  /\ PassTurn(p, key) \in T
             /\ p.a0 = n + 1 => PassTurn(p, key) = p
             /\ p.a0 # n + 1 => PassTurn(p, key).a0 > p.a0
  BY PassTurnKeeps
<1>4. \A p \in T : p.a0 \in 1..n + 1
  BY DEF Passes
<1>5. \A p \in T : turn[p] = PassTurn(p, key)
  <2>1. \A p \in T : p \in PassState(key)
    <3>1. DOMAIN key = S
      OBVIOUS
    <3>2. \A r \in [1..n -> S] : r \in Seq(S)
      OBVIOUS
    <3> QED
      BY <3>1, <3>2 DEF Passes, PassState
  <2> HIDE DEF T
  <2> QED
    BY <2>1
<1>6. Pass(x, key) = After(turn, start, n)
  BY <1>1 DEF Pass
<1> HIDE DEF start, T, turn
<1>7. PICK f \in Runs(n, T) : Course(f, n, start, turn)
  <2>1. StaysIn(turn, T)
    BY <1>3, <1>5 DEF StaysIn
  <2> QED
    BY <1>2, <2>1, AfterCourse, Zenon
<1>8. f[0] = start /\ \A i \in 1..n : f[i-1] \in T /\ f[i] = PassTurn(f[i-1], key)
  <2>1. \A i \in 1..n : f[i-1] \in T
    BY DEF Runs
  <2> QED
    BY <1>5, <1>7, <2>1 DEF Turns, Course
<1> DEFINE Good(i) == f[i] \in T /\ f[i].a0 >= i + 1
           U == {i \in 0..n : Good(i)}
<1>9. 0 \in U
  <2>1. start.a0 = 1
    BY DEF start
  <2> QED
    BY <1>2, <1>8, <2>1
<1>10. ASSUME NEW i \in 1..n, i - 1 \in U PROVE i \in U
  <2> DEFINE p == f[i-1]
  <2>1. p \in T /\ p.a0 >= i
    BY <1>10
  <2>2. f[i] = PassTurn(p, key)
    BY <1>8
  <2> HIDE DEF p
  <2>3. f[i] \in T /\ f[i].a0 \in 1..n + 1 /\ p.a0 \in 1..n + 1
    BY <1>3, <1>4, <2>1, <2>2
  <2>4. f[i].a0 >= i + 1
    <3>1. CASE p.a0 = n + 1
      BY <1>3, <2>1, <2>2, <3>1
    <3>2. CASE p.a0 # n + 1
      <4>1. f[i].a0 > p.a0
        BY <1>3, <2>1, <2>2, <3>2
      <4> QED
        BY <2>1, <2>3, <4>1
    <3> QED
      BY <3>1, <3>2
  <2> QED
    BY <2>3, <2>4
<1>11. Good(n)
  <2> HIDE DEF Good
  <2>1. \A i \in 0..n : i \in U
    <3> HIDE DEF U
    <3> QED
      BY <1>9, <1>10, InductionUpTo
  <2> QED
    BY <2>1
<1> DEFINE z == f[n]
<1>12. z \in T /\ z.a0 = n + 1
  BY <1>4, <1>11
<1>13. /\ z \in [q : [1..n -> S], a0 : 1..n + 1, runs : Nat]
       /\ Stable(z.q, q, n, key)
       /\ z.runs = 0 => z.q = x /\ z.a0 = 1
       /\ z.runs = 1 => Downhill(z.q, 1, z.a0, key)
       /\ z.runs > 0 => c <= z.a0 /\ Downhill(z.q, 1, c, key)
  BY <1>12 DEF T, Passes
<1>14. Pass(x, key) = z
  BY <1>6, <1>7 DEF Course
<1> HIDE DEF z
<1>15. z.runs = 0 => Downhill(z.q, 1, n + 1, key) /\ Downhill(z.q, 1, c, key)
  <2> SUFFICES ASSUME z.runs = 0
               PROVE  Downhill(z.q, 1, n + 1, key) /\ Downhill(z.q, 1, c, key)
    OBVIOUS
  <2>1. n = 0 /\ c = 1
    BY <1>12, <1>13
  <2> QED
    BY <2>1 DEF Downhill
<1>16. z.runs \in Nat
  BY <1>13
<1> QED
  BY <1>12, <1>13, <1>14, <1>15, <1>16

(* list_sort returns the list sorted, with equals in the order they had.    *)
LEMMA ListSortStable ==
  ASSUME NEW S, NEW key \in [S -> Int], NEW n \in Nat, NEW q \in [1..n -> S]
  PROVE  /\ ListSort(q, key) \in [1..n -> S]
         /\ Stable(ListSort(q, key), q, n, key)
         /\ Downhill(ListSort(q, key), 1, n + 1, key)
<1> DEFINE R == [q : [1..n -> S], a0 : 1..n + 1, runs : Nat]
           T == {p \in R : /\ Stable(p.q, q, n, key)
                           /\ p.runs <= 1 => Downhill(p.q, 1, n + 1, key)}
           start == [q |-> q, a0 |-> 1, runs |-> 2]
           turn == [p \in PassState(key) |-> SortTurn(p, key)]
<1>1. Len(q) = n
  BY ListLen
<1>2. start \in T
  <2>1. Stable(q, q, n, key)
    <3> DEFINE id == [i \in 1..n |-> i]
    <3>1. id \in [1..n -> 1..n] /\ Places(id, q, q, n, key)
      BY DEF Places
    <3> QED
      BY <3>1 DEF Stable
  <2> QED
    BY <2>1
<1>3. ASSUME NEW p \in T, NEW k \in 0..n, Downhill(p.q, 1, k + 1, key),
             NEW c \in 1..n + 1, c <= k + 2
      PROVE  SortTurn(p, key) \in T /\ Downhill(SortTurn(p, key).q, 1, c, key)
  <2>1. p \in R /\ p.q \in [1..n -> S] /\ p.runs \in Nat
    OBVIOUS
  <2>2. CASE p.runs > 1
    <3> DEFINE w == Pass(p.q, key)
    <3>1. SortTurn(p, key) = w
      BY <2>2 DEF SortTurn
    <3>2. /\ w \in R /\ Stable(w.q, q, n, key)
          /\ w.runs <= 1 => Downhill(w.q, 1, n + 1, key)
          /\ Downhill(w.q, 1, c, key)
      <4>1. Stable(p.q, q, n, key)
        OBVIOUS
      <4> HIDE DEF T
      <4> QED
        BY <1>3, <2>1, <4>1, PassCorrect
    <3> HIDE DEF w
    <3> QED
      BY <3>1, <3>2
  <2>3. CASE ~ (p.runs > 1)
    <3>1. SortTurn(p, key) = p
      BY <2>3 DEF SortTurn
    <3>2. Downhill(p.q, 1, n + 1, key)
      BY <2>1, <2>3
    <3>3. \A j \in 1 .. c - 1 : j \in 1 .. (n + 1) - 1
      OBVIOUS
    <3>4. Downhill(p.q, 1, c, key)
      BY <3>2, <3>3, Zenon DEF Downhill
    <3> QED
      BY <3>1, <3>4
  <2> QED
    BY <2>2, <2>3
<1>4. \A p \in T : p.q \in [1..n -> S] /\ Stable(p.q, q, n, key) /\ Downhill(p.q, 1, 1, key)
  BY DEF Downhill
<1>5. \A p \in T : turn[p] = SortTurn(p, key)
  <2>1. \A p \in T : p \in PassState(key)
    <3>1. DOMAIN key = S
      OBVIOUS
    <3>2. \A r \in [1..n -> S] : r \in Seq(S)
      OBVIOUS
    <3> QED
      BY <3>1, <3>2 DEF PassState
  <2> HIDE DEF T
  <2> QED
    BY <2>1
<1>6. ListSort(q, key) = After(turn, start, n).q
  BY <1>1 DEF ListSort
<1> HIDE DEF start, T, turn
<1>7. ASSUME NEW p \in T PROVE SortTurn(p, key) \in T
  <2>1. 0 \in 0..n /\ 1 \in 1..n + 1 /\ 1 <= 0 + 2 /\ 0 + 1 = 1
    OBVIOUS
  <2> QED
    BY <1>3, <1>4, <2>1
<1>8. PICK f \in Runs(n, T) : Course(f, n, start, turn)
  <2>1. StaysIn(turn, T)
    BY <1>7, <1>5 DEF StaysIn
  <2> QED
    BY <1>2, <2>1, AfterCourse, Zenon
<1>9. f[0] = start /\ \A i \in 1..n : f[i-1] \in T /\ f[i] = SortTurn(f[i-1], key)
  <2>1. \A i \in 1..n : f[i-1] \in T
    BY DEF Runs
  <2> QED
    BY <1>8, <1>5, <2>1 DEF Turns, Course
<1> DEFINE Good(i) == f[i] \in T /\ Downhill(f[i].q, 1, i + 1, key)
           U == {i \in 0..n : Good(i)}
<1>10. 0 \in U
  BY <1>2, <1>4, <1>9
<1>11. ASSUME NEW i \in 1..n, i - 1 \in U PROVE i \in U
  <2> DEFINE p == f[i-1]
  <2>1. p \in T /\ Downhill(p.q, 1, (i - 1) + 1, key)
    BY <1>11
  <2>2. f[i] = SortTurn(p, key)
    BY <1>9
  <2>3. i - 1 \in 0..n /\ i + 1 \in 1..n + 1 /\ i + 1 <= (i - 1) + 2
    OBVIOUS
  <2> HIDE DEF p
  <2>4. f[i] \in T /\ Downhill(f[i].q, 1, i + 1, key)
    BY <1>3, <2>1, <2>2, <2>3
  <2> QED
    BY <2>4
<1>12. Good(n)
  <2> HIDE DEF Good
  <2>1. \A i \in 0..n : i \in U
    <3> HIDE DEF U
    <3> QED
      BY <1>10, <1>11, InductionUpTo
  <2> QED
    BY <2>1
<1>13. ListSort(q, key) = f[n].q
  BY <1>8, <1>6 DEF Course
<1> QED
  BY <1>4, <1>12, <1>13

(* list_sort, the merging of runs in place, returns what a stable sort has   *)
(* to: the elements by descending key, equals in the order they had.        *)
THEOREM ListSortCorrect ==
  ASSUME NEW S, NEW key \in [S -> Int], NEW q \in Seq(S)
  PROVE  ListSort(q, key) = SortDescending(q, key)
<1> DEFINE n == Len(q)
<1>1. n \in Nat /\ q \in [1..n -> S]
  BY LenProperties
<1>2. /\ ListSort(q, key) \in [1..n -> S]
      /\ Stable(ListSort(q, key), q, n, key)
      /\ Downhill(ListSort(q, key), 1, n + 1, key)
  <2> HIDE DEF n
  <2> QED
    BY <1>1, ListSortStable
<1> QED
  BY <1>2, StableSorted

(* A pass over a list in order leaves it as it is and puts out one run.     *)
LEMMA PassOverSorted ==
  ASSUME NEW S, NEW key \in [S -> Int], NEW n \in Nat \ {0}, NEW x \in [1..n -> S],
         Downhill(x, 1, n + 1, key)
  PROVE  Pass(x, key) = [q |-> x, a0 |-> n + 1, runs |-> 1]
<1> DEFINE start == [q |-> x, a0 |-> 1, runs |-> 0]
           done == [q |-> x, a0 |-> n + 1, runs |-> 1]
           T == {start, done}
           turn == [p \in PassState(key) |-> PassTurn(p, key)]
<1>1. Len(x) = n
  BY ListLen
<1>2. FindEndOfRun(x, 1, key) = n + 1
  <2> DEFINE e == FindEndOfRun(x, 1, key)
  <2>1. 1 \in 1..n /\ n + 1 \in 1 .. n + 1
    OBVIOUS
  <2>2. e \in 1 + 1 .. n + 1 /\ \A k \in 1 .. n + 1 : Downhill(x, 1, k, key) => k <= e
    BY <2>1, FindEndOfRunStops
  <2> HIDE DEF e
  <2>3. e = n + 1
    BY <2>1, <2>2
  <2> QED
    BY <2>3 DEF e
<1>3. PassTurn(start, key) = done /\ PassTurn(done, key) = done
  BY <1>1, <1>2 DEF PassTurn
<1>4. turn[start] = done /\ turn[done] = done
  <2>1. DOMAIN key = S /\ x \in Seq(S)
    BY ListLen
  <2>2. start \in PassState(key) /\ done \in PassState(key)
    BY <2>1 DEF PassState
  <2> QED
    BY <1>3, <2>2
<1>5. Pass(x, key) = After(turn, start, n)
  BY <1>1 DEF Pass
<1> HIDE DEF start, done, turn
<1>6. PICK f \in Runs(n, T) : Course(f, n, start, turn)
  <2>1. StaysIn(turn, T) /\ start \in T
    BY <1>4 DEF StaysIn
  <2> HIDE DEF T
  <2> QED
    BY <2>1, AfterCourse, Zenon
<1>7. n \in 1..n /\ n - 1 \in 0..n
  OBVIOUS
<1>8. f[n] = done
  <2>1. f[n] = turn[f[n-1]]
    BY <1>6, <1>7, Zenon DEF Turns, Course
  <2>2. f[n-1] \in T
    BY <1>7 DEF Runs
  <2> QED
    BY <1>4, <2>1, <2>2, Zenon
<1> QED
  BY <1>5, <1>6, <1>8 DEF Course, done

(* list_sort's loop has come to its end: one more pass over what ListSort   *)
(* returns would change nothing and count one run.                          *)
THEOREM ListSortEnds ==
  ASSUME NEW S, NEW key \in [S -> Int], NEW q \in Seq(S), q # <<>>
  PROVE  Pass(ListSort(q, key), key) = [q |-> ListSort(q, key), a0 |-> Len(q) + 1, runs |-> 1]
<1> DEFINE n == Len(q)
<1>1. n \in Nat \ {0} /\ q \in [1..n -> S]
  BY LenProperties, EmptySeq
<1> HIDE DEF n
<1>2. ListSort(q, key) \in [1..n -> S] /\ Downhill(ListSort(q, key), 1, n + 1, key)
  BY <1>1, ListSortStable
<1>3. Pass(ListSort(q, key), key) = [q |-> ListSort(q, key), a0 |-> n + 1, runs |-> 1]
  BY <1>1, <1>2, PassOverSorted
<1> QED
  BY <1>3 DEF n

(* list_sort: the sorted list has the same elements, each as often, in      *)
(* descending order.                                                        *)
THEOREM ListSortSorts ==
  ASSUME NEW S, NEW q \in Seq(S), NEW key \in [S -> Int]
  PROVE  LET r == ListSort(q, key)
         IN  /\ r \in Seq(S)
             /\ Len(r) = Len(q)
             /\ ToSet(r) = ToSet(q)
             /\ IsInjective(q) => IsInjective(r)
             /\ IsDescending(r, key)
<1>1. ListSort(q, key) = SortDescending(q, key)
  BY ListSortCorrect
<1> QED
  BY <1>1, SortDescendingCorrect

(* list_pop_front: what is left after the front is taken.                   *)
THEOREM PopFrontCorrect ==
  ASSUME NEW S, NEW q \in Seq(S), q # <<>>
  PROVE  /\ Head(q) \in S
         /\ Head(q) \in ToSet(q)
         /\ Tail(q) \in Seq(S)
         /\ ToSet(Tail(q)) \subseteq ToSet(q)
         /\ ToSet(q) = ToSet(Tail(q)) \cup {Head(q)}
         /\ IsInjective(q) => /\ IsInjective(Tail(q))
                              /\ Head(q) \notin ToSet(Tail(q))
         /\ \A key \in [S -> Int] :
              IsDescending(q, key) => /\ IsDescending(Tail(q), key)
                                      /\ \A x \in ToSet(q) : key[Head(q)] >= key[x]
<1> DEFINE n == Len(q)
           rest == Tail(q)
<1>1. /\ n \in Nat \ {0}
      /\ DOMAIN q = 1..n
      /\ Head(q) = q[1]
      /\ \A i \in 1..n : q[i] \in S
  BY LenProperties, EmptySeq
<1>2. /\ rest \in Seq(S)
      /\ Len(rest) = n - 1
      /\ \A i \in 1..n-1 : rest[i] = q[i+1]
  BY HeadTailProperties
<1>3. DOMAIN rest = 1..n-1
  BY <1>2, LenProperties
<1> HIDE DEF n, rest
<1>4. \A i \in 1..n-1 : i+1 \in 1..n /\ rest[i] = q[i+1]
  BY <1>1, <1>2
<1>5. \A i \in 1..n : i # 1 => i-1 \in 1..n-1 /\ rest[i-1] = q[i]
  BY <1>1, <1>2
<1>6. 1 \in 1..n
  BY <1>1
<1>7. ToSet(rest) \subseteq ToSet(q) /\ Head(q) \in ToSet(q)
  BY <1>1, <1>3, <1>4, <1>6 DEF ToSet
<1>8. ToSet(q) = ToSet(rest) \cup {Head(q)}
  <2>1. ASSUME NEW i \in 1..n PROVE q[i] \in ToSet(rest) \cup {Head(q)}
    BY <1>1, <1>3, <1>5 DEF ToSet
  <2>2. QED
    BY <1>1, <1>7, <2>1 DEF ToSet
<1>9. ASSUME IsInjective(q)
      PROVE  IsInjective(rest) /\ Head(q) \notin ToSet(rest)
  <2>1. \A i, j \in 1..n : q[i] = q[j] => i = j
    BY <1>1, <1>9 DEF IsInjective
  <2>2. ASSUME NEW i \in 1..n-1, NEW j \in 1..n-1, rest[i] = rest[j] PROVE i = j
    <3>1. i+1 = j+1
      BY <1>4, <2>1, <2>2
    <3>2. QED
      BY <1>1, <3>1
  <2>3. ASSUME NEW i \in 1..n-1 PROVE rest[i] # Head(q)
    <3>1. i+1 # 1
      BY <1>1
    <3>2. QED
      BY <1>1, <1>4, <1>6, <2>1, <3>1
  <2>4. QED
    BY <1>3, <2>2, <2>3 DEF IsInjective, ToSet
<1>10. ASSUME NEW key \in [S -> Int], IsDescending(q, key)
       PROVE  /\ IsDescending(rest, key)
              /\ \A x \in ToSet(q) : key[Head(q)] >= key[x]
  <2>1. \A i, j \in 1..n : i < j => key[q[i]] >= key[q[j]]
    BY <1>10 DEF IsDescending, n
  <2>2. ASSUME NEW i \in 1..n-1, NEW j \in 1..n-1, i < j
        PROVE  key[rest[i]] >= key[rest[j]]
    <3>1. i+1 < j+1
      BY <1>1, <2>2
    <3>2. QED
      BY <1>4, <2>1, <3>1
  <2>3. ASSUME NEW i \in 1..n PROVE key[q[1]] >= key[q[i]]
    BY <1>1, <1>6, <2>1
  <2>4. QED
    BY <1>1, <1>2, <2>2, <2>3 DEF IsDescending, ToSet
<1>11. QED
  BY <1>1, <1>2, <1>6, <1>7, <1>8, <1>9, <1>10 DEF rest

(***************************************************************************)
(* Context switches                                                         *)
(***************************************************************************)

(* A ready list q that agrees with the statuses st.                         *)
Queued(q, st) ==
  /\ q \in Seq(Thread)
  /\ IsInjective(q)
  /\ ToSet(q) = {t \in Thread : st[t] = "ready"}

(* The outcome of a context switch: the scheduler's state is consistent and *)
(* its list sorted, the thread on the CPU is above all on the list, and of  *)
(* the statuses st the switch began with only those of threads that could   *)
(* run have changed.                                                        *)
Dispatched(st) ==
  /\ running' \in Thread \cup {Idle}
  /\ status' \in [Thread -> Status]
  /\ Queued(readyList', status')
  /\ IsDescending(readyList', priority)
  /\ \A r \in ToSet(readyList') : running' # Idle /\ priority[running'] >= priority[r]
  /\ \A t \in Thread : status'[t] = "running" <=> running' = t
  /\ \A t \in Thread :
       \/ status'[t] = st[t]
       \/ {st[t], status'[t]} \subseteq {"ready", "running"}

(* Module Max and Min of FiniteSetsExt work on priorities.                  *)
LEMMA PriorityMax ==
  ASSUME NEW T \in SUBSET Priority, T # {}
  PROVE  Max(T) \in Priority
BY MaxNat, PriorityAssumption DEF Priority

LEMMA PriorityIsInt ==
  ASSUME NEW f \in [Thread -> Priority]
  PROVE  f \in [Thread -> Int]
BY PriorityAssumption DEF Priority

(* schedule() leaves the scheduler consistent.                              *)
LEMMA ScheduleDispatches ==
  ASSUME priority \in [Thread -> Priority],
         NEW q, NEW st \in [Thread -> Status],
         Queued(q, st),
         \A t \in Thread : st[t] # "running",
         Schedule(q, st)
  PROVE  Dispatched(st)
<1> DEFINE sorted == ListSort(q, priority)
<1>0. Idle \notin Thread
  BY ThreadAssumption
<1>1. priority \in [Thread -> Int]
  BY PriorityIsInt
<1>2. CASE q = <<>>
  <2>1. running' = Idle /\ readyList' = q /\ status' = st
    BY <1>2 DEF Schedule
  <2>2. IsDescending(q, priority) /\ ToSet(q) = {}
    BY <1>2 DEF IsDescending, ToSet
  <2>3. QED
    BY <1>0, <2>1, <2>2 DEF Dispatched, Queued
<1>3. CASE q # <<>>
  <2>1. /\ sorted \in Seq(Thread)
        /\ Len(sorted) = Len(q)
        /\ ToSet(sorted) = ToSet(q)
        /\ IsInjective(sorted)
        /\ IsDescending(sorted, priority)
    BY <1>1, ListSortSorts DEF Queued
  <2>2. /\ running' = Head(sorted)
        /\ readyList' = Tail(sorted)
        /\ status' = [st EXCEPT ![Head(sorted)] = "running"]
    BY <1>3 DEF Schedule
  <2> HIDE DEF sorted
  <2>3. sorted # <<>>
    BY <1>3, <2>1, EmptySeq DEF Queued
  <2>4. /\ Head(sorted) \in Thread
        /\ Head(sorted) \in ToSet(sorted)
        /\ Tail(sorted) \in Seq(Thread)
        /\ ToSet(sorted) = ToSet(Tail(sorted)) \cup {Head(sorted)}
        /\ IsInjective(Tail(sorted))
        /\ Head(sorted) \notin ToSet(Tail(sorted))
        /\ IsDescending(Tail(sorted), priority)
        /\ \A r \in ToSet(sorted) : priority[Head(sorted)] >= priority[r]
    BY <1>1, <2>1, <2>3, PopFrontCorrect
  <2>5. ToSet(q) = {t \in Thread : st[t] = "ready"}
    BY DEF Queued
  <2>6. status' \in [Thread -> Status]
    BY <2>2, <2>4 DEF Status
  <2>7. \A t \in Thread : status'[t] = IF t = Head(sorted) THEN "running" ELSE st[t]
    BY <2>2, <2>4
  <2>8. ToSet(Tail(sorted)) = {t \in Thread : status'[t] = "ready"}
    BY <2>1, <2>4, <2>5, <2>7
  <2>9. Queued(readyList', status') /\ IsDescending(readyList', priority)
    BY <2>1, <2>2, <2>4, <2>8 DEF Queued
  <2>10. \A r \in ToSet(readyList') : running' # Idle /\ priority[running'] >= priority[r]
    BY <1>0, <2>2, <2>4
  <2>11. \A t \in Thread :
           /\ status'[t] = "running" <=> running' = t
           /\ status'[t] = st[t] \/ {st[t], status'[t]} \subseteq {"ready", "running"}
    BY <2>1, <2>2, <2>4, <2>5, <2>7
  <2>12. QED
    BY <2>2, <2>4, <2>6, <2>9, <2>10, <2>11 DEF Dispatched
<1>4. QED
  BY <1>2, <1>3

(* thread_yield() leaves the scheduler consistent.                          *)
LEMMA YieldDispatches ==
  ASSUME priority \in [Thread -> Priority],
         running \in Thread \cup {Idle},
         NEW q, NEW st \in [Thread -> Status],
         Queued(q, st),
         \A t \in Thread : st[t] = "running" <=> running = t,
         YieldWith(q, st)
  PROVE  Dispatched(st)
<1>0. Idle \notin Thread
  BY ThreadAssumption
<1>1. CASE running = Idle
  <2>1. Schedule(q, st)
    BY <1>1 DEF YieldWith
  <2>2. \A t \in Thread : st[t] # "running"
    BY <1>0, <1>1
  <2>3. QED
    BY <2>1, <2>2, ScheduleDispatches
<1>2. CASE running # Idle
  <2> DEFINE q2 == InsertDescending(q, running, priority)
             st2 == [st EXCEPT ![running] = "ready"]
  <2>1. running \in Thread /\ Schedule(q2, st2)
    BY <1>2 DEF YieldWith
  <2>2. running \notin ToSet(q)
    BY <2>1 DEF Queued
  <2>3. /\ q2 \in Seq(Thread)
        /\ ToSet(q2) = ToSet(q) \cup {running}
        /\ IsInjective(q2)
    BY <2>1, <2>2, PriorityIsInt, InsertDescendingCorrect DEF Queued
  <2>4. /\ st2 \in [Thread -> Status]
        /\ \A t \in Thread : st2[t] = IF t = running THEN "ready" ELSE st[t]
    BY <2>1 DEF Status
  <2> HIDE DEF q2, st2
  <2>5. ToSet(q2) = {t \in Thread : st2[t] = "ready"}
    BY <2>1, <2>3, <2>4 DEF Queued
  <2>6. Queued(q2, st2) /\ \A t \in Thread : st2[t] # "running"
    BY <2>3, <2>4, <2>5 DEF Queued
  <2>7. Dispatched(st2)
    BY <2>1, <2>4, <2>6, ScheduleDispatches
  <2>8. QED
    BY <2>1, <2>4, <2>7 DEF Dispatched
<1>3. QED
  BY <1>1, <1>2
=============================================================================
