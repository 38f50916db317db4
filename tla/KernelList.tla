----------------------------- MODULE KernelList -----------------------------
(***************************************************************************)
(* The operations of lib/kernel/list.c that the thread system uses, on      *)
(* sequences: the front of the list is the head of the sequence.            *)
(*                                                                         *)
(* Every comparison function the kernel passes orders elements by an        *)
(* integer member of the structure around the list element (a thread's      *)
(* priority, a waiter's recorded priority, a wakeup time), so the           *)
(* operators take that member as a function `key' of the element.  The      *)
(* "descending" operators use sort_by_priority (a before b iff              *)
(* key[a] > key[b]), the "ascending" ones first_wakeup_from_l_elem.         *)
(***************************************************************************)
EXTENDS Integers, FiniteSets, SequencesExt

(* A mutant of InsertDescending: e goes in front of its equals.             *)
InsertBeforeEquals(q, e, key) ==
  LET notLarger == {i \in 1..Len(q) : key[q[i]] <= key[e]}
  IN  IF notLarger = {} THEN Append(q, e) ELSE InsertAt(q, Min(notLarger), e)

(* list_insert_ordered with a "greater than" comparison: e goes in front    *)
(* of the first element that is strictly smaller, or last.                  *)
InsertDescending(q, e, key) ==
  LET smaller == {i \in 1..Len(q) : key[q[i]] < key[e]}
  IN  IF smaller = {} THEN Append(q, e) ELSE InsertAt(q, Min(smaller), e)

(* A mutant of InsertAscending: list_push_back.                             *)
PushBack(q, e, key) == Append(q, e)

(* list_insert_ordered with a "less than" comparison.                       *)
InsertAscending(q, e, key) ==
  LET larger == {i \in 1..Len(q) : key[q[i]] > key[e]}
  IN  IF larger = {} THEN Append(q, e) ELSE InsertAt(q, Min(larger), e)

(***************************************************************************)
(* list_sort with a "greater than" comparison.  Each of its loops makes a   *)
(* number of turns F from a state a; a turn after the loop's end changes    *)
(* nothing, and no loop makes more than Len(q) turns.                       *)
(***************************************************************************)
After(F, a, turns) ==
  LET state[k \in 0..turns] == IF k = 0 THEN a ELSE F[state[k-1]]
  IN  state[turns]

(* find_end_of_run, from the element at a up to the end of the list.        *)
FindEndOfRun(q, a, key) ==
  Min({Len(q) + 1} \cup {j \in a + 1 .. Len(q) : key[q[j]] > key[q[j - 1]]})

(* list_splice of the element at b to the front of the one at a.            *)
Spliced(q, a, b) ==
  [i \in 1..Len(q) |-> IF i = a THEN q[b] ELSE IF i \in a + 1 .. b THEN q[i - 1] ELSE q[i]]

(* A turn of inplace_merge: the first run has its elements from a0 on left, *)
(* the second those from a1b0 to before b1.                                 *)
MergeTurn(m, b1, key) ==
  IF m.a0 = m.a1b0 \/ m.a1b0 = b1 THEN m
  ELSE IF key[m.q[m.a1b0]] <= key[m.q[m.a0]]
  THEN [q |-> m.q, a0 |-> m.a0 + 1, a1b0 |-> m.a1b0]
  ELSE [q |-> Spliced(m.q, m.a0, m.a1b0), a0 |-> m.a0 + 1, a1b0 |-> m.a1b0 + 1]

InplaceMerge(q, a0, a1b0, b1, key) ==
  LET turn == [m \in [q : Seq(DOMAIN key), a0 : Nat, a1b0 : Nat] |-> MergeTurn(m, b1, key)]
  IN  After(turn, [q |-> q, a0 |-> a0, a1b0 |-> a1b0], Len(q)).q

(* A turn of a pass: the two runs from a0 on are merged, if there are two.  *)
PassTurn(p, key) ==
  LET end  == Len(p.q) + 1
      a1b0 == FindEndOfRun(p.q, p.a0, key)
      b1   == FindEndOfRun(p.q, a1b0, key)
  IN  IF p.a0 = end THEN p
      ELSE IF a1b0 = end THEN [q |-> p.q, a0 |-> end, runs |-> p.runs + 1]
      ELSE [q |-> InplaceMerge(p.q, p.a0, a1b0, b1, key), a0 |-> b1, runs |-> p.runs + 1]

(* What a pass has sorted so far, where it is, and the runs it has put out. *)
PassState(key) == [q : Seq(DOMAIN key), a0 : Nat, runs : Nat]

Pass(q, key) ==
  LET turn == [p \in PassState(key) |-> PassTurn(p, key)]
  IN  After(turn, [q |-> q, a0 |-> 1, runs |-> 0], Len(q))

(* The next pass, if the last one put out more than one run.                *)
SortTurn(p, key) == IF p.runs > 1 THEN Pass(p.q, key) ELSE p

(* The first pass is made in any case.                                      *)
ListSort(q, key) ==
  LET turn == [p \in PassState(key) |-> SortTurn(p, key)]
  IN  After(turn, [q |-> q, a0 |-> 1, runs |-> 2], Len(q)).q

(* The positions of q that a stable descending sort puts at or before       *)
(* position i's element.                                                    *)
AtOrBefore(q, i, key) ==
  {j \in 1..Len(q) : \/ key[q[j]] > key[q[i]]
                     \/ key[q[j]] = key[q[i]] /\ j <= i}

(* The place of position i's element in the sorted list.                    *)
Rank(q, i, key) == Cardinality(AtOrBefore(q, i, key))

(* What list_sort has to return: the elements by key, equals in the order   *)
(* they had.                                                                *)
SortDescending(q, key) ==
  [k \in 1..Len(q) |-> q[CHOOSE i \in 1..Len(q) : Rank(q, i, key) = k]]

(* The list is in the order that list_insert_ordered presumes.              *)
IsDescending(q, key) == \A i, j \in 1..Len(q) : i < j => key[q[i]] >= key[q[j]]
IsAscending(q, key)  == \A i, j \in 1..Len(q) : i < j => key[q[i]] <= key[q[j]]
=============================================================================
