------------------------------ MODULE LockSpec ------------------------------
(***************************************************************************)
(* What a lock promises its users (the comment of lock_init in synch.c):    *)
(* "A lock can be held by at most a single thread at any given time".  It   *)
(* changes hands by way of nobody; that it is the owner who releases it is  *)
(* a rule for the users.                                                    *)
(***************************************************************************)
CONSTANTS Thread, Lock, None

VARIABLE owner   \* who owns each lock

Init == owner = [l \in Lock |-> None]

(* lock_acquire() or lock_try_acquire() succeeds.                           *)
Acquire(t, l) ==
  /\ owner[l] = None
  /\ owner' = [owner EXCEPT ![l] = t]

(* lock_release()                                                           *)
Release(t, l) ==
  /\ owner[l] = t
  /\ owner' = [owner EXCEPT ![l] = None]

Next == \E t \in Thread, l \in Lock : Acquire(t, l) \/ Release(t, l)

Spec == Init /\ [][Next]_owner
=============================================================================
