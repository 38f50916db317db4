---------------------------- MODULE ProcessSpec ----------------------------
(***************************************************************************)
(* What exec, wait and exit promise user programs (the comments of          *)
(* process_execute and process_wait, and DESIGNDOC B5 and B7): exec returns *)
(* after the child has loaded and says whether it did; wait returns the     *)
(* child's exit status, after it has exited, to its parent, once.           *)
(*                                                                         *)
(* Which of them a program gets is promised less firmly: the one it asked   *)
(* for, or one that another process asks for before it has begun.           *)
(***************************************************************************)
CONSTANTS Proc, Root, Status, Killed, None, Handlers

VARIABLES call,       \* the call each process is in, and the child it is about
          ret,        \* what the call that has just ended returned
          parent,     \* who created each process
          loaded,     \* "no", "yes" or "failed"
          exited,     \* whether it has exited
          status,     \* with which status
          collected,  \* the children whose status wait has returned
          mayRun      \* the functions that a call which has been made may run

vars == <<call, ret, parent, loaded, exited, status, collected, mayRun>>

NoCall == <<"none", None>>

Init ==
  /\ call = [p \in Proc |-> NoCall]
  /\ ret = [p \in Proc |-> None]
  /\ parent = [p \in Proc |-> None]
  /\ loaded = [p \in Proc |-> "no"]
  /\ exited = [p \in Proc |-> FALSE]
  /\ status = [p \in Proc |-> Killed]
  /\ collected = {}
  /\ mayRun = [p \in Proc |-> {}]

InUser(p) ==
  /\ loaded[p] = "yes" /\ ~exited[p]
  /\ call[p] = NoCall /\ ret[p] = None /\ mayRun[p] = {}
Born(p) == p = Root \/ parent[p] # None

Return(p, r) ==
  /\ call' = [call EXCEPT ![p] = NoCall]
  /\ ret' = [ret EXCEPT ![p] = r]

(* The program takes the value its call returned.                           *)
Take(p) ==
  /\ ret[p] # None
  /\ ret' = [ret EXCEPT ![p] = None]
  /\ UNCHANGED <<call, parent, loaded, exited, status, collected, mayRun>>

(* A call may run what it asks for; to those already made it adds that.     *)
Ask(p, what) ==
  /\ InUser(p)
  /\ mayRun' \in [Proc -> SUBSET Handlers]
  /\ mayRun'[p] = {what}
  /\ \A q \in Proc \ {p} :
       /\ mayRun'[q] \subseteq mayRun[q] \cup {what}
       /\ mayRun'[q] = {} <=> mayRun[q] = {}
  /\ UNCHANGED <<call, ret, parent, loaded, exited, status, collected>>

Begins(p, what) ==
  /\ what \in mayRun[p]
  /\ mayRun' = [mayRun EXCEPT ![p] = {}]

CallExec(p, c) ==
  /\ Begins(p, "exec")
  /\ ~Born(c)
  /\ parent' = [parent EXCEPT ![c] = p]
  /\ call' = [call EXCEPT ![p] = <<"exec", c>>]
  /\ UNCHANGED <<ret, loaded, exited, status, collected>>

(* There is no memory for another process, or the call is one of those that *)
(* are of no concern here.                                                  *)
OtherReturns(p) ==
  /\ Begins(p, "exec") \/ Begins(p, "other")
  /\ Return(p, Killed)
  /\ UNCHANGED <<parent, loaded, exited, status, collected>>

Load(c) ==
  /\ Born(c) /\ loaded[c] = "no"
  /\ \E outcome \in {"yes", "failed"} : loaded' = [loaded EXCEPT ![c] = outcome]
  /\ UNCHANGED <<call, ret, parent, exited, status, collected, mayRun>>

ExecReturns(p, c) ==
  /\ call[p] = <<"exec", c>>
  /\ loaded[c] # "no"
  /\ Return(p, IF loaded[c] = "yes" THEN c ELSE Killed)
  /\ UNCHANGED <<parent, loaded, exited, status, collected, mayRun>>

MayCollect(p, c) == parent[c] = p /\ c \notin collected

CallWait(p, c) ==
  /\ Begins(p, "wait")
  /\ MayCollect(p, c)
  /\ call' = [call EXCEPT ![p] = <<"wait", c>>]
  /\ UNCHANGED <<ret, parent, loaded, exited, status, collected>>

(* Of a child that has exited already wait returns the status at once.      *)
WaitReturns(p, c) ==
  /\ \/ call[p] = <<"wait", c>> /\ UNCHANGED mayRun
     \/ Begins(p, "wait")
  /\ MayCollect(p, c) /\ exited[c]
  /\ collected' = collected \cup {c}
  /\ Return(p, status[c])
  /\ UNCHANGED <<parent, loaded, exited, status>>

(* Not a child, or one already waited for: -1, without waiting.             *)
WaitRefused(p, c) ==
  /\ Begins(p, "wait")
  /\ ~MayCollect(p, c)
  /\ Return(p, Killed)
  /\ UNCHANGED <<parent, loaded, exited, status, collected>>

(* A call that does not return: exit, or one with bad arguments.            *)
Leave(p) ==
  /\ \E what \in Handlers : Begins(p, what)
  /\ UNCHANGED <<call, ret, parent, loaded, exited, status, collected>>

(* A process that did not load, or is killed, has the status -1.            *)
Exit(c) ==
  /\ loaded[c] # "no" /\ ~exited[c]
  /\ call[c] = NoCall /\ ret[c] = None /\ mayRun[c] = {}
  /\ exited' = [exited EXCEPT ![c] = TRUE]
  /\ \E s \in (IF loaded[c] = "yes" THEN Status \cup {Killed} ELSE {Killed}) :
       status' = [status EXCEPT ![c] = s]
  /\ UNCHANGED <<call, ret, parent, loaded, collected, mayRun>>

Next ==
  \E p \in Proc :
    \/ Take(p) \/ OtherReturns(p) \/ Load(p) \/ Leave(p) \/ Exit(p)
    \/ \E what \in Handlers : Ask(p, what)
    \/ \E c \in Proc : \/ CallExec(p, c)
                       \/ ExecReturns(p, c)
                       \/ CallWait(p, c)
                       \/ WaitReturns(p, c)
                       \/ WaitRefused(p, c)

Spec == Init /\ [][Next]_vars
=============================================================================
