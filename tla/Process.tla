------------------------------ MODULE Process ------------------------------
(***************************************************************************)
(* User processes of the userprog project (pintos-p2): process_execute,     *)
(* start_process, process_wait and process_exit of userprog/process.c with  *)
(* the exec, wait and exit calls of userprog/syscall.c.                     *)
(*                                                                         *)
(* A parent knows its child through a child_wrapper, which outlives the     *)
(* child, and through the child's struct thread, which holds the two        *)
(* semaphores the parent downs and whose page is freed when the child dies. *)
(* This project's sema_up does not yield and its scheduler is round robin,  *)
(* so any thread that is not blocked may take the next step.                *)
(*                                                                         *)
(* A sema_down that reads a struct thread already freed either finds the    *)
(* 0xcc bytes palloc_free_multiple left, which is a positive value, or a    *)
(* page that is in use again; there the model halts, as "stale".            *)
(*                                                                         *)
(* The system call handler keeps the function it is about to call in a      *)
(* variable that is static, so that all processes share it, and interrupts  *)
(* are on: a process that is preempted before the call may find another's   *)
(* function there.  Whether it does depends on whether the compiler reads   *)
(* the variable again, so both outcomes are steps of the model.             *)
(***************************************************************************)
EXTENDS Integers, FiniteSets

CONSTANTS Proc,      \* the processes that can be created
          Root,      \* the one the kernel starts (run_task in threads/init.c)
          Status,    \* what programs pass to exit
          Killed,    \* -1
          None       \* a null pointer

ASSUME ProcAssumption ==
  /\ Root \in Proc /\ None \notin Proc \cup Int
  /\ Status \subseteq Int /\ Killed \in Int
  /\ Proc \cap Int = {}

VARIABLES pc,          \* where each process is
          arg,         \* the child its call is about
          ret,         \* what the call that is returning returns
          parent,      \* who has it on its list of children
          loaded, exited, status, waited,   \* the fields of its child_wrapper
          call_nr,     \* the call its program has asked for and not got into
          syscall,     \* the handler's static pointer, while it can be read
          loadValue, exitValue,   \* the semaphores in its struct thread
          freed,       \* its struct thread has been freed
          blocked,     \* the processes blocked in a sema_down
          lockReady,   \* lock_initialized
          halted       \* "no", or why the kernel has stopped

handlerVars == <<call_nr, syscall>>
wrapperVars == <<loaded, exited, status, waited>>
semaVars == <<loadValue, exitValue, freed, blocked>>
vars == <<pc, arg, ret, parent, handlerVars, wrapperVars, semaVars, lockReady, halted>>

(* The functions the handler calls: those of this module, and any other     *)
(* one, or a null pointer for a number it does not know.                    *)
Handlers == {"exec", "wait", "exit", "other"}

PC == {"unborn",
       "load", "announce",                 \* in start_process
       "user", "return",                   \* running; back from a call
       "called",                           \* in syscall_handler
       "execcheck", "execdown",            \* in sys_exec
       "waitdown",                         \* in process_wait
       "exit", "up", "die", "gone"}        \* in thread_exit

TypeOK ==
  /\ pc \in [Proc -> PC]
  /\ arg \in [Proc -> Proc \cup {None}]
  /\ ret \in [Proc -> Proc \cup Status \cup {Killed, None}]
  /\ parent \in [Proc -> Proc \cup {None}]
  /\ call_nr \in [Proc -> Handlers \cup {"none"}]
  /\ syscall \in Handlers \cup {"none"}
  /\ loaded \in [Proc -> {-1, 0, 1}]
  /\ exited \in [Proc -> BOOLEAN]
  /\ status \in [Proc -> Status \cup {Killed}]
  /\ waited \in [Proc -> BOOLEAN]
  /\ loadValue \in [Proc -> {0, 1}] /\ exitValue \in [Proc -> {0, 1}]
  /\ freed \in [Proc -> BOOLEAN]
  /\ blocked \subseteq Proc
  /\ lockReady \in BOOLEAN
  /\ halted \in {"no", "stale", "lock", "null"}

Init ==
  /\ pc = [p \in Proc |-> IF p = Root THEN "load" ELSE "unborn"]
  /\ arg = [p \in Proc |-> None]
  /\ ret = [p \in Proc |-> None]
  /\ parent = [p \in Proc |-> None]
  /\ call_nr = [p \in Proc |-> "none"] /\ syscall = "none"
  /\ loaded = [p \in Proc |-> 0]
  /\ exited = [p \in Proc |-> FALSE]
  /\ status = [p \in Proc |-> Killed]
  /\ waited = [p \in Proc |-> FALSE]
  /\ loadValue = [p \in Proc |-> 0] /\ exitValue = [p \in Proc |-> 0]
  /\ freed = [p \in Proc |-> FALSE]
  /\ blocked = {}
  /\ lockReady = FALSE
  /\ halted = "no"

(***************************************************************************)
(* Pieces of steps                                                          *)
(***************************************************************************)

At(p, where) == pc[p] = where /\ p \notin blocked
Go(p, where) == pc' = [pc EXCEPT ![p] = where]

Return(p, r) ==
  /\ Go(p, "return")
  /\ ret' = [ret EXCEPT ![p] = r]
  /\ arg' = [arg EXCEPT ![p] = None]

(* A mutant of Positive: off by one.                                        *)
NotNegative(value) == value >= 0

(* The condition that ends sema_down's loop.                                *)
Positive(value) == value > 0

(* A mutant of Upped: an up that is lost when nobody is blocked.            *)
UpsBlocked(value, c, where) ==
  IF \E p \in blocked : pc[p] = where /\ arg[p] = c
  THEN [value EXCEPT ![c] = @ + 1] ELSE value

(* The value after sema_up of a semaphore of c.                             *)
Upped(value, c, where) == [value EXCEPT ![c] = @ + 1]

(* The processes blocked after sema_up: c's parent is unblocked if it is    *)
(* waiting for this semaphore.                                              *)
Unblocked(c, where) == blocked \ {p \in Proc : pc[p] = where /\ arg[p] = c}

(* The program has taken the value its call returned.                       *)
BackToUser(p) ==
  /\ At(p, "return")
  /\ Go(p, "user")
  /\ ret' = [ret EXCEPT ![p] = None]
  /\ UNCHANGED <<arg, parent, handlerVars, wrapperVars, semaVars, lockReady, halted>>

(***************************************************************************)
(* syscall_handler()                                                        *)
(***************************************************************************)

(* The number of the call is read and the pointer set.                      *)
SetHandler(p, call) ==
  /\ At(p, "user")
  /\ Go(p, "called")
  /\ lockReady' = TRUE
  /\ call_nr' = [call_nr EXCEPT ![p] = call]
  /\ syscall' = call
  /\ UNCHANGED <<arg, ret, parent, wrapperVars, semaVars, halted>>

(* p gets through the pointer to a function: its own, or the one that was   *)
(* put there last.  What is left in the pointer when nobody is about to     *)
(* read it is of no account.                                                *)
Reaches(p, call) ==
  /\ At(p, "called")
  /\ call \in {call_nr[p], syscall}
  /\ call_nr' = [call_nr EXCEPT ![p] = "none"]
  /\ syscall' = IF \E q \in Proc \ {p} : pc[q] = "called" THEN syscall ELSE "none"

(* A call that touches none of this, or a number that is not known.         *)
OtherCall(p) ==
  /\ Reaches(p, "other")
  /\ Return(p, Killed)
  /\ UNCHANGED <<parent, wrapperVars, semaVars, lockReady, halted>>

(* The pointer was not null when it was tested, and is when it is called,   *)
(* for another process has made a call of no known number: page_fault()     *)
(* panics.                                                                  *)
CallNull(p) ==
  /\ At(p, "called")
  /\ call_nr[p] # "other" /\ syscall = "other"
  /\ halted' = "null"
  /\ UNCHANGED <<pc, arg, ret, parent, handlerVars, wrapperVars, semaVars, lockReady>>

(***************************************************************************)
(* exec: sys_exec(), process_execute(), thread_create()                     *)
(***************************************************************************)

(* Which name the thread created next has is of no account.                 *)
NextChild == CHOOSE c \in Proc : pc[c] = "unborn"

Exec(p, c) ==
  /\ Reaches(p, "exec")
  /\ pc[c] = "unborn" /\ c = NextChild
  /\ parent' = [parent EXCEPT ![c] = p]
  /\ arg' = [arg EXCEPT ![p] = c]
  /\ pc' = [pc EXCEPT ![p] = "execcheck", ![c] = "load"]
  /\ UNCHANGED <<ret, wrapperVars, semaVars, lockReady, halted>>

(* There is no page for the command line or for the thread.                 *)
ExecNoMemory(p) ==
  /\ Reaches(p, "exec")
  /\ Return(p, Killed)
  /\ UNCHANGED <<parent, wrapperVars, semaVars, lockReady, halted>>

(* sys_exec's test of the wrapper's loaded.                                 *)
LoadKnown(c) == loaded[c] # 0

(* The end of sys_exec.                                                     *)
ExecReturn(p) == Return(p, IF loaded[arg[p]] = -1 THEN Killed ELSE arg[p])

ExecCheck(p) ==
  /\ At(p, "execcheck")
  /\ IF LoadKnown(arg[p])
     THEN ExecReturn(p)
     ELSE Go(p, "execdown") /\ UNCHANGED <<arg, ret>>
  /\ UNCHANGED <<parent, handlerVars, wrapperVars, semaVars, lockReady, halted>>

(* sema_down of the child's load_semaphore.                                 *)
ExecDown(p) ==
  /\ At(p, "execdown")
  /\ LET c == arg[p]
     IN  \/ /\ freed[c]
            /\ ExecReturn(p)
            /\ UNCHANGED <<loadValue, blocked, halted>>
         \/ /\ freed[c]
            /\ halted' = "stale"
            /\ UNCHANGED <<pc, arg, ret, loadValue, blocked>>
         \/ /\ ~freed[c] /\ Positive(loadValue[c])
            /\ loadValue' = [loadValue EXCEPT ![c] = @ - 1]
            /\ ExecReturn(p)
            /\ UNCHANGED <<blocked, halted>>
         \/ /\ ~freed[c] /\ ~Positive(loadValue[c])
            /\ blocked' = blocked \cup {p}
            /\ UNCHANGED <<pc, arg, ret, loadValue, halted>>
  /\ UNCHANGED <<parent, handlerVars, wrapperVars, exitValue, freed, lockReady>>

(***************************************************************************)
(* start_process()                                                          *)
(***************************************************************************)

(* load() and the store of its outcome.                                     *)
Load(c) ==
  /\ At(c, "load")
  /\ \E outcome \in {-1, 1} : loaded' = [loaded EXCEPT ![c] = outcome]
  /\ Go(c, "announce")
  /\ UNCHANGED <<arg, ret, parent, handlerVars, exited, status, waited, semaVars,
                 lockReady, halted>>

Announce(c) ==
  /\ At(c, "announce")
  /\ loadValue' = Upped(loadValue, c, "execdown")
  /\ blocked' = Unblocked(c, "execdown")
  /\ Go(c, IF loaded[c] = 1 THEN "user" ELSE "exit")
  /\ UNCHANGED <<arg, ret, parent, handlerVars, wrapperVars, exitValue, freed,
                 lockReady, halted>>

(***************************************************************************)
(* wait: sys_wait(), process_wait()                                         *)
(***************************************************************************)

(* A mutant of MayWait: waitedfor is not looked at.                         *)
AnyChild(p, c) == parent[c] = p

(* The search of the children and the test of waitedfor.  (With no children *)
(* `child' is not initialized, which the compiler takes for a null.)  Only  *)
(* the parent writes these, so the test of exit_flag is in the same step.   *)
MayWait(p, c) == parent[c] = p /\ ~waited[c]

Wait(p, c) ==
  /\ Reaches(p, "wait")
  /\ \/ /\ ~MayWait(p, c)
        /\ Return(p, Killed)
        /\ UNCHANGED waited
     \/ /\ MayWait(p, c) /\ exited[c]
        /\ waited' = [waited EXCEPT ![c] = TRUE]
        /\ Return(p, status[c])
     \/ /\ MayWait(p, c) /\ ~exited[c]
        /\ waited' = [waited EXCEPT ![c] = TRUE]
        /\ arg' = [arg EXCEPT ![p] = c]
        /\ Go(p, "waitdown")
        /\ UNCHANGED ret
  /\ UNCHANGED <<parent, loaded, exited, status, semaVars, lockReady, halted>>

(* sema_down of the child's exit_semaphore and the return of its status.    *)
WaitDown(p) ==
  /\ At(p, "waitdown")
  /\ LET c == arg[p]
     IN  \/ /\ freed[c]
            /\ Return(p, status[c])
            /\ UNCHANGED <<exitValue, blocked, halted>>
         \/ /\ freed[c]
            /\ halted' = "stale"
            /\ UNCHANGED <<pc, arg, ret, exitValue, blocked>>
         \/ /\ ~freed[c] /\ Positive(exitValue[c])
            /\ exitValue' = [exitValue EXCEPT ![c] = @ - 1]
            /\ Return(p, status[c])
            /\ UNCHANGED <<blocked, halted>>
         \/ /\ ~freed[c] /\ ~Positive(exitValue[c])
            /\ blocked' = blocked \cup {p}
            /\ UNCHANGED <<pc, arg, ret, exitValue, halted>>
  /\ UNCHANGED <<parent, handlerVars, wrapperVars, loadValue, freed, lockReady>>

(***************************************************************************)
(* exit: sys_exit(), kill(), process_exit(), thread_exit()                  *)
(***************************************************************************)

Exit(p) ==
  /\ Reaches(p, "exit")
  /\ \E s \in Status : status' = [status EXCEPT ![p] = s]
  /\ Go(p, "exit")
  /\ UNCHANGED <<arg, ret, parent, loaded, exited, waited, semaVars, lockReady, halted>>

(* A page fault or another exception kills the process, or the copying of   *)
(* the call's number does; the wrapper's exitstatus stays -1.               *)
Kill(p) ==
  /\ At(p, "user")
  /\ \E inCall \in BOOLEAN : lockReady' = (lockReady \/ inCall)
  /\ Go(p, "exit")
  /\ UNCHANGED <<arg, ret, parent, handlerVars, wrapperVars, semaVars, halted>>

(* So do check_ptr and its like in a call that finds its arguments bad.     *)
KillInCall(p) ==
  /\ \E call \in Handlers : Reaches(p, call)
  /\ Go(p, "exit")
  /\ UNCHANGED <<arg, ret, parent, wrapperVars, semaVars, lockReady, halted>>

(* The executable is closed, with file_lock, and the flag is set.  Until a  *)
(* system call has been made the lock is all zeros, and lock_acquire panics *)
(* in the ASSERT of list_insert.                                            *)
SetExitFlag(p) ==
  /\ At(p, "exit")
  /\ IF lockReady
     THEN exited' = [exited EXCEPT ![p] = TRUE] /\ Go(p, "up") /\ UNCHANGED halted
     ELSE halted' = "lock" /\ UNCHANGED <<exited, pc>>
  /\ UNCHANGED <<arg, ret, parent, handlerVars, loaded, status, waited, semaVars, lockReady>>

UpExit(p) ==
  /\ At(p, "up")
  /\ exitValue' = Upped(exitValue, p, "waitdown")
  /\ blocked' = Unblocked(p, "waitdown")
  /\ Go(p, "die")
  /\ UNCHANGED <<arg, ret, parent, handlerVars, wrapperVars, loadValue, freed,
                 lockReady, halted>>

(* The last schedule(): the next thread frees this one.                     *)
Die(p) ==
  /\ At(p, "die")
  /\ freed' = [freed EXCEPT ![p] = TRUE]
  /\ Go(p, "gone")
  /\ UNCHANGED <<arg, ret, parent, handlerVars, wrapperVars, loadValue, exitValue,
                 blocked, lockReady, halted>>

(***************************************************************************)
(* The whole system                                                         *)
(***************************************************************************)

(* What a process in the kernel goes on to do.                              *)
Continues(p) ==
  \/ BackToUser(p)
  \/ \E c \in Proc : Exec(p, c) \/ Wait(p, c)
  \/ ExecNoMemory(p) \/ Exit(p) \/ OtherCall(p) \/ CallNull(p) \/ KillInCall(p)
  \/ ExecCheck(p) \/ ExecDown(p)
  \/ Load(p) \/ Announce(p)
  \/ WaitDown(p)
  \/ SetExitFlag(p) \/ UpExit(p) \/ Die(p)

UserStep(p) == Kill(p) \/ \E call \in Handlers : SetHandler(p, call)

Next == halted = "no" /\ \E p \in Proc : Continues(p) \/ UserStep(p)

Spec == Init /\ [][Next]_vars

(* The scheduler is round robin, so a process in the kernel gets on.        *)
FairSpec == Spec /\ \A p \in Proc : WF_vars(halted = "no" /\ Continues(p))

(***************************************************************************)
(* Properties                                                               *)
(***************************************************************************)

(* exec and wait keep their promises: exec reports a load that is over and  *)
(* its true outcome; wait returns a child's own status, after it has        *)
(* exited, to its parent, at most once, and -1 to everybody else.  The      *)
(* function that runs is the one the program asked for, or one that another *)
(* process has asked for since, through the pointer they share.             *)
InCall(p) ==
  CASE pc[p] \in {"execcheck", "execdown"} -> <<"exec", arg[p]>>
    [] pc[p] = "waitdown" -> <<"wait", arg[p]>>
    [] OTHER -> <<"none", None>>
Waiting(c) == \E p \in Proc : pc[p] = "waitdown" /\ arg[p] = c
PS == INSTANCE ProcessSpec WITH
        call <- [p \in Proc |-> InCall(p)],
        loaded <- [p \in Proc |-> CASE loaded[p] = 0 -> "no"
                                    [] loaded[p] = 1 -> "yes"
                                    [] OTHER -> "failed"],
        status <- [p \in Proc |-> IF exited[p] THEN status[p] ELSE Killed],
        collected <- {c \in Proc : waited[c] /\ ~Waiting(c)},
        mayRun <- [p \in Proc |-> IF pc[p] = "called" THEN {call_nr[p], syscall} ELSE {}]
ImplementsProcessSpec == PS!Spec

(* A parent sleeps only on the semaphore of a child of its own that is      *)
(* still there and has yet to up it, so no up comes before the sleep and    *)
(* is lost with it.                                                         *)
SleeperWillBeWoken ==
  \A p \in blocked :
    LET c == arg[p]
    IN  /\ parent[c] = p /\ ~freed[c]
        /\ \/ pc[p] = "execdown" /\ pc[c] \in {"load", "announce"}
           \/ pc[p] = "waitdown" /\ pc[c] \notin {"die", "gone", "unborn"}

(* exec returns, and wait returns once the child exits, unless the kernel   *)
(* has halted.                                                              *)
CallsReturn ==
  \A p \in Proc :
    (\E c \in Proc : InCall(p) = <<"exec", c>> \/ (InCall(p) = <<"wait", c>> /\ exited[c]))
      ~> InCall(p) = <<"none", None>> \/ halted # "no"

(* DESIGNDOC B1: the wrapper is there "so that when a child thread gets     *)
(* destroyed, its parent can still access some of its status": a parent     *)
(* never touches the struct thread of a child that has been destroyed.      *)
NoStaleAccess == halted # "stale"
=============================================================================
