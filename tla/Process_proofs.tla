--------------------------- MODULE Process_proofs ---------------------------
(***************************************************************************)
(* Theorems about module Process, for any number of processes: no up is     *)
(* lost, and exec and wait keep what ProcessSpec promises.                  *)
(***************************************************************************)
EXTENDS Process, TLAPS

(***************************************************************************)
(* The inductive invariant                                                  *)
(***************************************************************************)

(* What has become of a process, by its pc.                                 *)
Stages ==
  \A c \in Proc :
    /\ pc[c] = "unborn" <=> c # Root /\ parent[c] = None
    /\ loaded[c] = 0 <=> pc[c] \in {"unborn", "load"}
    /\ pc[c] \in {"unborn", "load"} \/ loaded[c] = -1 => status[c] = Killed
    /\ loaded[c] = -1 => pc[c] \in {"announce", "exit", "up", "die", "gone"}
    /\ exited[c] <=> pc[c] \in {"up", "die", "gone"}
    /\ freed[c] <=> pc[c] = "gone"
    /\ ret[c] # None <=> pc[c] = "return"

(* The pointer holds some function as long as anybody is about to read it.  *)
Pointer == \A p \in Proc : pc[p] = "called" => call_nr[p] \in Handlers /\ syscall \in Handlers

(* A semaphore is upped once, and not before its time; that of the exit is  *)
(* downed by nobody who has not waited.                                     *)
Semas ==
  \A c \in Proc :
    /\ pc[c] \in {"unborn", "load", "announce"} => loadValue[c] = 0
    /\ pc[c] \notin {"die", "gone"} => exitValue[c] = 0
    /\ pc[c] \in {"die", "gone"} /\ ~waited[c] => exitValue[c] = 1

(* A parent in a call is alone with its child: the semaphore it is about to *)
(* down has been upped if the child has come that far, and not been downed. *)
Calls ==
  \A p \in Proc :
    /\ pc[p] \in {"execcheck", "execdown", "waitdown"} => arg[p] \in Proc
    /\ pc[p] \in {"execcheck", "execdown"}
         => /\ parent[arg[p]] = p /\ pc[arg[p]] # "unborn"
            /\ loadValue[arg[p]] = IF pc[arg[p]] \in {"load", "announce"} THEN 0 ELSE 1
    /\ pc[p] = "waitdown"
         => /\ parent[arg[p]] = p /\ pc[arg[p]] # "unborn"
            /\ waited[arg[p]]
            /\ exitValue[arg[p]] = IF pc[arg[p]] \in {"die", "gone"} THEN 1 ELSE 0

IInv == TypeOK /\ Stages /\ Pointer /\ Semas /\ Calls /\ SleeperWillBeWoken

LEMMA InitIInv == Init => IInv
<1> SUFFICES ASSUME Init
             PROVE  IInv
  OBVIOUS
<1>1. TypeOK
  BY ProcAssumption DEF Init, TypeOK, PC
<1>2. Stages /\ Pointer /\ Semas /\ Calls /\ SleeperWillBeWoken
  BY ProcAssumption DEF Init, Stages, Pointer, Semas, Calls, SleeperWillBeWoken
<1> QED
  BY <1>1, <1>2 DEF IInv

LEMMA BackToUserKeepsIInv ==
  ASSUME IInv, NEW p \in Proc, BackToUser(p)
  PROVE  IInv'
<1> USE ProcAssumption DEF IInv, BackToUser, At, Go, handlerVars, wrapperVars, semaVars
<1>1. TypeOK'
  BY DEF TypeOK, PC, Stages, Calls, Semas
<1>2. Stages'
  BY DEF TypeOK, PC, Stages, Calls, SleeperWillBeWoken
<1>6. Pointer'
  BY DEF TypeOK, PC, Pointer
<1>3. Semas'
  BY DEF TypeOK, PC, Stages, Semas, Calls
<1>4. Calls'
  BY DEF TypeOK, PC, Stages, Semas, Calls
<1>5. SleeperWillBeWoken'
  BY DEF TypeOK, PC, Stages, Semas, Calls, SleeperWillBeWoken
<1> QED
  BY <1>1, <1>2, <1>3, <1>4, <1>5, <1>6

LEMMA ExecCheckKeepsIInv ==
  ASSUME IInv, NEW p \in Proc, ExecCheck(p)
  PROVE  IInv'
<1> USE ProcAssumption DEF IInv, ExecCheck, LoadKnown, ExecReturn, Return, At, Go, handlerVars, wrapperVars, semaVars
<1>1. TypeOK'
  BY DEF TypeOK, PC, Stages, Calls, Semas
<1>2. Stages'
  BY DEF TypeOK, PC, Stages, Calls, SleeperWillBeWoken
<1>6. Pointer'
  BY DEF TypeOK, PC, Pointer
<1>3. Semas'
  BY DEF TypeOK, PC, Stages, Semas, Calls
<1>4. Calls'
  BY DEF TypeOK, PC, Stages, Semas, Calls
<1>5. SleeperWillBeWoken'
  BY DEF TypeOK, PC, Stages, Semas, Calls, SleeperWillBeWoken
<1> QED
  BY <1>1, <1>2, <1>3, <1>4, <1>5, <1>6

LEMMA ExecDownKeepsIInv ==
  ASSUME IInv, NEW p \in Proc, ExecDown(p)
  PROVE  IInv'
<1> USE ProcAssumption DEF IInv, ExecDown, Positive, ExecReturn, Return, At, Go, handlerVars, wrapperVars, semaVars
<1>1. TypeOK'
  BY DEF TypeOK, PC, Stages, Calls, Semas
<1>2. Stages'
  BY DEF TypeOK, PC, Stages, Calls, SleeperWillBeWoken
<1>6. Pointer'
  BY DEF TypeOK, PC, Pointer
<1>3. Semas'
  BY DEF TypeOK, PC, Stages, Semas, Calls
<1>4. Calls'
  BY DEF TypeOK, PC, Stages, Semas, Calls
<1>5. SleeperWillBeWoken'
  BY DEF TypeOK, PC, Stages, Semas, Calls, SleeperWillBeWoken
<1> QED
  BY <1>1, <1>2, <1>3, <1>4, <1>5, <1>6

LEMMA LoadKeepsIInv ==
  ASSUME IInv, NEW p \in Proc, Load(p)
  PROVE  IInv'
<1> USE ProcAssumption DEF IInv, Load, At, Go, handlerVars, wrapperVars, semaVars
<1>1. TypeOK'
  BY DEF TypeOK, PC, Stages, Calls, Semas
<1>2. Stages'
  <2>1. PICK outcome \in {-1, 1} : loaded' = [loaded EXCEPT ![p] = outcome]
    OBVIOUS
  <2> QED
    BY <2>1 DEF TypeOK, PC, Stages, Calls, SleeperWillBeWoken
<1>6. Pointer'
  BY DEF TypeOK, PC, Pointer
<1>3. Semas'
  BY DEF TypeOK, PC, Stages, Semas, Calls
<1>4. Calls'
  BY DEF TypeOK, PC, Stages, Semas, Calls
<1>5. SleeperWillBeWoken'
  BY DEF TypeOK, PC, Stages, Semas, Calls, SleeperWillBeWoken
<1> QED
  BY <1>1, <1>2, <1>3, <1>4, <1>5, <1>6

LEMMA AnnounceKeepsIInv ==
  ASSUME IInv, NEW p \in Proc, Announce(p)
  PROVE  IInv'
<1> USE ProcAssumption DEF IInv, Announce, Upped, Unblocked, At, Go, handlerVars, wrapperVars, semaVars
<1>1. TypeOK'
  BY DEF TypeOK, PC, Stages, Calls, Semas
<1>2. Stages'
  BY DEF TypeOK, PC, Stages, Calls, SleeperWillBeWoken
<1>6. Pointer'
  BY DEF TypeOK, PC, Pointer
<1>3. Semas'
  BY DEF TypeOK, PC, Stages, Semas, Calls
<1>4. Calls'
  BY DEF TypeOK, PC, Stages, Semas, Calls
<1>5. SleeperWillBeWoken'
  BY DEF TypeOK, PC, Stages, Semas, Calls, SleeperWillBeWoken
<1> QED
  BY <1>1, <1>2, <1>3, <1>4, <1>5, <1>6

LEMMA WaitDownKeepsIInv ==
  ASSUME IInv, NEW p \in Proc, WaitDown(p)
  PROVE  IInv'
<1> USE ProcAssumption DEF IInv, WaitDown, Positive, Return, At, Go, handlerVars, wrapperVars, semaVars
<1>1. TypeOK'
  <2>1. arg[p] \in Proc /\ status[arg[p]] \in Status \cup {Killed}
    BY DEF TypeOK, Calls
  <2>2. UNCHANGED <<parent, call_nr, syscall, loaded, exited, status, waited, loadValue, freed,
                    lockReady>>
    OBVIOUS
  <2>3. /\ pc' = pc \/ pc' = [pc EXCEPT ![p] = "return"]
        /\ arg' = arg \/ arg' = [arg EXCEPT ![p] = None]
        /\ ret' = ret \/ ret' = [ret EXCEPT ![p] = status[arg[p]]]
        /\ halted' = halted \/ halted' = "stale"
        /\ blocked' = blocked \/ blocked' = blocked \cup {p}
    OBVIOUS
  <2>4. exitValue' \in [Proc -> {0, 1}]
    BY <2>1 DEF TypeOK
  <2> HIDE DEF WaitDown
  <2> QED
    BY <2>1, <2>2, <2>3, <2>4 DEF TypeOK, PC
<1>2. Stages'
  <2>1. arg[p] \in Proc /\ status[arg[p]] \in Status \cup {Killed} /\ None \notin Status \cup {Killed}
    BY DEF TypeOK, Calls
  <2> QED
    BY <2>1 DEF TypeOK, PC, Stages
<1>6. Pointer'
  BY DEF TypeOK, PC, Pointer
<1>3. Semas'
  BY DEF TypeOK, PC, Stages, Semas, Calls
<1>4. Calls'
  BY DEF TypeOK, PC, Stages, Semas, Calls
<1>5. SleeperWillBeWoken'
  BY DEF TypeOK, PC, Stages, Semas, Calls, SleeperWillBeWoken
<1> QED
  BY <1>1, <1>2, <1>3, <1>4, <1>5, <1>6

LEMMA KillKeepsIInv ==
  ASSUME IInv, NEW p \in Proc, Kill(p)
  PROVE  IInv'
<1> USE ProcAssumption DEF IInv, Kill, At, Go, handlerVars, wrapperVars, semaVars
<1>1. TypeOK'
  BY DEF TypeOK, PC, Stages, Calls, Semas
<1>2. Stages'
  BY DEF TypeOK, PC, Stages, Calls, SleeperWillBeWoken
<1>6. Pointer'
  BY DEF TypeOK, PC, Pointer
<1>3. Semas'
  BY DEF TypeOK, PC, Stages, Semas, Calls
<1>4. Calls'
  BY DEF TypeOK, PC, Stages, Semas, Calls
<1>5. SleeperWillBeWoken'
  BY DEF TypeOK, PC, Stages, Semas, Calls, SleeperWillBeWoken
<1> QED
  BY <1>1, <1>2, <1>3, <1>4, <1>5, <1>6

LEMMA SetExitFlagKeepsIInv ==
  ASSUME IInv, NEW p \in Proc, SetExitFlag(p)
  PROVE  IInv'
<1> USE ProcAssumption DEF IInv, SetExitFlag, At, Go, handlerVars, wrapperVars, semaVars
<1>1. TypeOK'
  <2>1. exited' \in [Proc -> BOOLEAN] /\ pc' \in [Proc -> PC]
    BY DEF TypeOK, PC
  <2>2. halted' \in {"no", "stale", "lock", "null"}
    BY DEF TypeOK
  <2> QED
    BY <2>1, <2>2 DEF TypeOK
<1>2. Stages'
  BY DEF TypeOK, PC, Stages, Calls, SleeperWillBeWoken
<1>6. Pointer'
  BY DEF TypeOK, PC, Pointer
<1>3. Semas'
  BY DEF TypeOK, PC, Stages, Semas, Calls
<1>4. Calls'
  BY DEF TypeOK, PC, Stages, Semas, Calls
<1>5. SleeperWillBeWoken'
  BY DEF TypeOK, PC, Stages, Semas, Calls, SleeperWillBeWoken
<1> QED
  BY <1>1, <1>2, <1>3, <1>4, <1>5, <1>6

LEMMA UpExitKeepsIInv ==
  ASSUME IInv, NEW p \in Proc, UpExit(p)
  PROVE  IInv'
<1> USE ProcAssumption DEF IInv, UpExit, Upped, Unblocked, At, Go, handlerVars, wrapperVars, semaVars
<1>1. TypeOK'
  BY DEF TypeOK, PC, Stages, Calls, Semas
<1>2. Stages'
  BY DEF TypeOK, PC, Stages, Calls, SleeperWillBeWoken
<1>6. Pointer'
  BY DEF TypeOK, PC, Pointer
<1>3. Semas'
  BY DEF TypeOK, PC, Stages, Semas, Calls
<1>4. Calls'
  BY DEF TypeOK, PC, Stages, Semas, Calls
<1>5. SleeperWillBeWoken'
  BY DEF TypeOK, PC, Stages, Semas, Calls, SleeperWillBeWoken
<1> QED
  BY <1>1, <1>2, <1>3, <1>4, <1>5, <1>6

LEMMA DieKeepsIInv ==
  ASSUME IInv, NEW p \in Proc, Die(p)
  PROVE  IInv'
<1> USE ProcAssumption DEF IInv, Die, At, Go, handlerVars, wrapperVars, semaVars
<1>1. TypeOK'
  BY DEF TypeOK, PC, Stages, Calls, Semas
<1>2. Stages'
  BY DEF TypeOK, PC, Stages, Calls, SleeperWillBeWoken
<1>6. Pointer'
  BY DEF TypeOK, PC, Pointer
<1>3. Semas'
  BY DEF TypeOK, PC, Stages, Semas, Calls
<1>4. Calls'
  BY DEF TypeOK, PC, Stages, Semas, Calls
<1>5. SleeperWillBeWoken'
  BY DEF TypeOK, PC, Stages, Semas, Calls, SleeperWillBeWoken
<1> QED
  BY <1>1, <1>2, <1>3, <1>4, <1>5, <1>6

(* What getting through the pointer leaves in it for the others.            *)
LEMMA ReachesPointer ==
  ASSUME IInv, NEW p \in Proc, NEW call, Reaches(p, call)
  PROVE  /\ pc[p] = "called" /\ p \notin blocked
         /\ call_nr' \in [Proc -> Handlers \cup {"none"}]
         /\ syscall' \in Handlers \cup {"none"}
         /\ \A q \in Proc \ {p} :
              pc[q] = "called" => call_nr'[q] = call_nr[q] /\ syscall' = syscall
BY DEF IInv, TypeOK, Reaches, At

LEMMA SetHandlerKeepsIInv ==
  ASSUME IInv, NEW p \in Proc, NEW call \in Handlers, SetHandler(p, call)
  PROVE  IInv'
<1> USE ProcAssumption DEF IInv, SetHandler, At, Go, wrapperVars, semaVars
<1>1. TypeOK'
  BY DEF TypeOK, PC, Stages, Calls, Semas
<1>2. Stages'
  BY DEF TypeOK, PC, Stages, Calls, SleeperWillBeWoken
<1>6. Pointer'
  BY DEF TypeOK, PC, Pointer
<1>3. Semas'
  BY DEF TypeOK, PC, Stages, Semas, Calls
<1>4. Calls'
  BY DEF TypeOK, PC, Stages, Semas, Calls
<1>5. SleeperWillBeWoken'
  BY DEF TypeOK, PC, Stages, Semas, Calls, SleeperWillBeWoken
<1> QED
  BY <1>1, <1>2, <1>3, <1>4, <1>5, <1>6

LEMMA CallNullKeepsIInv ==
  ASSUME IInv, NEW p \in Proc, CallNull(p)
  PROVE  IInv'
<1> USE ProcAssumption DEF IInv, CallNull, At, handlerVars, wrapperVars, semaVars
<1>1. TypeOK'
  BY DEF TypeOK, PC, Stages, Calls, Semas
<1>2. Stages'
  BY DEF TypeOK, PC, Stages, Calls, SleeperWillBeWoken
<1>6. Pointer'
  BY DEF TypeOK, PC, Pointer
<1>3. Semas'
  BY DEF TypeOK, PC, Stages, Semas, Calls
<1>4. Calls'
  BY DEF TypeOK, PC, Stages, Semas, Calls
<1>5. SleeperWillBeWoken'
  BY DEF TypeOK, PC, Stages, Semas, Calls, SleeperWillBeWoken
<1> QED
  BY <1>1, <1>2, <1>3, <1>4, <1>5, <1>6

LEMMA OtherCallKeepsIInv ==
  ASSUME IInv, NEW p \in Proc, OtherCall(p)
  PROVE  IInv'
<1> USE ProcAssumption DEF IInv, OtherCall, Return, Go, wrapperVars, semaVars
<1>0. /\ pc[p] = "called" /\ p \notin blocked
      /\ call_nr' \in [Proc -> Handlers \cup {"none"}]
      /\ syscall' \in Handlers \cup {"none"}
      /\ \A q \in Proc \ {p} :
           pc[q] = "called" => call_nr'[q] = call_nr[q] /\ syscall' = syscall
  BY ReachesPointer
<1>1. TypeOK'
  BY <1>0 DEF TypeOK, PC, Stages, Calls, Semas
<1>2. Stages'
  BY <1>0 DEF TypeOK, PC, Stages, Calls, SleeperWillBeWoken
<1>6. Pointer'
  BY <1>0 DEF TypeOK, PC, Pointer
<1>3. Semas'
  BY <1>0 DEF TypeOK, PC, Stages, Semas, Calls
<1>4. Calls'
  BY <1>0 DEF TypeOK, PC, Stages, Semas, Calls
<1>5. SleeperWillBeWoken'
  BY <1>0 DEF TypeOK, PC, Stages, Semas, Calls, SleeperWillBeWoken
<1> QED
  BY <1>1, <1>2, <1>3, <1>4, <1>5, <1>6

LEMMA ExecNoMemoryKeepsIInv ==
  ASSUME IInv, NEW p \in Proc, ExecNoMemory(p)
  PROVE  IInv'
<1> USE ProcAssumption DEF IInv, ExecNoMemory, Return, Go, wrapperVars, semaVars
<1>0. /\ pc[p] = "called" /\ p \notin blocked
      /\ call_nr' \in [Proc -> Handlers \cup {"none"}]
      /\ syscall' \in Handlers \cup {"none"}
      /\ \A q \in Proc \ {p} :
           pc[q] = "called" => call_nr'[q] = call_nr[q] /\ syscall' = syscall
  BY ReachesPointer
<1>1. TypeOK'
  BY <1>0 DEF TypeOK, PC, Stages, Calls, Semas
<1>2. Stages'
  BY <1>0 DEF TypeOK, PC, Stages, Calls, SleeperWillBeWoken
<1>6. Pointer'
  BY <1>0 DEF TypeOK, PC, Pointer
<1>3. Semas'
  BY <1>0 DEF TypeOK, PC, Stages, Semas, Calls
<1>4. Calls'
  BY <1>0 DEF TypeOK, PC, Stages, Semas, Calls
<1>5. SleeperWillBeWoken'
  BY <1>0 DEF TypeOK, PC, Stages, Semas, Calls, SleeperWillBeWoken
<1> QED
  BY <1>1, <1>2, <1>3, <1>4, <1>5, <1>6

LEMMA ExecKeepsIInv ==
  ASSUME IInv, NEW p \in Proc, NEW c \in Proc, Exec(p, c)
  PROVE  IInv'
<1> USE ProcAssumption DEF IInv, Exec, Go, wrapperVars, semaVars
<1>0. /\ pc[p] = "called" /\ p \notin blocked
      /\ call_nr' \in [Proc -> Handlers \cup {"none"}]
      /\ syscall' \in Handlers \cup {"none"}
      /\ \A q \in Proc \ {p} :
           pc[q] = "called" => call_nr'[q] = call_nr[q] /\ syscall' = syscall
  BY ReachesPointer
<1>1. TypeOK'
  BY <1>0 DEF TypeOK, PC, Stages, Calls, Semas
<1>2. Stages'
  BY <1>0 DEF TypeOK, PC, Stages, Calls, SleeperWillBeWoken
<1>6. Pointer'
  BY <1>0 DEF TypeOK, PC, Pointer
<1>3. Semas'
  BY <1>0 DEF TypeOK, PC, Stages, Semas, Calls
<1>4. Calls'
  BY <1>0 DEF TypeOK, PC, Stages, Semas, Calls
<1>5. SleeperWillBeWoken'
  BY <1>0 DEF TypeOK, PC, Stages, Semas, Calls, SleeperWillBeWoken
<1> QED
  BY <1>1, <1>2, <1>3, <1>4, <1>5, <1>6

LEMMA WaitKeepsIInv ==
  ASSUME IInv, NEW p \in Proc, NEW c \in Proc, Wait(p, c)
  PROVE  IInv'
<1> USE ProcAssumption DEF IInv, Wait, MayWait, Return, Go, wrapperVars, semaVars
<1>0. /\ pc[p] = "called" /\ p \notin blocked
      /\ call_nr' \in [Proc -> Handlers \cup {"none"}]
      /\ syscall' \in Handlers \cup {"none"}
      /\ \A q \in Proc \ {p} :
           pc[q] = "called" => call_nr'[q] = call_nr[q] /\ syscall' = syscall
  BY ReachesPointer
<1>7. status[c] \in Status \cup {Killed} /\ None \notin Status \cup {Killed}
  BY DEF TypeOK
<1>8. /\ UNCHANGED <<parent, loaded, exited, status, loadValue, exitValue, freed, blocked,
                     lockReady, halted>>
      /\ waited' = waited \/ waited' = [waited EXCEPT ![c] = TRUE]
      /\ \/ /\ pc' = [pc EXCEPT ![p] = "return"] /\ arg' = [arg EXCEPT ![p] = None]
            /\ \E r \in Status \cup {Killed} : ret' = [ret EXCEPT ![p] = r]
         \/ /\ pc' = [pc EXCEPT ![p] = "waitdown"] /\ arg' = [arg EXCEPT ![p] = c]
            /\ ret' = ret
  BY <1>7
<1>1. TypeOK'
  <2> HIDE DEF Wait
  <2>1. pc' \in [Proc -> PC] /\ arg' \in [Proc -> Proc \cup {None}]
    BY <1>8 DEF TypeOK, PC
  <2>2. ret' \in [Proc -> Proc \cup Status \cup {Killed, None}]
    BY <1>8 DEF TypeOK
  <2>3. waited' \in [Proc -> BOOLEAN]
    BY <1>8 DEF TypeOK
  <2> QED
    BY <1>0, <1>8, <2>1, <2>2, <2>3 DEF TypeOK
<1>2. Stages'
  <2> HIDE DEF Wait
  <2> QED
    BY <1>0, <1>7, <1>8 DEF TypeOK, PC, Stages
<1>6. Pointer'
  BY <1>0 DEF TypeOK, PC, Pointer
<1>3. Semas'
  BY <1>0 DEF TypeOK, PC, Stages, Semas, Calls
<1>4. Calls'
  BY <1>0 DEF TypeOK, PC, Stages, Semas, Calls
<1>5. SleeperWillBeWoken'
  BY <1>0 DEF TypeOK, PC, Stages, Semas, Calls, SleeperWillBeWoken
<1> QED
  BY <1>1, <1>2, <1>3, <1>4, <1>5, <1>6

LEMMA ExitKeepsIInv ==
  ASSUME IInv, NEW p \in Proc, Exit(p)
  PROVE  IInv'
<1> USE ProcAssumption DEF IInv, Exit, Go, wrapperVars, semaVars
<1>0. /\ pc[p] = "called" /\ p \notin blocked
      /\ call_nr' \in [Proc -> Handlers \cup {"none"}]
      /\ syscall' \in Handlers \cup {"none"}
      /\ \A q \in Proc \ {p} :
           pc[q] = "called" => call_nr'[q] = call_nr[q] /\ syscall' = syscall
  BY ReachesPointer
<1>1. TypeOK'
  <2>1. status' \in [Proc -> Status \cup {Killed}]
    BY DEF TypeOK
  <2>2. pc' \in [Proc -> PC]
    BY DEF TypeOK, PC
  <2> QED
    BY <1>0, <2>1, <2>2 DEF TypeOK
<1>2. Stages'
  BY <1>0 DEF TypeOK, PC, Stages, Calls, SleeperWillBeWoken
<1>6. Pointer'
  BY <1>0 DEF TypeOK, PC, Pointer
<1>3. Semas'
  BY <1>0 DEF TypeOK, PC, Stages, Semas, Calls
<1>4. Calls'
  BY <1>0 DEF TypeOK, PC, Stages, Semas, Calls
<1>5. SleeperWillBeWoken'
  BY <1>0 DEF TypeOK, PC, Stages, Semas, Calls, SleeperWillBeWoken
<1> QED
  BY <1>1, <1>2, <1>3, <1>4, <1>5, <1>6

LEMMA KillInCallKeepsIInv ==
  ASSUME IInv, NEW p \in Proc, KillInCall(p)
  PROVE  IInv'
<1> USE ProcAssumption DEF IInv, KillInCall, Go, wrapperVars, semaVars
<1>0. /\ pc[p] = "called" /\ p \notin blocked
      /\ call_nr' \in [Proc -> Handlers \cup {"none"}]
      /\ syscall' \in Handlers \cup {"none"}
      /\ \A q \in Proc \ {p} :
           pc[q] = "called" => call_nr'[q] = call_nr[q] /\ syscall' = syscall
  BY ReachesPointer
<1>1. TypeOK'
  BY <1>0 DEF TypeOK, PC, Stages, Calls, Semas
<1>2. Stages'
  BY <1>0 DEF TypeOK, PC, Stages, Calls, SleeperWillBeWoken
<1>6. Pointer'
  BY <1>0 DEF TypeOK, PC, Pointer
<1>3. Semas'
  BY <1>0 DEF TypeOK, PC, Stages, Semas, Calls
<1>4. Calls'
  BY <1>0 DEF TypeOK, PC, Stages, Semas, Calls
<1>5. SleeperWillBeWoken'
  BY <1>0 DEF TypeOK, PC, Stages, Semas, Calls, SleeperWillBeWoken
<1> QED
  BY <1>1, <1>2, <1>3, <1>4, <1>5, <1>6

LEMMA NextIInv == IInv /\ [Next]_vars => IInv'
<1> SUFFICES ASSUME IInv, [Next]_vars
             PROVE  IInv'
  OBVIOUS
<1>1. CASE UNCHANGED vars
  BY <1>1 DEF vars, handlerVars, wrapperVars, semaVars, IInv, TypeOK, Stages, Pointer, Semas,
              Calls, SleeperWillBeWoken
<1>2. ASSUME NEW p \in Proc, Continues(p)
      PROVE  IInv'
  BY <1>2, BackToUserKeepsIInv, ExecCheckKeepsIInv, ExecDownKeepsIInv, LoadKeepsIInv,
     AnnounceKeepsIInv, WaitDownKeepsIInv, SetExitFlagKeepsIInv, UpExitKeepsIInv, DieKeepsIInv,
     ExecKeepsIInv, WaitKeepsIInv, ExecNoMemoryKeepsIInv, ExitKeepsIInv, OtherCallKeepsIInv,
     CallNullKeepsIInv, KillInCallKeepsIInv
  DEF Continues
<1>3. ASSUME NEW p \in Proc, UserStep(p)
      PROVE  IInv'
  BY <1>3, KillKeepsIInv, SetHandlerKeepsIInv DEF UserStep
<1> QED
  BY <1>1, <1>2, <1>3 DEF Next

LEMMA SpecIInv == Spec => []IInv
BY InitIInv, NextIInv, PTL DEF Spec

(* The fields of every process and wrapper are of their types.              *)
THEOREM SpecTypeOK == Spec => []TypeOK
<1>1. IInv => TypeOK
  BY DEF IInv
<1> QED
  BY SpecIInv, <1>1, PTL

(* A parent that sleeps in process_wait or sys_exec does so on a child of   *)
(* its own that has yet to up the semaphore, however the two interleave.    *)
THEOREM SpecSleeperWillBeWoken == Spec => []SleeperWillBeWoken
<1>1. IInv => SleeperWillBeWoken
  BY DEF IInv
<1> QED
  BY SpecIInv, <1>1, PTL

(***************************************************************************)
(* The refinement                                                           *)
(***************************************************************************)

(* The state of ProcessSpec.                                                *)
CallOf   == [p \in Proc |-> InCall(p)]
LoadedOf == [p \in Proc |-> CASE loaded[p] = 0 -> "no"
                              [] loaded[p] = 1 -> "yes"
                              [] OTHER -> "failed"]
StatusOf == [p \in Proc |-> IF exited[p] THEN status[p] ELSE Killed]
Collected == {c \in Proc : waited[c] /\ ~Waiting(c)}
MayRunOf == [p \in Proc |-> IF pc[p] = "called" THEN {call_nr[p], syscall} ELSE {}]
Mapped   == <<CallOf, ret, parent, LoadedOf, exited, StatusOf, Collected, MayRunOf>>

(* Nobody has gone into the handler or through its pointer.                 *)
LEMMA SameMayRun ==
  ASSUME UNCHANGED <<call_nr, syscall>>,
         \A q \in Proc : pc'[q] = "called" <=> pc[q] = "called"
  PROVE  MayRunOf' = MayRunOf
BY DEF MayRunOf

(* Only p has gone through the pointer.                                     *)
LEMMA BeginsIs ==
  ASSUME IInv, NEW p \in Proc, NEW call, Reaches(p, call), pc'[p] # "called",
         \A q \in Proc \ {p} : pc'[q] = "called" <=> pc[q] = "called"
  PROVE  call \in MayRunOf[p] /\ MayRunOf' = [MayRunOf EXCEPT ![p] = {}]
<1>1. call \in MayRunOf[p]
  BY DEF Reaches, At, MayRunOf
<1>2. \A q \in Proc \ {p} :
        pc[q] = "called" => call_nr'[q] = call_nr[q] /\ syscall' = syscall
  BY ReachesPointer
<1>3. \A q \in Proc \ {p} : MayRunOf'[q] = MayRunOf[q]
  BY <1>2 DEF MayRunOf
<1>4. MayRunOf'[p] = {}
  BY DEF MayRunOf
<1>5. MayRunOf = [q \in Proc |-> MayRunOf[q]] /\ MayRunOf' = [q \in Proc |-> MayRunOf'[q]]
  BY DEF MayRunOf
<1> HIDE DEF MayRunOf
<1> QED
  BY <1>1, <1>3, <1>4, <1>5

(* Only p's call changes if nobody else's pc, or argument while in a call,  *)
(* does.                                                                    *)
LEMMA OneCall ==
  ASSUME NEW p \in Proc,
         \A q \in Proc \ {p} : \/ pc'[q] = pc[q] /\ arg'[q] = arg[q]
                               \/ InCall(q) = <<"none", None>> /\ InCall(q)' = <<"none", None>>
  PROVE  CallOf' = [CallOf EXCEPT ![p] = InCall(p)']
<1>1. \A q \in Proc \ {p} : InCall(q)' = InCall(q)
  BY DEF InCall
<1> QED
  BY <1>1 DEF CallOf

LEMMA LoadedIs ==
  ASSUME IInv, NEW c \in Proc
  PROVE  /\ LoadedOf[c] = "no" <=> loaded[c] = 0
         /\ LoadedOf[c] = "yes" <=> loaded[c] = 1
         /\ LoadedOf[c] = "failed" <=> loaded[c] = -1
BY DEF IInv, TypeOK, LoadedOf

(* A process that is in its program is so for ProcessSpec.                  *)
LEMMA UserIsInUser ==
  ASSUME IInv, NEW p \in Proc, pc[p] = "user"
  PROVE  PS!InUser(p)
<1>1. loaded[p] = 1 /\ ~exited[p] /\ ret[p] = None
  BY DEF IInv, TypeOK, Stages
<1>2. InCall(p) = <<"none", None>>
  BY DEF InCall
<1>3. MayRunOf[p] = {}
  BY DEF MayRunOf
<1> QED
  BY <1>1, <1>2, <1>3 DEF PS!InUser, PS!NoCall, MayRunOf

LEMMA BornIs ==
  ASSUME IInv, NEW c \in Proc
  PROVE  PS!Born(c) <=> pc[c] # "unborn"
BY DEF IInv, Stages, PS!Born

(* Who waits for c is its parent.                                           *)
LEMMA WaitingIs ==
  ASSUME IInv, NEW c \in Proc
  PROVE  Waiting(c) <=> /\ parent[c] \in Proc
                        /\ pc[parent[c]] = "waitdown" /\ arg[parent[c]] = c
BY DEF IInv, Calls, Waiting

(* Steps of which ProcessSpec sees nothing.                                 *)
LEMMA SilentStep ==
  ASSUME IInv, NEW p \in Proc,
         UNCHANGED <<arg, ret, parent, call_nr, syscall, loaded, exited, status, waited>>,
         \E w \in {"announce", "user", "exit", "up", "die", "gone"} :
           pc' = [pc EXCEPT ![p] = w],
         pc[p] \in {"announce", "user", "exit", "up", "die"}
  PROVE  UNCHANGED Mapped
<1>1. pc \in [Proc -> PC] /\ status \in [Proc -> Status \cup {Killed}]
  BY DEF IInv, TypeOK
<1>2. \A q \in Proc : InCall(q)' = InCall(q)
  BY <1>1 DEF InCall
<1>3. \A c \in Proc : Waiting(c)' <=> Waiting(c)
  BY <1>1 DEF Waiting
<1>4. MayRunOf' = MayRunOf
  BY <1>1, SameMayRun
<1> QED
  BY <1>2, <1>3, <1>4 DEF Mapped, CallOf, LoadedOf, StatusOf, Collected

(* A step that changes calls and what they return, and no process.          *)
LEMMA OnlyCalls ==
  ASSUME UNCHANGED <<loaded, exited, status>>
  PROVE  LoadedOf' = LoadedOf /\ StatusOf' = StatusOf
BY DEF LoadedOf, StatusOf

LEMMA TakeStep ==
  ASSUME IInv, NEW p \in Proc, BackToUser(p)
  PROVE  PS!Take(p)
<1>1. pc \in [Proc -> PC] /\ pc[p] = "return" /\ pc' = [pc EXCEPT ![p] = "user"]
  BY DEF IInv, TypeOK, BackToUser, At, Go
<1>2. ret[p] # None /\ ret' = [ret EXCEPT ![p] = None]
  BY <1>1 DEF IInv, Stages, BackToUser
<1>3. \A q \in Proc : InCall(q)' = InCall(q)
  BY <1>1 DEF BackToUser, InCall
<1>4. \A c \in Proc : Waiting(c)' <=> Waiting(c)
  BY <1>1 DEF BackToUser, Waiting
<1>5. CallOf' = CallOf /\ Collected' = Collected
  BY <1>3, <1>4 DEF BackToUser, CallOf, Collected, wrapperVars
<1>6. LoadedOf' = LoadedOf /\ StatusOf' = StatusOf
  BY OnlyCalls DEF BackToUser, wrapperVars
<1>7. MayRunOf' = MayRunOf
  BY <1>1, SameMayRun DEF BackToUser, handlerVars
<1> QED
  BY <1>2, <1>5, <1>6, <1>7
  DEF BackToUser, wrapperVars, PS!Take, CallOf, LoadedOf, StatusOf, Collected, MayRunOf

(* The end of a call other than a wait that ends with a status.             *)
LEMMA Returns ==
  ASSUME IInv, NEW p \in Proc, NEW r, Return(p, r), pc[p] # "waitdown",
         UNCHANGED <<parent, loaded, exited, status, waited>>
  PROVE  /\ PS!Return(p, r)
         /\ UNCHANGED <<parent, LoadedOf, exited, StatusOf, Collected>>
<1>1. /\ pc \in [Proc -> PC] /\ arg \in [Proc -> Proc \cup {None}]
      /\ pc' = [pc EXCEPT ![p] = "return"] /\ arg' = [arg EXCEPT ![p] = None]
      /\ ret' = [ret EXCEPT ![p] = r]
  BY DEF IInv, TypeOK, Return, Go
<1>2. InCall(p)' = <<"none", None>>
  BY <1>1 DEF InCall
<1>3. CallOf' = [CallOf EXCEPT ![p] = <<"none", None>>]
  BY <1>1, <1>2, OneCall
<1>4. \A c \in Proc : Waiting(c)' <=> Waiting(c)
  BY <1>1 DEF Waiting
<1>5. Collected' = Collected
  BY <1>4 DEF Collected
<1> QED
  BY <1>1, <1>3, <1>5, OnlyCalls DEF PS!Return, PS!NoCall, CallOf

LEMMA ExecReturnStep ==
  ASSUME IInv, NEW p \in Proc, pc[p] \in {"execcheck", "execdown"}, ExecReturn(p),
         loaded[arg[p]] # 0,
         UNCHANGED <<parent, call_nr, syscall, loaded, exited, status, waited>>
  PROVE  PS!ExecReturns(p, arg[p])
<1> DEFINE c == arg[p]
<1>1. c \in Proc
  BY DEF IInv, Calls
<1>2. CallOf[p] = <<"exec", c>>
  BY DEF CallOf, InCall
<1>3. LoadedOf[c] # "no" /\ (LoadedOf[c] = "yes" <=> loaded[c] # -1)
  BY <1>1, LoadedIs DEF IInv, TypeOK
<1>4. /\ PS!Return(p, IF LoadedOf[c] = "yes" THEN c ELSE Killed)
      /\ UNCHANGED <<parent, LoadedOf, exited, StatusOf, Collected>>
  BY <1>3, Returns DEF ExecReturn
<1>5. MayRunOf' = MayRunOf
  <2>1. \A q \in Proc : pc'[q] = "called" <=> pc[q] = "called"
    BY DEF ExecReturn, Return, Go, IInv, TypeOK
  <2> QED
    BY <2>1, SameMayRun
<1> QED
  BY <1>2, <1>3, <1>4, <1>5 DEF PS!ExecReturns, CallOf, LoadedOf, StatusOf, Collected, MayRunOf

(* process_wait returns the status of a child it has waited for.            *)
LEMMA WaitReturnStep ==
  ASSUME IInv, NEW p \in Proc, NEW c \in Proc, Return(p, status[c]), exited[c],
         UNCHANGED <<parent, loaded, exited, status>>,
         \/ /\ pc[p] = "waitdown" /\ c = arg[p]
            /\ UNCHANGED <<call_nr, syscall, waited>>
         \/ /\ Reaches(p, "wait") /\ MayWait(p, c)
            /\ waited' = [waited EXCEPT ![c] = TRUE]
  PROVE  PS!WaitReturns(p, c)
<1>1. /\ pc \in [Proc -> PC] /\ arg \in [Proc -> Proc \cup {None}]
      /\ waited \in [Proc -> BOOLEAN] /\ ret \in [Proc -> Proc \cup Status \cup {Killed, None}]
      /\ pc' = [pc EXCEPT ![p] = "return"] /\ arg' = [arg EXCEPT ![p] = None]
      /\ ret' = [ret EXCEPT ![p] = status[c]]
  BY DEF IInv, TypeOK, Return, Go
<1>0. (pc[p] = "waitdown" /\ c = arg[p]) \/ pc[p] = "called"
  BY DEF Reaches, At
<1>2. InCall(p)' = <<"none", None>>
  BY <1>1 DEF InCall
<1>3. CallOf' = [CallOf EXCEPT ![p] = <<"none", None>>]
  BY <1>1, <1>2, OneCall
<1>4. parent[c] = p /\ waited'[c] /\ (waited[c] <=> pc[p] = "waitdown")
  BY <1>0, <1>1 DEF IInv, Calls, MayWait, Reaches, At
<1>5. c \notin Collected
  <2>1. waited[c] => Waiting(c)
    BY <1>0, <1>4 DEF Waiting
  <2> QED
    BY <2>1 DEF Collected
<1>6. ~Waiting(c)'
  BY <1>0, <1>1, <1>4, ProcAssumption DEF Waiting, IInv, Calls
<1>7. \A d \in Proc \ {c} : (Waiting(d)' <=> Waiting(d)) /\ waited'[d] = waited[d]
  <2>1. \A d \in Proc \ {c} : waited'[d] = waited[d]
    BY <1>1
  <2>2. \A d \in Proc \ {c}, q \in Proc :
          (pc'[q] = "waitdown" /\ arg'[q] = d) <=> (pc[q] = "waitdown" /\ arg[q] = d)
    BY <1>0, <1>1
  <2> QED
    BY <2>1, <2>2 DEF Waiting
<1>8. Collected' = Collected \cup {c}
  <2>1. c \in Collected'
    BY <1>0, <1>4, <1>6 DEF Collected
  <2>2. \A d \in Proc \ {c} : d \in Collected' <=> d \in Collected
    BY <1>7 DEF Collected
  <2>3. Collected \subseteq Proc /\ Collected' \subseteq Proc
    BY DEF Collected
  <2> QED
    BY <1>0, <2>1, <2>2, <2>3
<1>9. StatusOf[c] = status[c]
  BY DEF StatusOf
<1>10. \A q \in Proc \ {p} : pc'[q] = "called" <=> pc[q] = "called"
  BY <1>1
<1>11. \/ CallOf[p] = <<"wait", c>> /\ MayRunOf' = MayRunOf
       \/ "wait" \in MayRunOf[p] /\ MayRunOf' = [MayRunOf EXCEPT ![p] = {}]
  <2>1. CASE Reaches(p, "wait")
    <3>1. pc'[p] # "called"
      BY <1>1
    <3> QED
      BY <1>10, <2>1, <3>1, BeginsIs
  <2>2. CASE pc[p] = "waitdown" /\ c = arg[p] /\ UNCHANGED <<call_nr, syscall>>
    <3>1. CallOf[p] = <<"wait", c>>
      BY <2>2 DEF CallOf, InCall
    <3>2. MayRunOf' = MayRunOf
      BY <1>1, <2>2, SameMayRun
    <3> QED
      BY <3>1, <3>2
  <2> QED
    BY <2>1, <2>2
<1> QED
  BY <1>1, <1>3, <1>4, <1>5, <1>8, <1>9, <1>11, OnlyCalls
  DEF PS!WaitReturns, PS!Return, PS!NoCall, PS!MayCollect, PS!Begins, CallOf, LoadedOf,
      StatusOf, Collected, MayRunOf

(* A step inside a call, of which ProcessSpec sees nothing.                 *)
LEMMA GoesToSleep ==
  ASSUME IInv, NEW p \in Proc,
         UNCHANGED <<arg, ret, parent, call_nr, syscall, loaded, exited, status, waited>>,
         pc' = pc \/ (pc[p] = "execcheck" /\ pc' = [pc EXCEPT ![p] = "execdown"])
  PROVE  UNCHANGED Mapped
<1>1. pc \in [Proc -> PC]
  BY DEF IInv, TypeOK
<1>2. \A q \in Proc : InCall(q)' = InCall(q)
  BY <1>1 DEF InCall
<1>3. CallOf' = CallOf
  BY <1>2 DEF CallOf
<1>4. \A d \in Proc : Waiting(d)' <=> Waiting(d)
  BY <1>1 DEF Waiting
<1>5. MayRunOf' = MayRunOf
  BY <1>1, SameMayRun
<1> QED
  BY <1>3, <1>4, <1>5, OnlyCalls DEF Mapped, Collected

(* A call of which ProcessSpec knows what it may run.                       *)
LEMMA AskStep ==
  ASSUME IInv, NEW p \in Proc, NEW call \in Handlers, SetHandler(p, call)
  PROVE  PS!Ask(p, call)
<1>1. /\ pc \in [Proc -> PC] /\ call_nr \in [Proc -> Handlers \cup {"none"}]
      /\ pc[p] = "user" /\ pc' = [pc EXCEPT ![p] = "called"]
      /\ call_nr' = [call_nr EXCEPT ![p] = call] /\ syscall' = call
      /\ UNCHANGED <<arg, ret, parent, loaded, exited, status, waited>>
  BY DEF IInv, TypeOK, SetHandler, At, Go, wrapperVars
<1>2. \A q \in Proc : InCall(q)' = InCall(q)
  BY <1>1 DEF InCall
<1>3. \A c \in Proc : Waiting(c)' <=> Waiting(c)
  BY <1>1 DEF Waiting
<1>4. CallOf' = CallOf /\ Collected' = Collected
  BY <1>1, <1>2, <1>3 DEF CallOf, Collected
<1>5. PS!InUser(p)
  BY <1>1, UserIsInUser
<1>6. MayRunOf'[p] = {call}
  BY <1>1 DEF MayRunOf
<1>7. ASSUME NEW q \in Proc \ {p}
      PROVE  /\ MayRunOf'[q] \subseteq MayRunOf[q] \cup {call}
             /\ MayRunOf'[q] = {} <=> MayRunOf[q] = {}
             /\ MayRunOf'[q] \subseteq Handlers
  <2>1. (pc'[q] = "called" <=> pc[q] = "called") /\ call_nr'[q] = call_nr[q]
    BY <1>1
  <2>2. CASE pc[q] = "called"
    <3>1. MayRunOf[q] = {call_nr[q], syscall} /\ MayRunOf'[q] = {call_nr[q], call}
      BY <1>1, <2>1, <2>2 DEF MayRunOf
    <3>2. call_nr[q] \in Handlers
      BY <2>2 DEF IInv, Pointer
    <3> QED
      BY <3>1, <3>2
  <2>3. CASE pc[q] # "called"
    <3>1. MayRunOf[q] = {} /\ MayRunOf'[q] = {}
      BY <1>1, <2>1, <2>3 DEF MayRunOf
    <3> QED
      BY <3>1
  <2> QED
    BY <2>2, <2>3
<1>8. MayRunOf' \in [Proc -> SUBSET Handlers]
  <2>1. MayRunOf' = [q \in Proc |-> MayRunOf'[q]]
    BY DEF MayRunOf
  <2>2. \A q \in Proc : MayRunOf'[q] \in SUBSET Handlers
    BY <1>6, <1>7
  <2> HIDE DEF MayRunOf
  <2> QED
    BY <2>1, <2>2
<1>9. LoadedOf' = LoadedOf /\ StatusOf' = StatusOf
  BY <1>1, OnlyCalls
<1>10. \A q \in Proc \ {p} : /\ MayRunOf'[q] \subseteq MayRunOf[q] \cup {call}
                             /\ MayRunOf'[q] = {} <=> MayRunOf[q] = {}
  BY <1>7
<1> QED
  BY <1>1, <1>4, <1>5, <1>6, <1>8, <1>9, <1>10
  DEF PS!Ask, CallOf, LoadedOf, StatusOf, Collected, MayRunOf

LEMMA ExecStep ==
  ASSUME IInv, NEW p \in Proc, NEW c \in Proc, Exec(p, c)
  PROVE  PS!CallExec(p, c)
<1>1. /\ pc \in [Proc -> PC] /\ pc[p] = "called" /\ pc[c] = "unborn" /\ p # c
      /\ arg \in [Proc -> Proc \cup {None}]
      /\ pc' = [pc EXCEPT ![p] = "execcheck", ![c] = "load"] /\ arg' = [arg EXCEPT ![p] = c]
  BY DEF IInv, TypeOK, Exec, Reaches, At
<1>2. InCall(p)' = <<"exec", c>> /\ InCall(c) = <<"none", None>> /\ InCall(c)' = <<"none", None>>
  BY <1>1 DEF InCall
<1>3. CallOf' = [CallOf EXCEPT ![p] = <<"exec", c>>]
  BY <1>1, <1>2, OneCall
<1>4. \A d \in Proc : Waiting(d)' <=> Waiting(d)
  BY <1>1 DEF Waiting
<1>5. Collected' = Collected
  BY <1>4 DEF Collected, Exec, wrapperVars
<1>6. ~PS!Born(c)
  BY <1>1, BornIs
<1>7. "exec" \in MayRunOf[p] /\ MayRunOf' = [MayRunOf EXCEPT ![p] = {}]
  BY <1>1, BeginsIs DEF Exec
<1> QED
  BY <1>3, <1>5, <1>6, <1>7, OnlyCalls
  DEF Exec, wrapperVars, PS!CallExec, PS!Begins, CallOf, LoadedOf, StatusOf, Collected, MayRunOf

LEMMA LoadStep ==
  ASSUME IInv, NEW c \in Proc, Load(c)
  PROVE  PS!Load(c)
<1> PICK outcome \in {-1, 1} : loaded' = [loaded EXCEPT ![c] = outcome]
  BY DEF Load
<1>1. /\ pc \in [Proc -> PC] /\ loaded \in [Proc -> {-1, 0, 1}] /\ pc[c] = "load"
      /\ pc' = [pc EXCEPT ![c] = "announce"]
  BY DEF IInv, TypeOK, Load, At, Go
<1>2. \A q \in Proc : InCall(q)' = InCall(q)
  BY <1>1 DEF InCall, Load
<1>3. \A d \in Proc : Waiting(d)' <=> Waiting(d)
  BY <1>1 DEF Waiting, Load
<1>4. CallOf' = CallOf /\ Collected' = Collected
  BY <1>2, <1>3 DEF CallOf, Collected, Load
<1>5. StatusOf' = StatusOf
  BY DEF StatusOf, Load
<1>6. \E o \in {"yes", "failed"} : LoadedOf' = [LoadedOf EXCEPT ![c] = o]
  <2>1. CASE outcome = 1
    <3>1. loaded'[c] = 1 /\ \A d \in Proc \ {c} : loaded'[d] = loaded[d]
      BY <1>1, <2>1
    <3>2. LoadedOf'[c] = "yes"
      BY <3>1 DEF LoadedOf
    <3>3. \A d \in Proc \ {c} : LoadedOf'[d] = LoadedOf[d]
      BY <3>1 DEF LoadedOf
    <3>4. LoadedOf' = [LoadedOf EXCEPT ![c] = "yes"]
      <4>1. LoadedOf = [d \in Proc |-> LoadedOf[d]] /\ LoadedOf' = [d \in Proc |-> LoadedOf'[d]]
        BY DEF LoadedOf
      <4> HIDE DEF LoadedOf
      <4> QED
        BY <3>2, <3>3, <4>1
    <3> QED
      BY <3>4
  <2>2. CASE outcome = -1
    <3>1. loaded'[c] = -1 /\ \A d \in Proc \ {c} : loaded'[d] = loaded[d]
      BY <1>1, <2>2
    <3>2. LoadedOf'[c] = "failed"
      BY <3>1 DEF LoadedOf
    <3>3. \A d \in Proc \ {c} : LoadedOf'[d] = LoadedOf[d]
      BY <3>1 DEF LoadedOf
    <3>4. LoadedOf' = [LoadedOf EXCEPT ![c] = "failed"]
      <4>1. LoadedOf = [d \in Proc |-> LoadedOf[d]] /\ LoadedOf' = [d \in Proc |-> LoadedOf'[d]]
        BY DEF LoadedOf
      <4> HIDE DEF LoadedOf
      <4> QED
        BY <3>2, <3>3, <4>1
    <3> QED
      BY <3>4
  <2> QED
    BY <2>1, <2>2
<1>7. PS!Born(c) /\ LoadedOf[c] = "no"
  BY <1>1, BornIs, LoadedIs DEF IInv, Stages
<1>8. MayRunOf' = MayRunOf
  BY <1>1, SameMayRun DEF Load, handlerVars
<1> QED
  BY <1>4, <1>5, <1>6, <1>7, <1>8 DEF Load, PS!Load, CallOf, LoadedOf, StatusOf, Collected, MayRunOf

LEMMA ExitStep ==
  ASSUME IInv, NEW c \in Proc, SetExitFlag(c), lockReady
  PROVE  PS!Exit(c)
<1>1. /\ pc \in [Proc -> PC] /\ exited \in [Proc -> BOOLEAN] /\ pc[c] = "exit"
      /\ status \in [Proc -> Status \cup {Killed}]
      /\ pc' = [pc EXCEPT ![c] = "up"] /\ exited' = [exited EXCEPT ![c] = TRUE]
      /\ UNCHANGED <<arg, ret, parent, call_nr, syscall, loaded, status, waited>>
  BY DEF IInv, TypeOK, SetExitFlag, At, Go, handlerVars
<1>2. \A q \in Proc : InCall(q)' = InCall(q)
  BY <1>1 DEF InCall
<1>3. \A d \in Proc : Waiting(d)' <=> Waiting(d)
  BY <1>1 DEF Waiting
<1>4. CallOf' = CallOf /\ Collected' = Collected
  BY <1>1, <1>2, <1>3 DEF CallOf, Collected
<1>5. LoadedOf' = LoadedOf
  BY <1>1 DEF LoadedOf
<1>6. ~exited[c] /\ ret[c] = None /\ loaded[c] # 0 /\ (loaded[c] = -1 => status[c] = Killed)
  BY <1>1 DEF IInv, Stages
<1>7. CallOf[c] = <<"none", None>> /\ MayRunOf[c] = {}
  BY <1>1 DEF CallOf, InCall, MayRunOf
<1>8. StatusOf' = [StatusOf EXCEPT ![c] = status[c]]
  BY <1>1 DEF StatusOf
<1>9. LoadedOf[c] # "no" /\ status[c] \in IF LoadedOf[c] = "yes" THEN Status \cup {Killed} ELSE {Killed}
  BY <1>1, <1>6, LoadedIs DEF IInv, TypeOK
<1>10. MayRunOf' = MayRunOf
  BY <1>1, SameMayRun
<1> QED
  BY <1>1, <1>4, <1>5, <1>6, <1>7, <1>8, <1>9, <1>10
  DEF PS!Exit, PS!NoCall, CallOf, LoadedOf, StatusOf, Collected, MayRunOf

(* Steps that may end a call.                                               *)
LEMMA ExecCheckStep ==
  ASSUME IInv, NEW p \in Proc, ExecCheck(p) \/ ExecDown(p)
  PROVE  PS!ExecReturns(p, arg[p]) \/ UNCHANGED Mapped
<1>1. /\ pc[p] \in {"execcheck", "execdown"}
      /\ UNCHANGED <<parent, call_nr, syscall, loaded, exited, status, waited>>
  BY DEF ExecCheck, ExecDown, At, handlerVars, wrapperVars
<1>2. arg[p] \in Proc
  BY <1>1 DEF IInv, Calls
<1>3. CASE ExecReturn(p)
  <2>1. loaded[arg[p]] # 0
    <3>1. pc[p] \in PC /\ pc'[p] = "return"
      BY <1>1, <1>3 DEF IInv, TypeOK, ExecReturn, Return, Go
    <3>2. CASE ExecCheck(p)
      BY <1>1, <3>1, <3>2 DEF ExecCheck, LoadKnown, Go, IInv, TypeOK
    <3>3. CASE ExecDown(p)
      <4>1. freed[arg[p]] \/ loadValue[arg[p]] > 0
        BY <1>1, <3>1, <3>3 DEF ExecDown, Positive
      <4>2. pc[arg[p]] = "gone" \/ pc[arg[p]] \notin {"unborn", "load", "announce"}
        BY <1>2, <4>1 DEF IInv, Stages, Semas
      <4> QED
        BY <1>2, <4>2 DEF IInv, Stages
    <3> QED
      BY <3>2, <3>3
  <2> QED
    BY <1>1, <1>3, <2>1, ExecReturnStep
<1>4. CASE ~ExecReturn(p)
  BY <1>1, <1>2, <1>4, GoesToSleep DEF ExecCheck, ExecDown, At, Go
<1> QED
  BY <1>3, <1>4

LEMMA WaitStep ==
  ASSUME IInv, NEW p \in Proc, NEW c \in Proc, Wait(p, c)
  PROVE  PS!CallWait(p, c) \/ PS!WaitReturns(p, c) \/ PS!WaitRefused(p, c)
<1>1. /\ Reaches(p, "wait") /\ UNCHANGED <<parent, loaded, exited, status>>
      /\ pc \in [Proc -> PC] /\ arg \in [Proc -> Proc \cup {None}]
      /\ waited \in [Proc -> BOOLEAN] /\ pc[p] = "called"
  BY DEF Wait, Reaches, At, IInv, TypeOK
<1>2. ASSUME pc'[p] # "called", \A q \in Proc \ {p} : pc'[q] = pc[q]
      PROVE  "wait" \in MayRunOf[p] /\ MayRunOf' = [MayRunOf EXCEPT ![p] = {}]
  BY <1>1, <1>2, BeginsIs
<1>3. CASE ~MayWait(p, c) /\ Return(p, Killed) /\ UNCHANGED waited
  <2>1. ~(parent[c] = p /\ c \notin Collected)
    BY <1>1, <1>3 DEF MayWait, Collected, Waiting, IInv, Calls
  <2>2. PS!Return(p, Killed) /\ UNCHANGED <<parent, LoadedOf, exited, StatusOf, Collected>>
    BY <1>1, <1>3, Returns
  <2>3. "wait" \in MayRunOf[p] /\ MayRunOf' = [MayRunOf EXCEPT ![p] = {}]
    BY <1>1, <1>2, <1>3 DEF Return, Go
  <2> QED
    BY <2>1, <2>2, <2>3
    DEF PS!WaitRefused, PS!MayCollect, PS!Begins, CallOf, LoadedOf, StatusOf, Collected, MayRunOf
<1>4. CASE /\ MayWait(p, c) /\ exited[c] /\ Return(p, status[c])
           /\ waited' = [waited EXCEPT ![c] = TRUE]
  BY <1>1, <1>4, WaitReturnStep
<1>5. CASE /\ MayWait(p, c) /\ waited' = [waited EXCEPT ![c] = TRUE]
           /\ arg' = [arg EXCEPT ![p] = c] /\ Go(p, "waitdown") /\ UNCHANGED ret
  <2>1. pc' = [pc EXCEPT ![p] = "waitdown"]
    BY <1>5 DEF Go
  <2>2. InCall(p)' = <<"wait", c>>
    BY <1>1, <1>5, <2>1 DEF InCall
  <2>3. CallOf' = [CallOf EXCEPT ![p] = <<"wait", c>>]
    BY <1>1, <1>5, <2>1, <2>2, OneCall
  <2>4. parent[c] = p /\ ~waited[c]
    BY <1>5 DEF MayWait
  <2>5. c \notin Collected
    BY <2>4 DEF Collected
  <2>6. \A d \in Proc : (waited'[d] /\ ~Waiting(d)') <=> (waited[d] /\ ~Waiting(d))
    <3>1. Waiting(c)'
      BY <1>1, <1>5, <2>1 DEF Waiting
    <3>2. \A d \in Proc \ {c} : (Waiting(d)' <=> Waiting(d)) /\ waited'[d] = waited[d]
      BY <1>1, <1>5, <2>1 DEF Waiting
    <3> QED
      BY <2>4, <3>1, <3>2
  <2>7. Collected' = Collected
    BY <2>6 DEF Collected
  <2>8. "wait" \in MayRunOf[p] /\ MayRunOf' = [MayRunOf EXCEPT ![p] = {}]
    BY <1>1, <1>2, <2>1
  <2>9. LoadedOf' = LoadedOf /\ StatusOf' = StatusOf
    BY <1>1, OnlyCalls
  <2> QED
    BY <1>1, <1>5, <2>3, <2>4, <2>5, <2>7, <2>8, <2>9
    DEF PS!CallWait, PS!MayCollect, PS!Begins, CallOf, LoadedOf, StatusOf, Collected, MayRunOf
<1> QED
  BY <1>3, <1>4, <1>5 DEF Wait

LEMMA WaitDownStep ==
  ASSUME IInv, NEW p \in Proc, WaitDown(p)
  PROVE  (\E c \in Proc : PS!WaitReturns(p, c)) \/ UNCHANGED Mapped
<1> PICK c \in Proc : c = arg[p]
  BY DEF WaitDown, At, IInv, Calls
<1>1. /\ pc[p] = "waitdown"
      /\ UNCHANGED <<parent, call_nr, syscall, loaded, exited, status, waited>>
  BY DEF WaitDown, At, handlerVars, wrapperVars
<1>2. CASE Return(p, status[c])
  <2>1. exited[c]
    <3>1. freed[c] \/ exitValue[c] > 0 \/ UNCHANGED pc
      BY DEF WaitDown, Positive
    <3>2. pc' # pc
      BY <1>1, <1>2 DEF Return, Go, IInv, TypeOK
    <3> QED
      BY <1>1, <3>1, <3>2 DEF IInv, Stages, Semas
  <2>2. PS!WaitReturns(p, c)
    BY <1>1, <1>2, <2>1, WaitReturnStep
  <2> QED
    BY <2>2
<1>3. CASE ~Return(p, status[c])
  <2>1. UNCHANGED <<pc, arg, ret>>
    BY <1>3 DEF WaitDown
  <2> QED
    BY <1>1, <2>1, GoesToSleep
<1> QED
  BY <1>2, <1>3

LEMMA OtherReturnsStep ==
  ASSUME IInv, NEW p \in Proc, ExecNoMemory(p) \/ OtherCall(p)
  PROVE  PS!OtherReturns(p)
<1>1. /\ Reaches(p, "exec") \/ Reaches(p, "other")
      /\ Return(p, Killed) /\ UNCHANGED <<parent, loaded, exited, status, waited>>
      /\ pc[p] = "called" /\ pc \in [Proc -> PC]
  BY DEF ExecNoMemory, OtherCall, Reaches, At, wrapperVars, IInv, TypeOK
<1>2. PS!Return(p, Killed) /\ UNCHANGED <<parent, LoadedOf, exited, StatusOf, Collected>>
  BY <1>1, Returns
<1>3. pc'[p] # "called" /\ \A q \in Proc \ {p} : pc'[q] = pc[q]
  BY <1>1 DEF Return, Go
<1>4. /\ "exec" \in MayRunOf[p] \/ "other" \in MayRunOf[p]
      /\ MayRunOf' = [MayRunOf EXCEPT ![p] = {}]
  BY <1>1, <1>3, BeginsIs
<1> QED
  BY <1>2, <1>4
  DEF PS!OtherReturns, PS!Begins, CallOf, LoadedOf, StatusOf, Collected, MayRunOf

(* A call that does not return is not seen as an exit before the flag is    *)
(* set.                                                                     *)
LEMMA LeaveStep ==
  ASSUME IInv, NEW p \in Proc, Exit(p) \/ KillInCall(p)
  PROVE  PS!Leave(p)
<1>1. /\ pc[p] = "called" /\ pc' = [pc EXCEPT ![p] = "exit"] /\ pc \in [Proc -> PC]
      /\ UNCHANGED <<arg, ret, parent, loaded, exited, waited>>
      /\ status' = status \/ \E s \in Status : status' = [status EXCEPT ![p] = s]
      /\ status \in [Proc -> Status \cup {Killed}]
  BY DEF Exit, KillInCall, Reaches, At, Go, wrapperVars, IInv, TypeOK
<1>2. PICK call \in Handlers : Reaches(p, call)
  BY DEF Exit, KillInCall, Handlers
<1>3. ~exited[p]
  BY <1>1 DEF IInv, Stages
<1>4. \A q \in Proc : InCall(q)' = InCall(q)
  BY <1>1 DEF InCall
<1>5. \A c \in Proc : Waiting(c)' <=> Waiting(c)
  BY <1>1 DEF Waiting
<1>6. \A q \in Proc : exited[q] => status'[q] = status[q]
  BY <1>1, <1>3
<1>7. UNCHANGED <<CallOf, LoadedOf, StatusOf, Collected>>
  BY <1>1, <1>4, <1>5, <1>6 DEF CallOf, LoadedOf, StatusOf, Collected
<1>8. call \in MayRunOf[p] /\ MayRunOf' = [MayRunOf EXCEPT ![p] = {}]
  <2>1. pc'[p] # "called" /\ \A q \in Proc \ {p} : pc'[q] = pc[q]
    BY <1>1
  <2> QED
    BY <1>2, <2>1, BeginsIs
<1> QED
  BY <1>1, <1>7, <1>8
  DEF PS!Leave, PS!Begins, CallOf, LoadedOf, StatusOf, Collected, MayRunOf

LEMMA SilentSteps ==
  ASSUME IInv, NEW p \in Proc,
         \/ Announce(p) \/ UpExit(p) \/ Die(p) \/ Kill(p) \/ CallNull(p)
         \/ SetExitFlag(p) /\ ~lockReady
  PROVE  UNCHANGED Mapped
<1>1. CASE CallNull(p) \/ (SetExitFlag(p) /\ ~lockReady)
  <2>1. UNCHANGED <<pc, arg, ret, parent, call_nr, syscall, loaded, exited, status, waited>>
    BY <1>1 DEF CallNull, SetExitFlag, handlerVars, wrapperVars
  <2> QED
    BY <2>1 DEF Mapped, CallOf, InCall, LoadedOf, StatusOf, Collected, Waiting, MayRunOf
<1>2. CASE UpExit(p)
  <2>1. /\ pc[p] = "up" /\ pc' = [pc EXCEPT ![p] = "die"]
        /\ UNCHANGED <<arg, ret, parent, call_nr, syscall, loaded, exited, status, waited>>
    BY <1>2 DEF UpExit, At, Go, handlerVars, wrapperVars
  <2> QED
    BY <2>1, SilentStep
<1>3. CASE Die(p)
  <2>1. /\ pc[p] = "die" /\ pc' = [pc EXCEPT ![p] = "gone"]
        /\ UNCHANGED <<arg, ret, parent, call_nr, syscall, loaded, exited, status, waited>>
    BY <1>3 DEF Die, At, Go, handlerVars, wrapperVars
  <2> QED
    BY <2>1, SilentStep
<1>4. CASE Kill(p)
  <2>1. /\ pc[p] = "user" /\ pc' = [pc EXCEPT ![p] = "exit"]
        /\ UNCHANGED <<arg, ret, parent, call_nr, syscall, loaded, exited, status, waited>>
    BY <1>4 DEF Kill, At, Go, handlerVars, wrapperVars
  <2> QED
    BY <2>1, SilentStep
<1>5. CASE Announce(p)
  <2>1. PICK w \in {"user", "exit"} : pc' = [pc EXCEPT ![p] = w]
    BY <1>5 DEF Announce, Go
  <2>2. /\ pc[p] = "announce"
        /\ UNCHANGED <<arg, ret, parent, call_nr, syscall, loaded, exited, status, waited>>
    BY <1>5 DEF Announce, At, handlerVars, wrapperVars
  <2> QED
    BY <2>1, <2>2, SilentStep
<1> QED
  BY <1>1, <1>2, <1>3, <1>4, <1>5

(* exec reports a load that is over, and its outcome; wait returns a        *)
(* child's own status, after its exit, to its parent, once.  The function   *)
(* that a call runs is the one the program asked for or, since the pointer  *)
(* is shared, one that another process has asked for before it has begun.   *)
THEOREM SpecImplementsProcessSpec == Spec => ImplementsProcessSpec
<1>1. Init => PS!Init
  <2> SUFFICES ASSUME Init
               PROVE  PS!Init
    OBVIOUS
  <2>1. /\ \A p \in Proc : InCall(p) = <<"none", None>>
        /\ \A p \in Proc : loaded[p] = 0 /\ ~exited[p] /\ ~waited[p]
    BY DEF Init, InCall
  <2>3. \A p \in Proc : pc[p] # "called"
    BY DEF Init
  <2>2. /\ CallOf = [p \in Proc |-> <<"none", None>>]
        /\ LoadedOf = [p \in Proc |-> "no"]
        /\ StatusOf = [p \in Proc |-> Killed]
        /\ Collected = {}
        /\ MayRunOf = [p \in Proc |-> {}]
    BY <2>1, <2>3 DEF CallOf, LoadedOf, StatusOf, Collected, MayRunOf
  <2> QED
    BY <2>2 DEF Init, PS!Init, PS!NoCall, CallOf, LoadedOf, StatusOf, Collected, MayRunOf
<1>2. ASSUME IInv, [Next]_vars
      PROVE  PS!Next \/ UNCHANGED Mapped
  <2>1. CASE UNCHANGED vars
    BY <2>1 DEF vars, handlerVars, wrapperVars, Mapped, CallOf, InCall, LoadedOf, StatusOf,
                Collected, Waiting, MayRunOf
  <2>2. ASSUME NEW p \in Proc, Continues(p)
        PROVE  PS!Next \/ UNCHANGED Mapped
    <3>1. ASSUME ExecCheck(p) \/ ExecDown(p)
          PROVE  PS!Next \/ UNCHANGED Mapped
      <4>1. arg[p] \in Proc
        BY <1>2, <3>1 DEF IInv, Calls, ExecCheck, ExecDown, At
      <4>2. PS!ExecReturns(p, arg[p]) \/ UNCHANGED Mapped
        BY <1>2, <3>1, ExecCheckStep
      <4>3. (\E c \in Proc : PS!ExecReturns(p, c)) \/ UNCHANGED Mapped
        BY <4>1, <4>2
      <4>4. (\E c \in Proc : PS!ExecReturns(p, c)) => PS!Next
        BY DEF PS!Next
      <4> QED
        BY <4>3, <4>4
    <3>2. ASSUME WaitDown(p)
          PROVE  PS!Next \/ UNCHANGED Mapped
      <4>3. (\E c \in Proc : PS!WaitReturns(p, c)) \/ UNCHANGED Mapped
        BY <1>2, <3>2, WaitDownStep
      <4>4. (\E c \in Proc : PS!WaitReturns(p, c)) => PS!Next
        BY DEF PS!Next
      <4> QED
        BY <4>3, <4>4
    <3>3. ASSUME NEW c \in Proc, Exec(p, c) \/ Wait(p, c)
          PROVE  PS!Next
      <4>1. \/ PS!CallExec(p, c) \/ PS!CallWait(p, c)
            \/ PS!WaitReturns(p, c) \/ PS!WaitRefused(p, c)
        BY <1>2, <3>3, ExecStep, WaitStep
      <4> QED
        BY <4>1 DEF PS!Next
    <3>4. ASSUME \/ BackToUser(p) \/ Load(p) \/ (SetExitFlag(p) /\ lockReady)
                 \/ ExecNoMemory(p) \/ OtherCall(p) \/ Exit(p) \/ KillInCall(p)
          PROVE  PS!Next
      <4>1. PS!Take(p) \/ PS!Load(p) \/ PS!Exit(p) \/ PS!OtherReturns(p) \/ PS!Leave(p)
        BY <1>2, <3>4, TakeStep, LoadStep, ExitStep, OtherReturnsStep, LeaveStep
      <4> QED
        BY <4>1 DEF PS!Next
    <3>5. ASSUME \/ Announce(p) \/ UpExit(p) \/ Die(p) \/ CallNull(p)
                 \/ SetExitFlag(p) /\ ~lockReady
          PROVE  UNCHANGED Mapped
      BY <1>2, <3>5, SilentSteps
    <3> QED
      BY <2>2, <3>1, <3>2, <3>3, <3>4, <3>5 DEF Continues
  <2>3. ASSUME NEW p \in Proc, UserStep(p)
        PROVE  PS!Next \/ UNCHANGED Mapped
    <3>1. ASSUME NEW call \in Handlers, SetHandler(p, call)
          PROVE  PS!Next
      <4>1. PS!Ask(p, call)
        BY <1>2, <3>1, AskStep
      <4> QED
        BY <4>1 DEF PS!Next
    <3>2. Kill(p) => UNCHANGED Mapped
      BY <1>2, SilentSteps
    <3> QED
      BY <2>3, <3>1, <3>2 DEF UserStep
  <2> QED
    BY <1>2, <2>1, <2>2, <2>3 DEF Next
<1>3. ImplementsProcessSpec <=> PS!Init /\ [][PS!Next]_Mapped
  BY DEF ImplementsProcessSpec, PS!Spec, PS!vars, Mapped, CallOf, LoadedOf, StatusOf, Collected,
         MayRunOf
<1> QED
  BY <1>1, <1>2, <1>3, SpecIInv, PTL DEF Spec

=============================================================================
