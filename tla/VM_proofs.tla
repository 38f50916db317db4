----------------------------- MODULE VM_proofs -----------------------------
(***************************************************************************)
(* Theorems about module VM, for any number of processes, pages, frames and *)
(* swap slots.                                                              *)
(***************************************************************************)
EXTENDS VM, FiniteSetTheorems, TLAPS

(***************************************************************************)
(* The inductive invariant                                                  *)
(***************************************************************************)

(* Where a process is in frame_alloc_and_lock(), with scan_lock held.       *)
Evicting == {"out", "clear", "free"}
Scanning == Evicting \cup {"scan", "after"}
(* Where it has a frame to go back to, and where it holds that frame's lock *)
(* whatever its page does.                                                  *)
Pinning == {"pinned", "transfer", "unlock"}
HasLock == Evicting \cup Pinning \cup {"recheck", "fill", "reading", "filled"}

(* What a process does, by its pc.                                          *)
Stage(t) ==
  /\ arg[t] = None <=> pc[t] \in {"user", "exit", "destroy", "gone"}
  /\ arg[t] # None => Owner[arg[t]] = t
  /\ op[t] = "none" <=> pc[t] \in {"user", "exit", "gone"}
  /\ op[t] = "remove" <=> pc[t] \in {"remove", "name"}
  /\ op[t] = "exit" =>
       scanLock # t /\ pc[t] \in {"destroy", "lock", "acquire", "recheck", "locked"}
  /\ pc[t] = "destroy" => op[t] = "exit"
  /\ op[t] = "stack" =>
       /\ arg[t] = Stack[t]
       /\ pc[t] \in Scanning \cup {"alloc", "acquire", "recheck", "fill"}
       /\ pc[t] \in {"acquire", "recheck"} => scanLock = t
  /\ pc[t] \in {"reading", "filled"} => op[t] \in {"fault", "call"}
  /\ pc[t] \in Pinning => op[t] = "call"
  /\ pc[t] \in HasLock \cup {"acquire", "after"} => frm[t] \in Frame
  /\ pc[t] = "scan" => frm[t] \in 1 .. Frames + 1
  /\ vic[t] # None <=> pc[t] \in Evicting \cup {"after"}

(* A page and its frame refer to each other.                                *)
Links == \A p \in Page, f \in Frame : frameOf[p] = f <=> pageIn[f] = p

(* The frame setup_stack() has left locked: t does not get over the ASSERT  *)
(* it meets when it wants the lock again, and has no other frame.           *)
Kept(t, f) ==
  /\ pc[t] = "exit" \/ op[t] = "exit"
  /\ frameOf[Stack[t]] = f /\ loc[Stack[t]] = "zero"
Alone(t) == \A p \in Page : Owner[p] = t /\ p # Stack[t] => frameOf[p] = None

(* The locks of a process, by its pc.                                       *)
LocksOf(t) ==
  /\ pc[t] \in Scanning => scanLock = t
  /\ scanLock = t => pc[t] \in Scanning \cup {"acquire", "recheck"}
  /\ fileLock = t <=> pc[t] \in {"reading", "transfer", "name"}
  /\ \A f \in Frame :
       held[f] = t <=> \/ /\ frm[t] = f
                          /\ \/ pc[t] \in HasLock
                             \/ pc[t] = "locked" /\ frameOf[arg[t]] = f
                       \/ Kept(t, f)

(* The page of arg[t], and that of vic[t], as far as t has come.            *)
Work(t) ==
  /\ \/ pc[t] = "locked"
     \/ pc[t] \in {"acquire", "recheck"} /\ scanLock # t
     => frameOf[arg[t]] \in {None, frm[t]}
  /\ pc[t] \in Scanning \cup {"alloc"} => frameOf[arg[t]] = None
  /\ \/ pc[t] \in {"fill", "reading"}
     \/ pc[t] \in {"acquire", "recheck"} /\ scanLock = t
     => frameOf[arg[t]] = frm[t] /\ pte[arg[t]] = None /\ loc[arg[t]] \in {"file", "zero", "swap"}
  /\ pc[t] = "reading" => loc[arg[t]] = "file"
  /\ op[t] = "stack" => loc[arg[t]] = "zero"
  /\ op[t] \in {"fault", "call"} => loc[arg[t]] # "freed"
  /\ pc[t] = "filled" => frameOf[arg[t]] = frm[t] /\ loc[arg[t]] = "frame"
  /\ pc[t] \in Pinning =>
       frameOf[arg[t]] = frm[t] /\ pte[arg[t]] = frm[t] /\ loc[arg[t]] = "frame"
  /\ pc[t] = "gone" => \A p \in Page : Owner[p] = t => loc[p] = "freed"
  /\ pc[t] \in Evicting => frameOf[vic[t]] = frm[t]
  /\ pc[t] = "out" => loc[vic[t]] = "frame"
  /\ pc[t] \in {"clear", "free"} => loc[vic[t]] \in {"file", "swap"}
  /\ pc[t] = "free" => pte[vic[t]] = None
  /\ pc[t] = "after" => frameOf[vic[t]] = None /\ pageIn[frm[t]] = None
  /\ op[t] = "stack" => Alone(t)
  /\ \A f \in Frame : Kept(t, f) =>
       /\ Alone(t) /\ pc[t] # "recheck"
       /\ pc[t] = "acquire" => frm[t] = f
       /\ pc[t] = "locked" => frm[t] = None

Stages == \A t \in Proc : Stage(t)
Locks == \A t \in Proc : LocksOf(t)
Works == \A t \in Proc : Work(t)

(* A page that has a frame is mapped to it, or its owner is bringing it in, *)
(* or somebody is evicting it, or its owner exits, having failed to fill it. *)
BroughtIn(p) ==
  /\ arg[Owner[p]] = p
  /\ \/ pc[Owner[p]] \in {"fill", "reading", "filled"}
     \/ pc[Owner[p]] \in {"acquire", "recheck"} /\ scanLock = Owner[p]
PutOut(p) == \E t \in Proc : vic[t] = p /\ pc[t] \in {"clear", "free"}
Abandoned(p) ==
  /\ \/ p \in layout.short /\ loc[p] = "file"
     \/ p = Stack[Owner[p]] /\ loc[p] = "zero"
  /\ pc[Owner[p]] = "exit" \/ op[Owner[p]] = "exit"
Place(p) ==
  /\ frameOf[p] = None => loc[p] # "frame"
  /\ pte[p] # None => frameOf[p] = pte[p]
  /\ loc[p] = "freed" => frameOf[p] = None /\ Exiting(Owner[p])
  /\ frameOf[p] # None =>
       \/ pte[p] # None /\ loc[p] = "frame"
       \/ BroughtIn(p) \/ PutOut(p) \/ Abandoned(p)
Places == \A p \in Page : Place(p)

(* A slot whose bit is set is the slot of one page, which is in swap or has *)
(* been freed there.                                                        *)
SlotUse ==
  /\ \A p \in Page : loc[p] = "swap" => slotOf[p] # None
  /\ \A p \in Page : slotOf[p] # None => swap[slotOf[p]] # None /\ loc[p] \in {"swap", "freed"}
  /\ \A p, q \in Page : slotOf[p] # None /\ slotOf[p] = slotOf[q] => p = q
  /\ \A s \in Slot : swap[s] # None => \E p \in Page : slotOf[p] = s

(* Frames and slots hold nothing of another page.                           *)
Content(p) ==
  /\ loc[p] = "frame" \/ pte[p] # None => mem[frameOf[p]].from \subseteq {p}
  /\ loc[p] = "swap" => swap[slotOf[p]].from \subseteq {p}
Contents == \A p \in Page \ {Stack[t] : t \in Proc} : Content(p)

Changes ==
  /\ changed \subseteq layout.writable \cap layout.fromFile
  /\ \A p \in Page : loc[p] = "zero" => p \notin layout.fromFile

(* While nobody exits, a frame that is empty is free, and no one waits for  *)
(* it, unless it has just been emptied; a scan passes by none.              *)
NobodyExits == \A t \in Proc : ~Exiting(t)
FramesInUse ==
  /\ \A f \in Frame : pageIn[f] = None =>
       \/ \E t \in Proc : pc[t] = "after" /\ frm[t] = f
       \/ /\ held[f] = None
          /\ \A t \in Proc : pc[t] \in {"acquire", "recheck"} => frm[t] # f
  /\ \A t \in Proc : pc[t] = "scan" => \A f \in Frame : f < frm[t] => pageIn[f] # None
EmptyFrames == NobodyExits => FramesInUse

PagesSound == Links /\ SlotUse /\ Contents /\ Changes /\ KeptUnlessTorn

IInv == /\ TypeOK /\ Stages /\ Locks /\ Works /\ Places
        /\ PagesSound /\ EmptyFrames /\ AssertionsHold

(***************************************************************************)
(* What a step of one process leaves alone                                  *)
(***************************************************************************)

(* A step of t: the other processes are where they were, with their locks.  *)
Same(u) ==
  /\ pc'[u] = pc[u] /\ op'[u] = op[u] /\ arg'[u] = arg[u]
  /\ frm'[u] = frm[u] /\ vic'[u] = vic[u]
  /\ scanLock' = u <=> scanLock = u
  /\ fileLock' = u <=> fileLock = u
  /\ \A f \in Frame : held'[f] = u <=> held[f] = u
StepOf(t) ==
  /\ \A u \in Proc \ {t} : Same(u)
  /\ layout' = layout /\ halted' = "no"

Untouched(p) == frameOf'[p] = frameOf[p] /\ pte'[p] = pte[p] /\ loc'[p] = loc[p]

(* A process u keeps the frame it has left locked, and no other, if its     *)
(* pages lose no frame but in an eviction, and get none.                    *)
LEMMA KeepsAlone ==
  ASSUME NEW u \in Proc, Same(u), Owner[Stack[u]] = u, Stack[u] \in Page,
         \A p \in Page : Owner[p] = u =>
           \/ Untouched(p)
           \/ /\ frameOf'[p] \in {None, frameOf[p]}
              /\ loc[p] # "zero" /\ loc'[p] # "zero"
  PROVE  /\ \A f : Kept(u, f)' <=> Kept(u, f)
         /\ Alone(u) => Alone(u)'
<1>1. Untouched(Stack[u]) \/ (loc[Stack[u]] # "zero" /\ loc'[Stack[u]] # "zero")
  BY DEF Untouched
<1>2. \A f : Kept(u, f)' <=> Kept(u, f)
  BY <1>1 DEF Kept, Same, Untouched
<1>3. Alone(u) => Alone(u)'
  BY DEF Alone, Untouched
<1> QED
  BY <1>2, <1>3

(* The part of the invariant about processes, after a step of t that leaves *)
(* alone the pages others work on.                                          *)
LEMMA OthersKeepWorking ==
  ASSUME TypeOK, Stages, Locks, Works, NEW t \in Proc, StepOf(t),
         \A p \in Page \ {arg[t]} : Untouched(p),
         \A u \in Proc \ {t} :
           /\ arg[u] # None => Untouched(arg[u])
           /\ pc[u] \in Evicting => Untouched(vic[u])
           /\ pc[u] = "after" => /\ frameOf'[vic[u]] = frameOf[vic[u]]
                                 /\ pageIn'[frm[u]] = pageIn[frm[u]],
         \A p \in Page : loc[p] = "freed" => loc'[p] = "freed",
         Stage(t)', LocksOf(t)', Work(t)'
  PROVE  Stages' /\ Locks' /\ Works'
<1> SUFFICES ASSUME NEW u \in Proc \ {t}
             PROVE  Stage(u)' /\ LocksOf(u)' /\ Work(u)'
  BY DEF Stages, Locks, Works
<1>1. Same(u) /\ Stage(u) /\ LocksOf(u) /\ Work(u) /\ layout' = layout
  BY DEF StepOf, Stages, Locks, Works
<1>2. Stage(u)'
  BY <1>1 DEF Same, Stage
<1>0. (\A f : Kept(u, f)' <=> Kept(u, f)) /\ (Alone(u) => Alone(u)')
  <2>1. \A p \in Page : Owner[p] = u => Untouched(p)
    <3>1. Stage(t)
      BY DEF Stages
    <3> QED
      BY <3>1, VMAssumption DEF Stage
  <2>2. Owner[Stack[u]] = u /\ Stack[u] \in Page
    BY VMAssumption DEF TypeOK
  <2> QED
    BY <1>1, <2>1, <2>2, KeepsAlone
<1>3. LocksOf(u)'
  <2>1. pc[u] = "locked" => arg[u] # None /\ Untouched(arg[u])
    BY <1>1 DEF Stage
  <2> QED
    BY <1>0, <1>1, <2>1 DEF Same, LocksOf, Untouched
<1>4. Work(u)'
  <2>1. /\ pc[u] \notin {"user", "exit", "destroy", "gone"} => arg[u] # None /\ Untouched(arg[u])
        /\ op[u] \in {"stack", "fault", "call"} => arg[u] # None /\ Untouched(arg[u])
    BY <1>1 DEF Stage
  <2> QED
    BY <1>0, <1>1, <2>1 DEF Same, Work, Untouched, Evicting, Scanning, Pinning
<1> QED
  BY <1>2, <1>3, <1>4

(* Processes work on different pages and frames.                            *)
LEMMA Apart ==
  ASSUME TypeOK, Stages, Locks, Works, NEW t \in Proc, NEW u \in Proc \ {t}
  PROVE  /\ arg[t] # None => arg[u] # arg[t]
         /\ ~(pc[t] \in Scanning /\ pc[u] \in Scanning)
         /\ pc[t] \in HasLock /\ pc[u] \in HasLock => frm[t] # frm[u]
         /\ vic[u] # None /\ pc[t] \in {"fill", "reading", "filled"} \cup Pinning
              => vic[u] # arg[t]
<1> USE VMAssumption
<1>1. /\ Stage(t) /\ LocksOf(t) /\ Work(t)
      /\ Stage(u) /\ LocksOf(u) /\ Work(u)
  BY DEF Stages, Locks, Works
<1>2. arg[t] # None => arg[u] # arg[t]
  BY <1>1 DEF Stage
<1>3. ~(pc[t] \in Scanning /\ pc[u] \in Scanning)
  BY <1>1 DEF LocksOf
<1>4. pc[t] \in HasLock /\ pc[u] \in HasLock => frm[t] # frm[u]
  BY <1>1 DEF Stage, LocksOf
<1>5. ASSUME vic[u] # None, pc[t] \in {"fill", "reading", "filled"} \cup Pinning
      PROVE  vic[u] # arg[t]
  <2>1. frameOf[arg[t]] = frm[t] /\ frm[t] \in Frame /\ pc[t] \in HasLock
    BY <1>1, <1>5 DEF Stage, Work, HasLock
  <2>2. CASE pc[u] \in Evicting
    BY <1>1, <1>4, <2>1, <2>2 DEF Work, HasLock
  <2>3. CASE pc[u] = "after"
    BY <1>1, <2>1, <2>3 DEF Work, Frame
  <2> QED
    BY <1>1, <1>5, <2>2, <2>3 DEF Stage
<1> QED
  BY <1>2, <1>3, <1>4, <1>5

(* A page is in the place it was in, or has come there.                     *)
StaysPut(p) ==
  /\ BroughtIn(p) /\ frameOf[p] # None =>
       BroughtIn(p)' \/ Abandoned(p)' \/ (pte[p] # None /\ loc[p] = "frame")
  /\ Abandoned(p) => Abandoned(p)'

(* The place of a page, after a step of t that does not change the page and *)
(* is not one of its eviction.                                              *)
LEMMA PageStaysInPlace ==
  ASSUME TypeOK, NEW t \in Proc, StepOf(t), Exiting(t) => Exiting(t)',
         NEW p \in Page, Place(p), Untouched(p),
         pc[t] \in {"clear", "free"} => vic[t] # p,
         Owner[p] = t => StaysPut(p)
  PROVE  Place(p)'
<1>1. \A u \in Proc : Exiting(u) => Exiting(u)'
  BY DEF StepOf, Same, Exiting
<1>2. Owner[p] \in Proc
  BY VMAssumption
<1>3. PutOut(p) => PutOut(p)'
  BY DEF PutOut, StepOf, Same
<1>4. Owner[p] # t => /\ BroughtIn(p) => BroughtIn(p)'
                      /\ Abandoned(p) => Abandoned(p)'
  BY <1>2 DEF BroughtIn, Abandoned, StepOf, Same, Untouched
<1> QED
  BY <1>1, <1>2, <1>3, <1>4 DEF Place, StaysPut, Untouched

(* What concerns only pages and data, when neither changes.                 *)
LEMMA PagesStaySound ==
  ASSUME PagesSound,
         UNCHANGED <<loc, frameOf, slotOf, pte, pageIn, data, layout>>
  PROVE  PagesSound'
BY DEF PagesSound, Links, SlotUse, Contents, Content, Changes, KeptUnlessTorn,
   Fresh, data

(* Where pages are, when neither they nor the processes move.               *)
LEMMA PagesStayInPlace ==
  ASSUME Places,
         UNCHANGED <<pc, op, arg, vic, scanLock, loc, frameOf, pte, layout>>
  PROVE  Places'
<1> SUFFICES ASSUME NEW p \in Page, Place(p)
             PROVE  Place(p)'
  BY DEF Places
<1>1. BroughtIn(p) => BroughtIn(p)'
  BY DEF BroughtIn
<1>2. PutOut(p) => PutOut(p)'
  BY DEF PutOut
<1>3. /\ Abandoned(p) => Abandoned(p)'
      /\ Exiting(Owner[p]) => Exiting(Owner[p])'
  BY DEF Abandoned, Exiting
<1> QED
  BY <1>1, <1>2, <1>3 DEF Place

(* An exit is never taken back.                                             *)
LEMMA NobodyExitsBefore ==
  ASSUME NEW t \in Proc, StepOf(t), Exiting(t) => Exiting(t)', NobodyExits'
  PROVE  NobodyExits
BY DEF StepOf, Same, NobodyExits, Exiting

(* The kernel stops for a reason that AssertionsHold allows.                *)
LEMMA PanicKeepsIInv ==
  ASSUME IInv, NEW why \in Halt, Panic(why), AssertionsHold'
  PROVE  IInv'
<1> USE DEF Panic, pageVars, frameVars, procVars, locks
<1>1. TypeOK'
  BY DEF IInv, TypeOK, data
<1>2. Stages' /\ Locks' /\ Works'
  BY DEF IInv, Stages, Stage, Locks, LocksOf, Works, Work, Kept, Alone
<1>3. Places'
  BY PagesStayInPlace DEF IInv
<1>4. PagesSound'
  BY PagesStaySound DEF IInv
<1>5. EmptyFrames'
  BY DEF IInv, EmptyFrames, NobodyExits, FramesInUse, Exiting
<1> QED
  BY <1>1, <1>2, <1>3, <1>4, <1>5 DEF IInv

(* frame_lock() has returned, and the page has a frame: it is mapped to it, *)
(* and its owner holds the lock.                                            *)
LEMMA LockedPage ==
  ASSUME IInv, NEW t \in Proc, pc[t] = "locked", op[t] # "exit", frameOf[arg[t]] # None
  PROVE  /\ pte[arg[t]] = frm[t] /\ frm[t] \in Frame /\ frameOf[arg[t]] = frm[t]
         /\ loc[arg[t]] = "frame" /\ held[frm[t]] = t
<1>1. TypeOK /\ Stage(t) /\ LocksOf(t) /\ Work(t)
  BY DEF IInv, Stages, Locks, Works
<1>2. /\ arg[t] \in Page /\ Owner[arg[t]] = t
      /\ frm[t] \in Frame /\ frameOf[arg[t]] = frm[t] /\ held[frm[t]] = t
  BY <1>1 DEF TypeOK, Stage, LocksOf, Work
<1>3. Place(arg[t])
  BY <1>2 DEF IInv, Places
<1>4. ~BroughtIn(arg[t]) /\ ~Abandoned(arg[t])
  BY <1>2 DEF BroughtIn, Abandoned
<1>5. ~PutOut(arg[t])
  <2> SUFFICES ASSUME NEW u \in Proc, vic[u] = arg[t], pc[u] \in {"clear", "free"}
               PROVE  FALSE
    BY DEF PutOut
  <2>1. LocksOf(u) /\ Work(u)
    BY DEF IInv, Locks, Works
  <2>2. held[frm[t]] = u
    BY <1>2, <2>1 DEF LocksOf, Work, HasLock, Evicting
  <2> QED
    BY <1>2, <2>2
<1> QED
  BY <1>2, <1>3, <1>4, <1>5 DEF Place

(* A step of t that changes no page, no frame but for its lock, and no data *)
(* keeps the invariant if it keeps what is said of t itself.                *)
LEMMA QuietStepKeepsIInv ==
  ASSUME IInv, TypeOK', NEW t \in Proc, StepOf(t),
         UNCHANGED <<loc, frameOf, slotOf, pte, pageIn, data>>,
         pc[t] \notin {"clear", "free"},
         Exiting(t) => Exiting(t)',
         \A p \in Page : Owner[p] = t => StaysPut(p),
         Stage(t)', LocksOf(t)', Work(t)', EmptyFrames'
  PROVE  IInv'
<1>1. Stages' /\ Locks' /\ Works'
  <2>1. \A p : Untouched(p)
    BY DEF Untouched
  <2>2. \A u \in Proc : pageIn'[frm[u]] = pageIn[frm[u]]
    OBVIOUS
  <2>3. \A p \in Page : loc[p] = "freed" => loc'[p] = "freed"
    OBVIOUS
  <2> QED
    BY <2>1, <2>2, <2>3, OthersKeepWorking DEF IInv
<1>2. Places'
  BY PageStaysInPlace DEF IInv, Places, Untouched
<1>3. PagesSound'
  BY PagesStaySound DEF IInv, StepOf
<1>4. AssertionsHold'
  BY DEF StepOf, AssertionsHold
<1> QED
  BY <1>1, <1>2, <1>3, <1>4 DEF IInv

(* So does such a step as to empty frames if t does not come to a place     *)
(* where it wants one, and takes no lock.                                   *)
LEMMA QuietStepKeepsFramesInUse ==
  ASSUME EmptyFrames, NEW t \in Proc, StepOf(t), Exiting(t) => Exiting(t)',
         pageIn' = pageIn, pc[t] # "after", pc'[t] \notin {"acquire", "recheck", "scan"},
         \A f \in Frame : held[f] = None => held'[f] = None
  PROVE  EmptyFrames'
<1> SUFFICES ASSUME NobodyExits'
             PROVE  FramesInUse'
  BY DEF EmptyFrames
<1>1. FramesInUse
  BY NobodyExitsBefore DEF EmptyFrames
<1> QED
  BY <1>1 DEF FramesInUse, StepOf, Same

(* A step of t keeps the invariant if it leaves alone the pages others work *)
(* on, and keeps what is said of t, and of pages and frames.                *)
LEMMA StepKeepsIInv ==
  ASSUME IInv, TypeOK', NEW t \in Proc, StepOf(t),
         \A p \in Page \ {arg[t]} : Untouched(p),
         \A u \in Proc \ {t} :
           /\ arg[u] # None => Untouched(arg[u])
           /\ pc[u] \in Evicting => Untouched(vic[u])
           /\ pc[u] = "after" => /\ frameOf'[vic[u]] = frameOf[vic[u]]
                                 /\ pageIn'[frm[u]] = pageIn[frm[u]],
         \A p \in Page : loc[p] = "freed" => loc'[p] = "freed",
         Stage(t)', LocksOf(t)', Work(t)', Places', PagesSound', EmptyFrames'
  PROVE  IInv'
<1>1. Stages' /\ Locks' /\ Works'
  BY OthersKeepWorking DEF IInv
<1>2. AssertionsHold'
  BY DEF StepOf, AssertionsHold
<1> QED
  BY <1>1, <1>2 DEF IInv

(* The same for a step of an eviction, which changes the page it evicts,    *)
(* though its owner may be about to lock it.                                *)
LEMMA OthersKeepWorkingAside ==
  ASSUME TypeOK, Stages, Locks, Works, NEW t \in Proc, StepOf(t), pc[t] \in Evicting,
         \A p \in Page \ {vic[t]} : Untouched(p),
         frameOf'[vic[t]] \in {None, frameOf[vic[t]]}, loc'[vic[t]] \in {"file", "swap"},
         \A p \in Page : loc[p] = "freed" => loc'[p] = "freed",
         Stage(t)', LocksOf(t)', Work(t)'
  PROVE  Stages' /\ Locks' /\ Works'
<1> USE VMAssumption
<1>1. /\ Stage(t) /\ LocksOf(t) /\ Work(t) /\ scanLock = t
      /\ vic[t] \in Page /\ frm[t] \in Frame /\ held[frm[t]] = t
      /\ frameOf[vic[t]] = frm[t] /\ loc[vic[t]] \in {"frame", "file", "swap"}
  <2>1. Stage(t) /\ LocksOf(t) /\ Work(t)
    BY DEF Stages, Locks, Works
  <2> QED
    BY <2>1 DEF TypeOK, Stage, LocksOf, Work, Evicting, Scanning, HasLock
<1> SUFFICES ASSUME NEW u \in Proc \ {t}
             PROVE  Stage(u)' /\ LocksOf(u)' /\ Work(u)'
  BY DEF Stages, Locks, Works
<1>2. Same(u) /\ Stage(u) /\ LocksOf(u) /\ Work(u) /\ layout' = layout /\ scanLock # u
  BY <1>1 DEF StepOf, Stages, Locks, Works
<1>3. Stage(u)'
  BY <1>2 DEF Same, Stage
<1>4. vic[u] = None /\ pc[u] \notin Scanning
  BY <1>2 DEF LocksOf, Stage, Scanning, Evicting
<1>0. (\A f : Kept(u, f)' <=> Kept(u, f)) /\ (Alone(u) => Alone(u)')
  <2>1. \A p \in Page : Owner[p] = u =>
          \/ Untouched(p)
          \/ /\ frameOf'[p] \in {None, frameOf[p]}
             /\ loc[p] # "zero" /\ loc'[p] # "zero"
    BY <1>1
  <2>2. Owner[Stack[u]] = u /\ Stack[u] \in Page
    BY VMAssumption DEF TypeOK
  <2> QED
    BY <1>2, <2>1, <2>2, KeepsAlone
<1>5. CASE arg[u] # vic[t]
  <2>1. arg[u] # None => Untouched(arg[u])
    BY <1>5 DEF TypeOK
  <2>2. /\ pc[u] \notin {"user", "exit", "destroy", "gone"} => arg[u] # None
        /\ op[u] \in {"stack", "fault", "call"} => arg[u] # None
    BY <1>2 DEF Stage
  <2>3. LocksOf(u)'
    BY <1>0, <1>2, <2>1, <2>2 DEF Same, LocksOf, Untouched
  <2>4. Work(u)'
    BY <1>0, <1>2, <1>4, <2>1, <2>2 DEF Same, Work, Untouched, Evicting, Scanning, Pinning
  <2> QED
    BY <1>3, <2>3, <2>4
<1>6. CASE arg[u] = vic[t]
  <2>1. pc[u] \notin {"fill", "reading", "filled"} \cup Pinning
    BY <1>1, <1>6, Apart
  <2>2. pc[u] # "alloc" /\ op[u] # "stack"
    BY <1>1, <1>2, <1>6 DEF Work, Frame
  <2>3. LocksOf(u)'
    BY <1>0, <1>1, <1>2, <1>6 DEF TypeOK, Same, LocksOf, Frame
  <2>4. Work(u)'
    BY <1>0, <1>1, <1>2, <1>4, <1>6, <2>1, <2>2 DEF Same, Work, Evicting, Scanning, Pinning
  <2> QED
    BY <1>3, <2>3, <2>4
<1> QED
  BY <1>5, <1>6

(* A step of an eviction keeps the invariant if it keeps what is said of t, *)
(* of the page it evicts, and of pages and frames.                          *)
LEMMA EvictionStepKeepsIInv ==
  ASSUME IInv, TypeOK', NEW t \in Proc, StepOf(t), pc[t] \in Evicting,
         \A p \in Page \ {vic[t]} : Untouched(p),
         frameOf'[vic[t]] \in {None, frameOf[vic[t]]}, loc'[vic[t]] \in {"file", "swap"},
         Stage(t)', LocksOf(t)', Work(t)', \A p \in Page : p = vic[t] => Place(p)',
         PagesSound', EmptyFrames'
  PROVE  IInv'
<1>1. /\ vic[t] \in Page /\ loc[vic[t]] # "freed" /\ Stage(t)
      /\ TypeOK /\ Owner \in [Page -> Proc]
  <2>1. Stage(t) /\ Work(t) /\ TypeOK
    BY DEF IInv, Stages, Works
  <2>2. vic[t] \in Page
    BY <2>1 DEF TypeOK, Stage, Evicting
  <2> QED
    BY <2>1, <2>2, VMAssumption DEF Work, Evicting
<1>2. \A p \in Page : loc[p] = "freed" => loc'[p] = "freed"
  BY <1>1 DEF Untouched
<1>3. Stages' /\ Locks' /\ Works'
  BY <1>2, OthersKeepWorkingAside DEF IInv
<1>4. AssertionsHold'
  BY DEF StepOf, AssertionsHold
<1>5. Exiting(t) => Exiting(t)'
  BY <1>1 DEF Exiting, Stage, Evicting
<1>6. ASSUME NEW p \in Page \ {vic[t]}
      PROVE  Place(p)'
  <2>1. Owner[p] = t => StaysPut(p)
    BY <1>1 DEF StaysPut, BroughtIn, Abandoned, Stage, Evicting
  <2> QED
    BY <1>1, <1>5, <2>1, PageStaysInPlace DEF IInv, Places
<1> QED
  BY <1>3, <1>4, <1>6 DEF IInv, Places

(* What ReadFile makes of a page that has not been written to.              *)
LEMMA ReadFresh ==
  ASSUME NEW m, NEW p, NEW C, m = [from |-> {p}, fresh |-> p \notin C], p \notin C
  PROVE  m.fresh
OBVIOUS

(* But for a process that exits, or fills its stack, the stack's page is    *)
(* not left in a frame without having been filled.                          *)
LEMMA NothingLeft ==
  ASSUME IInv, NEW t \in Proc, pc[t] # "exit", op[t] # "exit", arg[t] # Stack[t]
  PROVE  ~(frameOf[Stack[t]] # None /\ loc[Stack[t]] = "zero")
<1> SUFFICES ASSUME frameOf[Stack[t]] # None, loc[Stack[t]] = "zero"
             PROVE  FALSE
  OBVIOUS
<1>1. Stack[t] \in Page /\ Owner[Stack[t]] = t
  BY VMAssumption DEF IInv, TypeOK
<1>2. Place(Stack[t])
  BY <1>1 DEF IInv, Places
<1>3. ~BroughtIn(Stack[t]) /\ ~Abandoned(Stack[t])
  BY <1>1 DEF BroughtIn, Abandoned
<1>4. ~PutOut(Stack[t])
  BY DEF PutOut, IInv, Works, Work
<1> QED
  BY <1>2, <1>3, <1>4 DEF Place

(***************************************************************************)
(* Steps that change no page                                                *)
(***************************************************************************)

(* A page fault, or a system call that locks a page.                        *)
LEMMA EnterKeepsIInv ==
  ASSUME IInv, NEW t \in Proc, NEW p \in Page, NEW o \in {"fault", "call"}, Enter(t, p, o)
  PROVE  IInv'
<1> USE VMAssumption
<1>0. TypeOK /\ Stage(t) /\ LocksOf(t) /\ Work(t) /\ EmptyFrames /\ Place(p)
  BY DEF IInv, Stages, Locks, Works, Places
<1>1. /\ halted = "no" /\ pc[t] = "user" /\ Owner[p] = t
      /\ pc' = [pc EXCEPT ![t] = "lock"]
      /\ op' = [op EXCEPT ![t] = o] /\ arg' = [arg EXCEPT ![t] = p]
      /\ UNCHANGED <<frm, vic, held, scanLock, fileLock, loc, frameOf, slotOf, pte, pageIn,
                     data, layout, halted>>
  BY <1>0 DEF Enter, At, Go, Step, pageVars, frameVars, procVars, locks
<1>2. TypeOK'
  BY <1>0, <1>1 DEF TypeOK, PC, Op, data
<1>3. StepOf(t)
  BY <1>0, <1>1 DEF TypeOK, StepOf, Same
<1>4. Stage(t)'
  BY <1>0, <1>1 DEF TypeOK, Stage, Scanning, Evicting, Pinning, HasLock
<1>5. LocksOf(t)'
  <2>1. \A f : ~Kept(t, f) /\ ~Kept(t, f)'
    BY <1>0, <1>1 DEF TypeOK, Stage, Kept
  <2> QED
    BY <1>0, <1>1, <2>1 DEF TypeOK, LocksOf, Scanning, Evicting, Pinning, HasLock
<1>6. Work(t)'
  BY <1>0, <1>1 DEF TypeOK, Stage, Work, Kept, Alone, Scanning, Evicting, Pinning, Place, Exiting
<1>7. Exiting(t) => Exiting(t)'
  BY <1>0, <1>1 DEF TypeOK, Exiting, Stage
<1>8. EmptyFrames'
  BY <1>0, <1>1, <1>3, <1>7, QuietStepKeepsFramesInUse DEF TypeOK, Stage
<1>9. \A q \in Page : Owner[q] = t => StaysPut(q)
  BY <1>0, <1>1 DEF StaysPut, BroughtIn, Abandoned, Stage
<1> QED
  BY <1>1, <1>2, <1>3, <1>4, <1>5, <1>6, <1>7, <1>8, <1>9, QuietStepKeepsIInv DEF TypeOK

(* sys_remove() has read the name's page.                                   *)
LEMMA RemoveKeepsIInv ==
  ASSUME IInv, NEW t \in Proc, NEW p \in Page, Remove(t, p)
  PROVE  IInv'
<1> USE VMAssumption
<1>0. TypeOK /\ Stage(t) /\ LocksOf(t) /\ Work(t) /\ EmptyFrames
  BY DEF IInv, Stages, Locks, Works
<1>1. /\ halted = "no" /\ pc[t] = "user" /\ Owner[p] = t
      /\ pc' = [pc EXCEPT ![t] = "remove"]
      /\ op' = [op EXCEPT ![t] = "remove"] /\ arg' = [arg EXCEPT ![t] = p]
      /\ UNCHANGED <<frm, vic, held, scanLock, fileLock, loc, frameOf, slotOf, pte, pageIn,
                     data, layout, halted>>
  BY <1>0 DEF Remove, At, Go, Step, pageVars, frameVars, procVars, locks
<1>2. TypeOK'
  BY <1>0, <1>1 DEF TypeOK, PC, Op, data
<1>3. StepOf(t)
  BY <1>0, <1>1 DEF TypeOK, StepOf, Same
<1>4. Stage(t)'
  BY <1>0, <1>1 DEF TypeOK, Stage, Scanning, Evicting, Pinning, HasLock
<1>5. LocksOf(t)'
  <2>1. \A f : ~Kept(t, f) /\ ~Kept(t, f)'
    BY <1>0, <1>1 DEF TypeOK, Stage, Kept
  <2> QED
    BY <1>0, <1>1, <2>1 DEF TypeOK, LocksOf, Scanning, Evicting, Pinning, HasLock
<1>6. Work(t)'
  BY <1>0, <1>1 DEF TypeOK, Stage, Work, Kept, Alone, Scanning, Evicting, Pinning
<1>7. Exiting(t) => Exiting(t)'
  BY <1>0, <1>1 DEF TypeOK, Exiting, Stage
<1>8. EmptyFrames'
  BY <1>0, <1>1, <1>3, <1>7, QuietStepKeepsFramesInUse DEF TypeOK, Stage
<1>9. \A q \in Page : Owner[q] = t => StaysPut(q)
  BY <1>0, <1>1 DEF StaysPut, BroughtIn, Abandoned, Stage
<1> QED
  BY <1>1, <1>2, <1>3, <1>4, <1>5, <1>6, <1>7, <1>8, <1>9, QuietStepKeepsIInv DEF TypeOK

(* process_exit() waits for file_lock, and then goes on to page_destroy().  *)
LEMMA ExitKeepsIInv ==
  ASSUME IInv, NEW t \in Proc, Exit(t)
  PROVE  IInv'
<1> USE VMAssumption
<1>0. TypeOK /\ Stage(t) /\ LocksOf(t) /\ Work(t) /\ EmptyFrames
  BY DEF IInv, Stages, Locks, Works
<1>1. /\ halted = "no" /\ pc[t] \in {"user", "exit"}
      /\ pc' = [pc EXCEPT ![t] = "destroy"] /\ op' = [op EXCEPT ![t] = "exit"]
      /\ UNCHANGED <<arg, frm, vic, held, scanLock, fileLock, loc, frameOf, slotOf, pte,
                     pageIn, data, layout, halted>>
  BY <1>0 DEF Exit, At, Go, Step, pageVars, frameVars, procVars, locks
<1>2. TypeOK'
  BY <1>0, <1>1 DEF TypeOK, PC, Op, data
<1>3. StepOf(t)
  BY <1>0, <1>1 DEF TypeOK, StepOf, Same
<1>4. Stage(t)'
  BY <1>0, <1>1 DEF TypeOK, Stage, Scanning, Evicting, Pinning, HasLock, LocksOf
<1>10. \A f \in Frame : Kept(t, f)' <=> Kept(t, f)
  <2>1. CASE pc[t] = "exit"
    BY <1>0, <1>1, <2>1 DEF TypeOK, Kept
  <2>2. CASE pc[t] = "user"
    <3>1. op[t] = "none" /\ arg[t] = None
      BY <1>0, <2>2 DEF Stage
    <3>2. ~(frameOf[Stack[t]] # None /\ loc[Stack[t]] = "zero")
      BY <2>2, <3>1, NothingLeft DEF TypeOK
    <3> QED
      BY <1>0, <1>1, <2>2, <3>1, <3>2 DEF TypeOK, Kept, Frame
  <2> QED
    BY <1>1, <2>1, <2>2
<1>5. LocksOf(t)'
  BY <1>0, <1>1, <1>10 DEF TypeOK, LocksOf, Scanning, Evicting, Pinning, HasLock
<1>6. Work(t)'
  <2>1. Alone(t) => Alone(t)'
    BY <1>1 DEF Alone
  <2> QED
    BY <1>0, <1>1, <1>10, <2>1 DEF TypeOK, Stage, Work, Scanning, Evicting, Pinning
<1>7. Exiting(t) => Exiting(t)'
  BY <1>0, <1>1 DEF TypeOK, Exiting, Stage
<1>8. EmptyFrames'
  BY <1>0, <1>1, <1>3, <1>7, QuietStepKeepsFramesInUse DEF TypeOK, Stage
<1>9. \A q \in Page : Owner[q] = t => StaysPut(q)
  BY <1>0, <1>1 DEF TypeOK, StaysPut, BroughtIn, Abandoned, Stage, LocksOf
<1> QED
  BY <1>1, <1>2, <1>3, <1>4, <1>5, <1>6, <1>7, <1>8, <1>9, QuietStepKeepsIInv DEF TypeOK

(* frame_lock(): the frame is read, and its lock is taken later.            *)
LEMMA FrameLockKeepsIInv ==
  ASSUME IInv, NEW t \in Proc, FrameLock(t)
  PROVE  IInv'
<1> USE VMAssumption
<1>0. TypeOK /\ Stage(t) /\ LocksOf(t) /\ Work(t) /\ EmptyFrames /\ Links
  BY DEF IInv, PagesSound, Stages, Locks, Works
<1>1. /\ halted = "no" /\ pc[t] = "lock" /\ arg[t] \in Page
      /\ pc' = [pc EXCEPT ![t] = IF frameOf[arg[t]] = None THEN "locked" ELSE "acquire"]
      /\ frm' = [frm EXCEPT ![t] = frameOf[arg[t]]]
      /\ UNCHANGED <<op, arg, vic, held, scanLock, fileLock, loc, frameOf, slotOf, pte,
                     pageIn, data, layout, halted>>
  BY <1>0 DEF FrameLock, TypeOK, Stage, At, Go, Step, pageVars, frameVars, procVars, locks
<1>2. TypeOK'
  BY <1>0, <1>1 DEF TypeOK, PC, Op, data, Frame
<1>3. StepOf(t)
  BY <1>0, <1>1 DEF TypeOK, StepOf, Same
<1>4. Stage(t)'
  BY <1>0, <1>1 DEF TypeOK, Stage, Scanning, Evicting, Pinning, HasLock
<1>5. LocksOf(t)'
  BY <1>0, <1>1 DEF TypeOK, LocksOf, Kept, Scanning, Evicting, Pinning, HasLock, Frame
<1>6. Work(t)'
  BY <1>0, <1>1 DEF TypeOK, Stage, Work, Kept, Alone, Scanning, Evicting, Pinning, LocksOf
<1>7. Exiting(t) => Exiting(t)'
  BY <1>0, <1>1 DEF TypeOK, Exiting, Stage
<1>8. EmptyFrames'
  <2> SUFFICES ASSUME NobodyExits'
               PROVE  FramesInUse'
    BY DEF EmptyFrames
  <2>1. FramesInUse
    BY <1>0, <1>3, <1>7, NobodyExitsBefore DEF EmptyFrames
  <2>2. pc'[t] \in {"acquire", "recheck"} => frm'[t] \in Frame /\ pageIn[frm'[t]] # None
    BY <1>0, <1>1 DEF TypeOK, Links
  <2> QED
    BY <1>0, <1>1, <1>3, <2>1, <2>2 DEF TypeOK, FramesInUse, StepOf, Same
<1>9. \A q \in Page : Owner[q] = t => StaysPut(q)
  BY <1>0, <1>1 DEF TypeOK, StaysPut, BroughtIn, Abandoned, Stage, LocksOf
<1> QED
  BY <1>1, <1>2, <1>3, <1>4, <1>5, <1>6, <1>7, <1>8, <1>9, QuietStepKeepsIInv DEF TypeOK

(* The lock is acquired, and the page may have lost the frame meanwhile.    *)
LEMMA AcquireFrameKeepsIInv ==
  ASSUME IInv, NEW t \in Proc, AcquireFrame(t), halted' = "no"
  PROVE  IInv'
<1> USE VMAssumption
<1>0. TypeOK /\ Stage(t) /\ LocksOf(t) /\ Work(t) /\ EmptyFrames
  BY DEF IInv, Stages, Locks, Works
<1>1. /\ halted = "no" /\ pc[t] = "acquire" /\ frm[t] \in Frame /\ held[frm[t]] = None
      /\ held' = [held EXCEPT ![frm[t]] = t]
      /\ pc' = [pc EXCEPT ![t] = "recheck"]
      /\ UNCHANGED <<op, arg, frm, vic, scanLock, fileLock, loc, frameOf, slotOf, pte,
                     pageIn, data, layout, halted>>
  BY <1>0 DEF AcquireFrame, CanTake, Acquired, Panic, Stage, HasLock, At, Go, Step,
     pageVars, frameVars, procVars, locks
<1>2. TypeOK'
  BY <1>0, <1>1 DEF TypeOK, PC, Op, data
<1>3. StepOf(t)
  BY <1>0, <1>1 DEF TypeOK, StepOf, Same
<1>4. Stage(t)'
  BY <1>0, <1>1 DEF TypeOK, Stage, Scanning, Evicting, Pinning, HasLock
<1>5. LocksOf(t)'
  BY <1>0, <1>1 DEF TypeOK, LocksOf, Kept, Scanning, Evicting, Pinning, HasLock
<1>10. \A f \in Frame : ~Kept(t, f) /\ ~Kept(t, f)'
  BY <1>0, <1>1 DEF TypeOK, Work, LocksOf, Kept
<1>6. Work(t)'
  BY <1>0, <1>1, <1>10 DEF TypeOK, Stage, Work, Alone, Scanning, Evicting, Pinning
<1>7. Exiting(t) => Exiting(t)'
  BY <1>0, <1>1 DEF TypeOK, Exiting, Stage
<1>8. EmptyFrames'
  <2> SUFFICES ASSUME NobodyExits'
               PROVE  FramesInUse'
    BY DEF EmptyFrames
  <2>1. FramesInUse
    BY <1>0, <1>3, <1>7, NobodyExitsBefore DEF EmptyFrames
  <2> QED
    BY <1>0, <1>1, <1>3, <2>1 DEF TypeOK, FramesInUse, StepOf, Same
<1>9. \A q \in Page : Owner[q] = t => StaysPut(q)
  BY <1>0, <1>1 DEF TypeOK, StaysPut, BroughtIn, Abandoned, Stage
<1> QED
  BY <1>1, <1>2, <1>3, <1>4, <1>5, <1>6, <1>7, <1>8, <1>9, QuietStepKeepsIInv DEF TypeOK

(* The clock hand stops at a frame whose lock is free.                      *)
LEMMA EvictKeepsIInv ==
  ASSUME IInv, NEW t \in Proc, NEW f \in Frame, Evict(t, f), halted' = "no"
  PROVE  IInv'
<1> USE VMAssumption
<1>0. TypeOK /\ Stage(t) /\ LocksOf(t) /\ Work(t) /\ EmptyFrames
  BY DEF IInv, Stages, Locks, Works
<1>1. /\ halted = "no" /\ pc[t] = "scan" /\ held[f] = None
      /\ pageIn[f] \in Page /\ frameOf[pageIn[f]] = f /\ loc[pageIn[f]] = "frame"
      /\ held' = [held EXCEPT ![f] = t]
      /\ pc' = [pc EXCEPT ![t] = "out"]
      /\ frm' = [frm EXCEPT ![t] = f] /\ vic' = [vic EXCEPT ![t] = pageIn[f]]
      /\ UNCHANGED <<op, arg, scanLock, fileLock, loc, frameOf, slotOf, pte, pageIn, data,
                     layout, halted>>
  BY <1>0 DEF TypeOK, Evict, CanTake, Acquired, Panic, At, Go, Step, pageVars, frameVars,
     procVars, locks
<1>2. TypeOK'
  BY <1>0, <1>1 DEF TypeOK, PC, Op, data, Frame
<1>3. StepOf(t)
  BY <1>0, <1>1 DEF TypeOK, StepOf, Same
<1>4. Stage(t)'
  BY <1>0, <1>1 DEF TypeOK, Stage, Scanning, Evicting, Pinning, HasLock
<1>5. LocksOf(t)'
  BY <1>0, <1>1 DEF TypeOK, LocksOf, Kept, Scanning, Evicting, Pinning, HasLock
<1>6. Work(t)'
  BY <1>0, <1>1 DEF TypeOK, Stage, Work, Kept, Alone, Scanning, Evicting, Pinning
<1>7. Exiting(t) => Exiting(t)'
  BY <1>0, <1>1 DEF TypeOK, Exiting, Stage
<1>8. EmptyFrames'
  <2> SUFFICES ASSUME NobodyExits'
               PROVE  FramesInUse'
    BY DEF EmptyFrames
  <2>1. FramesInUse
    BY <1>0, <1>3, <1>7, NobodyExitsBefore DEF EmptyFrames
  <2> QED
    BY <1>0, <1>1, <1>3, <2>1 DEF TypeOK, FramesInUse, StepOf, Same
<1>9. \A q \in Page : Owner[q] = t => StaysPut(q)
  BY <1>0, <1>1 DEF StaysPut, BroughtIn, Abandoned, Stage
<1> QED
  BY <1>1, <1>2, <1>3, <1>4, <1>5, <1>6, <1>7, <1>8, <1>9, QuietStepKeepsIInv DEF TypeOK

(* The page has a frame, or one must be found for it.                       *)
LEMMA LockedKeepsIInv ==
  ASSUME IInv, NEW t \in Proc, Locked(t), halted' = "no"
  PROVE  IInv'
<1> USE VMAssumption
<1>0. TypeOK /\ Stage(t) /\ LocksOf(t) /\ Work(t) /\ EmptyFrames
  BY DEF IInv, Stages, Locks, Works
<1>1. /\ halted = "no" /\ pc[t] = "locked" /\ op[t] \in {"fault", "call"}
      /\ pc' = [pc EXCEPT ![t] = IF frameOf[arg[t]] = None THEN "alloc"
                                 ELSE IF op[t] = "fault" THEN "filled" ELSE "pinned"]
      /\ UNCHANGED <<op, arg, frm, vic, held, scanLock, fileLock, loc, frameOf, slotOf, pte,
                     pageIn, data, layout, halted>>
  BY <1>0 DEF TypeOK, Stage, Op, Scanning, Evicting, Locked, Panic, At, Go, Step, pageVars,
     frameVars, procVars, locks
<1>2. arg[t] \in Page /\ frameOf[arg[t]] \in {None, frm[t]}
  BY <1>0, <1>1 DEF TypeOK, Stage, Work
<1>3. ASSUME frameOf[arg[t]] # None
      PROVE  /\ pte[arg[t]] = frm[t] /\ frm[t] \in Frame
             /\ loc[arg[t]] = "frame" /\ held[frm[t]] = t
  BY <1>1, <1>3, LockedPage
<1>4. TypeOK'
  BY <1>0, <1>1 DEF TypeOK, PC, Op, data
<1>5. StepOf(t)
  BY <1>0, <1>1 DEF TypeOK, StepOf, Same
<1>6. Stage(t)'
  BY <1>0, <1>1, <1>2, <1>3 DEF TypeOK, Stage, Scanning, Evicting, Pinning, HasLock
<1>7. LocksOf(t)'
  <2>0. \A f : ~Kept(t, f) /\ ~Kept(t, f)'
    BY <1>0, <1>1 DEF TypeOK, Kept
  <2>1. CASE frameOf[arg[t]] = None
    <3>1. pc'[t] = "alloc" /\ \A f \in Frame : held[f] # t
      BY <1>0, <1>1, <2>0, <2>1 DEF TypeOK, LocksOf, HasLock, Evicting, Pinning, Frame
    <3> QED
      BY <1>0, <1>1, <2>0, <3>1 DEF LocksOf, HasLock, Scanning, Evicting, Pinning
  <2>2. CASE frameOf[arg[t]] # None
    <3>1. pc'[t] \in {"filled", "pinned"} /\ frameOf[arg[t]] = frm[t]
      BY <1>0, <1>1, <1>2, <2>2 DEF TypeOK
    <3>2. \A f \in Frame : held[f] = t <=> frm[t] = f
      BY <1>0, <1>1, <2>0, <3>1 DEF LocksOf, HasLock, Evicting, Pinning
    <3> QED
      BY <1>0, <1>1, <2>0, <3>1, <3>2 DEF LocksOf, HasLock, Scanning, Evicting, Pinning
  <2> QED
    BY <2>1, <2>2
<1>8. Work(t)'
  BY <1>0, <1>1, <1>2, <1>3 DEF TypeOK, Stage, Work, Kept, Alone, Scanning, Evicting, Pinning
<1>9. Exiting(t) => Exiting(t)'
  BY <1>0, <1>1 DEF TypeOK, Exiting, Stage
<1>10. EmptyFrames'
  BY <1>0, <1>1, <1>5, <1>9, QuietStepKeepsFramesInUse DEF TypeOK, Stage
<1>11. \A q \in Page : Owner[q] = t => StaysPut(q)
  BY <1>0, <1>1 DEF StaysPut, BroughtIn, Abandoned, Stage
<1> QED
  BY <1>1, <1>4, <1>5, <1>6, <1>7, <1>8, <1>9, <1>10, <1>11, QuietStepKeepsIInv DEF TypeOK

(* page_in() and the file system calls take file_lock.                      *)
LEMMA TakeFileLockKeepsIInv ==
  ASSUME IInv, NEW t \in Proc, TakeFileLock(t)
  PROVE  IInv'
<1> USE VMAssumption
<1>0. TypeOK /\ Stage(t) /\ LocksOf(t) /\ Work(t) /\ EmptyFrames
  BY DEF IInv, Stages, Locks, Works
<1>1. /\ halted = "no" /\ pc[t] \in {"pinned", "remove"}
      /\ pc' = [pc EXCEPT ![t] = IF pc[t] = "pinned" THEN "transfer" ELSE "name"]
      /\ fileLock = None /\ fileLock' = t
      /\ UNCHANGED <<op, arg, frm, vic, held, scanLock, loc, frameOf, slotOf, pte, pageIn,
                     data, layout, halted>>
  BY <1>0 DEF TakeFileLock, At, Go, Step, pageVars, frameVars, procVars, locks
<1>2. TypeOK'
  BY <1>0, <1>1 DEF TypeOK, PC, Op, data
<1>3. StepOf(t)
  BY <1>0, <1>1 DEF TypeOK, StepOf, Same
<1>4. Stage(t)'
  BY <1>0, <1>1 DEF TypeOK, Stage, Scanning, Evicting, Pinning, HasLock
<1>5. LocksOf(t)'
  BY <1>0, <1>1 DEF TypeOK, LocksOf, Kept, Scanning, Evicting, Pinning, HasLock
<1>6. Work(t)'
  BY <1>0, <1>1 DEF TypeOK, Stage, Work, Kept, Alone, Scanning, Evicting, Pinning
<1>7. Exiting(t) => Exiting(t)'
  BY <1>0, <1>1 DEF TypeOK, Exiting, Stage
<1>8. EmptyFrames'
  BY <1>0, <1>1, <1>3, <1>7, QuietStepKeepsFramesInUse DEF TypeOK, Stage
<1>9. \A q \in Page : Owner[q] = t => StaysPut(q)
  BY <1>0, <1>1 DEF StaysPut, BroughtIn, Abandoned, Stage
<1> QED
  BY <1>1, <1>2, <1>3, <1>4, <1>5, <1>6, <1>7, <1>8, <1>9, QuietStepKeepsIInv DEF TypeOK

(* frame_unlock() at the end of a system call.                              *)
LEMMA PageUnlockKeepsIInv ==
  ASSUME IInv, NEW t \in Proc, PageUnlock(t), halted' = "no"
  PROVE  IInv'
<1> USE VMAssumption
<1>0. TypeOK /\ Stage(t) /\ LocksOf(t) /\ Work(t) /\ EmptyFrames
  BY DEF IInv, Stages, Locks, Works
<1>1. /\ halted = "no" /\ pc[t] = "unlock" /\ frm[t] \in Frame /\ held[frm[t]] = t
      /\ held' = [held EXCEPT ![frm[t]] = None]
      /\ pc' = [pc EXCEPT ![t] = "user"] /\ op' = [op EXCEPT ![t] = "none"]
      /\ arg' = [arg EXCEPT ![t] = None] /\ frm' = [frm EXCEPT ![t] = None]
      /\ vic' = [vic EXCEPT ![t] = None]
      /\ UNCHANGED <<scanLock, fileLock, loc, frameOf, slotOf, pte, pageIn, data, layout,
                     halted>>
  BY <1>0 DEF PageUnlock, Return, Released, Panic, Stage, LocksOf, Work, HasLock, Pinning,
     At, Go, Step, pageVars, frameVars, procVars, locks
<1>2. TypeOK'
  BY <1>0, <1>1 DEF TypeOK, PC, Op, data
<1>3. StepOf(t)
  BY <1>0, <1>1 DEF TypeOK, StepOf, Same
<1>4. Stage(t)'
  BY <1>0, <1>1 DEF TypeOK, Stage, Scanning, Evicting, Pinning, HasLock
<1>5. LocksOf(t)'
  BY <1>0, <1>1 DEF TypeOK, LocksOf, Kept, Scanning, Evicting, Pinning, HasLock, Stage, Frame
<1>6. Work(t)'
  BY <1>0, <1>1 DEF TypeOK, Stage, Work, Kept, Alone, Scanning, Evicting, Pinning
<1>7. Exiting(t) => Exiting(t)'
  BY <1>0, <1>1 DEF TypeOK, Exiting, Stage
<1>8. EmptyFrames'
  BY <1>0, <1>1, <1>3, <1>7, QuietStepKeepsFramesInUse DEF TypeOK, Stage
<1>9. \A q \in Page : Owner[q] = t => StaysPut(q)
  BY <1>0, <1>1 DEF StaysPut, BroughtIn, Abandoned, Stage
<1> QED
  BY <1>1, <1>2, <1>3, <1>4, <1>5, <1>6, <1>7, <1>8, <1>9, QuietStepKeepsIInv DEF TypeOK

(* sys_remove() reads the name once more, with the page unlocked.           *)
LEMMA RemoveFileKeepsIInv ==
  ASSUME IInv, NEW t \in Proc, RemoveFile(t), halted' = "no"
  PROVE  IInv'
<1> USE VMAssumption
<1>0. TypeOK /\ Stage(t) /\ LocksOf(t) /\ Work(t) /\ EmptyFrames
  BY DEF IInv, Stages, Locks, Works
<1>1. /\ halted = "no" /\ pc[t] = "name" /\ fileLock' = None
      /\ pc' = [pc EXCEPT ![t] = "user"] /\ op' = [op EXCEPT ![t] = "none"]
      /\ arg' = [arg EXCEPT ![t] = None] /\ frm' = [frm EXCEPT ![t] = None]
      /\ vic' = [vic EXCEPT ![t] = None]
      /\ UNCHANGED <<held, scanLock, loc, frameOf, slotOf, pte, pageIn, data, layout,
                     halted>>
  BY <1>0 DEF RemoveFile, Return, Panic, At, Go, Step, pageVars, frameVars, procVars, locks
<1>2. TypeOK'
  BY <1>0, <1>1 DEF TypeOK, PC, Op, data
<1>3. StepOf(t)
  BY <1>0, <1>1 DEF TypeOK, StepOf, Same, LocksOf
<1>4. Stage(t)'
  BY <1>0, <1>1 DEF TypeOK, Stage, Scanning, Evicting, Pinning, HasLock
<1>5. LocksOf(t)'
  <2>1. \A f : ~Kept(t, f) /\ ~Kept(t, f)'
    BY <1>0, <1>1 DEF TypeOK, Stage, Kept
  <2> QED
    BY <1>0, <1>1, <2>1 DEF TypeOK, LocksOf, Scanning, Evicting, Pinning, HasLock
<1>6. Work(t)'
  BY <1>0, <1>1 DEF TypeOK, Stage, Work, Kept, Alone, Scanning, Evicting, Pinning
<1>7. Exiting(t) => Exiting(t)'
  BY <1>0, <1>1 DEF TypeOK, Exiting, Stage
<1>8. EmptyFrames'
  BY <1>0, <1>1, <1>3, <1>7, QuietStepKeepsFramesInUse DEF TypeOK, Stage
<1>9. \A q \in Page : Owner[q] = t => StaysPut(q)
  BY <1>0, <1>1 DEF StaysPut, BroughtIn, Abandoned, Stage
<1> QED
  BY <1>1, <1>2, <1>3, <1>4, <1>5, <1>6, <1>7, <1>8, <1>9, QuietStepKeepsIInv DEF TypeOK

(* page_destroy() goes on to the next page.                                 *)
LEMMA DestroyKeepsIInv ==
  ASSUME IInv, NEW t \in Proc, NEW p \in Page, Destroy(t, p)
  PROVE  IInv'
<1> USE VMAssumption
<1>0. TypeOK /\ Stage(t) /\ LocksOf(t) /\ Work(t) /\ EmptyFrames
  BY DEF IInv, Stages, Locks, Works
<1>1. /\ halted = "no" /\ pc[t] = "destroy" /\ Owner[p] = t
      /\ pc' = [pc EXCEPT ![t] = "lock"] /\ arg' = [arg EXCEPT ![t] = p]
      /\ UNCHANGED <<op, frm, vic, held, scanLock, fileLock, loc, frameOf, slotOf, pte,
                     pageIn, data, layout, halted>>
  BY <1>0 DEF Destroy, At, Go, Step, pageVars, frameVars, procVars, locks
<1>2. TypeOK'
  BY <1>0, <1>1 DEF TypeOK, PC, Op, data
<1>3. StepOf(t)
  BY <1>0, <1>1 DEF TypeOK, StepOf, Same
<1>4. Stage(t)'
  BY <1>0, <1>1 DEF TypeOK, Stage, Scanning, Evicting, Pinning, HasLock
<1>5. LocksOf(t)'
  BY <1>0, <1>1 DEF TypeOK, LocksOf, Kept, Scanning, Evicting, Pinning, HasLock
<1>6. Work(t)'
  BY <1>0, <1>1 DEF TypeOK, Stage, Work, Kept, Alone, Scanning, Evicting, Pinning
<1>7. Exiting(t) => Exiting(t)'
  BY <1>0, <1>1 DEF TypeOK, Exiting, Stage
<1>8. EmptyFrames'
  BY <1>0, <1>1, <1>3, <1>7, QuietStepKeepsFramesInUse DEF TypeOK, Stage
<1>9. \A q \in Page : Owner[q] = t => StaysPut(q)
  BY <1>0, <1>1 DEF TypeOK, StaysPut, BroughtIn, Abandoned, Stage, LocksOf
<1> QED
  BY <1>1, <1>2, <1>3, <1>4, <1>5, <1>6, <1>7, <1>8, <1>9, QuietStepKeepsIInv DEF TypeOK

(* There is no page left.                                                   *)
LEMMA GoneKeepsIInv ==
  ASSUME IInv, NEW t \in Proc, Gone(t)
  PROVE  IInv'
<1> USE VMAssumption
<1>0. TypeOK /\ Stage(t) /\ LocksOf(t) /\ Work(t) /\ EmptyFrames
  BY DEF IInv, Stages, Locks, Works
<1>1. /\ halted = "no" /\ pc[t] = "destroy" /\ \A p \in Page : Owner[p] = t => loc[p] = "freed"
      /\ pc' = [pc EXCEPT ![t] = "gone"] /\ op' = [op EXCEPT ![t] = "none"]
      /\ arg' = [arg EXCEPT ![t] = None] /\ frm' = [frm EXCEPT ![t] = None]
      /\ vic' = [vic EXCEPT ![t] = None]
      /\ UNCHANGED <<held, scanLock, fileLock, loc, frameOf, slotOf, pte, pageIn, data,
                     layout, halted>>
  BY <1>0 DEF Gone, Return, At, Go, Step, pageVars, frameVars, procVars, locks
<1>2. TypeOK'
  BY <1>0, <1>1 DEF TypeOK, PC, Op, data
<1>3. StepOf(t)
  BY <1>0, <1>1 DEF TypeOK, StepOf, Same
<1>4. Stage(t)'
  BY <1>0, <1>1 DEF TypeOK, Stage, Scanning, Evicting, Pinning, HasLock
<1>5. LocksOf(t)'
  BY <1>0, <1>1 DEF TypeOK, LocksOf, Kept, Scanning, Evicting, Pinning, HasLock
<1>6. Work(t)'
  BY <1>0, <1>1 DEF TypeOK, Stage, Work, Kept, Alone, Scanning, Evicting, Pinning
<1>7. Exiting(t) => Exiting(t)'
  BY <1>0, <1>1 DEF TypeOK, Exiting, Stage
<1>8. EmptyFrames'
  BY <1>0, <1>1, <1>3, <1>7, QuietStepKeepsFramesInUse DEF TypeOK, Stage
<1>9. \A q \in Page : Owner[q] = t => StaysPut(q)
  BY <1>0, <1>1 DEF StaysPut, BroughtIn, Abandoned, Stage
<1> QED
  BY <1>1, <1>2, <1>3, <1>4, <1>5, <1>6, <1>7, <1>8, <1>9, QuietStepKeepsIInv DEF TypeOK

(* frame_lock() looks again whether the page is still in the frame.         *)
LEMMA RecheckKeepsIInv ==
  ASSUME IInv, NEW t \in Proc, Recheck(t), halted' = "no"
  PROVE  IInv'
<1> USE VMAssumption
<1>0. TypeOK /\ Stage(t) /\ LocksOf(t) /\ Work(t) /\ EmptyFrames
  BY DEF IInv, Stages, Locks, Works
<1>1. /\ halted = "no" /\ pc[t] = "recheck" /\ arg[t] \in Page /\ frm[t] \in Frame
      /\ held[frm[t]] = t
      /\ pc' = [pc EXCEPT ![t] = IF scanLock = t THEN "fill" ELSE "locked"]
      /\ scanLock' = IF scanLock = t THEN None ELSE scanLock
      /\ held' = IF frm[t] = frameOf[arg[t]] THEN held ELSE [held EXCEPT ![frm[t]] = None]
      /\ UNCHANGED <<op, arg, frm, vic, fileLock, loc, frameOf, slotOf, pte, pageIn, data,
                     layout, halted>>
  BY <1>0 DEF TypeOK, Stage, LocksOf, HasLock, Recheck, StillThere, Released, LeaveScan, At,
     Go, Step, pageVars, frameVars, procVars, locks
<1>2. TypeOK'
  BY <1>0, <1>1 DEF TypeOK, PC, Op, data
<1>3. StepOf(t)
  BY <1>0, <1>1 DEF TypeOK, StepOf, Same
<1>4. Stage(t)'
  <2>1. CASE scanLock = t
    BY <1>0, <1>1, <2>1 DEF TypeOK, Stage, Scanning, Evicting, Pinning, HasLock
  <2>2. CASE scanLock # t
    BY <1>0, <1>1, <2>2 DEF TypeOK, Stage, Scanning, Evicting, Pinning, HasLock
  <2> QED
    BY <2>1, <2>2
<1>5. LocksOf(t)'
  BY <1>0, <1>1 DEF TypeOK, LocksOf, Kept, Scanning, Evicting, Pinning, HasLock, Work, Frame
<1>6. Work(t)'
  BY <1>0, <1>1 DEF TypeOK, Stage, Work, Kept, Alone, Scanning, Evicting, Pinning
<1>7. Exiting(t) => Exiting(t)'
  BY <1>0, <1>1 DEF TypeOK, Exiting, Stage
<1>8. EmptyFrames'
  BY <1>0, <1>1, <1>3, <1>7, QuietStepKeepsFramesInUse DEF TypeOK, Stage
<1>9. \A q \in Page : Owner[q] = t => StaysPut(q)
  BY <1>0, <1>1 DEF TypeOK, StaysPut, BroughtIn, Abandoned, Stage
<1> QED
  BY <1>1, <1>2, <1>3, <1>4, <1>5, <1>6, <1>7, <1>8, <1>9, QuietStepKeepsIInv DEF TypeOK

(* frame_alloc_and_lock() takes scan_lock.                                  *)
LEMMA AllocKeepsIInv ==
  ASSUME IInv, NEW t \in Proc, Alloc(t), halted' = "no"
  PROVE  IInv'
<1> USE VMAssumption
<1>0. TypeOK /\ Stage(t) /\ LocksOf(t) /\ Work(t) /\ EmptyFrames
  BY DEF IInv, Stages, Locks, Works
<1>1. /\ halted = "no" /\ pc[t] = "alloc" /\ scanLock = None /\ frameOf[arg[t]] = None
      /\ pc' = [pc EXCEPT ![t] = "scan"]
      /\ frm' = [frm EXCEPT ![t] = 1]
      /\ scanLock' = t
      /\ UNCHANGED <<op, arg, vic, held, fileLock, loc, frameOf, slotOf, pte, pageIn, data,
                     layout, halted>>
  BY <1>0 DEF Alloc, Panic, At, Go, Step, pageVars, frameVars, procVars, locks
<1>2. TypeOK'
  BY <1>0, <1>1 DEF TypeOK, PC, Op, data, Frame
<1>3. StepOf(t)
  BY <1>0, <1>1 DEF TypeOK, StepOf, Same
<1>4. Stage(t)'
  BY <1>0, <1>1 DEF TypeOK, Stage, Scanning, Evicting, Pinning, HasLock
<1>5. LocksOf(t)'
  BY <1>0, <1>1 DEF TypeOK, LocksOf, Kept, Scanning, Evicting, Pinning, HasLock
<1>6. Work(t)'
  BY <1>0, <1>1 DEF TypeOK, Stage, Work, Kept, Alone, Scanning, Evicting, Pinning
<1>7. Exiting(t) => Exiting(t)'
  BY <1>0, <1>1 DEF TypeOK, Exiting, Stage
<1>8. EmptyFrames'
  <2> SUFFICES ASSUME NobodyExits'
               PROVE  FramesInUse'
    BY DEF EmptyFrames
  <2>1. FramesInUse
    BY <1>0, <1>3, <1>7, NobodyExitsBefore DEF EmptyFrames
  <2> QED
    BY <1>0, <1>1, <1>3, <2>1 DEF TypeOK, FramesInUse, StepOf, Same, Frame
<1>9. \A q \in Page : Owner[q] = t => StaysPut(q)
  BY <1>0, <1>1 DEF StaysPut, BroughtIn, Abandoned, Stage
<1> QED
  BY <1>1, <1>2, <1>3, <1>4, <1>5, <1>6, <1>7, <1>8, <1>9, QuietStepKeepsIInv DEF TypeOK

(* The first scan passes by a frame.                                        *)
LEMMA ScanOnKeepsIInv ==
  ASSUME IInv, NEW t \in Proc, Scan(t), ~(CanTake(frm[t]) /\ pageIn[frm[t]] = None)
  PROVE  IInv'
<1> USE VMAssumption
<1>0. TypeOK /\ Stage(t) /\ LocksOf(t) /\ Work(t) /\ EmptyFrames
  BY DEF IInv, Stages, Locks, Works
<1>1. /\ halted = "no" /\ pc[t] = "scan" /\ frm[t] \in Frame
      /\ held[frm[t]] # None \/ pageIn[frm[t]] # None
      /\ frm' = [frm EXCEPT ![t] = frm[t] + 1]
      /\ UNCHANGED <<pc, op, arg, vic, held, scanLock, fileLock, loc, frameOf, slotOf, pte,
                     pageIn, data, layout, halted>>
  BY <1>0 DEF Stage, Frame, Scan, CanTake, At, Go, Step, pageVars, frameVars, procVars,
     locks
<1>2. TypeOK'
  BY <1>0, <1>1 DEF TypeOK, PC, Op, data, Frame
<1>3. StepOf(t)
  BY <1>0, <1>1 DEF TypeOK, StepOf, Same
<1>4. Stage(t)'
  BY <1>0, <1>1 DEF TypeOK, Stage, Scanning, Evicting, Pinning, HasLock, Frame
<1>5. LocksOf(t)'
  BY <1>0, <1>1 DEF TypeOK, LocksOf, Kept, Scanning, Evicting, Pinning, HasLock
<1>6. Work(t)'
  BY <1>0, <1>1 DEF TypeOK, Stage, Work, Kept, Alone, Scanning, Evicting, Pinning
<1>7. Exiting(t) => Exiting(t)'
  BY <1>0, <1>1 DEF TypeOK, Exiting, Stage
<1>8. EmptyFrames'
  <2> SUFFICES ASSUME NobodyExits'
               PROVE  FramesInUse'
    BY DEF EmptyFrames
  <2>1. FramesInUse
    BY <1>0, <1>3, <1>7, NobodyExitsBefore DEF EmptyFrames
  <2>2. pageIn[frm[t]] # None
    <3> SUFFICES ASSUME pageIn[frm[t]] = None
                 PROVE  FALSE
      OBVIOUS
    <3>1. PICK u \in Proc : pc[u] = "after" /\ frm[u] = frm[t]
      BY <1>1, <2>1 DEF FramesInUse
    <3> QED
      BY <1>1, <3>1, Apart DEF IInv, Scanning
  <2>3. \A f \in Frame : f < frm[t] + 1 => f < frm[t] \/ f = frm[t]
    BY <1>1 DEF Frame
  <2> QED
    BY <1>0, <1>1, <1>3, <2>1, <2>2, <2>3 DEF TypeOK, FramesInUse, StepOf, Same
<1>9. \A q \in Page : Owner[q] = t => StaysPut(q)
  BY <1>0, <1>1 DEF StaysPut, BroughtIn, Abandoned, Stage
<1> QED
  BY <1>1, <1>2, <1>3, <1>4, <1>5, <1>6, <1>7, <1>8, <1>9, QuietStepKeepsIInv DEF TypeOK

(***************************************************************************)
(* Finding a frame, and evicting its page                                   *)
(***************************************************************************)

(* The first scan finds an empty frame.                                     *)
LEMMA ScanFoundKeepsIInv ==
  ASSUME IInv, NEW t \in Proc, Scan(t), CanTake(frm[t]), pageIn[frm[t]] = None
  PROVE  IInv'
<1> USE VMAssumption
<1>0. TypeOK /\ Stage(t) /\ LocksOf(t) /\ Work(t) /\ EmptyFrames /\ PagesSound
  BY DEF IInv, Stages, Locks, Works, PagesSound
<1>1. /\ halted = "no" /\ pc[t] = "scan" /\ scanLock = t /\ frm[t] \in Frame /\ arg[t] \in Page
      /\ Owner[arg[t]] = t /\ held[frm[t]] = None /\ pageIn[frm[t]] = None
      /\ frameOf[arg[t]] = None
      /\ frameOf' = [frameOf EXCEPT ![arg[t]] = frm[t]]
      /\ pageIn' = [pageIn EXCEPT ![frm[t]] = arg[t]]
      /\ held' = [held EXCEPT ![frm[t]] = t]
      /\ scanLock' = None
      /\ pc' = [pc EXCEPT ![t] = "fill"]
      /\ UNCHANGED <<op, arg, frm, vic, loc, slotOf, pte, fileLock, mem, swap, changed,
                     torn, layout, halted>>
  BY <1>0 DEF TypeOK, Stage, LocksOf, Work, Scanning, Frame, Scan, CanTake, Acquired,
     LeaveScan, Installed, data, At, Go, Step, pageVars, frameVars, procVars, locks
<1>2. pte[arg[t]] = None /\ loc[arg[t]] \in {"file", "zero", "swap"}
  <2>1. Place(arg[t])
    BY <1>1 DEF IInv, Places
  <2>2. op[t] \in {"stack", "fault", "call"}
    BY <1>0, <1>1 DEF TypeOK, Op, Stage
  <2>3. loc[arg[t]] \in {"file", "zero", "swap", "frame", "freed"}
    BY <1>0, <1>1 DEF TypeOK, Loc
  <2> QED
    BY <1>0, <1>1, <2>1, <2>2, <2>3 DEF TypeOK, Place, Work, Frame
<1>3. TypeOK'
  BY <1>0, <1>1 DEF TypeOK, PC, Loc, Op
<1>4. StepOf(t)
  BY <1>0, <1>1 DEF TypeOK, StepOf, Same
<1>5. Stage(t)'
  BY <1>0, <1>1 DEF TypeOK, Stage, Scanning, Evicting, Pinning, HasLock
<1>6. LocksOf(t)'
  <2>1. \A f : ~Kept(t, f) /\ ~Kept(t, f)'
    BY <1>0, <1>1 DEF TypeOK, Stage, Kept
  <2> QED
    BY <1>0, <1>1, <2>1 DEF TypeOK, LocksOf, Scanning, Evicting, Pinning, HasLock
<1>7. Work(t)'
  BY <1>0, <1>1, <1>2 DEF TypeOK, Stage, Work, Kept, Alone, Scanning, Evicting, Pinning
<1>8. Exiting(t) => Exiting(t)'
  BY <1>0, <1>1 DEF TypeOK, Exiting, Stage
<1>9. EmptyFrames'
  <2> SUFFICES ASSUME NobodyExits'
               PROVE  FramesInUse'
    BY DEF EmptyFrames
  <2>1. FramesInUse
    BY <1>0, <1>4, <1>8, NobodyExitsBefore DEF EmptyFrames
  <2> QED
    BY <1>0, <1>1, <1>4, <2>1 DEF TypeOK, FramesInUse, StepOf, Same, Frame
<1>10. \A u \in Proc \ {t} :
         /\ arg[u] # None => Untouched(arg[u])
         /\ pc[u] \in Evicting => Untouched(vic[u])
         /\ pc[u] = "after" => /\ frameOf'[vic[u]] = frameOf[vic[u]]
                               /\ pageIn'[frm[u]] = pageIn[frm[u]]
  BY <1>0, <1>1, Apart DEF IInv, TypeOK, Untouched, Stages, Stage, Scanning, Evicting
<1>11. Places'
  <2> SUFFICES ASSUME NEW p \in Page
               PROVE  Place(p)'
    BY DEF Places
  <2>1. CASE p = arg[t]
    BY <1>0, <1>1, <1>2, <2>1 DEF TypeOK, Place, BroughtIn, Frame
  <2>2. CASE p # arg[t]
    <3>1. Untouched(p) /\ Place(p)
      BY <1>0, <1>1, <2>2 DEF TypeOK, Untouched, IInv, Places
    <3>2. Owner[p] = t => StaysPut(p)
      BY <1>0, <1>1, <2>2 DEF StaysPut, BroughtIn, Abandoned, Stage
    <3> QED
      BY <1>0, <1>1, <1>4, <1>8, <3>1, <3>2, PageStaysInPlace
  <2> QED
    BY <2>1, <2>2
<1>12. PagesSound'
  <2>1. Links'
    BY <1>0, <1>1 DEF TypeOK, PagesSound, Links, Frame
  <2>2. SlotUse'
    BY <1>0, <1>1 DEF PagesSound, SlotUse
  <2>3. Contents'
    BY <1>0, <1>1, <1>2 DEF TypeOK, PagesSound, Contents, Content
  <2>4. Changes'
    BY <1>0, <1>1 DEF PagesSound, Changes
  <2>5. KeptUnlessTorn'
    BY <1>0, <1>1, <1>2 DEF TypeOK, PagesSound, KeptUnlessTorn, Fresh
  <2> QED
    BY <2>1, <2>2, <2>3, <2>4, <2>5 DEF PagesSound
<1>13. \A q \in Page : loc[q] = "freed" => loc'[q] = "freed"
  BY <1>0, <1>1 DEF TypeOK
<1>14. \A q \in Page \ {arg[t]} : Untouched(q)
  BY <1>0, <1>1 DEF TypeOK, Untouched
<1> QED
  BY <1>3, <1>4, <1>5, <1>6, <1>7, <1>9, <1>10, <1>11, <1>12, <1>13, <1>14, StepKeepsIInv

(* page_out() writes the page to swap, or leaves it to its file.            *)
LEMMA PageOutKeepsIInv ==
  ASSUME IInv, NEW t \in Proc, PageOut(t), halted' = "no"
  PROVE  IInv'
<1> USE VMAssumption
<1>0. TypeOK /\ Stage(t) /\ LocksOf(t) /\ Work(t) /\ EmptyFrames /\ PagesSound
  BY DEF IInv, Stages, Locks, Works
<1>1. /\ halted = "no" /\ pc[t] = "out" /\ vic[t] \in Page /\ frm[t] \in Frame /\ held[frm[t]] = t
      /\ frameOf[vic[t]] = frm[t] /\ loc[vic[t]] = "frame"
      /\ \/ /\ vic[t] \notin layout.writable
            /\ loc' = [loc EXCEPT ![vic[t]] = "file"]
            /\ UNCHANGED <<slotOf, swap>>
         \/ /\ loc' = [loc EXCEPT ![vic[t]] = "swap"]
            /\ \E s \in Slot : /\ swap[s] = None
                              /\ swap' = [swap EXCEPT ![s] = mem[frm[t]]]
                              /\ slotOf' = [slotOf EXCEPT ![vic[t]] = s]
      /\ pc' = [pc EXCEPT ![t] = "clear"]
      /\ UNCHANGED <<op, arg, frm, vic, frameOf, pte, pageIn, held, scanLock, fileLock, mem,
                     changed, torn, layout, halted>>
  BY <1>0 DEF TypeOK, Stage, LocksOf, Work, HasLock, Evicting, PageOut, GoesToSwap, IsFree,
     Panic, frameVars, pageVars, locks, data, At, Go, Step
<1>2. TypeOK'
  BY <1>0, <1>1 DEF TypeOK, PC, Loc
<1>3. StepOf(t)
  BY <1>0, <1>1 DEF TypeOK, StepOf, Same
<1>4. Stage(t)'
  BY <1>0, <1>1 DEF TypeOK, Stage, Scanning, Evicting, Pinning, HasLock
<1>5. LocksOf(t)'
  BY <1>0, <1>1 DEF TypeOK, LocksOf, Kept, Scanning, Evicting, Pinning, HasLock
<1>6. Work(t)'
  BY <1>0, <1>1 DEF TypeOK, Stage, Work, Kept, Alone, Scanning, Evicting, Pinning
<1>7. Exiting(t) => Exiting(t)'
  BY <1>0, <1>1 DEF Exiting, Stage
<1>8. EmptyFrames'
  <2> SUFFICES ASSUME NobodyExits'
               PROVE  FramesInUse'
    BY DEF EmptyFrames
  <2>1. FramesInUse
    BY <1>0, <1>3, <1>7, NobodyExitsBefore DEF EmptyFrames
  <2> QED
    BY <1>0, <1>1, <1>3, <2>1 DEF TypeOK, FramesInUse, StepOf, Same, Frame
<1>9. \A p \in Page \ {vic[t]} : Untouched(p)
  BY <1>0, <1>1 DEF TypeOK, Untouched
<1>10. ASSUME NEW p \in Page, p = vic[t]
       PROVE  Place(p)'
  BY <1>0, <1>1, <1>10 DEF TypeOK, IInv, Places, Place, PutOut, Frame
<1>11. PagesSound'
  <2>1. Links'
    BY <1>0, <1>1 DEF PagesSound, Links
  <2>2. SlotUse'
    <3>1. slotOf[vic[t]] = None
      BY <1>0, <1>1 DEF TypeOK, PagesSound, SlotUse
    <3>2. CASE loc' = [loc EXCEPT ![vic[t]] = "file"] /\ UNCHANGED <<slotOf, swap>>
      BY <1>0, <1>1, <3>1, <3>2 DEF TypeOK, PagesSound, SlotUse
    <3>3. ASSUME NEW s \in Slot, swap[s] = None, loc' = [loc EXCEPT ![vic[t]] = "swap"],
                 swap' = [swap EXCEPT ![s] = mem[frm[t]]], slotOf' = [slotOf EXCEPT ![vic[t]] = s]
          PROVE  SlotUse'
      <4>1. mem[frm[t]] # None /\ s # None
        BY <1>0, <1>1 DEF TypeOK, Data, Slot
      <4>2. \A p \in Page : slotOf[p] # s
        BY <1>0, <3>3, <4>1 DEF PagesSound, SlotUse
      <4>3. \A p \in Page : IF p = vic[t] THEN loc'[p] = "swap" /\ slotOf'[p] = s
                                         ELSE loc'[p] = loc[p] /\ slotOf'[p] = slotOf[p]
        BY <1>0, <1>1, <3>3 DEF TypeOK
      <4>4. \A r \in Slot : swap'[r] = IF r = s THEN mem[frm[t]] ELSE swap[r]
        BY <1>0, <3>3 DEF TypeOK
      <4>5. \A p \in Page : slotOf[p] # None => slotOf[p] \in Slot
        BY <1>0 DEF TypeOK
      <4>6. \A p \in Page : slotOf'[p] # None => swap'[slotOf'[p]] # None /\ loc'[p] \in {"swap", "freed"}
        BY <1>0, <3>3, <4>1, <4>2, <4>3, <4>4, <4>5 DEF PagesSound, SlotUse
      <4>7. \A r \in Slot : swap'[r] # None => \E p \in Page : slotOf'[p] = r
        <5> SUFFICES ASSUME NEW r \in Slot, swap'[r] # None
                     PROVE  \E p \in Page : slotOf'[p] = r
          OBVIOUS
        <5>1. CASE r = s
          BY <1>1, <4>3, <5>1
        <5>2. CASE r # s
          <6>1. PICK p \in Page : slotOf[p] = r
            BY <1>0, <4>4, <5>2 DEF PagesSound, SlotUse
          <6>2. p # vic[t]
            BY <3>1, <6>1, VMAssumption DEF Slot
          <6> QED
            BY <4>3, <6>1, <6>2
        <5> QED
          BY <5>1, <5>2
      <4>8. \A p \in Page : loc'[p] = "swap" => slotOf'[p] # None
        BY <1>0, <4>1, <4>3 DEF PagesSound, SlotUse
      <4>9. \A p, q \in Page : slotOf'[p] # None /\ slotOf'[p] = slotOf'[q] => p = q
        BY <1>0, <4>2, <4>3 DEF PagesSound, SlotUse
      <4> QED
        BY <4>6, <4>7, <4>8, <4>9 DEF SlotUse
    <3> QED
      BY <1>1, <3>2, <3>3
  <2>3. Contents'
    BY <1>0, <1>1 DEF TypeOK, PagesSound, Contents, Content, SlotUse
  <2>4. Changes'
    BY <1>0, <1>1 DEF TypeOK, PagesSound, Changes
  <2>5. KeptUnlessTorn'
    BY <1>0, <1>1 DEF TypeOK, PagesSound, Changes, KeptUnlessTorn, Fresh, SlotUse
  <2> QED
    BY <2>1, <2>2, <2>3, <2>4, <2>5 DEF PagesSound
<1> QED
  BY <1>0, <1>1, <1>2, <1>3, <1>4, <1>5, <1>6, <1>8, <1>9, <1>10, <1>11,
     EvictionStepKeepsIInv
     DEF TypeOK, Evicting

(* page_out() unmaps the page, after it has been written out.               *)
LEMMA ClearPageKeepsIInv ==
  ASSUME IInv, NEW t \in Proc, ClearPage(t), halted' = "no"
  PROVE  IInv'
<1> USE VMAssumption
<1>0. TypeOK /\ Stage(t) /\ LocksOf(t) /\ Work(t) /\ EmptyFrames /\ PagesSound
  BY DEF IInv, Stages, Locks, Works
<1>1. /\ halted = "no" /\ pc[t] = "clear" /\ vic[t] \in Page /\ frm[t] \in Frame /\ held[frm[t]] = t
      /\ frameOf[vic[t]] = frm[t] /\ loc[vic[t]] \in {"file", "swap"}
      /\ pte' = [pte EXCEPT ![vic[t]] = None]
      /\ pc' = [pc EXCEPT ![t] = "free"]
      /\ UNCHANGED <<op, arg, frm, vic, loc, frameOf, slotOf, pageIn, held, scanLock,
                     fileLock, mem, swap, changed, torn, layout, halted>>
  BY <1>0 DEF TypeOK, Stage, LocksOf, Work, HasLock, Evicting, ClearPage, Unmapped,
     frameVars, pageVars, locks, data, At, Go, Step
<1>2. TypeOK'
  BY <1>0, <1>1 DEF TypeOK, PC, Loc
<1>3. StepOf(t)
  BY <1>0, <1>1 DEF TypeOK, StepOf, Same
<1>4. Stage(t)'
  BY <1>0, <1>1 DEF TypeOK, Stage, Scanning, Evicting, Pinning, HasLock
<1>5. LocksOf(t)'
  BY <1>0, <1>1 DEF TypeOK, LocksOf, Kept, Scanning, Evicting, Pinning, HasLock
<1>6. Work(t)'
  BY <1>0, <1>1 DEF TypeOK, Stage, Work, Kept, Alone, Scanning, Evicting, Pinning
<1>7. Exiting(t) => Exiting(t)'
  BY <1>0, <1>1 DEF Exiting, Stage
<1>8. EmptyFrames'
  <2> SUFFICES ASSUME NobodyExits'
               PROVE  FramesInUse'
    BY DEF EmptyFrames
  <2>1. FramesInUse
    BY <1>0, <1>3, <1>7, NobodyExitsBefore DEF EmptyFrames
  <2> QED
    BY <1>0, <1>1, <1>3, <2>1 DEF TypeOK, FramesInUse, StepOf, Same, Frame
<1>9. \A p \in Page \ {vic[t]} : Untouched(p)
  BY <1>0, <1>1 DEF TypeOK, Untouched
<1>10. ASSUME NEW p \in Page, p = vic[t]
       PROVE  Place(p)'
  BY <1>0, <1>1, <1>10 DEF TypeOK, IInv, Places, Place, PutOut, Frame
<1>11. PagesSound'
  <2>1. Links'
    BY <1>0, <1>1 DEF PagesSound, Links
  <2>2. SlotUse'
    BY <1>0, <1>1 DEF PagesSound, SlotUse
  <2>3. Contents'
    BY <1>0, <1>1 DEF TypeOK, PagesSound, Contents, Content
  <2>4. Changes'
    BY <1>0, <1>1 DEF PagesSound, Changes
  <2>5. KeptUnlessTorn'
    BY <1>0, <1>1 DEF PagesSound, KeptUnlessTorn, Fresh
  <2> QED
    BY <2>1, <2>2, <2>3, <2>4, <2>5 DEF PagesSound
<1> QED
  BY <1>0, <1>1, <1>2, <1>3, <1>4, <1>5, <1>6, <1>8, <1>9, <1>10, <1>11,
     EvictionStepKeepsIInv
     DEF TypeOK, Evicting

(* page_out() takes the frame from the page.                                *)
LEMMA FreeFrameKeepsIInv ==
  ASSUME IInv, NEW t \in Proc, FreeFrame(t), halted' = "no"
  PROVE  IInv'
<1> USE VMAssumption
<1>0. TypeOK /\ Stage(t) /\ LocksOf(t) /\ Work(t) /\ EmptyFrames /\ PagesSound
  BY DEF IInv, Stages, Locks, Works
<1>1. /\ halted = "no" /\ pc[t] = "free" /\ vic[t] \in Page /\ frm[t] \in Frame /\ held[frm[t]] = t
      /\ frameOf[vic[t]] = frm[t] /\ pte[vic[t]] = None /\ loc[vic[t]] \in {"file", "swap"}
      /\ pageIn' = [pageIn EXCEPT ![frm[t]] = None]
      /\ frameOf' = [frameOf EXCEPT ![vic[t]] = None]
      /\ held' = [held EXCEPT ![frm[t]] = None]
      /\ pc' = [pc EXCEPT ![t] = "after"]
      /\ UNCHANGED <<op, arg, frm, vic, loc, slotOf, pte, scanLock, fileLock, mem, swap,
                     changed, torn, layout, halted>>
  BY <1>0 DEF TypeOK, Stage, LocksOf, Work, HasLock, Evicting, FreeFrame, FrameFreed,
     Released, frameVars, pageVars, locks, data, At, Go, Step
<1>2. TypeOK'
  BY <1>0, <1>1 DEF TypeOK, PC, Loc
<1>3. StepOf(t)
  BY <1>0, <1>1 DEF TypeOK, StepOf, Same
<1>4. Stage(t)'
  BY <1>0, <1>1 DEF TypeOK, Stage, Scanning, Evicting, Pinning, HasLock
<1>5. LocksOf(t)'
  <2>1. \A f : ~Kept(t, f) /\ ~Kept(t, f)'
    BY <1>0, <1>1 DEF TypeOK, Stage, Kept
  <2> QED
    BY <1>0, <1>1, <2>1 DEF TypeOK, LocksOf, Scanning, Evicting, Pinning, HasLock
<1>6. Work(t)'
  BY <1>0, <1>1 DEF TypeOK, Stage, Work, Kept, Alone, Scanning, Evicting, Pinning
<1>7. Exiting(t) => Exiting(t)'
  BY <1>0, <1>1 DEF Exiting, Stage
<1>8. EmptyFrames'
  <2> SUFFICES ASSUME NobodyExits'
               PROVE  FramesInUse'
    BY DEF EmptyFrames
  <2>1. FramesInUse
    BY <1>0, <1>3, <1>7, NobodyExitsBefore DEF EmptyFrames
  <2>2. \A u \in Proc : pc'[u] # "scan"
    BY <1>0, <1>1, Apart DEF TypeOK, IInv, Scanning, Evicting
  <2> QED
    BY <1>0, <1>1, <1>3, <2>1, <2>2 DEF TypeOK, FramesInUse, StepOf, Same
<1>9. \A p \in Page \ {vic[t]} : Untouched(p)
  BY <1>0, <1>1 DEF TypeOK, Untouched
<1>10. ASSUME NEW p \in Page, p = vic[t]
       PROVE  Place(p)'
  BY <1>0, <1>1, <1>10 DEF TypeOK, IInv, Places, Place, PutOut, Frame
<1>11. PagesSound'
  <2>1. Links'
    BY <1>0, <1>1 DEF TypeOK, PagesSound, Links, Frame
  <2>2. SlotUse'
    BY <1>0, <1>1 DEF PagesSound, SlotUse
  <2>3. Contents'
    BY <1>0, <1>1 DEF TypeOK, PagesSound, Contents, Content
  <2>4. Changes'
    BY <1>0, <1>1 DEF PagesSound, Changes
  <2>5. KeptUnlessTorn'
    BY <1>0, <1>1 DEF TypeOK, PagesSound, KeptUnlessTorn, Fresh
  <2> QED
    BY <2>1, <2>2, <2>3, <2>4, <2>5 DEF PagesSound
<1> QED
  BY <1>0, <1>1, <1>2, <1>3, <1>4, <1>5, <1>6, <1>8, <1>9, <1>10, <1>11,
     EvictionStepKeepsIInv
     DEF TypeOK, Evicting

(* The frame is given to the page that needed it.                           *)
LEMMA AfterPageOutKeepsIInv ==
  ASSUME IInv, NEW t \in Proc, AfterPageOut(t), halted' = "no"
  PROVE  IInv'
<1> USE VMAssumption
<1>0. TypeOK /\ Stage(t) /\ LocksOf(t) /\ Work(t) /\ EmptyFrames /\ PagesSound
  BY DEF IInv, Stages, Locks, Works, PagesSound
<1>1. /\ halted = "no" /\ pc[t] = "after" /\ scanLock = t /\ frm[t] \in Frame /\ arg[t] \in Page
      /\ Owner[arg[t]] = t /\ pageIn[frm[t]] = None /\ frameOf[arg[t]] = None
      /\ frameOf' = [frameOf EXCEPT ![arg[t]] = frm[t]]
      /\ pageIn' = [pageIn EXCEPT ![frm[t]] = arg[t]]
      /\ pc' = [pc EXCEPT ![t] = "acquire"] /\ vic' = [vic EXCEPT ![t] = None]
      /\ UNCHANGED <<op, arg, frm, loc, slotOf, pte, held, scanLock, fileLock, mem, swap,
                     changed, torn, layout, halted>>
  BY <1>0 DEF TypeOK, Stage, LocksOf, Work, Scanning, AfterPageOut, Panic, Installed, data,
     At, Go, Step, pageVars, frameVars, procVars, locks
<1>2. pte[arg[t]] = None /\ loc[arg[t]] \in {"file", "zero", "swap"}
  <2>1. Place(arg[t])
    BY <1>1 DEF IInv, Places
  <2>2. op[t] \in {"stack", "fault", "call"}
    BY <1>0, <1>1 DEF TypeOK, Op, Stage
  <2>3. loc[arg[t]] \in {"file", "zero", "swap", "frame", "freed"}
    BY <1>0, <1>1 DEF TypeOK, Loc
  <2> QED
    BY <1>0, <1>1, <2>1, <2>2, <2>3 DEF TypeOK, Place, Work, Frame
<1>3. TypeOK'
  BY <1>0, <1>1 DEF TypeOK, PC, Loc, Op
<1>4. StepOf(t)
  BY <1>0, <1>1 DEF TypeOK, StepOf, Same
<1>5. Stage(t)'
  BY <1>0, <1>1 DEF TypeOK, Stage, Scanning, Evicting, Pinning, HasLock
<1>6. LocksOf(t)'
  <2>1. \A f : ~Kept(t, f) /\ ~Kept(t, f)'
    BY <1>0, <1>1 DEF TypeOK, Stage, Kept
  <2> QED
    BY <1>0, <1>1, <2>1 DEF TypeOK, LocksOf, Scanning, Evicting, Pinning, HasLock
<1>7. Work(t)'
  BY <1>0, <1>1, <1>2 DEF TypeOK, Stage, Work, Kept, Alone, Scanning, Evicting, Pinning
<1>8. Exiting(t) => Exiting(t)'
  BY <1>0, <1>1 DEF TypeOK, Exiting, Stage
<1>9. EmptyFrames'
  <2> SUFFICES ASSUME NobodyExits'
               PROVE  FramesInUse'
    BY DEF EmptyFrames
  <2>1. FramesInUse
    BY <1>0, <1>4, <1>8, NobodyExitsBefore DEF EmptyFrames
  <2> QED
    BY <1>0, <1>1, <1>4, <2>1 DEF TypeOK, FramesInUse, StepOf, Same, Frame
<1>10. \A u \in Proc \ {t} :
         /\ arg[u] # None => Untouched(arg[u])
         /\ pc[u] \in Evicting => Untouched(vic[u])
         /\ pc[u] = "after" => /\ frameOf'[vic[u]] = frameOf[vic[u]]
                               /\ pageIn'[frm[u]] = pageIn[frm[u]]
  BY <1>0, <1>1, Apart DEF IInv, TypeOK, Untouched, Stages, Stage, Scanning, Evicting
<1>11. Places'
  <2> SUFFICES ASSUME NEW p \in Page
               PROVE  Place(p)'
    BY DEF Places
  <2>1. CASE p = arg[t]
    BY <1>0, <1>1, <1>2, <2>1 DEF TypeOK, Place, BroughtIn, Frame
  <2>2. CASE p # arg[t]
    <3>1. Untouched(p) /\ Place(p)
      BY <1>0, <1>1, <2>2 DEF TypeOK, Untouched, IInv, Places
    <3>2. Owner[p] = t => StaysPut(p)
      BY <1>0, <1>1, <2>2 DEF TypeOK, StaysPut, BroughtIn, Abandoned, Stage
    <3> QED
      BY <1>0, <1>1, <1>4, <1>8, <3>1, <3>2, PageStaysInPlace
  <2> QED
    BY <2>1, <2>2
<1>12. PagesSound'
  <2>1. Links'
    BY <1>0, <1>1 DEF TypeOK, PagesSound, Links, Frame
  <2>2. SlotUse'
    BY <1>0, <1>1 DEF PagesSound, SlotUse
  <2>3. Contents'
    BY <1>0, <1>1, <1>2 DEF TypeOK, PagesSound, Contents, Content
  <2>4. Changes'
    BY <1>0, <1>1 DEF PagesSound, Changes
  <2>5. KeptUnlessTorn'
    BY <1>0, <1>1, <1>2 DEF TypeOK, PagesSound, KeptUnlessTorn, Fresh
  <2> QED
    BY <2>1, <2>2, <2>3, <2>4, <2>5 DEF PagesSound
<1>13. \A p \in Page : loc[p] = "freed" => loc'[p] = "freed"
  BY <1>0, <1>1 DEF TypeOK
<1>14. \A q \in Page \ {arg[t]} : Untouched(q)
  BY <1>0, <1>1 DEF TypeOK, Untouched
<1> QED
  BY <1>3, <1>4, <1>5, <1>6, <1>7, <1>9, <1>10, <1>11, <1>12, <1>13, <1>14, StepKeepsIInv

(***************************************************************************)
(* Bringing a page in                                                       *)
(***************************************************************************)

(* do_page_in(): a page of zeros, which may be one more page of the stack.  *)
LEMMA FillZeroKeepsIInv ==
  ASSUME IInv, NEW t \in Proc, Fill(t), loc[arg[t]] = "zero"
  PROVE  IInv'
<1> USE VMAssumption
<1>0. TypeOK /\ Stage(t) /\ LocksOf(t) /\ Work(t) /\ EmptyFrames /\ PagesSound
  BY DEF IInv, Stages, Locks, Works, PagesSound
<1>1. /\ halted = "no" /\ pc[t] = "fill" /\ frm[t] \in Frame /\ arg[t] \in Page /\ op[t] \in {"fault", "call"}
      /\ Owner[arg[t]] = t /\ frameOf[arg[t]] = frm[t] /\ pte[arg[t]] = None
      /\ mem' = [mem EXCEPT ![frm[t]] = [from |-> {}, fresh |-> TRUE]]
      /\ loc' = [loc EXCEPT ![arg[t]] = "frame"]
      /\ pc' = [pc EXCEPT ![t] = "filled"]
      /\ UNCHANGED <<op, arg, frm, vic, frameOf, slotOf, pte, pageIn, held, scanLock,
                     fileLock, swap, changed, torn, layout, halted>>
  BY <1>0 DEF Op, Zeroed, TypeOK, Stage, LocksOf, Work, HasLock, Fill, Panic, data, At, Go,
     Step, pageVars, frameVars, procVars, locks
<1>2. \A p \in Page : p # arg[t] => frameOf[p] # frm[t]
  BY <1>0, <1>1 DEF PagesSound, Links
<1>3. TypeOK'
  BY <1>0, <1>1 DEF TypeOK, PC, Loc, Op, Data
<1>4. StepOf(t)
  BY <1>0, <1>1 DEF TypeOK, StepOf, Same
<1>5. Stage(t)'
  BY <1>0, <1>1 DEF TypeOK, Stage, Scanning, Evicting, Pinning, HasLock
<1>6. LocksOf(t)'
  BY <1>0, <1>1 DEF TypeOK, LocksOf, Kept, Scanning, Evicting, Pinning, HasLock
<1>7. Work(t)'
  BY <1>0, <1>1 DEF TypeOK, Stage, Work, Kept, Alone, Scanning, Evicting, Pinning
<1>8. Exiting(t) => Exiting(t)'
  BY <1>0, <1>1 DEF TypeOK, Exiting, Stage
<1>9. EmptyFrames'
  BY <1>0, <1>1, <1>4, <1>8, QuietStepKeepsFramesInUse DEF TypeOK, Stage
<1>10. \A u \in Proc \ {t} :
         /\ arg[u] # None => Untouched(arg[u])
         /\ pc[u] \in Evicting => Untouched(vic[u])
         /\ pc[u] = "after" => /\ frameOf'[vic[u]] = frameOf[vic[u]]
                               /\ pageIn'[frm[u]] = pageIn[frm[u]]
  BY <1>0, <1>1, Apart DEF IInv, TypeOK, Untouched, Stages, Stage, Pinning, Evicting
<1>11. Places'
  <2> SUFFICES ASSUME NEW p \in Page
               PROVE  Place(p)'
    BY DEF Places
  <2>1. CASE p = arg[t]
    BY <1>0, <1>1, <2>1 DEF TypeOK, Place, BroughtIn, Frame
  <2>2. CASE p # arg[t]
    <3>1. Untouched(p) /\ Place(p)
      BY <1>0, <1>1, <2>2 DEF TypeOK, Untouched, IInv, Places
    <3>2. Owner[p] = t => StaysPut(p)
      BY <1>0, <1>1, <2>2 DEF TypeOK, StaysPut, BroughtIn, Abandoned, Stage
    <3> QED
      BY <1>0, <1>1, <1>4, <1>8, <3>1, <3>2, PageStaysInPlace
  <2> QED
    BY <2>1, <2>2
<1>12. PagesSound'
  <2>1. Links'
    BY <1>0, <1>1 DEF PagesSound, Links
  <2>2. SlotUse'
    BY <1>0, <1>1 DEF TypeOK, PagesSound, SlotUse
  <2>3. Contents'
    <3> SUFFICES ASSUME NEW p \in Page \ {Stack[u] : u \in Proc}
                 PROVE  Content(p)'
      BY DEF Contents
    <3>1. CASE p = arg[t]
      BY <1>0, <1>1, <3>1 DEF TypeOK, PagesSound, Contents, Content
    <3>2. CASE p # arg[t]
      BY <1>0, <1>1, <1>2, <3>2 DEF TypeOK, PagesSound, Contents, Content
    <3> QED
      BY <3>1, <3>2
  <2>4. Changes'
    BY <1>0, <1>1 DEF TypeOK, PagesSound, Changes
  <2>5. KeptUnlessTorn'
    <3> SUFFICES ASSUME NEW p \in Page \ torn
                 PROVE  Fresh(p)'
      BY <1>1 DEF KeptUnlessTorn
    <3>1. CASE p = arg[t]
      BY <1>0, <1>1, <3>1 DEF TypeOK, PagesSound, KeptUnlessTorn, Fresh, Frame
    <3>2. CASE p # arg[t]
      BY <1>0, <1>1, <1>2, <3>2 DEF TypeOK, PagesSound, KeptUnlessTorn, Fresh
    <3> QED
      BY <3>1, <3>2
  <2> QED
    BY <2>1, <2>2, <2>3, <2>4, <2>5 DEF PagesSound
<1>13. \A p \in Page : loc[p] = "freed" => loc'[p] = "freed"
  BY <1>0, <1>1 DEF TypeOK
<1>14. \A q \in Page \ {arg[t]} : Untouched(q)
  BY <1>0, <1>1 DEF TypeOK, Untouched
<1> QED
  BY <1>3, <1>4, <1>5, <1>6, <1>7, <1>9, <1>10, <1>11, <1>12, <1>13, <1>14, StepKeepsIInv

(* do_page_in(): a page that comes back from swap.                          *)
LEMMA FillFromSwapKeepsIInv ==
  ASSUME IInv, NEW t \in Proc, Fill(t), loc[arg[t]] = "swap"
  PROVE  IInv'
<1> USE VMAssumption
<1>0. TypeOK /\ Stage(t) /\ LocksOf(t) /\ Work(t) /\ EmptyFrames /\ PagesSound
  BY DEF IInv, Stages, Locks, Works, PagesSound
<1>1. /\ halted = "no" /\ pc[t] = "fill" /\ frm[t] \in Frame /\ arg[t] \in Page /\ op[t] \in {"fault", "call"}
      /\ Owner[arg[t]] = t /\ frameOf[arg[t]] = frm[t] /\ pte[arg[t]] = None
      /\ slotOf[arg[t]] \in Slot /\ swap[slotOf[arg[t]]] # None
      /\ mem' = [mem EXCEPT ![frm[t]] = swap[slotOf[arg[t]]]]
      /\ swap' = [swap EXCEPT ![slotOf[arg[t]]] = None]
      /\ slotOf' = [slotOf EXCEPT ![arg[t]] = None]
      /\ loc' = [loc EXCEPT ![arg[t]] = "frame"]
      /\ pc' = [pc EXCEPT ![t] = "filled"]
      /\ UNCHANGED <<op, arg, frm, vic, frameOf, pte, pageIn, held, scanLock, fileLock,
                     changed, torn, layout, halted>>
  BY <1>0 DEF Op, PagesSound, SlotUse, TypeOK, Stage, LocksOf, Work, HasLock, Fill, Panic,
     data, At, Go, Step, pageVars, frameVars, procVars, locks
<1>2. \A p \in Page : p # arg[t] => frameOf[p] # frm[t]
  BY <1>0, <1>1 DEF PagesSound, Links
<1>3. TypeOK'
  BY <1>0, <1>1 DEF TypeOK, PC, Loc, Op
<1>4. StepOf(t)
  BY <1>0, <1>1 DEF TypeOK, StepOf, Same
<1>5. Stage(t)'
  BY <1>0, <1>1 DEF TypeOK, Stage, Scanning, Evicting, Pinning, HasLock
<1>6. LocksOf(t)'
  BY <1>0, <1>1 DEF TypeOK, LocksOf, Kept, Scanning, Evicting, Pinning, HasLock
<1>7. Work(t)'
  BY <1>0, <1>1 DEF TypeOK, Stage, Work, Kept, Alone, Scanning, Evicting, Pinning
<1>8. Exiting(t) => Exiting(t)'
  BY <1>0, <1>1 DEF TypeOK, Exiting, Stage
<1>9. EmptyFrames'
  BY <1>0, <1>1, <1>4, <1>8, QuietStepKeepsFramesInUse DEF TypeOK, Stage
<1>10. \A u \in Proc \ {t} :
         /\ arg[u] # None => Untouched(arg[u])
         /\ pc[u] \in Evicting => Untouched(vic[u])
         /\ pc[u] = "after" => /\ frameOf'[vic[u]] = frameOf[vic[u]]
                               /\ pageIn'[frm[u]] = pageIn[frm[u]]
  BY <1>0, <1>1, Apart DEF IInv, TypeOK, Untouched, Stages, Stage, Pinning, Evicting
<1>11. Places'
  <2> SUFFICES ASSUME NEW p \in Page
               PROVE  Place(p)'
    BY DEF Places
  <2>1. CASE p = arg[t]
    BY <1>0, <1>1, <2>1 DEF TypeOK, Place, BroughtIn, Frame
  <2>2. CASE p # arg[t]
    <3>1. Untouched(p) /\ Place(p)
      BY <1>0, <1>1, <2>2 DEF TypeOK, Untouched, IInv, Places
    <3>2. Owner[p] = t => StaysPut(p)
      BY <1>0, <1>1, <2>2 DEF TypeOK, StaysPut, BroughtIn, Abandoned, Stage
    <3> QED
      BY <1>0, <1>1, <1>4, <1>8, <3>1, <3>2, PageStaysInPlace
  <2> QED
    BY <2>1, <2>2
<1>12. PagesSound'
  <2>1. Links'
    BY <1>0, <1>1 DEF PagesSound, Links
  <2>2. SlotUse'
    BY <1>0, <1>1 DEF TypeOK, PagesSound, SlotUse, Slot
  <2>3. Contents'
    <3> SUFFICES ASSUME NEW p \in Page \ {Stack[u] : u \in Proc}
                 PROVE  Content(p)'
      BY DEF Contents
    <3>1. CASE p = arg[t]
      BY <1>0, <1>1, <3>1 DEF TypeOK, PagesSound, Contents, Content, SlotUse
    <3>2. CASE p # arg[t]
      BY <1>0, <1>1, <1>2, <3>2 DEF TypeOK, PagesSound, Contents, Content, SlotUse
    <3> QED
      BY <3>1, <3>2
  <2>4. Changes'
    BY <1>0, <1>1 DEF TypeOK, PagesSound, Changes
  <2>5. KeptUnlessTorn'
    <3> SUFFICES ASSUME NEW p \in Page \ torn
                 PROVE  Fresh(p)'
      BY <1>1 DEF KeptUnlessTorn
    <3>1. CASE p = arg[t]
      BY <1>0, <1>1, <3>1 DEF TypeOK, PagesSound, KeptUnlessTorn, Fresh, SlotUse, Frame
    <3>2. CASE p # arg[t]
      BY <1>0, <1>1, <1>2, <3>2 DEF TypeOK, PagesSound, KeptUnlessTorn, Fresh, SlotUse
    <3> QED
      BY <3>1, <3>2
  <2> QED
    BY <2>1, <2>2, <2>3, <2>4, <2>5 DEF PagesSound
<1>13. \A p \in Page : loc[p] = "freed" => loc'[p] = "freed"
  BY <1>0, <1>1 DEF TypeOK
<1>14. \A q \in Page \ {arg[t]} : Untouched(q)
  BY <1>0, <1>1 DEF TypeOK, Untouched
<1> QED
  BY <1>3, <1>4, <1>5, <1>6, <1>7, <1>9, <1>10, <1>11, <1>12, <1>13, <1>14, StepKeepsIInv

(* do_page_in(): a page whose file must be read under file_lock.            *)
LEMMA FillFromFileKeepsIInv ==
  ASSUME IInv, NEW t \in Proc, Fill(t), loc[arg[t]] = "file"
  PROVE  IInv'
<1> USE VMAssumption
<1>0. TypeOK /\ Stage(t) /\ LocksOf(t) /\ Work(t) /\ EmptyFrames
  BY DEF IInv, Stages, Locks, Works
<1>1. /\ halted = "no" /\ pc[t] = "fill" /\ frm[t] \in Frame /\ arg[t] \in Page /\ op[t] \in {"fault", "call"}
      /\ Owner[arg[t]] = t /\ frameOf[arg[t]] = frm[t] /\ pte[arg[t]] = None
      /\ fileLock = None /\ fileLock' = t
      /\ pc' = [pc EXCEPT ![t] = "reading"]
      /\ UNCHANGED <<op, arg, frm, vic, held, scanLock, loc, frameOf, slotOf, pte, pageIn,
                     data, layout, halted>>
  BY <1>0 DEF Op, TypeOK, Stage, LocksOf, Work, HasLock, Fill, Panic, data, At, Go, Step,
     pageVars, frameVars, procVars, locks
<1>2. TypeOK'
  BY <1>0, <1>1 DEF TypeOK, PC, Op, data
<1>3. StepOf(t)
  BY <1>0, <1>1 DEF TypeOK, StepOf, Same
<1>4. Stage(t)'
  BY <1>0, <1>1 DEF TypeOK, Stage, Scanning, Evicting, Pinning, HasLock
<1>5. LocksOf(t)'
  BY <1>0, <1>1 DEF TypeOK, LocksOf, Kept, Scanning, Evicting, Pinning, HasLock
<1>6. Work(t)'
  BY <1>0, <1>1 DEF TypeOK, Stage, Work, Kept, Alone, Scanning, Evicting, Pinning
<1>7. Exiting(t) => Exiting(t)'
  BY <1>0, <1>1 DEF TypeOK, Exiting, Stage
<1>8. EmptyFrames'
  BY <1>0, <1>1, <1>3, <1>7, QuietStepKeepsFramesInUse DEF TypeOK, Stage
<1>9. \A q \in Page : Owner[q] = t => StaysPut(q)
  BY <1>0, <1>1 DEF TypeOK, StaysPut, BroughtIn, Abandoned, Stage
<1> QED
  BY <1>1, <1>2, <1>3, <1>4, <1>5, <1>6, <1>7, <1>8, <1>9, QuietStepKeepsIInv DEF TypeOK

(* file_read_at() returns the whole page.                                   *)
LEMMA ReadWholeKeepsIInv ==
  ASSUME IInv, NEW t \in Proc, ReadFile(t), arg[t] \notin layout.short
  PROVE  IInv'
<1> USE VMAssumption
<1>0. TypeOK /\ Stage(t) /\ LocksOf(t) /\ Work(t) /\ EmptyFrames /\ PagesSound
  BY DEF IInv, Stages, Locks, Works, PagesSound
<1>1. /\ halted = "no" /\ pc[t] = "reading" /\ frm[t] \in Frame /\ arg[t] \in Page
      /\ op[t] \in {"fault", "call"} /\ Owner[arg[t]] = t /\ frameOf[arg[t]] = frm[t]
      /\ pte[arg[t]] = None /\ loc[arg[t]] = "file" /\ held[frm[t]] = t /\ fileLock = t
  <2> halted = "no" /\ pc[t] = "reading"
    BY DEF ReadFile, At
  <2> QED
    BY <1>0 DEF TypeOK, Stage, LocksOf, Work, HasLock
<1>2. /\ halted = "no" /\ pc[t] = "reading" /\ frm[t] \in Frame /\ arg[t] \in Page /\ op[t] \in {"fault", "call"}
      /\ Owner[arg[t]] = t /\ frameOf[arg[t]] = frm[t] /\ pte[arg[t]] = None
      /\ loc[arg[t]] = "file" /\ held[frm[t]] = t /\ fileLock = t
      /\ mem' = [mem EXCEPT ![frm[t]] = [from |-> {arg[t]}, fresh |-> arg[t] \notin changed]]
      /\ fileLock' = None
      /\ loc' = [loc EXCEPT ![arg[t]] = "frame"]
      /\ pc' = [pc EXCEPT ![t] = "filled"]
      /\ UNCHANGED <<op, arg, frm, vic, frameOf, slotOf, pte, pageIn, held, scanLock, swap,
                     changed, torn, layout, halted>>
  BY <1>0, <1>1 DEF ReadFile, Return, Released, Panic, data, At, Go, Step, pageVars,
     frameVars, procVars, locks
<1>3. \A p \in Page : p # arg[t] => frameOf[p] # frm[t]
  BY <1>0, <1>2 DEF PagesSound, Links
<1>4. TypeOK'
  BY <1>0, <1>2 DEF TypeOK, PC, Loc, Op, Data
<1>5. StepOf(t)
  BY <1>0, <1>2 DEF TypeOK, StepOf, Same
<1>6. Stage(t)'
  BY <1>0, <1>2 DEF TypeOK, Stage, Scanning, Evicting, Pinning, HasLock
<1>7. LocksOf(t)'
  BY <1>0, <1>2 DEF TypeOK, LocksOf, Kept, Scanning, Evicting, Pinning, HasLock
<1>8. Work(t)'
  BY <1>0, <1>2 DEF TypeOK, Stage, Work, Kept, Alone, Scanning, Evicting, Pinning
<1>9. Exiting(t) => Exiting(t)'
  BY <1>0, <1>2 DEF TypeOK, Exiting, Stage
<1>10. EmptyFrames'
  BY <1>0, <1>2, <1>5, <1>9, QuietStepKeepsFramesInUse DEF TypeOK, Stage
<1>11. \A u \in Proc \ {t} :
         /\ arg[u] # None => Untouched(arg[u])
         /\ pc[u] \in Evicting => Untouched(vic[u])
         /\ pc[u] = "after" => /\ frameOf'[vic[u]] = frameOf[vic[u]]
                               /\ pageIn'[frm[u]] = pageIn[frm[u]]
  BY <1>0, <1>2, Apart DEF IInv, TypeOK, Untouched, Stages, Stage, Pinning, Evicting
<1>12. Places'
  <2> SUFFICES ASSUME NEW p \in Page
               PROVE  Place(p)'
    BY DEF Places
  <2>1. CASE p = arg[t]
    BY <1>0, <1>2, <2>1 DEF TypeOK, Place, BroughtIn, Frame
  <2>2. CASE p # arg[t]
    <3>1. Untouched(p) /\ Place(p)
      BY <1>0, <1>2, <2>2 DEF TypeOK, Untouched, IInv, Places
    <3>2. Owner[p] = t => StaysPut(p)
      BY <1>0, <1>2, <2>2 DEF TypeOK, StaysPut, BroughtIn, Abandoned, Stage
    <3> QED
      BY <1>0, <1>2, <1>5, <1>9, <3>1, <3>2, PageStaysInPlace
  <2> QED
    BY <2>1, <2>2
<1>13. PagesSound'
  <2>1. Links'
    BY <1>0, <1>2 DEF PagesSound, Links
  <2>2. SlotUse'
    BY <1>0, <1>2 DEF TypeOK, PagesSound, SlotUse
  <2>3. Contents'
    <3> SUFFICES ASSUME NEW p \in Page \ {Stack[u] : u \in Proc}
                 PROVE  Content(p)'
      BY DEF Contents
    <3>1. CASE p = arg[t]
      BY <1>0, <1>2, <3>1 DEF TypeOK, PagesSound, Contents, Content
    <3>2. CASE p # arg[t]
      BY <1>0, <1>2, <1>3, <3>2 DEF TypeOK, PagesSound, Contents, Content
    <3> QED
      BY <3>1, <3>2
  <2>4. Changes'
    BY <1>0, <1>2 DEF TypeOK, PagesSound, Changes
  <2>5. KeptUnlessTorn'
    <3> SUFFICES ASSUME NEW p \in Page \ torn
                 PROVE  Fresh(p)'
      BY <1>2 DEF KeptUnlessTorn
    <3>1. CASE p = arg[t]
      <4>1. p \notin changed
        BY <1>0, <1>2, <3>1 DEF PagesSound, KeptUnlessTorn, Fresh
      <4>2. mem'[frm[t]].fresh
        <5>1. mem'[frm[t]] = [from |-> {arg[t]}, fresh |-> arg[t] \notin changed]
          BY <1>0, <1>2 DEF TypeOK
        <5> QED
          BY <3>1, <4>1, <5>1, ReadFresh
      <4> QED
        BY <1>0, <1>2, <3>1, <4>2 DEF TypeOK, Fresh, Frame
    <3>2. CASE p # arg[t]
      BY <1>0, <1>2, <1>3, <3>2 DEF TypeOK, PagesSound, KeptUnlessTorn, Fresh
    <3> QED
      BY <3>1, <3>2
  <2> QED
    BY <2>1, <2>2, <2>3, <2>4, <2>5 DEF PagesSound
<1>14. \A p \in Page : loc[p] = "freed" => loc'[p] = "freed"
  BY <1>0, <1>2 DEF TypeOK
<1>15. \A q \in Page \ {arg[t]} : Untouched(q)
  BY <1>0, <1>1, <1>2 DEF TypeOK, Untouched
<1> QED
  BY <1>4, <1>5, <1>6, <1>7, <1>8, <1>10, <1>11, <1>12, <1>13, <1>14, <1>15, StepKeepsIInv

(* file_read_at() returns too little, and the process exits without the page. *)
LEMMA ReadShortKeepsIInv ==
  ASSUME IInv, NEW t \in Proc, ReadFile(t), arg[t] \in layout.short, halted' = "no"
  PROVE  IInv'
<1> USE VMAssumption
<1>0. TypeOK /\ Stage(t) /\ LocksOf(t) /\ Work(t) /\ EmptyFrames /\ PagesSound
  BY DEF IInv, Stages, Locks, Works, PagesSound
<1>1. /\ halted = "no" /\ pc[t] = "reading" /\ frm[t] \in Frame /\ arg[t] \in Page
      /\ op[t] \in {"fault", "call"} /\ Owner[arg[t]] = t /\ frameOf[arg[t]] = frm[t]
      /\ pte[arg[t]] = None /\ loc[arg[t]] = "file" /\ held[frm[t]] = t /\ fileLock = t
  <2> halted = "no" /\ pc[t] = "reading"
    BY DEF ReadFile, At
  <2> QED
    BY <1>0 DEF TypeOK, Stage, LocksOf, Work, HasLock
<1>2. /\ halted = "no" /\ pc[t] = "reading" /\ frm[t] \in Frame /\ arg[t] \in Page /\ op[t] \in {"fault", "call"}
      /\ Owner[arg[t]] = t /\ frameOf[arg[t]] = frm[t] /\ pte[arg[t]] = None
      /\ loc[arg[t]] = "file" /\ held[frm[t]] = t /\ fileLock = t
      /\ mem' = [mem EXCEPT ![frm[t]] = [from |-> {arg[t]}, fresh |-> arg[t] \notin changed]]
      /\ fileLock' = None
      /\ arg[t] \in layout.short
      /\ held' = [held EXCEPT ![frm[t]] = None]
      /\ pc' = [pc EXCEPT ![t] = "exit"] /\ op' = [op EXCEPT ![t] = "none"]
      /\ arg' = [arg EXCEPT ![t] = None] /\ frm' = [frm EXCEPT ![t] = None]
      /\ vic' = [vic EXCEPT ![t] = None]
      /\ UNCHANGED <<loc, frameOf, slotOf, pte, pageIn, scanLock, swap, changed, torn,
                     layout, halted>>
  BY <1>0, <1>1 DEF ReadFile, Return, Released, Panic, data, At, Go, Step, pageVars,
     frameVars, procVars, locks
<1>3. \A p \in Page : p # arg[t] => frameOf[p] # frm[t]
  BY <1>0, <1>2 DEF PagesSound, Links
<1>4. TypeOK'
  BY <1>0, <1>2 DEF TypeOK, PC, Loc, Op, Data
<1>5. StepOf(t)
  BY <1>0, <1>2 DEF TypeOK, StepOf, Same
<1>6. Stage(t)'
  BY <1>0, <1>2 DEF TypeOK, Stage, Scanning, Evicting, Pinning, HasLock, LocksOf
<1>15. \A f \in Frame : ~Kept(t, f) /\ ~Kept(t, f)'
  <2>1. Stack[t] = arg[t] \/ ~(frameOf[Stack[t]] # None /\ loc[Stack[t]] = "zero")
    BY <1>2, NothingLeft
  <2> QED
    BY <1>0, <1>2, <2>1 DEF TypeOK, Kept, Frame
<1>7. LocksOf(t)'
  BY <1>0, <1>2, <1>15 DEF TypeOK, LocksOf, Scanning, Evicting, Pinning, HasLock, Frame
<1>8. Work(t)'
  BY <1>0, <1>2, <1>15 DEF TypeOK, Stage, Work, Alone, Scanning, Evicting, Pinning
<1>9. Exiting(t) => Exiting(t)'
  BY <1>0, <1>2 DEF TypeOK, Exiting, Stage
<1>10. EmptyFrames'
  BY <1>0, <1>2, <1>5, <1>9, QuietStepKeepsFramesInUse DEF TypeOK, Stage
<1>11. \A u \in Proc \ {t} :
         /\ arg[u] # None => Untouched(arg[u])
         /\ pc[u] \in Evicting => Untouched(vic[u])
         /\ pc[u] = "after" => /\ frameOf'[vic[u]] = frameOf[vic[u]]
                               /\ pageIn'[frm[u]] = pageIn[frm[u]]
  BY <1>0, <1>2, Apart DEF IInv, TypeOK, Untouched, Stages, Stage, Pinning, Evicting
<1>12. Places'
  <2> SUFFICES ASSUME NEW p \in Page
               PROVE  Place(p)'
    BY DEF Places
  <2>1. CASE p = arg[t]
    BY <1>0, <1>2, <2>1 DEF TypeOK, Place, Abandoned, Frame
  <2>2. CASE p # arg[t]
    <3>1. Untouched(p) /\ Place(p)
      BY <1>0, <1>2, <2>2 DEF TypeOK, Untouched, IInv, Places
    <3>2. Owner[p] = t => StaysPut(p)
      BY <1>0, <1>2, <2>2 DEF TypeOK, StaysPut, BroughtIn, Abandoned, Stage
    <3> QED
      BY <1>0, <1>2, <1>5, <1>9, <3>1, <3>2, PageStaysInPlace
  <2> QED
    BY <2>1, <2>2
<1>13. PagesSound'
  <2>1. Links'
    BY <1>0, <1>2 DEF PagesSound, Links
  <2>2. SlotUse'
    BY <1>0, <1>2 DEF TypeOK, PagesSound, SlotUse
  <2>3. Contents'
    <3> SUFFICES ASSUME NEW p \in Page \ {Stack[u] : u \in Proc}
                 PROVE  Content(p)'
      BY DEF Contents
    <3>1. CASE p = arg[t]
      BY <1>0, <1>2, <3>1 DEF TypeOK, PagesSound, Contents, Content
    <3>2. CASE p # arg[t]
      BY <1>0, <1>2, <1>3, <3>2 DEF TypeOK, PagesSound, Contents, Content
    <3> QED
      BY <3>1, <3>2
  <2>4. Changes'
    BY <1>0, <1>2 DEF TypeOK, PagesSound, Changes
  <2>5. KeptUnlessTorn'
    <3> SUFFICES ASSUME NEW p \in Page \ torn
                 PROVE  Fresh(p)'
      BY <1>2 DEF KeptUnlessTorn
    <3>1. CASE p = arg[t]
      BY <1>0, <1>2, <3>1 DEF TypeOK, PagesSound, KeptUnlessTorn, Fresh, Frame
    <3>2. CASE p # arg[t]
      BY <1>0, <1>2, <1>3, <3>2 DEF TypeOK, PagesSound, KeptUnlessTorn, Fresh
    <3> QED
      BY <3>1, <3>2
  <2> QED
    BY <2>1, <2>2, <2>3, <2>4, <2>5 DEF PagesSound
<1>14. \A p \in Page : loc[p] = "freed" => loc'[p] = "freed"
  BY <1>0, <1>2 DEF TypeOK
<1>16. \A q \in Page \ {arg[t]} : Untouched(q)
  BY <1>0, <1>1, <1>2 DEF TypeOK, Untouched
<1> QED
  BY <1>4, <1>5, <1>6, <1>7, <1>8, <1>10, <1>11, <1>12, <1>13, <1>14, <1>16, StepKeepsIInv

(* page_in() maps the page and unlocks its frame.                           *)
LEMMA MapFaultKeepsIInv ==
  ASSUME IInv, NEW t \in Proc, MapPage(t), op[t] = "fault"
  PROVE  IInv'
<1> USE VMAssumption
<1>0. TypeOK /\ Stage(t) /\ LocksOf(t) /\ Work(t) /\ EmptyFrames /\ PagesSound
  BY DEF IInv, Stages, Locks, Works, PagesSound
<1>1. /\ halted = "no" /\ pc[t] = "filled" /\ frm[t] \in Frame /\ arg[t] \in Page
      /\ op[t] \in {"fault", "call"} /\ Owner[arg[t]] = t /\ frameOf[arg[t]] = frm[t]
      /\ pte[arg[t]] \in {None, frm[t]} /\ loc[arg[t]] = "frame" /\ held[frm[t]] = t
  <2>1. halted = "no" /\ pc[t] = "filled"
    BY DEF MapPage, At
  <2>2. /\ frm[t] \in Frame /\ arg[t] \in Page /\ op[t] \in {"fault", "call"} /\ Owner[arg[t]] = t
        /\ frameOf[arg[t]] = frm[t] /\ loc[arg[t]] = "frame" /\ held[frm[t]] = t
    BY <1>0, <2>1 DEF TypeOK, Stage, LocksOf, Work, HasLock
  <2>3. Place(arg[t])
    BY <2>2 DEF IInv, Places
  <2> QED
    BY <2>1, <2>2, <2>3 DEF Place
<1>2. /\ halted = "no" /\ pc[t] = "filled" /\ frm[t] \in Frame /\ arg[t] \in Page
      /\ Owner[arg[t]] = t /\ frameOf[arg[t]] = frm[t] /\ loc[arg[t]] = "frame" /\ held[frm[t]] = t
      /\ pte' = [pte EXCEPT ![arg[t]] = frm[t]]
      /\ held' = [held EXCEPT ![frm[t]] = None]
      /\ pc' = [pc EXCEPT ![t] = "user"] /\ op' = [op EXCEPT ![t] = "none"]
      /\ arg' = [arg EXCEPT ![t] = None] /\ frm' = [frm EXCEPT ![t] = None]
      /\ vic' = [vic EXCEPT ![t] = None]
      /\ UNCHANGED <<loc, frameOf, slotOf, pageIn, scanLock, fileLock, mem, swap, changed,
                     torn, layout, halted>>
  BY <1>0, <1>1 DEF MapPage, Return, Released, data, At, Go, Step, pageVars, frameVars,
     procVars, locks
<1>3. TypeOK'
  BY <1>0, <1>2 DEF TypeOK, PC, Loc, Op
<1>4. StepOf(t)
  BY <1>0, <1>2 DEF TypeOK, StepOf, Same
<1>5. Stage(t)'
  BY <1>0, <1>2 DEF TypeOK, Stage, Scanning, Evicting, Pinning, HasLock
<1>6. LocksOf(t)'
  BY <1>0, <1>2 DEF TypeOK, LocksOf, Kept, Scanning, Evicting, Pinning, HasLock, Frame
<1>7. Work(t)'
  BY <1>0, <1>2 DEF TypeOK, Stage, Work, Kept, Alone, Scanning, Evicting, Pinning
<1>8. Exiting(t) => Exiting(t)'
  BY <1>0, <1>2 DEF TypeOK, Exiting, Stage
<1>9. EmptyFrames'
  BY <1>0, <1>2, <1>4, <1>8, QuietStepKeepsFramesInUse DEF TypeOK, Stage
<1>10. \A u \in Proc \ {t} :
         /\ arg[u] # None => Untouched(arg[u])
         /\ pc[u] \in Evicting => Untouched(vic[u])
         /\ pc[u] = "after" => /\ frameOf'[vic[u]] = frameOf[vic[u]]
                               /\ pageIn'[frm[u]] = pageIn[frm[u]]
  BY <1>0, <1>2, Apart DEF IInv, TypeOK, Untouched, Stages, Stage, Pinning, Evicting
<1>11. Places'
  <2> SUFFICES ASSUME NEW p \in Page
               PROVE  Place(p)'
    BY DEF Places
  <2>1. CASE p = arg[t]
    BY <1>0, <1>2, <2>1 DEF TypeOK, Place, Frame
  <2>2. CASE p # arg[t]
    <3>1. Untouched(p) /\ Place(p)
      BY <1>0, <1>2, <2>2 DEF TypeOK, Untouched, IInv, Places
    <3>2. Owner[p] = t => StaysPut(p)
      BY <1>0, <1>2, <2>2 DEF TypeOK, StaysPut, BroughtIn, Abandoned, Stage
    <3> QED
      BY <1>0, <1>2, <1>4, <1>8, <3>1, <3>2, PageStaysInPlace
  <2> QED
    BY <2>1, <2>2
<1>12. PagesSound'
  <2>1. Links'
    BY <1>0, <1>2 DEF PagesSound, Links
  <2>2. SlotUse'
    BY <1>0, <1>2 DEF TypeOK, PagesSound, SlotUse
  <2>3. Contents'
    BY <1>0, <1>2 DEF TypeOK, PagesSound, Contents, Content, Frame
  <2>4. Changes'
    BY <1>0, <1>2 DEF TypeOK, PagesSound, Changes
  <2>5. KeptUnlessTorn'
    BY <1>0, <1>2 DEF TypeOK, PagesSound, KeptUnlessTorn, Fresh
  <2> QED
    BY <2>1, <2>2, <2>3, <2>4, <2>5 DEF PagesSound
<1>13. \A p \in Page : loc[p] = "freed" => loc'[p] = "freed"
  BY <1>0, <1>2 DEF TypeOK
<1>14. \A q \in Page \ {arg[t]} : Untouched(q)
  BY <1>0, <1>1, <1>2 DEF TypeOK, Untouched
<1> QED
  BY <1>3, <1>4, <1>5, <1>6, <1>7, <1>9, <1>10, <1>11, <1>12, <1>13, <1>14, StepKeepsIInv

(* page_lock() maps the page and keeps its frame locked.                    *)
LEMMA MapCallKeepsIInv ==
  ASSUME IInv, NEW t \in Proc, MapPage(t), op[t] # "fault"
  PROVE  IInv'
<1> USE VMAssumption
<1>0. TypeOK /\ Stage(t) /\ LocksOf(t) /\ Work(t) /\ EmptyFrames /\ PagesSound
  BY DEF IInv, Stages, Locks, Works, PagesSound
<1>1. /\ halted = "no" /\ pc[t] = "filled" /\ frm[t] \in Frame /\ arg[t] \in Page
      /\ op[t] \in {"fault", "call"} /\ Owner[arg[t]] = t /\ frameOf[arg[t]] = frm[t]
      /\ pte[arg[t]] \in {None, frm[t]} /\ loc[arg[t]] = "frame" /\ held[frm[t]] = t
  <2>1. halted = "no" /\ pc[t] = "filled"
    BY DEF MapPage, At
  <2>2. /\ frm[t] \in Frame /\ arg[t] \in Page /\ op[t] \in {"fault", "call"} /\ Owner[arg[t]] = t
        /\ frameOf[arg[t]] = frm[t] /\ loc[arg[t]] = "frame" /\ held[frm[t]] = t
    BY <1>0, <2>1 DEF TypeOK, Stage, LocksOf, Work, HasLock
  <2>3. Place(arg[t])
    BY <2>2 DEF IInv, Places
  <2> QED
    BY <2>1, <2>2, <2>3 DEF Place
<1>2. /\ halted = "no" /\ pc[t] = "filled" /\ frm[t] \in Frame /\ arg[t] \in Page
      /\ Owner[arg[t]] = t /\ frameOf[arg[t]] = frm[t] /\ loc[arg[t]] = "frame" /\ held[frm[t]] = t
      /\ pte' = [pte EXCEPT ![arg[t]] = frm[t]]
      /\ op[t] = "call" /\ pc' = [pc EXCEPT ![t] = "pinned"]
      /\ UNCHANGED <<op, arg, frm, vic, loc, frameOf, slotOf, pageIn, held, scanLock,
                     fileLock, mem, swap, changed, torn, layout, halted>>
  BY <1>0, <1>1 DEF MapPage, Return, Released, data, At, Go, Step, pageVars, frameVars,
     procVars, locks
<1>3. TypeOK'
  BY <1>0, <1>2 DEF TypeOK, PC, Loc, Op
<1>4. StepOf(t)
  BY <1>0, <1>2 DEF TypeOK, StepOf, Same
<1>5. Stage(t)'
  BY <1>0, <1>2 DEF TypeOK, Stage, Scanning, Evicting, Pinning, HasLock
<1>6. LocksOf(t)'
  BY <1>0, <1>2 DEF TypeOK, LocksOf, Kept, Scanning, Evicting, Pinning, HasLock
<1>7. Work(t)'
  BY <1>0, <1>2 DEF TypeOK, Stage, Work, Kept, Alone, Scanning, Evicting, Pinning
<1>8. Exiting(t) => Exiting(t)'
  BY <1>0, <1>2 DEF TypeOK, Exiting, Stage
<1>9. EmptyFrames'
  BY <1>0, <1>2, <1>4, <1>8, QuietStepKeepsFramesInUse DEF TypeOK, Stage
<1>10. \A u \in Proc \ {t} :
         /\ arg[u] # None => Untouched(arg[u])
         /\ pc[u] \in Evicting => Untouched(vic[u])
         /\ pc[u] = "after" => /\ frameOf'[vic[u]] = frameOf[vic[u]]
                               /\ pageIn'[frm[u]] = pageIn[frm[u]]
  BY <1>0, <1>2, Apart DEF IInv, TypeOK, Untouched, Stages, Stage, Pinning, Evicting
<1>11. Places'
  <2> SUFFICES ASSUME NEW p \in Page
               PROVE  Place(p)'
    BY DEF Places
  <2>1. CASE p = arg[t]
    BY <1>0, <1>2, <2>1 DEF TypeOK, Place, Frame
  <2>2. CASE p # arg[t]
    <3>1. Untouched(p) /\ Place(p)
      BY <1>0, <1>2, <2>2 DEF TypeOK, Untouched, IInv, Places
    <3>2. Owner[p] = t => StaysPut(p)
      BY <1>0, <1>2, <2>2 DEF TypeOK, StaysPut, BroughtIn, Abandoned, Stage
    <3> QED
      BY <1>0, <1>2, <1>4, <1>8, <3>1, <3>2, PageStaysInPlace
  <2> QED
    BY <2>1, <2>2
<1>12. PagesSound'
  <2>1. Links'
    BY <1>0, <1>2 DEF PagesSound, Links
  <2>2. SlotUse'
    BY <1>0, <1>2 DEF TypeOK, PagesSound, SlotUse
  <2>3. Contents'
    BY <1>0, <1>2 DEF TypeOK, PagesSound, Contents, Content, Frame
  <2>4. Changes'
    BY <1>0, <1>2 DEF TypeOK, PagesSound, Changes
  <2>5. KeptUnlessTorn'
    BY <1>0, <1>2 DEF TypeOK, PagesSound, KeptUnlessTorn, Fresh
  <2> QED
    BY <2>1, <2>2, <2>3, <2>4, <2>5 DEF PagesSound
<1>13. \A p \in Page : loc[p] = "freed" => loc'[p] = "freed"
  BY <1>0, <1>2 DEF TypeOK
<1>14. \A q \in Page \ {arg[t]} : Untouched(q)
  BY <1>0, <1>1, <1>2 DEF TypeOK, Untouched
<1> QED
  BY <1>3, <1>4, <1>5, <1>6, <1>7, <1>9, <1>10, <1>11, <1>12, <1>13, <1>14, StepKeepsIInv

(* setup_stack() fills, maps and unlocks the first page of the stack.       *)
LEMMA SetupStackKeepsIInv ==
  ASSUME IInv, NEW t \in Proc, SetupStack(t)
  PROVE  IInv'
<1> USE VMAssumption
<1>0. TypeOK /\ Stage(t) /\ LocksOf(t) /\ Work(t) /\ EmptyFrames /\ PagesSound
  BY DEF IInv, Stages, Locks, Works, PagesSound
<1>1. /\ halted = "no" /\ pc[t] = "fill" /\ frm[t] \in Frame /\ arg[t] \in Page
      /\ Owner[arg[t]] = t /\ frameOf[arg[t]] = frm[t] /\ loc[arg[t]] = "zero" /\ held[frm[t]] = t
      /\ arg[t] = Stack[t]
      /\ pte' = [pte EXCEPT ![arg[t]] = frm[t]]
      /\ mem' = [mem EXCEPT ![frm[t]] = [from |-> mem[frm[t]].from \cup {arg[t]}, fresh |-> TRUE]]
      /\ loc' = [loc EXCEPT ![arg[t]] = "frame"]
      /\ held' = [held EXCEPT ![frm[t]] = None]
      /\ pc' = [pc EXCEPT ![t] = "user"] /\ op' = [op EXCEPT ![t] = "none"]
      /\ arg' = [arg EXCEPT ![t] = None] /\ frm' = [frm EXCEPT ![t] = None]
      /\ vic' = [vic EXCEPT ![t] = None]
      /\ UNCHANGED <<frameOf, slotOf, pageIn, scanLock, fileLock, swap, changed, torn,
                     layout, halted>>
  BY <1>0 DEF SetupStack, Return, Released, data, TypeOK, Stage, LocksOf, Work, HasLock, At,
     Go, Step, pageVars, frameVars, procVars, locks
<1>2. \A p \in Page : p # arg[t] => frameOf[p] # frm[t]
  BY <1>0, <1>1 DEF PagesSound, Links
<1>3. TypeOK'
  BY <1>0, <1>1 DEF TypeOK, PC, Loc, Op, Data
<1>4. StepOf(t)
  BY <1>0, <1>1 DEF TypeOK, StepOf, Same
<1>5. Stage(t)'
  BY <1>0, <1>1 DEF TypeOK, Stage, Scanning, Evicting, Pinning, HasLock
<1>6. LocksOf(t)'
  BY <1>0, <1>1 DEF TypeOK, LocksOf, Kept, Scanning, Evicting, Pinning, HasLock, Frame
<1>7. Work(t)'
  BY <1>0, <1>1 DEF TypeOK, Stage, Work, Kept, Alone, Scanning, Evicting, Pinning
<1>8. Exiting(t) => Exiting(t)'
  BY <1>0, <1>1 DEF TypeOK, Exiting, Stage
<1>9. EmptyFrames'
  BY <1>0, <1>1, <1>4, <1>8, QuietStepKeepsFramesInUse DEF TypeOK, Stage
<1>10. \A u \in Proc \ {t} :
         /\ arg[u] # None => Untouched(arg[u])
         /\ pc[u] \in Evicting => Untouched(vic[u])
         /\ pc[u] = "after" => /\ frameOf'[vic[u]] = frameOf[vic[u]]
                               /\ pageIn'[frm[u]] = pageIn[frm[u]]
  BY <1>0, <1>1, Apart DEF IInv, TypeOK, Untouched, Stages, Stage, Pinning, Evicting
<1>11. Places'
  <2> SUFFICES ASSUME NEW p \in Page
               PROVE  Place(p)'
    BY DEF Places
  <2>1. CASE p = arg[t]
    BY <1>0, <1>1, <2>1 DEF TypeOK, Place, Frame
  <2>2. CASE p # arg[t]
    <3>1. Untouched(p) /\ Place(p)
      BY <1>0, <1>1, <2>2 DEF TypeOK, Untouched, IInv, Places
    <3>2. Owner[p] = t => StaysPut(p)
      BY <1>0, <1>1, <2>2 DEF TypeOK, StaysPut, BroughtIn, Abandoned, Stage
    <3> QED
      BY <1>0, <1>1, <1>4, <1>8, <3>1, <3>2, PageStaysInPlace
  <2> QED
    BY <2>1, <2>2
<1>12. PagesSound'
  <2>1. Links'
    BY <1>0, <1>1 DEF PagesSound, Links
  <2>2. SlotUse'
    BY <1>0, <1>1 DEF TypeOK, PagesSound, SlotUse
  <2>3. Contents'
    <3> SUFFICES ASSUME NEW p \in Page \ {Stack[u] : u \in Proc}
                 PROVE  Content(p)'
      BY DEF Contents
    <3>1. CASE p = arg[t]
      BY <1>0, <1>1, <3>1 DEF TypeOK, PagesSound, Contents, Content
    <3>2. CASE p # arg[t]
      BY <1>0, <1>1, <1>2, <3>2 DEF TypeOK, PagesSound, Contents, Content
    <3> QED
      BY <3>1, <3>2
  <2>4. Changes'
    BY <1>0, <1>1 DEF TypeOK, PagesSound, Changes
  <2>5. KeptUnlessTorn'
    <3> SUFFICES ASSUME NEW p \in Page \ torn
                 PROVE  Fresh(p)'
      BY <1>1 DEF KeptUnlessTorn
    <3>1. CASE p = arg[t]
      BY <1>0, <1>1, <3>1 DEF TypeOK, PagesSound, KeptUnlessTorn, Fresh, Frame
    <3>2. CASE p # arg[t]
      BY <1>0, <1>1, <1>2, <3>2 DEF TypeOK, PagesSound, KeptUnlessTorn, Fresh
    <3> QED
      BY <3>1, <3>2
  <2> QED
    BY <2>1, <2>2, <2>3, <2>4, <2>5 DEF PagesSound
<1>13. \A p \in Page : loc[p] = "freed" => loc'[p] = "freed"
  BY <1>0, <1>1 DEF TypeOK
<1>14. \A q \in Page \ {arg[t]} : Untouched(q)
  BY <1>0, <1>1 DEF TypeOK, Untouched
<1> QED
  BY <1>3, <1>4, <1>5, <1>6, <1>7, <1>9, <1>10, <1>11, <1>12, <1>13, <1>14, StepKeepsIInv

(***************************************************************************)
(* Giving pages up                                                          *)
(***************************************************************************)

(* setup_stack() fails with the frame locked, which is all that t has.      *)
LEMMA StackFailsKeepsIInv ==
  ASSUME IInv, NEW t \in Proc, StackFails(t)
  PROVE  IInv'
<1> USE VMAssumption
<1>0. TypeOK /\ Stage(t) /\ LocksOf(t) /\ Work(t) /\ EmptyFrames /\ PagesSound
  BY DEF IInv, Stages, Locks, Works, PagesSound
<1>1. /\ halted = "no" /\ pc[t] = "fill" /\ op[t] = "stack" /\ frm[t] \in Frame
      /\ arg[t] \in Page /\ arg[t] = Stack[t]
      /\ Owner[arg[t]] = t /\ frameOf[arg[t]] = frm[t] /\ loc[arg[t]] = "zero"
      /\ pte[arg[t]] = None /\ held[frm[t]] = t /\ Alone(t)
      /\ \/ UNCHANGED <<pte, mem>>
         \/ /\ pte' = [pte EXCEPT ![arg[t]] = frm[t]]
            /\ mem' = [mem EXCEPT ![frm[t]] = [from |-> mem[frm[t]].from \cup {arg[t]},
                                               fresh |-> TRUE]]
      /\ pc' = [pc EXCEPT ![t] = "exit"] /\ op' = [op EXCEPT ![t] = "none"]
      /\ arg' = [arg EXCEPT ![t] = None] /\ frm' = [frm EXCEPT ![t] = None]
      /\ vic' = [vic EXCEPT ![t] = None]
      /\ UNCHANGED <<loc, frameOf, slotOf, pageIn, held, scanLock, fileLock, swap, changed,
                     torn, layout, halted>>
  BY <1>0 DEF StackFails, Return, data, TypeOK, Stage, LocksOf, Work, HasLock, At,
     Go, pageVars, frameVars, locks
<1>2. \A p \in Page : p # arg[t] => frameOf[p] # frm[t]
  BY <1>0, <1>1 DEF PagesSound, Links
<1>3. TypeOK'
  <2>1. pte' \in [Page -> Frame \cup {None}] /\ mem' \in [Frame -> Data]
    <3>1. [from |-> mem[frm[t]].from \cup {arg[t]}, fresh |-> TRUE] \in Data
      <4>1. mem[frm[t]] \in Data /\ arg[t] \in Page
        BY <1>0, <1>1 DEF TypeOK
      <4> QED
        BY <4>1 DEF Data
    <3>2. CASE UNCHANGED <<pte, mem>>
      BY <1>0, <3>2 DEF TypeOK
    <3>3. CASE ~UNCHANGED <<pte, mem>>
      <4> DEFINE m == [from |-> mem[frm[t]].from \cup {arg[t]}, fresh |-> TRUE]
      <4> HIDE DEF m
      <4>1. m \in Data /\ mem' = [mem EXCEPT ![frm[t]] = m]
            /\ pte' = [pte EXCEPT ![arg[t]] = frm[t]]
        BY <1>1, <3>1, <3>3 DEF m
      <4> QED
        BY <1>0, <1>1, <4>1 DEF TypeOK
    <3> QED
      BY <3>2, <3>3
  <2> QED
    BY <1>0, <1>1, <2>1 DEF TypeOK, PC, Op
<1>4. StepOf(t)
  BY <1>0, <1>1 DEF TypeOK, StepOf, Same
<1>5. Stage(t)'
  BY <1>0, <1>1 DEF TypeOK, Stage, Scanning, Evicting, Pinning, HasLock, LocksOf
<1>6. LocksOf(t)'
  <2>1. \A f \in Frame : held[f] = t <=> frm[t] = f
    BY <1>0, <1>1 DEF LocksOf, Kept, HasLock
  <2>2. \A f \in Frame : Kept(t, f)' <=> frm[t] = f
    BY <1>0, <1>1 DEF TypeOK, Kept
  <2> QED
    BY <1>0, <1>1, <2>1, <2>2 DEF TypeOK, LocksOf, Scanning, Evicting, Pinning, HasLock, Frame
<1>7. Work(t)'
  <2>1. Alone(t)'
    BY <1>1 DEF Alone
  <2> QED
    BY <1>0, <1>1, <2>1 DEF TypeOK, Stage, Work, Scanning, Evicting, Pinning
<1>8. Exiting(t) => Exiting(t)'
  BY <1>0, <1>1 DEF TypeOK, Exiting, Stage
<1>9. EmptyFrames'
  BY <1>0, <1>1, <1>4, <1>8, QuietStepKeepsFramesInUse DEF TypeOK, Stage
<1>10. \A u \in Proc \ {t} :
         /\ arg[u] # None => Untouched(arg[u])
         /\ pc[u] \in Evicting => Untouched(vic[u])
         /\ pc[u] = "after" => /\ frameOf'[vic[u]] = frameOf[vic[u]]
                               /\ pageIn'[frm[u]] = pageIn[frm[u]]
  BY <1>0, <1>1, Apart DEF IInv, TypeOK, Untouched, Stages, Stage, Pinning, Evicting
<1>11. Places'
  <2> SUFFICES ASSUME NEW p \in Page
               PROVE  Place(p)'
    BY DEF Places
  <2>1. CASE p = arg[t]
    <3>1. Abandoned(p)'
      BY <1>0, <1>1, <2>1 DEF TypeOK, Abandoned
    <3> QED
      BY <1>0, <1>1, <2>1, <3>1 DEF TypeOK, Place, Frame
  <2>2. CASE p # arg[t]
    <3>1. Untouched(p) /\ Place(p)
      BY <1>0, <1>1, <2>2 DEF TypeOK, Untouched, IInv, Places
    <3>2. Owner[p] = t => StaysPut(p)
      BY <1>0, <1>1, <2>2 DEF TypeOK, StaysPut, BroughtIn, Abandoned, Stage
    <3> QED
      BY <1>0, <1>1, <1>4, <1>8, <3>1, <3>2, PageStaysInPlace
  <2> QED
    BY <2>1, <2>2
<1>12. PagesSound'
  <2>1. Links'
    BY <1>0, <1>1 DEF PagesSound, Links
  <2>2. SlotUse'
    BY <1>0, <1>1 DEF TypeOK, PagesSound, SlotUse
  <2>3. Contents'
    <3> SUFFICES ASSUME NEW p \in Page \ {Stack[u] : u \in Proc}
                 PROVE  Content(p)'
      BY DEF Contents
    <3>1. p # arg[t] /\ Content(p) /\ Place(p)
      BY <1>0, <1>1 DEF PagesSound, Contents, IInv, Places
    <3> QED
      BY <1>0, <1>1, <1>2, <3>1 DEF TypeOK, Content, Place
  <2>4. Changes'
    BY <1>0, <1>1 DEF TypeOK, PagesSound, Changes
  <2>5. KeptUnlessTorn'
    <3> SUFFICES ASSUME NEW p \in Page \ torn
                 PROVE  Fresh(p)'
      BY <1>1 DEF KeptUnlessTorn
    <3>1. Fresh(p)
      BY <1>0 DEF PagesSound, KeptUnlessTorn
    <3>2. CASE p = arg[t]
      BY <1>0, <1>1, <3>1, <3>2 DEF TypeOK, Fresh
    <3>3. CASE p # arg[t]
      BY <1>0, <1>1, <1>2, <3>1, <3>3 DEF TypeOK, Fresh
    <3> QED
      BY <3>2, <3>3
  <2> QED
    BY <2>1, <2>2, <2>3, <2>4, <2>5 DEF PagesSound
<1>13. \A p \in Page : loc[p] = "freed" => loc'[p] = "freed"
  BY <1>0, <1>1 DEF TypeOK
<1>14. \A q \in Page \ {arg[t]} : Untouched(q)
  BY <1>0, <1>1 DEF TypeOK, Untouched
<1> QED
  BY <1>3, <1>4, <1>5, <1>6, <1>7, <1>9, <1>10, <1>11, <1>12, <1>13, <1>14, StepKeepsIInv

(* page_destroy() gives up the frame of a page.                             *)
LEMMA DestroyResidentKeepsIInv ==
  ASSUME IInv, NEW t \in Proc, DestroyLocked(t), frameOf[arg[t]] # None, halted' = "no"
  PROVE  IInv'
<1> USE VMAssumption
<1>0. TypeOK /\ Stage(t) /\ LocksOf(t) /\ Work(t) /\ EmptyFrames /\ PagesSound
  BY DEF IInv, Stages, Locks, Works, PagesSound
<1>1. /\ halted = "no" /\ pc[t] = "locked" /\ op[t] = "exit" /\ arg[t] \in Page
      /\ Owner[arg[t]] = t /\ frameOf[arg[t]] \in {None, frm[t]}
  <2> halted = "no" /\ pc[t] = "locked" /\ op[t] = "exit"
    BY DEF DestroyLocked, At
  <2> QED
    BY <1>0 DEF TypeOK, Stage, Work
<1>2. /\ halted = "no" /\ pc[t] = "locked" /\ op[t] = "exit" /\ arg[t] \in Page /\ frm[t] \in Frame
      /\ Owner[arg[t]] = t /\ frameOf[arg[t]] = frm[t] /\ held[frm[t]] = t /\ pageIn[frm[t]] = arg[t]
      /\ pte' = [pte EXCEPT ![arg[t]] = None]
      /\ pageIn' = [pageIn EXCEPT ![frm[t]] = None]
      /\ frameOf' = [frameOf EXCEPT ![arg[t]] = None]
      /\ held' = [held EXCEPT ![frm[t]] = None]
      /\ loc' = [loc EXCEPT ![arg[t]] = "freed"]
      /\ pc' = [pc EXCEPT ![t] = "destroy"]
      /\ arg' = [arg EXCEPT ![t] = None] /\ frm' = [frm EXCEPT ![t] = None]
      /\ UNCHANGED <<op, vic, slotOf, scanLock, fileLock, mem, swap, changed, torn, layout,
                     halted>>
  BY <1>0, <1>1 DEF DestroyLocked, FrameFreed, Released, data, TypeOK, At, Go, Step,
     pageVars, frameVars, procVars, locks
<1>3. TypeOK'
  BY <1>0, <1>2 DEF TypeOK, PC, Loc, Op
<1>4. StepOf(t)
  BY <1>0, <1>2 DEF TypeOK, StepOf, Same
<1>5. Stage(t)'
  BY <1>0, <1>2 DEF TypeOK, Stage, Scanning, Evicting, Pinning, HasLock
<1>6. LocksOf(t)'
  <2>1. \A f \in Frame : ~Kept(t, f)
    BY <1>0, <1>2 DEF Work, Frame
  <2>2. \A f \in Frame : ~Kept(t, f)'
    <3> SUFFICES ASSUME NEW f \in Frame, Kept(t, f)'
                 PROVE  FALSE
      OBVIOUS
    <3>1. arg[t] # Stack[t]
      BY <1>0, <1>2 DEF TypeOK, Kept
    <3>2. Kept(t, f)
      BY <1>0, <1>2, <3>1 DEF TypeOK, Kept
    <3> QED
      BY <2>1, <3>2
  <2> QED
    BY <1>0, <1>2, <2>1, <2>2 DEF TypeOK, LocksOf, Scanning, Evicting, Pinning, HasLock, Frame
<1>7. Work(t)'
  BY <1>0, <1>2 DEF TypeOK, Stage, Work, Kept, Alone, Scanning, Evicting, Pinning
<1>8. Exiting(t) => Exiting(t)'
  BY <1>0, <1>2 DEF TypeOK, Exiting
<1>9. EmptyFrames'
  BY <1>0, <1>2 DEF TypeOK, EmptyFrames, NobodyExits, Exiting
<1>10. \A u \in Proc \ {t} :
         /\ arg[u] # None => Untouched(arg[u])
         /\ pc[u] \in Evicting => Untouched(vic[u])
         /\ pc[u] = "after" => /\ frameOf'[vic[u]] = frameOf[vic[u]]
                               /\ pageIn'[frm[u]] = pageIn[frm[u]]
  <2> SUFFICES ASSUME NEW u \in Proc \ {t}
               PROVE  /\ arg[u] # None => Untouched(arg[u])
                      /\ pc[u] \in Evicting => Untouched(vic[u])
                      /\ pc[u] = "after" => /\ frameOf'[vic[u]] = frameOf[vic[u]]
                                            /\ pageIn'[frm[u]] = pageIn[frm[u]]
    OBVIOUS
  <2>1. Stage(u) /\ LocksOf(u) /\ Work(u) /\ arg[u] # arg[t]
    BY <1>2, Apart DEF IInv, Stages, Locks, Works
  <2>2. arg[u] # None => Untouched(arg[u])
    BY <1>0, <1>2, <2>1 DEF TypeOK, Untouched
  <2>3. ASSUME pc[u] \in Evicting
        PROVE  Untouched(vic[u])
    <3>1. /\ vic[u] \in Page /\ frm[u] \in Frame /\ frameOf[vic[u]] = frm[u] /\ held[frm[u]] = u
      BY <1>0, <2>1, <2>3 DEF TypeOK, Stage, LocksOf, Work, HasLock
    <3>2. vic[u] # arg[t]
      BY <1>2, <3>1 DEF Frame
    <3> QED
      BY <1>0, <1>2, <3>1, <3>2 DEF TypeOK, Untouched
  <2>4. ASSUME pc[u] = "after"
        PROVE  frameOf'[vic[u]] = frameOf[vic[u]] /\ pageIn'[frm[u]] = pageIn[frm[u]]
    <3>1. /\ vic[u] \in Page /\ frm[u] \in Frame /\ frameOf[vic[u]] = None /\ pageIn[frm[u]] = None
      BY <1>0, <2>1, <2>4 DEF TypeOK, Stage, Work
    <3> QED
      BY <1>0, <1>2, <3>1 DEF TypeOK
  <2> QED
    BY <2>2, <2>3, <2>4
<1>11. Places'
  <2> SUFFICES ASSUME NEW p \in Page
               PROVE  Place(p)'
    BY DEF Places
  <2>1. CASE p = arg[t]
    BY <1>0, <1>2, <2>1 DEF TypeOK, IInv, Places, Place, Exiting, Frame
  <2>2. CASE p # arg[t]
    <3>1. Untouched(p) /\ Place(p)
      BY <1>0, <1>2, <2>2 DEF TypeOK, Untouched, IInv, Places
    <3>2. Owner[p] = t => StaysPut(p)
      BY <1>0, <1>2, <2>2 DEF TypeOK, StaysPut, BroughtIn, Abandoned, Stage
    <3> QED
      BY <1>0, <1>2, <1>4, <1>8, <3>1, <3>2, PageStaysInPlace
  <2> QED
    BY <2>1, <2>2
<1>12. PagesSound'
  <2>1. Links'
    BY <1>0, <1>2 DEF TypeOK, PagesSound, Links, Frame
  <2>2. SlotUse'
    BY <1>0, <1>2 DEF TypeOK, PagesSound, SlotUse
  <2>3. Contents'
    BY <1>0, <1>2 DEF TypeOK, PagesSound, Contents, Content
  <2>4. Changes'
    BY <1>0, <1>2 DEF TypeOK, PagesSound, Changes
  <2>5. KeptUnlessTorn'
    BY <1>0, <1>2 DEF TypeOK, PagesSound, KeptUnlessTorn, Fresh
  <2> QED
    BY <2>1, <2>2, <2>3, <2>4, <2>5 DEF PagesSound
<1>13. \A p \in Page : loc[p] = "freed" => loc'[p] = "freed"
  BY <1>0, <1>2 DEF TypeOK
<1>14. \A q \in Page \ {arg[t]} : Untouched(q)
  BY <1>0, <1>1, <1>2 DEF TypeOK, Untouched
<1> QED
  BY <1>3, <1>4, <1>5, <1>6, <1>7, <1>9, <1>10, <1>11, <1>12, <1>13, <1>14, StepKeepsIInv

(* page_destroy() finds no frame to give up.                                *)
LEMMA DestroyElsewhereKeepsIInv ==
  ASSUME IInv, NEW t \in Proc, DestroyLocked(t), frameOf[arg[t]] = None, halted' = "no"
  PROVE  IInv'
<1> USE VMAssumption
<1>0. TypeOK /\ Stage(t) /\ LocksOf(t) /\ Work(t) /\ EmptyFrames /\ PagesSound
  BY DEF IInv, Stages, Locks, Works, PagesSound
<1>1. /\ halted = "no" /\ pc[t] = "locked" /\ op[t] = "exit" /\ arg[t] \in Page
      /\ Owner[arg[t]] = t /\ frameOf[arg[t]] \in {None, frm[t]}
  <2> halted = "no" /\ pc[t] = "locked" /\ op[t] = "exit"
    BY DEF DestroyLocked, At
  <2> QED
    BY <1>0 DEF TypeOK, Stage, Work
<1>2. /\ halted = "no" /\ pc[t] = "locked" /\ op[t] = "exit" /\ arg[t] \in Page
      /\ Owner[arg[t]] = t /\ frameOf[arg[t]] = None
      /\ loc' = [loc EXCEPT ![arg[t]] = "freed"]
      /\ pc' = [pc EXCEPT ![t] = "destroy"]
      /\ arg' = [arg EXCEPT ![t] = None] /\ frm' = [frm EXCEPT ![t] = None]
      /\ UNCHANGED <<op, vic, pte, frameOf, pageIn, held, slotOf, scanLock, fileLock, mem,
                     swap, changed, torn, layout, halted>>
  BY <1>0, <1>1 DEF DestroyLocked, data, TypeOK, At, Go, Step, pageVars, frameVars,
     procVars, locks
<1>3. TypeOK'
  BY <1>0, <1>2 DEF TypeOK, PC, Loc, Op
<1>4. StepOf(t)
  BY <1>0, <1>2 DEF TypeOK, StepOf, Same
<1>5. Stage(t)'
  BY <1>0, <1>2 DEF TypeOK, Stage, Scanning, Evicting, Pinning, HasLock
<1>6. LocksOf(t)'
  BY <1>0, <1>2 DEF TypeOK, LocksOf, Kept, Scanning, Evicting, Pinning, HasLock, Frame
<1>7. Work(t)'
  BY <1>0, <1>2 DEF TypeOK, Stage, Work, Kept, Alone, Scanning, Evicting, Pinning
<1>8. Exiting(t) => Exiting(t)'
  BY <1>0, <1>2 DEF TypeOK, Exiting
<1>9. EmptyFrames'
  BY <1>0, <1>2 DEF TypeOK, EmptyFrames, NobodyExits, Exiting
<1>10. \A u \in Proc \ {t} :
         /\ arg[u] # None => Untouched(arg[u])
         /\ pc[u] \in Evicting => Untouched(vic[u])
         /\ pc[u] = "after" => /\ frameOf'[vic[u]] = frameOf[vic[u]]
                               /\ pageIn'[frm[u]] = pageIn[frm[u]]
  <2> SUFFICES ASSUME NEW u \in Proc \ {t}
               PROVE  /\ arg[u] # None => Untouched(arg[u])
                      /\ pc[u] \in Evicting => Untouched(vic[u])
                      /\ pc[u] = "after" => /\ frameOf'[vic[u]] = frameOf[vic[u]]
                                            /\ pageIn'[frm[u]] = pageIn[frm[u]]
    OBVIOUS
  <2>1. Stage(u) /\ LocksOf(u) /\ Work(u) /\ arg[u] # arg[t]
    BY <1>2, Apart DEF IInv, Stages, Locks, Works
  <2>2. arg[u] # None => Untouched(arg[u])
    BY <1>0, <1>2, <2>1 DEF TypeOK, Untouched
  <2>3. ASSUME pc[u] \in Evicting
        PROVE  Untouched(vic[u])
    <3>1. /\ vic[u] \in Page /\ frm[u] \in Frame /\ frameOf[vic[u]] = frm[u] /\ held[frm[u]] = u
      BY <1>0, <2>1, <2>3 DEF TypeOK, Stage, LocksOf, Work, HasLock
    <3>2. vic[u] # arg[t]
      BY <1>2, <3>1 DEF Frame
    <3> QED
      BY <1>0, <1>2, <3>1, <3>2 DEF TypeOK, Untouched
  <2>4. ASSUME pc[u] = "after"
        PROVE  frameOf'[vic[u]] = frameOf[vic[u]] /\ pageIn'[frm[u]] = pageIn[frm[u]]
    <3>1. /\ vic[u] \in Page /\ frm[u] \in Frame /\ frameOf[vic[u]] = None /\ pageIn[frm[u]] = None
      BY <1>0, <2>1, <2>4 DEF TypeOK, Stage, Work
    <3> QED
      BY <1>0, <1>2, <3>1 DEF TypeOK
  <2> QED
    BY <2>2, <2>3, <2>4
<1>11. Places'
  <2> SUFFICES ASSUME NEW p \in Page
               PROVE  Place(p)'
    BY DEF Places
  <2>1. CASE p = arg[t]
    BY <1>0, <1>2, <2>1 DEF TypeOK, IInv, Places, Place, Exiting, Frame
  <2>2. CASE p # arg[t]
    <3>1. Untouched(p) /\ Place(p)
      BY <1>0, <1>2, <2>2 DEF TypeOK, Untouched, IInv, Places
    <3>2. Owner[p] = t => StaysPut(p)
      BY <1>0, <1>2, <2>2 DEF TypeOK, StaysPut, BroughtIn, Abandoned, Stage
    <3> QED
      BY <1>0, <1>2, <1>4, <1>8, <3>1, <3>2, PageStaysInPlace
  <2> QED
    BY <2>1, <2>2
<1>12. PagesSound'
  <2>1. Links'
    BY <1>0, <1>2 DEF TypeOK, PagesSound, Links
  <2>2. SlotUse'
    BY <1>0, <1>2 DEF TypeOK, PagesSound, SlotUse
  <2>3. Contents'
    BY <1>0, <1>2 DEF TypeOK, PagesSound, Contents, Content
  <2>4. Changes'
    BY <1>0, <1>2 DEF TypeOK, PagesSound, Changes
  <2>5. KeptUnlessTorn'
    BY <1>0, <1>2 DEF TypeOK, PagesSound, KeptUnlessTorn, Fresh
  <2> QED
    BY <2>1, <2>2, <2>3, <2>4, <2>5 DEF PagesSound
<1>13. \A p \in Page : loc[p] = "freed" => loc'[p] = "freed"
  BY <1>0, <1>2 DEF TypeOK
<1>14. \A q \in Page \ {arg[t]} : Untouched(q)
  BY <1>0, <1>1, <1>2 DEF TypeOK, Untouched
<1> QED
  BY <1>3, <1>4, <1>5, <1>6, <1>7, <1>9, <1>10, <1>11, <1>12, <1>13, <1>14, StepKeepsIInv

(***************************************************************************)
(* Writing to a page                                                        *)
(***************************************************************************)

(* A copy that is not fresh any more is otherwise what it was.              *)
LEMMA ReplaceFresh ==
  ASSUME NEW m \in Data
  PROVE  /\ [m EXCEPT !.fresh = FALSE] \in Data
         /\ [m EXCEPT !.fresh = FALSE].from = m.from
BY DEF Data

(* A write by the owner of a page that is mapped, and is in its frame or    *)
(* being evicted.                                                           *)
LEMMA WrittenKeepsPages ==
  ASSUME TypeOK, PagesSound, Places, NEW p \in Page, pte[p] \in Frame, frameOf[p] = pte[p],
         p \in layout.writable,
         loc[p] = "frame" \/ \E t \in Proc : pc[t] = "clear" /\ vic[t] = p,
         Written(p), UNCHANGED <<loc, frameOf, slotOf, pte, pageIn, layout>>
  PROVE  /\ mem' \in [Frame -> Data] /\ swap' \in [Slot -> Data \cup {None}]
         /\ changed' \subseteq Page /\ torn' \subseteq Page
         /\ PagesSound'
<1> USE VMAssumption
<1> DEFINE f == pte[p]
<1>1. /\ f \in Frame /\ mem \in [Frame -> Data]
      /\ mem' = [mem EXCEPT ![f] = [from |-> mem[f].from \cup {p}, fresh |-> TRUE]]
  BY DEF TypeOK, Written
<1>2. mem' \in [Frame -> Data]
  <2>1. mem[f].from \cup {p} \subseteq Page
    BY <1>1 DEF Data
  <2>2. [from |-> mem[f].from \cup {p}, fresh |-> TRUE] \in Data
    BY <2>1 DEF Data
  <2> QED
    BY <1>1, <2>2
<1>3. /\ mem'[f].from = mem[f].from \cup {p} /\ mem'[f].fresh
      /\ \A g \in Frame \ {f} : mem'[g] = mem[g]
  BY <1>1
<1>4. ASSUME NEW s \in Slot
      PROVE  /\ swap'[s] \in Data \cup {None}
             /\ swap'[s] = None <=> swap[s] = None
             /\ slotOf[p] # s \/ swap[s] = None => swap'[s] = swap[s]
             /\ swap[s] # None => swap'[s].from = swap[s].from
  <2>1. swap[s] \in Data \cup {None} /\ None \notin Data
    BY DEF TypeOK, Data
  <2>2. swap'[s] = IF slotOf[p] = s /\ swap[s] # None
                   THEN [swap[s] EXCEPT !.fresh = FALSE] ELSE swap[s]
    BY DEF Written
  <2>3. CASE slotOf[p] = s /\ swap[s] # None
    <3>1. swap'[s] = [swap[s] EXCEPT !.fresh = FALSE] /\ swap[s] \in Data
      BY <2>1, <2>2, <2>3
    <3>2. swap'[s] \in Data /\ swap'[s].from = swap[s].from
      BY <3>1, ReplaceFresh
    <3> QED
      BY <2>1, <2>3, <3>2
  <2>4. CASE ~(slotOf[p] = s /\ swap[s] # None)
    BY <2>1, <2>2, <2>4
  <2> QED
    BY <2>3, <2>4
<1>5. swap' \in [Slot -> Data \cup {None}]
  <2>1. DOMAIN swap' = Slot /\ swap' = [s \in Slot |-> swap'[s]]
    BY DEF Written
  <2> QED
    BY <1>4, <2>1
<1>6. /\ changed' = changed \cup ({p} \cap layout.fromFile)
      /\ torn' \subseteq torn \cup {p} /\ torn \subseteq torn' \cup {p}
      /\ p \notin torn' => loc[p] = "frame"
  BY DEF Written
<1>7. Links'
  BY DEF PagesSound, Links
<1>8. SlotUse'
  BY <1>4 DEF TypeOK, PagesSound, SlotUse
<1>9. \A q \in Page : q # p => frameOf[q] # f
  BY <1>1 DEF PagesSound, Links
<1>10. \A q \in Page : loc[q] = "swap" => slotOf[q] \in Slot /\ swap[slotOf[q]] # None
  BY DEF TypeOK, PagesSound, SlotUse
<1>11. Contents'
  <2> SUFFICES ASSUME NEW q \in Page \ {Stack[t] : t \in Proc}
               PROVE  Content(q)'
    BY DEF Contents
  <2>1. Content(q)
    BY DEF PagesSound, Contents
  <2>2. loc[q] = "swap" => swap'[slotOf[q]].from \subseteq {q}
    BY <1>4, <1>10, <2>1 DEF Content
  <2>3. CASE q = p
    BY <1>3, <2>1, <2>2, <2>3 DEF Content
  <2>4. CASE q # p
    <3>1. loc[q] = "frame" \/ pte[q] # None => frameOf[q] \in Frame \ {f}
      BY <1>9, <2>4 DEF TypeOK, Places, Place
    <3> QED
      BY <1>3, <2>1, <2>2, <3>1 DEF Content
  <2> QED
    BY <2>3, <2>4
<1>12. Changes'
  BY <1>6 DEF PagesSound, Changes
<1>13. KeptUnlessTorn'
  <2> SUFFICES ASSUME NEW q \in Page \ torn'
               PROVE  Fresh(q)'
    BY DEF KeptUnlessTorn
  <2>1. CASE q = p
    BY <1>1, <1>3, <1>6, <2>1 DEF Fresh, Frame
  <2>2. CASE q # p
    <3>1. Fresh(q)
      BY <1>6, <2>2 DEF PagesSound, KeptUnlessTorn
    <3>2. loc[q] = "swap" => swap'[slotOf[q]] = swap[slotOf[q]]
      BY <1>4, <1>10, <2>2 DEF PagesSound, SlotUse, Slot
    <3>3. loc[q] = "frame" => frameOf[q] # None /\ mem'[frameOf[q]] = mem[frameOf[q]]
      BY <1>3, <1>9, <2>2, <3>1 DEF TypeOK, Fresh
    <3> QED
      BY <1>6, <2>2, <3>1, <3>2, <3>3 DEF Fresh
  <2> QED
    BY <2>1, <2>2
<1>14. changed' \subseteq Page /\ torn' \subseteq Page
  BY <1>6 DEF TypeOK
<1> QED
  BY <1>2, <1>5, <1>7, <1>8, <1>11, <1>12, <1>13, <1>14 DEF PagesSound

(* The process writes to a page that is mapped.                             *)
LEMMA UserWriteKeepsIInv ==
  ASSUME IInv, NEW t \in Proc, NEW p \in Page, UserWrite(t, p)
  PROVE  IInv'
<1> USE VMAssumption
<1>0. TypeOK /\ Stage(t) /\ LocksOf(t) /\ Work(t) /\ EmptyFrames /\ PagesSound
  BY DEF IInv, Stages, Locks, Works, PagesSound
<1>1. /\ halted = "no" /\ pc[t] = "user" /\ Owner[p] = t
      /\ UNCHANGED <<loc, frameOf, slotOf, pte, pageIn, held, pc, op, arg, frm, vic,
                     scanLock, fileLock, layout, halted>>
  BY <1>0 DEF UserWrite, frameVars, procVars, At, Go, Step, pageVars, frameVars, procVars,
     locks
<1>2. /\ pte[p] \in Frame /\ frameOf[p] = pte[p] /\ p \in layout.writable /\ Written(p)
      /\ loc[p] = "frame" \/ \E u \in Proc : pc[u] = "clear" /\ vic[u] = p
  <2>1. /\ pte[p] \in Frame /\ p \in layout.writable /\ Written(p) /\ Place(p) /\ Works
    BY <1>0 DEF IInv, Places, TypeOK, UserWrite
  <2>2. frameOf[p] = pte[p] /\ frameOf[p] # None /\ pte[p] # None
    BY <2>1 DEF Place, Frame
  <2>3. ~BroughtIn(p) /\ ~Abandoned(p)
    BY <1>0, <1>1 DEF BroughtIn, Abandoned, Stage
  <2>4. PutOut(p) => \E u \in Proc : pc[u] = "clear" /\ vic[u] = p
    BY <2>1, <2>2 DEF PutOut, Works, Work
  <2> QED
    BY <2>1, <2>2, <2>3, <2>4 DEF Place
<1>3. /\ mem' \in [Frame -> Data] /\ swap' \in [Slot -> Data \cup {None}]
      /\ changed' \subseteq Page /\ torn' \subseteq Page /\ PagesSound'
  BY <1>0, <1>1, <1>2, WrittenKeepsPages DEF IInv
<1>4. TypeOK'
  BY <1>0, <1>1, <1>3 DEF TypeOK
<1>5. StepOf(t)
  BY <1>0, <1>1 DEF TypeOK, StepOf, Same
<1>6. Stage(t)'
  BY <1>0, <1>1 DEF TypeOK, Stage, Scanning, Evicting, Pinning, HasLock
<1>7. LocksOf(t)'
  BY <1>0, <1>1 DEF TypeOK, LocksOf, Kept, Scanning, Evicting, Pinning, HasLock
<1>8. Work(t)'
  BY <1>0, <1>1 DEF TypeOK, Stage, Work, Kept, Alone, Scanning, Evicting, Pinning
<1>9. Exiting(t) => Exiting(t)'
  BY <1>0, <1>1 DEF TypeOK, Exiting, Stage
<1>10. EmptyFrames'
  BY <1>0, <1>1, <1>5, <1>9, QuietStepKeepsFramesInUse DEF TypeOK, Stage
<1>11. \A u \in Proc \ {t} :
         /\ arg[u] # None => Untouched(arg[u])
         /\ pc[u] \in Evicting => Untouched(vic[u])
         /\ pc[u] = "after" => /\ frameOf'[vic[u]] = frameOf[vic[u]]
                               /\ pageIn'[frm[u]] = pageIn[frm[u]]
  BY <1>1 DEF Untouched
<1>12. Places'
  <2> SUFFICES ASSUME NEW q \in Page
               PROVE  Place(q)'
    BY DEF Places
  <2>1. Place(q) /\ Untouched(q)
    BY <1>1 DEF IInv, Places, Untouched
  <2>2. Owner[q] = t => StaysPut(q)
    BY <1>0, <1>1 DEF TypeOK, StaysPut, BroughtIn, Abandoned, Stage
  <2> QED
    BY <1>0, <1>1, <1>5, <1>9, <2>1, <2>2, PageStaysInPlace
<1>13. \A q \in Page : loc[q] = "freed" => loc'[q] = "freed"
  BY <1>0, <1>1 DEF TypeOK
<1>14. \A q \in Page \ {arg[t]} : Untouched(q)
  BY <1>0, <1>1 DEF TypeOK, Untouched
<1> QED
  BY <1>3, <1>4, <1>5, <1>6, <1>7, <1>8, <1>10, <1>11, <1>12, <1>13, <1>14, StepKeepsIInv

(* A system call that only reads its buffer.                                *)
LEMMA TransferOutKeepsIInv ==
  ASSUME IInv, NEW t \in Proc, Transfer(t), UNCHANGED data, halted' = "no"
  PROVE  IInv'
<1> USE VMAssumption
<1>0. TypeOK /\ Stage(t) /\ LocksOf(t) /\ Work(t) /\ EmptyFrames
  BY DEF IInv, Stages, Locks, Works
<1>1. /\ halted = "no" /\ pc[t] \in {"pinned", "transfer"}
      /\ fileLock' = IF fileLock = t THEN None ELSE fileLock
      /\ pc' = [pc EXCEPT ![t] = "unlock"]
      /\ UNCHANGED <<loc, frameOf, slotOf, pte, pageIn, held, op, arg, frm, vic, scanLock,
                     data, layout, halted>>
  BY <1>0 DEF Transfer, Panic, At, Go, Step, pageVars, frameVars, procVars, locks
<1>2. TypeOK'
  BY <1>0, <1>1 DEF TypeOK, PC, Op, data
<1>3. StepOf(t)
  BY <1>0, <1>1 DEF TypeOK, StepOf, Same, LocksOf
<1>4. Stage(t)'
  BY <1>0, <1>1 DEF TypeOK, Stage, Scanning, Evicting, Pinning, HasLock
<1>5. LocksOf(t)'
  BY <1>0, <1>1 DEF TypeOK, LocksOf, Kept, Scanning, Evicting, Pinning, HasLock
<1>6. Work(t)'
  BY <1>0, <1>1 DEF TypeOK, Stage, Work, Kept, Alone, Scanning, Evicting, Pinning
<1>7. Exiting(t) => Exiting(t)'
  BY <1>0, <1>1 DEF TypeOK, Exiting, Stage
<1>8. EmptyFrames'
  BY <1>0, <1>1, <1>3, <1>7, QuietStepKeepsFramesInUse DEF TypeOK, Stage
<1>9. \A q \in Page : Owner[q] = t => StaysPut(q)
  BY <1>0, <1>1 DEF StaysPut, BroughtIn, Abandoned, Stage
<1> QED
  BY <1>1, <1>2, <1>3, <1>4, <1>5, <1>6, <1>7, <1>8, <1>9, QuietStepKeepsIInv DEF TypeOK

(* A system call that writes to its buffer.                                 *)
LEMMA TransferInKeepsIInv ==
  ASSUME IInv, NEW t \in Proc, Transfer(t), Written(arg[t]),
         arg[t] \in layout.writable, halted' = "no"
  PROVE  IInv'
<1> USE VMAssumption
<1>0. TypeOK /\ Stage(t) /\ LocksOf(t) /\ Work(t) /\ EmptyFrames /\ PagesSound
  BY DEF IInv, Stages, Locks, Works, PagesSound
<1>1. /\ halted = "no" /\ pc[t] \in {"pinned", "transfer"}
      /\ fileLock' = IF fileLock = t THEN None ELSE fileLock
      /\ pc' = [pc EXCEPT ![t] = "unlock"]
      /\ UNCHANGED <<loc, frameOf, slotOf, pte, pageIn, held, op, arg, frm, vic, scanLock,
                     layout, halted>>
  BY <1>0 DEF Transfer, Panic, frameVars, procVars, At, Go, Step, pageVars, frameVars,
     procVars, locks
<1>2. /\ arg[t] \in Page /\ pte[arg[t]] \in Frame /\ frameOf[arg[t]] = pte[arg[t]]
      /\ arg[t] \in layout.writable /\ loc[arg[t]] = "frame"
  BY <1>0, <1>1 DEF TypeOK, Stage, Work, Pinning, HasLock
<1>3. /\ mem' \in [Frame -> Data] /\ swap' \in [Slot -> Data \cup {None}]
      /\ changed' \subseteq Page /\ torn' \subseteq Page /\ PagesSound'
  BY <1>0, <1>1, <1>2, WrittenKeepsPages DEF IInv
<1>4. TypeOK'
  BY <1>0, <1>1, <1>3 DEF TypeOK, PC
<1>5. StepOf(t)
  BY <1>0, <1>1 DEF TypeOK, StepOf, Same, LocksOf
<1>6. Stage(t)'
  BY <1>0, <1>1 DEF TypeOK, Stage, Scanning, Evicting, Pinning, HasLock
<1>7. LocksOf(t)'
  BY <1>0, <1>1 DEF TypeOK, LocksOf, Kept, Scanning, Evicting, Pinning, HasLock
<1>8. Work(t)'
  BY <1>0, <1>1 DEF TypeOK, Stage, Work, Kept, Alone, Scanning, Evicting, Pinning
<1>9. Exiting(t) => Exiting(t)'
  BY <1>0, <1>1 DEF TypeOK, Exiting, Stage
<1>10. EmptyFrames'
  BY <1>0, <1>1, <1>5, <1>9, QuietStepKeepsFramesInUse DEF TypeOK, Stage
<1>11. \A u \in Proc \ {t} :
         /\ arg[u] # None => Untouched(arg[u])
         /\ pc[u] \in Evicting => Untouched(vic[u])
         /\ pc[u] = "after" => /\ frameOf'[vic[u]] = frameOf[vic[u]]
                               /\ pageIn'[frm[u]] = pageIn[frm[u]]
  BY <1>1 DEF Untouched
<1>12. Places'
  <2> SUFFICES ASSUME NEW q \in Page
               PROVE  Place(q)'
    BY DEF Places
  <2>1. Place(q) /\ Untouched(q)
    BY <1>1 DEF IInv, Places, Untouched
  <2>2. Owner[q] = t => StaysPut(q)
    BY <1>0, <1>1 DEF TypeOK, StaysPut, BroughtIn, Abandoned, Stage
  <2> QED
    BY <1>0, <1>1, <1>5, <1>9, <2>1, <2>2, PageStaysInPlace
<1>13. \A q \in Page : loc[q] = "freed" => loc'[q] = "freed"
  BY <1>0, <1>1 DEF TypeOK
<1>14. \A q \in Page \ {arg[t]} : Untouched(q)
  BY <1>0, <1>1 DEF TypeOK, Untouched
<1> QED
  BY <1>3, <1>4, <1>5, <1>6, <1>7, <1>8, <1>10, <1>11, <1>12, <1>13, <1>14, StepKeepsIInv

(***************************************************************************)
(* Stopping                                                                 *)
(***************************************************************************)

(* The assertions that are never the reason for the kernel to stop.         *)
LEMMA AssertionsPass ==
  ASSUME IInv, NEW t \in Proc
  PROVE  /\ Recheck(t) => halted' = "no"
         /\ Alloc(t) => ~Panic("assert")
         /\ \A f \in Frame : Evict(t, f) => ~Panic("assert")
         /\ AfterPageOut(t) => ~Panic("assert")
         /\ Locked(t) => ~Panic("assert")
         /\ Fill(t) => ~Panic("assert")
         /\ PageUnlock(t) => ~Panic("assert")
         /\ DestroyLocked(t) => halted' = "no"
<1> USE VMAssumption
<1>0. TypeOK /\ Stage(t) /\ LocksOf(t) /\ Work(t) /\ Links
  BY DEF IInv, PagesSound, Stages, Locks, Works
<1>2. Recheck(t) => halted' = "no"
  BY <1>0 DEF Recheck, At, Step, Go, StillThere, TypeOK, Stage, Links, HasLock
<1>3. Alloc(t) => ~Panic("assert")
  BY <1>0 DEF Alloc, At, Go, Panic, procVars, TypeOK, Work
<1>4. \A f \in Frame : Evict(t, f) => ~Panic("assert")
  <2> SUFFICES ASSUME NEW f \in Frame, Evict(t, f), Panic("assert")
               PROVE  FALSE
    OBVIOUS
  <2>1. pc[t] = "scan" /\ pc' = pc /\ halted' = "assert"
    BY DEF Evict, At, Panic, procVars
  <2>2. pageIn[f] # None /\ frameOf[pageIn[f]] # f
    BY <1>0, <2>1 DEF Evict, Go, Panic, TypeOK
  <2> QED
    BY <1>0, <2>2 DEF TypeOK, Links
<1>5. AfterPageOut(t) => ~Panic("assert")
  BY <1>0 DEF AfterPageOut, At, Go, Panic, procVars, TypeOK, Work
<1>6. Locked(t) => ~Panic("assert")
  BY <1>0, LockedPage DEF Locked, At, Step, Go, Panic, procVars, TypeOK, Stage, Frame
<1>7. Fill(t) => ~Panic("assert")
  BY <1>0 DEF Fill, At, Step, Go, Panic, procVars, TypeOK, Work
<1>8. PageUnlock(t) => ~Panic("assert")
  <2> SUFFICES ASSUME PageUnlock(t), pc[t] = "unlock"
               PROVE  halted' # "assert"
    BY DEF PageUnlock, At, Panic
  <2>1. /\ arg[t] \in Page /\ frm[t] \in Frame /\ frameOf[arg[t]] = frm[t]
        /\ held[frm[t]] = t /\ frm[t] # None
    BY <1>0 DEF TypeOK, Stage, LocksOf, Work, HasLock, Pinning, Frame
  <2>2. pageIn[frm[t]] = arg[t]
    BY <1>0, <2>1 DEF Links
  <2> QED
    BY <2>1, <2>2 DEF PageUnlock, At
<1>9. DestroyLocked(t) => halted' = "no"
  BY <1>0 DEF DestroyLocked, At, Go, TypeOK, Stage, LocksOf, Links, Work
<1> QED
  BY <1>2, <1>3, <1>4, <1>5, <1>6, <1>7, <1>8, <1>9

(* When the kernel does stop, it is for a reason AssertionsHold allows.     *)
LEMMA HaltKeepsIInv ==
  ASSUME IInv, NEW t \in Proc, halted' # "no",
         \/ AcquireFrame(t) \/ Alloc(t) \/ \E f \in Frame : Evict(t, f)
         \/ PageOut(t) \/ AfterPageOut(t) \/ Locked(t) \/ Fill(t) \/ ReadFile(t)
         \/ Transfer(t) \/ PageUnlock(t) \/ RemoveFile(t)
  PROVE  IInv'
<1> USE VMAssumption
<1>0. TypeOK /\ Stage(t) /\ LocksOf(t) /\ Work(t) /\ Links
  BY DEF IInv, PagesSound, Stages, Locks, Works
<1>1. ASSUME NEW why \in {"swap full", "short read", "fault in kernel"}, Panic(why)
      PROVE  IInv'
  <2>1. AssertionsHold'
    BY <1>1 DEF Panic, AssertionsHold
  <2>2. why \in Halt
    BY <1>1 DEF Halt
  <2> QED
    BY <1>1, <2>1, <2>2, PanicKeepsIInv
<1>2. ASSUME NEW f \in Frame, Evict(t, f)
      PROVE  IInv'
  <2>1. halted = "no" /\ pc[t] = "scan" /\ scanLock = t /\ frm[t] > Frames /\ held[f] = None
    BY <1>0, <1>2 DEF Evict, At, CanTake, LocksOf, Scanning
  <2>2. CASE Panic("no page in frame")
    <3>1. pageIn[f] = None
      BY <1>2, <2>1, <2>2 DEF Evict, Go, Panic, TypeOK, procVars
    <3>2. ~NobodyExits
      <4> SUFFICES ASSUME FramesInUse
                   PROVE  FALSE
        BY DEF IInv, EmptyFrames
      <4> QED
        BY <1>0, <2>1, <3>1 DEF FramesInUse, TypeOK, Stage, Frame
    <3>3. AssertionsHold'
      BY <2>2, <3>2 DEF Panic, procVars, AssertionsHold, NobodyExits, Exiting
    <3> QED
      BY <2>2, <3>3, PanicKeepsIInv DEF Halt
  <2>3. CASE Panic("not in frame")
    <3> DEFINE p == pageIn[f]
    <3>1. p \in Page /\ frameOf[p] = f /\ f # None /\ loc[p] # "frame"
      <4>1. pc' = pc /\ halted' = "not in frame"
        BY <2>3 DEF Panic, procVars
      <4>2. p # None /\ frameOf[p] = f /\ loc[p] # "frame"
        BY <1>0, <1>2, <2>1, <4>1 DEF Evict, Go, Panic, TypeOK
      <4> QED
        BY <1>0, <4>2 DEF TypeOK, Frame
    <3>2. Place(p) /\ Owner[p] \in Proc
      BY <3>1 DEF IInv, Places
    <3>3. ~BroughtIn(p)
      <4> SUFFICES ASSUME BroughtIn(p)
                   PROVE  FALSE
        OBVIOUS
      <4> DEFINE u == Owner[p]
      <4>1. u \in Proc /\ LocksOf(u) /\ Work(u) /\ arg[u] = p
        BY <3>2 DEF BroughtIn, IInv, Locks, Works
      <4>2. CASE pc[u] \in {"fill", "reading", "filled"}
        BY <2>1, <3>1, <4>1, <4>2 DEF LocksOf, Work, HasLock
      <4>3. CASE pc[u] \in {"acquire", "recheck"} /\ scanLock = u
        BY <2>1, <4>3
      <4> QED
        BY <4>2, <4>3 DEF BroughtIn
    <3>4. ~PutOut(p)
      <4> SUFFICES ASSUME NEW u \in Proc, vic[u] = p, pc[u] \in {"clear", "free"}
                   PROVE  FALSE
        BY DEF PutOut
      <4>1. pc[u] \in Scanning /\ LocksOf(u)
        BY DEF IInv, Locks, Scanning, Evicting
      <4> QED
        BY <2>1, <4>1 DEF LocksOf
    <3>5. Abandoned(p)
      BY <3>1, <3>2, <3>3, <3>4 DEF Place
    <3>7. ~(p = Stack[Owner[p]] /\ loc[p] = "zero")
      <4> SUFFICES ASSUME p = Stack[Owner[p]], loc[p] = "zero"
                   PROVE  FALSE
        OBVIOUS
      <4>1. LocksOf(Owner[p])
        BY <3>2 DEF IInv, Locks
      <4>2. Kept(Owner[p], f)
        BY <3>1, <3>5 DEF Kept, Abandoned
      <4> QED
        BY <2>1, <3>2, <4>1, <4>2 DEF LocksOf
    <3>6. AssertionsHold'
      <4>1. /\ halted' = "not in frame" /\ pc' = pc /\ op' = op /\ layout' = layout
        BY <2>3 DEF Panic, procVars
      <4> QED
        BY <3>1, <3>2, <3>5, <3>7, <4>1 DEF AssertionsHold, Abandoned, Exiting
    <3> QED
      BY <2>3, <3>6, PanicKeepsIInv DEF Halt
  <2> QED
    BY <1>2, <2>1, <2>2, <2>3, AssertionsPass DEF Evict
<1>3. ASSUME AfterPageOut(t), Panic("page freed")
      PROVE  IInv'
  <2>1. vic[t] \in Page /\ loc[vic[t]] = "freed"
    <3>1. pc' = pc /\ halted' = "page freed" /\ pc[t] = "after"
      BY <1>3 DEF Panic, procVars, AfterPageOut, At
    <3>2. loc[vic[t]] = "freed"
      BY <1>3, <3>1 DEF AfterPageOut, At, Panic
    <3>3. vic[t] # None
      BY <1>0, <3>1 DEF Stage
    <3> QED
      BY <1>0, <3>2, <3>3 DEF TypeOK
  <2>2. Exiting(Owner[vic[t]]) /\ Owner[vic[t]] \in Proc
    BY <2>1 DEF IInv, Places, Place
  <2>3. AssertionsHold'
    BY <1>3, <2>2 DEF Panic, procVars, AssertionsHold, Exiting
  <2> QED
    BY <1>3, <2>3, PanicKeepsIInv DEF Halt
<1>4. ASSUME AcquireFrame(t), Panic("held already")
      PROVE  IInv'
  <2>1. /\ pc[t] = "acquire" /\ frm[t] \in Frame /\ held[frm[t]] = t
        /\ halted' = "held already" /\ pc' = pc /\ op' = op
        /\ loc' = loc /\ frameOf' = frameOf /\ held' = held
    <3>1. pc[t] = "acquire" /\ halted' = "held already" /\ pc' = pc
      BY <1>4 DEF AcquireFrame, At, Panic, procVars
    <3>2. held[frm[t]] = t
      BY <1>0, <1>4, <3>1 DEF AcquireFrame, At, Step, Go, TypeOK
    <3>3. frm[t] \in Frame
      BY <1>0, <3>1 DEF Stage
    <3> QED
      BY <1>4, <3>1, <3>2, <3>3 DEF Panic, procVars, pageVars, frameVars
  <2>2. Kept(t, frm[t]) /\ frm[t] # None
    <3>1. pc[t] \notin HasLock \cup {"locked"}
      BY <2>1 DEF HasLock, Evicting, Pinning
    <3>2. frm[t] # None
      <4>1. \A f \in Frame : f # None
        BY DEF Frame
      <4> QED
        BY <2>1, <4>1
    <3>3. Kept(t, frm[t])
      BY <1>0, <2>1, <3>1 DEF LocksOf
    <3> QED
      BY <3>2, <3>3
  <2>3. AssertionsHold'
    BY <2>1, <2>2 DEF AssertionsHold, Kept, Exiting
  <2> QED
    BY <1>4, <2>3, PanicKeepsIInv DEF Halt
<1>13. AcquireFrame(t) => Panic("held already")
  BY DEF AcquireFrame, At
<1>5. Alloc(t) => halted' = "no"
  BY AssertionsPass DEF Alloc, At
<1>6. PageOut(t) => Panic("swap full")
  BY DEF PageOut, At
<1>7. AfterPageOut(t) => Panic("page freed")
  BY AssertionsPass DEF AfterPageOut, At
<1>8. Locked(t) => halted' = "no"
  BY AssertionsPass DEF Locked, At
<1>9. Fill(t) => halted' = "no"
  BY AssertionsPass DEF Fill, At
<1>10. ReadFile(t) => Panic("short read")
  BY DEF ReadFile, At
<1>11. Transfer(t) \/ RemoveFile(t) => Panic("fault in kernel")
  BY DEF Transfer, RemoveFile, At
<1>12. PageUnlock(t) => halted' = "no"
  BY AssertionsPass DEF PageUnlock, At
<1> QED
  BY <1>1, <1>2, <1>3, <1>4, <1>5, <1>6, <1>7, <1>8, <1>9, <1>10, <1>11, <1>12, <1>13

(***************************************************************************)
(* The invariant                                                            *)
(***************************************************************************)

(* Processes that have loaded nothing hold nothing.                         *)
LEMMA InitIInv == Init => IInv
<1> SUFFICES ASSUME Init
             PROVE  IInv
  OBVIOUS
<1> USE VMAssumption
<1>1. TypeOK
  BY DEF Init, TypeOK, Loc, PC, Op, Halt, Data, Frame
<1>2. Stages
  BY DEF Init, Stages, Stage, Scanning, Evicting, Pinning, HasLock
<1>3. Locks
  BY DEF Init, Locks, LocksOf, Kept, Scanning, Evicting, Pinning, HasLock
<1>4. Works
  BY DEF Init, Works, Work, Kept, Alone, Scanning, Evicting, Pinning
<1>5. Places
  BY DEF Init, Places, Place
<1>6. PagesSound
  <2>1. Links
    BY DEF Init, Links, Frame
  <2>2. SlotUse
    BY DEF Init, SlotUse
  <2>3. Contents
    BY DEF Init, Contents, Content
  <2>4. Changes
    BY DEF Init, Changes
  <2>5. KeptUnlessTorn
    BY DEF Init, KeptUnlessTorn, Fresh
  <2> QED
    BY <2>1, <2>2, <2>3, <2>4, <2>5 DEF PagesSound
<1>7. EmptyFrames
  BY DEF Init, EmptyFrames, FramesInUse, Frame
<1>8. AssertionsHold
  BY DEF Init, AssertionsHold
<1> QED
  BY <1>1, <1>2, <1>3, <1>4, <1>5, <1>6, <1>7, <1>8 DEF IInv

LEMMA StutteringKeepsIInv == IInv /\ UNCHANGED vars => IInv'
<1> SUFFICES ASSUME IInv, UNCHANGED vars
             PROVE  IInv'
  OBVIOUS
<1> USE DEF vars, pageVars, frameVars, procVars, locks
<1>1. TypeOK'
  BY DEF IInv, TypeOK, data
<1>2. Stages' /\ Locks' /\ Works'
  BY DEF IInv, Stages, Stage, Locks, LocksOf, Works, Work, Kept, Alone
<1>3. Places'
  BY PagesStayInPlace DEF IInv
<1>4. PagesSound'
  BY PagesStaySound DEF IInv
<1>5. EmptyFrames'
  BY DEF IInv, EmptyFrames, NobodyExits, FramesInUse, Exiting
<1>6. AssertionsHold'
  BY DEF IInv, AssertionsHold, Exiting
<1> QED
  BY <1>1, <1>2, <1>3, <1>4, <1>5, <1>6 DEF IInv

LEMMA NextKeepsIInv == IInv /\ [Next]_vars => IInv'
<1> SUFFICES ASSUME IInv, Next
             PROVE  IInv'
  BY StutteringKeepsIInv
<1>1. PICK t \in Proc :
        \/ \E p \in Page : UserWrite(t, p) \/ Remove(t, p) \/ Destroy(t, p)
        \/ \E p \in Page, o \in {"fault", "call"} : Enter(t, p, o)
        \/ FrameLock(t) \/ AcquireFrame(t) \/ Recheck(t)
        \/ Alloc(t) \/ Scan(t) \/ \E f \in Frame : Evict(t, f)
        \/ PageOut(t) \/ ClearPage(t) \/ FreeFrame(t) \/ AfterPageOut(t)
        \/ Locked(t) \/ Fill(t) \/ ReadFile(t) \/ MapPage(t) \/ SetupStack(t) \/ StackFails(t)
        \/ TakeFileLock(t) \/ Transfer(t) \/ PageUnlock(t) \/ RemoveFile(t)
        \/ Exit(t) \/ DestroyLocked(t) \/ Gone(t) \/ Stopped
  BY DEF Next
<1>2. ASSUME NEW p \in Page, UserWrite(t, p) \/ Remove(t, p) \/ Destroy(t, p)
      PROVE  IInv'
  BY <1>2, UserWriteKeepsIInv, RemoveKeepsIInv, DestroyKeepsIInv
<1>3. ASSUME NEW p \in Page, NEW o \in {"fault", "call"}, Enter(t, p, o)
      PROVE  IInv'
  BY <1>3, EnterKeepsIInv
<1>4. CASE \/ FrameLock(t) \/ Exit(t) \/ Gone(t) \/ SetupStack(t) \/ StackFails(t)
           \/ TakeFileLock(t)
  BY <1>4, FrameLockKeepsIInv, ExitKeepsIInv, GoneKeepsIInv, SetupStackKeepsIInv,
     StackFailsKeepsIInv, TakeFileLockKeepsIInv
<1>5. CASE AcquireFrame(t)
  BY <1>5, AcquireFrameKeepsIInv, HaltKeepsIInv
<1>6. CASE Recheck(t)
  BY <1>6, RecheckKeepsIInv, AssertionsPass
<1>7. CASE Alloc(t)
  BY <1>7, AllocKeepsIInv, HaltKeepsIInv
<1>8. CASE Scan(t)
  BY <1>8, ScanOnKeepsIInv, ScanFoundKeepsIInv
<1>9. ASSUME NEW f \in Frame, Evict(t, f)
      PROVE  IInv'
  BY <1>9, EvictKeepsIInv, HaltKeepsIInv
<1>10. CASE PageOut(t)
  BY <1>10, PageOutKeepsIInv, HaltKeepsIInv
<1>11. CASE ClearPage(t) \/ FreeFrame(t)
  <2>1. halted' = "no"
    BY <1>11 DEF ClearPage, FreeFrame, At
  <2> QED
    BY <1>11, <2>1, ClearPageKeepsIInv, FreeFrameKeepsIInv
<1>12. CASE AfterPageOut(t)
  BY <1>12, AfterPageOutKeepsIInv, HaltKeepsIInv
<1>13. CASE Locked(t)
  BY <1>13, LockedKeepsIInv, HaltKeepsIInv
<1>14. CASE Fill(t)
  <2>1. loc[arg[t]] \in {"zero", "swap", "file"} \/ Panic("assert")
    BY <1>14 DEF Fill
  <2> QED
    BY <1>14, <2>1, FillZeroKeepsIInv, FillFromSwapKeepsIInv, FillFromFileKeepsIInv,
       AssertionsPass
<1>15. CASE ReadFile(t)
  BY <1>15, ReadWholeKeepsIInv, ReadShortKeepsIInv, HaltKeepsIInv
<1>16. CASE MapPage(t)
  BY <1>16, MapFaultKeepsIInv, MapCallKeepsIInv
<1>17. CASE Transfer(t)
  <2>1. \/ halted' # "no"
        \/ arg[t] \in layout.writable /\ Written(arg[t])
        \/ UNCHANGED data
    BY <1>17 DEF Transfer, Panic
  <2> QED
    BY <1>17, <2>1, TransferInKeepsIInv, TransferOutKeepsIInv, HaltKeepsIInv
<1>18. CASE PageUnlock(t) \/ RemoveFile(t)
  BY <1>18, PageUnlockKeepsIInv, RemoveFileKeepsIInv, HaltKeepsIInv
<1>19. CASE DestroyLocked(t)
  BY <1>19, DestroyResidentKeepsIInv, DestroyElsewhereKeepsIInv, AssertionsPass
<1>20. CASE Stopped
  BY <1>20, StutteringKeepsIInv DEF Stopped
<1> QED
  BY <1>1, <1>2, <1>3, <1>4, <1>5, <1>6, <1>7, <1>8, <1>9, <1>10, <1>11, <1>12, <1>13,
     <1>14,
     <1>15, <1>16, <1>17, <1>18, <1>19, <1>20

THEOREM Invariant == Spec => []IInv
BY InitIInv, NextKeepsIInv, PTL DEF Spec

(***************************************************************************)
(* The properties                                                           *)
(***************************************************************************)

(* VM keeps to its types.                                                   *)
THEOREM TypeCorrect == Spec => []TypeOK
<1>1. IInv => TypeOK
  BY DEF IInv
<1> QED
  BY <1>1, Invariant, PTL

(* A frame that is mapped belongs to the page mapped to it by both links,   *)
(* its owner is there; and a slot that is in use is the slot of one page.   *)
THEOREM PagesHavePlacesOfTheirOwn == Spec => []OnePagePerPlace
<1>1. IInv => OnePagePerPlace
  <2> SUFFICES ASSUME IInv
               PROVE  OnePagePerPlace
    OBVIOUS
  <2> USE VMAssumption
  <2>1. ASSUME NEW p \in Page, pte[p] # None
        PROVE  frameOf[p] = pte[p] /\ pageIn[pte[p]] = p /\ pc[Owner[p]] # "gone"
    <3>1. Place(p) /\ TypeOK /\ Links /\ Owner[p] \in Proc
      BY DEF IInv, Places, PagesSound
    <3>2. frameOf[p] = pte[p] /\ pte[p] \in Frame
      BY <2>1, <3>1 DEF Place, TypeOK
    <3>3. pageIn[pte[p]] = p
      BY <3>1, <3>2 DEF Links
    <3>4. pc[Owner[p]] # "gone"
      BY <2>1, <3>1, <3>2 DEF IInv, Works, Work, Place
    <3> QED
      BY <3>2, <3>3, <3>4
  <2>2. ASSUME NEW s \in Slot, swap[s] # None
        PROVE  Cardinality({p \in Page : slotOf[p] = s}) = 1
    <3>1. PICK p \in Page : slotOf[p] = s
      BY <2>2 DEF IInv, PagesSound, SlotUse
    <3>2. {q \in Page : slotOf[q] = s} = {p}
      BY <3>1 DEF IInv, PagesSound, SlotUse, Slot
    <3> QED
      BY <3>2, FS_Singleton
  <2>3. \A p \in Page : loc[p] = "swap" => slotOf[p] # None /\ swap[slotOf[p]] # None
    BY DEF IInv, PagesSound, SlotUse
  <2> QED
    BY <2>1, <2>2, <2>3 DEF OnePagePerPlace
<1> QED
  BY <1>1, Invariant, PTL

(* No page but a stack shows its owner anything of another page.            *)
THEOREM NothingIsInherited == Spec => []OnlyStackInherits
<1>1. IInv => OnlyStackInherits
  <2> SUFFICES ASSUME IInv, NEW p \in Page \ {Stack[t] : t \in Proc}
               PROVE  /\ pte[p] # None => mem[pte[p]].from \subseteq {p}
                      /\ loc[p] = "swap" => swap[slotOf[p]].from \subseteq {p}
    BY DEF OnlyStackInherits
  <2>1. Content(p) /\ Place(p)
    BY DEF IInv, PagesSound, Contents, Places
  <2> QED
    BY <2>1 DEF Content, Place
<1> QED
  BY <1>1, Invariant, PTL

(* The page a system call has locked stays mapped, in its frame, and        *)
(* locked; the page that is being evicted stays, and so does its owner.     *)
THEOREM LockedPagesStay == Spec => []LockedPageStays
<1>1. IInv => LockedPageStays
  <2> SUFFICES ASSUME IInv
               PROVE  LockedPageStays
    OBVIOUS
  <2> USE VMAssumption
  <2>1. ASSUME NEW t \in Proc, pc[t] \in {"pinned", "transfer", "unlock"}
        PROVE  /\ pte[arg[t]] # None /\ frameOf[arg[t]] = pte[arg[t]]
               /\ loc[arg[t]] = "frame" /\ held[pte[arg[t]]] = t
    BY <2>1 DEF IInv, Stages, Stage, Locks, LocksOf, Works, Work, Pinning, HasLock, Frame
  <2>2. ASSUME NEW t \in Proc, pc[t] \in {"out", "clear", "free"}
        PROVE  /\ loc[vic[t]] # "freed" /\ pc[Owner[vic[t]]] # "gone"
               /\ frameOf[vic[t]] = frm[t] /\ held[frm[t]] = t
    <3>1. Stage(t) /\ LocksOf(t) /\ Work(t) /\ TypeOK
      BY DEF IInv, Stages, Locks, Works
    <3>2. /\ vic[t] \in Page /\ loc[vic[t]] # "freed"
          /\ frameOf[vic[t]] = frm[t] /\ held[frm[t]] = t
      BY <2>2, <3>1 DEF TypeOK, Stage, LocksOf, Work, Evicting, HasLock
    <3>3. pc[Owner[vic[t]]] # "gone"
      BY <3>2 DEF IInv, Works, Work
    <3> QED
      BY <3>2, <3>3
  <2> QED
    BY <2>1, <2>2 DEF LockedPageStays
<1> QED
  BY <1>1, Invariant, PTL

(* Whatever was last written to a page is what its owner will find, unless  *)
(* the write came during an eviction of the page.                           *)
THEOREM WritesAreKept == Spec => []KeptUnlessTorn
<1>1. IInv => KeptUnlessTorn
  BY DEF IInv, PagesSound
<1> QED
  BY <1>1, Invariant, PTL

(* The assertions of vm/ hold, but for what an exit can bring about.        *)
THEOREM AssertionsAreSafe == Spec => []AssertionsHold
<1>1. IInv => AssertionsHold
  BY DEF IInv
<1> QED
  BY <1>1, Invariant, PTL

(* Who looks for a frame to evict waits for whoever holds one, or not.      *)
LEMMA ScanWaits ==
  ASSUME VMAssumption, NEW t \in Proc, pc[t] = "scan"
  PROVE  WaitsFor(t) = {None} \/ \E f \in Frame : held[f] \in WaitsFor(t)
<1>1. 1 \in Frame
  BY DEF VMAssumption, Frame
<1>2. CASE frm[t] > Frames /\ \A f \in Frame : held[f] # None
  <2>1. WaitsFor(t) = {held[f] : f \in Frame}
    BY <1>2 DEF WaitsFor
  <2> QED
    BY <1>1, <2>1
<1>3. CASE ~(frm[t] > Frames /\ \A f \in Frame : held[f] # None)
  <2>1. WaitsFor(t) = {None}
    BY <1>3 DEF WaitsFor
  <2> QED
    BY <2>1
<1> QED
  BY <1>2, <1>3

(* No processes wait for each other: who has file_lock waits for nobody,    *)
(* who has a frame waits for file_lock only, and who has scan_lock waits    *)
(* for a frame.                                                             *)
THEOREM NobodyWaitsForever == Spec => []NoCircularWait
<1>1. IInv => NoCircularWait
  <2> SUFFICES ASSUME IInv, NEW S \in (SUBSET Proc) \ {{}},
                      \A t \in S : WaitsFor(t) \subseteq S \cup {u \in Proc : pc[u] = "gone"}
               PROVE  FALSE
    BY DEF NoCircularWait
  <2> USE VMAssumption
  <2> DEFINE TheGone == {u \in Proc : pc[u] = "gone"}
  <2>0. /\ TypeOK
        /\ \A t \in Proc : Stage(t) /\ LocksOf(t) /\ Work(t)
        /\ None \notin S \cup TheGone
    BY DEF IInv, Stages, Locks, Works
  <2>1. \A u \in TheGone : /\ fileLock # u /\ scanLock # u
                         /\ \A f \in Frame : held[f] # u
    BY <2>0 DEF Stage, LocksOf, Kept, Scanning, Evicting, Pinning, HasLock
  <2>2. \A t \in S : fileLock # t
    <3> SUFFICES ASSUME NEW t \in S, fileLock = t
                 PROVE  FALSE
      OBVIOUS
    <3>1. pc[t] \in {"reading", "transfer", "name"}
      BY <2>0 DEF LocksOf
    <3>2. WaitsFor(t) = {None}
      BY <3>1 DEF WaitsFor
    <3> QED
      BY <2>0, <3>2
  <2>3. \A t \in S : WaitsFor(t) # {fileLock}
    BY <2>1, <2>2
  <2>4. \A t \in S, f \in Frame : held[f] # t
    <3> SUFFICES ASSUME NEW t \in S, NEW f \in Frame, held[f] = t
                 PROVE  FALSE
      OBVIOUS
    <3>1. ASSUME pc[t] \in HasLock \cup {"locked"}
          PROVE  WaitsFor(t) \in {{fileLock}, {None}}
      BY <3>1 DEF WaitsFor, HasLock, Evicting, Pinning
    <3>2. ASSUME Kept(t, f)
          PROVE  WaitsFor(t) \in {{fileLock}, {None}}
      <4>1. /\ pc[t] \in {"exit", "destroy", "lock", "acquire", "recheck", "locked"}
            /\ pc[t] = "acquire" => frm[t] = f
        BY <2>0, <3>2 DEF Stage, Work, Kept
      <4> QED
        BY <4>1 DEF WaitsFor
    <3>3. WaitsFor(t) \in {{fileLock}, {None}}
      BY <2>0, <3>1, <3>2 DEF LocksOf
    <3> QED
      BY <2>0, <2>3, <3>3
  <2>5. \A t \in S : scanLock # t
    <3> SUFFICES ASSUME NEW t \in S, scanLock = t
                 PROVE  FALSE
      OBVIOUS
    <3>1. pc[t] \in Scanning \cup {"acquire", "recheck"} /\ Stage(t)
      BY <2>0 DEF LocksOf
    <3>2. WaitsFor(t) = {None} \/ \E f \in Frame : held[f] \in WaitsFor(t)
      <4>1. CASE pc[t] = "acquire"
        BY <3>1, <4>1 DEF WaitsFor, Stage
      <4>2. CASE pc[t] = "scan"
        BY <4>2, ScanWaits
      <4>3. CASE pc[t] \notin {"acquire", "scan"}
        BY <3>1, <4>3 DEF WaitsFor, Scanning, Evicting
      <4> QED
        BY <4>1, <4>2, <4>3
    <3>3. PICK f \in Frame : held[f] \in S \cup TheGone
      BY <2>0, <3>2
    <3> QED
      BY <2>1, <2>4, <3>3
  <2>6. PICK t \in S : TRUE
    OBVIOUS
  <2>7. WaitsFor(t) # {None} /\ WaitsFor(t) # {fileLock} /\ WaitsFor(t) # {scanLock}
    BY <2>0, <2>1, <2>3, <2>5
  <2>8. PICK f \in Frame : held[f] \in WaitsFor(t)
    <3>1. Stage(t) /\ 1 \in Frame
      BY <2>0 DEF Frame
    <3>2. CASE pc[t] = "acquire"
      BY <3>1, <3>2 DEF WaitsFor, Stage
    <3>3. CASE pc[t] = "scan"
      BY <2>7, <3>3, ScanWaits
    <3>4. CASE pc[t] \notin {"acquire", "scan"}
      BY <2>7, <3>4 DEF WaitsFor
    <3> QED
      BY <3>2, <3>3, <3>4
  <2> QED
    BY <2>1, <2>4, <2>8
<1> QED
  BY <1>1, Invariant, PTL

=============================================================================
