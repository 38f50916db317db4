--------------------------------- MODULE VM ---------------------------------
(***************************************************************************)
(* Virtual memory of the vm project (pintos-p3): the frame table with its   *)
(* per-frame locks and its scan_lock (vm/frame.c), the pages of each        *)
(* process (vm/page.c), the swap slots (vm/swap.c), and the places of       *)
(* userprog/ that use them: the page fault, setup_stack, the calls that pin *)
(* a buffer, remove, which does not, and process_exit.                      *)
(*                                                                         *)
(* A step runs up to the next access to state another process may change;   *)
(* what is done to a frame under its lock with nobody able to look on is    *)
(* one step.  Locks are taken in any order by those who wait for them.      *)
(*                                                                         *)
(* The contents of a frame or a slot are two things: which pages' data it   *)
(* holds bytes of, and whether it has all that the owner has written.       *)
(***************************************************************************)
EXTENDS Naturals, FiniteSets

CONSTANTS Proc,       \* the processes
          Page,       \* their pages, and, as functions and sets of pages:
          Owner,      \*   p->owner
          Stack,      \*   the page setup_stack allocates
          Layouts,    \* what load_segment may have recorded of the pages
          Frames,     \* frame_cnt
          Slots,      \* the pages the swap device has room for
          None        \* a null pointer, a free lock, an empty slot

ASSUME VMAssumption ==
  /\ Owner \in [Page -> Proc] /\ Stack \in [Proc -> Page]
  /\ Layouts \subseteq [writable : SUBSET Page, fromFile : SUBSET Page, short : SUBSET Page]
  /\ \A l \in Layouts :
       /\ \A t \in Proc : Owner[Stack[t]] = t /\ Stack[t] \in l.writable \ l.fromFile
       /\ Page \ l.writable \subseteq l.fromFile
  /\ Frames \in Nat \ {0} /\ Slots \in Nat
  /\ None \notin Proc \cup Page \cup Nat \cup [from : SUBSET Page, fresh : BOOLEAN]

Frame == 1 .. Frames
Slot == 1 .. Slots
Data == [from : SUBSET Page, fresh : BOOLEAN]

VARIABLES loc, frameOf, slotOf,   \* of a page: page_current_loc, frame, sector
          pte,                    \* of a page: the frame its owner's pagedir maps it to
          pageIn, held, mem,      \* of a frame: page, lock.holder, what is at base
          swap,                   \* of a slot: what it holds; None if its bit is clear
          scanLock, fileLock,     \* who holds them
          pc, op, arg, frm, vic,  \* of a process: where it is, in which operation,
                                  \* on which page and frame, evicting which page
          changed,                \* the pages from a file that have been written to
          torn,                   \* those whose last write came during an eviction
          layout,                 \* the pages that are writable, those filled from the
                                  \* executable, and those it is too short for
          halted                  \* "no", or why the kernel has stopped

pageVars == <<loc, frameOf, slotOf>>
frameVars == <<pageIn, held>>
procVars == <<pc, op, arg, frm, vic>>
locks == <<scanLock, fileLock>>
data == <<mem, swap, changed, torn>>
vars == <<pageVars, pte, frameVars, procVars, locks, data, halted, layout>>

Loc == {"file", "zero", "swap", "frame", "freed"}

PC == {"user",
       "lock", "acquire", "recheck", "locked",       \* in frame_lock, and after it
       "alloc", "scan", "out", "clear", "free", "after",
                                                     \* in frame_alloc_and_lock
       "fill", "reading", "filled",                  \* in do_page_in and setup_stack
       "pinned", "transfer", "unlock",               \* between page_lock and page_unlock
       "remove", "name",                             \* in sys_remove
       "exit", "destroy", "gone"}                    \* in process_exit

Op == {"none", "stack", "fault", "call", "remove", "exit"}

Halt == {"no", "assert", "held already", "no page in frame", "not in frame", "page freed",
         "swap full", "short read", "fault in kernel"}

TypeOK ==
  /\ loc \in [Page -> Loc]
  /\ frameOf \in [Page -> Frame \cup {None}] /\ pte \in [Page -> Frame \cup {None}]
  /\ slotOf \in [Page -> Slot \cup {None}]
  /\ pageIn \in [Frame -> Page \cup {None}] /\ held \in [Frame -> Proc \cup {None}]
  /\ mem \in [Frame -> Data] /\ swap \in [Slot -> Data \cup {None}]
  /\ scanLock \in Proc \cup {None} /\ fileLock \in Proc \cup {None}
  /\ pc \in [Proc -> PC] /\ op \in [Proc -> Op]
  /\ arg \in [Proc -> Page \cup {None}] /\ vic \in [Proc -> Page \cup {None}]
  /\ frm \in [Proc -> 1 .. Frames + 1 \cup {None}]
  /\ changed \subseteq Page /\ torn \subseteq Page
  /\ layout \in Layouts
  /\ halted \in Halt

(* load() has made the pages; setup_stack is about to take a frame.         *)
Init ==
  /\ layout \in Layouts
  /\ loc = [p \in Page |-> IF p \in layout.fromFile THEN "file" ELSE "zero"]
  /\ frameOf = [p \in Page |-> None] /\ slotOf = [p \in Page |-> None]
  /\ pte = [p \in Page |-> None]
  /\ pageIn = [f \in Frame |-> None] /\ held = [f \in Frame |-> None]
  /\ mem = [f \in Frame |-> [from |-> {}, fresh |-> TRUE]]
  /\ swap = [s \in Slot |-> None]
  /\ scanLock = None /\ fileLock = None
  /\ pc = [t \in Proc |-> "alloc"] /\ op = [t \in Proc |-> "stack"]
  /\ arg = [t \in Proc |-> Stack[t]]
  /\ frm = [t \in Proc |-> None] /\ vic = [t \in Proc |-> None]
  /\ changed = {} /\ torn = {}
  /\ halted = "no"

(***************************************************************************)
(* Pieces of steps                                                          *)
(***************************************************************************)

At(t, where) == halted = "no" /\ pc[t] = where

Go(t, where) == pc' = [pc EXCEPT ![t] = where]

(* Process t goes on to where, in the same operation on the same page and   *)
(* frame.                                                                   *)
Step(t, where) == Go(t, where) /\ UNCHANGED <<op, arg, frm, vic>>

(* The operation of t is over.                                              *)
Return(t, where) ==
  /\ Go(t, where)
  /\ op' = [op EXCEPT ![t] = "none"]
  /\ arg' = [arg EXCEPT ![t] = None]
  /\ frm' = [frm EXCEPT ![t] = None]
  /\ vic' = [vic EXCEPT ![t] = None]

(* The kernel stops: an ASSERT, a PANIC, or a page fault in kernel mode.    *)
Panic(why) ==
  /\ halted' = why
  /\ UNCHANGED <<pageVars, pte, frameVars, procVars, locks, data, layout>>

(* A mutant of CanTake: a lock taken without looking at its holder.         *)
TakesAnyway(f) == TRUE

(* lock_acquire(&f->lock) need not wait, lock_try_acquire succeeds.         *)
CanTake(f) == held[f] = None

Acquired(t, f) == held' = [held EXCEPT ![f] = t]
Released(f) == held' = [held EXCEPT ![f] = None]

(* A mutant of LeaveScan: a return that leaves scan_lock held.              *)
StaysInScan(t) == scanLock' = t

(* lock_release(&scan_lock).                                                *)
LeaveScan(t) == scanLock' = None

(* A mutant of IsFree: a scan that does not look at the bits.               *)
AnySlot(s) == TRUE

(* The bit of s in swap_bitmap is clear.                                    *)
IsFree(s) == swap[s] = None

(* The owner writes to p, which is mapped: a copy that is elsewhere is not  *)
(* fresh any more.                                                          *)
Written(p) ==
  /\ mem' = [mem EXCEPT ![pte[p]] = [from |-> @.from \cup {p}, fresh |-> TRUE]]
  /\ swap' = [s \in Slot |-> IF slotOf[p] = s /\ swap[s] # None
                             THEN [swap[s] EXCEPT !.fresh = FALSE] ELSE swap[s]]
  /\ changed' = changed \cup ({p} \cap layout.fromFile)
  /\ torn' = IF \E t \in Proc : pc[t] = "clear" /\ vic[t] = p
             THEN torn \cup {p} ELSE torn \ {p}

(***************************************************************************)
(* Entering the kernel                                                      *)
(***************************************************************************)

(* A user program writes to a page that is mapped.                          *)
UserWrite(t, p) ==
  /\ At(t, "user") /\ Owner[p] = t
  /\ p \in layout.writable /\ pte[p] # None
  /\ Written(p)
  /\ UNCHANGED <<pageVars, pte, frameVars, procVars, locks, halted, layout>>

(* page_in() of a page that is not mapped, or page_lock(), by a system call, *)
(* of a page of its arguments or of the buffer it reads or writes.          *)
Enter(t, p, o) ==
  /\ At(t, "user") /\ Owner[p] = t
  /\ o = "fault" => pte[p] = None
  /\ Go(t, "lock")
  /\ op' = [op EXCEPT ![t] = o]
  /\ arg' = [arg EXCEPT ![t] = p]
  /\ UNCHANGED <<frm, vic, pageVars, pte, frameVars, locks, data, halted, layout>>

(* sys_remove() has found the page of the file's name mapped.               *)
Remove(t, p) ==
  /\ At(t, "user") /\ Owner[p] = t /\ pte[p] # None
  /\ Go(t, "remove")
  /\ op' = [op EXCEPT ![t] = "remove"]
  /\ arg' = [arg EXCEPT ![t] = p]
  /\ UNCHANGED <<frm, vic, pageVars, pte, frameVars, locks, data, halted, layout>>

(* process_exit() of t, by its own call or because it is killed, up to      *)
(* page_exit(); file_lock is taken and released on the way.                 *)
Exit(t) ==
  /\ At(t, "user") \/ At(t, "exit")
  /\ fileLock = None
  /\ Go(t, "destroy")
  /\ op' = [op EXCEPT ![t] = "exit"]
  /\ UNCHANGED <<arg, frm, vic, pageVars, pte, frameVars, locks, data, halted, layout>>

(***************************************************************************)
(* frame_lock(arg[t])                                                       *)
(***************************************************************************)

FrameLock(t) ==
  /\ At(t, "lock")
  /\ LET f == frameOf[arg[t]] IN
       /\ Go(t, IF f = None THEN "locked" ELSE "acquire")
       /\ frm' = [frm EXCEPT ![t] = f]
  /\ UNCHANGED <<op, arg, vic, pageVars, pte, frameVars, locks, data, halted, layout>>

(* lock_acquire() also asserts that t does not hold the lock already.       *)
AcquireFrame(t) ==
  /\ At(t, "acquire")
  /\ \/ /\ CanTake(frm[t])
        /\ Acquired(t, frm[t])
        /\ Step(t, "recheck")
        /\ UNCHANGED <<pageVars, pte, pageIn, locks, data, halted, layout>>
     \/ /\ held[frm[t]] = t
        /\ Panic("held already")

(* A mutant of StillThere: the page is taken to be where it was.            *)
NeverMoved(t) == TRUE

(* The page has the frame it had before t waited for the lock.              *)
StillThere(t) == frm[t] = frameOf[arg[t]]

(* frame_lock's test, and its return: to frame_alloc_and_lock, which calls  *)
(* it with scan_lock held and then releases that, or to a caller in page.c. *)
Recheck(t) ==
  /\ At(t, "recheck")
  /\ IF scanLock = t THEN LeaveScan(t) ELSE UNCHANGED scanLock
  /\ LET next == IF scanLock = t THEN "fill" ELSE "locked" IN
       \/ /\ ~StillThere(t)
          /\ Released(frm[t])
          /\ Step(t, next)
          /\ UNCHANGED <<pageVars, pte, pageIn, fileLock, data, halted, layout>>
       \/ /\ StillThere(t) /\ pageIn[frm[t]] = arg[t]
          /\ Step(t, next)
          /\ UNCHANGED <<pageVars, pte, frameVars, fileLock, data, halted, layout>>
       \/ /\ StillThere(t) /\ pageIn[frm[t]] # arg[t]
          /\ halted' = "assert"
          /\ UNCHANGED <<pageVars, pte, frameVars, procVars, fileLock, data, layout>>

(***************************************************************************)
(* frame_alloc_and_lock(arg[t])                                             *)
(***************************************************************************)

Alloc(t) ==
  /\ At(t, "alloc")
  /\ scanLock = None
  /\ \/ /\ frameOf[arg[t]] = None
        /\ scanLock' = t
        /\ Go(t, "scan")
        /\ frm' = [frm EXCEPT ![t] = 1]
        /\ UNCHANGED <<op, arg, vic, pageVars, pte, frameVars, fileLock, data, halted, layout>>
     \/ /\ frameOf[arg[t]] # None
        /\ Panic("assert")

(* f->page = page; page->frame = f.                                         *)
Installed(t, f) ==
  /\ pageIn' = [pageIn EXCEPT ![f] = arg[t]]
  /\ frameOf' = [frameOf EXCEPT ![arg[t]] = f]

(* One round of the loop that looks for a frame without a page.             *)
Scan(t) ==
  /\ At(t, "scan") /\ frm[t] <= Frames
  /\ \/ /\ CanTake(frm[t]) /\ pageIn[frm[t]] = None
        /\ Installed(t, frm[t])
        /\ Acquired(t, frm[t])
        /\ LeaveScan(t)
        /\ Step(t, "fill")
        /\ UNCHANGED <<loc, slotOf, pte, fileLock, data, halted, layout>>
     \/ /\ ~CanTake(frm[t]) \/ pageIn[frm[t]] # None
        /\ frm' = [frm EXCEPT ![t] = @ + 1]
        /\ UNCHANGED <<pc, op, arg, vic, pageVars, pte, frameVars, locks, data, halted, layout>>

(* The loop has found none: a frame picked at random is to be evicted, if   *)
(* its lock is free.                                                        *)
Evict(t, f) ==
  /\ At(t, "scan") /\ frm[t] > Frames
  /\ CanTake(f)
  /\ LET p == pageIn[f] IN
       \/ /\ p # None /\ frameOf[p] = f /\ loc[p] = "frame"
          /\ Acquired(t, f)
          /\ Go(t, "out")
          /\ frm' = [frm EXCEPT ![t] = f]
          /\ vic' = [vic EXCEPT ![t] = p]
          /\ UNCHANGED <<op, arg, pageVars, pte, pageIn, locks, data, halted, layout>>
       \/ /\ p = None
          /\ Panic("no page in frame")
       \/ /\ p # None /\ frameOf[p] # f
          /\ Panic("assert")
       \/ /\ p # None /\ frameOf[p] = f /\ loc[p] # "frame"
          /\ Panic("not in frame")

(* A mutant of GoesToSwap: pages that came from a file are dropped, their   *)
(* changes with them.                                                       *)
NotFromFile(p) == p \notin layout.fromFile

(* page_out() writes p to swap; the others are read again from their file.  *)
GoesToSwap(p) == p \in layout.writable

(* page_out(vic[t]) up to the change of its location, swap_out() included.  *)
PageOut(t) ==
  /\ At(t, "out")
  /\ LET p == vic[t]  free == {s \in Slot : IsFree(s)} IN
       \/ /\ ~GoesToSwap(p)
          /\ loc' = [loc EXCEPT ![p] = "file"]
          /\ Step(t, "clear")
          /\ UNCHANGED <<frameOf, slotOf, pte, frameVars, locks, data, halted, layout>>
       \/ /\ GoesToSwap(p)
          /\ \E s \in free :
               /\ \A r \in free : s <= r
               /\ swap' = [swap EXCEPT ![s] = mem[frm[t]]]
               /\ slotOf' = [slotOf EXCEPT ![p] = s]
          /\ loc' = [loc EXCEPT ![p] = "swap"]
          /\ Step(t, "clear")
          /\ UNCHANGED <<frameOf, pte, frameVars, locks, mem, changed, torn, halted, layout>>
       \/ /\ GoesToSwap(p) /\ free = {}
          /\ Panic("swap full")

(* A mutant of Unmapped: the evicting process's own page table is changed.  *)
UnmappedIn(p, t) == IF Owner[p] = t THEN [pte EXCEPT ![p] = None] ELSE pte

(* pagedir_clear_page(p->owner->pagedir, p->uaddr), called by t.            *)
Unmapped(p, t) == [pte EXCEPT ![p] = None]

ClearPage(t) ==
  /\ At(t, "clear")
  /\ pte' = Unmapped(vic[t], t)
  /\ Step(t, "free")
  /\ UNCHANGED <<pageVars, frameVars, locks, data, halted, layout>>

(* frame_free(f) when it holds p.                                           *)
FrameFreed(f, p) ==
  /\ pageIn' = [pageIn EXCEPT ![f] = None]
  /\ frameOf' = [frameOf EXCEPT ![p] = None]
  /\ Released(f)

FreeFrame(t) ==
  /\ At(t, "free")
  /\ FrameFreed(frm[t], vic[t])
  /\ Step(t, "after")
  /\ UNCHANGED <<loc, slotOf, pte, locks, data, halted, layout>>

(* page_out() ends with ASSERT (p->frame == NULL), when p may have been     *)
(* freed: that reads the 0xcc bytes free() leaves, or another page's frame. *)
(* The frame is then given to arg[t] and locked again.                      *)
AfterPageOut(t) ==
  /\ At(t, "after")
  /\ \/ /\ loc[vic[t]] = "freed"
        /\ Panic("page freed")
     \/ /\ loc[vic[t]] # "freed" /\ frameOf[vic[t]] # None
        /\ Panic("assert")
     \/ /\ loc[vic[t]] # "freed" => frameOf[vic[t]] = None
        /\ Installed(t, frm[t])
        /\ Go(t, "acquire")
        /\ vic' = [vic EXCEPT ![t] = None]
        /\ UNCHANGED <<op, arg, frm, loc, slotOf, pte, held, locks, data, halted, layout>>

(***************************************************************************)
(* do_page_in(arg[t]) and what its callers do before and after it           *)
(***************************************************************************)

(* page_in() and page_lock(), frame_lock() having returned: the page has no *)
(* frame, or it has one which t has locked.                                 *)
Locked(t) ==
  /\ At(t, "locked") /\ op[t] # "exit"
  /\ LET p == arg[t]  f == frameOf[p] IN
       \/ /\ f = None
          /\ Step(t, "alloc")
          /\ UNCHANGED <<pageVars, pte, frameVars, locks, data, halted, layout>>
       \/ /\ op[t] = "fault" /\ f # None /\ held[f] = t /\ loc[p] = "frame"
          /\ Step(t, "filled")
          /\ UNCHANGED <<pageVars, pte, frameVars, locks, data, halted, layout>>
       \/ /\ op[t] = "call" /\ f # None /\ pte[p] # None
          /\ Step(t, "pinned")
          /\ UNCHANGED <<pageVars, pte, frameVars, locks, data, halted, layout>>
       \/ /\ IF op[t] = "fault" THEN f # None /\ (held[f] # t \/ loc[p] # "frame")
                                ELSE f # None /\ pte[p] = None
          /\ Panic("assert")

(* A mutant of Zeroed: no memset.                                           *)
LeftAsIs(f) == mem[f]

(* What memset(f->base, 0, PGSIZE) leaves.                                  *)
Zeroed(f) == [from |-> {}, fresh |-> TRUE]

(* do_page_in() but for the read of a file: a page of zeros, or swap_in().  *)
Fill(t) ==
  /\ At(t, "fill") /\ op[t] # "stack"
  /\ LET p == arg[t]  f == frm[t] IN
       \/ /\ loc[p] = "zero"
          /\ mem' = [mem EXCEPT ![f] = Zeroed(f)]
          /\ loc' = [loc EXCEPT ![p] = "frame"]
          /\ Step(t, "filled")
          /\ UNCHANGED <<frameOf, slotOf, pte, frameVars, locks, swap, changed, torn, halted, layout>>
       \/ /\ loc[p] = "swap"
          /\ mem' = [mem EXCEPT ![f] = swap[slotOf[p]]]
          /\ swap' = [swap EXCEPT ![slotOf[p]] = None]
          /\ slotOf' = [slotOf EXCEPT ![p] = None]
          /\ loc' = [loc EXCEPT ![p] = "frame"]
          /\ Step(t, "filled")
          /\ UNCHANGED <<frameOf, pte, frameVars, locks, changed, torn, halted, layout>>
       \/ /\ loc[p] = "file" /\ fileLock = None
          /\ fileLock' = t
          /\ Step(t, "reading")
          /\ UNCHANGED <<pageVars, pte, frameVars, scanLock, data, halted, layout>>
       \/ /\ loc[p] \notin {"zero", "swap", "file"}
          /\ Panic("assert")

(* file_read_at() returns; if it has read too little, a faulting process    *)
(* unlocks the frame and is killed, and page_lock() panics.                 *)
ReadFile(t) ==
  /\ At(t, "reading")
  /\ LET p == arg[t]  f == frm[t] IN
       \/ /\ p \notin layout.short
          /\ mem' = [mem EXCEPT ![f] = [from |-> {p}, fresh |-> p \notin changed]]
          /\ loc' = [loc EXCEPT ![p] = "frame"]
          /\ fileLock' = None
          /\ Step(t, "filled")
          /\ UNCHANGED <<frameOf, slotOf, pte, frameVars, scanLock, swap, changed, torn, halted, layout>>
       \/ /\ p \in layout.short /\ op[t] = "fault"
          /\ mem' = [mem EXCEPT ![f] = [from |-> {p}, fresh |-> p \notin changed]]
          /\ fileLock' = None
          /\ Released(f)
          /\ Return(t, "exit")
          /\ UNCHANGED <<pageVars, pte, pageIn, scanLock, swap, changed, torn, halted, layout>>
       \/ /\ p \in layout.short /\ op[t] # "fault"
          /\ Panic("short read")

(* pagedir_set_page() if the page is not mapped yet.                        *)
MapPage(t) ==
  /\ At(t, "filled")
  /\ LET f == frameOf[arg[t]] IN
       /\ pte' = [pte EXCEPT ![arg[t]] = IF @ = None THEN f ELSE @]
       /\ \/ /\ op[t] = "fault"
             /\ Released(f)
             /\ Return(t, "user")
          \/ /\ op[t] # "fault"
             /\ Step(t, "pinned")
             /\ UNCHANGED held
  /\ UNCHANGED <<pageVars, pageIn, locks, data, halted, layout>>

(* setup_stack() with its frame: it maps the page, whatever the frame       *)
(* holds, writes the arguments and unlocks the frame.                       *)
SetupStack(t) ==
  /\ At(t, "fill") /\ op[t] = "stack"
  /\ LET p == arg[t]  f == frm[t] IN
       /\ pte' = [pte EXCEPT ![p] = f]
       /\ mem' = [mem EXCEPT ![f] = [from |-> @.from \cup {p}, fresh |-> TRUE]]
       /\ loc' = [loc EXCEPT ![p] = "frame"]
       /\ Released(f)
       /\ Return(t, "user")
  /\ UNCHANGED <<frameOf, slotOf, pageIn, locks, swap, changed, torn, halted, layout>>

(* setup_stack() fails when it maps the page, or later because the command  *)
(* line has too many words: it returns with the frame locked, the process   *)
(* exits, and frame_lock() in destroy_page() asks for that lock again.      *)
StackFails(t) ==
  /\ At(t, "fill") /\ op[t] = "stack"
  /\ LET p == arg[t]  f == frm[t] IN
       \/ UNCHANGED <<pte, mem>>
       \/ /\ pte' = [pte EXCEPT ![p] = f]
          /\ mem' = [mem EXCEPT ![f] = [from |-> @.from \cup {p}, fresh |-> TRUE]]
  /\ Return(t, "exit")
  /\ UNCHANGED <<pageVars, frameVars, locks, swap, changed, torn, halted, layout>>

(***************************************************************************)
(* System calls with a locked page, and remove without                      *)
(***************************************************************************)

(* The page of a read or a write has to be writable.                        *)
TakeFileLock(t) ==
  /\ fileLock = None
  /\ \/ At(t, "pinned") /\ arg[t] \in layout.writable /\ Step(t, "transfer")
     \/ At(t, "remove") /\ Step(t, "name")
  /\ fileLock' = t
  /\ UNCHANGED <<pageVars, pte, frameVars, scanLock, data, halted, layout>>

(* file_read_at() into the user's page, or file_write_at() from it, which   *)
(* leaves the page as it is.  The console is read and written, and calls    *)
(* copy in their arguments (from pages that may be read-only), without the  *)
(* lock.                                                                    *)
Transfer(t) ==
  /\ At(t, "transfer") \/ At(t, "pinned")
  /\ \/ /\ pte[arg[t]] # None
        /\ (arg[t] \in layout.writable /\ Written(arg[t])) \/ UNCHANGED data
        /\ fileLock' = IF fileLock = t THEN None ELSE fileLock
        /\ Step(t, "unlock")
        /\ UNCHANGED <<pageVars, pte, frameVars, scanLock, halted, layout>>
     \/ /\ pte[arg[t]] = None
        /\ Panic("fault in kernel")

PageUnlock(t) ==
  /\ At(t, "unlock")
  /\ LET f == frameOf[arg[t]] IN
       \/ /\ f # None /\ held[f] = t /\ pageIn[f] = arg[t]
          /\ Released(f)
          /\ Return(t, "user")
          /\ UNCHANGED <<pageVars, pte, pageIn, locks, data, halted, layout>>
       \/ /\ ~(f # None /\ held[f] = t /\ pageIn[f] = arg[t])
          /\ Panic("assert")

(* filesys_remove() reads the name where the user keeps it.                 *)
RemoveFile(t) ==
  /\ At(t, "name")
  /\ \/ /\ pte[arg[t]] # None
        /\ fileLock' = None
        /\ Return(t, "user")
        /\ UNCHANGED <<pageVars, pte, frameVars, scanLock, data, halted, layout>>
     \/ /\ pte[arg[t]] = None
        /\ Panic("fault in kernel")

(***************************************************************************)
(* page_exit()                                                              *)
(***************************************************************************)

(* hash_destroy() calls destroy_page() for the next page.                   *)
Destroy(t, p) ==
  /\ At(t, "destroy")
  /\ Owner[p] = t /\ loc[p] # "freed"
  /\ Go(t, "lock")
  /\ arg' = [arg EXCEPT ![t] = p]
  /\ UNCHANGED <<op, frm, vic, pageVars, pte, frameVars, locks, data, halted, layout>>

(* destroy_page() after frame_lock().                                       *)
DestroyLocked(t) ==
  /\ At(t, "locked") /\ op[t] = "exit"
  /\ LET p == arg[t]  f == frameOf[p] IN
       \/ /\ f # None /\ held[f] = t /\ pageIn[f] = p
          /\ pte' = [pte EXCEPT ![p] = None]
          /\ FrameFreed(f, p)
          /\ loc' = [loc EXCEPT ![p] = "freed"]
          /\ Go(t, "destroy")
          /\ UNCHANGED halted
       \/ /\ f = None
          /\ loc' = [loc EXCEPT ![p] = "freed"]
          /\ Go(t, "destroy")
          /\ UNCHANGED <<pte, frameOf, frameVars, halted>>
       \/ /\ f # None /\ ~(held[f] = t /\ pageIn[f] = p)
          /\ halted' = "assert"
          /\ UNCHANGED <<pc, pte, pageVars, frameVars>>
  /\ arg' = [arg EXCEPT ![t] = None] /\ frm' = [frm EXCEPT ![t] = None]
  /\ UNCHANGED <<op, vic, slotOf, locks, data, layout>>

(* All pages are gone; the page directory goes.                             *)
Gone(t) ==
  /\ At(t, "destroy")
  /\ \A p \in Page : Owner[p] = t => loc[p] = "freed"
  /\ Return(t, "gone")
  /\ UNCHANGED <<pageVars, pte, frameVars, locks, data, halted, layout>>

(* Nothing is left to do.                                                   *)
Stopped ==
  /\ halted # "no" \/ \A t \in Proc : pc[t] = "gone"
  /\ UNCHANGED vars

Next ==
  \E t \in Proc :
       \/ \E p \in Page : UserWrite(t, p) \/ Remove(t, p) \/ Destroy(t, p)
       \/ \E p \in Page, o \in {"fault", "call"} : Enter(t, p, o)
       \/ FrameLock(t) \/ AcquireFrame(t) \/ Recheck(t)
       \/ Alloc(t) \/ Scan(t) \/ \E f \in Frame : Evict(t, f)
       \/ PageOut(t) \/ ClearPage(t) \/ FreeFrame(t) \/ AfterPageOut(t)
       \/ Locked(t) \/ Fill(t) \/ ReadFile(t) \/ MapPage(t) \/ SetupStack(t) \/ StackFails(t)
       \/ TakeFileLock(t) \/ Transfer(t) \/ PageUnlock(t) \/ RemoveFile(t)
       \/ Exit(t) \/ DestroyLocked(t) \/ Gone(t) \/ Stopped

Spec == Init /\ [][Next]_vars

(***************************************************************************)
(* Properties                                                               *)
(***************************************************************************)

(* Two pages are never kept in one place.  A frame a page table leads to    *)
(* belongs, by both links, to the page that is mapped to it, whose owner is *)
(* still running (pagedir_clear_page in page_out and destroy_page comes     *)
(* before frame_free); a used slot is the slot of one page, and a page in   *)
(* swap has one.                                                            *)
OnePagePerPlace ==
  /\ \A p \in Page : pte[p] # None =>
       /\ frameOf[p] = pte[p] /\ pageIn[pte[p]] = p
       /\ pc[Owner[p]] # "gone"
  /\ \A s \in Slot : swap[s] # None => Cardinality({p \in Page : slotOf[p] = s}) = 1
  /\ \A p \in Page : loc[p] = "swap" => slotOf[p] # None /\ swap[slotOf[p]] # None

(* What a mapped page holds, or a page in swap will hold, comes from that   *)
(* page alone, except that a stack page holds what setup_stack found in its *)
(* frame.                                                                   *)
OnlyStackInherits ==
  \A p \in Page \ {Stack[t] : t \in Proc} :
    /\ pte[p] # None => mem[pte[p]].from \subseteq {p}
    /\ loc[p] = "swap" => swap[slotOf[p]].from \subseteq {p}

(* A page whose frame a process has locked stays as it is.  Between         *)
(* page_lock() and page_unlock() it is resident, mapped and locked by the   *)
(* calling process (DESIGNDOC B8); while page_out() works on it, it is not  *)
(* freed, and its owner, whose page directory page_out() changes, does not  *)
(* get past page_exit().                                                    *)
LockedPageStays ==
  /\ \A t \in Proc : pc[t] \in {"pinned", "transfer", "unlock"} =>
       LET p == arg[t] IN
         /\ pte[p] # None /\ frameOf[p] = pte[p] /\ loc[p] = "frame"
         /\ held[pte[p]] = t
  /\ \A t \in Proc : pc[t] \in {"out", "clear", "free"} =>
       /\ loc[vic[t]] # "freed" /\ pc[Owner[vic[t]]] # "gone"
       /\ frameOf[vic[t]] = frm[t] /\ held[frm[t]] = t

(* The copy of p its owner will see next has all that it has written.       *)
Fresh(p) ==
  /\ loc[p] = "frame" => frameOf[p] # None /\ mem[frameOf[p]].fresh
  /\ loc[p] = "swap" => swap[slotOf[p]].fresh
  /\ loc[p] \in {"file", "zero"} => p \notin changed

(* No eviction, reload or system call loses a write, except a write made    *)
(* while the page was being evicted.                                        *)
KeptUnlessTorn == \A p \in Page \ torn : Fresh(p)

(* Eviction loses no write at all: the answer to B6 in vm/DESIGNDOC.txt.    *)
EvictionKeepsWrites == \A p \in Page : Fresh(p)

(* Those t is waiting for: the holder of the lock it wants, unless that is   *)
(* t, which an ASSERT stops; or, when it has to evict, the holders of all   *)
(* frames if none is free.                                                  *)
WaitsFor(t) ==
  IF pc[t] = "acquire" /\ held[frm[t]] # t THEN {held[frm[t]]}
  ELSE IF pc[t] = "alloc" THEN {scanLock}
  ELSE IF pc[t] = "scan" /\ frm[t] > Frames /\ \A f \in Frame : held[f] # None
       THEN {held[f] : f \in Frame}
  ELSE IF pc[t] \in {"pinned", "remove", "exit"} \/ (pc[t] = "fill" /\ loc[arg[t]] = "file")
       THEN {fileLock}
  ELSE {None}

(* Frame locks, scan_lock and file_lock are taken while others are held,    *)
(* and yet no processes wait for each other, or for one that is gone, which *)
(* B5 of vm/DESIGNDOC.txt promises for another reason.                      *)
NoCircularWait ==
  halted = "no" =>
    \A S \in (SUBSET Proc) \ {{}} :
      \E t \in S : ~(WaitsFor(t) \subseteq S \cup {u \in Proc : pc[u] = "gone"})

Exiting(t) == op[t] = "exit" \/ pc[t] = "gone"

(* The assertions of vm/ hold but for those that meet a page or a frame     *)
(* which an exiting process is giving up, or has failed to fill, or has     *)
(* never unlocked because its setup_stack() failed.                         *)
AssertionsHold ==
  /\ halted # "assert"
  /\ halted = "held already" =>
       \E t \in Proc : /\ Exiting(t) /\ loc[Stack[t]] = "zero"
                       /\ frameOf[Stack[t]] # None /\ held[frameOf[Stack[t]]] = t
  /\ halted \in {"no page in frame", "page freed"} => \E t \in Proc : Exiting(t)
  /\ halted = "not in frame" =>
       \E t \in Proc : (Exiting(t) \/ pc[t] = "exit") /\ \E p \in layout.short : Owner[p] = t
=============================================================================
