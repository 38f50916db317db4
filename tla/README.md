# The Pintos kernels in TLA+

The repository holds four kernels, one per project of a course: `pintos-p1`
(threads), `pintos-p2` (user programs), `pintos-p3` (virtual memory) and
`pintos-p4` (file system).  They start from the same given code and part where
their projects do; a part is modelled from the kernel in which it was written.
All four run on one CPU, preempted by a timer.

This directory models what is concurrent in them: TLA+ modules, TLC
configurations that check them on small instances, and theorems that TLAPS
checks for every size.  Line numbers of the definitions are in `PROJECT.json`
under `map`.

- [Inventory](#inventory)
- [Modules](#modules)
- [How a step is chosen](#how-a-step-is-chosen)
- [Runs](#runs)
- [Fairness](#fairness)
- [Proofs](#proofs)
- [Where the code and its documents part](#where-the-code-and-its-documents-part)
- [Observations](#observations)
- [Not modelled](#not-modelled)
- [Plan](#plan)

## Inventory

### Threads project (`pintos-p1/src`)

| Component | State | Operations | What makes it correct |
|---|---|---|---|
| Scheduler, `threads/thread.c` | `ready_list`, each thread's `status`, `priority`, `original_pri` | `thread_create`, `thread_block`, `thread_unblock`, `thread_yield`, `thread_exit`, `thread_set_priority`, `schedule`, the end of a time slice | the ready thread of highest priority runs; equals take turns; a thread is on one list |
| Semaphores and locks, `threads/synch.c` | a semaphore's `value` and `waiters`; a lock's `holder` and `lock_max_priority`; a thread's `locks_held` and `blocked_by` | `sema_down`, `sema_try_down`, `sema_up`, `lock_acquire`, `lock_try_acquire`, `lock_release`, donation | mutual exclusion; no lost wakeup; a donation lasts as long as its donor waits |
| Condition variables, `threads/synch.c` | `cond.waiters`, one private semaphore and one recorded priority per waiter | `cond_wait`, `cond_signal`, `cond_broadcast` | releasing and waiting are one as far as signals go |
| Alarm clock, `devices/timer.c` | `ticks`, `wait_list`, a thread's `wakeup_time` and `sleep_semaphore` | `timer_sleep`, `timer_interrupt` | nobody wakes early, nobody oversleeps, every sleeper returns |
| Interrupt queue, `devices/intq.c` | `buf`, `head`, `tail`, the two waiters, a lock | `intq_getc`, `intq_putc`, from threads and from handlers | a FIFO queue; a waiter is woken |
| Kernel lists, `lib/kernel/list.c` | the lists above | `list_insert_ordered`, `list_sort`, `list_pop_front`, `list_remove`, `list_max` | order, and equals keep their order |

The locks call the scheduler (block, unblock, yield, change a priority that a
list is sorted by), the condition variables call the locks, and the alarm clock
calls semaphores from the timer interrupt.  The struct `list_elem` of a thread
is shared by the ready list and by every semaphore's waiters.

### User programs (`pintos-p2/src/userprog`)

| Component | State | Operations | What makes it correct |
|---|---|---|---|
| Processes, `process.c`, `syscall.c` | a `child_wrapper` per child (`loaded`, `exit_flag`, `exitstatus`, `waited_on`), two semaphores in the child's `struct thread`, whose page is freed when it dies | `exec`, `wait`, `exit`, death by exception or bad pointer | `exec` reports the load's outcome; `wait` returns the child's status once, to its parent, after its exit; both return |
| File calls and pointer checks, `syscall.c` | descriptors, `file_lock` | `open`, `read`, `write`, ... | the file system is entered by one process at a time |

### Virtual memory (`pintos-p3/src/vm`, `userprog`)

| Component | State | Operations | What makes it correct |
|---|---|---|---|
| Frame table, `vm/frame.c` | a `page` and a `lock` per frame, `scan_lock` | `frame_alloc_and_lock` (scan, eviction), `frame_lock`, `frame_unlock`, `frame_free` | a locked frame keeps its page; two pages never share a frame |
| Pages, `vm/page.c` | `page_current_loc`, `frame`, `sector` and the hardware page table | `page_in`, `page_lock`, `page_unlock`, `page_out`, `page_exit` | a mapping leads to the owner's page; contents survive eviction |
| Swap, `vm/swap.c` | the bitmap of slots | `swap_in`, `swap_out` | a slot is one page's |
| Callers in `userprog/` | `file_lock` | page fault, `setup_stack`, `read`, `write`, `remove`, `process_exit` | a buffer of a call stays resident |

A page fault of one process evicts a page of another, whose page table it
changes while that process runs, faults itself, or exits.

### File system (`pintos-p4/src/filesys`, `userprog`)

| Component | State | Operations | What makes it correct |
|---|---|---|---|
| Directories and path names, `directory.c`, `filesys.c` | entries on disk; a process's working directory, kept as a sector number | `create`, `mkdir`, `remove`, `open`, `chdir`, resolution of names | the directories are a tree; a name leads to the inode it was given to |
| Open files, `file.c`, `inode.c`, `userprog/syscall.c` | `open_cnt`, `deny_write_cnt` and `removed` of an in-memory inode; the descriptors of a process | `open`, `close`, `exec`, `exit` | counts are the number of holders; a removed file is freed at its last close, not before |
| Inodes, `inode.c` | on disk, a length, direct pointers, one indirect and one doubly indirect pointer | creation, growth block by block, reading, `deallocate_inode` | a block is in one file; what is read is what was written |
| Free map, `free-map.c` | a bitmap in memory and its file | allocate, release, written at halt, read at start | what a file uses is not free, also after a restart |

`file_lock` is taken by every system call of the file system, by `load` around
the opening of the executable and by `process_exit` around its closing, so one
call at a time is inside.  `load` reads the executable without it, and
`sys_halt` writes the free map without it.

### What is hard to test

`PROJECT.json` lists the hazards one by one, each at its line with the
properties that would catch it.  They fall in these groups:

- a lock's `holder` lags behind its semaphore, and `lock_release` gives up the
  lock in two preemptible parts;
- `sema_up` adds one and wakes one, but the woken thread can lose the race;
- donation changes the key of lists that are sorted by it, and chains of
  donations through several locks are given back one by one;
- interrupts come between getting in line and going to sleep (`timer_sleep`,
  `cond_wait`, `intq_getc`);
- a parent reads what its child's death frees;
- eviction works on another process's page while that process writes to it,
  faults on it, locks it, fails to load it, or exits;
- locks that nest in `vm/`;
- in the file system, counts that path walks, descriptors, directories (which
  count twice), executables and exits move up and down; a disk that fills up in
  the middle of a write or a `create`; a halt or a failure between two block
  writes; index arithmetic at the borders of the layout.

## Modules

| Module | Models | Composes |
|---|---|---|
| `KernelList` | `list_insert_ordered`, `list_sort` and the like on sequences | |
| `Scheduler` | `threads/thread.c`: variables, helpers, actions that touch nothing but the scheduler | extends `KernelList` |
| `Synch` | locks and donation with the scheduler | extends `Scheduler`; refines `LockSpec` |
| `LockSpec` | what `lock_init`'s comment promises: one owner at a time | |
| `Monitor` | condition variables on the locks | extends `Synch` |
| `Alarm` | `timer_sleep` and the timer interrupt with the scheduler | extends `Scheduler` |
| `IntQ` | the interrupt queue, with threads on one end and handlers on the other | refines `Fifo` |
| `Fifo` | a bounded queue of bytes | |
| `Process` | the system call handler, `exec`, `wait`, `exit` and death | refines `ProcessSpec` |
| `ProcessSpec` | what `exec` and `wait` promise programs, and which of them a call may turn out to be | |
| `VM` | frames, pages, swap and their callers | |
| `Directory` | names, directories, counts of openers, descriptors, executables and working directories of `pintos-p4` | refines `NameSpec` |
| `NameSpec` | a tree of names in which a node is reused only when nobody names or holds it | |
| `BlockIndex` | the layout of an inode and `calculate_indices` | |
| `Inode` | files on sectors, the free map, halt, failure and restart | extends `BlockIndex`; refines `FileSpec` |
| `FileSpec` | files as arrays of blocks with a length, and the blocks that are being made | |
| `Scheduler_proofs` | theorems about `KernelList`, lemmas about `Scheduler` | extends `Scheduler` |
| `Locks_proofs` | theorems about `Synch` and `Monitor` | extends `Monitor` and `Scheduler_proofs` |
| `Alarm_proofs` | theorems | extends `Alarm` and `Scheduler_proofs` |
| `IntQ_proofs`, `Process_proofs`, `VM_proofs`, `Directory_proofs` | theorems | extend the modules they are about |
| `Inode_proofs` | theorems about `BlockIndex` and `Inode` | extends `Inode` |
| `MC...` | instances for TLC | extend the module they instantiate |

A definition whose comment begins "A mutant of" is a broken variant of the one
after it, kept to see that a property fails when that part of the code is wrong.
No specification uses them.

### From code to state

`Scheduler`, `Synch`.  A thread is a model value; `status`, `readyList`,
`priority`, `originalPri`, `locksHeld`, `blockedBy`, `value`, `waiters`,
`holder` and `lockMax` are the members of the C structures, lists as
sequences.  `pc` and `arg` stand for where a thread is in a function and for
that function's argument.  `lock_acquire` is `BeforeGettingInLine` (announce
and donate along the chain), `SemaDown` (once for each time its loop is
entered or resumed), `UponGettingTheLock`, `SetHolder`; `lock_release` is
`LockRelease` and `SemaUp`.  The idle thread is on no list and runs when the
ready list is empty.

Three peculiarities of the code are kept: `update_priorities` stops its chain
at a thread that is ready, or at a lock that has no holder yet; `lock_release`
computes the priority that remains with `list_max`, which for an empty list
reads the member after `locks_held`, null at that point; `list_sort` is
stable.

`ListSort` is that function turn by turn: a pass goes over the list, finds the
next two runs and merges them in place, an element at a time, and passes follow
until one puts out one run.  `SortDescending` says what a sort has to return,
by the place each element gets; nothing but the proofs uses it.  Each loop is a
function of the number of turns made (`After`), where a turn after the loop's
end changes nothing.

`Monitor`.  A `semaphore_elem` lives on the stack of the thread in
`cond_wait`, so the thread stands for it.  `call` says which of the three
functions that `cond_wait` calls is next.

`Alarm`.  Wakeup times are kept relative to the current tick, as the code
compares them with each other and with `ticks` only.  `TimerInterrupt` is
one tick: wake all that are due and yield if anybody was or the slice is over.
`ReadyListAfter` is the handler's loop, one `sema_up` after the other.

`IntQ`.  A call runs with interrupts off, so a step is all a thread does from
one context switch to the next.  Who gets the queue's lock, of those that wait
for it, is left open.

`Process`.  `syscall` is the static variable in which the handler keeps the
function of a call, one for all processes (`userprog/syscall.c:105`).  A process
that is preempted between setting it (`SetHandler`) and calling through it may
reach its own function, if the compiler kept that in a register, or whichever
was put there last (`Reaches`); the build is optimized (`-O`), and both are
steps.  So a program may get the end of another call than it made; what
`ProcessSpec` says, it says of the calls as they are carried out.  If the pointer
has become null since it was tested, the model halts as `"null"`.
`loaded`, `exited`, `status` and `waited` are the wrapper,
`loadValue` and `exitValue` the semaphores in `struct thread`, `freed` says
that its page is gone.  A parent that downs a semaphore of a freed thread
either finds the 0xcc bytes `palloc_free_multiple` left, a positive value, and
goes on, or the page is in use again and the model halts as `"stale"`.
When no child has the given tid, `child` in `process_wait` is read without
having been set; the build takes the branch "not a child".  `file_lock` is
initialized by the first system call, so a process that exits before any has
been made halts the model as `"lock"`.  The part of `process_exit` that closes
the executable under `file_lock` is one step.

`VM`.  `loc`, `frameOf`, `slotOf` are the members of `struct page`, `pte` is
the page table, `pageIn` and `held` are `struct frame`.  What a frame or a slot
holds is two facts: whose bytes are in it (`from`) and whether it has every
write of its owner (`fresh`).  `changed` and `torn` are history: pages that
have been written to, and pages last written to during their eviction.
`halted` names the ASSERT, PANIC or kernel page fault at which the kernel
stopped, so each is a state and not the end of a behaviour.  A call is any
call that locks a page: its arguments (`copy_in`, `copy_in_string`, which read
the page while it is locked), the name of a file, or the buffer of a `read` or a
`write`, which has to be writable and is filled or emptied under `file_lock`,
or, at the console, without.  Which call a program meant is not kept, so
that the pointer of the handler, static as in `Process`, makes no difference.
`UserWrite` is the processor's doing and no code of the repository.

`Directory`.  A sector stands for the inode in it: `disk` is its type and, for a
directory, its slots, in the order in which `lookup` and `dir_add` go through
them.  `open`, `removed` and `deny` are the in-memory inode.  A path name is
its parts and whether it starts at the root; `resolve_name_to_entry` walks it
as the code does, including the null `struct dir` it goes on with after a name
that is a file's.  The name `/` has no last part: `create` and `remove` then go by
what was on the stack (`BaseNames`), any name or none, in the root.  A
process is its state, working directory, executable and
descriptors.  `gone` and `lost` are history: the working directory has been
removed; the sector was allocated by a `create` that then failed.  Where the
code goes on from what it has damaged the model stops, and `halted` says why:
`"torn directory"`, `"double close"`, `"null directory"`, `"removed
directory"` (see [Observations](#observations)).

`Inode`.  `disk` holds words: pointers and length of an inode, pointers of
a block of pointers, data.  `call` is the call that holds `file_lock`, with
where it is in it; each block it writes is a step: the new inode before its
entry, the pointer before the zeros it leads to, the data, the length last;
and each sector it gives back is one (`deallocate_inode`), as a halt may save
the map in between.  Until it is zeroed a block holds what its sector held
before; `Zeroing` is that block.
`power` is `"on"`, `"saved"` (halt has written the free map and the rest of
the machine has not stopped yet), `"off"`, or why the model stops:
`"damaged"`, when the machine comes on with files whose sectors the saved
map does not have, or with a pointer to a block of pointers that was never
zeroed, so that old contents would be followed; and `"overrun"`, when a block of
pointers is looked up past its end.  A block of data that was never zeroed
does not stop it: it is read as it is.  `DirAddFails` leaves out why the entry
cannot be made, which is in `Directory.CreateFails`.  `recent` and `lost` are
history: what was given out since the map was written, and what is in use for
nothing.  The sectors are those the
free map gives out; the blocks of the root directory and of the free map are
not among them, and files are made with length 0: `inode_create` stores the
length it is given and allocates no block.  Directories, denied writes and path
names are in `Directory`, with which `Inode` shares `inode_close` and the
free map at the grain each needs.

## How a step is chosen

With interrupts off, the code from one context switch to the next is one step.
With interrupts on, a step ends before the next access to state that another
thread or a handler may touch.  So every preemption that can make a difference
to the state a module keeps is a behaviour of it.

In `pintos-p4` a call has the file system to itself.  In `Directory`, where
nothing can come in between, it is one step, and a load is two, since the
executable is read after `file_lock` has been released.  In `Inode`, where
the machine may fail or be halted at any point, each block write is one.

`Synch` and `Alarm` keep the scheduler's own order.  In `IntQ`, `Process` and
`VM` whoever is not blocked may be next: their properties do not rest on
priorities, and that allows every order the scheduler may produce.  Locks in
`VM` go to any of their waiters.  What is done under a lock and can be seen
by nobody else before it is released is one step; `swap_lock` has disappeared
in this way.

Clients of the locks in `Synch` keep three rules, without which the kernel's
own assertions fail or it deadlocks by their fault: no thread acquires a lock
it holds, blocking acquisitions follow one order, no thread exits with a lock.
`lock_try_acquire` is free of the second rule.

## Runs

Each run takes less than two and a half minutes with two workers.
"Panic", "sleep for ever", "all have exited" and "off" are ends that the code
has, so deadlock is not checked except in `vm`, where `Stopped` marks the
legitimate ends and TLC's own check finds any other.

| Run | Instance | States | Shows |
|---|---|---|---|
| `synch_safety` | 3 threads of priority 1, 2, 3; 2 locks; `PriMax` 3; `thread_set_priority` to 0 or 3 | 432,569 | `MutualExclusion`, `OneListPerThread`, `NoLostWakeup`, `ReadyListSorted`, `HighestPriorityRuns`, `DonationHasDonor`, `BelowBaseHasDonor`, and the locks implement `LockSpec` |
| `synch_fair` | 3 threads of one priority, 1 lock | 4,288 | `RoundRobin`, `LockProgress` |
| `monitor` | 3 threads of priority 1, 2, 3; 1 lock with its condition | 63,047 | `SignalsKept`: a signal wakes a thread that was waiting, once |
| `alarm` | 3 threads of one priority that sleep for 0 or 2 ticks, `Slack` 1 | 20,052 | `UpOncePerSleep`, `WokenOnTime`, `EverySleeperReturns` |
| `intq` | 3 threads, 4 slots, 2 bytes, both directions | 62,336 | `OneWaiter`, `WaiterWoken`, and the buffer implements `Fifo` |
| `process` | 3 processes, one exit status and -1 | 259,777 | `SleeperWillBeWoken`, `CallsReturn`, and the calls implement `ProcessSpec` |
| `vm` | 2 processes with 3 pages, 2 frames, 2 swap slots | 1,934,334 | `OnePagePerPlace`, `OnlyStackInherits`, `LockedPageStays`, `KeptUnlessTorn`, `NoCircularWait`, `AssertionsHold` |
| `tree` | 2 processes, 4 sectors for inodes, 2 names, 4 paths, 1 descriptor each, a disk that may be full | 707,142 | `CountsExact`, `TreeSound`, and the calls implement `NameSpec` |
| `blocks` | 5 sectors, 1 direct pointer, 2 pointers in a block, 2 names, 2 files made, 1 restart | 685,536 (names are symmetric) | `NoSharing`, `SectorsAccounted`, `DamageIsRecent`, and files implement `FileSpec` |
| `process_stale`, `vm_write`, `tree_wd` | as above | | one counterexample each, [below](#where-the-code-and-its-documents-part) |

`TypeOK` (`MonTypeOK`) is checked with each; in `alarm` it is part of
`UpOncePerSleep`.

### Bounds

- Three threads and two locks give a chain of donations of length two, a
  thread that holds two locks and one that is woken while another slips in.
  Four priorities are three base priorities and one below all of them.
- `thread_set_priority` takes the lowest and the highest priority, so that base
  priorities are lowered and raised past each other and past donations; the
  kernel panics in some of these states ([Observations](#observations)).
- 0 and 2 ticks make threads get in line in another order than they called,
  fall due together, and fall due before they are in line.  `Slack` 1
  keeps a time that has come apart from one that has passed; times that passed
  earlier differ from that only in their places on the list.
- Four slots hold three bytes: the buffer fills, empties and wraps, and with
  three threads two are in line for the lock while the third waits in it, and
  either may get it.
- Three processes are a parent with two children, and a grandparent, parent
  and child.
- Three pages for two frames make every fault evict.  The third page is, in
  turn, read-only code, code in an executable that is too short, data, and
  zeros (`MCVM.Layouts`).  Two slots are enough for two pages in swap; with a
  slot that an exited process leaked, the device also fills up.
- `tree`: four sectors are the root, the first executable and two more, so
  there are directories in directories, a sector is freed and taken again, and
  the map runs full.  Two names let one directory hold both and the same name
  stand in two.  The four paths name the root,
  what is in it, what is in the working directory, and, through a directory
  in the working directory, the one above it: a process gets into directories,
  up and out again, creates, removes, opens and runs in each, and comes upon a
  file where a directory is needed.  (More paths give more names to the same
  directories; with eight the instance is much larger and shows the same.)  Two processes are enough for one to remove, close or run what the
  other has open; a descriptor of each, with the executables, makes counts up
  to four.
- `blocks`: the direct pointer, the indirect block (which serves one block of
  the file) and two blocks under the doubly indirect one are each met by a
  write, and both writes go on past the last block that can be reached
  (`MCInode.MCWrites`).  One write starts at the beginning and the other at
  block 2, so files have holes, holes are filled, and what is there is written
  again.  Five sectors are too few for two files that grow, so the disk
  fills up at every point of a write, and sectors of a removed file are used
  by the next one.  `MaxOpen` 1 is one holder besides the call under way: who
  holds a file, and how often, is counted in `tree`.  One restart is enough for
  a map that is out of date, or lacks what a removed file had.

## Fairness

Safety properties hold without any.  The liveness properties assume the
following and no more.

- `Synch`, `Alarm`: strong fairness of the timer interrupt, since a tick that
  comes with interrupts off is delivered when they are on again, and only the
  `sema_down` loop has them off; strong fairness of the rest of a call in each
  thread, since a time slice is longer than any of its steps; strong fairness
  of the devices a thread sleeps for.  For `LockProgress` also that a client
  gives its locks back.  Nothing is assumed of new calls.
- `IntQ`: weak fairness of the device, strong fairness of a thread that is
  inside a call.
- `Process`: weak fairness of each process while it is in the kernel; this
  project's scheduler is round robin and its `sema_up` does not yield.
  Nothing is assumed of what programs do, so `CallsReturn` promises the end of
  `wait` only from the child's exit on.
- `VM`: none, and no liveness is claimed.  The victim of an eviction is drawn
  at random and the loop spins while all frames are locked.

`RoundRobin` and `EverySleeperReturns` are stated for threads of one priority:
with priorities, a busy thread starves the ones below it, by design.
`LockProgress` says that the lock moves on, not that a given waiter gets it:
it can lose the race for ever.

## Proofs

TLAPS checks these obligations:

| Module | Obligations |
|---|---|
| `Scheduler_proofs` | 1967 |
| `Locks_proofs` | 2481 |
| `Alarm_proofs` | 1156 |
| `IntQ_proofs` | 600 |
| `Process_proofs` | 1024 |
| `VM_proofs` | 3738 |
| `Directory_proofs` | 3422 |
| `Inode_proofs` | 3987 |

| Theorem | Says |
|---|---|
| **`KernelList`** | |
| `InsertDescendingCorrect` | inserting in order adds the one element and keeps the order |
| `ListSortCorrect` | `list_sort`'s merging of runs returns the stable sort |
| `ListSortEnds` | its loop has ended after as many passes as there are elements |
| `ListSortSorts` | the sort is a permutation in order |
| **`Synch`** | |
| `TypeCorrect` | `Spec => []TypeOK` |
| `LocksExclude` | `Spec => []MutualExclusion` |
| `ListsDisjoint` | `Spec => []OneListPerThread` |
| `WakeupsKept` | `Spec => []NoLostWakeup` |
| `ReadyListStaysSorted` | `Spec => []ReadyListSorted` |
| `HighestRuns` | `Spec => []HighestPriorityRuns` |
| `DonationsHaveDonors` | `Spec => []DonationHasDonor` |
| `LoweredHaveDonors` | `Spec => []BelowBaseHasDonor` |
| `AssertsHold` | `Spec /\ [][NoOvertaking]_vars => []~panicked`: no ASSERT fails unless a thread with a donation sets its base priority above it |
| `LocksImplementLockSpec` | `Spec => ImplementsLockSpec` |
| **`Monitor`** | |
| `MonTypeCorrect` | `MonSpec => []MonTypeOK` |
| `SignalsAreKept` | `MonSpec => []SignalsKept` |
| **`Alarm`** | |
| `UppedOncePerSleep` | `Spec => []UpOncePerSleep` |
| `SleepersWokenOnTime` | `Spec => WokenOnTime` |
| **`IntQ`** | |
| `SpecTypeOK`, `SpecOneWaiter` | `Spec => []TypeOK`, `Spec => []OneWaiter` |
| `SpecImplementsFifo` | `Spec => ImplementsFifo`: the circular buffer is a queue, for every size |
| **`Process`** | |
| `SpecTypeOK`, `SpecSleeperWillBeWoken` | `Spec => []TypeOK`, `Spec => []SleeperWillBeWoken` |
| `SpecImplementsProcessSpec` | `Spec => ImplementsProcessSpec`: what `exec` and `wait` return |
| **`VM`** | |
| `TypeCorrect` | `Spec => []TypeOK` |
| `PagesHavePlacesOfTheirOwn` | `Spec => []OnePagePerPlace` |
| `NothingIsInherited` | `Spec => []OnlyStackInherits` |
| `LockedPagesStay` | `Spec => []LockedPageStays` |
| `WritesAreKept` | `Spec => []KeptUnlessTorn` |
| `AssertionsAreSafe` | `Spec => []AssertionsHold` |
| `NobodyWaitsForever` | `Spec => []NoCircularWait` |
| **`Directory`** | |
| `TypeCorrect` | `Spec => []TypeOK` |
| `CountsAreExact` | `Spec => []CountsExact` |
| `TreeIsSound` | `Spec => []TreeSound` |
| `NamesImplementNameSpec` | `Spec => ImplementsNameSpec` |
| **`Inode`, `BlockIndex`** | |
| `WaysPart` | the ways to two blocks of a file part before either ends |
| `BlocksInBounds` | the blocks a file can have are those before `PTRS_PER_SECTOR * PTRS_PER_SECTOR` and those reached directly |
| `TypeCorrect` | `Spec => []TypeOK` |
| `NoSectorIsShared` | `Spec => []NoSharing` |
| `SectorsAreAccounted` | `Spec => []SectorsAccounted` |
| `DamageStaysRecent` | `Spec => []DamageIsRecent` |
| `FilesKeepWhatIsWritten` | `Spec => ImplementsFileSpec`: what files hold, as long as the machine comes on undamaged |

Each invariant was first checked by TLC on the instance of its run.

### Lists

`ListSortCorrect` is about any list and any key: `ListSort`, the merge sort as
the code makes it, equals `SortDescending`.  Three invariants, one per loop,
carry it.  `Merging`: what `inplace_merge` has passed is not smaller than
anything left of the second run, so an element that moves to the front moves
past strictly smaller ones only, and equals keep their order (`SplicedStable`).
`Passes`: after the first merge the list begins with a run at least one longer
than the one it began with (or all of it), and later merges of the pass leave
it alone (`SameOutside`).  So each pass makes the first run one longer, and as
many passes as there are elements sort the list; a pass over a sorted list
leaves it as it is and puts out one run (`ListSortEnds`).  `Stable` holds throughout: a list
that is a stable rearrangement and in order is the one `SortDescending` names
(`StableSorted`).  That the loops have a course at all is `AfterCourse`.

### Locks and condition variables

The theorems of `Synch` hold for every finite set of threads, every finite set of locks and all
priorities, from `ThreadAssumption`, `PriorityAssumption` and
`LockAssumption`, which say what kind of things the constants are.

The inductive invariant `IInv` is the conjunction of `TypeOK`, `ArgInv`,
`OneListPerThread`, `MutualExclusion`, `NoLostWakeup` and `ReadyListSorted`.
The properties need each other: `SemaUp` keeps the lists apart only if those
on `waiters` are the blocked ones, and exclusion only if the semaphore counts
owners; `NoLostWakeup` needs that a blocked thread is in line.  `ArgInv` is
what had to be added: which argument each program counter goes with, that the
lock a thread is about to record or to up is not among those it holds, and
that a lock's `holder` has it in `locks_held`.

The argument has one lemma per action.  The scheduler is dealt with first:
`ScheduleDispatches` shows that any context switch that starts from a ready
list which agrees with the statuses ends in such a list, sorted, with exactly
one thread running or the CPU idle.  Lock actions that switch then cite it,
and add what they do to their own lock.  The lists rest on the theorems about
`KernelList`.  The refinement needs no more than `IInv`: `OwnerIs` says that the
owner is unique, so each step changes at most one lock's.

Three properties need more than `IInv`, and have invariants of their own on
top of it.

- `HighestRuns`: `TurnInv` says that nobody on the ready list is above the
  thread on the CPU, unless that thread is about to yield, or is in
  `thread_create`, where it is the new thread that may be above it, with the
  priority it was created with.
- `DonationsHaveDonors`: `DonationInv` says that a thread's priority is its base
  priority or that of somebody in line for a lock it holds, and that the same
  goes for what a lock remembers (`lock_max_priority`).  The second half is
  needed because `lock_release` computes the priority that remains from the
  locks and not from the threads.  That a chain raises only threads that hold
  the next lock is `DoneesHoldLocks`.
- `LoweredHaveDonors` follows from `DonationInv` and one fact about
  `lock_release`: the priority it computes is at least the base
  (`OtherPriorityHasDonor`).
- `AssertsHold` has a hypothesis, `NoOvertaking`: no thread that has a donation
  sets its base priority above it.  Without it the ASSERTs do fail: the
  code raises `original_pri` and leaves `priority`, and the next donation
  through that thread finds the one above the other
  ([Observations](#observations)).  This happens in the run as well, and is a
  state of it (`panicked`); the theorem says that it is the only way.

`Monitor` adds actions to those of `Synch`, so its proof starts with `MonSpec`
keeping `IInv`.  `MonInv` adds `MonTypes` and `CondInv`: a thread is on
`cond.waiters` exactly while it is in `cond_wait` without a signal, it has at
most one, and it is blocked in its private semaphore exactly when it has none.
`SignalsKept` follows, as what a step of the scheduler or of a lock does to such
threads is nothing (`WaitersRest`).

### Alarm clock

Both theorems hold for every finite set of threads, all priorities, all sleeping
times, negative ones included, and every `Slack`, from `ThreadAssumption`,
`PriorityAssumption` and `SleepAssumption`.

`IInv` is `UpOncePerSleep` with `Consistent`, which says that the ready list and
the CPU agree with the statuses, and `Times`, which says that `wait_list` is in
order of wakeup times and that a thread in `timer_sleep` that is off the list was
due.  `Times` is what had to be added: the handler looks at the front of the list
only, so that it leaves nobody who is due (`DueCountProperties`, `TickOfList`)
rests on the order, and the order on `list_insert_ordered`
(`InsertAscendingCorrect`, from `InsertDescendingCorrect` with the keys
negated) and on a tick that is the same for all (`TickedProperties`).  That a
return is not early follows from `UpOncePerSleep`: a semaphore that lets its
thread through is that of a thread off the list.

The loop over those who are due is a recursive function, `ReadyListAfter`.  That
it exists is `RecursionUpTo`, and that it ends in a ready list that agrees with
the statuses, `InsertBlockedCorrect`, is by induction over the naturals
(`InductionUpTo`).  `AfterSwitch` then takes over from `Scheduler_proofs`.

### Interrupt queue and processes

In `IntQ`, for every set of threads and every `INTQ_BUFSIZE` above 1
(`IntQAssumption`), the invariant is `TypeOK`, `OneWaiter` and `Blocking`.
`Blocking` had to be added: a blocked thread is in `wait()` or in line, once,
and the thread recorded in `not_empty` or `not_full` is a blocked one, on the
side where threads are.  With it, `ByteKeepsIInv` shows that no thread stays
blocked in `wait()` after a byte has gone in or out.  The refinement needs
`TypeOK` only; the rest is arithmetic: `ModNear` gives the remainder of what is
less than a turn away, and `StoreIsPut` and `TakeIsGet` compare the bytes
inside before and after position by position.

In `Process`, for every set of processes and of exit statuses
(`ProcAssumption`), the invariant is `TypeOK`, `Stages`, `Pointer`, `Semas`,
`Calls` and `SleeperWillBeWoken`.  `Pointer` says that the handler's pointer
holds something as long as anybody is about to call through it.  `Stages` ties the fields of the wrapper to how far the
process has come, `Semas` says that a semaphore is up only from then on, and
`Calls` that the one parent in a call about a child is the only one who downs
its semaphore, so that the count is exactly what the child has upped.  Without
`Calls`, a sleeper's up could have been consumed; none of this rests on a
process reaching the call it asked for.  There is one lemma per
action for the invariant.  For the refinement, steps inside a call and a
child's way out before it sets `exit_flag` are stutters (`GoesToSleep`,
`SilentStep`); a down that ends a call finds, by `Semas`, a child that has
loaded or exited (`ExecCheckStep`, `WaitDownStep`); and whatever a call reaches
is among what `mayRun` has for it (`AskStep`, `BeginsIs`).

### Virtual memory

For every set of processes and pages, every way to divide them
(`VMAssumption`: a page has an owner, a process one stack page, which is
writable and not from a file, and a page that is not writable is from a file)
and any number of frames and slots.  `VMAssumption` also has that `None` is
none of the values it stands beside.

`IInv` has these parts beside `TypeOK`.

| Part | Says |
|---|---|
| `Stages` | which page, frame and victim go with each program counter of a process |
| `Locks` | which of `scan_lock`, `file_lock` and the frame locks a process holds, by its program counter |
| `Works` | how far it has come with its page and with its victim: what `page_current_loc`, the frame and the page table say at each point |
| `Places` | a page that has a frame is mapped there, or is being brought in by its owner (`BroughtIn`), or is being evicted (`PutOut`), or was given up in a failed load or by a `setup_stack` that failed (`Abandoned`) |
| `PagesSound` | page and frame refer to each other (`Links`), a slot in use is one page's (`SlotUse`), a frame or slot has nothing of another page in it (`Contents`), and `KeptUnlessTorn` with the pages that writes can have changed (`Changes`) |
| `EmptyFrames` | while nobody exits, a frame without a page is free and the scan has passed none |
| `AssertionsHold` | |

None of the properties is inductive.  That a page has one place rests on
`Works`, which says that an eviction works on a page whose frame it holds;
that a locked page stays rests on `Locks`, as each change of a mapping is made
under the lock of its frame; and that nothing is lost rests on `Places`, as a
page is neither mapped nor in its home only while somebody is moving it.  There
is one lemma per action, and `Same` says what a step of one process leaves alone
of the others.  `NobodyWaitsForever` follows from `Stages` and `Locks`: who has
`file_lock` waits for nobody, who has a frame waits for `file_lock` at
most, and who has `scan_lock` waits for a frame.

### Directories and names

For every finite set of processes, every number of sectors, all names and path
names of any length, and any number of descriptors
(`DirectoryAssumption`).

`IInv` is `TypeOK`, `CountsExact` and these.

| Part | Says |
|---|---|
| `Files` | a file has no slots |
| `Slots` | the first two slots of a live directory are `"."`, itself, and `".."`; the others in use have ordinary names |
| `Named` | names are unique in a directory, an inode has one name, never the root, and `".."` is the directory in which it has it |
| `Reached` | a set of live inodes that has the root, and with each directory what this names, is the set of all live inodes |
| `Uses` | removed sectors and those a failed `create` has left are in use, apart, and what is open is live or removed |
| `Users` | the working directory of a process is live, unless it was removed under it; which states go with which executable and descriptors |

`Reached` is the step that made the rest provable.  `TreeSound` says that what
is live is what can be reached from the root in `NumSectors` steps; that is
not inductive, as a removed name may change every level below it.  Said of all
closed sets, it is: a new name adds one element to such a set (`NameGained`),
and taking away an inode that names nothing takes one (`NameLost`).
`TreeIsLive` goes back to levels: they grow until one is closed, which must
happen within as many steps as there are sectors.

Path names and levels are recursive functions in the model.  `Recursion` shows
that such a function exists and what it is, once, from the least argument at
which it would go wrong, and `PathLeadsToDir` uses it to show that the walk
of a path is at a live directory, or has ended, after every part.

The counts are numbers of elements of the set of all holdings (a process, a
descriptor, and which of the at most two references it is).  `FdAdded` and
`FdRemoved` compare that set before and after: closing a descriptor moves
those behind it, which is a bijection.

For `NameSpec`, a `create` is a `Make` (`CreateMakes`), a `remove` is a `Drop`
(`RemoveDrops`), an `open` and the opening of an executable are a `Hold`
(`OpenHolds`), a close and an exit are a `Release` if they were the last
(`CloseReleases`), and everything else, a `create` that fails included, does
not touch names.

### Inodes and the free map

For every layout with a direct pointer and pointers in a block
(`BlockIndexAssumption`), every number of sectors, all names and writes and all
bounds (`InodeAssumption`).

With the values of the code (123 and 128), `WaysPart` says that no two blocks of
a file share a sector by `calculate_indices`, and `BlocksInBounds` that blocks
up to 16383 can be reached, which is fewer than `INODE_SPAN` has.

`IInv` is `TypeOK`, and

| Part | Says |
|---|---|
| `Stage` | how far the call has come: what is on the disk already, what is still 0 |
| `Files` | what is open is a file, names and removed files do not share inodes |
| `Trees` | live inodes and their blocks of pointers have their shapes (`Shapes`); a sector is pointed to once (`Forest`); inodes, lost sectors and the one that has been taken but not linked are not pointed to (`Roots`); a sector is in use exactly if it is one of these or pointed to (`Accounted`) |
| `Halts` | the sectors given out and not in the saved map are among the recent ones; the machine went off between a pointer to a block of pointers and its zeros exactly if the call was there |

Two things had to be added.  Between the step that takes a sector and the one
that links it no file has it, and while a file is being freed some of its
sectors are free already and still pointed to (`InUse`, in `Accounted`); so
neither `NoSharing` nor `SectorsAccounted` is inductive.  The tree of a file is two levels of pointers
and not a recursive definition, so no induction over it is needed; the least free
sector and the least block that is missing come from `HasLeast`.

The refinement of `FileSpec` goes by `WaysPart`: a write to one block changes
the word at the end of one way, and the other ways end elsewhere
(`EndsApart`, `ContentKept`).  What a sector held before is read from a block
that has been pointed to and not zeroed (`Content`); these are the `unsettled`
blocks of `FileSpec`, to which `WritePointer` is a `Take` and `set_to_zeros` a
`Clear` (`PointerIsTake`, `ZerosAreClear`), and which a restart leaves as they
are on the disk (`DataIsRead`, `BootIsTurnOn`).  The theorem ends where the model
does: a restart that is `"damaged"` turns nothing on.  How far that can go is
`DamageStaysRecent`: only sectors given out since the map was last written can be
missing from it.

### What only TLC checks

- All liveness: `RoundRobin`, `LockProgress`, `EverySleeperReturns`,
  `WaiterWoken`, `CallsReturn`.  Liveness under fairness and ENABLED are out of
  this prover's reach.
- That the code's plain searches (the walk of `list_insert_ordered`, `list_max`,
  `bitmap_scan`) return the least or greatest element the operators name is
  compared by reading.

## Where the code and its documents part

Each is a run whose counterexample is the behaviour.

1. `process_stale`.  `process_wait` tests `exit_flag` and then downs a
   semaphore in the child's `struct thread`, which may be freed in between;
   the wrapper was meant to prevent that.  `sys_exec` does the same.
2. `vm_write`.  `page_out` copies the page before it unmaps it.  What the
   owner writes in between is lost; `vm/DESIGNDOC.txt` holds the page safe
   until then.
3. `tree_wd`.  `dir_remove` refuses directories that are open and the working
   directory of the caller.  A working directory is a sector number and holds
   nothing open, so another process's can be removed; `filesys/DESIGNDOC` says
   that `open_cnt` guards it.

`KeptUnlessTorn` is what is left of `EvictionKeepsWrites` without the writes
of item 2, and `AssertionsHold` names the assertions that an exit, a failed
load or a `setup_stack` that failed can break: in `vm` they are consequences of
what the code does, and no others happen.

## Observations

Met while modelling and kept in the models as the code has them; no run is
about them.

Threads (`pintos-p1`):

- A thread that holds a donation raises its own base priority above it.
  `thread_set_priority` leaves `priority` as it is (`thread.c:346`), and the next
  donation that passes through fails `ASSERT(t->original_pri <= t->priority)`
  (`threads/synch.c:218`).  In `synch_safety`: main holds a lock, a thread above it
  gets in line for that lock and donates 2, main sets its own priority to 3 and
  stays at 2, and then asks for the other lock: `panicked`.
  `BelowBaseHasDonor` bounds how long a thread stays in that condition.
- `threads/DESIGNDOC.md:153-162` says that priority is given along the chain of
  blockers.  A donation that finds no holder yet, or stops at a ready thread,
  is never passed on: the donor blocks on a lock whose holder has a lower
  priority.
- `wait()` asserts that the queue is still empty (`devices/intq.c:91`).  A
  second thread, queued for `q->lock` behind the waiter, gets the lock when the
  waiter yields in `lock_release`, before the byte is taken.  `IntQ` stops
  there (`panicked`).
- `cond_signal` goes by the priority recorded when `cond_wait` was called
  (`threads/synch.c:490`), so a later donation does not move a waiter in line.

User programs and virtual memory (`pintos-p2`, `pintos-p3`):

- The function a system call is to run is kept in a static variable that all
  processes share (`pintos-p2/src/userprog/syscall.c:105`, and likewise in
  `pintos-p3` and `pintos-p4`) and is read again with interrupts on.  A process
  preempted in between may run another's call, with its own arguments, or panic
  the kernel on a null pointer.  `ProcessSpec` allows the first
  (`mayRun`) and `Process` halts at the second.
- A `setup_stack` that fails after it has a frame returns with the frame locked
  (`pintos-p3/src/userprog/process.c:545`), and the exit that follows asks for
  that lock again.
- `file_lock` is initialized by the first system call; a process may exit
  before any (`pintos-p2/src/userprog/process.c:151`).
- `setup_stack` maps a frame it has not cleared, against its comment; pages
  left in swap by an exited process keep their slots; B5 of
  `vm/DESIGNDOC.txt` says that no lock is taken with another held, which is not
  so, though `NoCircularWait` holds.

File system (`pintos-p4/src/filesys`):

- `chdir` to a file closes its inode twice (`filesys.c:252-258`): `dir_open`
  has closed it when it returns null.
- A path that goes on below a file's name gives `dir_lookup` a null `struct dir`
  and fails its ASSERT (`filesys.c:132`, `directory.c:160`).
- `mkdir` on a full disk may leave a directory without `.` and `..`, since
  `dir_create` does not look at what its writes return (`directory.c:50`).
- `filesys/DESIGNDOC` (A2) gives files 16635 blocks; the doubly indirect
  pointers are counted from the start of the file and the indirect block serves
  one block, so the limit is 16384, beyond which `get_data_block` reads past
  its buffer (`inode.c:340`).
- `create` and `remove` of `/` look up a name they never set (`last_part`,
  `filesys.c:120`).
- A `create` whose entry cannot be made does not give back the sector of its inode
  (`filesys.c:213-216`); both `Directory` and `Inode` count it as `lost`.
- A write that runs out of sectors still sets the length to all that was asked
  for (`inode.c:530`); `FileSpec` allows that.
- `sys_halt` writes the free map without `file_lock`, so a halt in the middle
  of a call saves a map that lacks what the call goes on to take; and a file
  that was removed while open is in no directory and never freed
  (`SectorsAccounted` counts its sectors as `lost`).
- `process_exit` closes the executable and leaves the descriptors open, so a
  removed file that was open stays allocated.

## Not modelled

- The file calls of `pintos-p2`: its file system is the given one, with files
  of one fixed size, and its callers take `file_lock` as those of `pintos-p4`
  do, where names, counts and contents are modelled.  Positions in a file
  (`seek`, `tell`, `readdir`) belong to one process and meet nothing else.
- The condition variables and the lock of each inode in `pintos-p4`: with one
  call at a time under `file_lock` they are never contended.
- Empty path names, and those of more slashes than one and nothing else, which
  look up what was on the stack as `/` does in `create` and `remove`.
- Parts of modelled components: the mlfqs accessors, which are stubs; page
  allocation and thread names; growth of the stack, as `page_for_addr` returns
  no value on that path; `page_deallocate`, which nothing calls; read-only
  pages of zeros.
- ELF loading and argument passing: parsing; of a load the models keep whether
  it succeeds and which pages it makes.
- Bitmaps, hash tables, the page and block allocators: sequential structures
  under one lock each, which the models use as sets, functions and "there is
  no memory".
- IDE, timer chip, keyboard, serial port, console, interrupt controller,
  context switch, boot: device registers and machine code.  The models take
  from them when a handler may run.
- The C library, the tests, examples, host tools and guides.

## Plan

Done, in this order: `KernelList`, `Scheduler`, `Synch` with `LockSpec` and
its proofs, `Monitor`, `Alarm`, `IntQ` with `Fifo`, `Process` with
`ProcessSpec`, `VM`, `Directory` with `NameSpec`, `BlockIndex` and `Inode` with
`FileSpec`; proofs about `BlockIndex`, `IntQ`, `Process`, `VM`, `Inode`, the
priorities and donations of `Synch`, `Monitor`, `Directory` and `Alarm`.

Next: the file calls of `pintos-p2` and positions in files, if a property turns
up that `Directory` and `Inode` do not have.
