----------------------------- MODULE Directory ------------------------------
(* The file system of project 4 seen from its names: directories, path       *)
(* names, the in-memory inodes with their counts of openers and of denied    *)
(* writes, working directories, descriptors and running executables.         *)
(*                                                                           *)
(* Every file system call, the part of load that opens the executable and    *)
(* the part of process_exit that closes it run under one lock, file_lock,    *)
(* so each of them is one step here; what is interleaved is the calls of     *)
(* several processes, and a process being loaded with all of these.          *)
(*                                                                           *)
(* Sectors stand for inodes: block 1 holds the root directory's inode.       *)
(* The blocks of a file's data are left to Inode; here a write to a     *)
(* directory may fail, for want of a block, if DiskMayFill.                  *)
EXTENDS Integers, SequencesExt

CONSTANTS
    Procs,          \* processes
    Initial,        \* the process that runs first
    Program,        \* the name, in the root directory, of what it runs
    NumSectors,     \* sectors 1 .. NumSectors may hold inodes
    Names,          \* file names other than "." and ".."
    Paths,          \* the path names calls are given
    MaxFds,         \* bound: descriptors a process has open at a time
    DiskMayFill     \* a directory that has to grow may find the disk full

ASSUME DirectoryAssumption ==
    /\ IsFiniteSet(Procs) /\ Initial \in Procs
    /\ Program \in Names
    /\ NumSectors \in Nat \ {0, 1}
    /\ Names \cap {"", ".", ".."} = {}
    /\ Paths \subseteq [abs : BOOLEAN, parts : Seq(Names \cup {".", ".."})]
    /\ \A path \in Paths : path.parts = <<>> => path.abs     \* "/"
    /\ MaxFds \in Nat
    /\ DiskMayFill \in BOOLEAN

ROOT    == 1                     \* ROOT_DIR_SECTOR
Sectors == 1 .. NumSectors

(* What a path name leads to when it does not lead to a sector. *)
NODIR  == 0         \* a null struct dir *, or no such entry
FAILED == -1        \* the resolution returns false
CRASH  == -2        \* dir_lookup is given a null struct dir *

VARIABLES
    disk,       \* the inodes on disk: their type and, of a directory, the entries
    used,       \* free_map: the sectors that are allocated
    open,       \* open_cnt of the in-memory inode of a sector, 0 if there is none
    removed,    \* the in-memory inodes marked removed
    deny,       \* their deny_write_cnt
    proc,       \* the processes
    lost,       \* history: sectors a create that failed has left allocated
    halted      \* why the system stopped, or why the model does not go on

vars == <<disk, used, open, removed, deny, proc, lost, halted>>

---------------------------------------------------------------------------
(* Directories on disk *)

Entry(n, s) == [name |-> n, sector |-> s]
UNUSED      == Entry("", 0)         \* in_use is false
HOLE        == Entry("", -1)        \* the same, in a block that is not there

InUse(e) == e.sector > 0

FileInode == [type |-> "FILE", ents |-> <<>>]
DirInode(s, parent) ==
    [type |-> "DIR", ents |-> <<Entry(".", s), Entry("..", parent)>>]

(* The slots of directory d in use for a name; lookup takes the first. *)
SlotsOf(d, n) ==
    {i \in DOMAIN disk[d].ents : InUse(disk[d].ents[i]) /\ disk[d].ents[i].name = n}

lookup(d, n) ==
    IF SlotsOf(d, n) = {} THEN NODIR ELSE disk[d].ents[Min(SlotsOf(d, n))].sector

(* A mutant of dir_is_empty: a directory is removed with what is in it. *)
TakenForEmpty(d) == TRUE

(* Slots 1 and 2 are not looked at: they are "." and "..". *)
dir_is_empty(d) ==
    \A i \in DOMAIN disk[d].ents : i > 2 => ~InUse(disk[d].ents[i])

(* A mutant of SlotToAdd: the last entry is written over. *)
LastSlot(ents) == Len(ents)

(* dir_add writes in the first slot not in use, or past the end. *)
SlotToAdd(ents) ==
    Min({i \in DOMAIN ents : ~InUse(ents[i])} \cup {Len(ents) + 1})

WithSlot(ents, i, e) ==
    IF i > Len(ents) THEN Append(ents, e) ELSE [ents EXCEPT ![i] = e]

(* Writing there may need a block. *)
MayNeedBlock(ents) ==
    SlotToAdd(ents) \in DOMAIN ents => ents[SlotToAdd(ents)] = HOLE

---------------------------------------------------------------------------
(* Path names *)

(* One turn of resolve_name_to_entry: from directory d to the one called n.
   dir_open gives a null pointer for a file, and the walk goes on with it. *)
Walk(d, n) ==
    CASE d \in {FAILED, CRASH}    -> d
      [] d = NODIR                -> CRASH
      [] d > 0 /\ lookup(d, n) = NODIR -> FAILED
      [] OTHER -> IF disk[lookup(d, n)].type = "DIR" THEN lookup(d, n) ELSE NODIR

StartOf(p, path) == IF path.abs THEN ROOT ELSE proc[p].wd

(* The directory the last part is looked up in; of "/", the root. *)
resolve_name_to_entry(p, path) ==
    LET after[k \in Nat] ==
          IF k = 0 THEN StartOf(p, path) ELSE Walk(after[k - 1], path.parts[k])
    IN  after[IF path.parts = <<>> THEN 0 ELSE Len(path.parts) - 1]

(* What it leaves in base_name: the last part.  Of "/", which has none, it is
   whatever was on the stack, with "" for what dir_add refuses as a name. *)
BaseNames(path) ==
    IF path.parts = <<>> THEN Names \cup {"", ".", ".."} ELSE {Last(path.parts)}

resolve_name_to_inode(p, path) ==
    IF path.parts = <<>> THEN ROOT
    ELSE LET d == resolve_name_to_entry(p, path) IN
         CASE d = FAILED           -> NODIR
           [] d \in {NODIR, CRASH} -> CRASH
           [] OTHER                -> lookup(d, Last(path.parts))

---------------------------------------------------------------------------
(* Processes *)

NewProc == [st |-> "none", wd |-> ROOT, gone |-> FALSE, exe |-> NODIR, fds |-> <<>>]

(* A descriptor holds its inode once, and once more if it is a directory. *)
Holds(fd) == IF fd.dir THEN 2 ELSE 1

(* The first process has been loaded from the one file of the root. *)
PROGRAM == 2

Init ==
    /\ disk = [s \in Sectors |->
                 IF s = ROOT
                 THEN [DirInode(ROOT, ROOT) EXCEPT !.ents = Append(@, Entry(Program, PROGRAM))]
                 ELSE FileInode]
    /\ used = {ROOT, PROGRAM}
    /\ open = [s \in Sectors |-> IF s = PROGRAM THEN 1 ELSE 0]
    /\ removed = {}
    /\ deny = [s \in Sectors |-> IF s = PROGRAM THEN 1 ELSE 0]
    /\ proc = [p \in Procs |->
                 IF p = Initial THEN [NewProc EXCEPT !.st = "run", !.exe = PROGRAM]
                 ELSE NewProc]
    /\ lost = {}
    /\ halted = "no"

(* A process that is running, or looking for its executable, hands a path
   name to the file system. *)
Resolves(p, state, path) ==
    /\ halted = "no"
    /\ proc[p].st = state
    /\ path.abs \/ ~proc[p].gone

(* Mutants of inode_close: one close too many, and the mark of a removed inode
   stays. *)
ClosesOnceMore(s, k) ==
    /\ open' = [open EXCEPT ![s] = @ - k - 1]
    /\ UNCHANGED <<used, removed>>

KeepsMark(s, k) ==
    /\ open' = [open EXCEPT ![s] = @ - k]
    /\ used' = IF open[s] = k /\ s \in removed THEN used \ {s} ELSE used
    /\ UNCHANGED removed

(* k times inode_close: the last one drops the in-memory inode and, if it is
   marked removed, frees its sector. *)
inode_close(s, k) ==
    /\ open' = [open EXCEPT ![s] = @ - k]
    /\ IF open[s] = k /\ s \in removed
       THEN used' = used \ {s} /\ removed' = removed \ {s}
       ELSE UNCHANGED <<used, removed>>

---------------------------------------------------------------------------
(* File system calls *)

(* filesys_create up to the new inode: the entry is new, and there is a sector. *)
MayCreate(p, path, d, n) ==
    /\ Resolves(p, "run", path)
    /\ d \in Sectors
    /\ lookup(d, n) = NODIR
    /\ used # Sectors

NewInode(s, d, type) == IF type = "DIR" THEN DirInode(s, d) ELSE FileInode

free_map_allocate == Min(Sectors \ used)

(* sys_create and sys_mkdir (one call, of two types), with n in base_name. *)
sys_create(p, path, n, type) ==
    LET d == resolve_name_to_entry(p, path)
        s == free_map_allocate
    IN
    /\ MayCreate(p, path, d, n)
    /\ n # "" /\ deny[d] = 0
    /\ used' = used \cup {s}
    /\ disk' = [disk EXCEPT ![s] = NewInode(s, d, type),
                            ![d].ents = WithSlot(@, SlotToAdd(@), Entry(n, s))]
    /\ UNCHANGED <<open, removed, deny, proc, lost, halted>>

(* dir_add fails: the name is none, or writes to the directory are denied, since
   a process is being loaded from it, or a block is wanted and the disk is full.
   The sector of the new inode stays allocated.  A directory that could not grow
   is longer all the same. *)
CreateFails(p, path, n, type) ==
    LET d == resolve_name_to_entry(p, path)
        s == free_map_allocate
        refused == n = "" \/ deny[d] > 0
    IN
    /\ MayCreate(p, path, d, n)
    /\ refused \/ (DiskMayFill /\ MayNeedBlock(disk[d].ents))
    /\ used' = used \cup {s}
    /\ lost' = lost \cup {s}
    /\ disk' = [disk EXCEPT ![s] = NewInode(s, d, type),
                            ![d].ents = IF refused THEN @
                                        ELSE WithSlot(@, SlotToAdd(@), HOLE)]
    /\ UNCHANGED <<open, removed, deny, proc, halted>>

(* dir_create does not look at what its writes return: on a full disk mkdir
   may leave a directory without "." and "..", where the model stops. *)
MakeTorn(p, path, n) ==
    LET d == resolve_name_to_entry(p, path) IN
    /\ MayCreate(p, path, d, n)
    /\ DiskMayFill
    /\ halted' = "torn directory"
    /\ UNCHANGED <<disk, used, open, removed, deny, proc, lost>>

(* sys_remove, when dir_remove succeeds. *)
sys_remove(p, path, n) ==
    LET d == resolve_name_to_entry(p, path)
        s == lookup(d, n)
    IN
    /\ Resolves(p, "run", path)
    /\ n \notin {".", ".."}
    /\ d \in Sectors /\ s \in Sectors
    /\ disk[s].type = "DIR" => dir_is_empty(s) /\ open[s] = 0 /\ s # proc[p].wd
    /\ deny[d] = 0
    /\ disk' = [disk EXCEPT ![d].ents[Min(SlotsOf(d, n))] = UNUSED]
    /\ IF open[s] = 0
       THEN used' = used \ {s} /\ UNCHANGED removed
       ELSE removed' = removed \cup {s} /\ UNCHANGED used
    /\ proc' = [q \in Procs |-> [proc[q] EXCEPT !.gone = @ \/ proc[q].wd = s]]
    /\ UNCHANGED <<open, deny, lost, halted>>

(* sys_open: the inode is opened once for the file and, if it is a directory,
   once more for its struct dir. *)
sys_open(p, path) ==
    LET s  == resolve_name_to_inode(p, path)
        fd == [sector |-> s, dir |-> disk[s].type = "DIR"]
    IN
    /\ Resolves(p, "run", path)
    /\ s \in Sectors
    /\ Len(proc[p].fds) < MaxFds
    /\ open' = [open EXCEPT ![s] = @ + Holds(fd)]
    /\ proc' = [proc EXCEPT ![p].fds = Append(@, fd)]
    /\ UNCHANGED <<disk, used, removed, deny, lost, halted>>

(* sys_close: file_close, and dir_close for a directory. *)
sys_close(p, i) ==
    /\ halted = "no"
    /\ proc[p].st = "run"
    /\ i \in DOMAIN proc[p].fds
    /\ inode_close(proc[p].fds[i].sector, Holds(proc[p].fds[i]))
    /\ proc' = [proc EXCEPT ![p].fds = RemoveAt(@, i)]
    /\ UNCHANGED <<disk, deny, lost, halted>>

(* sys_chdir to a directory. *)
sys_chdir(p, path) ==
    LET s == resolve_name_to_inode(p, path) IN
    /\ Resolves(p, "run", path)
    /\ s \in Sectors
    /\ disk[s].type = "DIR"
    /\ proc' = [proc EXCEPT ![p].wd = s, ![p].gone = FALSE]
    /\ UNCHANGED <<disk, used, open, removed, deny, lost, halted>>

(* sys_chdir to a file: dir_open has closed the inode already when filesys_chdir
   closes it.  What the second close does depends on memory that may have been
   freed, and on who has the file open: the model stops. *)
ChdirToFile(p, path) ==
    LET s == resolve_name_to_inode(p, path) IN
    /\ Resolves(p, "run", path)
    /\ s \in Sectors
    /\ disk[s].type = "FILE"
    /\ halted' = "double close"
    /\ UNCHANGED <<disk, used, open, removed, deny, proc, lost>>

(* A name before the last one in a path is a file's: dir_lookup is given a null
   pointer and asserts that it is not. *)
LookBelowFile(p, state, path) ==
    /\ Resolves(p, state, path)
    /\ resolve_name_to_inode(p, path) = CRASH
    /\ halted' = "null directory"
    /\ UNCHANGED <<disk, used, open, removed, deny, proc, lost>>

(* A path that starts from a working directory that has been removed is looked
   up in a sector that is free or holds something else: the model stops. *)
LookInRemoved(p, state, path) ==
    /\ halted = "no"
    /\ proc[p].st = state
    /\ ~path.abs /\ proc[p].gone
    /\ halted' = "removed directory"
    /\ UNCHANGED <<disk, used, open, removed, deny, proc, lost>>

---------------------------------------------------------------------------
(* Processes come and go *)

(* thread_create: the child starts in its parent's working directory. *)
Exec(p, q) ==
    /\ halted = "no"
    /\ proc[p].st = "run" /\ proc[q].st = "none"
    /\ proc' = [proc EXCEPT ![q] = [NewProc EXCEPT !.st = "new", !.wd = proc[p].wd,
                                                   !.gone = proc[p].gone]]
    /\ UNCHANGED <<disk, used, open, removed, deny, lost, halted>>

(* load, under file_lock: the executable is opened and may not be written. *)
LoadOpen(q, path) ==
    LET s == resolve_name_to_inode(q, path) IN
    /\ Resolves(q, "new", path)
    /\ s \in Sectors
    /\ open' = [open EXCEPT ![s] = @ + 1]
    /\ deny' = [deny EXCEPT ![s] = @ + 1]
    /\ proc' = [proc EXCEPT ![q].st = "load", ![q].exe = s]
    /\ UNCHANGED <<disk, used, removed, lost, halted>>

LoadNotFound(q, path) ==
    /\ Resolves(q, "new", path)
    /\ resolve_name_to_inode(q, path) = NODIR
    /\ proc' = [proc EXCEPT ![q].st = "exit"]
    /\ UNCHANGED <<disk, used, open, removed, deny, lost, halted>>

(* load, after file_lock: the headers and segments are read.  A directory, or
   a file that is not in the format, is no executable. *)
Loaded(q) ==
    /\ halted = "no"
    /\ proc[q].st = "load"
    /\ \E st \in IF disk[proc[q].exe].type = "DIR" THEN {"exit"} ELSE {"run", "exit"} :
          proc' = [proc EXCEPT ![q].st = st]
    /\ UNCHANGED <<disk, used, open, removed, deny, lost, halted>>

(* process_exit: the executable is closed and may be written again as far as
   this process goes.  The descriptors are not closed. *)
Exit(q) ==
    LET exe == proc[q].exe IN
    /\ halted = "no"
    /\ proc[q].st \in {"run", "exit"}
    /\ proc' = [proc EXCEPT ![q] = [NewProc EXCEPT !.st = "dead", !.fds = proc[q].fds]]
    /\ IF exe = NODIR THEN UNCHANGED <<open, used, removed, deny>>
       ELSE inode_close(exe, 1) /\ deny' = [deny EXCEPT ![exe] = @ - 1]
    /\ UNCHANGED <<disk, lost, halted>>

Next ==
    \/ \E p \in Procs, path \in Paths :
          \/ \E n \in BaseNames(path) :
                \/ \E type \in {"FILE", "DIR"} :
                      sys_create(p, path, n, type) \/ CreateFails(p, path, n, type)
                \/ MakeTorn(p, path, n)
                \/ sys_remove(p, path, n)
          \/ sys_open(p, path)
          \/ sys_chdir(p, path)
          \/ ChdirToFile(p, path)
          \/ LoadOpen(p, path)
          \/ LoadNotFound(p, path)
          \/ \E state \in {"run", "new"} :
                LookBelowFile(p, state, path) \/ LookInRemoved(p, state, path)
    \/ \E p \in Procs, i \in 1 .. MaxFds : sys_close(p, i)
    \/ \E p, q \in Procs : Exec(p, q)
    \/ \E p \in Procs : Loaded(p) \/ Exit(p)

Spec == Init /\ [][Next]_vars

---------------------------------------------------------------------------
(* Properties *)

(* Every variable is what its declaration says. *)
Inodes ==
    [type : {"FILE", "DIR"},
     ents : Seq([name : Names \cup {"", ".", ".."}, sector : Sectors \cup {0, -1}])]

Processes ==
    [st   : {"none", "new", "load", "run", "exit", "dead"},
     wd   : Sectors,
     gone : BOOLEAN,
     exe  : Sectors \cup {NODIR},
     fds  : Seq([sector : Sectors, dir : BOOLEAN])]

TypeOK ==
    /\ disk \in [Sectors -> Inodes]
    /\ used \subseteq Sectors /\ ROOT \in used
    /\ open \in [Sectors -> Nat] /\ deny \in [Sectors -> Nat]
    /\ removed \subseteq Sectors /\ lost \subseteq Sectors
    /\ proc \in [Procs -> Processes]
    /\ halted \in {"no", "torn directory", "double close", "null directory",
                   "removed directory"}

(* The named children of a directory: what its entries other than "." and ".."
   say. *)
ChildSlots(d) == {i \in DOMAIN disk[d].ents : i > 2 /\ InUse(disk[d].ents[i])}
Children(d)   == {disk[d].ents[i].sector : i \in ChildSlots(d)}

(* The inodes that have been made, are not removed and were not left behind;
   and those that can be reached from the root. *)
Live == used \ (removed \cup lost)

Tree ==
    LET below[k \in Nat] ==
          IF k = 0 THEN {ROOT}
          ELSE LET b == below[k - 1] IN b \cup UNION {Children(d) : d \in b}
    IN  below[NumSectors]

(* How many times the processes, those that exited with descriptors open
   included, hold the inode in sector s. *)
Runners(s) == {p \in Procs : proc[p].exe = s}
FdHolds(s) ==
    {h \in Procs \X (1 .. MaxFds) \X {1, 2} :
        /\ h[2] \in DOMAIN proc[h[1]].fds
        /\ proc[h[1]].fds[h[2]].sector = s
        /\ h[3] <= Holds(proc[h[1]].fds[h[2]])}
Openers(s) == Cardinality(Runners(s)) + Cardinality(FdHolds(s))

(* inode_open, inode_reopen, inode_close, inode_deny_write and inode_allow_write
   agree: open_cnt is the number of references to the inode, deny_write_cnt the
   number of processes that run it, and only an inode somebody has open is
   waiting to be freed. *)
CountsExact ==
    \A s \in Sectors :
        /\ open[s] = Openers(s)
        /\ deny[s] = Cardinality(Runners(s))
        /\ s \in removed => open[s] > 0

(* dir_create, dir_add and dir_remove keep a tree, of which the free map is the
   account.  Names are unique in their directory, no inode has two names, "." is
   the directory itself and ".." the one that names it; and a sector is in use
   for exactly one reason: its inode is in the tree, or it has been removed and
   somebody has it open, or a create that failed has left it behind.  No call
   frees what can still be reached, and none but these leaks. *)
TreeSound ==
    /\ \A d \in Live : disk[d].type = "DIR" =>
          /\ lookup(d, ".") = d
          /\ \A i \in ChildSlots(d) :
                LET s == disk[d].ents[i].sector IN
                /\ SlotsOf(d, disk[d].ents[i].name) = {i}
                /\ disk[s].type = "DIR" => lookup(s, "..") = d
                /\ s # ROOT
                /\ \A e \in Live : \A j \in ChildSlots(e) :
                      disk[e].ents[j].sector = s => <<e, j>> = <<d, i>>
    /\ Live = Tree
    /\ removed \cup lost \subseteq used
    /\ removed \cap lost = {}
    /\ \A s \in Sectors : open[s] > 0 => s \in Tree \cup removed

(* The names of the tree, as the abstract file system has them. *)
Link(d, i) == [dir |-> d, name |-> disk[d].ents[i].name, node |-> disk[d].ents[i].sector]
Links == UNION {{Link(d, i) : i \in ChildSlots(d)} : d \in Live}

Abstract == INSTANCE NameSpec
              WITH Nodes <- Sectors, Root <- ROOT,
                   link <- Links,
                   dirs <- {s \in Live : disk[s].type = "DIR"},
                   held <- {s \in Sectors : open[s] > 0}

(* filesys_create, filesys_remove, sys_open, sys_close, load and process_exit do
   to names and to what is held what NameSpec allows, and nothing else. *)
ImplementsNameSpec == Abstract!Spec

(* filesys/DESIGNDOC, B5, of dir_remove: a directory is not removed while it is
   some process's working directory. *)
WorkingDirectoryStays ==
    \A p \in Procs : proc[p].st \in {"new", "load", "run"} => ~proc[p].gone

=============================================================================
