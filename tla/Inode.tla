------------------------------- MODULE Inode --------------------------------
(* The inodes, the free map and the disk of project 4: how files are made,   *)
(* grow block by block, are removed and freed, and what is left on the disk  *)
(* when the machine is turned off, by halt or by a failure, and on again.    *)
(*                                                                           *)
(* One system call at a time is inside the file system, which file_lock      *)
(* guards: its block writes are steps of their own.  halt does not take the  *)
(* lock and comes between any two of them.                                   *)
(*                                                                           *)
(* A block is a sequence of words: the pointers of an inode and its length,  *)
(* the pointers of an indirect block, or data.  The sectors are those the    *)
(* free map gives out; the root directory is kept as what its entries say,   *)
(* and the blocks of the root directory and of the free map are left out.    *)
EXTENDS BlockIndex, FiniteSetsExt

CONSTANTS
    NumSectors,     \* the sectors there are to give out
    Names,          \* names in the root directory
    NoName,         \* none of them
    MaxOpen,        \* bound: times a file is open
    Writes,         \* bound: the writes that are made, each its first block and the one after its last
    MaxCreates,     \* bound: files ever made
    MaxBoots        \* bound: times the machine is turned on again

ASSUME InodeAssumption ==
    /\ NumSectors \in Nat \ {0}
    /\ NoName \notin Names
    /\ MaxOpen \in Nat /\ MaxCreates \in Nat /\ MaxBoots \in Nat
    /\ \A w \in Writes : w[1] \in Nat /\ w[2] \in w[1] + 1 .. INODE_SPAN

Sectors    == 1 .. NumSectors
LENGTH     == SECTOR_CNT + 1        \* the word of an inode that holds its length

VARIABLES
    disk,       \* the blocks
    dir,        \* the root directory: the sector of the inode a name stands for
    free_map,   \* the sectors in use, in memory
    saved,      \* the same in the free map file
    open,       \* open_cnt of the in-memory inodes
    removed,    \* the in-memory inodes marked removed
    call,       \* the call that holds file_lock
    power,      \* "on", "saved" (halt has written the free map), "off", or why the model stops
    torn,       \* history: the machine went off between a pointer and the block of pointers it leads to
    recent,     \* history: sectors given out, and not back, since the free map was written
    lost,       \* history: sectors in use for nothing
    boots,      \* how often it did
    creates     \* how many files were made

vars == <<disk, dir, free_map, saved, open, removed, call, power, torn, recent, lost, boots, creates>>

---------------------------------------------------------------------------
(* Blocks *)

ZEROS    == [i \in 1 .. PTRS_PER_SECTOR |-> 0]
Data(v)  == [i \in 1 .. PTRS_PER_SECTOR |-> -v]
NewInode == [i \in 1 .. LENGTH |-> 0]

(* The block that has been pointed to and is yet to be zeroed: it holds what its
   sector held before, and no call follows a pointer in it. *)
Zeroing == IF call.pc = "zero" THEN call.next ELSE 0

(* The call writes a pointer to a block of pointers, not to one of data. *)
ToPointers ==
    \/ call.at = call.s /\ call.word > DIRECT_CNT
    \/ call.at = disk[call.s][DIRECT_CNT + 2]

(* The sector that word w of block b points to, 0 when there is none. *)
Down(b, w) == IF b \in {0, Zeroing} \/ w \notin DOMAIN disk[b] THEN 0 ELSE disk[b][w]

(* The sector reached from the inode in sector s after k of the at most three
   words, 0 when a pointer on the way is. *)
Follow(s, words, k) ==
    CASE k = 0 -> s
      [] k = 1 -> Down(s, words[1])
      [] k = 2 -> Down(Down(s, words[1]), words[2])
      [] k = 3 -> Down(Down(Down(s, words[1]), words[2]), words[3])

(* How many of the words can be followed; all of them if the block is there. *)
Depth(s, words) == Max({k \in 0 .. Len(words) : Follow(s, words, k) # 0})

(* The blocks of pointers of the file whose inode is in sector s, and the
   pointers in them: a block and a word of it. *)
PointerBlocks(s) ==
    LET dbl   == disk[s][DIRECT_CNT + 2]
        under == IF dbl \in {0, Zeroing} THEN {} ELSE {disk[dbl][w] : w \in 1 .. PTRS_PER_SECTOR}
    IN  {s} \cup (({disk[s][DIRECT_CNT + 1], dbl} \cup under) \ {0, Zeroing})

Pointers(s) ==
    {p \in PointerBlocks(s) \X (1 .. Max({SECTOR_CNT, PTRS_PER_SECTOR})) :
        /\ p[2] <= IF p[1] = s THEN SECTOR_CNT ELSE PTRS_PER_SECTOR
        /\ disk[p[1]][p[2]] # 0}

(* What deallocate_inode and the free_map_release after it free. *)
BlocksOf(s) == {s} \cup {disk[p[1]][p[2]] : p \in Pointers(s)}

---------------------------------------------------------------------------
IDLE == [pc |-> "idle", s |-> 0, i |-> 0, end |-> 0, at |-> 0, word |-> 0,
         next |-> 0, name |-> NoName]

Init ==
    /\ disk = [s \in Sectors |-> ZEROS]
    /\ dir = [n \in Names |-> 0]
    /\ free_map = {} /\ saved = {}
    /\ open = [s \in Sectors |-> 0]
    /\ removed = {}
    /\ call = IDLE
    /\ power = "on"
    /\ torn = FALSE
    /\ recent = {} /\ lost = {}
    /\ boots = 0 /\ creates = 0

(* A step of the call that holds file_lock, or of the next one to take it. *)
Runs(pc) == power \in {"on", "saved"} /\ call.pc = pc

Machine == <<saved, power, torn, boots>>

(* A mutant of FreeSector: the map in the file is looked at. *)
FreeInFile == Min(Sectors \ saved)

(* The sector free_map_allocate finds, if there is one. *)
FreeSector == Min(Sectors \ free_map)

---------------------------------------------------------------------------
(* Making a file *)

filesys_create(n) ==
    /\ Runs("idle")
    /\ dir[n] = 0
    /\ creates < MaxCreates /\ creates' = creates + 1
    /\ free_map # Sectors
    /\ free_map' = free_map \cup {FreeSector} /\ recent' = recent \cup {FreeSector}
    /\ call' = [IDLE EXCEPT !.pc = "inode", !.name = n, !.next = FreeSector]
    /\ UNCHANGED <<disk, dir, open, removed, lost, Machine>>

inode_create ==
    /\ Runs("inode")
    /\ disk' = [disk EXCEPT ![call.next] = NewInode]
    /\ call' = [call EXCEPT !.pc = "entry"]
    /\ UNCHANGED <<dir, free_map, open, removed, creates, recent, lost, Machine>>

dir_add ==
    /\ Runs("entry")
    /\ dir' = [dir EXCEPT ![call.name] = call.next]
    /\ call' = IDLE
    /\ UNCHANGED <<disk, free_map, open, removed, creates, recent, lost, Machine>>

(* dir_add cannot make the entry: there is no sector for the directory to grow,
   or it is being run and may not be written.  The sector is not given back. *)
DirAddFails ==
    /\ Runs("entry")
    /\ lost' = lost \cup {call.next}
    /\ call' = IDLE
    /\ UNCHANGED <<disk, dir, free_map, open, removed, creates, recent, Machine>>

---------------------------------------------------------------------------
(* Writing *)

(* sys_write of the blocks from i to before end of an open file. *)
inode_write_at(s, i, end) ==
    /\ Runs("idle")
    /\ open[s] > 0
    /\ call' = [IDLE EXCEPT !.pc = "block", !.s = s, !.i = i, !.end = end]
    /\ UNCHANGED <<disk, dir, free_map, open, removed, creates, recent, lost, Machine>>

(* get_data_block, where it comes to a pointer that is 0: a sector is taken,
   the pointer written and the sector filled with zeros, in this order. *)
get_data_block ==
    LET words == calculate_indices(call.i)
        k     == Depth(call.s, words)
        at    == Follow(call.s, words, k)
    IN
    /\ Runs("block")
    /\ k < Len(words)
    /\ words[k + 1] \in DOMAIN disk[at]
    /\ IF free_map = Sectors
       THEN call' = [call EXCEPT !.pc = "extend"] /\ UNCHANGED <<free_map, recent>>
       ELSE /\ free_map' = free_map \cup {FreeSector} /\ recent' = recent \cup {FreeSector}
            /\ call' = [call EXCEPT !.pc = "point", !.at = at, !.word = words[k + 1],
                                    !.next = FreeSector]
    /\ UNCHANGED <<disk, dir, open, removed, creates, lost, Machine>>

WritePointer ==
    /\ Runs("point")
    /\ disk' = [disk EXCEPT ![call.at][call.word] = call.next]
    /\ call' = [call EXCEPT !.pc = "zero"]
    /\ UNCHANGED <<dir, free_map, open, removed, creates, recent, lost, Machine>>

set_to_zeros ==
    /\ Runs("zero")
    /\ disk' = [disk EXCEPT ![call.next] = ZEROS]
    /\ call' = [call EXCEPT !.pc = "block", !.at = 0, !.word = 0, !.next = 0]
    /\ UNCHANGED <<dir, free_map, open, removed, creates, recent, lost, Machine>>

(* A block of pointers is looked up past its end: a file of more than
   PTRS_PER_SECTOR * PTRS_PER_SECTOR blocks.  The model stops. *)
LookPastEnd ==
    LET words == calculate_indices(call.i)
        k     == Depth(call.s, words)
    IN
    /\ Runs("block")
    /\ k < Len(words)
    /\ words[k + 1] \notin DOMAIN disk[Follow(call.s, words, k)]
    /\ power' = "overrun"
    /\ UNCHANGED <<disk, dir, free_map, saved, open, removed, call, torn, recent, lost, boots, creates>>

(* The block is there, and is written. *)
WriteBlock ==
    LET words == calculate_indices(call.i) IN
    /\ Runs("block")
    /\ Depth(call.s, words) = Len(words)
    /\ disk' = [disk EXCEPT ![Follow(call.s, words, Len(words))] = Data(1)]
    /\ call' = [call EXCEPT !.i = @ + 1, !.pc = IF call.i + 1 = call.end THEN "extend" ELSE "block"]
    /\ UNCHANGED <<dir, free_map, open, removed, creates, recent, lost, Machine>>

(* The length is that of all that was to be written, if less was too. *)
extend_file ==
    /\ Runs("extend")
    /\ disk' = [disk EXCEPT ![call.s][LENGTH] = Max({@, call.end})]
    /\ call' = IDLE
    /\ UNCHANGED <<dir, free_map, open, removed, creates, recent, lost, Machine>>

---------------------------------------------------------------------------
(* Opening, closing and removing *)

inode_open(n) ==
    /\ Runs("idle")
    /\ dir[n] # 0
    /\ open[dir[n]] < MaxOpen
    /\ open' = [open EXCEPT ![dir[n]] = @ + 1]
    /\ UNCHANGED <<disk, dir, free_map, removed, call, creates, recent, lost, Machine>>

(* A mutant of inode_close: the mark of a removed file stays. *)
KeepsMark(s) ==
    /\ Runs("idle")
    /\ open[s] > 0
    /\ open' = [open EXCEPT ![s] = @ - 1]
    /\ call' = IF open[s] = 1 /\ s \in removed THEN [IDLE EXCEPT !.pc = "free", !.s = s] ELSE call
    /\ UNCHANGED <<disk, dir, free_map, removed, creates, recent, lost, Machine>>

(* The last close of a removed file goes on to free its sectors. *)
inode_close(s) ==
    /\ Runs("idle")
    /\ open[s] > 0
    /\ open' = [open EXCEPT ![s] = @ - 1]
    /\ IF open[s] = 1 /\ s \in removed
       THEN removed' = removed \ {s} /\ call' = [IDLE EXCEPT !.pc = "free", !.s = s]
       ELSE UNCHANGED <<removed, call>>
    /\ UNCHANGED <<disk, dir, free_map, creates, recent, lost, Machine>>

(* dir_remove: the entry goes first; the inode is closed, which frees it unless
   it is open. *)
dir_remove(n) ==
    LET s == dir[n] IN
    /\ Runs("idle")
    /\ s # 0
    /\ dir' = [dir EXCEPT ![n] = 0]
    /\ IF open[s] = 0
       THEN call' = [IDLE EXCEPT !.pc = "free", !.s = s] /\ UNCHANGED removed
       ELSE removed' = removed \cup {s} /\ UNCHANGED call
    /\ UNCHANGED <<disk, free_map, open, creates, recent, lost, Machine>>

(* A mutant of deallocate_inode: the inode's own sector is forgotten. *)
KeepsInode(x) ==
    /\ Runs("free")
    /\ x \in BlocksOf(call.s) \cap free_map
    /\ x = call.s => BlocksOf(x) \cap free_map = {x}
    /\ free_map' = free_map \ ({x} \ {call.s}) /\ recent' = recent \ {x}
    /\ call' = IF x = call.s THEN IDLE ELSE call
    /\ UNCHANGED <<disk, dir, open, removed, creates, lost, Machine>>

(* deallocate_inode and the free_map_release after it: sector by sector, the
   inode last; in which order the others go is left open.  Nothing on the disk
   changes. *)
deallocate_inode(x) ==
    /\ Runs("free")
    /\ x \in BlocksOf(call.s) \cap free_map
    /\ x = call.s => BlocksOf(x) \cap free_map = {x}
    /\ free_map' = free_map \ {x} /\ recent' = recent \ {x}
    /\ call' = IF x = call.s THEN IDLE ELSE call
    /\ UNCHANGED <<disk, dir, open, removed, creates, lost, Machine>>

---------------------------------------------------------------------------
(* The machine is turned off and on *)

(* A mutant of free_map_close: the map is not written. *)
NotWritten ==
    /\ power = "on"
    /\ power' = "saved"
    /\ recent' = {}
    /\ UNCHANGED <<disk, dir, free_map, saved, open, removed, call, torn, lost, boots, creates>>

(* sys_halt: filesys_done writes the free map, without file_lock. *)
free_map_close ==
    /\ power = "on"
    /\ saved' = free_map
    /\ power' = "saved"
    /\ recent' = {}
    /\ UNCHANGED <<disk, dir, free_map, open, removed, call, torn, lost, boots, creates>>

(* The machine goes off, some time after that or because it fails. *)
PowerOff ==
    /\ power \in {"on", "saved"}
    /\ power' = "off"
    /\ torn' = (call.pc = "zero" /\ ToPointers)
    /\ UNCHANGED <<disk, dir, free_map, saved, open, removed, call, recent, lost, boots, creates>>

(* The sectors that named files consist of. *)
InFiles == UNION {BlocksOf(dir[n]) : n \in {m \in Names : dir[m] # 0}}

(* filesys_init, without formatting: the free map is what was written last.
   If it lacks sectors that files have, or a pointer leads to a block of
   pointers that has not been zeroed, the model stops. *)
free_map_open ==
    /\ power = "off" /\ boots < MaxBoots
    /\ boots' = boots + 1
    /\ IF torn \/ ~(InFiles \subseteq saved)
       THEN /\ power' = "damaged"
            /\ UNCHANGED <<free_map, open, removed, call, recent, lost>>
       ELSE /\ power' = "on"
            /\ free_map' = saved
            /\ open' = [s \in Sectors |-> 0]
            /\ removed' = {}
            /\ call' = IDLE
            /\ recent' = {}
            /\ lost' = saved \ InFiles
    /\ UNCHANGED <<disk, dir, saved, torn, creates>>

Next ==
    \/ \E n \in Names : filesys_create(n) \/ inode_open(n) \/ dir_remove(n)
    \/ \E s \in Sectors : inode_close(s) \/ deallocate_inode(s)
    \/ \E s \in Sectors, w \in Writes : inode_write_at(s, w[1], w[2])
    \/ inode_create \/ dir_add \/ DirAddFails
    \/ get_data_block \/ WritePointer \/ set_to_zeros \/ LookPastEnd
    \/ WriteBlock \/ extend_file
    \/ free_map_close \/ PowerOff \/ free_map_open

Spec == Init /\ [][Next]_vars

---------------------------------------------------------------------------
(* Properties *)

Running == power \in {"on", "saved"}

(* Every variable is what its declaration says. *)
TypeOK ==
    /\ DOMAIN disk = Sectors
    /\ \A s \in Sectors : Len(disk[s]) \in {PTRS_PER_SECTOR, LENGTH}
    /\ dir \in [Names -> Sectors \cup {0}]
    /\ free_map \subseteq Sectors /\ saved \subseteq Sectors
    /\ recent \subseteq Sectors /\ lost \subseteq Sectors
    /\ open \in [Sectors -> 0 .. MaxOpen]
    /\ removed \subseteq {s \in Sectors : open[s] > 0}
    /\ call.pc \in {"idle", "inode", "entry", "block", "point", "zero", "extend", "free"}
    /\ call.s \in Sectors \cup {0} /\ call.at \in Sectors \cup {0} /\ call.next \in Sectors \cup {0}
    /\ power \in {"on", "saved", "off", "damaged", "overrun"}
    /\ torn \in BOOLEAN /\ boots \in 0 .. MaxBoots /\ creates \in 0 .. MaxCreates

(* The inodes of files: those that have a name and those that are open without
   one. *)
Inodes == ({dir[n] : n \in Names} \ {0}) \cup removed

(* get_data_block and free_map_release: no sector is pointed to twice, from one
   file or two, none that is pointed to is free, and none is at once an inode
   and something else. *)
NoSharing ==
    Running =>
      /\ \A m, n \in Names : dir[m] = dir[n] => m = n \/ dir[m] = 0
      /\ \A s \in Inodes : BlocksOf(s) \subseteq free_map
      /\ \A s, t \in Inodes : \A p \in Pointers(s), q \in Pointers(t) :
            /\ disk[p[1]][p[2]] = disk[q[1]][q[2]] => p = q
            /\ disk[p[1]][p[2]] \notin Inodes \cup lost

(* Between calls, a sector is in use only as part of a file, unless it was lost:
   as the inode of a file that got no entry, or when the machine was turned off.
   Removing a file, at once or at its last close, gives back every sector. *)
SectorsAccounted ==
    Running /\ call = IDLE => free_map = (UNION {BlocksOf(s) : s \in Inodes}) \cup lost

(* What a failure at this moment costs: of the sectors that named files consist
   of, the free map file lacks none but those given out since it was written,
   be that by a halt between two calls or in the middle of one. *)
DamageIsRecent == InFiles \ saved \subseteq recent

(* Blocks within the bounds of the blocks of pointers. *)
Blocks == {i \in 0 .. INODE_SPAN - 1 : InBounds(i)}

(* What is read of block i of a file: zeros where there is none. *)
Content(s, i) ==
    LET words == calculate_indices(i)
        block == Follow(s, words, Len(words))
    IN  IF block = 0 THEN 0 ELSE -disk[block][1]

(* On the way to block i of a file is the block that is yet to be zeroed: it
   holds what a sector held before. *)
BeingMade(s, i) ==
    LET words == calculate_indices(i)
    IN  Zeroing # 0 /\ \E k \in 1 .. Len(words) : Follow(s, words, k) = Zeroing

Unsettled == UNION {{s} \X {i \in Blocks : BeingMade(s, i)} : s \in Inodes}

Abstract == INSTANCE FileSpec
              WITH Values <- {1}, Lengths <- 0 .. INODE_SPAN,
                   Inodes <- Sectors, named <- dir,
                   files <- [s \in Inodes |-> [len  |-> disk[s][LENGTH],
                                               data |-> [i \in Blocks |-> Content(s, i)]]],
                   unsettled <- Unsettled, on <- power \notin {"off", "damaged"}

(* Files keep what is written to them, and only that, whatever sectors are
   taken, freed and taken again under them, up to the moment that the machine
   comes on damaged.  What a sector held before shows in a file only where a
   block is being made, or was when the machine went off. *)
ImplementsFileSpec == Abstract!Spec

=============================================================================
