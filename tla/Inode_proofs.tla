--------------------------- MODULE Inode_proofs ----------------------------
(* Theorems about module Inode, for any number of sectors, any layout of an   *)
(* inode and any names, writes and bounds, and first about what               *)
(* calculate_indices gives.                                                   *)
EXTENDS Inode, WellFoundedInduction, TLAPS

---------------------------------------------------------------------------
(* The ways to the blocks of a file *)

(* Division, as C and TLA+ have it for numbers that are not negative. *)
LEMMA DivMod ==
    ASSUME NEW a \in Nat, NEW d \in Nat \ {0}
    PROVE  /\ a \div d \in Nat
           /\ a % d \in 0 .. d - 1
           /\ a = d * (a \div d) + (a % d)
  OBVIOUS

(* A product grows with its factors. *)
LEMMA Times ==
    ASSUME NEW d \in Nat, NEW m \in Nat, NEW n \in Nat, m <= n
    PROVE  d * m <= d * n /\ d * (n + 1) = d * n + d
  OBVIOUS

(* calculate_indices gives one, two or three words, and the first says how
   many. *)
LEMMA FirstWord ==
    ASSUME NEW i \in Nat
    PROVE  LET words == calculate_indices(i) IN
           /\ i < DIRECT_CNT => Len(words) = 1 /\ words[1] = i + 1
           /\ i = DIRECT_CNT => Len(words) = 2 /\ words[1] = DIRECT_CNT + 1 /\ words[2] = 1
           /\ i > DIRECT_CNT => /\ Len(words) = 3 /\ words[1] = DIRECT_CNT + 2
                                /\ words[2] = (i \div PTRS_PER_SECTOR) + 1
                                /\ words[3] = (i % PTRS_PER_SECTOR) + 1
<1>1. i = DIRECT_CNT => i % DIRECT_CNT = 0
  BY BlockIndexAssumption
<1>. QED
  BY <1>1, BlockIndexAssumption DEF calculate_indices

(* Two blocks of a file are reached by ways that part before either ends: no
   block of data is another's, and none is taken for a block of pointers. *)
THEOREM WaysPart ==
    ASSUME NEW i \in Nat, NEW j \in Nat, i # j
    PROVE  \E k \in (1 .. Len(calculate_indices(i))) \cap (1 .. Len(calculate_indices(j))) :
              calculate_indices(i)[k] # calculate_indices(j)[k]
<1>. DEFINE W(n) == calculate_indices(n)
<1>1. CASE W(i)[1] # W(j)[1]
  <2>1. 1 \in (1 .. Len(W(i))) \cap (1 .. Len(W(j)))
    <3>1. \A n \in Nat : Len(W(n)) \in {1, 2, 3}
      <4>1. DIRECT_CNT \in Nat  BY BlockIndexAssumption
      <4>. QED BY <4>1, FirstWord
    <3>2. Len(W(i)) \in {1, 2, 3} /\ Len(W(j)) \in {1, 2, 3}  BY <3>1
    <3>. HIDE DEF W
    <3>. QED BY <3>2
  <2>. QED BY <1>1, <2>1
<1>2. CASE W(i)[1] = W(j)[1]
  <2>1. i > DIRECT_CNT /\ j > DIRECT_CNT
    <3>1. DIRECT_CNT \in Nat  BY BlockIndexAssumption
    <3>2. i < DIRECT_CNT => j < DIRECT_CNT  BY <1>2, <3>1, FirstWord
    <3>3. i < DIRECT_CNT => i = j  BY <1>2, <3>1, <3>2, FirstWord
    <3>4. i = DIRECT_CNT => j = DIRECT_CNT  BY <1>2, <3>1, FirstWord
    <3>5. j <= DIRECT_CNT => i <= DIRECT_CNT  BY <1>2, <3>1, FirstWord
    <3>. QED BY <3>1, <3>3, <3>4, <3>5
  <2>2. 2 \in 1 .. 3 /\ 3 \in 1 .. 3 /\ Len(W(i)) = 3 /\ Len(W(j)) = 3
    BY <2>1, FirstWord
  <2>3. ASSUME W(i)[2] = W(j)[2], W(i)[3] = W(j)[3]
        PROVE  FALSE
    <3>1. PTRS_PER_SECTOR \in Nat \ {0}  BY BlockIndexAssumption
    <3>2. i \div PTRS_PER_SECTOR = j \div PTRS_PER_SECTOR
      BY <2>1, <2>3, <3>1, FirstWord, DivMod
    <3>3. i % PTRS_PER_SECTOR = j % PTRS_PER_SECTOR
      BY <2>1, <2>3, <3>1, FirstWord, DivMod
    <3>4. i = PTRS_PER_SECTOR * (i \div PTRS_PER_SECTOR) + (i % PTRS_PER_SECTOR)
      BY <3>1, DivMod
    <3>5. j = PTRS_PER_SECTOR * (j \div PTRS_PER_SECTOR) + (j % PTRS_PER_SECTOR)
      BY <3>1, DivMod
    <3>. QED BY <3>2, <3>3, <3>4, <3>5
  <2>. QED BY <2>2, <2>3
<1>. QED BY <1>1, <1>2

(* Which blocks a file can have: those before PTRS_PER_SECTOR * PTRS_PER_SECTOR,
   fewer than INODE_SPAN, which inode_write_at goes by. *)
THEOREM BlocksInBounds ==
    ASSUME NEW i \in Nat
    PROVE  InBounds(i) <=> i <= DIRECT_CNT \/ i < PTRS_PER_SECTOR * PTRS_PER_SECTOR
<1>. DEFINE P == PTRS_PER_SECTOR
            W == calculate_indices(i)
<1>0. P \in Nat \ {0} /\ DIRECT_CNT \in Nat  BY BlockIndexAssumption
<1>1. CASE i <= DIRECT_CNT
  <2>1. CASE i < DIRECT_CNT
    <3>1. Len(W) = 1  BY <2>1, FirstWord
    <3>. QED BY <1>1, <3>1 DEF InBounds
  <2>2. CASE i = DIRECT_CNT
    <3>1. Len(W) = 2 /\ W[2] = 1  BY <2>2, FirstWord
    <3>2. \A k \in 2 .. Len(W) : k = 2  BY <3>1
    <3>. QED BY <1>0, <1>1, <3>1, <3>2 DEF InBounds
  <2>. QED BY <1>0, <1>1, <2>1, <2>2
<1>2. CASE i > DIRECT_CNT
  <2>. DEFINE q == i \div P  r == i % P
  <2>1. q \in Nat /\ r \in 0 .. P - 1 /\ i = P * q + r  BY <1>0, DivMod
  <2>2. Len(W) = 3 /\ W[2] = q + 1 /\ W[3] = r + 1  BY <1>2, FirstWord
  <2>3. InBounds(i) <=> q + 1 <= P
    <3>1. \A k \in 2 .. Len(W) : k = 2 \/ k = 3  BY <2>2
    <3>2. 2 \in 2 .. Len(W)  BY <2>2
    <3>3. r + 1 <= P  BY <1>0, <2>1
    <3>. HIDE DEF q, r
    <3>. QED BY <2>2, <3>1, <3>2, <3>3 DEF InBounds
  <2>4. q + 1 <= P <=> i < P * P
    <3>. HIDE DEF q, r
    <3>1. ASSUME q + 1 <= P PROVE i < P * P
      <4>1. P * (q + 1) <= P * P  BY <1>0, <2>1, <3>1, Times
      <4>2. P * (q + 1) = P * q + P  BY <1>0, <2>1, Times
      <4>3. P * q \in Nat /\ P * P \in Nat  BY <1>0, <2>1
      <4>. HIDE DEF P
      <4>. QED BY <1>0, <2>1, <4>1, <4>2, <4>3
    <3>2. ASSUME P <= q PROVE i >= P * P
      <4>1. P * P <= P * q  BY <1>0, <2>1, <3>2, Times
      <4>3. P * q \in Nat /\ P * P \in Nat  BY <1>0, <2>1
      <4>. HIDE DEF P
      <4>. QED BY <1>0, <2>1, <4>1, <4>3
    <3>. QED BY <1>0, <2>1, <3>1, <3>2
  <2>. QED BY <1>0, <1>2, <2>3, <2>4
<1>. QED BY <1>0, <1>1, <1>2

---------------------------------------------------------------------------
(* The inductive invariant *)

(* The inodes whose sectors are in use: those of files, and one that is being
   freed. *)
Live == Inodes \cup (IF call.pc = "free" THEN {call.s} ELSE {})

(* The sector that has been taken and that nothing refers to yet. *)
InFlight == IF call.pc \in {"inode", "entry", "point"} THEN {call.next} ELSE {}

(* The words of block b that are pointers of the file whose inode is in s. *)
WordsOf(s, b) == 1 .. (IF b = s THEN SECTOR_CNT ELSE PTRS_PER_SECTOR)

(* Some file has a pointer to sector x. *)
PointedTo(x) ==
    x # 0 /\ \E s \in Live : \E b \in PointerBlocks(s) : \E w \in WordsOf(s, b) : disk[b][w] = x

(* The blocks, by what they are used for. *)
InodeBlock(b)   == /\ b \in Sectors /\ disk[b] \in [1 .. LENGTH -> Int]
                   /\ \A w \in 1 .. SECTOR_CNT : disk[b][w] \in Sectors \cup {0}
                   /\ disk[b][LENGTH] \in 0 .. INODE_SPAN
PointerBlock(b) == b \in Sectors /\ disk[b] \in [1 .. PTRS_PER_SECTOR -> Sectors \cup {0}]

Shapes ==
    /\ disk \in [Sectors -> [1 .. PTRS_PER_SECTOR -> Int] \cup [1 .. LENGTH -> Int]]
    /\ \A s \in Live : InodeBlock(s) /\ \A b \in PointerBlocks(s) \ {s} : PointerBlock(b)

(* No sector is pointed to twice. *)
Forest ==
    \A s, t \in Live :
      \A b \in PointerBlocks(s), c \in PointerBlocks(t) :
        \A w \in WordsOf(s, b), v \in WordsOf(t, c) :
          disk[b][w] # 0 /\ disk[b][w] = disk[c][v] => b = c /\ w = v

(* Inodes, sectors that were lost and the one in flight are not pointed to, and
   no two of these are the same. *)
Roots ==
    /\ \A x \in Live \cup lost \cup InFlight : ~PointedTo(x)
    /\ Live \cap lost = {} /\ InFlight \cap (Live \cup lost) = {}

(* The sectors in use, all those of a file that is being freed among them. *)
InUse == free_map \cup (IF call.pc = "free" THEN BlocksOf(call.s) ELSE {})

(* A sector is in use for a reason. *)
Accounted ==
    \A x \in Sectors : x \in InUse <=> x \in Live \cup lost \cup InFlight \/ PointedTo(x)

(* What is open is a file, which no two names have and no removed one shares. *)
Files ==
    /\ \A m, n \in Names : dir[m] = dir[n] => m = n \/ dir[m] = 0
    /\ \A n \in Names : dir[n] \notin removed
    /\ \A s \in Sectors : open[s] > 0 => s \in Inodes

(* How far the call has come. *)
Calls == [pc   : {"idle", "inode", "entry", "block", "point", "zero", "extend", "free"},
          s    : Sectors \cup {0}, i : Nat, end : 0 .. INODE_SPAN,
          at   : Sectors \cup {0}, word : Nat,
          next : Sectors \cup {0}, name : Names \cup {NoName}]

Stage ==
    /\ call \in Calls
    /\ call.pc = "idle" => call = IDLE
    /\ call.pc \in {"inode", "entry"} => call.name \in Names /\ dir[call.name] = 0
    /\ call.pc \in {"inode", "entry", "point", "zero"} => call.next \in Sectors
    /\ call.pc = "entry" => disk[call.next] = NewInode
    /\ call.pc \in {"block", "point", "zero", "extend"} => call.s \in Sectors /\ open[call.s] > 0
    /\ call.pc \in {"block", "point", "zero"} => call.i < call.end
    /\ call.pc \in {"point", "zero"} => /\ call.at \in PointerBlocks(call.s)
                                        /\ call.word \in WordsOf(call.s, call.at)
    /\ call.pc = "point" => disk[call.at][call.word] = 0
    /\ call.pc = "zero" => disk[call.at][call.word] = call.next
    /\ call.pc = "free" => call.s \in Sectors /\ call.s \notin Inodes /\ open[call.s] = 0

(* What the free map file lacks was given out since; a machine that is off knows
   where it was. *)
Halts ==
    /\ free_map \ saved \subseteq recent
    /\ power = "off" => (torn <=> call.pc = "zero" /\ ToPointers)

Trees == Shapes /\ Forest /\ Roots /\ Accounted

IInv == TypeOK /\ Stage /\ Files /\ Trees /\ Halts

---------------------------------------------------------------------------
(* Least and greatest elements *)

(* < as a set of pairs, for the theorem on well-founded relations. *)
LEMMA LessIsARelation ==
    \A x, y \in Nat : x < y <=> <<x, y>> \in OpToRel(<, Nat)
BY DEF OpToRel

(* A nonempty set of naturals has a least element. *)
LEMMA HasLeast ==
    ASSUME NEW T, T \subseteq Nat, T # {}
    PROVE  \E x \in T : \A y \in T : x <= y
<1>. DEFINE R == OpToRel(<, Nat)
<1>1. IsWellFoundedOn(R, Nat)
  BY NatLessThanWellFounded
<1>2. \A x, y \in Nat : x < y <=> <<x, y>> \in R
  BY LessIsARelation
<1>. HIDE DEF R
<1>3. PICK x \in T : \A y \in T : ~(<<y, x>> \in R)
  BY <1>1, WFMin
<1>4. \A y \in T : ~(y < x)
  BY <1>2, <1>3
<1>5. x \in Nat /\ \A y \in T : y \in Nat
  OBVIOUS
<1>. QED BY <1>4, <1>5

(* free_map_allocate takes a sector that is free. *)
LEMMA FreeSectorIsFree ==
    ASSUME free_map \subseteq Sectors, free_map # Sectors
    PROVE  FreeSector \in Sectors /\ FreeSector \notin free_map
<1>. DEFINE S == Sectors \ free_map
<1>1. S \subseteq Nat /\ S # {}
  <2>1. Sectors \subseteq Nat
    BY InodeAssumption DEF Sectors
  <2>2. \E x \in Sectors : x \notin free_map
    OBVIOUS
  <2>. QED BY <2>1, <2>2
<1>. HIDE DEF S
<1>2. \E x \in S : \A y \in S : x <= y
  BY <1>1, HasLeast
<1>3. Min(S) \in S
  BY <1>2 DEF Min
<1>. QED BY <1>3 DEF FreeSector, S

(* Max of the community modules, of two numbers. *)
LEMMA MaxOfTwo ==
    ASSUME NEW m \in Int, NEW n \in Int
    PROVE  Max({m, n}) = IF m >= n THEN m ELSE n
<1>1. \E x \in {m, n} : \A y \in {m, n} : x >= y
  OBVIOUS
<1>2. Max({m, n}) \in {m, n} /\ \A y \in {m, n} : Max({m, n}) >= y
  BY <1>1 DEF Max
<1>. QED BY <1>2

---------------------------------------------------------------------------
(* Blocks of pointers *)

(* What the numbers are. *)
LEMMA Layout ==
    /\ DIRECT_CNT \in Nat \ {0} /\ PTRS_PER_SECTOR \in Nat \ {0} /\ NumSectors \in Nat \ {0}
    /\ SECTOR_CNT = DIRECT_CNT + 2 /\ LENGTH = DIRECT_CNT + 3 /\ INODE_SPAN \in Nat
    /\ 0 \notin Sectors /\ Sectors \subseteq Nat
BY BlockIndexAssumption, InodeAssumption DEF SECTOR_CNT, LENGTH, INODE_SPAN, Sectors

(* The blocks of pointers of a file are its inode and those the inode points to
   at one remove or two. *)
LEMMA PointerBlocksAre ==
    ASSUME NEW s, NEW b
    PROVE  b \in PointerBlocks(s) <=>
             \/ b = s
             \/ /\ b \notin {0, Zeroing}
                /\ \/ b \in {disk[s][DIRECT_CNT + 1], disk[s][DIRECT_CNT + 2]}
                   \/ /\ disk[s][DIRECT_CNT + 2] \notin {0, Zeroing}
                      /\ \E w \in 1 .. PTRS_PER_SECTOR : b = disk[disk[s][DIRECT_CNT + 2]][w]
BY DEF PointerBlocks

(* The same after a step. *)
LEMMA PointerBlocksWillBe ==
    ASSUME NEW s, NEW b
    PROVE  b \in PointerBlocks(s)' <=>
             \/ b = s
             \/ /\ b \notin {0, Zeroing'}
                /\ \/ b \in {disk'[s][DIRECT_CNT + 1], disk'[s][DIRECT_CNT + 2]}
                   \/ /\ disk'[s][DIRECT_CNT + 2] \notin {0, Zeroing'}
                      /\ \E w \in 1 .. PTRS_PER_SECTOR : b = disk'[disk'[s][DIRECT_CNT + 2]][w]
BY DEF PointerBlocks

(* The pointers of a file are the words of its blocks of pointers. *)
LEMMA PointersAre ==
    ASSUME NEW s, NEW p
    PROVE  p \in Pointers(s) <=> \E b \in PointerBlocks(s) : \E w \in WordsOf(s, b) :
                                   p = <<b, w>> /\ disk[b][w] # 0
<1>1. SECTOR_CNT \in Int /\ PTRS_PER_SECTOR \in Int
  BY Layout
<1>2. Max({SECTOR_CNT, PTRS_PER_SECTOR})
        = IF SECTOR_CNT >= PTRS_PER_SECTOR THEN SECTOR_CNT ELSE PTRS_PER_SECTOR
  BY <1>1, MaxOfTwo
<1>. QED BY <1>1, <1>2 DEF Pointers, WordsOf

(* The sectors of a file are its inode and what its pointers lead to. *)
LEMMA BlocksOfAre ==
    ASSUME NEW s, NEW x
    PROVE  x \in BlocksOf(s) <=> \/ x = s
                                 \/ /\ x # 0
                                    /\ \E b \in PointerBlocks(s) : \E w \in WordsOf(s, b) :
                                         disk[b][w] = x
<1>1. \A p : p \in Pointers(s) <=> \E b \in PointerBlocks(s) : \E w \in WordsOf(s, b) :
                                     p = <<b, w>> /\ disk[b][w] # 0
  BY PointersAre
<1>2. \A p : p \in Pointers(s) => <<p[1], p[2]>> = p
  BY <1>1
<1>3. ASSUME NEW p \in Pointers(s), x = disk[p[1]][p[2]]
      PROVE  x # 0 /\ \E b \in PointerBlocks(s) : \E w \in WordsOf(s, b) : disk[b][w] = x
  BY <1>1, <1>3
<1>4. ASSUME NEW b \in PointerBlocks(s), NEW w \in WordsOf(s, b), disk[b][w] = x, x # 0
      PROVE  \E p \in Pointers(s) : x = disk[p[1]][p[2]]
  <2>1. <<b, w>> \in Pointers(s)
    BY <1>1, <1>4
  <2>. QED BY <1>4, <2>1
<1>. QED BY <1>3, <1>4 DEF BlocksOf

(* The blocks of pointers below an inode are pointed to. *)
LEMMA PointerBlocksArePointedTo ==
    ASSUME NEW s, InodeBlock(s), NEW b \in PointerBlocks(s), b # s
    PROVE  /\ b # 0 /\ b # Zeroing
           /\ \/ \E w \in {DIRECT_CNT + 1, DIRECT_CNT + 2} : disk[s][w] = b
              \/ LET dbl == disk[s][DIRECT_CNT + 2]
                 IN  /\ dbl \in PointerBlocks(s)
                     /\ \E w \in 1 .. PTRS_PER_SECTOR : disk[dbl][w] = b
BY PointerBlocksAre

(* An inode is not its own block of pointers. *)
LEMMA InodeIsNotBelowItself ==
    ASSUME Shapes, Roots, NEW s \in Live
    PROVE  disk[s][DIRECT_CNT + 2] # s
<1>1. DIRECT_CNT + 2 \in WordsOf(s, s) /\ s # 0 /\ s \in PointerBlocks(s)
  BY Layout, PointerBlocksAre DEF WordsOf, InodeBlock, Shapes
<1>2. disk[s][DIRECT_CNT + 2] = s => PointedTo(s)
  BY <1>1 DEF PointedTo
<1>. QED BY <1>2 DEF Roots

(* Every block of pointers but the inode is pointed to. *)
LEMMA BelowInode ==
    ASSUME Shapes, Roots, NEW s \in Live, NEW b \in PointerBlocks(s), b # s
    PROVE  /\ PointedTo(b)
           /\ \E c \in {s, disk[s][DIRECT_CNT + 2]} :
                /\ c \in PointerBlocks(s)
                /\ \E w \in WordsOf(s, c) :
                     disk[c][w] = b /\ (c = s => w \in {DIRECT_CNT + 1, DIRECT_CNT + 2})
<1>1. InodeBlock(s) /\ s \in PointerBlocks(s)
  BY PointerBlocksAre DEF Shapes
<1>2. \E c \in {s, disk[s][DIRECT_CNT + 2]} :
        /\ c \in PointerBlocks(s)
        /\ \E w \in WordsOf(s, c) :
             disk[c][w] = b /\ (c = s => w \in {DIRECT_CNT + 1, DIRECT_CNT + 2})
  <2>1. CASE \E w \in {DIRECT_CNT + 1, DIRECT_CNT + 2} : disk[s][w] = b
    <3>1. DIRECT_CNT + 1 \in WordsOf(s, s) /\ DIRECT_CNT + 2 \in WordsOf(s, s)
      BY Layout DEF WordsOf
    <3>. QED BY <1>1, <2>1, <3>1
  <2>. DEFINE dbl == disk[s][DIRECT_CNT + 2]
  <2>2. CASE dbl # s /\ dbl \in PointerBlocks(s) /\ \E w \in 1 .. PTRS_PER_SECTOR : disk[dbl][w] = b
    <3>1. WordsOf(s, dbl) = 1 .. PTRS_PER_SECTOR
      BY <2>2 DEF WordsOf
    <3>. QED BY <2>2, <3>1
  <2>3. dbl # s
    BY InodeIsNotBelowItself
  <2>. QED BY <1>1, <2>1, <2>2, <2>3, PointerBlocksArePointedTo
<1>3. b # 0
  BY <1>1, PointerBlocksArePointedTo
<1>. QED BY <1>2, <1>3 DEF PointedTo

(* No file has an inode, or a block, of another's. *)
LEMMA InodesApart ==
    ASSUME Shapes, Roots, NEW s \in Live, NEW t \in Live, s \in PointerBlocks(t)
    PROVE  s = t
BY BelowInode DEF Roots

(* No block of pointers is of two files. *)
LEMMA BlocksApart ==
    ASSUME Shapes, Forest, Roots, NEW s \in Live, NEW t \in Live,
           NEW b \in PointerBlocks(s), b \in PointerBlocks(t)
    PROVE  s = t
<1>1. CASE b = s \/ b = t
  BY <1>1, InodesApart
<1>2. CASE b # s /\ b # t
  <2>1. PICK c \in {s, disk[s][DIRECT_CNT + 2]} :
          c \in PointerBlocks(s) /\ \E w \in WordsOf(s, c) : disk[c][w] = b
    BY <1>2, BelowInode
  <2>2. PICK d \in {t, disk[t][DIRECT_CNT + 2]} :
          d \in PointerBlocks(t) /\ \E v \in WordsOf(t, d) : disk[d][v] = b
    BY <1>2, BelowInode
  <2>3. c = d
    <3>1. b # 0
      BY <1>2, BelowInode DEF PointedTo
    <3>. QED BY <2>1, <2>2, <3>1 DEF Forest
  <2>4. CASE c = s \/ d = t
    BY <2>1, <2>2, <2>3, <2>4, InodesApart
  <2>5. CASE c # s /\ d # t
    <3>1. disk[s][DIRECT_CNT + 2] = disk[t][DIRECT_CNT + 2] /\ disk[s][DIRECT_CNT + 2] # 0
      BY <2>1, <2>2, <2>3, <2>5, BelowInode DEF PointedTo
    <3>2. /\ s \in PointerBlocks(s) /\ t \in PointerBlocks(t)
          /\ DIRECT_CNT + 2 \in WordsOf(s, s) /\ DIRECT_CNT + 2 \in WordsOf(t, t)
      BY Layout, PointerBlocksAre DEF WordsOf
    <3>. QED BY <3>1, <3>2 DEF Forest
  <2>. QED BY <2>4, <2>5
<1>. QED BY <1>1, <1>2

---------------------------------------------------------------------------
(* What a step leaves alone *)

(* A file has the pointers it had. *)
Same(s) ==
    /\ PointerBlocks(s)' = PointerBlocks(s)
    /\ \A b \in PointerBlocks(s) : \A w \in WordsOf(s, b) : disk'[b][w] = disk[b][w]

(* That is so if its blocks of pointers are not written to. *)
LEMMA UntouchedIsSame ==
    ASSUME Shapes, Roots, NEW s \in Live,
           \A w \in 1 .. SECTOR_CNT : disk'[s][w] = disk[s][w],
           \A b \in PointerBlocks(s) \ {s} : disk'[b] = disk[b],
           \/ Zeroing' = Zeroing
           \/ Zeroing \notin BlocksOf(s) /\ Zeroing' \notin BlocksOf(s)
    PROVE  Same(s)
<1>. DEFINE ind == disk[s][DIRECT_CNT + 1]
            dbl == disk[s][DIRECT_CNT + 2]
            Below(b) == \E c \in PointerBlocks(s) : \E w \in WordsOf(s, c) : disk[c][w] = b
<1>1. /\ disk'[s][DIRECT_CNT + 1] = ind /\ disk'[s][DIRECT_CNT + 2] = dbl
      /\ Below(ind) /\ Below(dbl)
  <2>1. DIRECT_CNT + 1 \in 1 .. SECTOR_CNT /\ DIRECT_CNT + 2 \in 1 .. SECTOR_CNT
    BY Layout
  <2>. QED BY <2>1, PointerBlocksAre DEF WordsOf
<1>2. \A b : b # 0 /\ Below(b) => (b = Zeroing <=> b = Zeroing')
  BY BlocksOfAre
<1>3. dbl \notin {0, Zeroing} =>
        /\ disk'[dbl] = disk[dbl]
        /\ \A w \in 1 .. PTRS_PER_SECTOR : Below(disk[dbl][w])
  <2>1. dbl # s
    BY InodeIsNotBelowItself
  <2>2. dbl \notin {0, Zeroing} => dbl \in PointerBlocks(s)
    BY PointerBlocksAre
  <2>. QED BY <2>1, <2>2 DEF WordsOf
<1>4. \A b : b \in PointerBlocks(s)' <=> b \in PointerBlocks(s)
  <2>. HIDE DEF Below
  <2>. QED BY <1>1, <1>2, <1>3, PointerBlocksAre, PointerBlocksWillBe
<1>5. PointerBlocks(s)' = PointerBlocks(s)
  BY <1>4
<1>6. \A b \in PointerBlocks(s) : \A w \in WordsOf(s, b) : disk'[b][w] = disk[b][w]
  BY DEF WordsOf
<1>. QED BY <1>5, <1>6 DEF Same

(* A step that adds no pointer. *)
LEMMA ForestKept ==
    ASSUME Forest,
           \A s \in Live' : \A b \in PointerBlocks(s)' : \A w \in WordsOf(s, b) :
             disk'[b][w] # 0 =>
               \E t \in Live : /\ b \in PointerBlocks(t) /\ w \in WordsOf(t, b)
                               /\ disk[b][w] = disk'[b][w]
    PROVE  Forest'
BY DEF Forest

(* Files that are as they were, or no more, point to what they did. *)
LEMMA SamePointers ==
    ASSUME Forest, \A s \in Live' : s \in Live /\ Same(s)
    PROVE  /\ Forest'
           /\ \A x : PointedTo(x)' => PointedTo(x)
           /\ Live' = Live => \A x : PointedTo(x) => PointedTo(x)'
BY ForestKept DEF Same, PointedTo

(* Steps that write nothing. *)
LEMMA NothingWritten ==
    ASSUME Shapes, Forest, Roots, disk' = disk, Zeroing' = Zeroing, Live' \subseteq Live
    PROVE  /\ Shapes' /\ Forest'
           /\ \A s \in Live : Same(s)
           /\ \A x : PointedTo(x)' => PointedTo(x)
           /\ Live' = Live => \A x : PointedTo(x) => PointedTo(x)'
<1>1. \A s \in Live : Same(s)
  BY UntouchedIsSame
<1>2. Shapes'
  BY <1>1 DEF Shapes, Same, InodeBlock, PointerBlock
<1>. QED BY <1>1, <1>2, SamePointers

(* Nothing changes that trees are about. *)
LEMMA TreesKept ==
    ASSUME Trees, disk' = disk, Zeroing' = Zeroing,
           Live' = Live, lost' = lost, InFlight' = InFlight, InUse' = InUse
    PROVE  Trees'
<1>1. Shapes' /\ Forest' /\ \A x : PointedTo(x)' <=> PointedTo(x)
  BY NothingWritten DEF Trees
<1>. QED BY <1>1 DEF Trees, Roots, Accounted

(* A sector is taken that was free. *)
LEMMA TreesWithOneInFlight ==
    ASSUME Trees, disk' = disk, Zeroing' = Zeroing, Live' = Live, lost' = lost,
           Live \cup lost \subseteq Sectors,
           NEW f \in Sectors, f \notin InUse, InUse' = InUse \cup {f},
           InFlight = {}, InFlight' = {f}
    PROVE  Trees'
<1>1. Shapes' /\ Forest' /\ \A x : PointedTo(x)' <=> PointedTo(x)
  BY NothingWritten DEF Trees
<1>2. f \notin Live \cup lost /\ ~PointedTo(f)
  BY DEF Trees, Accounted
<1>. QED BY <1>1, <1>2 DEF Trees, Roots, Accounted

(* Something is written to a sector that no file has. *)
LEMMA TreesWithOneFilled ==
    ASSUME Trees, Zeroing' = Zeroing, Live' = Live, lost' = lost, InFlight' = InFlight,
           InUse' = InUse,
           NEW f \in InFlight, f \in Sectors, NEW block,
           block \in [1 .. PTRS_PER_SECTOR -> Int] \cup [1 .. LENGTH -> Int],
           disk' = [disk EXCEPT ![f] = block]
    PROVE  Trees'
<1>1. \A s \in Live : s # f /\ f \notin PointerBlocks(s)
  BY BelowInode DEF Trees, Roots
<1>2. /\ disk' \in [Sectors -> [1 .. PTRS_PER_SECTOR -> Int] \cup [1 .. LENGTH -> Int]]
      /\ \A b \in Sectors \ {f} : disk'[b] = disk[b]
  BY DEF Trees, Shapes
<1>3. \A s \in Live : /\ InodeBlock(s) /\ disk'[s] = disk[s]
                      /\ \A b \in PointerBlocks(s) \ {s} : PointerBlock(b) /\ disk'[b] = disk[b]
  BY <1>1, <1>2 DEF Trees, Shapes, InodeBlock, PointerBlock
<1>4. \A s \in Live : Same(s)
  BY <1>3, UntouchedIsSame DEF Trees
<1>5. Shapes'
  BY <1>2, <1>3, <1>4 DEF Shapes, Same, InodeBlock, PointerBlock
<1>6. Forest' /\ \A x : PointedTo(x)' <=> PointedTo(x)
  BY <1>4, SamePointers DEF Trees
<1>. QED BY <1>5, <1>6 DEF Trees, Roots, Accounted

(* A new file has no blocks but its inode. *)
LEMMA TreesWithNewFile ==
    ASSUME Trees, disk' = disk, Zeroing = 0, Zeroing' = 0, lost' = lost, InUse' = InUse,
           NEW f \in Sectors, InFlight = {f}, InFlight' = {}, disk[f] = NewInode,
           Live' = Live \cup {f}
    PROVE  Trees'
<1>1. /\ InodeBlock(f) /\ \A w \in 1 .. SECTOR_CNT : disk[f][w] = 0
      /\ DIRECT_CNT + 1 \in 1 .. SECTOR_CNT /\ DIRECT_CNT + 2 \in 1 .. SECTOR_CNT
  BY Layout DEF NewInode, InodeBlock
<1>2. \A b : b \in PointerBlocks(f)' <=> b = f
  BY <1>1, PointerBlocksWillBe
<1>3. \A s \in Live : Same(s)
  BY UntouchedIsSame DEF Trees
<1>4. Shapes'
  BY <1>1, <1>2, <1>3 DEF Trees, Shapes, Same, InodeBlock, PointerBlock
<1>5. \A b \in PointerBlocks(f)' : \A w \in WordsOf(f, b) : disk'[b][w] = 0
  BY <1>1, <1>2 DEF WordsOf
<1>6. Forest'
  <2>1. \A s \in Live' : \A b \in PointerBlocks(s)' : \A w \in WordsOf(s, b) :
             disk'[b][w] # 0 =>
               \E t \in Live : /\ b \in PointerBlocks(t) /\ w \in WordsOf(t, b)
                               /\ disk[b][w] = disk'[b][w]
    BY <1>3, <1>5 DEF Same
  <2>. QED BY <2>1, ForestKept DEF Trees
<1>7. \A x : PointedTo(x)' <=> PointedTo(x)
  BY <1>3, <1>5 DEF Same, PointedTo
<1>. QED BY <1>4, <1>6, <1>7 DEF Trees, Roots, Accounted

(* A file gets a pointer to the sector in flight, which is not followed yet. *)
LEMMA TreesWithNewPointer ==
    ASSUME Trees, Zeroing = 0, Live' = Live, lost' = lost, InUse' = InUse,
           NEW f \in Sectors, InFlight = {f}, InFlight' = {}, Zeroing' = f,
           NEW s \in Live, NEW b \in PointerBlocks(s), NEW w \in WordsOf(s, b), disk[b][w] = 0,
           disk' = [disk EXCEPT ![b][w] = f]
    PROVE  /\ Trees'
           /\ b \in PointerBlocks(s)'
<1>. DEFINE dbl == disk[s][DIRECT_CNT + 2]
<1>1. /\ f # 0 /\ f \notin Live \cup lost /\ ~PointedTo(f)
      /\ f \notin PointerBlocks(s)
  BY Layout, BelowInode DEF Trees, Roots
<1>2. /\ b \in Sectors /\ b \in DOMAIN disk
      /\ w \in DOMAIN disk[b]
      /\ b = s => InodeBlock(s) /\ w \in 1 .. SECTOR_CNT
      /\ b # s => PointerBlock(b) /\ w \in 1 .. PTRS_PER_SECTOR
  BY Layout DEF Trees, Shapes, InodeBlock, PointerBlock, WordsOf
<1>3. /\ disk'[b] = [disk[b] EXCEPT ![w] = f] /\ disk'[b][w] = f
      /\ \A c \in Sectors \ {b} : disk'[c] = disk[c]
      /\ \A v : v # w => disk'[b][v] = disk[b][v]
  BY <1>2
<1>4. \A t \in Live \ {s} : Same(t) /\ \A c \in PointerBlocks(t) : disk'[c] = disk[c]
  <2>. SUFFICES ASSUME NEW t \in Live \ {s}
                PROVE  Same(t) /\ \A c \in PointerBlocks(t) : disk'[c] = disk[c]
    OBVIOUS
  <2>1. b \notin PointerBlocks(t)
    BY BlocksApart DEF Trees
  <2>2. \A c \in PointerBlocks(t) : c \in Sectors /\ disk'[c] = disk[c]
    BY <1>3, <2>1 DEF Trees, Shapes, InodeBlock, PointerBlock
  <2>3. t \in PointerBlocks(t)
    BY PointerBlocksAre
  <2>4. Zeroing \notin BlocksOf(t) /\ Zeroing' \notin BlocksOf(t)
    BY <1>1, <2>2, <2>3, BlocksOfAre, Layout DEF PointedTo
  <2>. QED BY <2>2, <2>3, <2>4, UntouchedIsSame DEF Trees
<1>5. PointerBlocks(s)' = PointerBlocks(s)
  <2>1. /\ disk'[s][DIRECT_CNT + 1] = IF b = s /\ w = DIRECT_CNT + 1
                                     THEN f ELSE disk[s][DIRECT_CNT + 1]
        /\ disk'[s][DIRECT_CNT + 2] = IF b = s /\ w = DIRECT_CNT + 2 THEN f ELSE dbl
    BY <1>3 DEF Trees, Shapes, InodeBlock
  <2>2. b = s /\ w = DIRECT_CNT + 1 => disk[s][DIRECT_CNT + 1] = 0
    OBVIOUS
  <2>3. b = s /\ w = DIRECT_CNT + 2 => dbl = 0
    OBVIOUS
  <2>4. /\ dbl # s /\ dbl # f /\ disk[s][DIRECT_CNT + 1] # f
        /\ dbl # 0 => dbl \in PointerBlocks(s)
    <3>1. DIRECT_CNT + 1 \in WordsOf(s, s) /\ DIRECT_CNT + 2 \in WordsOf(s, s)
          /\ s \in PointerBlocks(s)
      BY Layout, PointerBlocksAre DEF WordsOf
    <3>. QED BY <1>1, <3>1, InodeIsNotBelowItself, PointerBlocksAre DEF Trees, PointedTo
  <2>5. dbl # 0 => \A v \in 1 .. PTRS_PER_SECTOR :
                     disk'[dbl][v] = IF b = dbl /\ v = w THEN f ELSE disk[dbl][v]
    BY <1>3, <2>4 DEF Trees, Shapes, PointerBlock
  <2>6. \A c : c \in PointerBlocks(s)' <=> c \in PointerBlocks(s)
    <3>. HIDE DEF dbl
    <3>1. dbl # 0 /\ b = dbl => disk[dbl][w] = 0
      OBVIOUS
    <3>. QED BY <1>1, <2>1, <2>2, <2>3, <2>4, <2>5, <3>1, PointerBlocksAre, PointerBlocksWillBe
             DEF dbl
  <2>. QED BY <2>6
<1>6. Shapes'
  <2>1. disk' \in [Sectors -> [1 .. PTRS_PER_SECTOR -> Int] \cup [1 .. LENGTH -> Int]]
    BY <1>2, Layout DEF Trees, Shapes
  <2>2. InodeBlock(s)'
    <3>1. CASE b = s
      BY <1>2, <1>3, <3>1, Layout DEF InodeBlock
    <3>2. CASE b # s
      BY <1>3, <3>2 DEF Trees, Shapes, InodeBlock
    <3>. QED BY <3>1, <3>2
  <2>3. \A c \in PointerBlocks(s) \ {s} : PointerBlock(c)'
    <3>1. b # s => PointerBlock(b)'
      BY <1>2, <1>3 DEF PointerBlock
    <3>. QED BY <1>3, <3>1 DEF Trees, Shapes, PointerBlock
  <2>4. \A t \in Live \ {s} : InodeBlock(t)' /\ \A c \in PointerBlocks(t)' \ {t} : PointerBlock(c)'
    <3>1. \A t \in Live : t \in PointerBlocks(t)
      BY PointerBlocksAre
    <3>. QED BY <1>4, <3>1 DEF Trees, Shapes, Same, InodeBlock, PointerBlock
  <2>. QED BY <1>5, <2>1, <2>2, <2>3, <2>4 DEF Shapes
<1>7. \A t \in Live : /\ PointerBlocks(t)' = PointerBlocks(t)
                      /\ \A c \in PointerBlocks(t) : \A v \in WordsOf(t, c) :
                           disk'[c][v] = IF c = b /\ v = w THEN f ELSE disk[c][v]
  <2>1. \A t \in Live \ {s} : b \notin PointerBlocks(t)
    BY BlocksApart DEF Trees
  <2>2. \A c \in PointerBlocks(s) : c \in Sectors
    BY DEF Trees, Shapes, InodeBlock, PointerBlock
  <2>. QED BY <1>3, <1>4, <1>5, <2>1, <2>2 DEF Same
<1>8. \A x : PointedTo(x)' <=> PointedTo(x) \/ x = f
  BY <1>1, <1>7 DEF PointedTo
<1>9. Forest'
  <2>1. \A t \in Live : \A c \in PointerBlocks(t) : \A v \in WordsOf(t, c) : disk[c][v] # f
    BY <1>1 DEF PointedTo
  <2>. QED BY <1>1, <1>7, <2>1 DEF Trees, Forest
<1>. QED BY <1>1, <1>3, <1>5, <1>6, <1>8, <1>9 DEF Trees, Roots, Accounted

(* The sector pointed to is filled with zeros, and is followed from now on. *)
LEMMA TreesWithZeros ==
    ASSUME Trees, Live' = Live, lost' = lost, InUse' = InUse, InFlight = {}, InFlight' = {},
           NEW f \in Sectors, Zeroing = f, Zeroing' = 0,
           NEW s \in Live, NEW b \in PointerBlocks(s), NEW w \in WordsOf(s, b), disk[b][w] = f,
           disk' = [disk EXCEPT ![f] = ZEROS]
    PROVE  Trees'
<1>. DEFINE ind == disk[s][DIRECT_CNT + 1]
            dbl == disk[s][DIRECT_CNT + 2]
<1>1. /\ f # 0 /\ PointedTo(f) /\ f \notin Live \cup lost
      /\ \A t \in Live : f \notin PointerBlocks(t)
  <2>1. f # 0 /\ PointedTo(f)
    BY Layout DEF PointedTo
  <2>. QED BY <2>1, PointerBlocksArePointedTo, BelowInode DEF Trees, Shapes, Roots
<1>2. /\ \A c \in Sectors \ {f} : disk'[c] = disk[c]
      /\ disk'[f] = ZEROS /\ ZEROS \in [1 .. PTRS_PER_SECTOR -> Sectors \cup {0}]
      /\ \A v \in 1 .. PTRS_PER_SECTOR : disk'[f][v] = 0
  BY DEF Trees, Shapes, ZEROS
<1>3. \A t \in Live : \A c \in PointerBlocks(t) : c \in Sectors /\ disk'[c] = disk[c]
  BY <1>1, <1>2 DEF Trees, Shapes, InodeBlock, PointerBlock
<1>4. \A t \in Live \ {s} : Same(t)
  <2>. SUFFICES ASSUME NEW t \in Live \ {s}
                PROVE  Same(t)
    OBVIOUS
  <2>1. \A c \in PointerBlocks(t) : \A v \in WordsOf(t, c) : disk[c][v] # f
    <3>1. \A c \in PointerBlocks(t) : c # b
      BY BlocksApart DEF Trees
    <3>. QED BY <1>1, <3>1 DEF Trees, Forest
  <2>2. t # f /\ 0 \notin BlocksOf(t)
    BY <1>1, Layout, BlocksOfAre DEF Trees, Shapes, InodeBlock
  <2>3. Zeroing \notin BlocksOf(t) /\ Zeroing' \notin BlocksOf(t)
    BY <2>1, <2>2, BlocksOfAre
  <2>4. t \in PointerBlocks(t)
    BY PointerBlocksAre
  <2>. QED BY <1>3, <2>3, <2>4, UntouchedIsSame DEF Trees
<1>5. \A c \in PointerBlocks(s)' : c \in PointerBlocks(s) \/ c = f
  <2>1. disk'[s][DIRECT_CNT + 1] = ind /\ disk'[s][DIRECT_CNT + 2] = dbl
    BY <1>1, <1>2 DEF Trees, Shapes, InodeBlock
  <2>2. dbl \notin {0, f} => /\ disk'[dbl] = disk[dbl]
    <3>1. dbl \notin {0, f} => dbl \in PointerBlocks(s)
      BY PointerBlocksAre
    <3>. QED BY <1>3, <3>1
  <2>. SUFFICES ASSUME NEW c \in PointerBlocks(s)', c # f
                PROVE  c \in PointerBlocks(s)
    OBVIOUS
  <2>. HIDE DEF ind, dbl
  <2>3. \/ c = s
        \/ c # 0 /\ c \in {ind, dbl}
        \/ c # 0 /\ dbl # 0 /\ \E v \in 1 .. PTRS_PER_SECTOR : c = disk'[dbl][v]
    BY <2>1, PointerBlocksWillBe
  <2>4. CASE c # 0 /\ dbl # 0 /\ \E v \in 1 .. PTRS_PER_SECTOR : c = disk'[dbl][v]
    <3>1. dbl # f
      BY <1>2, <2>4
    <3>. QED BY <2>2, <2>4, <3>1, PointerBlocksAre DEF dbl
  <2>. QED BY <2>3, <2>4, PointerBlocksAre DEF ind, dbl
<1>6. \A c \in PointerBlocks(s) : c \in PointerBlocks(s)'
  <2>1. disk'[s][DIRECT_CNT + 1] = ind /\ disk'[s][DIRECT_CNT + 2] = dbl
    BY <1>1, <1>2 DEF Trees, Shapes, InodeBlock
  <2>2. dbl \notin {0, f} => disk'[dbl] = disk[dbl]
    <3>1. dbl \notin {0, f} => dbl \in PointerBlocks(s)
      BY PointerBlocksAre
    <3>. QED BY <1>3, <3>1
  <2>. HIDE DEF ind, dbl
  <2>. QED BY <1>1, <2>1, <2>2, PointerBlocksAre, PointerBlocksWillBe DEF ind, dbl
<1>7. Shapes'
  <2>1. disk' \in [Sectors -> [1 .. PTRS_PER_SECTOR -> Int] \cup [1 .. LENGTH -> Int]]
    BY <1>2, Layout DEF Trees, Shapes, ZEROS
  <2>2. \A t \in Live : InodeBlock(t)'
    BY <1>1, <1>2 DEF Trees, Shapes, InodeBlock
  <2>3. PointerBlock(f)'
    BY <1>2 DEF PointerBlock
  <2>4. \A t \in Live : \A c \in PointerBlocks(t)' \ {t} : PointerBlock(c)'
    BY <1>3, <1>4, <1>5, <2>3 DEF Trees, Shapes, Same, PointerBlock
  <2>. QED BY <2>1, <2>2, <2>4 DEF Shapes
<1>8. \A t \in Live' : \A c \in PointerBlocks(t)' : \A v \in WordsOf(t, c) :
        disk'[c][v] # 0 => c \in PointerBlocks(t) /\ disk[c][v] = disk'[c][v]
  <2>1. f # s
    BY <1>1
  <2>2. \A v \in WordsOf(s, f) : disk'[f][v] = 0
    BY <1>2, <2>1 DEF WordsOf
  <2>. QED BY <1>3, <1>4, <1>5, <2>2 DEF Same
<1>9. Forest'
  BY <1>8, ForestKept DEF Trees
<1>10. \A x : PointedTo(x)' <=> PointedTo(x)
  <2>1. \A x : PointedTo(x)' => PointedTo(x)
    BY <1>8 DEF PointedTo
  <2>2. \A t \in Live : \A c \in PointerBlocks(t) : c \in PointerBlocks(t)' /\ disk'[c] = disk[c]
    BY <1>3, <1>4, <1>6 DEF Same
  <2>3. \A x : PointedTo(x) => PointedTo(x)'
    BY <2>2 DEF PointedTo
  <2>. QED BY <2>1, <2>3
<1>. QED BY <1>7, <1>9, <1>10 DEF Trees, Roots, Accounted

(* Something is written to a block of data. *)
LEMMA TreesWithDataWritten ==
    ASSUME Trees, Zeroing' = Zeroing, Live' = Live, lost' = lost, InFlight' = InFlight,
           InUse' = InUse,
           NEW d \in Sectors, d \notin Live, \A s \in Live : d \notin PointerBlocks(s),
           NEW block, block \in [1 .. PTRS_PER_SECTOR -> Int],
           disk' = [disk EXCEPT ![d] = block]
    PROVE  Trees'
<1>1. /\ disk' \in [Sectors -> [1 .. PTRS_PER_SECTOR -> Int] \cup [1 .. LENGTH -> Int]]
      /\ \A b \in Sectors \ {d} : disk'[b] = disk[b]
  BY DEF Trees, Shapes
<1>2. \A s \in Live : /\ InodeBlock(s) /\ disk'[s] = disk[s]
                      /\ \A b \in PointerBlocks(s) \ {s} : PointerBlock(b) /\ disk'[b] = disk[b]
  BY <1>1 DEF Trees, Shapes, InodeBlock, PointerBlock
<1>3. \A s \in Live : Same(s)
  BY <1>2, UntouchedIsSame DEF Trees
<1>4. Shapes'
  BY <1>1, <1>2, <1>3 DEF Shapes, Same, InodeBlock, PointerBlock
<1>5. Forest' /\ \A x : PointedTo(x)' <=> PointedTo(x)
  BY <1>3, SamePointers DEF Trees
<1>. QED BY <1>4, <1>5 DEF Trees, Roots, Accounted

(* A file gets another length. *)
LEMMA TreesWithLength ==
    ASSUME Trees, Zeroing' = Zeroing, Live' = Live, lost' = lost, InFlight' = InFlight,
           InUse' = InUse,
           NEW s \in Live, NEW len \in 0 .. INODE_SPAN,
           disk' = [disk EXCEPT ![s][LENGTH] = len]
    PROVE  Trees'
<1>1. /\ InodeBlock(s) /\ disk'[s] = [disk[s] EXCEPT ![LENGTH] = len]
      /\ \A b \in Sectors \ {s} : disk'[b] = disk[b]
  BY DEF Trees, Shapes, InodeBlock
<1>2. /\ \A w \in 1 .. SECTOR_CNT : disk'[s][w] = disk[s][w] /\ disk'[s][w] \in Sectors \cup {0}
      /\ disk'[s][LENGTH] = len /\ disk'[s] \in [1 .. LENGTH -> Int]
  BY <1>1, Layout DEF InodeBlock
<1>3. disk' \in [Sectors -> [1 .. PTRS_PER_SECTOR -> Int] \cup [1 .. LENGTH -> Int]]
  BY <1>1, <1>2 DEF Trees, Shapes
<1>4. \A t \in Live : \A b \in PointerBlocks(t) : b # t => b # s
  BY InodesApart DEF Trees
<1>5. \A t \in Live : /\ \A w \in 1 .. SECTOR_CNT : disk'[t][w] = disk[t][w]
                      /\ \A b \in PointerBlocks(t) \ {t} : PointerBlock(b) /\ disk'[b] = disk[b]
                      /\ InodeBlock(t) /\ InodeBlock(t)'
  BY <1>1, <1>2, <1>4 DEF Trees, Shapes, InodeBlock, PointerBlock
<1>6. \A t \in Live : Same(t)
  BY <1>5, UntouchedIsSame DEF Trees
<1>7. Shapes'
  BY <1>3, <1>5, <1>6 DEF Shapes, Same, PointerBlock
<1>8. Forest' /\ \A x : PointedTo(x)' <=> PointedTo(x)
  BY <1>6, SamePointers DEF Trees
<1>. QED BY <1>7, <1>8 DEF Trees, Roots, Accounted

(* Two files have no sector in common. *)
LEMMA FilesApart ==
    ASSUME Shapes, Forest, Roots, NEW s \in Live, NEW t \in Live, s # t, NEW x \in BlocksOf(s)
    PROVE  x \notin BlocksOf(t)
<1>. SUFFICES ASSUME x \in BlocksOf(t)
              PROVE  FALSE
  OBVIOUS
<1>1. /\ x = s \/ PointedTo(x)
      /\ x = t \/ PointedTo(x)
  BY BlocksOfAre DEF PointedTo
<1>2. x # s /\ x # t
  BY <1>1 DEF Roots
<1>3. PICK b \in PointerBlocks(s) : \E w \in WordsOf(s, b) : disk[b][w] = x /\ x # 0
  BY <1>2, BlocksOfAre
<1>4. PICK c \in PointerBlocks(t) : \E w \in WordsOf(t, c) : disk[c][w] = x
  BY <1>2, BlocksOfAre
<1>5. b = c
  BY <1>3, <1>4 DEF Forest
<1>. QED BY <1>5, BlocksApart

(* All the sectors of a file become free. *)
LEMMA TreesWithoutFile ==
    ASSUME Trees, disk' = disk, Zeroing' = Zeroing, lost' = lost, InFlight = {}, InFlight' = {},
           NEW s \in Live, Live' = Live \ {s}, InUse' = InUse \ BlocksOf(s)
    PROVE  Trees'
<1>1. Shapes' /\ Forest' /\ \A t \in Live : Same(t)
  BY NothingWritten DEF Trees
<1>2. \A x : x \in BlocksOf(s) =>
        /\ x = s \/ PointedTo(x)
        /\ \A t \in Live \ {s} : \A c \in PointerBlocks(t) : \A v \in WordsOf(t, c) : disk[c][v] # x
  <2>. SUFFICES ASSUME NEW x \in BlocksOf(s)
                PROVE  /\ x = s \/ PointedTo(x)
                       /\ \A t \in Live \ {s} : \A c \in PointerBlocks(t) : \A v \in WordsOf(t, c) :
                            disk[c][v] # x
    OBVIOUS
  <2>1. CASE x = s
    <3>1. ~PointedTo(s) /\ s # 0
      BY Layout DEF Trees, Roots, Shapes, InodeBlock
    <3>. QED BY <2>1, <3>1 DEF PointedTo
  <2>2. CASE x # s
    <3>1. x # 0
      BY <2>2, BlocksOfAre
    <3>2. PICK b \in PointerBlocks(s) : \E w \in WordsOf(s, b) : disk[b][w] = x
      BY <2>2, BlocksOfAre
    <3>3. \A t \in Live \ {s} : b \notin PointerBlocks(t)
      BY BlocksApart DEF Trees
    <3>. QED BY <3>1, <3>2, <3>3 DEF Trees, Forest, PointedTo
  <2>. QED BY <2>1, <2>2
<1>3. \A x : PointedTo(x)' <=> PointedTo(x) /\ x \notin BlocksOf(s)
  <2>1. \A x : PointedTo(x)' => PointedTo(x) /\ x \notin BlocksOf(s)
    BY <1>1, <1>2 DEF Same, PointedTo
  <2>2. \A x : PointedTo(x) /\ x \notin BlocksOf(s) => PointedTo(x)'
    BY <1>1, BlocksOfAre DEF Same, PointedTo
  <2>. QED BY <2>1, <2>2
<1>4. s \in BlocksOf(s) /\ \A x \in Live' \cup lost : x \notin BlocksOf(s)
  BY <1>2, BlocksOfAre DEF Trees, Roots
<1>. QED BY <1>1, <1>3, <1>4 DEF Trees, Roots, Accounted

(* The machine comes on with a free map that has all the sectors of the files
   that have names. *)
LEMMA TreesReopened ==
    ASSUME Trees, disk' = disk, Zeroing' = 0, Live' \subseteq Live, InFlight' = {},
           \A s \in Live : Same(s),
           LET used == UNION {BlocksOf(s) : s \in Live'}
           IN  used \subseteq saved /\ lost' = saved \ used /\ InUse' = saved
    PROVE  Trees'
<1>1. Shapes' /\ Forest' /\ \A x : PointedTo(x)' => PointedTo(x)
  <2>1. Shapes'
    BY DEF Trees, Shapes, Same, InodeBlock, PointerBlock
  <2>. QED BY <2>1, SamePointers DEF Trees
<1>2. \A x : (\E s \in Live' : x \in BlocksOf(s)) <=> x \in Live' \/ PointedTo(x)'
  <2>1. \A x : PointedTo(x)' <=> x # 0 /\ \E s \in Live' : \E b \in PointerBlocks(s) :
                                   \E w \in WordsOf(s, b) : disk[b][w] = x
    BY DEF Same, PointedTo
  <2>. QED BY <2>1, BlocksOfAre
<1>3. \A x \in Live' : ~PointedTo(x)'
  BY <1>1 DEF Trees, Roots
<1>4. /\ \A x : x \in Live' \/ PointedTo(x)' => x \in saved /\ x \notin lost'
      /\ \A x : x \in InUse' <=> x \in Live' \/ PointedTo(x)' \/ x \in lost'
  BY <1>2
<1>. QED BY <1>1, <1>3, <1>4 DEF Trees, Roots, Accounted

---------------------------------------------------------------------------
(* The way to a block *)

(* The words that lead to a block, by how many they are. *)
LEMMA Ways ==
    ASSUME NEW i \in Nat
    PROVE  LET words == calculate_indices(i) IN
           /\ Len(words) \in 1 .. 3 /\ words[1] \in 1 .. SECTOR_CNT
           /\ Len(words) = 1 => words[1] <= DIRECT_CNT
           /\ Len(words) = 2 => words[1] = DIRECT_CNT + 1
           /\ Len(words) = 3 => words[1] = DIRECT_CNT + 2
<1>. DEFINE words == calculate_indices(i)
<1>1. DIRECT_CNT \in Nat \ {0} /\ SECTOR_CNT = DIRECT_CNT + 2
  BY Layout
<1>2. /\ i < DIRECT_CNT => Len(words) = 1 /\ words[1] = i + 1
      /\ i = DIRECT_CNT => Len(words) = 2 /\ words[1] = DIRECT_CNT + 1
      /\ i > DIRECT_CNT => Len(words) = 3 /\ words[1] = DIRECT_CNT + 2
  BY FirstWord
<1>3. CASE i < DIRECT_CNT
  BY <1>1, <1>2, <1>3
<1>4. CASE i = DIRECT_CNT
  BY <1>1, <1>2, <1>4
<1>5. CASE i > DIRECT_CNT
  BY <1>1, <1>2, <1>5
<1>6. i < DIRECT_CNT \/ i = DIRECT_CNT \/ i > DIRECT_CNT
  BY <1>1
<1>7. /\ Len(words) \in 1 .. 3 /\ words[1] \in 1 .. SECTOR_CNT
      /\ Len(words) = 1 => words[1] <= DIRECT_CNT
      /\ Len(words) = 2 => words[1] = DIRECT_CNT + 1
      /\ Len(words) = 3 => words[1] = DIRECT_CNT + 2
  BY <1>3, <1>4, <1>5, <1>6
<1>. QED BY <1>7

(* A pointer that is followed is one of the last block reached. *)
LEMMA FollowOne ==
    ASSUME NEW s, NEW words, Len(words) \in 1 .. 3, NEW k \in 0 .. Len(words) - 1
    PROVE  Follow(s, words, k + 1) = Down(Follow(s, words, k), words[k + 1])
<1>1. k \in {0, 1, 2}
  <2>1. PICK n \in 1 .. 3 : n = Len(words)
    OBVIOUS
  <2>. QED BY <2>1
<1>2. CASE k = 0
  BY <1>2 DEF Follow
<1>3. CASE k = 1
  BY <1>3 DEF Follow
<1>4. CASE k = 2
  BY <1>4 DEF Follow
<1>. QED BY <1>1, <1>2, <1>3, <1>4

(* All the words can be followed, or the next pointer is 0 or out of bounds. *)
LEMMA DepthIs ==
    ASSUME NEW s, s # 0, NEW words, Len(words) \in 1 .. 3
    PROVE  LET k == Depth(s, words) IN
           /\ k \in 0 .. Len(words) /\ Follow(s, words, k) # 0
           /\ k # Len(words) => Follow(s, words, k + 1) = 0
<1>. DEFINE D == {k \in 0 .. Len(words) : Follow(s, words, k) # 0}
<1>1. 0 \in D /\ \A k \in D : k \in 0 .. 3
  <2>1. PICK n \in 1 .. 3 : n = Len(words)
    OBVIOUS
  <2>2. Follow(s, words, 0) # 0
    BY DEF Follow
  <2>. HIDE DEF Follow
  <2>. QED BY <2>1, <2>2
<1>2. \E k \in D : \A m \in D : k >= m
  <2>. HIDE DEF D
  <2>1. CASE 3 \in D
    BY <1>1, <2>1
  <2>2. CASE 3 \notin D /\ 2 \in D
    BY <1>1, <2>2
  <2>3. CASE 3 \notin D /\ 2 \notin D /\ 1 \in D
    BY <1>1, <2>3
  <2>4. CASE 3 \notin D /\ 2 \notin D /\ 1 \notin D
    BY <1>1, <2>4
  <2>. QED BY <2>1, <2>2, <2>3, <2>4
<1>3. Max(D) \in D /\ \A m \in D : Max(D) >= m
  <2>. HIDE DEF D
  <2>. QED BY <1>2 DEF Max
<1>4. Depth(s, words) = Max(D)
  BY DEF Depth
<1>. HIDE DEF Depth
<1>5. Depth(s, words) \in 0 .. Len(words) /\ Follow(s, words, Depth(s, words)) # 0
  BY <1>3, <1>4
<1>6. ASSUME Depth(s, words) # Len(words), Follow(s, words, Depth(s, words) + 1) # 0
      PROVE  FALSE
  <2>1. Depth(s, words) + 1 \in 0 .. Len(words)
    BY <1>5, <1>6
  <2>2. Depth(s, words) + 1 \in D
    BY <1>6, <2>1
  <2>. QED BY <1>3, <1>4, <1>5, <2>2
<1>. QED BY <1>5, <1>6

(* What is reached before the last word is a block of pointers. *)
LEMMA OnTheWay ==
    ASSUME Trees, NEW s \in Live, NEW i \in Nat,
           NEW k \in 0 .. Len(calculate_indices(i)) - 1,
           Follow(s, calculate_indices(i), k) \notin {0, Zeroing}
    PROVE  LET words == calculate_indices(i)
               at    == Follow(s, words, k)
           IN  /\ at \in PointerBlocks(s)
               /\ k = 0 <=> at = s
               /\ words[k + 1] \in DOMAIN disk[at] =>
                    /\ words[k + 1] \in WordsOf(s, at)
                    /\ disk[at][words[k + 1]] = Follow(s, words, k + 1)
<1>. DEFINE words == calculate_indices(i)
            at    == Follow(s, words, k)
<1>1. /\ Len(words) \in 1 .. 3 /\ words[1] \in 1 .. SECTOR_CNT
      /\ Len(words) = 1 => words[1] <= DIRECT_CNT
      /\ Len(words) = 2 => words[1] = DIRECT_CNT + 1
      /\ Len(words) = 3 => words[1] = DIRECT_CNT + 2
  BY Ways
<1>2. Follow(s, words, k + 1) = Down(at, words[k + 1])
  BY <1>1, FollowOne
<1>3. k \in {0, 1, 2} /\ InodeBlock(s) /\ s # 0
  <2>1. PICK n \in 1 .. 3 : n = Len(words)
    BY <1>1
  <2>2. k \in {0, 1, 2}
    BY <2>1
  <2>. QED BY <2>2, Layout DEF Trees, Shapes, InodeBlock
<1>4. at \in PointerBlocks(s) /\ (k = 0 <=> at = s)
  <2>1. CASE k = 0
    BY <2>1, PointerBlocksAre DEF Follow
  <2>2. CASE k = 1
    <3>1. at = Down(s, words[1]) /\ words[1] \in {DIRECT_CNT + 1, DIRECT_CNT + 2}
      <4>1. PICK n \in 1 .. 3 : n = Len(words)
        BY <1>1
      <4>2. n # 1
        BY <2>2, <4>1
      <4>. QED BY <1>1, <2>2, <4>1, <4>2 DEF Follow
    <3>2. at \notin {0, Zeroing} /\ at = disk[s][words[1]] /\ words[1] \in WordsOf(s, s)
      BY <1>1, <3>1 DEF Down, WordsOf
    <3>3. at \in PointerBlocks(s)
      BY <3>1, <3>2, PointerBlocksAre
    <3>4. PointedTo(at)
      BY <3>2, PointerBlocksAre DEF PointedTo
    <3>. QED BY <2>2, <3>3, <3>4 DEF Trees, Roots
  <2>3. CASE k = 2
    <3>. DEFINE dbl == Down(s, words[1])
    <3>1. at = Down(dbl, words[2]) /\ words[1] = DIRECT_CNT + 2
      <4>1. PICK n \in 1 .. 3 : n = Len(words)
        BY <1>1
      <4>2. n = 3
        BY <2>3, <4>1
      <4>. QED BY <1>1, <2>3, <4>1, <4>2 DEF Follow
    <3>2. /\ at \notin {0, Zeroing} /\ dbl \notin {0, Zeroing} /\ words[2] \in DOMAIN disk[dbl] /\ at = disk[dbl][words[2]]
          /\ dbl = disk[s][DIRECT_CNT + 2]
      BY <3>1 DEF Down
    <3>. HIDE DEF dbl
    <3>3. dbl \in PointerBlocks(s) /\ dbl # s
      BY <3>2, PointerBlocksAre, InodeIsNotBelowItself DEF Trees
    <3>4. words[2] \in 1 .. PTRS_PER_SECTOR /\ words[2] \in WordsOf(s, dbl)
      BY <3>2, <3>3 DEF Trees, Shapes, PointerBlock, WordsOf
    <3>5. at \in PointerBlocks(s)
      BY <3>2, <3>4, PointerBlocksAre
    <3>6. PointedTo(at)
      BY <3>2, <3>3, <3>4 DEF PointedTo
    <3>. QED BY <2>3, <3>5, <3>6 DEF Trees, Roots
  <2>. QED BY <1>3, <2>1, <2>2, <2>3
<1>5. ASSUME words[k + 1] \in DOMAIN disk[at]
      PROVE  words[k + 1] \in WordsOf(s, at) /\ disk[at][words[k + 1]] = Down(at, words[k + 1])
  <2>1. words[k + 1] \in WordsOf(s, at)
    <3>1. CASE k = 0
      BY <1>1, <1>4, <3>1 DEF WordsOf
    <3>2. CASE k # 0
      <4>1. at # s /\ PointerBlock(at)
        BY <1>4, <3>2 DEF Trees, Shapes
      <4>. QED BY <1>5, <4>1 DEF PointerBlock, WordsOf
    <3>. QED BY <3>1, <3>2
  <2>2. at \notin {0, Zeroing}
    OBVIOUS
  <2>. QED BY <1>5, <2>1, <2>2 DEF Down
<1>. QED BY <1>2, <1>4, <1>5

(* What is reached by all the words is a block of data, of this file only. *)
LEMMA AtTheEnd ==
    ASSUME Trees, NEW s \in Live, NEW i \in Nat, Zeroing = 0
    PROVE  LET words == calculate_indices(i)
               d     == Follow(s, words, Len(words))
           IN  d # 0 => /\ d \in Sectors /\ PointedTo(d) /\ d \notin Live
                        /\ \A t \in Live : d \notin PointerBlocks(t)
                        /\ \E b \in PointerBlocks(s) : \E w \in WordsOf(s, b) :
                             /\ b = Follow(s, words, Len(words) - 1) /\ w = words[Len(words)]
                             /\ disk[b][w] = d
<1>. DEFINE words == calculate_indices(i)
            n     == Len(words)
            d     == Follow(s, words, n)
            b     == Follow(s, words, n - 1)
            w     == words[n]
            dbl   == disk[s][DIRECT_CNT + 2]
<1>. SUFFICES ASSUME d # 0
              PROVE  /\ d \in Sectors /\ PointedTo(d) /\ d \notin Live
                     /\ \A t \in Live : d \notin PointerBlocks(t)
                     /\ b \in PointerBlocks(s) /\ w \in WordsOf(s, b) /\ disk[b][w] = d
  OBVIOUS
<1>1. /\ n \in 1 .. 3
      /\ n = 1 => w <= DIRECT_CNT /\ b = s
      /\ n = 2 => words[1] = DIRECT_CNT + 1
      /\ n = 3 => words[1] = DIRECT_CNT + 2
  BY Ways DEF Follow
<1>2. n - 1 \in 0 .. n - 1 /\ (n - 1) + 1 = n
  <2>1. PICK m \in 1 .. 3 : m = n
    BY <1>1
  <2>. QED BY <2>1
<1>3. d = Down(b, w)
  BY <1>1, <1>2, FollowOne
<1>4. b \notin {0, Zeroing} /\ w \in DOMAIN disk[b] /\ disk[b][w] = d
  BY <1>3 DEF Down
<1>5. b \in PointerBlocks(s) /\ w \in WordsOf(s, b) /\ (n = 1 <=> b = s)
  <2>1. n - 1 = 0 <=> n = 1
    BY <1>1
  <2>2. PICK k \in 0 .. n - 1 : k = n - 1 /\ k + 1 = n
    BY <1>2
  <2>3. Trees /\ s \in Live /\ i \in Nat /\ b = Follow(s, words, k)
    BY <2>2
  <2>4. /\ words = calculate_indices(i) /\ n = Len(calculate_indices(i)) /\ w = words[k + 1]
        /\ b = Follow(s, calculate_indices(i), k)
    BY <2>2
  <2>. HIDE DEF words, n, b, w, dbl
  <2>5. k \in 0 .. Len(calculate_indices(i)) - 1
    BY <2>2, <2>4
  <2>6. Follow(s, calculate_indices(i), k) \notin {0, Zeroing}
    BY <1>4, <2>4
  <2>7. /\ b \in PointerBlocks(s) /\ (k = 0 <=> b = s)
        /\ w \in DOMAIN disk[b] => w \in WordsOf(s, b)
    BY <2>3, <2>4, <2>5, <2>6, OnTheWay
  <2>. QED BY <1>4, <2>1, <2>2, <2>7
<1>6. PointedTo(d) /\ d \notin Live /\ d \in Sectors
  <2>1. PointedTo(d)
    BY <1>4, <1>5 DEF PointedTo
  <2>2. d \in Sectors \cup {0}
    BY <1>4, <1>5 DEF Trees, Shapes, InodeBlock, PointerBlock, WordsOf
  <2>. QED BY <2>1, <2>2 DEF Trees, Roots
<1>7. /\ dbl # 0 => dbl # disk[s][DIRECT_CNT + 1]
      /\ s \in PointerBlocks(s) /\ DIRECT_CNT + 2 \in WordsOf(s, s) /\ dbl # s
  <2>1. /\ DIRECT_CNT + 1 \in WordsOf(s, s) /\ DIRECT_CNT + 2 \in WordsOf(s, s)
        /\ DIRECT_CNT + 1 # DIRECT_CNT + 2
        /\ s \in PointerBlocks(s)
    BY Layout, PointerBlocksAre DEF WordsOf
  <2>. QED BY <2>1, InodeIsNotBelowItself DEF Trees, Forest
<1>8. b # dbl \/ n # 2
  <2>1. n = 2 => b = Down(s, DIRECT_CNT + 1)
    BY <1>1 DEF Follow
  <2>2. n = 2 => b = disk[s][DIRECT_CNT + 1]
    BY <1>4, <2>1 DEF Down
  <2>. QED BY <1>4, <1>7, <2>2
<1>9. b # dbl \/ n # 3
  <2>. SUFFICES ASSUME n = 3, b = dbl
                PROVE  FALSE
    OBVIOUS
  <2>1. b = Down(Down(s, DIRECT_CNT + 2), words[2])
    BY <1>1 DEF Follow
  <2>2. /\ words[2] \in DOMAIN disk[dbl] /\ disk[dbl][words[2]] = dbl /\ dbl # 0
    BY <1>4, <2>1 DEF Down
  <2>3. dbl \in PointerBlocks(s) /\ words[2] \in WordsOf(s, dbl)
    <3>1. dbl \in PointerBlocks(s) /\ dbl # s
      BY <1>5, <1>7
    <3>2. disk[dbl] \in [1 .. PTRS_PER_SECTOR -> Sectors \cup {0}]
      BY <3>1 DEF Trees, Shapes, PointerBlock
    <3>. QED BY <2>2, <3>1, <3>2 DEF WordsOf
  <2>. QED BY <1>7, <2>2, <2>3 DEF Trees, Forest
<1>10. \A t \in Live : d \notin PointerBlocks(t)
  <2>. SUFFICES ASSUME NEW t \in Live, d \in PointerBlocks(t)
                PROVE  FALSE
    OBVIOUS
  <2>1. d # t
    BY <1>6
  <2>2. PICK c \in {t, disk[t][DIRECT_CNT + 2]} :
          /\ c \in PointerBlocks(t)
          /\ \E v \in WordsOf(t, c) :
               disk[c][v] = d /\ (c = t => v \in {DIRECT_CNT + 1, DIRECT_CNT + 2})
    BY <2>1, BelowInode DEF Trees
  <2>3. c = b /\ (c = t => w \in {DIRECT_CNT + 1, DIRECT_CNT + 2})
    BY <1>4, <1>5, <2>2 DEF Trees, Forest
  <2>4. t = s
    BY <1>5, <2>2, <2>3, BlocksApart DEF Trees
  <2>5. n = 2 \/ n = 3
    <3>1. ~(w <= DIRECT_CNT /\ w \in {DIRECT_CNT + 1, DIRECT_CNT + 2})
      BY Layout
    <3>2. n # 1
      BY <1>1, <2>3, <2>4, <3>1
    <3>3. PICK m \in 1 .. 3 : m = n
      BY <1>1
    <3>. QED BY <3>2, <3>3
  <2>6. n # 1
    <3>1. ~(w <= DIRECT_CNT /\ w \in {DIRECT_CNT + 1, DIRECT_CNT + 2})
      BY Layout
    <3>. QED BY <1>1, <2>3, <2>4, <3>1
  <2>7. b # s
    BY <1>5, <2>6
  <2>8. b = dbl
    BY <2>2, <2>3, <2>4, <2>7
  <2>. QED BY <1>8, <1>9, <2>5, <2>8
<1>. QED BY <1>4, <1>5, <1>6, <1>10

---------------------------------------------------------------------------
(* The steps *)

(* A block is as long as a sector of pointers or as an inode. *)
LEMMA DisksHaveBlocks ==
    ASSUME NEW d, d \in [Sectors -> [1 .. PTRS_PER_SECTOR -> Int] \cup [1 .. LENGTH -> Int]]
    PROVE  DOMAIN d = Sectors /\ \A s \in Sectors : Len(d[s]) \in {PTRS_PER_SECTOR, LENGTH}
<1>1. PTRS_PER_SECTOR \in Nat /\ LENGTH \in Nat
  BY Layout
<1>2. ASSUME NEW n \in Nat, NEW b \in [1 .. n -> Int]
      PROVE  Len(b) = n
  BY <1>2
<1>. QED BY <1>1, <1>2

(* What lives is a sector, and what is open or has a name lives. *)
LEMMA WhatLives ==
    ASSUME TypeOK, Stage, Files
    PROVE  /\ Live \subseteq Sectors /\ Inodes \subseteq Live
           /\ \A s \in Sectors : open[s] > 0 => s \in Inodes
           /\ \A n \in Names : dir[n] # 0 => dir[n] \in Inodes
           /\ call.pc \in {"block", "point", "zero", "extend", "free"} => call.s \in Live
BY DEF TypeOK, Stage, Files, Live, Inodes

(* No call is a call, too. *)
LEMMA IdleIsACall == IDLE \in Calls /\ IDLE.pc = "idle"
<1>1. 0 \in 0 .. INODE_SPAN
  BY Layout
<1>. QED BY <1>1 DEF IDLE, Calls

(* What a call begins with. *)
LEMMA CallsToMake ==
    /\ \A n \in Names, f \in Sectors :
         [IDLE EXCEPT !.pc = "inode", !.name = n, !.next = f] \in Calls
    /\ \A s \in Sectors, i \in Nat, e \in 0 .. INODE_SPAN :
         [IDLE EXCEPT !.pc = "block", !.s = s, !.i = i, !.end = e] \in Calls
    /\ \A s \in Sectors : [IDLE EXCEPT !.pc = "free", !.s = s] \in Calls
<1>1. ASSUME NEW n \in Names, NEW f \in Sectors
      PROVE  [IDLE EXCEPT !.pc = "inode", !.name = n, !.next = f] \in Calls
  BY IdleIsACall DEF Calls
<1>2. ASSUME NEW s \in Sectors, NEW i \in Nat, NEW e \in 0 .. INODE_SPAN
      PROVE  [IDLE EXCEPT !.pc = "block", !.s = s, !.i = i, !.end = e] \in Calls
  BY IdleIsACall DEF Calls
<1>3. ASSUME NEW s \in Sectors
      PROVE  [IDLE EXCEPT !.pc = "free", !.s = s] \in Calls
  BY IdleIsACall DEF Calls
<1>. QED BY <1>1, <1>2, <1>3

(* A step that leaves the disk alone leaves the blocks of pointers. *)
LEMMA SameBlocks ==
    ASSUME NEW s, disk' = disk, Zeroing' = Zeroing
    PROVE  PointerBlocks(s)' = PointerBlocks(s) /\ BlocksOf(s)' = BlocksOf(s)
<1>1. PointerBlocks(s)' = PointerBlocks(s)
  BY DEF PointerBlocks
<1>2. Pointers(s)' = Pointers(s)
  BY <1>1 DEF Pointers
<1>3. BlocksOf(s)' = BlocksOf(s)
  BY <1>2 DEF BlocksOf
<1>. QED BY <1>1, <1>3

(* What is in use, when no file is being freed. *)
LEMMA InUseIsMapped ==
    /\ call.pc # "free" => InUse = free_map
    /\ call'.pc # "free" => InUse' = free_map'
BY DEF InUse

(* A step that leaves the disk, the map and the call. *)
LEMMA SameInUse ==
    ASSUME UNCHANGED <<disk, free_map, call>>
    PROVE  InUse' = InUse
<1>1. Zeroing' = Zeroing
  BY DEF Zeroing
<1>2. BlocksOf(call.s)' = BlocksOf(call.s)
  BY <1>1, SameBlocks
<1>. QED BY <1>2 DEF InUse

(* What files consist of, one that is being freed included, is in use. *)
LEMMA FilesAreInUse ==
    ASSUME TypeOK, Stage, Files, Trees, NEW s \in Live, NEW x \in BlocksOf(s)
    PROVE  x \in InUse
<1>1. x = s \/ (x \in Sectors /\ PointedTo(x))
  <2>1. x = s \/ /\ x # 0
                 /\ \E b \in PointerBlocks(s) : \E w \in WordsOf(s, b) : disk[b][w] = x
    BY BlocksOfAre
  <2>2. ASSUME NEW b \in PointerBlocks(s), NEW w \in WordsOf(s, b)
        PROVE  disk[b][w] \in Sectors \cup {0}
    <3>1. CASE b = s
      BY <3>1 DEF Trees, Shapes, InodeBlock, WordsOf
    <3>2. CASE b # s
      <4>1. disk[b] \in [1 .. PTRS_PER_SECTOR -> Sectors \cup {0}]
        BY <3>2 DEF Trees, Shapes, PointerBlock
      <4>. QED BY <3>2, <4>1 DEF WordsOf
    <3>. QED BY <3>1, <3>2
  <2>. QED BY <2>1, <2>2 DEF PointedTo
<1>2. s \in Sectors
  BY WhatLives
<1>. QED BY <1>1, <1>2 DEF Trees, Accounted

(* A file that is no longer open and has no name has all its sectors when its
   freeing begins. *)
LEMMA FreedIsInUse ==
    ASSUME TypeOK, Stage, Files, Trees, NEW s \in Inodes,
           call.pc = "idle", call'.pc = "free", call'.s = s,
           Zeroing' = Zeroing, disk' = disk, free_map' = free_map
    PROVE  InUse' = InUse
<1>1. s \in Live /\ InUse = free_map
  BY WhatLives, InUseIsMapped
<1>2. BlocksOf(s) \subseteq free_map
  BY <1>1, FilesAreInUse
<1>3. BlocksOf(s)' = BlocksOf(s)
  BY SameBlocks
<1>4. InUse' = free_map' \cup BlocksOf(s)'
  BY DEF InUse
<1>. QED BY <1>1, <1>2, <1>3, <1>4

(* A file that is not being freed has all its sectors. *)
LEMMA FilesAreMapped ==
    ASSUME TypeOK, Stage, Files, Trees, NEW s \in Inodes
    PROVE  BlocksOf(s) \subseteq free_map
<1>1. BlocksOf(s) \subseteq InUse /\ s \in Live
  BY WhatLives, FilesAreInUse
<1>2. CASE call.pc # "free"
  BY <1>1, <1>2, InUseIsMapped
<1>3. CASE call.pc = "free"
  <2>1. call.s \in Live /\ call.s # s
    BY <1>3 DEF Live, Stage
  <2>2. \A x \in BlocksOf(s) : x \notin BlocksOf(call.s)
    BY <1>1, <2>1, FilesApart DEF Trees
  <2>. QED BY <1>1, <1>3, <2>2 DEF InUse
<1>. QED BY <1>2, <1>3

(* filesys_create: a sector is taken and no one refers to it yet. *)
LEMMA CreateKeeps ==
    ASSUME IInv, NEW n \in Names, filesys_create(n)
    PROVE  IInv'
<1>1. TypeOK /\ Stage /\ Files /\ Trees /\ Halts
  BY DEF IInv
<1>2. FreeSector \in Sectors /\ FreeSector \notin free_map
  BY <1>1, FreeSectorIsFree DEF TypeOK, filesys_create
<1>3. /\ power \in {"on", "saved"} /\ call = IDLE /\ dir[n] = 0
      /\ creates < MaxCreates /\ creates' = creates + 1
      /\ free_map' = free_map \cup {FreeSector} /\ recent' = recent \cup {FreeSector}
      /\ call' = [IDLE EXCEPT !.pc = "inode", !.name = n, !.next = FreeSector]
      /\ UNCHANGED <<disk, dir, open, removed, saved, power, torn, lost, boots>>
  BY <1>1 DEF filesys_create, Runs, Machine, Stage
<1>4. /\ call.pc = "idle" /\ call'.pc = "inode" /\ call'.next = FreeSector /\ call'.name = n
      /\ call' \in Calls
  <2>1. call' \in Calls
    BY <1>2, <1>3, CallsToMake
  <2>. QED BY <1>3, <2>1 DEF IDLE
<1>5. /\ Live' = Live /\ lost' = lost /\ Zeroing' = Zeroing
      /\ InFlight = {} /\ InFlight' = {FreeSector}
      /\ InUse = free_map /\ InUse' = free_map'
      /\ Live \cup lost \subseteq Sectors
  BY <1>1, <1>3, <1>4, WhatLives, InUseIsMapped DEF Live, Inodes, Zeroing, InFlight, TypeOK
<1>6. Trees'
  BY <1>1, <1>2, <1>3, <1>5, TreesWithOneInFlight
<1>7. TypeOK'
  <2>1. creates' \in 0 .. MaxCreates
    BY <1>1, <1>3, InodeAssumption DEF TypeOK
  <2>. QED BY <1>1, <1>2, <1>3, <1>4, <2>1 DEF TypeOK, Calls
<1>8. Stage'
  BY <1>2, <1>3, <1>4 DEF Stage
<1>9. Files'
  BY <1>1, <1>3 DEF Files, Inodes
<1>10. Halts'
  BY <1>1, <1>3, <1>4 DEF Halts
<1>. QED BY <1>6, <1>7, <1>8, <1>9, <1>10 DEF IInv

(* inode_create: the sector in flight is made an inode. *)
LEMMA InodeKeeps ==
    ASSUME IInv, inode_create
    PROVE  IInv'
<1>1. TypeOK /\ Stage /\ Files /\ Trees /\ Halts
  BY DEF IInv
<1>2. /\ power \in {"on", "saved"} /\ call.pc = "inode" /\ call \in Calls
      /\ disk' = [disk EXCEPT ![call.next] = NewInode]
      /\ call' = [call EXCEPT !.pc = "entry"]
      /\ UNCHANGED <<dir, free_map, open, removed, creates, saved, power, torn, recent, lost, boots>>
  BY <1>1 DEF inode_create, Runs, Machine, Stage
<1>3. /\ call.next \in Sectors /\ call.name \in Names /\ dir[call.name] = 0
      /\ call'.pc = "entry" /\ call' \in Calls
      /\ \A field \in {"s", "i", "end", "at", "word", "next", "name"} : call'[field] = call[field]
  BY <1>1, <1>2 DEF Stage, Calls
<1>4. /\ Live' = Live /\ lost' = lost /\ Zeroing' = Zeroing
      /\ InFlight = {call.next} /\ InFlight' = InFlight /\ InUse' = InUse
  BY <1>2, <1>3, InUseIsMapped DEF Live, Inodes, Zeroing, InFlight
<1>5. Trees'
  <2>1. NewInode \in [1 .. LENGTH -> Int]
    BY DEF NewInode
  <2>. QED BY <1>1, <1>2, <1>3, <1>4, <2>1, TreesWithOneFilled
<1>6. TypeOK'
  <2>1. DOMAIN disk' = Sectors /\ \A s \in Sectors : Len(disk'[s]) \in {PTRS_PER_SECTOR, LENGTH}
    BY <1>5, DisksHaveBlocks DEF Trees, Shapes
  <2>. QED BY <1>1, <1>2, <1>3, <2>1 DEF TypeOK, Calls
<1>7. Stage'
  <2>1. disk'[call.next] = NewInode
    BY <1>1, <1>2, <1>3 DEF TypeOK
  <2>. QED BY <1>2, <1>3, <2>1 DEF Stage
<1>8. Files'
  BY <1>1, <1>2 DEF Files, Inodes
<1>9. Halts'
  BY <1>1, <1>2, <1>3 DEF Halts
<1>. QED BY <1>5, <1>6, <1>7, <1>8, <1>9 DEF IInv

(* dir_add: the sector in flight becomes a file, whose inode has no pointers. *)
LEMMA AddKeeps ==
    ASSUME IInv, dir_add
    PROVE  IInv'
<1>1. TypeOK /\ Stage /\ Files /\ Trees /\ Halts
  BY DEF IInv
<1>. DEFINE n == call.name
            f == call.next
<1>2. /\ power \in {"on", "saved"} /\ call.pc = "entry" /\ call \in Calls
      /\ dir' = [dir EXCEPT ![n] = f]
      /\ call' = IDLE
      /\ UNCHANGED <<disk, free_map, open, removed, creates, saved, power, torn, recent, lost, boots>>
  BY <1>1 DEF dir_add, Runs, Machine, Stage
<1>3. /\ f \in Sectors /\ n \in Names /\ dir[n] = 0 /\ disk[f] = NewInode /\ f # 0
      /\ call'.pc = "idle"
  BY <1>1, <1>2, Layout DEF Stage, IDLE
<1>4. /\ dir'[n] = f /\ \A m \in Names : m # n => dir'[m] = dir[m]
  BY <1>1, <1>2, <1>3 DEF TypeOK
<1>5. Inodes' = Inodes \cup {f}
  BY <1>2, <1>3, <1>4 DEF Inodes
<1>6. /\ Live' = Live \cup {f} /\ lost' = lost /\ Zeroing = 0 /\ Zeroing' = 0
      /\ InFlight = {f} /\ InFlight' = {} /\ InUse' = InUse
  BY <1>2, <1>3, <1>5, InUseIsMapped DEF Live, Zeroing, InFlight
<1>7. Trees'
  BY <1>1, <1>2, <1>3, <1>6, TreesWithNewFile
<1>8. TypeOK'
  BY <1>1, <1>2, <1>3 DEF TypeOK, IDLE
<1>9. Stage'
  BY <1>2, BlockIndexAssumption, Layout DEF Stage, IDLE, Calls
<1>10. Files'
  <2>1. f \notin Inodes
    BY <1>1, <1>6 DEF Trees, Roots, Live
  <2>. QED BY <1>1, <1>2, <1>3, <1>4, <1>5, <2>1 DEF Files, Inodes
<1>11. Halts'
  BY <1>1, <1>2, <1>3 DEF Halts
<1>. QED BY <1>7, <1>8, <1>9, <1>10, <1>11 DEF IInv

(* DirAddFails: the sector in flight is lost. *)
LEMMA AddFailsKeeps ==
    ASSUME IInv, DirAddFails
    PROVE  IInv'
<1>1. TypeOK /\ Stage /\ Files /\ Trees /\ Halts
  BY DEF IInv
<1>2. /\ power \in {"on", "saved"} /\ call.pc = "entry" /\ call' = IDLE
      /\ lost' = lost \cup {call.next}
      /\ UNCHANGED <<disk, dir, free_map, open, removed, creates, saved, power, torn, recent, boots>>
  BY DEF DirAddFails, Runs, Machine
<1>3. call.next \in Sectors /\ call' \in Calls /\ call'.pc = "idle"
  BY <1>1, <1>2, IdleIsACall DEF Stage
<1>4. /\ Live' = Live /\ Zeroing' = Zeroing
      /\ InFlight = {call.next} /\ InFlight' = {} /\ InUse' = InUse
  BY <1>2, <1>3, InUseIsMapped DEF Live, Inodes, Zeroing, InFlight
<1>5. Trees'
  <2>1. Shapes' /\ Forest' /\ \A x : PointedTo(x)' <=> PointedTo(x)
    BY <1>1, <1>2, <1>4, NothingWritten DEF Trees
  <2>2. lost' \cup InFlight' = lost \cup InFlight
    BY <1>2, <1>4
  <2>. QED BY <1>1, <1>4, <2>1, <2>2 DEF Trees, Roots, Accounted
<1>6. TypeOK'
  BY <1>1, <1>2, <1>3 DEF TypeOK, IDLE
<1>7. Stage'
  BY <1>2, <1>3 DEF Stage
<1>8. Files'
  BY <1>1, <1>2 DEF Files, Inodes
<1>9. Halts'
  BY <1>1, <1>2, <1>3 DEF Halts
<1>. QED BY <1>5, <1>6, <1>7, <1>8, <1>9 DEF IInv

(* inode_write_at: a write begins, of a file that is open. *)
LEMMA WriteAtKeeps ==
    ASSUME IInv, NEW s \in Sectors, NEW w \in Writes, inode_write_at(s, w[1], w[2])
    PROVE  IInv'
<1>1. TypeOK /\ Stage /\ Files /\ Trees /\ Halts
  BY DEF IInv
<1>2. /\ power \in {"on", "saved"} /\ call = IDLE /\ open[s] > 0
      /\ call' = [IDLE EXCEPT !.pc = "block", !.s = s, !.i = w[1], !.end = w[2]]
      /\ UNCHANGED <<disk, dir, free_map, open, removed, creates, saved, power, torn, recent, lost, boots>>
  BY <1>1 DEF inode_write_at, Runs, Machine, Stage
<1>3. w[1] \in Nat /\ w[2] \in 0 .. INODE_SPAN /\ w[1] < w[2]
  <2>1. w[1] \in Nat /\ w[2] \in w[1] + 1 .. INODE_SPAN
    BY InodeAssumption
  <2>. QED BY <2>1, Layout
<1>4. /\ call.pc = "idle" /\ call'.pc = "block" /\ call'.s = s /\ call'.i < call'.end
      /\ call' \in Calls
  <2>1. call' \in Calls
    BY <1>2, <1>3, CallsToMake
  <2>. QED BY <1>2, <1>3, <2>1 DEF IDLE
<1>5. /\ Live' = Live /\ lost' = lost /\ Zeroing' = Zeroing /\ InFlight' = InFlight
      /\ InUse' = InUse
  BY <1>2, <1>4, InUseIsMapped DEF Live, Inodes, Zeroing, InFlight
<1>6. Trees'
  BY <1>1, <1>2, <1>5, TreesKept
<1>7. TypeOK'
  BY <1>1, <1>2, <1>4 DEF TypeOK, Calls
<1>8. Stage'
  BY <1>2, <1>4 DEF Stage
<1>9. Files'
  BY <1>1, <1>2 DEF Files, Inodes
<1>10. Halts'
  BY <1>1, <1>2, <1>4 DEF Halts
<1>. QED BY <1>6, <1>7, <1>8, <1>9, <1>10 DEF IInv

(* The steps of a call while it writes have these facts in common. *)
LEMMA WhileWriting ==
    ASSUME IInv, call.pc \in {"block", "point", "zero", "extend"}
    PROVE  /\ TypeOK /\ Stage /\ Files /\ Trees /\ Halts
           /\ call \in Calls /\ call.s \in Sectors /\ open[call.s] > 0
           /\ call.s \in Live /\ call.s # 0 /\ Live = Inodes
BY WhatLives, Layout DEF IInv, Stage, Live

(* get_data_block: the pointer it comes to is one of the file and is 0; the
   sector taken for it is in flight. *)
LEMMA GetBlockKeeps ==
    ASSUME IInv, get_data_block
    PROVE  IInv'
<1>. DEFINE s     == call.s
            words == calculate_indices(call.i)
            k     == Depth(s, words)
            at    == Follow(s, words, k)
            w     == words[k + 1]
<1>1. /\ power \in {"on", "saved"} /\ call.pc = "block" /\ k < Len(words) /\ w \in DOMAIN disk[at]
      /\ \/ free_map = Sectors /\ call' = [call EXCEPT !.pc = "extend"]
            /\ UNCHANGED <<free_map, recent>>
         \/ /\ free_map # Sectors
            /\ free_map' = free_map \cup {FreeSector} /\ recent' = recent \cup {FreeSector}
            /\ call' = [call EXCEPT !.pc = "point", !.at = at, !.word = w, !.next = FreeSector]
      /\ UNCHANGED <<disk, dir, open, removed, creates, saved, power, torn, lost, boots>>
  BY DEF get_data_block, Runs, Machine
<1>2. /\ TypeOK /\ Stage /\ Files /\ Trees /\ Halts
      /\ call \in Calls /\ s \in Sectors /\ open[s] > 0
      /\ s \in Live /\ s # 0 /\ Live = Inodes
  BY <1>1, WhileWriting
<1>3. Zeroing = 0 /\ InFlight = {} /\ call.i \in Nat /\ call.i < call.end
  BY <1>1, <1>2 DEF Zeroing, InFlight, Calls, Stage
<1>4. at \in PointerBlocks(s) /\ w \in WordsOf(s, at) /\ disk[at][w] = 0
  <2>1. Len(words) \in 1 .. 3
    BY <1>3, Ways
  <2>2. k \in 0 .. Len(words) /\ at # 0 /\ (k # Len(words) => Follow(s, words, k + 1) = 0)
    BY <1>2, <2>1, DepthIs
  <2>3. k \in 0 .. Len(words) - 1 /\ Follow(s, words, k + 1) = 0
    BY <1>1, <2>1, <2>2
  <2>. QED BY <1>1, <1>2, <1>3, <2>2, <2>3, OnTheWay
<1>5. at \in Sectors /\ w \in Nat
  <2>1. at \in Sectors
    BY <1>2, <1>4 DEF Trees, Shapes, InodeBlock, PointerBlock
  <2>2. w \in Nat
    BY <1>4, Layout DEF WordsOf
  <2>. QED BY <2>1, <2>2
<1>. HIDE DEF words, k, at, w
<1>6. call' \in Calls /\ call'.s = s /\ Live' = Live /\ lost' = lost /\ Zeroing' = Zeroing
      /\ call'.i = call.i /\ call'.end = call.end /\ call'.pc \in {"extend", "point"}
      /\ InUse = free_map /\ InUse' = free_map'
  <2>1. call' \in Calls
    <3>1. CASE call' = [call EXCEPT !.pc = "extend"]
      BY <1>2, <3>1 DEF Calls
    <3>2. ASSUME NEW f \in Sectors,
                 call' = [call EXCEPT !.pc = "point", !.at = at, !.word = w, !.next = f]
          PROVE  call' \in Calls
      BY <1>2, <1>5, <3>2 DEF Calls
    <3>3. free_map # Sectors => FreeSector \in Sectors
      BY <1>2, FreeSectorIsFree DEF TypeOK
    <3>. QED BY <1>1, <3>1, <3>2, <3>3
  <2>2. call'.s = s /\ call'.i = call.i /\ call'.end = call.end /\ call'.pc \in {"extend", "point"}
    BY <1>1, <1>2 DEF Calls
  <2>. QED BY <1>1, <2>1, <2>2, InUseIsMapped DEF Live, Inodes, Zeroing
<1>7. /\ free_map' \subseteq Sectors /\ recent' \subseteq Sectors
      /\ free_map' \ saved \subseteq recent'
      /\ Trees'
      /\ call'.pc = "point" => call'.next \in Sectors /\ call'.at = at /\ call'.word = w
  <2>1. CASE free_map = Sectors
    <3>1. call'.pc = "extend" /\ InFlight' = {}
      BY <1>1, <1>2, <2>1 DEF Calls, InFlight
    <3>2. Trees'
      BY <1>1, <1>2, <1>3, <1>6, <2>1, <3>1, TreesKept
    <3>. QED BY <1>1, <1>2, <2>1, <3>1, <3>2 DEF TypeOK, Halts
  <2>2. CASE free_map # Sectors
    <3>1. FreeSector \in Sectors /\ FreeSector \notin free_map
      BY <1>2, <2>2, FreeSectorIsFree DEF TypeOK
    <3>2. /\ call'.pc = "point" /\ call'.next = FreeSector /\ call'.at = at /\ call'.word = w
          /\ InFlight' = {FreeSector}
      BY <1>1, <1>2, <2>2 DEF Calls, InFlight
    <3>3. Live \cup lost \subseteq Sectors
      BY <1>2, WhatLives DEF TypeOK
    <3>4. Trees'
      BY <1>1, <1>2, <1>3, <1>6, <2>2, <3>1, <3>2, <3>3, TreesWithOneInFlight
    <3>. QED BY <1>1, <1>2, <2>2, <3>1, <3>2, <3>4 DEF TypeOK, Halts
  <2>. QED BY <2>1, <2>2
<1>8. TypeOK'
  BY <1>1, <1>2, <1>6, <1>7 DEF TypeOK, Calls
<1>9. Stage'
  <2>1. PointerBlocks(s)' = PointerBlocks(s)
    BY <1>1, <1>6, SameBlocks
  <2>. QED BY <1>1, <1>2, <1>3, <1>4, <1>6, <1>7, <2>1 DEF Stage, WordsOf
<1>10. Files'
  BY <1>1, <1>2 DEF Files, Inodes
<1>11. Halts'
  BY <1>1, <1>2, <1>6, <1>7 DEF Halts
<1>. QED BY <1>7, <1>8, <1>9, <1>10, <1>11 DEF IInv

(* WritePointer: what was in flight is pointed to, once. *)
LEMMA PointerKeeps ==
    ASSUME IInv, WritePointer
    PROVE  IInv'
<1>. DEFINE s == call.s
            b == call.at
            w == call.word
            f == call.next
<1>1. /\ power \in {"on", "saved"} /\ call.pc = "point"
      /\ disk' = [disk EXCEPT ![b][w] = f]
      /\ call' = [call EXCEPT !.pc = "zero"]
      /\ UNCHANGED <<dir, free_map, open, removed, creates, saved, power, torn, recent, lost, boots>>
  BY DEF WritePointer, Runs, Machine
<1>2. /\ TypeOK /\ Stage /\ Files /\ Trees /\ Halts
      /\ call \in Calls /\ s \in Sectors /\ open[s] > 0
      /\ s \in Live /\ s # 0 /\ Live = Inodes
  BY <1>1, WhileWriting
<1>3. /\ f \in Sectors /\ b \in PointerBlocks(s) /\ w \in WordsOf(s, b) /\ disk[b][w] = 0
      /\ call.i < call.end
  BY <1>1, <1>2 DEF Stage
<1>4. /\ call' \in Calls /\ call'.pc = "zero"
      /\ \A field \in {"s", "i", "end", "at", "word", "next", "name"} : call'[field] = call[field]
  BY <1>1, <1>2 DEF Calls
<1>5. /\ Live' = Live /\ lost' = lost /\ Zeroing = 0 /\ Zeroing' = f
      /\ InFlight = {f} /\ InFlight' = {} /\ InUse' = InUse
  BY <1>1, <1>2, <1>4, InUseIsMapped DEF Live, Inodes, Zeroing, InFlight
<1>6. Trees' /\ call'.at \in PointerBlocks(s)' /\ disk'[b][w] = f
  <2>1. PICK t, c, v, g : t = s /\ c = b /\ v = w /\ g = f
    OBVIOUS
  <2>2. /\ g \in Sectors /\ t \in Live /\ c \in PointerBlocks(t) /\ v \in WordsOf(t, c)
        /\ disk[c][v] = 0 /\ disk' = [disk EXCEPT ![c][v] = g]
        /\ InFlight = {g} /\ InFlight' = {} /\ Zeroing = 0 /\ Zeroing' = g
        /\ Trees /\ Live' = Live /\ lost' = lost /\ InUse' = InUse
    BY <1>1, <1>2, <1>3, <1>5, <2>1
  <2>3. Trees' /\ c \in PointerBlocks(t)'
    BY <2>2, TreesWithNewPointer
  <2>4. disk'[c][v] = g
    <3>1. disk \in [Sectors -> [1 .. PTRS_PER_SECTOR -> Int] \cup [1 .. LENGTH -> Int]]
      BY <2>2 DEF Trees, Shapes
    <3>2. c \in Sectors /\ v \in DOMAIN disk[c]
      BY <2>2, Layout DEF Trees, Shapes, InodeBlock, PointerBlock, WordsOf
    <3>. QED BY <2>2, <3>1, <3>2
  <2>5. call'.s = t /\ call'.at = c
    BY <1>4, <2>1
  <2>. QED BY <2>1, <2>3, <2>4, <2>5
<1>7. TypeOK'
  <2>1. DOMAIN disk' = Sectors /\ \A x \in Sectors : Len(disk'[x]) \in {PTRS_PER_SECTOR, LENGTH}
    BY <1>6, DisksHaveBlocks DEF Trees, Shapes
  <2>. QED BY <1>1, <1>2, <1>4, <2>1 DEF TypeOK, Calls
<1>8. Stage'
  BY <1>1, <1>2, <1>3, <1>4, <1>6 DEF Stage, WordsOf
<1>9. Files'
  BY <1>1, <1>2 DEF Files, Inodes
<1>10. Halts'
  BY <1>1, <1>2 DEF Halts
<1>. QED BY <1>6, <1>7, <1>8, <1>9, <1>10 DEF IInv

(* set_to_zeros: the sector that was pointed to first is a block without pointers. *)
LEMMA ZerosKeep ==
    ASSUME IInv, set_to_zeros
    PROVE  IInv'
<1>. DEFINE s == call.s
            b == call.at
            w == call.word
            f == call.next
<1>1. /\ power \in {"on", "saved"} /\ call.pc = "zero"
      /\ disk' = [disk EXCEPT ![f] = ZEROS]
      /\ call' = [call EXCEPT !.pc = "block", !.at = 0, !.word = 0, !.next = 0]
      /\ UNCHANGED <<dir, free_map, open, removed, creates, saved, power, torn, recent, lost, boots>>
  BY DEF set_to_zeros, Runs, Machine
<1>2. /\ TypeOK /\ Stage /\ Files /\ Trees /\ Halts
      /\ call \in Calls /\ s \in Sectors /\ open[s] > 0
      /\ s \in Live /\ s # 0 /\ Live = Inodes
  BY <1>1, WhileWriting
<1>3. /\ f \in Sectors /\ b \in PointerBlocks(s) /\ w \in WordsOf(s, b) /\ disk[b][w] = f
      /\ call.i < call.end
  BY <1>1, <1>2 DEF Stage
<1>4. /\ call' \in Calls /\ call'.pc = "block"
      /\ call'.s = s /\ call'.i = call.i /\ call'.end = call.end
  BY <1>1, <1>2 DEF Calls
<1>5. /\ Live' = Live /\ lost' = lost /\ Zeroing = f /\ Zeroing' = 0
      /\ InFlight = {} /\ InFlight' = {} /\ InUse' = InUse
  BY <1>1, <1>2, <1>4, InUseIsMapped DEF Live, Inodes, Zeroing, InFlight
<1>6. Trees'
  BY <1>1, <1>2, <1>3, <1>5, TreesWithZeros
<1>7. TypeOK'
  <2>1. DOMAIN disk' = Sectors /\ \A x \in Sectors : Len(disk'[x]) \in {PTRS_PER_SECTOR, LENGTH}
    BY <1>6, DisksHaveBlocks DEF Trees, Shapes
  <2>. QED BY <1>1, <1>2, <1>4, <2>1 DEF TypeOK, Calls
<1>8. Stage'
  BY <1>1, <1>2, <1>3, <1>4 DEF Stage
<1>9. Files'
  BY <1>1, <1>2 DEF Files, Inodes
<1>10. Halts'
  BY <1>1, <1>2 DEF Halts
<1>. QED BY <1>6, <1>7, <1>8, <1>9, <1>10 DEF IInv

(* LookPastEnd: the model stops. *)
LEMMA LookPastEndKeeps ==
    ASSUME IInv, LookPastEnd
    PROVE  IInv'
<1>1. /\ call.pc = "block" /\ power' = "overrun"
      /\ UNCHANGED <<disk, dir, free_map, saved, open, removed, call, torn, recent, lost,
                     boots, creates>>
  BY DEF LookPastEnd, Runs
<1>2. TypeOK /\ Stage /\ Files /\ Trees /\ Halts
  BY DEF IInv
<1>3. Live' = Live /\ Zeroing' = Zeroing /\ InFlight' = InFlight /\ InUse' = InUse
  BY <1>1, SameInUse DEF Live, Inodes, Zeroing, InFlight
<1>4. Trees'
  BY <1>1, <1>2, <1>3, TreesKept
<1>5. TypeOK'
  BY <1>1, <1>2 DEF TypeOK
<1>6. Stage'
  <2>1. \A s, b : PointerBlocks(s)' = PointerBlocks(s) /\ WordsOf(s, b)' = WordsOf(s, b)
    BY <1>1, <1>3, SameBlocks DEF WordsOf
  <2>. QED BY <1>1, <1>2, <2>1 DEF Stage, Inodes
<1>7. Files'
  BY <1>1, <1>2 DEF Files, Inodes
<1>8. Halts'
  BY <1>1, <1>2 DEF Halts
<1>. QED BY <1>4, <1>5, <1>6, <1>7, <1>8 DEF IInv

(* WriteBlock: a block of data is written, which no file has pointers in. *)
LEMMA WriteBlockKeeps ==
    ASSUME IInv, WriteBlock
    PROVE  IInv'
<1>. DEFINE s     == call.s
            words == calculate_indices(call.i)
            d     == Follow(s, words, Len(words))
<1>1. /\ power \in {"on", "saved"} /\ call.pc = "block"
      /\ Depth(s, words) = Len(words)
      /\ disk' = [disk EXCEPT ![d] = Data(1)]
      /\ call' = [call EXCEPT !.i = @ + 1,
                              !.pc = IF call.i + 1 = call.end THEN "extend" ELSE "block"]
      /\ UNCHANGED <<dir, free_map, open, removed, creates, saved, power, torn, recent, lost, boots>>
  BY DEF WriteBlock, Runs, Machine
<1>2. /\ TypeOK /\ Stage /\ Files /\ Trees /\ Halts
      /\ call \in Calls /\ s \in Sectors /\ open[s] > 0
      /\ s \in Live /\ s # 0 /\ Live = Inodes
  BY <1>1, WhileWriting
<1>3. Zeroing = 0 /\ call.i \in Nat /\ call.end \in Nat /\ call.i < call.end
  <2>1. call.end \in 0 .. INODE_SPAN
    BY <1>2 DEF Calls
  <2>2. call.i \in Nat
    BY <1>2 DEF Calls
  <2>. QED BY <1>1, <1>2, <2>1, <2>2, Layout DEF Zeroing, Stage
<1>4. d # 0
  <2>1. Len(words) \in 1 .. 3
    BY <1>3, Ways
  <2>. QED BY <1>1, <1>2, <2>1, DepthIs
<1>5. d \in Sectors /\ d \notin Live /\ \A t \in Live : d \notin PointerBlocks(t)
  BY <1>2, <1>3, <1>4, AtTheEnd
<1>. HIDE DEF words, d
<1>6. /\ call' \in Calls /\ call'.s = s /\ call'.end = call.end /\ call'.i = call.i + 1
      /\ call'.pc \in {"block", "extend"} /\ (call'.pc = "block" => call'.i < call'.end)
  <2>1. call.i + 1 \in Nat /\ (call.i + 1 # call.end => call.i + 1 < call.end)
    BY <1>3
  <2>. QED BY <1>1, <1>2, <2>1 DEF Calls
<1>7. /\ Live' = Live /\ lost' = lost /\ Zeroing' = Zeroing /\ InFlight' = InFlight
      /\ InUse' = InUse
  BY <1>1, <1>2, <1>6, InUseIsMapped DEF Live, Inodes, Zeroing, InFlight
<1>8. Trees'
  <2>1. Data(1) \in [1 .. PTRS_PER_SECTOR -> Int]
    BY DEF Data
  <2>. QED BY <1>1, <1>2, <1>5, <1>7, <2>1, TreesWithDataWritten
<1>9. TypeOK'
  <2>1. DOMAIN disk' = Sectors /\ \A x \in Sectors : Len(disk'[x]) \in {PTRS_PER_SECTOR, LENGTH}
    BY <1>8, DisksHaveBlocks DEF Trees, Shapes
  <2>. QED BY <1>1, <1>2, <1>6, <2>1 DEF TypeOK, Calls
<1>10. Stage'
  BY <1>1, <1>2, <1>6 DEF Stage
<1>11. Files'
  BY <1>1, <1>2 DEF Files, Inodes
<1>12. Halts'
  BY <1>1, <1>2, <1>6 DEF Halts
<1>. QED BY <1>8, <1>9, <1>10, <1>11, <1>12 DEF IInv

(* extend_file: the length of an inode is written, and none of its pointers. *)
LEMMA ExtendKeeps ==
    ASSUME IInv, extend_file
    PROVE  IInv'
<1>. DEFINE s   == call.s
            len == Max({disk[s][LENGTH], call.end})
<1>1. /\ power \in {"on", "saved"} /\ call.pc = "extend"
      /\ disk' = [disk EXCEPT ![s][LENGTH] = len]
      /\ call' = IDLE
      /\ UNCHANGED <<dir, free_map, open, removed, creates, saved, power, torn, recent, lost, boots>>
  BY DEF extend_file, Runs, Machine
<1>2. /\ TypeOK /\ Stage /\ Files /\ Trees /\ Halts
      /\ call \in Calls /\ s \in Sectors /\ open[s] > 0
      /\ s \in Live /\ s # 0 /\ Live = Inodes
  BY <1>1, WhileWriting
<1>3. len \in 0 .. INODE_SPAN
  <2>1. disk[s][LENGTH] \in 0 .. INODE_SPAN
    BY <1>2 DEF Trees, Shapes, InodeBlock
  <2>2. call.end \in 0 .. INODE_SPAN
    BY <1>2 DEF Calls
  <2>3. disk[s][LENGTH] \in Int /\ call.end \in Int
    BY <2>1, <2>2, Layout
  <2>. QED BY <2>1, <2>2, <2>3, MaxOfTwo
<1>4. call' \in Calls /\ call'.pc = "idle"
  BY <1>1, IdleIsACall
<1>5. /\ Live' = Live /\ lost' = lost /\ Zeroing' = Zeroing /\ InFlight' = InFlight
      /\ InUse' = InUse
  BY <1>1, <1>2, <1>4, InUseIsMapped DEF Live, Inodes, Zeroing, InFlight
<1>6. Trees'
  BY <1>1, <1>2, <1>3, <1>5, TreesWithLength
<1>7. TypeOK'
  <2>1. DOMAIN disk' = Sectors /\ \A x \in Sectors : Len(disk'[x]) \in {PTRS_PER_SECTOR, LENGTH}
    BY <1>6, DisksHaveBlocks DEF Trees, Shapes
  <2>. QED BY <1>1, <1>2, <1>4, <2>1 DEF TypeOK, Calls
<1>8. Stage'
  BY <1>1, <1>4 DEF Stage
<1>9. Files'
  BY <1>1, <1>2 DEF Files, Inodes
<1>10. Halts'
  BY <1>1, <1>2, <1>4 DEF Halts
<1>. QED BY <1>6, <1>7, <1>8, <1>9, <1>10 DEF IInv

(* inode_open: what is opened has a name. *)
LEMMA OpenKeeps ==
    ASSUME IInv, NEW n \in Names, inode_open(n)
    PROVE  IInv'
<1>. DEFINE s == dir[n]
<1>1. /\ power \in {"on", "saved"} /\ call = IDLE /\ call.pc = "idle"
      /\ s # 0 /\ open[s] < MaxOpen
      /\ open' = [open EXCEPT ![s] = @ + 1]
      /\ UNCHANGED <<disk, dir, free_map, removed, call, creates, saved, power, torn, recent, lost, boots>>
  BY DEF inode_open, Runs, Machine, IInv, Stage
<1>2. /\ TypeOK /\ Stage /\ Files /\ Trees /\ Halts /\ s \in Inodes /\ s \in Sectors
  BY <1>1, WhatLives DEF IInv
<1>3. /\ open[s] \in Nat /\ open'[s] = open[s] + 1 /\ open'[s] > 0
      /\ open' \in [Sectors -> 0 .. MaxOpen]
      /\ \A t \in Sectors : t # s => open'[t] = open[t]
  <2>1. open[s] \in 0 .. MaxOpen /\ MaxOpen \in Nat
    BY <1>2, InodeAssumption DEF TypeOK
  <2>2. open[s] + 1 \in 0 .. MaxOpen /\ open[s] + 1 > 0 /\ open[s] \in Nat
    BY <1>1, <2>1
  <2>. QED BY <1>1, <1>2, <2>2 DEF TypeOK
<1>4. Live' = Live /\ Zeroing' = Zeroing /\ InFlight' = InFlight /\ InUse' = InUse
  BY <1>1, SameInUse DEF Live, Inodes, Zeroing, InFlight
<1>5. Trees'
  BY <1>1, <1>2, <1>4, TreesKept
<1>6. TypeOK'
  BY <1>1, <1>2, <1>3 DEF TypeOK
<1>7. Stage'
  BY <1>1, <1>2 DEF Stage
<1>8. Files'
  BY <1>1, <1>2, <1>3 DEF Files, Inodes
<1>9. Halts'
  BY <1>1, <1>2 DEF Halts
<1>. QED BY <1>5, <1>6, <1>7, <1>8, <1>9 DEF IInv

(* inode_close: the last close of a removed file goes on to free it. *)
LEMMA CloseKeeps ==
    ASSUME IInv, NEW s \in Sectors, inode_close(s)
    PROVE  IInv'
<1>1. /\ power \in {"on", "saved"} /\ call = IDLE /\ call.pc = "idle" /\ open[s] > 0
      /\ open' = [open EXCEPT ![s] = @ - 1]
      /\ \/ /\ open[s] = 1 /\ s \in removed
            /\ removed' = removed \ {s} /\ call' = [IDLE EXCEPT !.pc = "free", !.s = s]
         \/ ~(open[s] = 1 /\ s \in removed) /\ UNCHANGED <<removed, call>>
      /\ UNCHANGED <<disk, dir, free_map, creates, saved, power, torn, recent, lost, boots>>
  BY DEF inode_close, Runs, Machine, IInv, Stage
<1>2. TypeOK /\ Stage /\ Files /\ Trees /\ Halts
  BY DEF IInv
<1>3. /\ open[s] \in Nat /\ open'[s] = open[s] - 1 /\ open' \in [Sectors -> 0 .. MaxOpen]
      /\ \A t \in Sectors : t # s => open'[t] = open[t]
  <2>1. open[s] \in 0 .. MaxOpen /\ MaxOpen \in Nat
    BY <1>2, InodeAssumption DEF TypeOK
  <2>2. open[s] - 1 \in 0 .. MaxOpen /\ open[s] \in Nat
    BY <1>1, <2>1
  <2>. QED BY <1>1, <2>2, <1>2 DEF TypeOK
<1>4. CASE open[s] = 1 /\ s \in removed
  <2>1. /\ removed' = removed \ {s} /\ call' = [IDLE EXCEPT !.pc = "free", !.s = s] /\ open'[s] = 0
    BY <1>1, <1>3, <1>4
  <2>2. call' \in Calls /\ call'.pc = "free" /\ call'.s = s
    BY <2>1, CallsToMake DEF IDLE
  <2>3. /\ \A n \in Names : dir[n] # s
        /\ s \in Inodes /\ Inodes' = Inodes \ {s}
    BY <1>1, <1>2, <1>4, <2>1, Layout DEF Files, Inodes
  <2>4. Live' = Live /\ Zeroing' = Zeroing /\ InFlight' = InFlight /\ InUse' = InUse
    <3>1. Live' = Live /\ Zeroing' = Zeroing /\ InFlight' = InFlight
      BY <1>1, <2>2, <2>3 DEF Live, Zeroing, InFlight
    <3>. QED BY <1>1, <1>2, <2>2, <2>3, <3>1, FreedIsInUse
  <2>5. Trees'
    BY <1>1, <1>2, <2>4, TreesKept
  <2>6. TypeOK'
    BY <1>1, <1>2, <1>3, <2>1, <2>2 DEF TypeOK, Calls
  <2>7. Stage'
    BY <2>1, <2>2, <2>3 DEF Stage
  <2>8. Files'
    BY <1>1, <1>2, <1>3, <2>1, <2>3 DEF Files
  <2>9. Halts'
    BY <1>1, <1>2, <2>2 DEF Halts
  <2>. QED BY <2>5, <2>6, <2>7, <2>8, <2>9 DEF IInv
<1>5. CASE ~(open[s] = 1 /\ s \in removed)
  <2>1. UNCHANGED <<removed, call>> /\ (s \in removed => open'[s] > 0)
    BY <1>1, <1>3, <1>5
  <2>2. Inodes' = Inodes /\ Live' = Live /\ Zeroing' = Zeroing /\ InFlight' = InFlight /\ InUse' = InUse
    BY <1>1, <2>1, SameInUse DEF Live, Inodes, Zeroing, InFlight
  <2>3. Trees'
    BY <1>1, <1>2, <2>2, TreesKept
  <2>4. TypeOK'
    BY <1>1, <1>2, <1>3, <2>1 DEF TypeOK
  <2>5. Stage'
    BY <1>1, <1>2, <2>1 DEF Stage
  <2>6. Files'
    BY <1>1, <1>2, <1>3, <2>1, <2>2 DEF Files
  <2>7. Halts'
    BY <1>1, <1>2, <2>1 DEF Halts
  <2>. QED BY <2>3, <2>4, <2>5, <2>6, <2>7 DEF IInv
<1>. QED BY <1>4, <1>5

(* dir_remove: the file stays while it is open, and is freed otherwise. *)
LEMMA RemoveKeeps ==
    ASSUME IInv, NEW n \in Names, dir_remove(n)
    PROVE  IInv'
<1>. DEFINE s == dir[n]
<1>1. /\ power \in {"on", "saved"} /\ call = IDLE /\ call.pc = "idle" /\ s # 0
      /\ dir' = [dir EXCEPT ![n] = 0]
      /\ \/ /\ open[s] = 0
            /\ call' = [IDLE EXCEPT !.pc = "free", !.s = s] /\ UNCHANGED removed
         \/ open[s] # 0 /\ removed' = removed \cup {s} /\ UNCHANGED call
      /\ UNCHANGED <<disk, free_map, open, creates, saved, power, torn, recent, lost, boots>>
  BY DEF dir_remove, Runs, Machine, IInv, Stage
<1>2. TypeOK /\ Stage /\ Files /\ Trees /\ Halts /\ s \in Inodes /\ s \in Sectors
  BY <1>1, WhatLives DEF IInv
<1>3. /\ dir' \in [Names -> Sectors \cup {0}] /\ dir'[n] = 0
      /\ \A m \in Names : m # n => dir'[m] = dir[m] /\ dir'[m] # s
      /\ s \notin removed /\ 0 \notin removed
  BY <1>1, <1>2, Layout DEF TypeOK, Files
<1>4. CASE open[s] = 0
  <2>1. /\ call' = [IDLE EXCEPT !.pc = "free", !.s = s] /\ removed' = removed
    BY <1>1, <1>4
  <2>2. call' \in Calls /\ call'.pc = "free" /\ call'.s = s
    BY <1>2, <2>1, CallsToMake DEF IDLE
  <2>3. Inodes' = Inodes \ {s}
    BY <1>1, <1>3, <2>1 DEF Inodes
  <2>4. Live' = Live /\ Zeroing' = Zeroing /\ InFlight' = InFlight /\ InUse' = InUse
    <3>1. Live' = Live /\ Zeroing' = Zeroing /\ InFlight' = InFlight
      BY <1>1, <1>2, <2>2, <2>3 DEF Live, Zeroing, InFlight
    <3>. QED BY <1>1, <1>2, <2>2, <3>1, FreedIsInUse
  <2>5. Trees'
    BY <1>1, <1>2, <2>4, TreesKept
  <2>6. TypeOK'
    BY <1>1, <1>2, <1>3, <2>1, <2>2 DEF TypeOK, Calls
  <2>7. Stage'
    BY <1>1, <1>2, <1>4, <2>2, <2>3 DEF Stage
  <2>8. Files'
    <3>1. \A t \in Sectors : open'[t] > 0 => t \in Inodes'
      BY <1>1, <1>2, <1>4, <2>3 DEF Files
    <3>. QED BY <1>2, <1>3, <2>1, <3>1 DEF Files
  <2>9. Halts'
    BY <1>1, <1>2, <2>2 DEF Halts
  <2>. QED BY <2>5, <2>6, <2>7, <2>8, <2>9 DEF IInv
<1>5. CASE open[s] # 0
  <2>1. removed' = removed \cup {s} /\ call' = call /\ open[s] > 0
    BY <1>1, <1>2, <1>5, InodeAssumption DEF TypeOK
  <2>2. Inodes' = Inodes
    BY <1>1, <1>3, <2>1 DEF Inodes
  <2>3. Live' = Live /\ Zeroing' = Zeroing /\ InFlight' = InFlight /\ InUse' = InUse
    BY <1>1, <2>1, <2>2, SameInUse DEF Live, Zeroing, InFlight
  <2>4. Trees'
    BY <1>1, <1>2, <2>3, TreesKept
  <2>5. TypeOK'
    BY <1>1, <1>2, <1>3, <2>1 DEF TypeOK
  <2>6. Stage'
    BY <1>1, <1>2, <2>1 DEF Stage
  <2>7. Files'
    BY <1>1, <1>2, <1>3, <2>1, <2>2, Layout DEF Files
  <2>8. Halts'
    BY <1>1, <1>2, <2>1 DEF Halts
  <2>. QED BY <2>4, <2>5, <2>6, <2>7, <2>8 DEF IInv
<1>. QED BY <1>4, <1>5

(* deallocate_inode: what is freed is of the one file, which is no more when its
   inode goes. *)
LEMMA DeallocateKeeps ==
    ASSUME IInv, NEW x \in Sectors, deallocate_inode(x)
    PROVE  IInv'
<1>. DEFINE s == call.s
<1>1. /\ power \in {"on", "saved"} /\ call.pc = "free"
      /\ x \in BlocksOf(s) /\ x \in free_map
      /\ x = s => BlocksOf(s) \cap free_map = {x}
      /\ free_map' = free_map \ {x} /\ recent' = recent \ {x}
      /\ call' = IF x = s THEN IDLE ELSE call
      /\ UNCHANGED <<disk, dir, open, removed, creates, saved, power, torn, lost, boots>>
  BY DEF deallocate_inode, Runs, Machine
<1>2. /\ TypeOK /\ Stage /\ Files /\ Trees /\ Halts
      /\ s \in Live /\ s \notin Inodes /\ Live = Inodes \cup {s}
      /\ InUse = free_map \cup BlocksOf(s)
  BY <1>1 DEF IInv, Stage, Live, InUse
<1>3. CASE x = s
  <2>1. /\ call' \in Calls /\ call' = IDLE /\ call'.pc = "idle"
        /\ Inodes' = Inodes /\ Live' = Live \ {s} /\ InFlight = {} /\ InFlight' = {}
        /\ Zeroing' = Zeroing
    BY <1>1, <1>2, <1>3, IdleIsACall DEF Live, Inodes, InFlight, Zeroing
  <2>2. InUse' = InUse \ BlocksOf(s)
    <3>1. InUse' = free_map'
      BY <2>1, InUseIsMapped
    <3>. QED BY <1>1, <1>2, <1>3, <3>1
  <2>3. Trees'
    BY <1>1, <1>2, <2>1, <2>2, TreesWithoutFile
  <2>4. TypeOK'
    BY <1>1, <1>2, <2>1 DEF TypeOK, Calls
  <2>5. Stage'
    BY <1>1, <2>1 DEF Stage
  <2>6. Files'
    BY <1>1, <1>2, <2>1 DEF Files
  <2>7. Halts'
    BY <1>1, <1>2, <2>1 DEF Halts
  <2>. QED BY <2>3, <2>4, <2>5, <2>6, <2>7 DEF IInv
<1>4. CASE x # s
  <2>1. call' = call
    BY <1>1, <1>4
  <2>2. Live' = Live /\ Inodes' = Inodes /\ Zeroing' = Zeroing /\ InFlight' = InFlight
    BY <1>1, <2>1 DEF Live, Inodes, InFlight, Zeroing
  <2>3. InUse' = InUse
    <3>1. BlocksOf(call.s)' = BlocksOf(call.s)
      BY <1>1, <2>1, <2>2, SameBlocks
    <3>2. InUse' = free_map' \cup BlocksOf(call.s)'
      BY <1>1, <2>1 DEF InUse
    <3>. QED BY <1>1, <1>2, <3>1, <3>2
  <2>4. Trees'
    BY <1>1, <1>2, <2>2, <2>3, TreesKept
  <2>5. TypeOK'
    BY <1>1, <1>2, <2>1 DEF TypeOK
  <2>6. Stage'
    BY <1>1, <1>2, <2>1, <2>2 DEF Stage
  <2>7. Files'
    BY <1>1, <1>2, <2>2 DEF Files
  <2>8. Halts'
    BY <1>1, <1>2 DEF Halts
  <2>. QED BY <2>4, <2>5, <2>6, <2>7, <2>8 DEF IInv
<1>. QED BY <1>3, <1>4

(* free_map_close and PowerOff: files do not change. *)
LEMMA HaltKeeps ==
    ASSUME IInv, free_map_close \/ PowerOff
    PROVE  IInv'
<1>1. /\ power \in {"on", "saved"}
      /\ \/ saved' = free_map /\ power' = "saved" /\ recent' = {} /\ torn' = torn
         \/ /\ saved' = saved /\ power' = "off" /\ recent' = recent
            /\ torn' = (call.pc = "zero" /\ ToPointers)
      /\ UNCHANGED <<disk, dir, free_map, open, removed, call, lost, boots, creates>>
  BY DEF free_map_close, PowerOff
<1>2. TypeOK /\ Stage /\ Files /\ Trees /\ Halts
  BY DEF IInv
<1>3. Live' = Live /\ Zeroing' = Zeroing /\ InFlight' = InFlight /\ InUse' = InUse
  BY <1>1, SameInUse DEF Live, Inodes, Zeroing, InFlight
<1>4. Trees'
  BY <1>1, <1>2, <1>3, TreesKept
<1>5. TypeOK'
  BY <1>1, <1>2 DEF TypeOK
<1>6. Stage'
  <2>1. \A s, b : PointerBlocks(s)' = PointerBlocks(s) /\ WordsOf(s, b)' = WordsOf(s, b)
    BY <1>1, <1>3, SameBlocks DEF WordsOf
  <2>. QED BY <1>1, <1>2, <2>1 DEF Stage, Inodes
<1>7. Files'
  BY <1>1, <1>2 DEF Files, Inodes
<1>8. Halts'
  <2>1. (call.pc = "zero" /\ ToPointers)' <=> call.pc = "zero" /\ ToPointers
    BY <1>1 DEF ToPointers
  <2>. QED BY <1>1, <1>2, <2>1 DEF Halts
<1>. QED BY <1>4, <1>5, <1>6, <1>7, <1>8 DEF IInv

(* A machine that goes off while a block of data is being made comes on with
   the pointers that its files had. *)
LEMMA DataIsNotFollowed ==
    ASSUME Trees, Stage, Files, TypeOK, ~(call.pc = "zero" /\ ToPointers),
           disk' = disk, Zeroing' = 0, NEW s \in Live
    PROVE  /\ Same(s)
           /\ Zeroing \notin PointerBlocks(s)
           /\ Zeroing # 0 => /\ Zeroing \notin {disk[s][DIRECT_CNT + 1], disk[s][DIRECT_CNT + 2]}
                             /\ disk[s][DIRECT_CNT + 2] # 0 =>
                                  \A v \in 1 .. PTRS_PER_SECTOR : Zeroing # disk[disk[s][DIRECT_CNT + 2]][v]
<1>. DEFINE ind == disk[s][DIRECT_CNT + 1]
            dbl == disk[s][DIRECT_CNT + 2]
<1>0. s \in Sectors /\ s # 0
  BY WhatLives, Layout
<1>1. CASE Zeroing = 0
  <2>1. Same(s)
    BY <1>1, UntouchedIsSame DEF Trees
  <2>2. 0 \notin PointerBlocks(s)
    BY <1>0, PointerBlocksAre
  <2>. QED BY <1>1, <2>1, <2>2
<1>2. CASE Zeroing # 0
  <2>. DEFINE f == Zeroing
              c == call.s
              b == call.at
              w == call.word
  <2>1. /\ f \in Sectors /\ f # 0 /\ c \in Live /\ b \in PointerBlocks(c) /\ w \in WordsOf(c, b)
        /\ disk[b][w] = f
        /\ ~(b = c /\ w > DIRECT_CNT) /\ b # disk[c][DIRECT_CNT + 2]
    BY <1>2, WhatLives DEF Zeroing, Stage, ToPointers
  <2>2. /\ DIRECT_CNT + 1 \in WordsOf(s, s) /\ DIRECT_CNT + 2 \in WordsOf(s, s)
        /\ s \in PointerBlocks(s) /\ DIRECT_CNT \in Nat
    BY Layout, PointerBlocksAre DEF WordsOf
  <2>. HIDE DEF f, b, w, c
  <2>3. ASSUME NEW v \in {DIRECT_CNT + 1, DIRECT_CNT + 2}, disk[s][v] = f
        PROVE  FALSE
    <3>1. b = s /\ w = v
      BY <2>1, <2>2, <2>3 DEF Trees, Forest
    <3>2. s = c
      BY <2>1, <3>1, InodesApart DEF Trees
    <3>. QED BY <2>1, <2>2, <3>1, <3>2
  <2>4. dbl # 0 => dbl \in PointerBlocks(s) /\ dbl # s
    <3>1. dbl # Zeroing
      BY <2>3 DEF f
    <3>. QED BY <3>1, PointerBlocksAre, InodeIsNotBelowItself DEF Trees
  <2>5. ASSUME dbl # 0, NEW v \in 1 .. PTRS_PER_SECTOR, disk[dbl][v] = f
        PROVE  FALSE
    <3>1. v \in WordsOf(s, dbl)
      BY <2>4, <2>5 DEF WordsOf
    <3>2. b = dbl
      BY <2>1, <2>4, <2>5, <3>1 DEF Trees, Forest
    <3>3. s = c
      BY <2>1, <2>4, <2>5, <3>2, BlocksApart DEF Trees
    <3>. QED BY <2>1, <3>2, <3>3
  <2>6. f # s
    <3>1. PointedTo(f)
      BY <2>1 DEF PointedTo
    <3>. QED BY <3>1 DEF Trees, Roots
  <2>7. \A x : x \in PointerBlocks(s)' <=> x \in PointerBlocks(s)
    BY <2>3, <2>4, <2>5, PointerBlocksAre, PointerBlocksWillBe DEF f
  <2>8. PointerBlocks(s)' = PointerBlocks(s)
    BY <2>7
  <2>9. f \notin PointerBlocks(s)
    BY <2>6, PointerBlocksAre DEF f
  <2>. QED BY <2>3, <2>5, <2>8, <2>9 DEF f, Same
<1>. QED BY <1>1, <1>2

(* free_map_open: what was in use for nothing is lost, and nothing else is. *)
LEMMA BootKeeps ==
    ASSUME IInv, free_map_open
    PROVE  IInv'
<1>1. TypeOK /\ Stage /\ Files /\ Trees /\ Halts
  BY DEF IInv
<1>2. /\ power = "off" /\ boots < MaxBoots /\ boots' = boots + 1
      /\ \/ /\ power' = "damaged" /\ UNCHANGED <<free_map, open, removed, call, recent, lost>>
         \/ /\ ~torn /\ InFiles \subseteq saved
            /\ power' = "on" /\ free_map' = saved /\ open' = [s \in Sectors |-> 0] /\ removed' = {}
            /\ call' = IDLE /\ lost' = saved \ InFiles /\ recent' = {}
      /\ UNCHANGED <<disk, dir, saved, torn, creates>>
  BY DEF free_map_open
<1>3. boots' \in 0 .. MaxBoots
  <2>1. boots \in 0 .. MaxBoots /\ MaxBoots \in Nat
    BY <1>1, InodeAssumption DEF TypeOK
  <2>. QED BY <1>2, <2>1
<1>4. CASE power' = "damaged" /\ UNCHANGED <<free_map, open, removed, call, recent, lost>>
  <2>1. Live' = Live /\ Zeroing' = Zeroing /\ InFlight' = InFlight /\ InUse' = InUse
    BY <1>2, <1>4, SameInUse DEF Live, Inodes, Zeroing, InFlight
  <2>2. Trees'
    BY <1>1, <1>2, <1>4, <2>1, TreesKept
  <2>3. TypeOK'
    BY <1>1, <1>2, <1>3, <1>4 DEF TypeOK
  <2>4. Stage'
    <3>1. \A s, b : PointerBlocks(s)' = PointerBlocks(s) /\ WordsOf(s, b)' = WordsOf(s, b)
      BY <1>2, <2>1, SameBlocks DEF WordsOf
    <3>. QED BY <1>1, <1>2, <1>4, <3>1 DEF Stage, Inodes
  <2>5. Files'
    BY <1>1, <1>2, <1>4 DEF Files, Inodes
  <2>6. Halts'
    BY <1>1, <1>2, <1>4 DEF Halts
  <2>. QED BY <2>2, <2>3, <2>4, <2>5, <2>6 DEF IInv
<1>5. CASE /\ ~torn /\ InFiles \subseteq saved
           /\ power' = "on" /\ free_map' = saved /\ open' = [s \in Sectors |-> 0] /\ removed' = {}
           /\ call' = IDLE /\ lost' = saved \ InFiles /\ recent' = {}
  <2>1. call' \in Calls /\ call'.pc = "idle" /\ ~(call.pc = "zero" /\ ToPointers)
    BY <1>1, <1>2, <1>5, IdleIsACall DEF Halts
  <2>2. /\ Live' = {dir[n] : n \in Names} \ {0} /\ Inodes' = Live' /\ Live' \subseteq Live
        /\ Zeroing' = 0 /\ InFlight' = {} /\ InUse' = saved
    BY <1>2, <1>5, <2>1, InUseIsMapped DEF Live, Inodes, Zeroing, InFlight
  <2>3. InFiles = UNION {BlocksOf(s) : s \in Live'}
    BY <2>2 DEF InFiles
  <2>4. Trees'
    <3>1. \A s \in Live : Same(s)
      BY <1>1, <1>2, <2>1, <2>2, DataIsNotFollowed
    <3>. QED BY <1>1, <1>2, <1>5, <2>2, <2>3, <3>1, TreesReopened
  <2>5. TypeOK'
    <3>1. open' \in [Sectors -> 0 .. MaxOpen]
      BY <1>5, InodeAssumption
    <3>. QED BY <1>1, <1>2, <1>3, <1>5, <2>1, <3>1 DEF TypeOK, Calls
  <2>6. Stage'
    BY <1>5, <2>1 DEF Stage
  <2>7. Files'
    BY <1>1, <1>2, <1>5 DEF Files
  <2>8. Halts'
    BY <1>2, <1>5 DEF Halts
  <2>. QED BY <2>4, <2>5, <2>6, <2>7, <2>8 DEF IInv
<1>. QED BY <1>2, <1>4, <1>5

(* The disk that was formatted. *)
LEMMA InitHasIt ==
    ASSUME Init
    PROVE  IInv
<1>1. /\ disk = [s \in Sectors |-> ZEROS] /\ dir = [n \in Names |-> 0]
      /\ free_map = {} /\ saved = {} /\ open = [s \in Sectors |-> 0] /\ removed = {}
      /\ call = IDLE /\ power = "on" /\ torn = FALSE /\ recent = {} /\ lost = {}
      /\ boots = 0 /\ creates = 0
  BY DEF Init
<1>2. call \in Calls /\ call.pc = "idle"
  BY <1>1, IdleIsACall
<1>3. Inodes = {} /\ Live = {} /\ InFlight = {} /\ InUse = {}
  BY <1>1, <1>2 DEF Inodes, Live, InFlight, InUse
<1>4. disk \in [Sectors -> [1 .. PTRS_PER_SECTOR -> Int] \cup [1 .. LENGTH -> Int]]
  BY <1>1 DEF ZEROS
<1>5. Trees
  BY <1>1, <1>3, <1>4 DEF Trees, Shapes, Forest, Roots, Accounted, PointedTo
<1>6. TypeOK
  <2>1. DOMAIN disk = Sectors /\ \A s \in Sectors : Len(disk[s]) \in {PTRS_PER_SECTOR, LENGTH}
    BY <1>4, DisksHaveBlocks
  <2>2. open \in [Sectors -> 0 .. MaxOpen] /\ boots \in 0 .. MaxBoots /\ creates \in 0 .. MaxCreates
    BY <1>1, InodeAssumption
  <2>. QED BY <1>1, <1>2, <2>1, <2>2 DEF TypeOK, Calls
<1>7. Stage
  BY <1>1, <1>2 DEF Stage
<1>8. Files
  BY <1>1 DEF Files
<1>9. Halts
  BY <1>1 DEF Halts
<1>. QED BY <1>5, <1>6, <1>7, <1>8, <1>9 DEF IInv

(* Nothing changes. *)
LEMMA StutterKeeps ==
    ASSUME IInv, UNCHANGED vars
    PROVE  IInv'
<1>1. UNCHANGED <<disk, dir, free_map, saved, open, removed, call, power, torn, recent, lost,
                  boots, creates>>
  BY DEF vars
<1>2. TypeOK /\ Stage /\ Files /\ Trees /\ Halts
  BY DEF IInv
<1>3. Live' = Live /\ Zeroing' = Zeroing /\ InFlight' = InFlight /\ InUse' = InUse
  BY <1>1, SameInUse DEF Live, Inodes, Zeroing, InFlight
<1>4. Trees'
  BY <1>1, <1>2, <1>3, TreesKept
<1>5. TypeOK'
  BY <1>1, <1>2 DEF TypeOK
<1>6. Stage'
  <2>1. \A s, b : PointerBlocks(s)' = PointerBlocks(s) /\ WordsOf(s, b)' = WordsOf(s, b)
    BY <1>1, <1>3, SameBlocks DEF WordsOf
  <2>. QED BY <1>1, <1>2, <2>1 DEF Stage, Inodes
<1>7. Files' /\ Halts'
  BY <1>1, <1>2 DEF Files, Inodes, Halts, ToPointers
<1>. QED BY <1>4, <1>5, <1>6, <1>7 DEF IInv

---------------------------------------------------------------------------
(* What is read of a file *)

(* Of numbers, with a minus in front of a literal. *)
LEMMA MinusLiteral == -0 = 0 /\ -(-1) = 1
<1>1. \A x \in Int : -x \in Int /\ x + (-x) = 0
  OBVIOUS
<1>2. \A y \in Int : (0 + y = 0 => y = 0) /\ (-1 + y = 0 => y = 1)
  OBVIOUS
<1>3. 0 \in Int /\ -1 \in Int
  OBVIOUS
<1>4. -0 = 0
  <2>1. -0 \in Int /\ 0 + (-0) = 0
    BY <1>1, <1>3, Zenon
  <2>. QED BY <1>2, <2>1, Zenon
<1>5. -(-1) = 1
  <2>1. -(-1) \in Int /\ -1 + (-(-1)) = 0
    BY <1>1, <1>3, Zenon
  <2>. QED BY <1>2, <2>1, Zenon
<1>. QED BY <1>4, <1>5, Zenon

(* A pointer is followed in the same way after a step. *)
LEMMA FollowWillBe ==
    ASSUME NEW s, NEW words, Len(words) \in 1 .. 3, NEW k \in 0 .. Len(words) - 1,
           NEW x, Follow(s, words, k)' = x
    PROVE  Follow(s, words, k + 1)' = Down(x, words[k + 1])'
<1>1. k \in {0, 1, 2}
  <2>1. PICK n \in 1 .. 3 : n = Len(words)
    OBVIOUS
  <2>. QED BY <2>1
<1>2. CASE k = 0
  BY <1>2 DEF Follow
<1>3. CASE k = 1
  BY <1>3 DEF Follow
<1>4. CASE k = 2
  BY <1>4 DEF Follow
<1>. QED BY <1>1, <1>2, <1>3, <1>4

(* A step leaves the way to a block if it leaves the pointers of the file, but
   for one to a sector that is yet to be zeroed. *)
LEMMA EndKept ==
    ASSUME Trees, NEW s \in Live, NEW i \in Nat,
           \A b \in PointerBlocks(s) :
             /\ DOMAIN disk'[b] = DOMAIN disk[b]
             /\ \A w \in WordsOf(s, b) : \/ disk'[b][w] = disk[b][w]
                                         \/ disk[b][w] = 0 /\ disk'[b][w] = Zeroing',
           Zeroing' \in {0, Zeroing} \/ (Zeroing' \notin Live /\ ~PointedTo(Zeroing')),
           Zeroing' = Zeroing \/ Zeroing = 0 \/ (Zeroing' = 0 /\ disk'[Zeroing] = ZEROS),
           NEW words, words = calculate_indices(i)
    PROVE  LET n == Len(words)
           IN  \/ Follow(s, words, n)' = Follow(s, words, n)
               \/ Follow(s, words, n) = 0 /\ Follow(s, words, n)' \in {0, Zeroing'}
<1>1. PICK n : n = Len(words)
  OBVIOUS
<1>. DEFINE F(k) == Follow(s, words, k)
<1>2. n \in 1 .. 3 /\ Len(words) \in 1 .. 3 /\ 0 \in 0 .. n
  <2>1. Len(calculate_indices(i)) \in 1 .. 3
    BY Ways
  <2>2. n \in 1 .. 3
    BY <1>1, <2>1
  <2>. QED BY <1>1, <2>2
<1>3. \A x : (x \in Live \/ PointedTo(x)) /\ x = Zeroing' => Zeroing' \in {0, Zeroing}
  OBVIOUS
<1>4. \A v : ZEROS[v] = 0 \/ v \notin DOMAIN ZEROS
  BY DEF ZEROS
<1>5. ASSUME NEW k \in 0 .. n - 1, F(k) \notin {0, Zeroing}
      PROVE  /\ F(k) \in PointerBlocks(s)
             /\ words[k + 1] \in DOMAIN disk[F(k)] =>
                  words[k + 1] \in WordsOf(s, F(k)) /\ disk[F(k)][words[k + 1]] = F(k + 1)
             /\ F(k) \in Live \/ PointedTo(F(k))
  <2>1. /\ F(k) \in PointerBlocks(s)
        /\ words[k + 1] \in DOMAIN disk[F(k)] =>
             words[k + 1] \in WordsOf(s, F(k)) /\ disk[F(k)][words[k + 1]] = F(k + 1)
    BY <1>1, <1>5, OnTheWay
  <2>. QED BY <2>1, BelowInode DEF Trees
<1>6. ASSUME NEW k \in 0 .. n - 1, NEW x, NEW y, F(k) = x, F(k)' = y,
             x = y \/ (x = 0 /\ y \in {0, Zeroing'})
      PROVE  F(k + 1)' = F(k + 1) \/ (F(k + 1) = 0 /\ F(k + 1)' \in {0, Zeroing'})
  <2>. DEFINE w == words[k + 1]
  <2>1. F(k + 1) = Down(x, w) /\ F(k + 1)' = Down(y, w)'
    <3>1. k \in 0 .. Len(words) - 1
      BY <1>1
    <3>2. F(k + 1) = Down(x, w)
      BY <1>2, <1>6, <3>1, FollowOne
    <3>3. F(k + 1)' = Down(y, w)'
      BY <1>2, <1>6, <3>1, FollowWillBe
    <3>. QED BY <3>2, <3>3
  <2>. HIDE DEF F
  <2>2. CASE x = 0
    BY <1>6, <2>1, <2>2 DEF Down
  <2>3. CASE x # 0 /\ x = Zeroing
    <3>1. Down(x, w) = 0 /\ Down(x, w)' = 0
      BY <1>4, <2>3 DEF Down
    <3>. QED BY <1>6, <2>1, <2>3, <3>1
  <2>4. CASE x \notin {0, Zeroing}
    <3>1. /\ y = x /\ x \in PointerBlocks(s)
          /\ w \in DOMAIN disk[x] => w \in WordsOf(s, x)
          /\ x \notin {0, Zeroing, Zeroing'}
      BY <1>3, <1>5, <1>6, <2>4
    <3>2. Down(x, w)' = Down(x, w) \/ (Down(x, w) = 0 /\ Down(x, w)' = Zeroing')
      BY <3>1 DEF Down
    <3>. QED BY <2>1, <3>1, <3>2
  <2>. QED BY <2>2, <2>3, <2>4
<1>7. \A k \in 0 .. n : F(k)' = F(k) \/ (F(k) = 0 /\ F(k)' \in {0, Zeroing'})
  <2>. DEFINE P(k) == F(k)' = F(k) \/ (F(k) = 0 /\ F(k)' \in {0, Zeroing'})
  <2>1. P(0)
    BY DEF Follow
  <2>2. \A k \in 0 .. n - 1 : P(k) => P(k + 1)
    BY <1>6
  <2>. HIDE DEF P
  <2>3. \A k \in 0 .. n : P(k)
    <3>1. n = 1 \/ n = 2 \/ n = 3
      BY <1>2
    <3>2. CASE n = 1
      BY <2>1, <2>2, <3>2
    <3>3. CASE n = 2
      BY <2>1, <2>2, <3>3
    <3>4. CASE n = 3
      BY <2>1, <2>2, <3>4
    <3>. QED BY <3>1, <3>2, <3>3, <3>4
  <2>. QED BY <2>3 DEF P
<1>. QED BY <1>1, <1>2, <1>7

(* What is read of block i of a file, but that a block that is being made reads
   as one that is not there. *)
Made(s, i) ==
    LET words == calculate_indices(i)
        block == Follow(s, words, Len(words))
    IN  IF block \in {0, Zeroing} THEN 0 ELSE -disk[block][1]

(* That is what is read when no block is being made, before a step and after. *)
LEMMA MadeIsContent ==
    /\ Zeroing = 0 => \A s, i : Content(s, i) = Made(s, i)
    /\ Zeroing' = 0 => \A s, i : Content(s, i)' = Made(s, i)'
BY DEF Content, Made

(* A step leaves what is read of block i of a file if it leaves the block and
   the pointers of the file, but for one to a sector that is yet to be zeroed. *)
LEMMA ContentKept ==
    ASSUME Trees, NEW s \in Live, NEW i \in Nat,
           \A b \in PointerBlocks(s) :
             /\ DOMAIN disk'[b] = DOMAIN disk[b]
             /\ \A w \in WordsOf(s, b) : \/ disk'[b][w] = disk[b][w]
                                         \/ disk[b][w] = 0 /\ disk'[b][w] = Zeroing',
           Zeroing' \in {0, Zeroing} \/ (Zeroing' \notin Live /\ ~PointedTo(Zeroing')),
           Zeroing' = Zeroing \/ Zeroing = 0 \/ (Zeroing' = 0 /\ disk'[Zeroing] = ZEROS),
           LET e == Follow(s, calculate_indices(i), Len(calculate_indices(i)))
           IN  e \notin {0, Zeroing} => disk'[e][1] = disk[e][1]
    PROVE  Made(s, i)' = Made(s, i)
<1>1. PICK words, n : words = calculate_indices(i) /\ n = Len(words)
  OBVIOUS
<1>. DEFINE F(k) == Follow(s, words, k)
<1>2. n \in 1 .. 3 /\ Len(words) \in 1 .. 3 /\ 0 \in 0 .. n
  <2>1. Len(calculate_indices(i)) \in 1 .. 3
    BY Ways
  <2>2. n \in 1 .. 3
    BY <1>1, <2>1
  <2>. QED BY <1>1, <2>2
<1>3. \A x : (x \in Live \/ PointedTo(x)) /\ x = Zeroing' => Zeroing' \in {0, Zeroing}
  OBVIOUS
<1>4. PICK e, d : e = F(n) /\ d = F(n)'
  OBVIOUS
<1>5. e = d \/ (e = 0 /\ d \in {0, Zeroing'})
  BY <1>1, <1>4, EndKept
<1>6. /\ Made(s, i) = IF e \in {0, Zeroing} THEN 0 ELSE -disk[e][1]
      /\ Made(s, i)' = IF d \in {0, Zeroing'} THEN 0 ELSE -disk'[d][1]
  BY <1>1, <1>4 DEF Made
<1>7. e \notin {0, Zeroing} => e # Zeroing'
  <2>. SUFFICES ASSUME e \notin {0, Zeroing}
                PROVE  PointedTo(e)
    BY <1>3
  <2>1. PICK k \in 0 .. n - 1 : k + 1 = n
    <3>1. n - 1 \in 0 .. n - 1 /\ (n - 1) + 1 = n
      BY <1>2
    <3>. QED BY <3>1
  <2>2. e = Down(F(k), words[n])
    <3>1. F(k + 1) = Down(F(k), words[k + 1])
      <4>1. k \in 0 .. Len(words) - 1
        BY <1>1
      <4>. QED BY <1>2, <4>1, FollowOne
    <3>. QED BY <1>4, <2>1, <3>1
  <2>3. F(k) \notin {0, Zeroing} /\ words[k + 1] \in DOMAIN disk[F(k)]
    BY <2>1, <2>2 DEF Down
  <2>4. /\ F(k) \in PointerBlocks(s) /\ words[k + 1] \in WordsOf(s, F(k))
        /\ disk[F(k)][words[k + 1]] = F(k + 1)
    BY <1>1, <2>3, OnTheWay
  <2>5. F(k + 1) = e
    BY <1>4, <2>1
  <2>6. e # 0
    OBVIOUS
  <2>. HIDE DEF F
  <2>. QED BY <2>4, <2>5, <2>6 DEF PointedTo
<1>8. CASE e \notin {0, Zeroing}
  <2>1. disk'[e][1] = disk[e][1]
    BY <1>1, <1>4, <1>8
  <2>. QED BY <1>5, <1>6, <1>7, <1>8, <2>1
<1>9. CASE e = 0
  BY <1>5, <1>6, <1>9
<1>10. CASE e # 0 /\ e = Zeroing /\ Zeroing' # Zeroing
  <2>1. -disk'[e][1] = 0
    <3>1. 1 \in 1 .. PTRS_PER_SECTOR
      BY Layout
    <3>2. disk'[e] = ZEROS /\ ZEROS[1] = 0
      BY <1>10, <3>1 DEF ZEROS
    <3>3. disk'[e][1] = 0
      BY <3>2
    <3>. QED BY <3>3, MinusLiteral, Zenon
  <2>. QED BY <1>5, <1>6, <1>10, <2>1
<1>11. CASE e = Zeroing /\ Zeroing' = Zeroing
  BY <1>5, <1>6, <1>11
<1>. QED BY <1>8, <1>9, <1>10, <1>11

(* The block whose word leads to the end is reached through the inode alone, or
   through the block the doubly indirect pointer leads to. *)
LEMMA LastBlock ==
    ASSUME Trees, NEW s \in Live, NEW i \in Nat,
           Follow(s, calculate_indices(i), Len(calculate_indices(i)) - 1) \notin {0, Zeroing}
    PROVE  LET words == calculate_indices(i)
               n     == Len(words)
               b     == Follow(s, words, n - 1)
               dbl   == disk[s][DIRECT_CNT + 2]
           IN  /\ b \in PointerBlocks(s)
               /\ n = 1 <=> b = s
               /\ n = 2 => b = disk[s][DIRECT_CNT + 1]
               /\ n = 3 => /\ dbl \in PointerBlocks(s) /\ dbl # s
                           /\ words[2] \in WordsOf(s, dbl) /\ disk[dbl][words[2]] = b
<1>. DEFINE words == calculate_indices(i)
            n     == Len(words)
            b     == Follow(s, words, n - 1)
            dbl   == disk[s][DIRECT_CNT + 2]
<1>1. /\ n \in 1 .. 3
      /\ n = 2 => words[1] = DIRECT_CNT + 1
      /\ n = 3 => words[1] = DIRECT_CNT + 2
  BY Ways
<1>2. n = 1 \/ n = 2 \/ n = 3
  BY <1>1
<1>3. b \in PointerBlocks(s) /\ (n = 1 <=> b = s)
  <2>1. PICK k \in 0 .. n - 1 : k = n - 1 /\ (k = 0 <=> n = 1)
    <3>1. n - 1 \in 0 .. n - 1 /\ (n - 1 = 0 <=> n = 1)
      BY <1>1
    <3>. QED BY <3>1
  <2>2. Follow(s, words, k) \in PointerBlocks(s) /\ (k = 0 <=> Follow(s, words, k) = s)
    <3>1. Trees /\ s \in Live /\ i \in Nat
      OBVIOUS
    <3>2. k \in 0 .. Len(calculate_indices(i)) - 1
      BY <2>1
    <3>3. Follow(s, calculate_indices(i), k) \notin {0, Zeroing}
      BY <2>1
    <3>. HIDE DEF words, n, b, dbl
    <3>4. words = calculate_indices(i)
      BY DEF words
    <3>. QED BY <3>1, <3>2, <3>3, <3>4, OnTheWay
  <2>. QED BY <2>1, <2>2
<1>4. CASE n = 2
  <2>1. b = Down(s, words[1])
    BY <1>4 DEF Follow
  <2>2. b = disk[s][words[1]]
    BY <2>1 DEF Down
  <2>. QED BY <1>1, <1>3, <1>4, <2>2
<1>5. CASE n = 3
  <2>. DEFINE at == Follow(s, words, 1)
  <2>1. at = Down(s, words[1]) /\ b = Down(at, words[2])
    BY <1>5 DEF Follow
  <2>2. at \notin {0, Zeroing} /\ words[2] \in DOMAIN disk[at]
    BY <2>1 DEF Down
  <2>3. 1 \in 0 .. n - 1 /\ 2 \in 0 .. n - 1 /\ 1 # 0
    BY <1>5
  <2>4. /\ at \in PointerBlocks(s) /\ at # s
        /\ words[1 + 1] \in WordsOf(s, at) /\ disk[at][words[1 + 1]] = Follow(s, words, 1 + 1)
    BY <2>2, <2>3, OnTheWay
  <2>5. at = disk[s][words[1]]
    BY <2>1, <2>2 DEF Down
  <2>. QED BY <1>1, <1>3, <1>5, <2>4, <2>5
<1>. QED BY <1>2, <1>3, <1>4, <1>5

(* Two blocks of files are not in the same sector. *)
LEMMA EndsApart ==
    ASSUME Trees, Zeroing = 0, NEW s \in Live, NEW t \in Live, NEW i \in Nat, NEW j \in Nat,
           Follow(s, calculate_indices(i), Len(calculate_indices(i))) # 0,
           Follow(s, calculate_indices(i), Len(calculate_indices(i)))
             = Follow(t, calculate_indices(j), Len(calculate_indices(j)))
    PROVE  s = t /\ i = j
<1>. DEFINE W == calculate_indices(i)
            V == calculate_indices(j)
<1>1. PICK n, m, b, c, dbl : /\ n = Len(W) /\ b = Follow(s, W, n - 1)
                             /\ m = Len(V) /\ c = Follow(t, V, m - 1)
                             /\ dbl = disk[s][DIRECT_CNT + 2]
  OBVIOUS
<1>2. /\ b \in PointerBlocks(s) /\ W[n] \in WordsOf(s, b)
      /\ c \in PointerBlocks(t) /\ V[m] \in WordsOf(t, c)
      /\ disk[b][W[n]] # 0 /\ disk[b][W[n]] = disk[c][V[m]]
  BY <1>1, AtTheEnd
<1>3. b = c /\ W[n] = V[m]
  BY <1>2 DEF Trees, Forest
<1>4. s = t
  BY <1>2, <1>3, BlocksApart DEF Trees
<1>5. b \notin {0, Zeroing}
  <2>1. b \in Sectors
    BY <1>2 DEF Trees, Shapes, InodeBlock, PointerBlock
  <2>. QED BY <2>1, Layout
<1>6. /\ n \in 1 .. 3 /\ m \in 1 .. 3
      /\ n = 1 => W[n] = i + 1
      /\ m = 1 => V[m] = j + 1
      /\ n = 2 => i = DIRECT_CNT
      /\ m = 2 => j = DIRECT_CNT
      /\ n = 3 => W[1] = DIRECT_CNT + 2
      /\ m = 3 => V[1] = DIRECT_CNT + 2
  <2>1. ASSUME NEW k \in Nat
        PROVE  LET U == calculate_indices(k) IN
               /\ Len(U) \in 1 .. 3
               /\ Len(U) = 1 => U[1] = k + 1
               /\ Len(U) = 2 => k = DIRECT_CNT
               /\ Len(U) = 3 => U[1] = DIRECT_CNT + 2
    <3>1. DIRECT_CNT \in Nat /\ (k < DIRECT_CNT \/ k = DIRECT_CNT \/ k > DIRECT_CNT)
      BY Layout
    <3>. QED BY <3>1, FirstWord, Ways
  <2>. HIDE DEF W, V
  <2>2. W = calculate_indices(i) /\ V = calculate_indices(j)
    BY DEF W, V
  <2>. QED BY <1>1, <2>1, <2>2
<1>7. /\ n = 1 <=> b = s
      /\ n = 2 => b = disk[s][DIRECT_CNT + 1]
      /\ n = 3 => dbl \in PointerBlocks(s) /\ dbl # s /\ W[2] \in WordsOf(s, dbl) /\ disk[dbl][W[2]] = b
  <2>1. Follow(s, W, Len(W) - 1) \notin {0, Zeroing}
    BY <1>1, <1>5
  <2>2. /\ Len(W) = 1 <=> Follow(s, W, Len(W) - 1) = s
        /\ Len(W) = 2 => Follow(s, W, Len(W) - 1) = disk[s][DIRECT_CNT + 1]
        /\ Len(W) = 3 => /\ disk[s][DIRECT_CNT + 2] \in PointerBlocks(s)
                         /\ disk[s][DIRECT_CNT + 2] # s
                         /\ W[2] \in WordsOf(s, disk[s][DIRECT_CNT + 2])
                         /\ disk[disk[s][DIRECT_CNT + 2]][W[2]] = Follow(s, W, Len(W) - 1)
    BY <2>1, LastBlock
  <2>. QED BY <1>1, <2>2
<1>8. /\ m = 1 <=> b = s
      /\ m = 2 => b = disk[s][DIRECT_CNT + 1]
      /\ m = 3 => dbl \in PointerBlocks(s) /\ dbl # s /\ V[2] \in WordsOf(s, dbl) /\ disk[dbl][V[2]] = b
  <2>1. Follow(s, V, Len(V) - 1) \notin {0, Zeroing}
    BY <1>1, <1>3, <1>4, <1>5
  <2>2. /\ Len(V) = 1 <=> Follow(s, V, Len(V) - 1) = s
        /\ Len(V) = 2 => Follow(s, V, Len(V) - 1) = disk[s][DIRECT_CNT + 1]
        /\ Len(V) = 3 => /\ disk[s][DIRECT_CNT + 2] \in PointerBlocks(s)
                         /\ disk[s][DIRECT_CNT + 2] # s
                         /\ V[2] \in WordsOf(s, disk[s][DIRECT_CNT + 2])
                         /\ disk[disk[s][DIRECT_CNT + 2]][V[2]] = Follow(s, V, Len(V) - 1)
    BY <2>1, LastBlock
  <2>. QED BY <1>1, <1>3, <1>4, <2>2
<1>9. i # j => \E k \in (1 .. n) \cap (1 .. m) : W[k] # V[k]
  BY <1>1, WaysPart
<1>. HIDE DEF W, V
<1>10. CASE n = 1 \/ m = 1
  BY <1>3, <1>4, <1>6, <1>7, <1>8, <1>10
<1>11. ASSUME (n = 2 /\ m = 3) \/ (n = 3 /\ m = 2)
       PROVE  FALSE
  <2>1. DIRECT_CNT + 1 \in WordsOf(s, s) /\ s \in PointerBlocks(s)
    BY Layout, PointerBlocksAre DEF WordsOf
  <2>. QED BY <1>5, <1>7, <1>8, <1>11, <2>1 DEF Trees, Forest
<1>12. CASE n = 2 /\ m = 2
  BY <1>4, <1>6, <1>12
<1>13. CASE n = 3 /\ m = 3
  <2>1. W[1] = V[1] /\ W[3] = V[3]
    BY <1>3, <1>6, <1>13
  <2>2. W[2] = V[2]
    BY <1>5, <1>7, <1>8, <1>13 DEF Trees, Forest
  <2>3. \A k \in (1 .. n) \cap (1 .. m) : k = 1 \/ k = 2 \/ k = 3
    BY <1>13
  <2>. QED BY <1>4, <1>9, <2>1, <2>2, <2>3
<1>14. n \in {1, 2, 3} /\ m \in {1, 2, 3}
  BY <1>6
<1>. QED BY <1>10, <1>11, <1>12, <1>13, <1>14

(* What is read of file s stays the same. *)
Kept(s) ==
    /\ disk'[s][LENGTH] = disk[s][LENGTH]
    /\ \A i \in Blocks : Made(s, i)' = Made(s, i)

(* The blocks of a file are numbers the proofs on calculate_indices are about. *)
LEMMA BlocksAreNumbers == Blocks \subseteq Nat
BY Layout DEF Blocks

(* Nothing is written. *)
LEMMA KeptWhenNothingWritten ==
    ASSUME disk' = disk, Zeroing' = Zeroing, NEW s
    PROVE  Kept(s)
<1>1. \A b, w : Down(b, w)' = Down(b, w)
  BY DEF Down
<1>2. \A words, k : Follow(s, words, k)' = Follow(s, words, k)
  BY DEF Follow, Down
<1>3. \A i : Made(s, i)' = Made(s, i)
  BY <1>2 DEF Made
<1>. QED BY <1>3 DEF Kept

(* One block is written, of which nothing is read. *)
LEMMA KeptElsewhere ==
    ASSUME Trees, Zeroing = 0, Zeroing' = 0, NEW s \in Live, NEW i \in Nat, NEW x,
           \A b \in Sectors \ {x} : disk'[b] = disk[b], x \notin PointerBlocks(s),
           Follow(s, calculate_indices(i), Len(calculate_indices(i))) # x
    PROVE  Made(s, i)' = Made(s, i)
<1>. DEFINE e == Follow(s, calculate_indices(i), Len(calculate_indices(i)))
<1>1. \A b \in PointerBlocks(s) : disk'[b] = disk[b]
  BY DEF Trees, Shapes, InodeBlock, PointerBlock
<1>2. e # 0 => e \in Sectors
  BY AtTheEnd
<1>3. e \notin {0, Zeroing} => disk'[e][1] = disk[e][1]
  BY <1>2
<1>. HIDE DEF e
<1>. QED BY <1>1, <1>3, ContentKept DEF e

(* inode_create: the sector in flight is of no file. *)
LEMMA CreationKeepsFiles ==
    ASSUME IInv, inode_create, NEW s \in Inodes
    PROVE  Kept(s)
<1>. DEFINE f == call.next
<1>1. /\ call.pc = "inode" /\ call \in Calls /\ disk' = [disk EXCEPT ![f] = NewInode]
      /\ call' = [call EXCEPT !.pc = "entry"]
  BY DEF inode_create, Runs, IInv, Stage
<1>2. /\ Trees /\ s \in Live /\ f \in Sectors /\ InFlight = {f} /\ Zeroing = 0 /\ Zeroing' = 0
  BY <1>1 DEF IInv, Stage, Live, InFlight, Zeroing, Calls
<1>3. \A b \in Sectors \ {f} : disk'[b] = disk[b]
  BY <1>1, <1>2 DEF Trees, Shapes
<1>4. f \notin PointerBlocks(s) /\ ~PointedTo(f) /\ f # 0 /\ s # f /\ s \in Sectors
  BY <1>2, BelowInode, Layout DEF Trees, Roots, Shapes, InodeBlock
<1>5. ASSUME NEW i \in Blocks
      PROVE  Made(s, i)' = Made(s, i)
  <2>1. i \in Nat
    BY BlocksAreNumbers
  <2>2. Follow(s, calculate_indices(i), Len(calculate_indices(i))) # f
    BY <1>2, <1>4, <2>1, AtTheEnd
  <2>. QED BY <1>2, <1>3, <1>4, <2>1, <2>2, KeptElsewhere
<1>. QED BY <1>3, <1>4, <1>5 DEF Kept

(* WritePointer: zeros are read of a block that is pointed to and yet to be
   zeroed, as when there was none. *)
LEMMA PointingKeepsFiles ==
    ASSUME IInv, WritePointer, NEW s \in Inodes
    PROVE  Kept(s)
<1>. DEFINE b == call.at
            w == call.word
            f == call.next
<1>1. /\ call.pc = "point" /\ disk' = [disk EXCEPT ![b][w] = f]
      /\ call' = [call EXCEPT !.pc = "zero"]
  BY DEF WritePointer, Runs
<1>2. /\ Trees /\ Stage /\ call \in Calls /\ call.s \in Live
  BY <1>1, WhileWriting
<1>3. /\ s \in Live /\ InFlight = {f} /\ Zeroing = 0 /\ Zeroing' = f /\ f \in Sectors
      /\ b \in PointerBlocks(call.s) /\ w \in WordsOf(call.s, b) /\ disk[b][w] = 0
  BY <1>1, <1>2 DEF Stage, Live, InFlight, Zeroing, Calls
<1>4. f \notin Live /\ ~PointedTo(f)
  BY <1>2, <1>3 DEF Trees, Roots
<1>5. /\ b \in Sectors /\ disk'[b] = [disk[b] EXCEPT ![w] = f]
      /\ \A c \in Sectors \ {b} : disk'[c] = disk[c]
      /\ \A v : v # w => disk'[b][v] = disk[b][v]
      /\ w \in DOMAIN disk[b] /\ disk'[b][w] = f
  <2>1. b \in Sectors /\ w \in DOMAIN disk[b] /\ DOMAIN disk = Sectors
    BY <1>2, <1>3, Layout DEF Trees, Shapes, InodeBlock, PointerBlock, WordsOf
  <2>. QED BY <1>1, <2>1
<1>6. \A c \in PointerBlocks(s) :
        /\ DOMAIN disk'[c] = DOMAIN disk[c]
        /\ \A v \in WordsOf(s, c) : \/ disk'[c][v] = disk[c][v]
                                    \/ disk[c][v] = 0 /\ disk'[c][v] = Zeroing'
  <2>1. \A c \in PointerBlocks(s) : c \in Sectors
    BY <1>2, <1>3 DEF Trees, Shapes, InodeBlock, PointerBlock
  <2>. QED BY <1>3, <1>5, <2>1
<1>7. ASSUME NEW i \in Blocks
      PROVE  Made(s, i)' = Made(s, i)
  <2>. DEFINE e == Follow(s, calculate_indices(i), Len(calculate_indices(i)))
  <2>1. i \in Nat
    BY BlocksAreNumbers
  <2>2. e # 0 => e \in Sectors /\ e # b
    BY <1>2, <1>3, <2>1, AtTheEnd
  <2>3. e \notin {0, Zeroing} => disk'[e][1] = disk[e][1]
    BY <1>5, <2>2
  <2>. HIDE DEF e
  <2>. QED BY <1>2, <1>3, <1>4, <1>6, <2>1, <2>3, ContentKept DEF e
<1>8. disk'[s][LENGTH] = disk[s][LENGTH]
  <2>1. s \in Sectors
    BY <1>2, <1>3 DEF Trees, Shapes, InodeBlock
  <2>2. b = s => w # LENGTH
    <3>1. b = s => s = call.s
      BY <1>2, <1>3, InodesApart DEF Trees
    <3>. QED BY <1>3, <3>1, Layout DEF WordsOf
  <2>. QED BY <1>5, <2>1, <2>2
<1>. QED BY <1>7, <1>8 DEF Kept

(* set_to_zeros: zeros are read of the block before and after. *)
LEMMA ZeroingKeepsFiles ==
    ASSUME IInv, set_to_zeros, NEW s \in Inodes
    PROVE  Kept(s)
<1>. DEFINE f == call.next
<1>1. /\ call.pc = "zero" /\ disk' = [disk EXCEPT ![f] = ZEROS]
      /\ call' = [call EXCEPT !.pc = "block", !.at = 0, !.word = 0, !.next = 0]
  BY DEF set_to_zeros, Runs
<1>2. /\ Trees /\ Stage /\ call \in Calls /\ call.s \in Live
  BY <1>1, WhileWriting
<1>3. /\ s \in Live /\ Zeroing = f /\ Zeroing' = 0 /\ f \in Sectors /\ f # 0
      /\ call.at \in PointerBlocks(call.s) /\ call.word \in WordsOf(call.s, call.at)
      /\ disk[call.at][call.word] = f
  BY <1>1, <1>2, Layout DEF Stage, Live, Zeroing, Calls
<1>4. f \notin Live
  BY <1>2, <1>3 DEF Trees, Roots, PointedTo
<1>5. disk'[f] = ZEROS /\ \A c \in Sectors \ {f} : disk'[c] = disk[c]
  BY <1>1, <1>2, <1>3 DEF Trees, Shapes
<1>6. \A c \in PointerBlocks(s) : disk'[c] = disk[c]
  <2>1. \A c \in PointerBlocks(s) : c \in Sectors /\ c # f
    BY <1>2, <1>3, <1>4, PointerBlocksAre DEF Trees, Shapes, InodeBlock, PointerBlock
  <2>. QED BY <1>5, <2>1
<1>7. ASSUME NEW i \in Blocks
      PROVE  Made(s, i)' = Made(s, i)
  <2>. DEFINE e == Follow(s, calculate_indices(i), Len(calculate_indices(i)))
  <2>1. i \in Nat
    BY BlocksAreNumbers
  <2>2. e \notin {0, Zeroing} => disk'[e][1] = disk[e][1]
    BY <1>1, <1>3
  <2>. HIDE DEF e
  <2>. QED BY <1>2, <1>3, <1>5, <1>6, <2>1, <2>2, ContentKept DEF e
<1>8. s \in PointerBlocks(s)
  BY PointerBlocksAre
<1>. QED BY <1>6, <1>7, <1>8 DEF Kept

(* WriteBlock writes within the bounds of the blocks of pointers. *)
LEMMA EndsInBounds ==
    ASSUME Trees, Zeroing = 0, NEW s \in Live, NEW i \in Nat,
           Follow(s, calculate_indices(i), Len(calculate_indices(i))) # 0
    PROVE  InBounds(i)
<1>. DEFINE words == calculate_indices(i)
            b     == Follow(s, words, Len(words) - 1)
<1>1. PICK n : n = Len(words)
  OBVIOUS
<1>2. n \in 1 .. 3
  BY <1>1, Ways
<1>3. b \in PointerBlocks(s) /\ words[n] \in WordsOf(s, b) /\ b \notin {0, Zeroing}
  <2>1. b \in PointerBlocks(s) /\ words[n] \in WordsOf(s, b)
    BY <1>1, AtTheEnd
  <2>2. b \in Sectors
    BY <2>1 DEF Trees, Shapes, InodeBlock, PointerBlock
  <2>. QED BY <2>1, <2>2, Layout
<1>4. /\ n = 1 <=> b = s
      /\ n = 3 => words[2] \in 1 .. PTRS_PER_SECTOR
  <2>1. /\ Len(words) = 1 <=> b = s
        /\ Len(words) = 3 => /\ disk[s][DIRECT_CNT + 2] # s
                             /\ words[2] \in WordsOf(s, disk[s][DIRECT_CNT + 2])
    BY <1>3, LastBlock
  <2>. QED BY <1>1, <2>1 DEF WordsOf
<1>5. n # 1 => words[n] \in 1 .. PTRS_PER_SECTOR
  BY <1>3, <1>4 DEF WordsOf
<1>6. PTRS_PER_SECTOR \in Nat
  BY Layout
<1>7. ASSUME NEW k \in 2 .. n
      PROVE  words[k] <= PTRS_PER_SECTOR
  <2>1. n # 1 /\ (k = n \/ (k = 2 /\ n = 3))
    BY <1>2
  <2>2. words[k] \in 1 .. PTRS_PER_SECTOR
    BY <1>4, <1>5, <2>1
  <2>. HIDE DEF words
  <2>. QED BY <1>6, <2>2
<1>. QED BY <1>1, <1>7 DEF InBounds

(* WriteBlock: one block of one file is what was written, and nothing else is
   read differently. *)
LEMMA WritingStoresOneBlock ==
    ASSUME IInv, WriteBlock, NEW t, NEW j, t = call.s, j = call.i
    PROVE  /\ t \in Inodes /\ j \in Blocks
           /\ Made(t, j)' = 1
           /\ \A s \in Inodes :
                /\ disk'[s][LENGTH] = disk[s][LENGTH]
                /\ \A i \in Blocks : s # t \/ i # j => Made(s, i)' = Made(s, i)
<1>1. PICK words, n, d : words = calculate_indices(j) /\ n = Len(words) /\ d = Follow(t, words, n)
  OBVIOUS
<1>2. /\ call.pc = "block" /\ Depth(t, words) = n
      /\ disk' = [disk EXCEPT ![d] = Data(1)]
      /\ call' = [call EXCEPT !.i = @ + 1,
                              !.pc = IF call.i + 1 = call.end THEN "extend" ELSE "block"]
  BY <1>1 DEF WriteBlock, Runs
<1>3. /\ Trees /\ Stage /\ call \in Calls /\ t \in Live /\ t # 0 /\ Live = Inodes
  BY <1>1, <1>2, WhileWriting
<1>4. Zeroing = 0 /\ Zeroing' = 0
  BY <1>2, <1>3 DEF Calls, Zeroing
<1>5. j \in Nat /\ j \in 0 .. INODE_SPAN - 1
  <2>1. call.end \in 0 .. INODE_SPAN
    BY <1>3 DEF Calls
  <2>2. j \in Nat
    BY <1>3 DEF Calls
  <2>3. j < call.end
    BY <1>2, <1>3 DEF Stage
  <2>. QED BY <2>1, <2>2, <2>3, Layout
<1>6. d # 0 /\ n \in 1 .. 3
  <2>1. Len(words) \in 1 .. 3
    BY <1>1, <1>5, Ways
  <2>. QED BY <1>1, <1>2, <1>3, <2>1, DepthIs
<1>7. d \in Sectors /\ d \notin Live /\ \A s \in Live : d \notin PointerBlocks(s)
  BY <1>1, <1>3, <1>4, <1>5, <1>6, AtTheEnd
<1>8. disk'[d] = Data(1) /\ \A b \in Sectors \ {d} : disk'[b] = disk[b]
  BY <1>2, <1>3, <1>7 DEF Trees, Shapes
<1>9. \A s \in Inodes : disk'[s][LENGTH] = disk[s][LENGTH]
  BY <1>3, <1>7, <1>8 DEF Trees, Shapes, InodeBlock
<1>10. j \in Blocks
  BY <1>1, <1>3, <1>4, <1>5, <1>6, EndsInBounds DEF Blocks
<1>11. ASSUME NEW s \in Inodes, NEW i \in Blocks, s # t \/ i # j
       PROVE  Made(s, i)' = Made(s, i)
  <2>1. i \in Nat
    BY BlocksAreNumbers
  <2>2. Follow(s, calculate_indices(i), Len(calculate_indices(i))) # d
    BY <1>1, <1>3, <1>4, <1>5, <1>6, <1>11, <2>1, EndsApart
  <2>. QED BY <1>3, <1>4, <1>7, <1>8, <2>1, <2>2, KeptElsewhere
<1>12. Made(t, j)' = 1
  <2>1. \A b \in PointerBlocks(t) : disk'[b] = disk[b]
    BY <1>3, <1>7, <1>8 DEF Trees, Shapes, InodeBlock, PointerBlock
  <2>2. Follow(t, words, n)' = d
    BY <1>1, <1>3, <1>4, <1>5, <1>6, <2>1, EndKept
  <2>3. Made(t, j)' = -disk'[d][1]
    BY <1>1, <1>4, <1>6, <2>2 DEF Made
  <2>4. -disk'[d][1] = 1
    <3>1. 1 \in 1 .. PTRS_PER_SECTOR
      BY Layout
    <3>2. disk'[d][1] = -1
      BY <1>8, <3>1 DEF Data
    <3>. QED BY <3>2, MinusLiteral, Zenon
  <2>. QED BY <2>3, <2>4
<1>. QED BY <1>3, <1>9, <1>10, <1>11, <1>12

(* extend_file: of one file, the length is moved. *)
LEMMA ExtendingMovesTheLength ==
    ASSUME IInv, extend_file, NEW t, t = call.s
    PROVE  /\ t \in Inodes
           /\ disk[t][LENGTH] \in Int /\ disk'[t][LENGTH] \in 0 .. INODE_SPAN
           /\ disk'[t][LENGTH] >= disk[t][LENGTH]
           /\ \A s \in Inodes : /\ s # t => disk'[s][LENGTH] = disk[s][LENGTH]
                                /\ \A i \in Blocks : Made(s, i)' = Made(s, i)
<1>. DEFINE len == Max({disk[t][LENGTH], call.end})
<1>1. /\ call.pc = "extend" /\ disk' = [disk EXCEPT ![t][LENGTH] = len] /\ call' = IDLE
  BY DEF extend_file, Runs
<1>2. /\ Trees /\ Stage /\ call \in Calls /\ t \in Live /\ t \in Sectors /\ Live = Inodes
  BY <1>1, WhileWriting
<1>3. Zeroing = 0 /\ Zeroing' = 0
  BY <1>1, IdleIsACall DEF Zeroing
<1>4. disk[t][LENGTH] \in 0 .. INODE_SPAN /\ InodeBlock(t)
  BY <1>2 DEF Trees, Shapes, InodeBlock
<1>5. len \in 0 .. INODE_SPAN /\ len >= disk[t][LENGTH]
  <2>1. call.end \in 0 .. INODE_SPAN
    BY <1>2 DEF Calls
  <2>2. disk[t][LENGTH] \in Int /\ call.end \in Int
    BY <1>4, <2>1, Layout
  <2>. QED BY <1>4, <2>1, <2>2, MaxOfTwo
<1>. HIDE DEF len
<1>6. /\ disk'[t] = [disk[t] EXCEPT ![LENGTH] = len]
      /\ disk'[t][LENGTH] = len
      /\ \A b \in Sectors \ {t} : disk'[b] = disk[b]
  <2>1. disk'[t] = [disk[t] EXCEPT ![LENGTH] = len] /\ \A b \in Sectors \ {t} : disk'[b] = disk[b]
    BY <1>1, <1>2 DEF Trees, Shapes
  <2>2. LENGTH \in DOMAIN disk[t]
    BY <1>4, Layout DEF InodeBlock
  <2>. QED BY <2>1, <2>2
<1>7. ASSUME NEW s \in Inodes, NEW i \in Blocks
      PROVE  Made(s, i)' = Made(s, i)
  <2>. DEFINE e == Follow(s, calculate_indices(i), Len(calculate_indices(i)))
  <2>1. i \in Nat
    BY BlocksAreNumbers
  <2>2. e # 0 => e \in Sectors /\ e # t
    BY <1>2, <1>3, <2>1, AtTheEnd
  <2>3. e \notin {0, Zeroing} => disk'[e][1] = disk[e][1]
    BY <1>6, <2>2
  <2>. HIDE DEF e
  <2>4. \A b \in PointerBlocks(s) :
          /\ DOMAIN disk'[b] = DOMAIN disk[b]
          /\ \A w \in WordsOf(s, b) : disk'[b][w] = disk[b][w]
    <3>1. \A b \in PointerBlocks(s) : b \in Sectors /\ (b = t => s = t)
      BY <1>2, InodesApart DEF Trees, Shapes, InodeBlock, PointerBlock
    <3>2. \A w \in WordsOf(t, t) : disk'[t][w] = disk[t][w]
      BY <1>6, Layout DEF WordsOf
    <3>. QED BY <1>6, <3>1, <3>2
  <2>. QED BY <1>2, <1>3, <2>1, <2>3, <2>4, ContentKept DEF e
<1>8. \A s \in Inodes : s \in Sectors
  BY <1>2 DEF Trees, Shapes, InodeBlock
<1>. QED BY <1>2, <1>4, <1>5, <1>6, <1>7, <1>8, Layout

---------------------------------------------------------------------------
(* The steps of FileSpec *)

(* What files hold, which files stands for in FileSpec. *)
Held == [s \in Inodes |-> [len  |-> disk[s][LENGTH],
                           data |-> [i \in Blocks |-> Content(s, i)]]]

(* The machine is on. *)
On == power \notin {"off", "damaged"}

(* What a step may change that FileSpec is about. *)
LEMMA OutOfSight ==
    ASSUME UNCHANGED <<disk, dir, removed, call>>
    PROVE  UNCHANGED <<dir, Held, Unsettled>>
<1>1. Inodes' = Inodes /\ Zeroing' = Zeroing
  BY DEF Inodes, Zeroing
<1>2. \A b, w : Down(b, w)' = Down(b, w)
  BY <1>1 DEF Down
<1>3. \A s, words, k : Follow(s, words, k)' = Follow(s, words, k)
  BY <1>2 DEF Follow, Down
<1>4. \A s, i : Content(s, i)' = Content(s, i)
  BY <1>3 DEF Content
<1>5. \A s, i : BeingMade(s, i)' <=> BeingMade(s, i)
  BY <1>1, <1>3 DEF BeingMade
<1>6. Unsettled' = Unsettled
  BY <1>1, <1>5 DEF Unsettled
<1>. QED BY <1>1, <1>4, <1>6 DEF Held

(* No block is being made. *)
LEMMA NoneUnsettled ==
    /\ Zeroing = 0 => Unsettled = {}
    /\ Zeroing' = 0 => Unsettled' = {}
<1>1. /\ Zeroing = 0 => \A s, i : ~BeingMade(s, i)
      /\ Zeroing' = 0 => \A s, i : ~BeingMade(s, i)'
  BY DEF BeingMade
<1>. QED BY <1>1 DEF Unsettled

(* A call that makes no block leaves it at that. *)
LEMMA SettledSteps ==
    ASSUME Zeroing = 0, Zeroing' = 0, On, On'
    PROVE  Abstract!Settled
<1>1. Unsettled = {} /\ Unsettled' = {}
  BY NoneUnsettled
<1>. QED BY <1>1 DEF Abstract!Settled, On

(* Files that are kept hold what they did. *)
LEMMA HeldByTheRest ==
    ASSUME Inodes' \subseteq Inodes, \A s \in Inodes' : Kept(s), Zeroing = 0, Zeroing' = 0
    PROVE  Held' = [s \in Inodes' |-> Held[s]]
BY MadeIsContent DEF Held, Kept

(* Some files go, none of which is to be kept. *)
LEMMA SomeFilesGo ==
    ASSUME Inodes' \subseteq Inodes, Held' = [s \in Inodes' |-> Held[s]],
           NEW kept, kept \cap Inodes \subseteq Inodes'
    PROVE  \E gone \in SUBSET ((DOMAIN Held) \ kept) :
             Held' = [s \in (DOMAIN Held) \ gone |-> Held[s]]
<1>. DEFINE gone == Inodes \ Inodes'
<1>1. DOMAIN Held = Inodes
  BY DEF Held
<1>2. gone \in SUBSET ((DOMAIN Held) \ kept) /\ (DOMAIN Held) \ gone = Inodes'
  BY <1>1
<1>. HIDE DEF gone
<1>. QED BY <1>2

(* The steps that no one who reads files sees. *)
LEMMA QuietSteps ==
    ASSUME dir' = dir, Inodes' = Inodes, \A s \in Inodes : Kept(s), Zeroing = 0, Zeroing' = 0
    PROVE  UNCHANGED <<dir, Held, Unsettled>>
<1>1. Held' = [s \in Inodes |-> Held[s]]
  BY HeldByTheRest
<1>2. Held = [s \in Inodes |-> Held[s]]
  BY DEF Held
<1>3. Unsettled' = Unsettled
  BY NoneUnsettled
<1>. QED BY <1>1, <1>2, <1>3

(* A file that is new holds nothing. *)
LEMMA NewFileIsEmpty ==
    ASSUME NEW f, disk'[f] = NewInode, Zeroing' = 0, NEW i \in Nat
    PROVE  Content(f, i)' = 0
<1>1. PICK words, n : words = calculate_indices(i) /\ n = Len(words)
  OBVIOUS
<1>2. n \in 1 .. 3 /\ words[1] \in 1 .. SECTOR_CNT
  BY <1>1, Ways
<1>3. NewInode[words[1]] = 0
  BY <1>2, Layout DEF NewInode
<1>4. \A w : Down(0, w)' = 0
  BY DEF Down
<1>5. Down(f, words[1])' = 0
  BY <1>3 DEF Down
<1>6. Follow(f, words, 1)' = 0 /\ Follow(f, words, 2)' = 0 /\ Follow(f, words, 3)' = 0
  BY <1>4, <1>5 DEF Follow
<1>7. n = 1 \/ n = 2 \/ n = 3
  BY <1>2
<1>. QED BY <1>1, <1>6, <1>7 DEF Content

(* A name is added for the file just made: it appears, empty. *)
LEMMA AddIsCreate ==
    ASSUME IInv, dir_add
    PROVE  Abstract!Next
<1>1. PICK n, f : n = call.name /\ f = call.next
  OBVIOUS
<1>2. /\ call.pc = "entry" /\ dir' = [dir EXCEPT ![n] = f] /\ call' = IDLE
      /\ UNCHANGED <<disk, removed>> /\ On /\ On'
  BY <1>1 DEF dir_add, Runs, Machine, On
<1>3. TypeOK /\ Stage /\ Files /\ Trees
  BY DEF IInv
<1>4. /\ n \in Names /\ f \in Sectors /\ dir[n] = 0 /\ f # 0 /\ disk[f] = NewInode
  BY <1>1, <1>2, <1>3, Layout DEF Stage
<1>5. f \notin Inodes
  BY <1>1, <1>2, <1>3 DEF Trees, Roots, Live, InFlight
<1>6. Inodes' = Inodes \cup {f}
  <2>1. dir'[n] = f /\ \A m \in Names : m # n => dir'[m] = dir[m]
    BY <1>2, <1>3, <1>4 DEF TypeOK
  <2>. QED BY <1>2, <1>4, <2>1 DEF Inodes
<1>7. Zeroing = 0 /\ Zeroing' = 0
  BY <1>2, IdleIsACall DEF Zeroing
<1>8. Abstract!Empty = [len |-> 0, data |-> [i \in Blocks |-> 0]]
  BY DEF Abstract!Empty
<1>9. /\ disk'[f][LENGTH] = 0
      /\ \A i \in Blocks : Content(f, i)' = 0
  BY <1>2, <1>4, <1>7, BlocksAreNumbers, NewFileIsEmpty, Layout DEF NewInode
<1>10. Held' = [y \in (DOMAIN Held) \cup {f} |-> IF y = f THEN Abstract!Empty ELSE Held[y]]
  <2>1. \A s \in Inodes : Kept(s)
    BY <1>2, <1>7, KeptWhenNothingWritten
  <2>2. \A s \in Inodes : \A i \in Blocks : Content(s, i)' = Content(s, i)
    BY <1>7, <2>1, MadeIsContent DEF Kept
  <2>. QED BY <1>5, <1>6, <1>8, <1>9, <2>1, <2>2 DEF Held, Kept
<1>11. f \notin DOMAIN Held
  BY <1>5 DEF Held
<1>12. Abstract!Settled
  BY <1>2, <1>7, SettledSteps
<1>. QED BY <1>2, <1>4, <1>10, <1>11, <1>12 DEF Abstract!Next, Abstract!Create, Held

(* Writing a block stores it in one file and nowhere else. *)
LEMMA WriteIsChange ==
    ASSUME IInv, WriteBlock
    PROVE  Abstract!Next
<1>1. PICK t, j : t = call.s /\ j = call.i
  OBVIOUS
<1>0. /\ Zeroing = 0 /\ Zeroing' = 0 /\ On /\ On'
  BY DEF WriteBlock, Runs, Machine, On, Zeroing, IInv, Stage, Calls
<1>2. /\ t \in Inodes /\ j \in Blocks
      /\ Content(t, j)' = 1
      /\ \A s \in Inodes :
           /\ disk'[s][LENGTH] = disk[s][LENGTH]
           /\ \A i \in Blocks : s # t \/ i # j => Content(s, i)' = Content(s, i)
  BY <1>0, <1>1, WritingStoresOneBlock, MadeIsContent
<1>3. UNCHANGED <<dir, removed>> /\ Abstract!Settled
  BY <1>0, SettledSteps DEF WriteBlock
<1>4. Inodes' = Inodes
  BY <1>3 DEF Inodes
<1>5. Held' = [Held EXCEPT ![t].data[j] = 1]
  <2>. DEFINE data == [i \in Blocks |-> Content(t, i)]
  <2>1. [i \in Blocks |-> Content(t, i)]' = [data EXCEPT ![j] = 1]
    BY <1>2
  <2>2. Held[t] = [len |-> disk[t][LENGTH], data |-> data]
    BY <1>2 DEF Held
  <2>3. Held'[t] = [len |-> disk[t][LENGTH], data |-> [data EXCEPT ![j] = 1]]
    BY <1>2, <1>4, <2>1 DEF Held
  <2>. HIDE DEF data
  <2>4. Held'[t] = [Held[t] EXCEPT !.data = [@ EXCEPT ![j] = 1]]
    BY <2>2, <2>3
  <2>5. \A s \in Inodes : s # t => Held'[s] = Held[s]
    <3>1. \A s \in Inodes : s # t => \A i \in Blocks : Content(s, i)' = Content(s, i)
      BY <1>2
    <3>. QED BY <1>2, <1>4, <3>1 DEF Held
  <2>6. Held' = [s \in Inodes |-> Held'[s]] /\ DOMAIN Held = Inodes
    BY <1>4 DEF Held
  <2>. QED BY <2>4, <2>5, <2>6
<1>6. DOMAIN Held = Inodes
  BY DEF Held
<1>7. Held' \in {Abstract!Stored(x, i, v) : x \in DOMAIN Held, i \in Blocks, v \in {1}}
  <2>1. Held' = Abstract!Stored(t, j, 1)
    BY <1>5 DEF Abstract!Stored, Held
  <2>. QED BY <1>2, <1>6, <2>1
<1>. QED BY <1>3, <1>7 DEF Abstract!Next, Abstract!Change, Held

(* A file that is written past its end gets longer, once its blocks are there. *)
LEMMA ExtendIsChange ==
    ASSUME IInv, extend_file
    PROVE  Abstract!Next \/ UNCHANGED <<dir, Held, Unsettled>>
<1>0. /\ Zeroing = 0 /\ Zeroing' = 0 /\ On /\ On'
  BY DEF extend_file, Runs, Machine, On, Zeroing, IDLE
<1>1. PICK t : t = call.s
  OBVIOUS
<1>2. /\ t \in Inodes
      /\ disk[t][LENGTH] \in Int /\ disk'[t][LENGTH] \in 0 .. INODE_SPAN
      /\ disk'[t][LENGTH] >= disk[t][LENGTH]
      /\ \A s \in Inodes : /\ s # t => disk'[s][LENGTH] = disk[s][LENGTH]
                           /\ \A i \in Blocks : Made(s, i)' = Made(s, i)
  BY <1>1, ExtendingMovesTheLength
<1>3. UNCHANGED <<dir, removed>> /\ Abstract!Settled
  BY <1>0, SettledSteps DEF extend_file
<1>4. Inodes' = Inodes
  BY <1>3 DEF Inodes
<1>5. CASE disk'[t][LENGTH] = disk[t][LENGTH]
  BY <1>0, <1>2, <1>3, <1>4, <1>5, QuietSteps DEF Kept
<1>6. CASE disk'[t][LENGTH] # disk[t][LENGTH]
  <2>0. \A s \in Inodes : \A i \in Blocks : Content(s, i)' = Content(s, i)
    BY <1>0, <1>2, MadeIsContent
  <2>1. Held' = [Held EXCEPT ![t].len = disk'[t][LENGTH]]
    BY <1>2, <1>4, <2>0 DEF Held
  <2>2. DOMAIN Held = Inodes /\ Held[t].len = disk[t][LENGTH]
    BY <1>2 DEF Held
  <2>3. disk'[t][LENGTH] > disk[t][LENGTH]
    <3>1. disk'[t][LENGTH] \in Int
      BY <1>2, Layout
    <3>. QED BY <1>2, <1>6, <3>1
  <2>4. Held' \in Abstract!Extended(t)
    BY <1>2, <2>1, <2>2, <2>3 DEF Abstract!Extended, Held
  <2>5. \E x \in DOMAIN Held : Held' \in Abstract!Extended(x)
    BY <1>2, <2>2, <2>4
  <2>6. dir' = dir
    BY <1>3
  <2>7. Abstract!Change
    BY <1>3, <2>5, <2>6 DEF Abstract!Change, Held
  <2>. QED BY <2>7 DEF Abstract!Next
<1>. QED BY <1>5, <1>6

(* The last close of a removed file is when it goes. *)
LEMMA CloseIsChange ==
    ASSUME IInv, NEW t \in Sectors, inode_close(t)
    PROVE  Abstract!Next
<1>1. /\ call.pc = "idle" /\ UNCHANGED <<disk, dir>> /\ On /\ On'
      /\ call' = call \/ call' = [IDLE EXCEPT !.pc = "free", !.s = t]
      /\ removed' = removed \/ removed' = removed \ {t}
  BY DEF inode_close, Runs, Machine, On
<1>2. Zeroing = 0 /\ Zeroing' = 0 /\ Abstract!Settled
  BY <1>1, SettledSteps DEF Zeroing, IDLE
<1>3. \A s \in Inodes' : Kept(s)
  BY <1>1, <1>2, KeptWhenNothingWritten
<1>4. Inodes' \subseteq Inodes /\ {dir[n] : n \in Names} \cap Inodes \subseteq Inodes'
  <2>1. \A s \in Inodes : s # 0
    <3>1. removed \subseteq Sectors
      BY DEF IInv, TypeOK
    <3>. QED BY <3>1, Layout DEF Inodes
  <2>. QED BY <1>1, <2>1 DEF Inodes
<1>5. \E gone \in SUBSET ((DOMAIN Held) \ {dir[n] : n \in Names}) :
        Held' = [s \in (DOMAIN Held) \ gone |-> Held[s]]
  BY <1>2, <1>3, <1>4, HeldByTheRest, SomeFilesGo
<1>6. Held' \in Abstract!Without({dir[n] : n \in Names})
  BY <1>5 DEF Abstract!Without, Held
<1>. QED BY <1>1, <1>2, <1>6 DEF Abstract!Next, Abstract!Change, Held

(* A name goes: the file stays for those who have it open. *)
LEMMA RemoveIsUnlink ==
    ASSUME IInv, NEW n \in Names, dir_remove(n)
    PROVE  Abstract!Next
<1>1. PICK t : t = dir[n]
  OBVIOUS
<1>2. /\ call.pc = "idle" /\ t # 0 /\ dir' = [dir EXCEPT ![n] = 0] /\ UNCHANGED disk
      /\ On /\ On'
      /\ call' = call \/ call' = [IDLE EXCEPT !.pc = "free", !.s = t]
      /\ removed' = removed \/ removed' = removed \cup {t}
  BY <1>1 DEF dir_remove, Runs, Machine, On
<1>3. Zeroing = 0 /\ Zeroing' = 0 /\ Abstract!Settled
  BY <1>2, SettledSteps DEF Zeroing, IDLE
<1>4. \A s \in Inodes' : Kept(s)
  BY <1>2, <1>3, KeptWhenNothingWritten
<1>5. /\ dir'[n] = 0 /\ \A m \in Names : m # n => dir'[m] = dir[m]
      /\ t \in Inodes
  <2>1. TypeOK
    BY DEF IInv
  <2>. QED BY <1>1, <1>2, <2>1 DEF TypeOK, Inodes
<1>6. Inodes' \subseteq Inodes /\ (Inodes \ {t}) \cap Inodes \subseteq Inodes'
  <2>1. Inodes' \subseteq Inodes
    BY <1>2, <1>5 DEF Inodes
  <2>2. ASSUME NEW s \in Inodes \ {t}
        PROVE  s \in Inodes'
    <3>1. CASE s \in removed
      BY <1>2, <3>1 DEF Inodes
    <3>2. CASE s \notin removed
      <4>1. PICK m \in Names : s = dir[m] /\ s # 0
        BY <3>2 DEF Inodes
      <4>2. m # n /\ dir'[m] = s
        BY <1>1, <1>5, <4>1
      <4>. QED BY <4>1, <4>2 DEF Inodes
    <3>. QED BY <3>1, <3>2
  <2>. QED BY <2>1, <2>2
<1>7. \E gone \in SUBSET ((DOMAIN Held) \ (Inodes \ {t})) :
        Held' = [s \in (DOMAIN Held) \ gone |-> Held[s]]
  BY <1>3, <1>4, <1>6, HeldByTheRest, SomeFilesGo
<1>8. DOMAIN Held = Inodes
  BY DEF Held
<1>9. Held' \in Abstract!Without((DOMAIN Held) \ {dir[n]})
  BY <1>1, <1>7, <1>8 DEF Abstract!Without, Held
<1>. QED BY <1>1, <1>2, <1>3, <1>9 DEF Abstract!Next, Abstract!Unlink, Held

(* The blocks of files that are being made, one by one. *)
LEMMA WhatIsUnsettled ==
    ASSUME NEW s, NEW i \in Blocks
    PROVE  /\ <<s, i>> \in Unsettled <=> s \in Inodes /\ BeingMade(s, i)
           /\ <<s, i>> \in Unsettled' <=> s \in Inodes' /\ BeingMade(s, i)'
<1>1. <<s, i>> \in Unsettled <=> s \in Inodes /\ BeingMade(s, i)
  BY DEF Unsettled
<1>2. <<s, i>> \in Unsettled' <=> s \in Inodes' /\ BeingMade(s, i)'
  BY DEF Unsettled
<1>. QED BY <1>1, <1>2

(* A block on the way to which is the one that is being made reads as if it were
   not there; the others read as they do. *)
LEMMA UnsettledBlocks ==
    ASSUME NEW s, NEW i \in Blocks
    PROVE  /\ <<s, i>> \in Unsettled => Made(s, i) = 0
           /\ s \in Inodes /\ <<s, i>> \notin Unsettled => Made(s, i) = Content(s, i)
           /\ <<s, i>> \in Unsettled' => Made(s, i)' = 0
           /\ s \in Inodes' /\ <<s, i>> \notin Unsettled' => Made(s, i)' = Content(s, i)'
<1>1. PICK words, n : words = calculate_indices(i) /\ n = Len(words)
  OBVIOUS
<1>2. n \in 1 .. 3 /\ Len(words) \in 1 .. 3
  BY <1>1, BlocksAreNumbers, Ways
<1>. DEFINE F(k)  == Follow(s, words, k)
            E     == F(n) \in {0, Zeroing}
            Ep    == F(n)' \in {0, Zeroing'}
<1>3. /\ Made(s, i) = IF E THEN 0 ELSE -disk[F(n)][1]
      /\ Content(s, i) = IF F(n) = 0 THEN 0 ELSE -disk[F(n)][1]
      /\ Made(s, i)' = IF Ep THEN 0 ELSE -disk'[F(n)'][1]
      /\ Content(s, i)' = IF F(n)' = 0 THEN 0 ELSE -disk'[F(n)'][1]
  BY <1>1 DEF Made, Content
<1>4. /\ <<s, i>> \in Unsettled <=>
           s \in Inodes /\ Zeroing # 0 /\ \E k \in 1 .. n : F(k) = Zeroing
      /\ <<s, i>> \in Unsettled' <=>
           s \in Inodes' /\ Zeroing' # 0 /\ \E k \in 1 .. n : F(k)' = Zeroing'
  <2>1. /\ BeingMade(s, i) <=> Zeroing # 0 /\ \E k \in 1 .. n : F(k) = Zeroing
        /\ BeingMade(s, i)' <=> Zeroing' # 0 /\ \E k \in 1 .. n : F(k)' = Zeroing'
    BY <1>1 DEF BeingMade
  <2>2. Blocks' = Blocks
    BY DEF Blocks
  <2>. QED BY <2>1, WhatIsUnsettled
<1>5. \A w : \A b \in {0, Zeroing} : Down(b, w) = 0
  BY DEF Down
<1>6. \A w : \A b \in {0, Zeroing'} : Down(b, w)' = 0
  BY DEF Down
<1>7. \A k \in 0 .. n - 1 : F(k) \in {0, Zeroing} => F(k + 1) = 0
  <2>. SUFFICES ASSUME NEW k \in 0 .. n - 1, NEW x, x = F(k), x \in {0, Zeroing}
                PROVE  F(k + 1) = 0
    OBVIOUS
  <2>1. F(k + 1) = Down(x, words[k + 1])
    BY <1>1, <1>2, FollowOne
  <2>. QED BY <1>5, <2>1
<1>8. \A k \in 0 .. n - 1 : F(k)' \in {0, Zeroing'} => F(k + 1)' = 0
  <2>. SUFFICES ASSUME NEW k \in 0 .. n - 1, NEW x, x = F(k)', x \in {0, Zeroing'}
                PROVE  F(k + 1)' = 0
    OBVIOUS
  <2>1. F(k + 1)' = Down(x, words[k + 1])'
    BY <1>1, <1>2, FollowWillBe
  <2>. QED BY <1>6, <2>1
<1>9. (\E k \in 1 .. n : F(k) = Zeroing) => E
  <2>. HIDE DEF F
  <2>1. CASE n = 1
    BY <2>1
  <2>2. CASE n = 2
    BY <1>7, <2>2
  <2>3. CASE n = 3
    BY <1>7, <2>3
  <2>. QED BY <1>2, <2>1, <2>2, <2>3
<1>10. (\E k \in 1 .. n : F(k)' = Zeroing') => Ep
  <2>. DEFINE G(k) == F(k)'
  <2>. HIDE DEF F
  <2>1. \A k \in 0 .. n - 1 : G(k) \in {0, Zeroing'} => G(k + 1) = 0
    BY <1>8
  <2>. SUFFICES (\E k \in 1 .. n : G(k) = Zeroing') => G(n) \in {0, Zeroing'}
    OBVIOUS
  <2>. HIDE DEF G
  <2>2. CASE n = 1
    BY <2>2
  <2>3. CASE n = 2
    BY <2>1, <2>3
  <2>4. CASE n = 3
    BY <2>1, <2>4
  <2>. QED BY <1>2, <2>2, <2>3, <2>4
<1>11. n \in 1 .. n
  BY <1>2
<1>. HIDE DEF F
<1>. QED BY <1>3, <1>4, <1>9, <1>10, <1>11

(* WritePointer: room is made for blocks that were not there. *)
LEMMA PointerIsTake ==
    ASSUME IInv, WritePointer
    PROVE  Abstract!Next
<1>1. /\ Zeroing = 0 /\ On /\ On' /\ UNCHANGED <<dir, removed>>
  BY DEF WritePointer, Runs, Machine, On, Zeroing
<1>2. Inodes' = Inodes /\ Unsettled = {} /\ DOMAIN Held = Inodes /\ DOMAIN Held' = Inodes
  BY <1>1, NoneUnsettled DEF Inodes, Held
<1>3. \A s \in Inodes : Kept(s)
  BY PointingKeepsFiles
<1>4. ASSUME NEW s \in Inodes, NEW i \in Blocks
      PROVE  /\ <<s, i>> \in Unsettled' => Content(s, i) = 0
             /\ <<s, i>> \notin Unsettled' => Content(s, i)' = Content(s, i)
  BY <1>1, <1>2, <1>3, <1>4, UnsettledBlocks, MadeIsContent DEF Kept
<1>5. /\ \A s \in Inodes : /\ Held[s].len = disk[s][LENGTH]
                           /\ Held'[s].len = disk'[s][LENGTH]
                           /\ \A i \in Blocks : /\ Held[s].data[i] = Content(s, i)
                                                /\ Held'[s].data[i] = Content(s, i)'
  BY <1>2 DEF Held
<1>6. \A u \in Unsettled' : u[1] \in Inodes /\ u[2] \in Blocks /\ u = <<u[1], u[2]>>
  BY <1>2 DEF Unsettled
<1>7. \A u \in Unsettled' : u[1] \in DOMAIN Held /\ Held[u[1]].data[u[2]] = 0
  BY <1>2, <1>4, <1>5, <1>6
<1>8. Abstract!OthersKept
  <2>1. /\ DOMAIN Held' = DOMAIN Held
        /\ \A s \in DOMAIN Held : /\ Held'[s].len = Held[s].len
                                  /\ \A i \in Blocks :
                                       \/ <<s, i>> \in Unsettled \/ <<s, i>> \in Unsettled'
                                       \/ Held'[s].data[i] = Held[s].data[i]
    BY <1>2, <1>3, <1>4, <1>5 DEF Kept
  <2>. QED BY <2>1 DEF Abstract!OthersKept, Held
<1>9. Abstract!Take
  BY <1>1, <1>2, <1>7, <1>8 DEF Abstract!Take, Held, On
<1>. QED BY <1>9 DEF Abstract!Next

(* set_to_zeros: they are cleared. *)
LEMMA ZerosAreClear ==
    ASSUME IInv, set_to_zeros
    PROVE  Abstract!Next
<1>1. /\ Zeroing' = 0 /\ On /\ On' /\ UNCHANGED <<dir, removed>>
  BY DEF set_to_zeros, Runs, Machine, On, Zeroing, IInv, Stage, Calls
<1>2. Inodes' = Inodes /\ Unsettled' = {} /\ DOMAIN Held = Inodes /\ DOMAIN Held' = Inodes
  BY <1>1, NoneUnsettled DEF Inodes, Held
<1>3. \A s \in Inodes : Kept(s)
  BY ZeroingKeepsFiles
<1>4. ASSUME NEW s \in Inodes, NEW i \in Blocks
      PROVE  /\ <<s, i>> \in Unsettled => Content(s, i)' = 0
             /\ <<s, i>> \notin Unsettled => Content(s, i)' = Content(s, i)
  BY <1>1, <1>2, <1>3, <1>4, UnsettledBlocks, MadeIsContent DEF Kept
<1>5. /\ \A s \in Inodes : /\ Held[s].len = disk[s][LENGTH]
                           /\ Held'[s].len = disk'[s][LENGTH]
                           /\ \A i \in Blocks : /\ Held[s].data[i] = Content(s, i)
                                                /\ Held'[s].data[i] = Content(s, i)'
  BY <1>2 DEF Held
<1>6. \A u \in Unsettled : u[1] \in Inodes /\ u[2] \in Blocks /\ u = <<u[1], u[2]>>
  BY DEF Unsettled
<1>7. \A u \in Unsettled : Held'[u[1]].data[u[2]] = 0
  BY <1>2, <1>4, <1>5, <1>6
<1>8. Abstract!OthersKept
  <2>1. /\ DOMAIN Held' = DOMAIN Held
        /\ \A s \in DOMAIN Held : /\ Held'[s].len = Held[s].len
                                  /\ \A i \in Blocks :
                                       \/ <<s, i>> \in Unsettled \/ <<s, i>> \in Unsettled'
                                       \/ Held'[s].data[i] = Held[s].data[i]
    BY <1>2, <1>3, <1>4, <1>5 DEF Kept
  <2>. QED BY <2>1 DEF Abstract!OthersKept, Held
<1>9. Abstract!Clear
  BY <1>1, <1>2, <1>7, <1>8 DEF Abstract!Clear, Held, On
<1>. QED BY <1>9 DEF Abstract!Next

(* PowerOff: nothing is different on the disk. *)
LEMMA PowerOffIsTurnOff ==
    ASSUME PowerOff
    PROVE  Abstract!Next
<1>1. UNCHANGED <<dir, Held, Unsettled>> /\ On /\ ~On'
  BY OutOfSight DEF PowerOff, On
<1>2. Abstract!TurnOff
  BY <1>1 DEF Abstract!TurnOff, Held, On
<1>. QED BY <1>2 DEF Abstract!Next

(* A machine that went off while a block of data was being made comes on with
   that block as the disk has it, and all others. *)
LEMMA DataIsRead ==
    ASSUME Trees, Stage, Files, TypeOK, ~(call.pc = "zero" /\ ToPointers),
           disk' = disk, Zeroing' = 0, NEW s \in Live, NEW i \in Nat
    PROVE  Content(s, i)' = Content(s, i)
<1>1. PICK words, n, f : words = calculate_indices(i) /\ n = Len(words) /\ f = Zeroing
  OBVIOUS
<1>2. /\ n \in 1 .. 3 /\ Len(words) \in 1 .. 3
      /\ n = 2 => words[1] = DIRECT_CNT + 1
      /\ n = 3 => words[1] = DIRECT_CNT + 2
  BY <1>1, Ways
<1>. DEFINE dbl == disk[s][DIRECT_CNT + 2]
<1>3. /\ f \notin PointerBlocks(s) /\ s \in PointerBlocks(s)
      /\ f # 0 => /\ f \notin {disk[s][DIRECT_CNT + 1], dbl}
                  /\ dbl # 0 => \A v \in 1 .. PTRS_PER_SECTOR : f # disk[dbl][v]
  BY <1>1, DataIsNotFollowed, PointerBlocksAre
<1>4. f # 0 /\ dbl # 0 => DOMAIN disk[dbl] = 1 .. PTRS_PER_SECTOR
  <2>1. f # 0 /\ dbl # 0 => dbl \in PointerBlocks(s) /\ dbl # s
    BY <1>1, <1>3, PointerBlocksAre, InodeIsNotBelowItself DEF Trees
  <2>. QED BY <2>1 DEF Trees, Shapes, PointerBlock
<1>5. \A b, w : b # f \/ f = 0 => Down(b, w)' = Down(b, w)
  BY <1>1 DEF Down
<1>6. \A w : Down(s, w) \in {0, disk[s][w]}
  BY DEF Down
<1>7. \A w : f # 0 /\ Down(dbl, w) # 0 => w \in 1 .. PTRS_PER_SECTOR /\ Down(dbl, w) = disk[dbl][w] /\ dbl # 0
  BY <1>4 DEF Down
<1>8. \A w : Down(0, w) = 0
  BY DEF Down
<1>. HIDE DEF dbl
<1>9. Follow(s, words, n)' = Follow(s, words, n)
  <2>1. CASE n = 1
    BY <1>3, <1>5, <2>1 DEF Follow
  <2>2. CASE n = 2
    <3>1. Down(s, words[1]) # f \/ f = 0
      BY <1>2, <1>3, <1>6, <2>2
    <3>2. Down(s, words[1])' = Down(s, words[1])
      BY <1>3, <1>5
    <3>3. Follow(s, words, n) = Down(Down(s, words[1]), words[2])
      BY <2>2 DEF Follow
    <3>4. PICK x : x = Down(s, words[1])
      OBVIOUS
    <3>5. Follow(s, words, n)' = Down(x, words[2])'
      BY <2>2, <3>2, <3>4 DEF Follow
    <3>. QED BY <1>5, <3>1, <3>3, <3>4, <3>5
  <2>3. CASE n = 3
    <3>1. PICK x, y : x = Down(s, words[1]) /\ y = Down(x, words[2])
      OBVIOUS
    <3>2. x \in {0, dbl} /\ (x # f \/ f = 0)
      BY <1>2, <1>3, <1>6, <2>3, <3>1 DEF dbl
    <3>3. y # f \/ f = 0
      BY <1>3, <1>7, <1>8, <3>1, <3>2
    <3>4. Down(s, words[1])' = x /\ Down(x, words[2])' = y
      BY <1>3, <1>5, <3>1, <3>2
    <3>5. Follow(s, words, n) = Down(y, words[3])
      BY <2>3, <3>1 DEF Follow
    <3>6. Follow(s, words, n)' = Down(y, words[3])'
      BY <2>3, <3>4 DEF Follow
    <3>. QED BY <1>5, <3>3, <3>5, <3>6
  <2>. QED BY <1>2, <2>1, <2>2, <2>3
<1>. QED BY <1>1, <1>9 DEF Content

(* The machine comes on, and not as damaged: removed files that were open then
   are gone, those that have names hold what they did. *)
LEMMA BootIsTurnOn ==
    ASSUME IInv, free_map_open
    PROVE  Abstract!Next \/ (UNCHANGED <<dir, Held, Unsettled>> /\ ~On /\ ~On')
<1>1. /\ power = "off" /\ UNCHANGED <<disk, dir>>
      /\ \/ power' = "damaged" /\ UNCHANGED <<removed, call>>
         \/ power' = "on" /\ ~torn /\ removed' = {} /\ call' = IDLE
  BY DEF free_map_open
<1>2. CASE power' = "damaged" /\ UNCHANGED <<removed, call>>
  BY <1>1, <1>2, OutOfSight DEF On
<1>3. CASE power' = "on" /\ ~torn /\ removed' = {} /\ call' = IDLE
  <2>1. /\ Zeroing' = 0 /\ ~(call.pc = "zero" /\ ToPointers) /\ ~On /\ On'
        /\ TypeOK /\ Stage /\ Files /\ Trees
    BY <1>1, <1>3, IdleIsACall DEF IInv, Halts, Zeroing, On
  <2>2. Inodes' \subseteq Inodes /\ {dir[n] : n \in Names} \cap Inodes \subseteq Inodes'
    <3>1. \A s \in Inodes : s # 0
      <4>1. removed \subseteq Sectors
        BY <2>1 DEF TypeOK
      <4>. QED BY <4>1, Layout DEF Inodes
    <3>. QED BY <1>1, <1>3, <3>1 DEF Inodes
  <2>3. \A s \in Inodes' : \A i \in Blocks : Content(s, i)' = Content(s, i)
    <3>1. Inodes' \subseteq Live
      BY <2>1, <2>2, WhatLives
    <3>. QED BY <1>1, <2>1, <3>1, BlocksAreNumbers, DataIsRead
  <2>4. Held' = [s \in Inodes' |-> Held[s]]
    BY <1>1, <2>2, <2>3 DEF Held
  <2>5. \E gone \in SUBSET ((DOMAIN Held) \ {dir[n] : n \in Names}) :
          Held' = [s \in (DOMAIN Held) \ gone |-> Held[s]]
    BY <2>2, <2>4, SomeFilesGo
  <2>6. Held' \in Abstract!Without({dir[n] : n \in Names})
    BY <2>5 DEF Abstract!Without, Held
  <2>7. Unsettled' = {}
    BY <2>1, NoneUnsettled
  <2>8. Abstract!TurnOn
    BY <1>1, <2>1, <2>6, <2>7 DEF Abstract!TurnOn, Held, On
  <2>. QED BY <2>8 DEF Abstract!Next
<1>. QED BY <1>1, <1>2, <1>3

---------------------------------------------------------------------------
(* The theorems *)

(* IInv holds always: whatever calls are made, and whenever the machine is    *)
(* turned off and on between their block writes.                              *)
THEOREM Invariant == Spec => []IInv
<1>1. Init => IInv
  BY InitHasIt
<1>2. IInv /\ [Next]_vars => IInv'
  <2>. SUFFICES ASSUME IInv, [Next]_vars
                PROVE  IInv'
    OBVIOUS
  <2>1. ASSUME NEW n \in Names, filesys_create(n) \/ inode_open(n) \/ dir_remove(n)
        PROVE  IInv'
    BY <2>1, CreateKeeps, OpenKeeps, RemoveKeeps
  <2>2. ASSUME NEW s \in Sectors, inode_close(s) \/ deallocate_inode(s)
        PROVE  IInv'
    BY <2>2, CloseKeeps, DeallocateKeeps
  <2>3. ASSUME NEW s \in Sectors, NEW w \in Writes, inode_write_at(s, w[1], w[2])
        PROVE  IInv'
    BY <2>3, WriteAtKeeps
  <2>4. CASE inode_create \/ dir_add \/ DirAddFails
    BY <2>4, InodeKeeps, AddKeeps, AddFailsKeeps
  <2>5. CASE get_data_block \/ WritePointer \/ set_to_zeros \/ LookPastEnd
    BY <2>5, GetBlockKeeps, PointerKeeps, ZerosKeep, LookPastEndKeeps
  <2>6. CASE WriteBlock \/ extend_file
    BY <2>6, WriteBlockKeeps, ExtendKeeps
  <2>7. CASE free_map_close \/ PowerOff \/ free_map_open
    BY <2>7, HaltKeeps, BootKeeps
  <2>8. CASE UNCHANGED vars
    BY <2>8, StutterKeeps
  <2>. QED BY <2>1, <2>2, <2>3, <2>4, <2>5, <2>6, <2>7, <2>8 DEF Next
<1>. QED BY <1>1, <1>2, PTL DEF Spec

(* Every variable is what its declaration says. *)
THEOREM TypeCorrect == Spec => []TypeOK
<1>1. IInv => TypeOK
  BY DEF IInv
<1>. QED BY <1>1, Invariant, PTL

(* get_data_block and free_map_release: no sector is pointed to twice, by one  *)
(* file or by two, none that is pointed to is free, and none is at once an    *)
(* inode and something else; also while a file grows and after the machine     *)
(* was off in the middle of that.                                             *)
THEOREM NoSectorIsShared == Spec => []NoSharing
<1>1. ASSUME IInv
      PROVE  NoSharing
  <2>1. TypeOK /\ Stage /\ Files /\ Trees /\ Inodes \subseteq Live
    BY <1>1, WhatLives DEF IInv
  <2>2. ASSUME NEW s \in Inodes
        PROVE  BlocksOf(s) \subseteq free_map
    BY <2>1, FilesAreMapped
  <2>3. ASSUME NEW s \in Inodes, NEW t \in Inodes, NEW p \in Pointers(s), NEW q \in Pointers(t)
        PROVE  /\ disk[p[1]][p[2]] = disk[q[1]][q[2]] => p = q
               /\ disk[p[1]][p[2]] \notin Inodes \cup lost
    <3>1. PICK b, w : /\ b \in PointerBlocks(s) /\ w \in WordsOf(s, b)
                      /\ p = <<b, w>> /\ disk[b][w] # 0
      BY PointersAre
    <3>2. PICK c, v : /\ c \in PointerBlocks(t) /\ v \in WordsOf(t, c)
                      /\ q = <<c, v>> /\ disk[c][v] # 0
      BY PointersAre
    <3>3. s \in Live /\ t \in Live
      BY <2>1
    <3>4. disk[b][w] = disk[c][v] => b = c /\ w = v
      BY <2>1, <3>1, <3>2, <3>3 DEF Trees, Forest
    <3>5. PointedTo(disk[b][w])
      BY <3>1, <3>3 DEF PointedTo
    <3>6. disk[b][w] \notin Live \cup lost
      BY <2>1, <3>5 DEF Trees, Roots
    <3>. QED BY <2>1, <3>1, <3>2, <3>4, <3>6
  <2>4. \A m, n \in Names : dir[m] = dir[n] => m = n \/ dir[m] = 0
    BY <2>1 DEF Files
  <2>. QED BY <2>2, <2>3, <2>4 DEF NoSharing
<1>2. IInv => NoSharing
  BY <1>1
<1>. QED BY <1>2, Invariant, PTL

(* dir_add, dir_remove, inode_close and deallocate_inode: between calls, a      *)
(* sector that is in use is part of a file, or was lost with an entry that     *)
(* could not be made or when the machine was turned off.                       *)
THEOREM SectorsAreAccounted == Spec => []SectorsAccounted
<1>1. ASSUME IInv, call = IDLE
      PROVE  free_map = (UNION {BlocksOf(s) : s \in Inodes}) \cup lost
  <2>1. TypeOK /\ Stage /\ Files /\ Trees /\ free_map \subseteq Sectors /\ lost \subseteq Sectors
    BY <1>1 DEF IInv, TypeOK
  <2>2. Live = Inodes /\ InFlight = {} /\ InUse = free_map
    BY <1>1, IdleIsACall, InUseIsMapped DEF Live, InFlight
  <2>3. ASSUME NEW x \in free_map
        PROVE  x \in lost \/ \E s \in Inodes : x \in BlocksOf(s)
    <3>1. x \in Live \cup lost \/ PointedTo(x)
      BY <2>1, <2>2 DEF Trees, Accounted
    <3>2. x \in Live => x \in BlocksOf(x)
      BY BlocksOfAre
    <3>3. PointedTo(x) => \E s \in Live : x \in BlocksOf(s)
      BY BlocksOfAre DEF PointedTo
    <3>. QED BY <2>2, <3>1, <3>2, <3>3
  <2>4. \A s \in Inodes : BlocksOf(s) \subseteq free_map
    BY <2>1, FilesAreMapped
  <2>5. lost \subseteq free_map
    BY <2>1, <2>2 DEF Trees, Accounted
  <2>. DEFINE used == UNION {BlocksOf(s) : s \in Inodes}
  <2>6. \A x : x \in used <=> \E s \in Inodes : x \in BlocksOf(s)
    OBVIOUS
  <2>. HIDE DEF used
  <2>7. free_map = used \cup lost
    BY <2>3, <2>4, <2>5, <2>6
  <2>. QED BY <2>7 DEF used
<1>2. IInv => SectorsAccounted
  BY <1>1 DEF SectorsAccounted
<1>. QED BY <1>2, Invariant, PTL

(* filesys_done: at any moment, also in the middle of a call, the free map file *)
(* lacks of the sectors of named files none but those that were given out      *)
(* since it was written: these are all that a failure can cost.                *)
THEOREM DamageStaysRecent == Spec => []DamageIsRecent
<1>1. ASSUME IInv, NEW x \in InFiles \ saved
      PROVE  x \in recent
  <2>1. PICK n \in Names : dir[n] # 0 /\ x \in BlocksOf(dir[n])
    BY <1>1 DEF InFiles
  <2>2. BlocksOf(dir[n]) \subseteq free_map
    BY <1>1, <2>1, FilesAreMapped DEF IInv, Inodes
  <2>. QED BY <1>1, <2>1, <2>2 DEF IInv, Halts
<1>2. IInv => DamageIsRecent
  BY <1>1 DEF DamageIsRecent
<1>. QED BY <1>2, Invariant, PTL

(* FileSpec: files keep what is written to them, and only that, whatever       *)
(* sectors are taken, freed and taken again under them; what a sector held     *)
(* before shows in a file only where a block is being made, or was when the    *)
(* machine went off.  It holds up to the moment that the machine comes on      *)
(* damaged; what can be missing then is what DamageStaysRecent says.           *)
THEOREM FilesKeepWhatIsWritten == Spec => ImplementsFileSpec
<1>1. Init => Abstract!Init
  <2>. SUFFICES ASSUME Init
                PROVE  Abstract!Init
    OBVIOUS
  <2>1. dir = [n \in Names |-> 0] /\ removed = {} /\ call = IDLE /\ power = "on"
    BY DEF Init
  <2>2. Inodes = {} /\ Unsettled = {}
    BY <2>1, NoneUnsettled, IdleIsACall DEF Inodes, Zeroing
  <2>. QED BY <2>1, <2>2 DEF Abstract!Init
<1>. DEFINE Unseen == UNCHANGED <<dir, Held, Unsettled>> /\ On' = On
<1>2. ASSUME IInv, [Next]_vars
      PROVE  Abstract!Next \/ Unseen
  <2>1. ASSUME disk' = disk, dir' = dir, removed' = removed, Zeroing = 0, Zeroing' = 0
        PROVE  UNCHANGED <<dir, Held, Unsettled>>
    BY <2>1, KeptWhenNothingWritten, QuietSteps DEF Inodes
  <2>2. ASSUME NEW n \in Names, filesys_create(n) \/ inode_open(n)
        PROVE  Unseen
    BY <2>1, <2>2 DEF filesys_create, inode_open, Runs, Machine, Zeroing, IDLE, On
  <2>3. ASSUME NEW s \in Sectors, deallocate_inode(s)
        PROVE  Unseen
    BY <2>1, <2>3, IdleIsACall DEF deallocate_inode, Runs, Machine, Zeroing, On
  <2>4. ASSUME NEW s \in Sectors, NEW w \in Writes, inode_write_at(s, w[1], w[2])
        PROVE  Unseen
    BY <2>1, <2>4 DEF inode_write_at, Runs, Machine, Zeroing, IDLE, On
  <2>5. CASE inode_create
    <3>1. Zeroing = 0 /\ Zeroing' = 0 /\ UNCHANGED <<dir, removed>> /\ On' = On
      BY <1>2, <2>5 DEF inode_create, Runs, Machine, Zeroing, IInv, Stage, Calls, On
    <3>. QED BY <2>5, <1>2, <3>1, CreationKeepsFiles, QuietSteps DEF Inodes
  <2>6. CASE get_data_block \/ DirAddFails
    <3>1. /\ call.pc # "zero" /\ call'.pc # "zero" /\ UNCHANGED <<disk, dir, removed>>
          /\ On' = On
      BY <1>2, <2>6, IdleIsACall
         DEF get_data_block, DirAddFails, Runs, Machine, IInv, Stage, Calls, On
    <3>. QED BY <2>1, <3>1 DEF Zeroing
  <2>7. CASE WritePointer \/ set_to_zeros
    BY <1>2, <2>7, PointerIsTake, ZerosAreClear
  <2>8. CASE LookPastEnd \/ free_map_close
    BY <2>8, OutOfSight DEF LookPastEnd, free_map_close, Runs, On
  <2>9. CASE PowerOff
    BY <2>9, PowerOffIsTurnOff
  <2>10. CASE UNCHANGED vars
    BY <2>10, OutOfSight DEF vars, On
  <2>11. ASSUME NEW n \in Names, dir_remove(n)
         PROVE  Abstract!Next
    BY <1>2, <2>11, RemoveIsUnlink
  <2>12. ASSUME NEW s \in Sectors, inode_close(s)
         PROVE  Abstract!Next
    BY <1>2, <2>12, CloseIsChange
  <2>13. CASE dir_add \/ WriteBlock
    BY <1>2, <2>13, AddIsCreate, WriteIsChange
  <2>14. CASE extend_file
    <3>1. On' = On
      BY <2>14 DEF extend_file, Machine, On
    <3>. QED BY <1>2, <2>14, <3>1, ExtendIsChange
  <2>15. CASE free_map_open
    BY <1>2, <2>15, BootIsTurnOn DEF On
  <2>. HIDE DEF Unseen
  <2>. QED BY <1>2, <2>2, <2>3, <2>4, <2>5, <2>6, <2>7, <2>8, <2>9, <2>10, <2>11, <2>12, <2>13,
              <2>14, <2>15 DEF Next
<1>3. IInv /\ [Next]_vars => [Abstract!Next]_(Abstract!vars)
  <2>1. Unseen => UNCHANGED Abstract!vars
    BY DEF Abstract!vars, Held, On
  <2>. QED BY <1>2, <2>1
<1>. QED BY <1>1, <1>3, Invariant, PTL DEF Spec, ImplementsFileSpec, Abstract!Spec

=============================================================================
